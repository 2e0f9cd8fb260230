----------------------------- MODULE DataBuffer -----------------------------
(***************************************************************************)
(* DataBuffer, the queue of chunks between the socket and the parser, and   *)
(* between sendCommand() and the socket, as operators on its two fields.    *)
(* A byte is a model value of the module that uses it; CR and LF are told   *)
(* apart.                                                                   *)
(***************************************************************************)
EXTENDS Integers, SequencesExt

CONSTANTS CR, LF

Empty == [buffers |-> <<>>, byteLength |-> 0]       \* also what reset() leaves

Fill(b, data) ==
    [buffers |-> Append(b.buffers, data), byteLength |-> b.byteLength + Len(data)]

Pack(buffers) == IF Len(buffers) > 1 THEN <<FlattenSeq(buffers)>> ELSE buffers

\* Faulty: the bytes drained are still counted.
DrainUncounted(b, n) ==
    IF b.byteLength < n \/ b.buffers = <<>> THEN [data |-> <<>>, rest |-> b]
    ELSE LET v == Pack(b.buffers)[1] IN
         [data |-> SubSeq(v, 1, n),
          rest |-> [b EXCEPT !.buffers = <<SubSeq(v, n + 1, Len(v))>>]]

\* drain(n): the first n bytes, or nothing if there are fewer.
Drain(b, n) ==
    IF b.byteLength < n \/ b.buffers = <<>> THEN [data |-> <<>>, rest |-> b]
    ELSE LET v == Pack(b.buffers)[1] IN
         [data |-> SubSeq(v, 1, n),
          rest |-> [buffers |-> IF b.byteLength > n THEN <<SubSeq(v, n + 1, Len(v))>> ELSE <<>>,
                    byteLength |-> b.byteLength - n]]

\* The length of the first line of these bytes with its CR LF, or -1.  A CR is
\* armed for a LF unless it follows an armed CR.
LineLength(bytes) ==
    LET armed[i \in 0..Len(bytes)] == i > 0 /\ bytes[i] = CR /\ ~armed[i - 1]
        ends == {i \in 1..Len(bytes) : bytes[i] = LF /\ armed[i - 1]}
    IN  IF ends = {} THEN -1 ELSE Min(ends)

\* protoLen()
ProtoLen(b) == LineLength(FlattenSeq(b.buffers))
=============================================================================
