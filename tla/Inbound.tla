------------------------------ MODULE Inbound ------------------------------
(***************************************************************************)
(* The parser: bytes arrive in chunks of any size, processInbound() cuts    *)
(* them into lines and messages, calls back, yields to the event loop, and  *)
(* starts afresh on the next connection.                                    *)
(*                                                                          *)
(* Of a line only its text (one byte here) and its CR LF are told apart; the *)
(* text of a MSG line carries the size of its payload.  Payloads are        *)
(* arbitrary bytes, CR, LF and the text of a line among them.  One          *)
(* iteration of the loop is a step, and nothing else runs while looping.    *)
(***************************************************************************)
EXTENDS Integers, Sequences, SequencesExt

CONSTANTS
    Yields,             \* the option yieldTime is set
    MaxPayload,         \* bound: bytes of a payload
    MaxFrames,          \* bound: lines and messages sent, over all connections
    MaxConnections      \* bound: connections

ASSUME InboundAssumption ==
    /\ Yields \in BOOLEAN
    /\ {MaxPayload, MaxFrames} \subseteq Nat /\ MaxConnections \in Nat \ {0}

(* What a line can be.  Plain: +OK, PING, and others that call nobody.      *)
(* Event: PONG, a permission -ERR or an INFO, which run callbacks or        *)
(* listeners.  Fatal: other -ERRs, and an INFO that fails a check.  Unknown: *)
(* a line that no regular expression matches.                               *)
Controls == {"Plain", "Event", "Fatal", "Unknown"}
CR == <<"CR", 0>>
LF == <<"LF", 0>>
Text(line, size) == <<line, size>>
Bytes == {CR, LF, Text("Plain", 0)}     \* of payloads

Frames ==
    [line : {"MSG"}, data : BoundedSeq(Bytes, MaxPayload)] \cup
    [line : Controls, data : {<<>>}]

Encoded(f) ==
    <<Text(f.line, Len(f.data)), CR, LF>> \o (IF f.line = "MSG" THEN f.data \o <<CR, LF>> ELSE <<>>)

\* What the server sends for these frames.
Stream(frames) == FlattenSeq([i \in DOMAIN frames |-> Encoded(frames[i])])

Buffer == INSTANCE DataBuffer

NoMessage == [size |-> -1, length |-> 0]

VARIABLES
    conn,           \* up, down, or closed: the client
    inbound,        \* this.inbound
    state,          \* AWAITING_CONTROL, AWAITING_MSG_PAYLOAD, CLOSED
    msgBuffer,      \* this.msgBuffer: the size of the message, the bytes missing
    looping,        \* processInbound() is in its loop
    paused,         \* the stream is paused
    due             \* setImmediate(processInbound) calls to come

client == <<conn, inbound, state, msgBuffer, looping, paused, due>>

VARIABLES
    wire,           \* bytes sent and not yet read by the client
    sent,           \* frames sent on this connection
    handled,        \* frames handled on this connection
    framesSent, connection      \* so far

vars == <<client, wire, sent, handled, framesSent, connection>>

TypeOK ==
    /\ conn \in {"up", "down", "closed"}
    /\ inbound.byteLength = Len(FlattenSeq(inbound.buffers))
    /\ state \in {"AWAITING_CONTROL", "AWAITING_MSG_PAYLOAD", "CLOSED"}
    /\ msgBuffer.size \in -1..MaxPayload /\ msgBuffer.length \in 0..MaxPayload + 2
    /\ looping \in BOOLEAN /\ paused \in BOOLEAN /\ due \in 0..MaxConnections
    /\ sent \in Seq(Frames) /\ handled \in Seq(Frames)
    /\ framesSent \in 0..MaxFrames /\ connection \in 1..MaxConnections

Init ==
    /\ conn = "up"
    /\ inbound = Buffer!Empty /\ state = "AWAITING_CONTROL" /\ msgBuffer = NoMessage
    /\ looping = FALSE /\ paused = FALSE /\ due = 0
    /\ wire = <<>> /\ sent = <<>> /\ handled = <<>>
    /\ framesSent = 0 /\ connection = 1

-----------------------------------------------------------------------------
\* Faulty: what has been read and not parsed is kept.
LeftUnread(c, rest) ==
    /\ conn' = c
    /\ inbound' = rest
    /\ wire' = IF c = "up" THEN wire ELSE <<>>

\* What is left to parse, and of the connection: with closeStream() (down), or
\* with the close() of a callback or listener (closed), nothing.
Left(c, rest) ==
    /\ conn' = c
    /\ inbound' = IF c = "up" THEN rest ELSE Buffer!Empty
    /\ wire' = IF c = "up" THEN wire ELSE <<>>

-----------------------------------------------------------------------------
(* processInbound()                                                         *)

\* Its entry, which resumes a paused stream.
Enter == looping' = TRUE /\ paused' = FALSE

\* handlers.data, with the chunk read.
Data ==
    /\ ~looping /\ conn = "up" /\ ~paused
    /\ \E n \in 1..Len(wire) :
        /\ inbound' = Buffer!Fill(inbound, SubSeq(wire, 1, n))
        /\ wire' = SubSeq(wire, n + 1, Len(wire))
    /\ Enter
    /\ UNCHANGED <<conn, state, msgBuffer, due, sent, handled, framesSent, connection>>

\* The immediate of a yield.
Immediate ==
    /\ ~looping /\ due > 0 /\ due' = due - 1
    /\ Enter
    /\ UNCHANGED <<conn, inbound, state, msgBuffer, wire, sent, handled, framesSent, connection>>

More == conn # "closed" /\ inbound.byteLength > 0

\* The loop ends, or returns to wait for the rest of a line or of a payload.
Wait ==
    /\ looping /\ looping' = FALSE
    /\ More => \/ state = "AWAITING_CONTROL" /\ Buffer!ProtoLen(inbound) = -1
               \/ state = "AWAITING_MSG_PAYLOAD" /\ inbound.byteLength < msgBuffer.length
    /\ UNCHANGED <<conn, inbound, state, msgBuffer, paused, due, wire, sent, handled,
                   framesSent, connection>>

\* What the regular expressions make of the bytes up to a CR LF.
LineOf(data) ==
    IF Len(data) = 3 /\ data[1] \notin {CR, LF} THEN data[1] ELSE Text("Unknown", 0)

\* A MSG line: its payload is next.
MsgLine(line, rest) ==
    /\ line[1] = "MSG"
    /\ msgBuffer' = [size |-> line[2], length |-> line[2] + 2]
    /\ state' = "AWAITING_MSG_PAYLOAD"
    /\ Left("up", rest)
    /\ UNCHANGED <<looping, handled>>

\* Any other line, and what its callbacks do to the client.
ControlLine(line, rest) ==
    /\ line[1] # "MSG"
    /\ \E c \in CASE line[1] \in {"Plain", "Unknown"} -> {"up"}
                  [] line[1] = "Event" -> {"up", "closed"}
                  [] line[1] = "Fatal" -> {"down", "closed"} :
        /\ Left(c, rest)
        /\ state' = IF c = "closed" THEN "CLOSED" ELSE state
    /\ looping' = (line[1] \notin {"Fatal", "Unknown"})
    /\ handled' = Append(handled, [line |-> line[1], data |-> <<>>])
    /\ UNCHANGED msgBuffer

ReadLine ==
    /\ looping /\ More
    /\ state = "AWAITING_CONTROL"
    /\ \E len \in {Buffer!ProtoLen(inbound)} :
        /\ len # -1
        /\ \E drained \in {Buffer!Drain(inbound, len)} :
            LET line == LineOf(drained.data) IN
            MsgLine(line, drained.rest) \/ ControlLine(line, drained.rest)
    /\ UNCHANGED <<paused, due, sent, framesSent, connection>>

\* Faulty: the stream is paused and nothing is scheduled to resume it.
YieldForGood(c) ==
    /\ Yields
    /\ paused' = (c = "up")
    /\ looping' = FALSE
    /\ UNCHANGED due

\* yieldTime has passed since processInbound() was called.
Yield(c) ==
    /\ Yields
    /\ paused' = (c = "up")
    /\ due' = due + 1
    /\ looping' = FALSE

\* MsgBuffer.fill(): the data is what precedes the last CR LF.
MessageOf(data) == [line |-> "MSG", data |-> SubSeq(data, 1, Len(data) - 2)]

\* A payload and its CR LF; the callback of processMsg() may close the client,
\* whose state CLOSED is then overwritten.
ReadPayload ==
    /\ looping /\ More
    /\ state = "AWAITING_MSG_PAYLOAD" /\ inbound.byteLength >= msgBuffer.length
    /\ state' = "AWAITING_CONTROL" /\ msgBuffer' = NoMessage
    /\ \E drained \in {Buffer!Drain(inbound, msgBuffer.length)}, c \in {"up", "closed"} :
        /\ handled' = Append(handled, MessageOf(drained.data))
        /\ Left(c, drained.rest)
        /\ Yield(c) \/ UNCHANGED <<looping, paused, due>>
    /\ UNCHANGED <<sent, framesSent, connection>>

-----------------------------------------------------------------------------
(* The connection and the server                                            *)

\* The close event of the socket, or closeStream() by a timer.
Lose ==
    /\ ~looping /\ conn = "up"
    /\ Left("down", inbound)
    /\ UNCHANGED <<state, msgBuffer, looping, paused, due, sent, handled, framesSent, connection>>

Close ==
    /\ ~looping /\ conn # "closed"
    /\ Left("closed", inbound)
    /\ state' = "CLOSED"
    /\ UNCHANGED <<msgBuffer, looping, paused, due, sent, handled, framesSent, connection>>

\* Faulty: the parser goes on where it was.
ReconnectMidMessage ==
    /\ ~looping /\ conn = "down" /\ connection < MaxConnections
    /\ conn' = "up" /\ paused' = FALSE
    /\ sent' = <<>> /\ handled' = <<>> /\ connection' = connection + 1
    /\ UNCHANGED <<inbound, state, msgBuffer, looping, due, wire, framesSent>>

\* prepareConnection() and a new stream.
Reconnect ==
    /\ ~looping /\ conn = "down" /\ connection < MaxConnections
    /\ conn' = "up" /\ state' = "AWAITING_CONTROL" /\ paused' = FALSE
    /\ sent' = <<>> /\ handled' = <<>> /\ connection' = connection + 1
    /\ UNCHANGED <<inbound, msgBuffer, looping, due, wire, framesSent>>

ServerSend(f) ==
    /\ conn = "up" /\ framesSent < MaxFrames
    /\ framesSent' = framesSent + 1
    /\ sent' = Append(sent, f) /\ wire' = wire \o Encoded(f)
    /\ UNCHANGED <<client, handled, connection>>

ProcessInbound == Wait \/ ReadLine \/ ReadPayload

Next ==
    \/ Data \/ Immediate
    \/ ProcessInbound
    \/ Lose \/ Close \/ Reconnect
    \/ \E f \in Frames : ServerSend(f)

Spec == Init /\ [][Next]_vars

\* Bytes arrive, immediates run, and processInbound() ends.
FairSpec == Spec /\ WF_vars(Data) /\ WF_vars(Immediate) /\ WF_vars(ProcessInbound)

-----------------------------------------------------------------------------
(* Properties                                                               *)

\* However the bytes are cut into chunks, whatever the payloads contain, and
\* wherever earlier connections stopped, the frames handled are the first of
\* those sent on this connection: none is split, joined, skipped or repeated
\* (databuffer.ts 40-97, messagebuffer.ts 43-67, processInbound).
HandledAsSent == IsPrefix(handled, sent)

\* No byte is lost between the socket and the parser: on a connection that is
\* up the frames handled, the MSG line that has been read, the buffer and what
\* is on the way make up what was sent (DataBuffer.drain, closeStream).
EveryByteKept ==
    LET header == IF state = "AWAITING_MSG_PAYLOAD"
                  THEN <<Text("MSG", msgBuffer.size), CR, LF>> ELSE <<>>
    IN  conn = "up" =>
            Stream(handled) \o header \o FlattenSeq(inbound.buffers) \o wire = Stream(sent)

\* On a connection that lasts every frame is handled, though the parser pauses
\* the stream to yield.  It may stop at an unknown line until more arrives
\* (protocolhandler.ts:700-703).
EveryFrameHandled ==
    conn = "up" /\ handled # sent ~>
        \/ conn # "up" \/ handled = sent
        \/ \E i \in DOMAIN handled : handled[i].line = "Unknown"
=============================================================================
