---------------------------- MODULE InboundProofs ----------------------------
(***************************************************************************)
(* Theorems about Inbound, for payloads, numbers of frames and of            *)
(* connections without a bound: what the parser handles is what was sent,    *)
(* however it was cut into chunks, and no byte is lost.                      *)
(*                                                                         *)
(* The argument: what is in the buffer and what is on the way are together   *)
(* what the frames that are not yet handled are made of, less a MSG line     *)
(* that has been read.  So the buffer starts with a frame, or with a payload *)
(* whose size is known, and the CR LF that ends a line is its third byte     *)
(* whatever the payloads contain.                                           *)
(***************************************************************************)
EXTENDS Inbound, QueueLemmas, TLAPS

-----------------------------------------------------------------------------
(* Frames and what they are made of                                         *)

Byte == {"MSG", "CR", "LF", "Plain", "Event", "Fatal", "Unknown"} \X Nat

Header(f) == <<Text(f.line, Len(f.data)), CR, LF>>
Body(f) == IF f.line = "MSG" THEN f.data \o <<CR, LF>> ELSE <<>>

LEMMA FrameIs ==
    ASSUME NEW f \in Frames
    PROVE  /\ f.line \in Controls \cup {"MSG"} /\ f.data \in Seq(Byte)
           /\ Len(f.data) \in Nat /\ Len(f.data) <= MaxPayload
           /\ f.line # "MSG" => f = [line |-> f.line, data |-> <<>>]
           /\ f = [line |-> f.line, data |-> f.data]
<1>0. PICK n \in Nat : n = MaxPayload
  BY InboundAssumption
<1>1. CASE f \in [line : {"MSG"}, data : BoundedSeq(Bytes, MaxPayload)]
  <2>1. f.line = "MSG" /\ f.data \in BoundedSeq(Bytes, n) /\ f = [line |-> f.line, data |-> f.data]
    BY <1>0, <1>1
  <2>2. PICK m \in 0..n : f.data \in [1..m -> Bytes]
    BY <2>1, Zenon DEF BoundedSeq, SeqOf
  <2>3. Bytes \subseteq Byte
    BY DEF Bytes, Byte, CR, LF, Text
  <2>4. f.data \in Seq(Byte) /\ Len(f.data) = m
    BY <2>2, <2>3
  <2> QED
    BY <1>0, <2>1, <2>4
<1>2. CASE f \in [line : Controls, data : {<<>>}]
  <2>1. f.line \in Controls /\ f.data = <<>> /\ f = [line |-> f.line, data |-> <<>>]
    BY <1>2
  <2>2. <<>> \in Seq(Byte) /\ Len(<<>>) = 0
    OBVIOUS
  <2> QED
    BY <1>0, <2>1, <2>2
<1> QED
  BY <1>1, <1>2 DEF Frames

LEMMA EncodedIs ==
    ASSUME NEW f \in Frames
    PROVE  /\ Header(f) \in Seq(Byte) /\ Len(Header(f)) = 3 /\ Body(f) \in Seq(Byte)
           /\ Encoded(f) = Cat(Header(f), Body(f)) /\ Encoded(f) \in Seq(Byte)
<1>1. /\ f.line \in Controls \cup {"MSG"} /\ f.data \in Seq(Byte) /\ Len(f.data) \in Nat
  BY FrameIs
<1>2. CR \in Byte /\ LF \in Byte /\ Text(f.line, Len(f.data)) \in Byte
  BY <1>1 DEF Byte, CR, LF, Text, Controls
<1>3. Header(f) \in Seq(Byte) /\ Len(Header(f)) = 3
  BY <1>2 DEF Header
<1>4. Body(f) \in Seq(Byte)
  BY <1>1, <1>2 DEF Body
<1>5. Encoded(f) = Cat(Header(f), Body(f))
  BY Zenon DEF Encoded, Header, Body, Cat
<1> QED
  BY <1>3, <1>4, <1>5, CatSeq

Codes(frames) == [i \in DOMAIN frames |-> Encoded(frames[i])]

LEMMA CodesAre ==
    ASSUME NEW p \in Seq(Frames), NEW q \in Seq(Frames)
    PROVE  /\ Codes(p) \in Seq(Seq(Byte))
           /\ Codes(p \o q) = Codes(p) \o Codes(q)
<1>1. \A r \in Seq(Frames) : Codes(r) \in Seq(Seq(Byte)) /\ Len(Codes(r)) = Len(r)
                             /\ \A i \in 1..Len(r) : Codes(r)[i] = Encoded(r[i])
  <2>1. ASSUME NEW r \in Seq(Frames)
        PROVE  Codes(r) \in Seq(Seq(Byte)) /\ Len(Codes(r)) = Len(r)
               /\ \A i \in 1..Len(r) : Codes(r)[i] = Encoded(r[i])
    <3>1. PICK n \in Nat : n = Len(r) /\ DOMAIN r = 1..n
      OBVIOUS
    <3>2. \A i \in 1..n : Encoded(r[i]) \in Seq(Byte)
      BY <3>1, EncodedIs
    <3>3. Codes(r) \in [1..n -> Seq(Byte)] /\ \A i \in 1..n : Codes(r)[i] = Encoded(r[i])
      BY <3>1, <3>2 DEF Codes
    <3> HIDE DEF Codes
    <3>4. Codes(r) \in Seq(Seq(Byte)) /\ Len(Codes(r)) = n
      BY <3>3
    <3> QED
      BY <3>1, <3>3, <3>4
  <2> QED
    BY <2>1
<1>2. PICK m \in Nat : m = Len(p)
  OBVIOUS
<1>3. PICK n \in Nat : n = Len(q)
  OBVIOUS
<1>4. p \in OfLength(Frames, m) /\ q \in OfLength(Frames, n) /\ m + n \in Nat
  BY <1>2, <1>3, SeqOfLength
<1>5. PICK r \in OfLength(Frames, m + n) : r = Cat(p, q) /\ Joins(r, p, q, m, n)
  BY <1>4, CatType, CatJoins, Zenon
<1>6. r \in Seq(Frames) /\ Len(r) = m + n
  BY <1>4, LengthOf
<1>7. Codes(p) \in OfLength(Seq(Byte), m) /\ Codes(q) \in OfLength(Seq(Byte), n)
      /\ Codes(r) \in OfLength(Seq(Byte), m + n)
  <2> HIDE DEF Codes
  <2> QED
    BY <1>1, <1>2, <1>3, <1>4, <1>6, SeqOfLength
<1>8. PICK c \in OfLength(Seq(Byte), m + n) :
         c = Cat(Codes(p), Codes(q)) /\ Joins(c, Codes(p), Codes(q), m, n)
  BY <1>7, CatType, CatJoins, Zenon
<1>9. \A i \in 1..(m + n) : c[i] = Codes(r)[i]
  <2>1. /\ \A i \in 1..m : Codes(p)[i] = Encoded(p[i])
        /\ \A i \in 1..n : Codes(q)[i] = Encoded(q[i])
        /\ \A i \in 1..(m + n) : Codes(r)[i] = Encoded(r[i])
    BY <1>1, <1>2, <1>3, <1>6, Zenon
  <2>2. ASSUME NEW i \in 1..(m + n) PROVE c[i] = Codes(r)[i]
    <3>1. CASE i \in 1..m
      <4>1. c[i] = Codes(p)[i] /\ r[i] = p[i]
        BY <1>5, <1>8, <3>1, Zenon DEF Joins
      <4> QED
        BY <2>1, <3>1, <4>1, Zenon
    <3>2. CASE i \notin 1..m
      <4>1. PICK j \in 1..n : i = m + j
        <5>1. i - m \in 1..n /\ i = m + (i - m)
          BY <3>2
        <5> QED
          BY <5>1
      <4>2. c[i] = Codes(q)[j] /\ r[i] = q[j]
        BY <1>5, <1>8, <4>1, Zenon DEF Joins
      <4> QED
        BY <2>1, <4>1, <4>2, Zenon
    <3> QED
      BY <3>1, <3>2
  <2> QED
    BY <2>2
<1>10. c = Codes(r)
  BY <1>4, <1>7, <1>9, SameElements, Zenon
<1> QED
  <2>1. p \o q = r /\ Codes(p) \o Codes(q) = c
    BY <1>5, <1>8, Zenon DEF Cat
  <2> QED
    BY <1>1, <1>10, <2>1, Zenon

LEMMA StreamIs ==
    ASSUME NEW p \in Seq(Frames), NEW q \in Seq(Frames)
    PROVE  Stream(p) \in Seq(Byte) /\ Stream(p \o q) = Cat(Stream(p), Stream(q))
<1>1. \A r : Stream(r) = FlattenSeq(Codes(r))
  BY Zenon DEF Stream, Codes
<1>2. /\ Codes(p) \in Seq(Seq(Byte)) /\ Codes(q) \in Seq(Seq(Byte))
      /\ Codes(p \o q) = Codes(p) \o Codes(q)
  BY CodesAre
<1>3. FlattenSeq(Codes(p)) \in Seq(Byte)
  BY <1>2, FlattenType, Zenon
<1>4. FlattenSeq(Codes(p) \o Codes(q)) = FlattenSeq(Codes(p)) \o FlattenSeq(Codes(q))
  BY <1>2, FlattenConcat, Zenon
<1> QED
  BY <1>1, <1>2, <1>3, <1>4, Zenon DEF Cat

LEMMA StreamOfNone == Stream(<< >>) = << >>
<1>1. Codes(<< >>) = << >>
  BY DEF Codes
<1> QED
  BY <1>1, FlattenEmpty, Zenon DEF Stream, Codes

LEMMA StreamOfOne ==
    ASSUME NEW f \in Frames
    PROVE  Stream(<<f>>) = Encoded(f)
<1>1. Encoded(f) \in Seq(Byte)
  BY EncodedIs
<1>2. DOMAIN <<f>> = {1} /\ <<f>>[1] = f /\ DOMAIN <<Encoded(f)>> = {1} /\ <<Encoded(f)>>[1] = Encoded(f)
  OBVIOUS
<1>3. Codes(<<f>>) = <<Encoded(f)>>
  BY <1>1, <1>2 DEF Codes
<1>4. FlattenSeq(<<Encoded(f)>>) = Encoded(f)
  BY <1>1, FlattenOne, Zenon
<1> QED
  BY <1>3, <1>4, Zenon DEF Stream, Codes

\* The first frame of some, and the others.
LEMMA FirstFrame ==
    ASSUME NEW p \in Seq(Frames), p # << >>
    PROVE  /\ Head(p) \in Frames /\ Tail(p) \in Seq(Frames) /\ p = <<Head(p)>> \o Tail(p)
           /\ Stream(p) = Cat(Header(Head(p)), Cat(Body(Head(p)), Stream(Tail(p))))
<1>1. PICK f \in Frames : f = Head(p)
  OBVIOUS
<1>2. PICK r \in Seq(Frames) : r = Tail(p)
  <2>1. Tail(p) \in Seq(Frames)
    OBVIOUS
  <2> QED
    BY <2>1, Zenon
<1>3. <<f>> \in Seq(Frames) /\ p = <<f>> \o r
  BY <1>1, <1>2
<1>4. Stream(p) = Cat(Encoded(f), Stream(r)) /\ Stream(r) \in Seq(Byte)
  <2>1. Stream(<<f>> \o r) = Cat(Stream(<<f>>), Stream(r))
    BY <1>3, StreamIs, Zenon
  <2>2. Stream(r) \in Seq(Byte)
    BY <1>3, StreamIs, Zenon
  <2> QED
    BY <1>3, <2>1, <2>2, StreamOfOne, Zenon
<1>5. Encoded(f) = Cat(Header(f), Body(f)) /\ Header(f) \in Seq(Byte) /\ Body(f) \in Seq(Byte)
  BY EncodedIs
<1>6. Cat(Cat(Header(f), Body(f)), Stream(r)) = Cat(Header(f), Cat(Body(f), Stream(r)))
  <2>1. Header(f) \in Seq(Byte) /\ Body(f) \in Seq(Byte) /\ Stream(r) \in Seq(Byte)
    BY <1>4, <1>5
  <2> QED
    BY <2>1, CatAssoc
<1> QED
  BY <1>1, <1>2, <1>3, <1>4, <1>5, <1>6, Zenon

-----------------------------------------------------------------------------
(* DataBuffer                                                               *)

Content(b) == FlattenSeq(b.buffers)

Buffers == {b \in [buffers : Seq(Seq(Byte)), byteLength : Nat] : b.byteLength = Len(Content(b))}

LEMMA ContentType ==
    ASSUME NEW b \in Buffers
    PROVE  Content(b) \in Seq(Byte) /\ b.byteLength = Len(Content(b)) /\ b.byteLength \in Nat
           /\ b.buffers \in Seq(Seq(Byte))
<1>1. b.buffers \in Seq(Seq(Byte)) /\ b.byteLength = Len(Content(b)) /\ b.byteLength \in Nat
  BY DEF Buffers
<1>2. FlattenSeq(b.buffers) \in Seq(Byte)
  BY <1>1, FlattenType, Zenon
<1> QED
  BY <1>1, <1>2 DEF Content

LEMMA EmptyIs == Buffer!Empty \in Buffers /\ Content(Buffer!Empty) = << >>
<1>1. Buffer!Empty = [buffers |-> << >>, byteLength |-> 0]
  BY Zenon DEF Buffer!Empty
<1>2. Content(Buffer!Empty) = << >>
  BY <1>1, FlattenEmpty DEF Content
<1>3. << >> \in Seq(Seq(Byte)) /\ Len(<< >>) = 0
  OBVIOUS
<1> QED
  BY <1>1, <1>2, <1>3 DEF Buffers

LEMMA FillIs ==
    ASSUME NEW b \in Buffers, NEW data \in Seq(Byte)
    PROVE  Buffer!Fill(b, data) \in Buffers /\ Content(Buffer!Fill(b, data)) = Cat(Content(b), data)
<1>1. PICK bs \in Seq(Seq(Byte)) : bs = b.buffers
  BY ContentType
<1>2. Buffer!Fill(b, data) = [buffers |-> Append(bs, data), byteLength |-> b.byteLength + Len(data)]
  BY <1>1, Zenon DEF Buffer!Fill
<1>3. FlattenSeq(Append(bs, data)) = FlattenSeq(bs) \o data
  BY FlattenAppend, Zenon
<1>4. Content(Buffer!Fill(b, data)) = Cat(Content(b), data)
  BY <1>1, <1>2, <1>3 DEF Content, Cat
<1>5. Append(bs, data) \in Seq(Seq(Byte))
  OBVIOUS
<1>6. Len(Cat(Content(b), data)) = b.byteLength + Len(data) /\ b.byteLength + Len(data) \in Nat
  <2>1. Content(b) \in Seq(Byte) /\ b.byteLength = Len(Content(b))
    BY ContentType
  <2>2. Len(Cat(Content(b), data)) = Len(Content(b)) + Len(data)
    BY <2>1, CatSeq, Zenon
  <2> QED
    BY <2>1, <2>2
<1> QED
  BY <1>2, <1>4, <1>5, <1>6 DEF Buffers

LEMMA PackIs ==
    ASSUME NEW b \in Buffers, b.buffers # << >>
    PROVE  Buffer!Pack(b.buffers)[1] = Content(b)
<1>1. PICK bs \in Seq(Seq(Byte)) : bs = b.buffers
  BY ContentType
<1>2. Buffer!FlattenSeq(bs) = FlattenSeq(bs)
  BY Zenon DEF Buffer!FlattenSeq, FlattenSeq
<1>3. Buffer!Pack(bs) = IF Len(bs) > 1 THEN <<FlattenSeq(bs)>> ELSE bs
  BY <1>2, Zenon DEF Buffer!Pack
<1>4. CASE Len(bs) > 1
  BY <1>1, <1>3, <1>4 DEF Content
<1>5. CASE ~ (Len(bs) > 1)
  <2>1. bs[1] \in Seq(Byte) /\ bs = <<bs[1]>>
    BY <1>1, <1>5
  <2>2. FlattenSeq(<<bs[1]>>) = bs[1]
    BY <2>1, FlattenOne, Zenon
  <2> QED
    BY <1>1, <1>3, <1>5, <2>1, <2>2, Zenon DEF Content
<1> QED
  BY <1>4, <1>5

\* drain(n) of a buffer that holds n bytes cuts its content.
LEMMA DrainIs ==
    ASSUME NEW b \in Buffers, b.byteLength > 0, NEW n \in Nat, n <= b.byteLength
    PROVE  /\ Buffer!Drain(b, n).data = Cut(Content(b), 0, n)
           /\ Buffer!Drain(b, n).rest \in Buffers
           /\ Content(Buffer!Drain(b, n).rest) = Cut(Content(b), n, Len(Content(b)))
<1>1. PICK v \in Seq(Byte) : v = Content(b) /\ b.byteLength = Len(v) /\ Len(v) > 0 /\ n \in 0..Len(v)
  BY ContentType
<1>2. b.buffers # << >>
  BY <1>1, FlattenEmpty DEF Content
<1>3. Buffer!Pack(b.buffers)[1] = v
  BY <1>1, <1>2, PackIs, Zenon
<1>4. PICK s : s = Cut(v, n, Len(v))
  OBVIOUS
<1>5. s \in Seq(Byte) /\ Len(s) = Len(v) - n
  BY <1>1, <1>4, CutBack
<1>6. PICK rest : rest = [buffers |-> IF b.byteLength > n THEN <<s>> ELSE << >>,
                         byteLength |-> b.byteLength - n]
  OBVIOUS
<1>7. Buffer!Drain(b, n) = [data |-> Cut(v, 0, n), rest |-> rest]
  <2>1. ~ (b.byteLength < n \/ b.buffers = << >>)
    BY <1>1, <1>2
  <2>2. Buffer!Drain(b, n) = [data |-> SubSeq(v, 1, n),
          rest |-> [buffers |-> IF b.byteLength > n THEN <<SubSeq(v, n + 1, Len(v))>> ELSE << >>,
                    byteLength |-> b.byteLength - n]]
    BY <1>3, <2>1, Zenon DEF Buffer!Drain
  <2>3. Cut(v, 0, n) = SubSeq(v, 1, n) /\ s = SubSeq(v, n + 1, Len(v))
    BY <1>4 DEF Cut
  <2> QED
    BY <1>6, <2>2, <2>3, Zenon
<1>8. rest \in Buffers /\ Content(rest) = s
  <2>1. CASE b.byteLength > n
    <3>1. rest = [buffers |-> <<s>>, byteLength |-> Len(s)]
      BY <1>1, <1>5, <1>6, <2>1
    <3>2. FlattenSeq(<<s>>) = s
      BY <1>5, FlattenOne, Zenon
    <3>3. <<s>> \in Seq(Seq(Byte)) /\ Len(s) \in Nat
      BY <1>5
    <3> QED
      BY <3>1, <3>2, <3>3 DEF Buffers, Content
  <2>2. CASE ~ (b.byteLength > n)
    <3>1. s = << >>
      BY <1>1, <1>5, <2>2
    <3>2. rest = Buffer!Empty
      BY <1>1, <1>6, <2>2 DEF Buffer!Empty
    <3> QED
      BY <3>1, <3>2, EmptyIs, Zenon
  <2> QED
    BY <2>1, <2>2
<1>9. Buffer!Drain(b, n).data = Cut(v, 0, n) /\ Buffer!Drain(b, n).rest = rest
  BY <1>7
<1> QED
  BY <1>1, <1>4, <1>8, <1>9, Zenon

-----------------------------------------------------------------------------
(* The end of a line                                                        *)

Arms(f, bytes, n) ==
    f = [i \in 0..n |-> i > 0 /\ bytes[i] = CR /\ ~f[i - 1]]

LEMMA ArmsExists ==
    ASSUME NEW bytes
    PROVE  \A n \in Nat : \E f \in [0..n -> BOOLEAN] : Arms(f, bytes, n)
<1> DEFINE T == {n \in Nat : \E f \in [0..n -> BOOLEAN] : Arms(f, bytes, n)}
<1>1. 0 \in T
  <2> DEFINE f == [i \in 0..0 |-> FALSE]
  <2>1. f \in [0..0 -> BOOLEAN]
    OBVIOUS
  <2>2. f = [i \in 0..0 |-> i > 0 /\ bytes[i] = CR /\ ~f[i - 1]]
    <3>1. \A i \in 0..0 : ~ (i > 0)
      OBVIOUS
    <3>2. \A i \in 0..0 : (i > 0 /\ bytes[i] = CR /\ ~f[i - 1]) = FALSE
      BY <3>1, Zenon
    <3> QED
      BY <3>2, Zenon
  <2>3. Arms(f, bytes, 0)
    BY <2>2, Zenon DEF Arms
  <2> HIDE DEF f
  <2> QED
    BY <2>1, <2>3
<1>2. ASSUME NEW n \in Nat, n \in T PROVE n + 1 \in T
  <2>1. PICK f \in [0..n -> BOOLEAN] : Arms(f, bytes, n)
    BY <1>2
  <2>2. \A i \in 0..n : f[i] = (i > 0 /\ bytes[i] = CR /\ ~f[i - 1])
    BY <2>1 DEF Arms
  <2>3. PICK last \in BOOLEAN : last = (bytes[n + 1] = CR /\ ~f[n])
    OBVIOUS
  <2> DEFINE g == [i \in 0..(n + 1) |-> IF i = n + 1 THEN last ELSE f[i]]
  <2>4. g \in [0..(n + 1) -> BOOLEAN] /\ g[n + 1] = last /\ \A i \in 0..n : g[i] = f[i]
    OBVIOUS
  <2>5. DOMAIN g = 0..(n + 1)
    OBVIOUS
  <2> HIDE DEF g
  <2>6. ASSUME NEW i \in 0..(n + 1) PROVE g[i] = (i > 0 /\ bytes[i] = CR /\ ~g[i - 1])
    <3>1. CASE i = n + 1
      <4>1. i > 0 /\ i - 1 = n /\ n \in 0..n
        BY <3>1
      <4>2. g[i - 1] = f[n] /\ g[i] = last /\ bytes[i] = bytes[n + 1]
        BY <2>4, <3>1, <4>1
      <4> QED
        BY <2>3, <4>1, <4>2, Zenon
    <3>2. CASE i \in 1..n
      <4>1. i \in 0..n /\ i - 1 \in 0..n
        BY <3>2
      <4>2. g[i] = f[i] /\ g[i - 1] = f[i - 1]
        BY <2>4, <4>1, Zenon
      <4>3. f[i] = (i > 0 /\ bytes[i] = CR /\ ~f[i - 1])
        BY <2>2, <4>1, Zenon
      <4> QED
        BY <4>2, <4>3, Zenon
    <3>3. CASE i = 0
      <4>1. ~ (i > 0) /\ i \in 0..n
        BY <3>3
      <4>2. ~ f[i] /\ g[i] = f[i]
        BY <2>2, <2>4, <4>1, Zenon
      <4> QED
        BY <4>1, <4>2, Zenon
    <3> QED
      BY <3>1, <3>2, <3>3
  <2>7. g = [i \in 0..(n + 1) |-> i > 0 /\ bytes[i] = CR /\ ~g[i - 1]]
    BY <2>4, <2>5, <2>6, Zenon
  <2>8. Arms(g, bytes, n + 1)
    BY <2>7, Zenon DEF Arms
  <2> QED
    BY <2>4, <2>8
<1>3. Nat \subseteq T
  <2> HIDE DEF T
  <2> QED
    BY <1>1, <1>2, NatSetInduction
<1> QED
  BY <1>3

Armed(bytes) == CHOOSE f : Arms(f, bytes, Len(bytes))

LEMMA ArmedIs ==
    ASSUME NEW bytes \in Seq(Byte)
    PROVE  \A i \in 0..Len(bytes) :
              Armed(bytes)[i] = (i > 0 /\ bytes[i] = CR /\ ~Armed(bytes)[i - 1])
<1>1. Len(bytes) \in Nat
  OBVIOUS
<1>2. \E f : Arms(f, bytes, Len(bytes))
  BY <1>1, ArmsExists
<1>3. Arms(Armed(bytes), bytes, Len(bytes))
  BY <1>2, Zenon DEF Armed
<1> QED
  BY <1>3 DEF Arms

Ends(bytes) == {i \in 1..Len(bytes) : bytes[i] = LF /\ Armed(bytes)[i - 1]}

LEMMA LineLengthIsMin ==
    ASSUME NEW bytes
    PROVE  Buffer!LineLength(bytes) = IF Ends(bytes) = {} THEN -1 ELSE Min(Ends(bytes))
<1>1. \A T : Buffer!Min(T) = Min(T)
  BY Zenon DEF Buffer!Min, Min
<1> QED
  BY <1>1, Zenon DEF Buffer!LineLength, Ends, Armed, Arms

\* The line that a frame starts with ends where it should: there is no earlier
\* CR LF, and none before the third byte has arrived.
LEMMA LineLengthIs ==
    ASSUME NEW bytes \in Seq(Byte), NEW f \in Frames,
           \A i \in 1..Len(bytes) : i <= 3 => bytes[i] = Header(f)[i]
    PROVE  Buffer!LineLength(bytes) = IF Len(bytes) < 3 THEN -1 ELSE 3
<1>1. PICK n \in Nat : n = Len(bytes)
  OBVIOUS
<1>2. PICK t : t = Text(f.line, Len(f.data))
  OBVIOUS
<1>3. t # CR /\ t # LF /\ CR # LF
  <2>1. f.line \in Controls \cup {"MSG"}
    BY FrameIs
  <2> QED
    BY <1>2, <2>1 DEF Text, CR, LF, Controls
<1>4. Header(f)[1] = t /\ Header(f)[2] = CR /\ Header(f)[3] = LF
  BY <1>2 DEF Header
<1>5. (n >= 1 => bytes[1] = t) /\ (n >= 2 => bytes[2] = CR) /\ (n >= 3 => bytes[3] = LF)
  <2>1. \A i \in 1..n : i <= 3 => bytes[i] = Header(f)[i]
    BY <1>1
  <2> QED
    BY <1>4, <2>1
<1>6. \A i \in 0..n : Armed(bytes)[i] = (i > 0 /\ bytes[i] = CR /\ ~Armed(bytes)[i - 1])
  BY <1>1, ArmedIs
<1>7. n >= 1 => ~Armed(bytes)[1]
  <2>1. n >= 1 => 1 \in 0..n
    OBVIOUS
  <2> QED
    BY <1>3, <1>5, <1>6, <2>1, Zenon
<1>8. n >= 2 => Armed(bytes)[2]
  <2>1. n >= 2 => 2 \in 0..n /\ n >= 1 /\ 2 > 0 /\ 2 - 1 = 1
    OBVIOUS
  <2> QED
    BY <1>5, <1>6, <1>7, <2>1, Zenon
<1>9. Ends(bytes) \in SUBSET Nat
  BY DEF Ends
<1>10. \A i \in Ends(bytes) : i \in 1..n /\ i # 1 /\ i # 2
  <2>1. \A i \in Ends(bytes) : i \in 1..n /\ bytes[i] = LF
    BY <1>1 DEF Ends
  <2>2. 1 \in 1..n => n >= 1
    OBVIOUS
  <2>3. 2 \in 1..n => n >= 2
    OBVIOUS
  <2> QED
    BY <1>3, <1>5, <2>1, <2>2, <2>3, Zenon
<1>11. CASE n < 3
  <2>1. Ends(bytes) = {}
    BY <1>10, <1>11
  <2> QED
    BY <1>1, <1>11, <2>1, LineLengthIsMin
<1>12. CASE n >= 3
  <2>1. 3 \in Ends(bytes)
    <3>1. 3 \in 1..n /\ 3 - 1 = 2 /\ n >= 2
      BY <1>12
    <3> QED
      BY <1>1, <1>5, <1>8, <1>12, <3>1, Zenon DEF Ends
  <2>2. Min(Ends(bytes)) \in Ends(bytes) /\ Min(Ends(bytes)) <= 3
    BY <1>9, <2>1, MinIs
  <2>3. Min(Ends(bytes)) = 3
    BY <1>10, <2>2
  <2>4. ~ (n < 3) /\ Ends(bytes) # {}
    BY <1>12, <2>1
  <2> QED
    BY <1>1, <2>3, <2>4, LineLengthIsMin, Zenon
<1> QED
  BY <1>11, <1>12

-----------------------------------------------------------------------------
(* A frame at a time                                                        *)

\* With the frames todo to handle, a parser in this state, with this message,
\* buffer and these bytes on the way, is where it should be.
InStep(todo, st, msg, b, w) ==
    /\ st = "AWAITING_MSG_PAYLOAD" =>
          todo # << >> /\ Head(todo).line = "MSG"
          /\ msg = [size |-> Len(Head(todo).data), length |-> Len(Head(todo).data) + 2]
    /\ Cat(Content(b), w) = IF st = "AWAITING_MSG_PAYLOAD"
                            THEN Cat(Body(Head(todo)), Stream(Tail(todo))) ELSE Stream(todo)

\* A chunk moves from the wire to the buffer.
LEMMA ChunkKeeps ==
    ASSUME NEW todo, NEW st, NEW msg, NEW b \in Buffers, NEW w \in Seq(Byte), NEW n \in 1..Len(w),
           InStep(todo, st, msg, b, w)
    PROVE  /\ Buffer!Fill(b, SubSeq(w, 1, n)) \in Buffers /\ SubSeq(w, n + 1, Len(w)) \in Seq(Byte)
           /\ InStep(todo, st, msg, Buffer!Fill(b, SubSeq(w, 1, n)), SubSeq(w, n + 1, Len(w)))
<1>1. PICK x : x = Cut(w, 0, n)
  OBVIOUS
<1>2. PICK y : y = Cut(w, n, Len(w))
  OBVIOUS
<1>3. x = SubSeq(w, 1, n) /\ y = SubSeq(w, n + 1, Len(w))
  BY <1>1, <1>2 DEF Cut
<1>4. x \in Seq(Byte) /\ y \in Seq(Byte) /\ Cat(x, y) = w
  <2>1. n \in 0..Len(w)
    OBVIOUS
  <2> QED
    BY <1>1, <1>2, <2>1, CutBack
<1>5. PICK c \in Seq(Byte) : c = Content(b)
  BY ContentType
<1>6. Buffer!Fill(b, x) \in Buffers /\ Content(Buffer!Fill(b, x)) = Cat(c, x)
  BY <1>4, <1>5, FillIs, Zenon
<1>7. Cat(Cat(c, x), y) = Cat(c, w)
  <2>1. Cat(Cat(c, x), y) = Cat(c, Cat(x, y))
    BY <1>4, CatAssoc
  <2> QED
    BY <1>4, <2>1, Zenon
<1>8. InStep(todo, st, msg, Buffer!Fill(b, x), y)
  BY <1>5, <1>6, <1>7, Zenon DEF InStep
<1> QED
  BY <1>3, <1>4, <1>6, <1>8, Zenon

\* The server sends a frame.
LEMMA SendKeeps ==
    ASSUME NEW todo \in Seq(Frames), NEW st, NEW msg, NEW b \in Buffers, NEW w \in Seq(Byte),
           NEW f \in Frames, InStep(todo, st, msg, b, w)
    PROVE  InStep(Append(todo, f), st, msg, b, Cat(w, Encoded(f)))
<1>1. PICK e \in Seq(Byte) : e = Encoded(f)
  BY EncodedIs
<1>2. PICK c \in Seq(Byte) : c = Content(b)
  BY ContentType
<1>3. Cat(c, Cat(w, e)) = Cat(Cat(c, w), e)
  BY CatAssoc
<1>4. ASSUME NEW p \in Seq(Frames) PROVE Stream(Append(p, f)) = Cat(Stream(p), e) /\ Stream(p) \in Seq(Byte)
  <2>1. <<f>> \in Seq(Frames) /\ Append(p, f) = p \o <<f>>
    OBVIOUS
  <2>2. Stream(p \o <<f>>) = Cat(Stream(p), Stream(<<f>>)) /\ Stream(p) \in Seq(Byte)
    BY <2>1, StreamIs, Zenon
  <2>3. Stream(<<f>>) = e
    BY <1>1, StreamOfOne, Zenon
  <2> QED
    BY <2>1, <2>2, <2>3, Zenon
<1>5. CASE st # "AWAITING_MSG_PAYLOAD"
  <2>1. Cat(c, w) = Stream(todo)
    BY <1>2, <1>5 DEF InStep
  <2>2. Stream(Append(todo, f)) = Cat(Stream(todo), e)
    BY <1>4
  <2> QED
    BY <1>1, <1>2, <1>3, <1>5, <2>1, <2>2, Zenon DEF InStep
<1>6. CASE st = "AWAITING_MSG_PAYLOAD"
  <2>1. /\ todo # << >> /\ Head(todo).line = "MSG"
        /\ msg = [size |-> Len(Head(todo).data), length |-> Len(Head(todo).data) + 2]
        /\ Cat(c, w) = Cat(Body(Head(todo)), Stream(Tail(todo)))
    BY <1>2, <1>6, Zenon DEF InStep
  <2>2. /\ Append(todo, f) # << >> /\ Head(Append(todo, f)) = Head(todo)
        /\ Tail(Append(todo, f)) = Append(Tail(todo), f)
    BY <2>1, TailAppend, Zenon
  <2>3. PICK r \in Seq(Frames) : r = Tail(todo)
    <3>1. Tail(todo) \in Seq(Frames)
      BY <2>1
    <3> QED
      BY <3>1, Zenon
  <2>4. Body(Head(todo)) \in Seq(Byte)
    <3>1. Head(todo) \in Frames
      BY <2>1
    <3> QED
      BY <3>1, EncodedIs
  <2>5. Stream(Append(r, f)) = Cat(Stream(r), e) /\ Stream(r) \in Seq(Byte)
    BY <1>4
  <2>6. Cat(Cat(Body(Head(todo)), Stream(r)), e) = Cat(Body(Head(todo)), Cat(Stream(r), e))
    BY <2>4, <2>5, CatAssoc
  <2>7. Cat(c, Cat(w, e)) = Cat(Body(Head(todo)), Stream(Append(r, f)))
    BY <1>3, <2>1, <2>3, <2>5, <2>6, Zenon
  <2>8. Tail(Append(todo, f)) = Append(r, f)
    BY <2>2, <2>3, Zenon
  <2> QED
    BY <1>1, <1>2, <1>6, <2>1, <2>2, <2>7, <2>8, Zenon DEF InStep
<1> QED
  BY <1>5, <1>6

\* A line that has arrived is that of the first frame to handle.
LEMMA LineRead ==
    ASSUME NEW todo \in Seq(Frames), NEW msg, NEW b \in Buffers, NEW w \in Seq(Byte),
           InStep(todo, "AWAITING_CONTROL", msg, b, w), b.byteLength > 0, Buffer!ProtoLen(b) # -1
    PROVE  /\ todo # << >>
           /\ LineOf(Buffer!Drain(b, Buffer!ProtoLen(b)).data) = Text(Head(todo).line, Len(Head(todo).data))
           /\ Buffer!Drain(b, Buffer!ProtoLen(b)).rest \in Buffers
           /\ Cat(Content(Buffer!Drain(b, Buffer!ProtoLen(b)).rest), w)
                = Cat(Body(Head(todo)), Stream(Tail(todo)))
<1>1. PICK c \in Seq(Byte) : c = Content(b) /\ Len(c) = b.byteLength /\ Len(c) > 0
  BY ContentType
<1>2. Cat(c, w) = Stream(todo)
  BY <1>1 DEF InStep
<1>3. todo # << >>
  <2>1. Len(Cat(c, w)) > 0
    <3>1. Len(Cat(c, w)) = Len(c) + Len(w)
      BY CatSeq, Zenon
    <3> QED
      BY <1>1, <3>1
  <2>2. Cat(c, w) # << >>
    BY <2>1
  <2> QED
    BY <1>2, <2>2, StreamOfNone, Zenon
<1>4. PICK f \in Frames : f = Head(todo)
  <2>1. Head(todo) \in Frames
    BY <1>3
  <2> QED
    BY <2>1, Zenon
<1>5. PICK h : h = Header(f)
  OBVIOUS
<1>6. PICK t : t = Cat(Body(f), Stream(Tail(todo)))
  OBVIOUS
<1>7. /\ h \in Seq(Byte) /\ Len(h) = 3 /\ t \in Seq(Byte) /\ Cat(c, w) = Cat(h, t)
  <2>1. Tail(todo) \in Seq(Frames) /\ Stream(todo) = Cat(Header(Head(todo)), Cat(Body(Head(todo)), Stream(Tail(todo))))
    BY <1>3, FirstFrame, Zenon
  <2>2. Header(f) \in Seq(Byte) /\ Len(Header(f)) = 3 /\ Body(f) \in Seq(Byte)
    BY EncodedIs
  <2>3. Stream(Tail(todo)) \in Seq(Byte)
    BY <2>1, StreamIs, Zenon
  <2>4. t \in Seq(Byte)
    BY <1>6, <2>2, <2>3, CatSeq, Zenon
  <2> QED
    BY <1>2, <1>4, <1>5, <1>6, <2>1, <2>2, <2>4, Zenon
<1>8. Buffer!ProtoLen(b) = Buffer!LineLength(c)
  <2>1. Buffer!FlattenSeq(b.buffers) = FlattenSeq(b.buffers)
    BY Zenon DEF Buffer!FlattenSeq, FlattenSeq
  <2> QED
    BY <1>1, <2>1, Zenon DEF Buffer!ProtoLen, Content
<1>9. \A i \in 1..Len(c) : i <= 3 => c[i] = h[i]
  <2>1. ASSUME NEW i \in 1..Len(c), i <= 3 PROVE c[i] = h[i]
    <3>1. Cat(c, w)[i] = c[i]
      BY CatElements
    <3>2. i \in 1..Len(h)
      BY <1>7, <2>1
    <3>3. Cat(h, t)[i] = h[i]
      BY <1>7, <3>2, CatElements
    <3> QED
      BY <1>7, <3>1, <3>3, Zenon
  <2> QED
    BY <2>1
<1>10. Buffer!LineLength(c) = IF Len(c) < 3 THEN -1 ELSE 3
  BY <1>5, <1>9, LineLengthIs, Zenon
<1>11. Buffer!ProtoLen(b) = 3 /\ Len(c) >= 3
  BY <1>1, <1>8, <1>10
<1>12. Cut(c, 0, 3) = h /\ Cat(Cut(c, 3, Len(c)), w) = t
  <2>1. Len(h) <= Len(c)
    BY <1>7, <1>11
  <2>2. Cut(c, 0, Len(h)) = h /\ Cat(Cut(c, Len(h), Len(c)), w) = t
    <3>1. SameCat(c, w, h, t)
      BY <1>7, Zenon DEF SameCat
    <3>2. h \in Seq(Byte) /\ t \in Seq(Byte)
      BY <1>7, Zenon
    <3> QED
      BY <2>1, <3>1, <3>2, CutConcat, Zenon
  <2> QED
    BY <1>7, <2>2
<1>13. PICK d : d = Buffer!Drain(b, 3)
  OBVIOUS
<1>14. d.data = h /\ d.rest \in Buffers /\ Cat(Content(d.rest), w) = t
  <2>1. 3 \in Nat /\ 3 <= b.byteLength /\ b.byteLength > 0
    BY <1>1, <1>11
  <2>2. d.data = Cut(c, 0, 3) /\ d.rest \in Buffers /\ Content(d.rest) = Cut(c, 3, Len(c))
    BY <1>1, <1>13, <2>1, DrainIs, Zenon
  <2> QED
    BY <1>12, <2>2, Zenon
<1>15. LineOf(h) = Text(f.line, Len(f.data))
  <2>1. f.line \in Controls \cup {"MSG"}
    BY FrameIs
  <2>2. h[1] = Text(f.line, Len(f.data))
    BY <1>5 DEF Header
  <2>3. h[1] \notin {CR, LF}
    BY <2>1, <2>2 DEF Text, CR, LF, Controls
  <2> QED
    BY <1>7, <2>2, <2>3, Zenon DEF LineOf
<1> QED
  BY <1>3, <1>4, <1>6, <1>11, <1>13, <1>14, <1>15, Zenon

\* A payload that has arrived is that of the first frame to handle.
LEMMA PayloadRead ==
    ASSUME NEW todo \in Seq(Frames), NEW msg, NEW b \in Buffers, NEW w \in Seq(Byte),
           InStep(todo, "AWAITING_MSG_PAYLOAD", msg, b, w), b.byteLength > 0,
           b.byteLength >= msg.length
    PROVE  /\ todo # << >>
           /\ MessageOf(Buffer!Drain(b, msg.length).data) = Head(todo)
           /\ Buffer!Drain(b, msg.length).rest \in Buffers
           /\ Cat(Content(Buffer!Drain(b, msg.length).rest), w) = Stream(Tail(todo))
<1>1. PICK c \in Seq(Byte) : c = Content(b) /\ Len(c) = b.byteLength /\ Len(c) > 0
  BY ContentType
<1>2. /\ todo # << >> /\ Head(todo).line = "MSG"
      /\ msg = [size |-> Len(Head(todo).data), length |-> Len(Head(todo).data) + 2]
      /\ Cat(c, w) = Cat(Body(Head(todo)), Stream(Tail(todo)))
  BY <1>1, Zenon DEF InStep
<1>3. PICK f \in Frames : f = Head(todo)
  <2>1. Head(todo) \in Frames
    BY <1>2
  <2> QED
    BY <2>1, Zenon
<1>4. PICK p \in Seq(Byte) : p = f.data
  BY FrameIs
<1>5. PICK x : x = Body(f)
  OBVIOUS
<1>6. PICK e : e = <<CR, LF>>
  OBVIOUS
<1>7. x \in Seq(Byte) /\ x = Cat(p, e) /\ e \in Seq(Byte) /\ Len(e) = 2 /\ Len(x) = Len(p) + 2
  <2>1. x \in Seq(Byte)
    BY <1>5, EncodedIs
  <2>2. x = Cat(p, e)
    BY <1>2, <1>3, <1>4, <1>5, <1>6, Zenon DEF Body, Cat
  <2>3. e \in Seq(Byte) /\ Len(e) = 2
    BY <1>6 DEF CR, LF, Byte
  <2>4. Len(Cat(p, e)) = Len(p) + Len(e)
    BY <2>3, CatSeq, Zenon
  <2> QED
    BY <2>1, <2>2, <2>3, <2>4
<1>8. PICK n \in Nat : n = msg.length /\ n = Len(x) /\ n = Len(p) + 2
  <2>1. msg.length = Len(p) + 2 /\ Len(p) + 2 \in Nat
    BY <1>2, <1>3, <1>4
  <2> QED
    BY <1>7, <2>1, Zenon
<1>9. PICK y \in Seq(Byte) : y = Stream(Tail(todo))
  <2>1. Tail(todo) \in Seq(Frames)
    BY <1>2
  <2> QED
    BY <2>1, StreamIs, Zenon
<1>10. Cut(c, 0, n) = x /\ Cat(Cut(c, n, Len(c)), w) = y
  <2>1. Cat(c, w) = Cat(x, y)
    BY <1>2, <1>3, <1>5, <1>9, Zenon
  <2>2. Len(x) <= Len(c)
    BY <1>1, <1>8
  <2>3. Cut(c, 0, Len(x)) = x /\ Cat(Cut(c, Len(x), Len(c)), w) = y
    <3>1. SameCat(c, w, x, y)
      BY <2>1, Zenon DEF SameCat
    <3>2. x \in Seq(Byte)
      BY <1>7, Zenon
    <3> QED
      BY <2>2, <3>1, <3>2, CutConcat, Zenon
  <2> QED
    BY <1>8, <2>3, Zenon
<1>11. PICK d : d = Buffer!Drain(b, n)
  OBVIOUS
<1>12. d.data = x /\ d.rest \in Buffers /\ Cat(Content(d.rest), w) = y
  <2>1. n <= b.byteLength
    BY <1>8
  <2>2. d.data = Cut(c, 0, n) /\ d.rest \in Buffers /\ Content(d.rest) = Cut(c, n, Len(c))
    BY <1>1, <1>11, <2>1, DrainIs, Zenon
  <2> QED
    BY <1>10, <2>2, Zenon
<1>13. MessageOf(x) = f
  <2>1. SubSeq(x, 1, Len(x) - 2) = p
    <3>1. Cat(x, << >>) = x
      BY <1>7, CatNil, Zenon
    <3>2. Cut(x, 0, Len(p)) = p
      <4>1. << >> \in Seq(Byte) /\ Len(p) <= Len(x)
        BY <1>7
      <4>2. SameCat(x, << >>, p, e)
        BY <1>7, <3>1, Zenon DEF SameCat
      <4>3. x \in Seq(Byte) /\ p \in Seq(Byte) /\ e \in Seq(Byte)
        BY <1>7, Zenon
      <4> QED
        BY <4>1, <4>2, <4>3, CutConcat, Zenon
    <3>3. Len(x) - 2 = Len(p) /\ 0 + 1 = 1
      BY <1>7
    <3> QED
      BY <3>2, <3>3, Zenon DEF Cut
  <2>2. f = [line |-> "MSG", data |-> p]
    BY <1>2, <1>3, <1>4, FrameIs
  <2> QED
    BY <2>1, <2>2, Zenon DEF MessageOf
<1> QED
  BY <1>2, <1>3, <1>8, <1>9, <1>11, <1>12, <1>13, Zenon

\* The first frame to handle has been handled.
LEMMA Advance ==
    ASSUME NEW p \in Seq(Frames), NEW todo \in Seq(Frames), todo # << >>
    PROVE  /\ Cat(Append(p, Head(todo)), Tail(todo)) = Cat(p, todo)
           /\ Head(todo) \in Frames /\ Tail(todo) \in Seq(Frames) /\ Append(p, Head(todo)) \in Seq(Frames)
<1>1. PICK f \in Frames : f = Head(todo)
  <2>1. Head(todo) \in Frames
    OBVIOUS
  <2> QED
    BY <2>1, Zenon
<1>2. PICK r \in Seq(Frames) : r = Tail(todo)
  <2>1. Tail(todo) \in Seq(Frames)
    OBVIOUS
  <2> QED
    BY <2>1, Zenon
<1>3. todo = Cat(<<f>>, r)
  BY <1>1, <1>2, FirstFrame, Zenon DEF Cat
<1>4. Append(p, f) = Cat(p, <<f>>) /\ <<f>> \in Seq(Frames) /\ Append(p, f) \in Seq(Frames)
  BY DEF Cat
<1>5. Cat(Cat(p, <<f>>), r) = Cat(p, Cat(<<f>>, r))
  <2>1. PICK s \in Seq(Frames) : s = <<f>>
    BY <1>4, Zenon
  <2>2. Cat(Cat(p, s), r) = Cat(p, Cat(s, r))
    BY CatAssoc
  <2> QED
    BY <2>1, <2>2, Zenon
<1> QED
  BY <1>1, <1>2, <1>3, <1>4, <1>5, Zenon

-----------------------------------------------------------------------------
(* The invariant                                                            *)

ParserTypes ==
    /\ conn \in {"up", "down", "closed"}
    /\ inbound \in Buffers
    /\ state \in {"AWAITING_CONTROL", "AWAITING_MSG_PAYLOAD", "CLOSED"}
    /\ msgBuffer \in [size : -1..MaxPayload, length : 0..MaxPayload + 2]
    /\ looping \in BOOLEAN /\ paused \in BOOLEAN

StreamTypes ==
    /\ wire \in Seq(Byte)
    /\ sent \in Seq(Frames) /\ handled \in Seq(Frames)
    /\ framesSent \in 0..MaxFrames

\* A connection that is lost takes its bytes along, and a connection that is up
\* has a parser that runs.
NothingLeft ==
    /\ conn # "up" => inbound = Buffer!Empty /\ wire = << >>
    /\ conn = "up" => state # "CLOSED"
    /\ conn = "up" /\ looping => ~paused

\* A stream is paused once for every immediate, and a connection ends with one
\* that is paused at most.
Immediates ==
    /\ due \in Nat /\ connection \in 1..MaxConnections
    /\ due + (IF conn = "up" /\ ~paused THEN 1 ELSE 0) <= connection

\* What is not handled is still to come, and the parser is where it should be.
Follows ==
    \E todo \in Seq(Frames) :
        /\ sent = Cat(handled, todo)
        /\ conn = "up" => InStep(todo, state, msgBuffer, inbound, wire)

IInv == ParserTypes /\ StreamTypes /\ NothingLeft /\ Immediates /\ Follows

LEMMA InitIInv == Init => IInv
<1> SUFFICES ASSUME Init PROVE IInv
  OBVIOUS
<1>1. MaxPayload \in Nat /\ MaxFrames \in Nat /\ MaxConnections \in Nat \ {0}
  BY InboundAssumption
<1>2. << >> \in Seq(Byte) /\ << >> \in Seq(Frames)
  OBVIOUS
<1>3. ParserTypes
  <2>1. msgBuffer \in [size : -1..MaxPayload, length : 0..MaxPayload + 2]
    BY <1>1 DEF Init, NoMessage
  <2>2. inbound \in Buffers
    BY EmptyIs, Zenon DEF Init
  <2> QED
    BY <2>1, <2>2, Zenon DEF Init, ParserTypes
<1>4. StreamTypes
  BY <1>1, <1>2 DEF Init, StreamTypes
<1>5. NothingLeft /\ Immediates
  BY <1>1 DEF Init, NothingLeft, Immediates
<1>6. Follows
  <2>1. Cat(<< >>, << >>) = << >>
    BY <1>2, CatNil, Zenon
  <2>2. InStep(<< >>, state, msgBuffer, inbound, wire)
    BY <2>1, EmptyIs, StreamOfNone DEF Init, InStep
  <2>3. sent = Cat(handled, << >>)
    BY <2>1, Zenon DEF Init
  <2> QED
    BY <1>2, <2>2, <2>3, Zenon DEF Follows
<1> QED
  BY <1>3, <1>4, <1>5, <1>6 DEF IInv

\* Nothing that the parser sees changes.
LEMMA SameFollows ==
    ASSUME Follows, UNCHANGED <<state, msgBuffer, inbound, wire, sent, handled>>,
           conn' = "up" => conn = "up"
    PROVE  Follows'
BY Zenon DEF Follows

\* A connection that is no more has nothing to follow.
LEMMA DownFollows ==
    ASSUME Follows, UNCHANGED <<sent, handled>>, conn' # "up"
    PROVE  Follows'
BY Zenon DEF Follows

LEMMA DataKeeps ==
    ASSUME IInv, Data
    PROVE  IInv'
<1>1. PICK n \in 1..Len(wire) : /\ inbound' = Buffer!Fill(inbound, SubSeq(wire, 1, n))
                                /\ wire' = SubSeq(wire, n + 1, Len(wire))
  BY Zenon DEF Data
<1>2. inbound \in Buffers /\ wire \in Seq(Byte)
  BY DEF IInv, ParserTypes, StreamTypes
<1>3. PICK todo \in Seq(Frames) : sent = Cat(handled, todo) /\ InStep(todo, state, msgBuffer, inbound, wire)
  BY DEF Data, IInv, Follows
<1>4. inbound' \in Buffers /\ wire' \in Seq(Byte) /\ InStep(todo, state, msgBuffer, inbound', wire')
  BY <1>1, <1>2, <1>3, ChunkKeeps, Zenon
<1>5. ParserTypes' /\ StreamTypes'
  BY <1>4 DEF Data, Enter, IInv, ParserTypes, StreamTypes
<1>6. NothingLeft' /\ Immediates'
  BY DEF Data, Enter, IInv, NothingLeft, Immediates
<1>7. Follows'
  BY <1>3, <1>4, Zenon DEF Data, Follows
<1> QED
  BY <1>5, <1>6, <1>7 DEF IInv

LEMMA ImmediateKeeps ==
    ASSUME IInv, Immediate
    PROVE  IInv'
<1>1. ParserTypes' /\ StreamTypes'
  BY DEF Immediate, Enter, IInv, ParserTypes, StreamTypes
<1>2. NothingLeft' /\ Immediates'
  BY InboundAssumption DEF Immediate, Enter, IInv, NothingLeft, Immediates
<1>3. Follows'
  BY SameFollows DEF Immediate, IInv
<1> QED
  BY <1>1, <1>2, <1>3 DEF IInv

LEMMA WaitKeeps ==
    ASSUME IInv, Wait
    PROVE  IInv'
<1>1. ParserTypes' /\ StreamTypes'
  BY DEF Wait, IInv, ParserTypes, StreamTypes
<1>2. NothingLeft' /\ Immediates'
  BY DEF Wait, IInv, NothingLeft, Immediates
<1>3. Follows'
  BY SameFollows DEF Wait, IInv
<1> QED
  BY <1>1, <1>2, <1>3 DEF IInv

\* What a lost connection leaves.
LEMMA LeftIs ==
    ASSUME NEW c \in {"up", "down", "closed"}, NEW rest \in Buffers, Left(c, rest), IInv
    PROVE  /\ conn' = c /\ inbound' \in Buffers /\ wire' \in Seq(Byte)
           /\ c # "up" => inbound' = Buffer!Empty /\ wire' = << >>
           /\ c = "up" => inbound' = rest /\ wire' = wire
<1>1. << >> \in Seq(Byte) /\ wire \in Seq(Byte)
  BY DEF IInv, StreamTypes
<1> QED
  BY <1>1, EmptyIs DEF Left

LEMMA LoseKeeps ==
    ASSUME IInv, Lose
    PROVE  IInv'
<1>1. inbound \in Buffers /\ Left("down", inbound)
  BY DEF Lose, IInv, ParserTypes
<1>2. conn' = "down" /\ inbound' = Buffer!Empty /\ wire' = << >> /\ inbound' \in Buffers /\ wire' \in Seq(Byte)
  BY <1>1, LeftIs
<1>3. ParserTypes' /\ StreamTypes'
  BY <1>2 DEF Lose, IInv, ParserTypes, StreamTypes
<1>4. NothingLeft' /\ Immediates'
  BY <1>2, InboundAssumption DEF Lose, IInv, NothingLeft, Immediates
<1>5. Follows'
  BY <1>2, DownFollows DEF Lose, IInv
<1> QED
  BY <1>3, <1>4, <1>5 DEF IInv

LEMMA CloseKeeps ==
    ASSUME IInv, Close
    PROVE  IInv'
<1>1. inbound \in Buffers /\ Left("closed", inbound)
  BY DEF Close, IInv, ParserTypes
<1>2. conn' = "closed" /\ inbound' = Buffer!Empty /\ wire' = << >> /\ inbound' \in Buffers /\ wire' \in Seq(Byte)
  BY <1>1, LeftIs
<1>3. ParserTypes' /\ StreamTypes'
  BY <1>2 DEF Close, IInv, ParserTypes, StreamTypes
<1>4. NothingLeft' /\ Immediates'
  BY <1>2, InboundAssumption DEF Close, IInv, NothingLeft, Immediates
<1>5. Follows'
  BY <1>2, DownFollows DEF Close, IInv
<1> QED
  BY <1>3, <1>4, <1>5 DEF IInv

LEMMA ReconnectKeeps ==
    ASSUME IInv, Reconnect
    PROVE  IInv'
<1>1. inbound = Buffer!Empty /\ wire = << >> /\ UNCHANGED <<inbound, wire>>
  BY DEF Reconnect, IInv, NothingLeft
<1>2. << >> \in Seq(Byte) /\ << >> \in Seq(Frames)
  OBVIOUS
<1>3. ParserTypes' /\ StreamTypes'
  BY <1>2 DEF Reconnect, IInv, ParserTypes, StreamTypes
<1>4. NothingLeft' /\ Immediates'
  BY InboundAssumption DEF Reconnect, IInv, NothingLeft, Immediates
<1>5. Follows'
  <2>1. Cat(<< >>, << >>) = << >>
    BY <1>2, CatNil, Zenon
  <2>2. Content(inbound') = << >> /\ wire' = << >>
    BY <1>1, EmptyIs, Zenon
  <2>3. state' = "AWAITING_CONTROL" /\ state' # "AWAITING_MSG_PAYLOAD" /\ sent' = << >> /\ handled' = << >>
    BY DEF Reconnect
  <2>4. InStep(<< >>, state', msgBuffer', inbound', wire')
    BY <2>1, <2>2, <2>3, StreamOfNone, Zenon DEF InStep
  <2> QED
    BY <1>2, <2>1, <2>3, <2>4, Zenon DEF Follows
<1> QED
  BY <1>3, <1>4, <1>5 DEF IInv

LEMMA ServerSendKeeps ==
    ASSUME IInv, NEW f \in Frames, ServerSend(f)
    PROVE  IInv'
<1>1. Encoded(f) \in Seq(Byte)
  BY EncodedIs
<1>2. PICK todo \in Seq(Frames) : sent = Cat(handled, todo) /\ InStep(todo, state, msgBuffer, inbound, wire)
  BY DEF ServerSend, IInv, Follows
<1>3. inbound \in Buffers /\ wire \in Seq(Byte) /\ handled \in Seq(Frames) /\ sent \in Seq(Frames)
  BY DEF IInv, ParserTypes, StreamTypes
<1>4. wire' = Cat(wire, Encoded(f)) /\ wire' \in Seq(Byte)
  <2>1. wire' = Cat(wire, Encoded(f))
    BY Zenon DEF ServerSend, Cat
  <2> QED
    BY <1>1, <1>3, <2>1, CatSeq, Zenon
<1>5. ParserTypes'
  BY DEF ServerSend, client, IInv, ParserTypes
<1>6. StreamTypes'
  BY <1>4, InboundAssumption DEF ServerSend, IInv, StreamTypes
<1>7. NothingLeft' /\ Immediates'
  BY DEF ServerSend, client, IInv, NothingLeft, Immediates
<1>8. Follows'
  <2>1. PICK t \in Seq(Frames) : t = Append(todo, f)
    <3>1. Append(todo, f) \in Seq(Frames)
      OBVIOUS
    <3> QED
      BY <3>1, Zenon
  <2>2. InStep(t, state, msgBuffer, inbound, wire')
    BY <1>2, <1>3, <1>4, <2>1, SendKeeps, Zenon
  <2>3. sent' = Cat(handled, t)
    <3>1. PICK o \in Seq(Frames) : o = <<f>> /\ t = Cat(todo, o)
      <4>1. <<f>> \in Seq(Frames) /\ t = todo \o <<f>>
        BY <2>1
      <4> QED
        BY <4>1, Zenon DEF Cat
    <3>2. Cat(Cat(handled, todo), o) = Cat(handled, Cat(todo, o))
      BY <1>3, CatAssoc
    <3>3. sent' = Cat(sent, o)
      <4>1. sent' = sent \o <<f>>
        <5>1. sent' = Append(sent, f)
          BY DEF ServerSend
        <5>2. \A q \in Seq(Frames) : Append(q, f) = q \o <<f>>
          OBVIOUS
        <5> QED
          BY <1>3, <5>1, <5>2, Zenon
      <4> QED
        BY <3>1, <4>1, Zenon DEF Cat
    <3> QED
      BY <1>2, <3>1, <3>2, <3>3, Zenon
  <2> QED
    BY <2>2, <2>3, Zenon DEF Follows, ServerSend, client
<1> QED
  BY <1>5, <1>6, <1>7, <1>8 DEF IInv

LEMMA ReadLineKeeps ==
    ASSUME IInv, ReadLine
    PROVE  IInv'
<1>1. PICK drained : /\ drained = Buffer!Drain(inbound, Buffer!ProtoLen(inbound))
                     /\ \/ MsgLine(LineOf(drained.data), drained.rest)
                        \/ ControlLine(LineOf(drained.data), drained.rest)
  BY Zenon DEF ReadLine
<1>2. /\ looping /\ conn # "closed" /\ inbound.byteLength > 0 /\ state = "AWAITING_CONTROL"
      /\ Buffer!ProtoLen(inbound) # -1
      /\ UNCHANGED <<paused, due, sent, framesSent, connection>>
  BY Zenon DEF ReadLine, More
<1>3. conn = "up"
  <2>1. inbound = Buffer!Empty => inbound.byteLength = 0
    BY DEF Buffer!Empty
  <2>2. ~ (inbound.byteLength = 0)
    BY <1>2
  <2> QED
    BY <2>1, <2>2 DEF IInv, NothingLeft
<1>4. /\ inbound \in Buffers /\ wire \in Seq(Byte) /\ handled \in Seq(Frames)
  BY DEF IInv, ParserTypes, StreamTypes
<1>5. PICK todo \in Seq(Frames) :
        sent = Cat(handled, todo) /\ InStep(todo, "AWAITING_CONTROL", msgBuffer, inbound, wire)
  BY <1>2, <1>3, Zenon DEF IInv, Follows
<1>6. PICK f : f = Head(todo)
  OBVIOUS
<1>7. PICK r : r = Tail(todo)
  OBVIOUS
<1>8. PICK line : line = LineOf(drained.data)
  OBVIOUS
<1>9. /\ todo # << >> /\ line = Text(f.line, Len(f.data)) /\ drained.rest \in Buffers
      /\ Cat(Content(drained.rest), wire) = Cat(Body(f), Stream(r))
  BY <1>1, <1>2, <1>4, <1>5, <1>6, <1>7, <1>8, LineRead, Zenon
<1>10. /\ Cat(Append(handled, f), r) = Cat(handled, todo)
       /\ f \in Frames /\ r \in Seq(Frames) /\ Append(handled, f) \in Seq(Frames)
  BY <1>4, <1>6, <1>7, <1>9, Advance, Zenon
<1>11. /\ f.line \in Controls \cup {"MSG"} /\ Len(f.data) \in 0..MaxPayload
       /\ f.line # "MSG" => f = [line |-> f.line, data |-> << >>]
  BY <1>10, FrameIs, InboundAssumption
<1>12. line[1] = f.line /\ line[2] = Len(f.data)
  BY <1>9 DEF Text
<1>13. CASE MsgLine(line, drained.rest)
  <2>1. /\ f.line = "MSG" /\ msgBuffer' = [size |-> Len(f.data), length |-> Len(f.data) + 2]
        /\ state' = "AWAITING_MSG_PAYLOAD" /\ UNCHANGED <<looping, handled>>
        /\ Left("up", drained.rest)
    BY <1>12, <1>13, Zenon DEF MsgLine
  <2>2. conn' = "up" /\ inbound' = drained.rest /\ wire' = wire
    BY <2>1, Zenon DEF Left
  <2>3. ParserTypes'
    <3>1. msgBuffer' \in [size : -1..MaxPayload, length : 0..MaxPayload + 2]
      BY <1>11, <2>1, InboundAssumption
    <3>2. inbound' \in Buffers
      BY <1>9, <2>2
    <3> QED
      BY <1>2, <2>1, <2>2, <3>1, <3>2 DEF IInv, ParserTypes
  <2>4. StreamTypes'
    BY <1>2, <2>1, <2>2 DEF IInv, StreamTypes
  <2>5. NothingLeft' /\ Immediates'
    BY <1>2, <1>3, <2>1, <2>2 DEF IInv, NothingLeft, Immediates
  <2>6. InStep(todo, state', msgBuffer', inbound', wire')
    BY <1>6, <1>7, <1>9, <2>1, <2>2, Zenon DEF InStep
  <2>7. Follows'
    BY <1>2, <1>5, <2>1, <2>6, Zenon DEF Follows
  <2> QED
    BY <2>3, <2>4, <2>5, <2>7 DEF IInv
<1>14. CASE ControlLine(line, drained.rest)
  <2>1. PICK c \in {"up", "down", "closed"} :
          /\ Left(c, drained.rest)
          /\ state' = IF c = "closed" THEN "CLOSED" ELSE state
          /\ f.line = "Fatal" => c # "up"
    BY <1>11, <1>12, <1>14 DEF ControlLine, Controls
  <2>2. /\ f.line # "MSG" /\ looping' \in BOOLEAN
        /\ handled' = Append(handled, f) /\ msgBuffer' = msgBuffer
    <3>1. /\ line[1] # "MSG" /\ looping' = (line[1] \notin {"Fatal", "Unknown"})
          /\ handled' = Append(handled, [line |-> line[1], data |-> << >>]) /\ msgBuffer' = msgBuffer
      BY <1>14, Zenon DEF ControlLine
    <3>2. looping' \in BOOLEAN
      BY <3>1
    <3> QED
      BY <1>11, <1>12, <3>1, <3>2, Zenon
  <2>3. /\ conn' = c /\ inbound' \in Buffers /\ wire' \in Seq(Byte)
        /\ c # "up" => inbound' = Buffer!Empty /\ wire' = << >>
        /\ c = "up" => inbound' = drained.rest /\ wire' = wire
    BY <1>9, <2>1, LeftIs, Zenon
  <2>4. ParserTypes' /\ StreamTypes'
    BY <1>2, <1>10, <2>1, <2>2, <2>3 DEF IInv, ParserTypes, StreamTypes
  <2>5. NothingLeft' /\ Immediates'
    BY <1>2, <1>3, <2>1, <2>2, <2>3, InboundAssumption DEF IInv, NothingLeft, Immediates
  <2>6. c = "up" => InStep(r, state', msgBuffer', inbound', wire')
    <3>1. SUFFICES ASSUME c = "up" PROVE InStep(r, state', msgBuffer', inbound', wire')
      OBVIOUS
    <3>2. state' = "AWAITING_CONTROL" /\ state' # "AWAITING_MSG_PAYLOAD"
      BY <1>2, <2>1, <3>1
    <3>3. Cat(Content(inbound'), wire') = Stream(r)
      <4>1. Body(f) = << >>
        BY <2>2, Zenon DEF Body
      <4>2. Stream(r) \in Seq(Byte)
        BY <1>10, StreamIs, Zenon
      <4>3. Cat(<< >>, Stream(r)) = Stream(r)
        BY <4>2, CatNil, Zenon
      <4> QED
        BY <1>9, <2>3, <3>1, <4>1, <4>3, Zenon
    <3> QED
      BY <3>2, <3>3, Zenon DEF InStep
  <2>7. Follows'
    <3>1. sent' = Cat(handled', r)
      BY <1>2, <1>5, <1>10, <2>2, Zenon
    <3> QED
      BY <1>10, <2>3, <2>6, <3>1, Zenon DEF Follows
  <2> QED
    BY <2>4, <2>5, <2>7 DEF IInv
<1> QED
  BY <1>1, <1>8, <1>13, <1>14, Zenon

LEMMA ReadPayloadKeeps ==
    ASSUME IInv, ReadPayload
    PROVE  IInv'
<1>1. PICK drained, c : /\ drained = Buffer!Drain(inbound, msgBuffer.length) /\ c \in {"up", "closed"}
                        /\ handled' = Append(handled, MessageOf(drained.data))
                        /\ Left(c, drained.rest)
                        /\ Yield(c) \/ UNCHANGED <<looping, paused, due>>
  BY Zenon DEF ReadPayload
<1>2. /\ looping /\ conn # "closed" /\ inbound.byteLength > 0 /\ state = "AWAITING_MSG_PAYLOAD"
      /\ inbound.byteLength >= msgBuffer.length
      /\ state' = "AWAITING_CONTROL" /\ msgBuffer' = NoMessage
      /\ UNCHANGED <<sent, framesSent, connection>>
  BY Zenon DEF ReadPayload, More
<1>3. conn = "up"
  <2>1. inbound = Buffer!Empty => inbound.byteLength = 0
    BY DEF Buffer!Empty
  <2>2. ~ (inbound.byteLength = 0)
    BY <1>2
  <2> QED
    BY <2>1, <2>2 DEF IInv, NothingLeft
<1>4. /\ inbound \in Buffers /\ wire \in Seq(Byte) /\ handled \in Seq(Frames)
  BY DEF IInv, ParserTypes, StreamTypes
<1>5. PICK todo \in Seq(Frames) :
        sent = Cat(handled, todo) /\ InStep(todo, "AWAITING_MSG_PAYLOAD", msgBuffer, inbound, wire)
  BY <1>2, <1>3, Zenon DEF IInv, Follows
<1>6. PICK f : f = Head(todo)
  OBVIOUS
<1>7. PICK r : r = Tail(todo)
  OBVIOUS
<1>8. /\ todo # << >> /\ MessageOf(drained.data) = f /\ drained.rest \in Buffers
      /\ Cat(Content(drained.rest), wire) = Stream(r)
  BY <1>1, <1>2, <1>4, <1>5, <1>6, <1>7, PayloadRead, Zenon
<1>9. /\ Cat(Append(handled, f), r) = Cat(handled, todo)
      /\ r \in Seq(Frames) /\ Append(handled, f) \in Seq(Frames)
  <2>1. todo # << >> /\ handled \in Seq(Frames)
    BY <1>4, <1>8, Zenon
  <2> QED
    BY <1>6, <1>7, <2>1, Advance, Zenon
<1>10. handled' = Append(handled, f)
  <2>1. handled' = Append(handled, MessageOf(drained.data))
    BY <1>1, Zenon
  <2> QED
    BY <1>8, <2>1, Zenon
<1>11. /\ conn' = c /\ inbound' \in Buffers /\ wire' \in Seq(Byte)
       /\ c # "up" => inbound' = Buffer!Empty /\ wire' = << >>
       /\ c = "up" => inbound' = drained.rest /\ wire' = wire
  <2>1. c \in {"up", "down", "closed"}
    BY <1>1
  <2> QED
    BY <1>1, <1>8, <2>1, LeftIs, Zenon
<1>12. \/ paused' = (c = "up") /\ due' = due + 1 /\ looping' = FALSE
       \/ UNCHANGED <<looping, paused, due>>
  BY <1>1, Zenon DEF Yield
<1>13. ParserTypes' /\ StreamTypes'
  <2>1. NoMessage \in [size : -1..MaxPayload, length : 0..MaxPayload + 2]
    BY InboundAssumption DEF NoMessage
  <2>2. looping' \in BOOLEAN /\ paused' \in BOOLEAN
    BY <1>12 DEF IInv, ParserTypes
  <2>3. conn' \in {"up", "down", "closed"}
    BY <1>1, <1>11
  <2>4. ParserTypes'
    BY <1>2, <1>11, <2>1, <2>2, <2>3, Zenon DEF ParserTypes
  <2>5. StreamTypes'
    BY <1>2, <1>9, <1>10, <1>11, Zenon DEF IInv, StreamTypes
  <2> QED
    BY <2>4, <2>5
<1>14. ~paused /\ c \in {"up", "closed"}
  BY <1>1, <1>2, <1>3, Zenon DEF IInv, NothingLeft
<1>15. NothingLeft' /\ Immediates'
  <2>1. conn' = "up" => state' # "CLOSED"
    BY <1>2
  <2>2. conn' = "up" /\ looping' => ~paused'
    BY <1>11, <1>12, <1>14
  <2>3. NothingLeft'
    BY <1>11, <2>1, <2>2, Zenon DEF NothingLeft
  <2>4. PICK n \in Nat : n = due
    BY DEF IInv, Immediates
  <2>5. PICK k \in 1..MaxConnections : k = connection /\ k = connection' /\ n + 1 <= k
    BY <1>2, <1>3, <1>14, <2>4 DEF IInv, Immediates
  <2>6. CASE due' = n
    BY <2>3, <2>4, <2>5, <2>6, InboundAssumption DEF Immediates
  <2>7. CASE due' = n + 1 /\ paused' = (c = "up")
    <3>1. ~ (conn' = "up" /\ ~paused')
      BY <1>11, <2>7, Zenon
    <3>2. due' \in Nat /\ due' + 0 <= k
      BY <2>5, <2>7, InboundAssumption
    <3> QED
      BY <2>3, <2>5, <3>1, <3>2 DEF Immediates
  <2> QED
    BY <1>12, <2>3, <2>4, <2>6, <2>7, Zenon
<1>16. Follows'
  <2>1. sent' = Cat(handled', r)
    BY <1>2, <1>5, <1>9, <1>10, Zenon
  <2>2. state' # "AWAITING_MSG_PAYLOAD"
    BY <1>2
  <2>3. c = "up" => InStep(r, state', msgBuffer', inbound', wire')
    BY <1>8, <1>11, <2>2, Zenon DEF InStep
  <2> QED
    BY <1>9, <1>11, <2>1, <2>3, Zenon DEF Follows
<1> QED
  BY <1>13, <1>15, <1>16 DEF IInv

LEMMA NextIInv == IInv /\ [Next]_vars => IInv'
<1> SUFFICES ASSUME IInv, [Next]_vars PROVE IInv'
  OBVIOUS
<1>1. CASE Data BY <1>1, DataKeeps
<1>2. CASE Immediate BY <1>2, ImmediateKeeps
<1>3. CASE Wait BY <1>3, WaitKeeps
<1>4. CASE ReadLine BY <1>4, ReadLineKeeps
<1>5. CASE ReadPayload BY <1>5, ReadPayloadKeeps
<1>6. CASE Lose BY <1>6, LoseKeeps
<1>7. CASE Close BY <1>7, CloseKeeps
<1>8. CASE Reconnect BY <1>8, ReconnectKeeps
<1>9. ASSUME NEW f \in Frames, ServerSend(f) PROVE IInv'
  BY <1>9, ServerSendKeeps
<1>10. CASE UNCHANGED vars
  <2>1. ParserTypes' /\ StreamTypes'
    BY <1>10 DEF vars, client, IInv, ParserTypes, StreamTypes
  <2>2. NothingLeft' /\ Immediates'
    BY <1>10 DEF vars, client, IInv, NothingLeft, Immediates
  <2>3. Follows'
    BY <1>10, SameFollows DEF vars, client, IInv
  <2> QED
    BY <2>1, <2>2, <2>3 DEF IInv
<1> QED
  BY <1>1, <1>2, <1>3, <1>4, <1>5, <1>6, <1>7, <1>8, <1>9, <1>10, Zenon DEF Next, ProcessInbound

LEMMA Invariance == Spec => []IInv
BY InitIInv, NextIInv, PTL DEF Spec

-----------------------------------------------------------------------------
(* Theorems                                                                 *)

\* The parser, its buffer and its count of bytes keep their types; there are
\* never more immediates than connections (processInbound, databuffer.ts 22-111).
THEOREM InboundTypes == Spec => []TypeOK
<1>1. IInv => TypeOK
  <2> SUFFICES ASSUME IInv PROVE TypeOK
    OBVIOUS
  <2>1. inbound.byteLength = Len(FlattenSeq(inbound.buffers))
    BY ContentType DEF IInv, ParserTypes, Content
  <2>2. msgBuffer.size \in -1..MaxPayload /\ msgBuffer.length \in 0..MaxPayload + 2
    BY DEF IInv, ParserTypes
  <2>3. due \in 0..MaxConnections /\ connection \in 1..MaxConnections
    BY InboundAssumption DEF IInv, Immediates
  <2> QED
    BY <2>1, <2>2, <2>3, Zenon DEF IInv, ParserTypes, StreamTypes, TypeOK
<1> QED
  BY <1>1, Invariance, PTL

\* What is handled is a first part of what was sent (Inbound.HandledAsSent).
THEOREM AsSent == Spec => []HandledAsSent
<1>1. IInv => HandledAsSent
  <2> SUFFICES ASSUME IInv PROVE HandledAsSent
    OBVIOUS
  <2>1. PICK todo \in Seq(Frames) : sent = Cat(handled, todo)
    BY DEF IInv, Follows
  <2>2. handled \in Seq(Frames) /\ sent \in Seq(Frames)
    BY DEF IInv, StreamTypes
  <2>3. Len(sent) = Len(handled) + Len(todo)
    BY <2>1, <2>2, CatSeq
  <2>4. Len(handled) <= Len(sent)
    BY <2>2, <2>3
  <2>5. SubSeq(sent, 1, Len(handled)) = handled
    <3>1. Cat(sent, << >>) = Cat(handled, todo)
      BY <2>1, <2>2, CatNil, Zenon
    <3>2. SameCat(sent, << >>, handled, todo)
      BY <3>1, Zenon DEF SameCat
    <3>3. << >> \in Seq(Frames) /\ 0 + 1 = 1
      OBVIOUS
    <3>4. Cut(sent, 0, Len(handled)) = handled
      BY <2>2, <2>4, <3>2, <3>3, CutConcat, Zenon
    <3> QED
      BY <3>3, <3>4, Zenon DEF Cut
  <2>6. SubSeq(handled, 1, Len(handled)) = handled
    BY <2>2
  <2> QED
    BY <2>4, <2>5, <2>6, Zenon DEF HandledAsSent, IsPrefix
<1> QED
  BY <1>1, Invariance, PTL

\* No byte is lost or invented between the server and the parser
\* (Inbound.EveryByteKept).
THEOREM BytesKept == Spec => []EveryByteKept
<1>1. IInv => EveryByteKept
  <2> SUFFICES ASSUME IInv, conn = "up"
               PROVE  Stream(handled)
                        \o (IF state = "AWAITING_MSG_PAYLOAD"
                            THEN <<Text("MSG", msgBuffer.size), CR, LF>> ELSE << >>)
                        \o FlattenSeq(inbound.buffers) \o wire = Stream(sent)
    BY Zenon DEF EveryByteKept
  <2>1. PICK todo \in Seq(Frames) :
          sent = Cat(handled, todo) /\ InStep(todo, state, msgBuffer, inbound, wire)
    BY DEF IInv, Follows
  <2>2. PICK a \in Seq(Byte) : a = Stream(handled)
    <3>1. handled \in Seq(Frames)
      BY DEF IInv, StreamTypes
    <3> QED
      BY <3>1, StreamIs, Zenon
  <2>3. PICK b \in Seq(Byte) : b = Content(inbound) /\ b = FlattenSeq(inbound.buffers)
    <3>1. inbound \in Buffers
      BY DEF IInv, ParserTypes
    <3> QED
      BY <3>1, ContentType, Zenon DEF Content
  <2>4. PICK w \in Seq(Byte) : w = wire
    BY DEF IInv, StreamTypes
  <2>5. Stream(sent) = Cat(a, Stream(todo)) /\ Stream(todo) \in Seq(Byte)
    <3>1. handled \in Seq(Frames)
      BY DEF IInv, StreamTypes
    <3> QED
      BY <2>1, <2>2, <3>1, StreamIs, Zenon DEF Cat
  <2>6. PICK h : h = IF state = "AWAITING_MSG_PAYLOAD"
                     THEN <<Text("MSG", msgBuffer.size), CR, LF>> ELSE << >>
    OBVIOUS
  <2>7. h \in Seq(Byte) /\ Cat(h, Cat(b, w)) = Stream(todo)
    <3>1. CASE state = "AWAITING_MSG_PAYLOAD"
      <4>1. /\ todo # << >> /\ Head(todo).line = "MSG"
            /\ msgBuffer = [size |-> Len(Head(todo).data), length |-> Len(Head(todo).data) + 2]
            /\ Cat(b, w) = Cat(Body(Head(todo)), Stream(Tail(todo)))
        BY <2>1, <2>3, <2>4, <3>1, Zenon DEF InStep
      <4>2. msgBuffer.size = Len(Head(todo).data)
        BY <4>1
      <4>3. h = Header(Head(todo))
        BY <2>6, <3>1, <4>1, <4>2, Zenon DEF Header
      <4>4. /\ Head(todo) \in Frames
            /\ Stream(todo) = Cat(Header(Head(todo)), Cat(Body(Head(todo)), Stream(Tail(todo))))
        BY <4>1, FirstFrame, Zenon
      <4>5. Header(Head(todo)) \in Seq(Byte)
        BY <4>4, EncodedIs, Zenon
      <4> QED
        BY <4>1, <4>3, <4>4, <4>5, Zenon
    <3>2. CASE state # "AWAITING_MSG_PAYLOAD"
      <4>1. h = << >> /\ << >> \in Seq(Byte)
        BY <2>6, <3>2
      <4>2. Cat(b, w) = Stream(todo)
        BY <2>1, <2>3, <2>4, <3>2, Zenon DEF InStep
      <4> QED
        BY <2>5, <4>1, <4>2, CatNil, Zenon
    <3> QED
      BY <3>1, <3>2
  <2>8. Cat(Cat(Cat(a, h), b), w) = Cat(a, Cat(h, Cat(b, w)))
    <3>1. PICK k \in Seq(Byte) : k = Cat(a, h)
      BY <2>7, CatSeq, Zenon
    <3>2. PICK bw \in Seq(Byte) : bw = Cat(b, w)
      BY CatSeq, Zenon
    <3>3. Cat(Cat(k, b), w) = Cat(k, Cat(b, w))
      BY CatAssoc
    <3>4. Cat(Cat(a, h), bw) = Cat(a, Cat(h, bw))
      BY <2>7, CatAssoc
    <3> QED
      BY <3>1, <3>2, <3>3, <3>4, Zenon
  <2>9. Cat(Cat(Cat(a, h), b), w) = Stream(sent)
    BY <2>5, <2>7, <2>8, Zenon
  <2> QED
    BY <2>2, <2>3, <2>4, <2>6, <2>9, Zenon DEF Cat
<1> QED
  BY <1>1, Invariance, PTL
=============================================================================
