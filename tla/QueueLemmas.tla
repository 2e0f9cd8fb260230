---------------------------- MODULE QueueLemmas ----------------------------
(***************************************************************************)
(* Lemmas about the operators on sequences that the models are built from:  *)
(* concatenating the members of a sequence, and keeping some of a queue.    *)
(*                                                                         *)
(* FlattenSeq is a recursive function, so the lemmas need induction.  The    *)
(* rules of induction are stated for sets (of numbers, of sequences) and    *)
(* rest on the well-foundedness of the order on the natural numbers.        *)
(***************************************************************************)
EXTENDS Integers, Sequences, FiniteSets, Queues, WellFoundedInduction,
        FiniteSetTheorems, TLAPS

-----------------------------------------------------------------------------
(* Induction                                                                *)

NatOrder == OpToRel(<, Nat)

LEMMA NatOrderIsLess == \A m, n \in Nat : <<m, n>> \in NatOrder <=> m < n
<1>1. NatOrder = {p \in Nat \X Nat : p[1] < p[2]}
  BY DEF NatOrder, OpToRel
<1> QED
  BY <1>1

LEMMA Least ==
    ASSUME NEW T \in SUBSET Nat, T # {}
    PROVE  \E n \in T : \A m \in T : n <= m
<1>1. IsWellFoundedOn(NatOrder, Nat)
  BY NatLessThanWellFounded DEF NatOrder
<1>2. PICK n \in T : \A m \in T : ~ (<<m, n>> \in NatOrder)
  BY <1>1, WFMin
<1>3. \A m \in T : ~ (m < n)
  BY <1>2, NatOrderIsLess
<1> QED
  BY <1>3

LEMMA MinIs ==
    ASSUME NEW T \in SUBSET Nat, T # {}
    PROVE  Min(T) \in T /\ \A m \in T : Min(T) <= m
<1>1. \E n \in T : \A m \in T : n <= m
  BY Least
<1> QED
  BY <1>1, Zenon DEF Min

LEMMA MaxIs ==
    ASSUME NEW n \in Nat, NEW T \in SUBSET 0..n, T # {}
    PROVE  Max(T) \in T /\ \A m \in T : m <= Max(T)
<1> DEFINE U == {k \in Nat : n - k \in T}
<1>1. \A m \in T : n - m \in Nat /\ n - (n - m) = m
  OBVIOUS
<1>2. U # {}
  BY <1>1
<1>3. PICK k \in U : \A l \in U : k <= l
  <2>1. U \in SUBSET Nat
    OBVIOUS
  <2> HIDE DEF U
  <2> QED
    BY <1>2, <2>1, Least
<1>4. n - k \in T /\ \A m \in T : n - k >= m
  <2>1. \A m \in T : n - m \in U
    BY <1>1
  <2>2. \A m \in T : k <= n - m
    BY <1>3, <2>1
  <2> QED
    BY <1>3, <2>2
<1>5. Max(T) \in T /\ \A m \in T : Max(T) >= m
  BY <1>4, Zenon DEF Max
<1>6. \A x, m \in 0..n : x >= m => m <= x
  OBVIOUS
<1> QED
  BY <1>5, <1>6

LEMMA NatSetInduction ==
    ASSUME NEW T, 0 \in T, \A n \in Nat : n \in T => n + 1 \in T
    PROVE  Nat \subseteq T
<1> SUFFICES ASSUME Nat \ T # {} PROVE FALSE
  OBVIOUS
<1>1. PICK n \in Nat \ T : \A m \in Nat \ T : n <= m
  BY Least
<1>2. n - 1 \in Nat /\ (n - 1) + 1 = n
  BY <1>1
<1>3. n - 1 \in T
  BY <1>1, <1>2
<1> QED
  BY <1>1, <1>2, <1>3

\* What holds of the empty sequence and survives Append holds of every one.
LEMMA SeqSetInduction ==
    ASSUME NEW S, NEW T, << >> \in T,
           \A q \in Seq(S), x \in S : q \in T => Append(q, x) \in T
    PROVE  Seq(S) \subseteq T
<1> DEFINE N == {n \in Nat : \A q \in Seq(S) : Len(q) = n => q \in T}
<1>1. 0 \in N
  <2>1. \A q \in Seq(S) : Len(q) = 0 => q = << >>
    OBVIOUS
  <2> QED
    BY <2>1
<1>2. ASSUME NEW n \in Nat, n \in N PROVE n + 1 \in N
  <2>1. ASSUME NEW q \in Seq(S), Len(q) = n + 1 PROVE q \in T
    <3> DEFINE p == SubSeq(q, 1, n)
    <3>1. p \in Seq(S) /\ Len(p) = n /\ q[n + 1] \in S
      BY <2>1
    <3>2. q = Append(p, q[n + 1])
      BY <2>1, <3>1
    <3>3. p \in T
      BY <1>2, <3>1
    <3> QED
      BY <3>1, <3>2, <3>3
  <2> QED
    BY <2>1
<1>3. Nat \subseteq N
  <2> HIDE DEF N
  <2> QED
    BY <1>1, <1>2, NatSetInduction
<1> QED
  BY <1>3

-----------------------------------------------------------------------------
(* FlattenSeq                                                               *)

\* f concatenates the first n members of q.
Flattens(f, q, n) == f = [i \in 1..n |-> IF i = 1 THEN q[i] ELSE f[i-1] \o q[i]]

Flattening(q) == CHOOSE f : Flattens(f, q, Len(q))

LEMMA FlattenSeqIs ==
    ASSUME NEW q, Len(q) # 0
    PROVE  FlattenSeq(q) = Flattening(q)[Len(q)]
BY Zenon DEF FlattenSeq, Flattening, Flattens

LEMMA FlattensExists ==
    ASSUME NEW S, NEW q \in Seq(Seq(S))
    PROVE  \A n \in 0..Len(q) : \E f \in [1..n -> Seq(S)] : Flattens(f, q, n)
<1> DEFINE T == {n \in Nat : n <= Len(q) => \E f \in [1..n -> Seq(S)] : Flattens(f, q, n)}
<1>1. 0 \in T
  <2>1. << >> \in [1..0 -> Seq(S)] /\ Flattens(<< >>, q, 0)
    BY DEF Flattens
  <2> QED
    BY <2>1
<1>2. ASSUME NEW n \in Nat, n \in T PROVE n + 1 \in T
  <2> SUFFICES ASSUME n + 1 <= Len(q)
               PROVE  \E f \in [1..n+1 -> Seq(S)] : Flattens(f, q, n + 1)
    OBVIOUS
  <2>1. PICK f \in [1..n -> Seq(S)] : Flattens(f, q, n)
    BY <1>2
  <2>2. \A i \in 1..n+1 : q[i] \in Seq(S)
    OBVIOUS
  <2> DEFINE last == IF n = 0 THEN q[1] ELSE f[n] \o q[n + 1]
             g == [i \in 1..n+1 |-> IF i = n + 1 THEN last ELSE f[i]]
  <2>3. last \in Seq(S)
    BY <2>2
  <2>4. g \in [1..n+1 -> Seq(S)]
    BY <2>3
  <2>5. ASSUME NEW i \in 1..n+1
        PROVE  g[i] = IF i = 1 THEN q[i] ELSE g[i-1] \o q[i]
    <3>1. CASE i = n + 1
      <4>1. g[i] = last
        BY <3>1
      <4>2. CASE n = 0
        BY <3>1, <4>1, <4>2
      <4>3. CASE n # 0
        <5>1. i - 1 \in 1..n+1 /\ i - 1 # n + 1 /\ i - 1 = n
          BY <3>1, <4>3
        <5>2. g[i - 1] = f[n]
          BY <5>1
        <5> HIDE DEF g
        <5>3. g[i] = f[n] \o q[n + 1]
          BY <4>1, <4>3
        <5>4. i # 1
          BY <3>1, <4>3
        <5> HIDE DEF last
        <5> QED
          BY <3>1, <5>2, <5>3, <5>4
      <4> QED
        BY <4>2, <4>3
    <3>2. CASE i # n + 1
      <4>1. i \in 1..n /\ g[i] = f[i]
        BY <3>2
      <4>2. f[i] = IF i = 1 THEN q[i] ELSE f[i-1] \o q[i]
        BY <2>1, <4>1 DEF Flattens
      <4>3. i # 1 => g[i - 1] = f[i - 1]
        <5>1. i # 1 => i - 1 \in 1..n+1 /\ i - 1 # n + 1
          BY <3>2
        <5> QED
          BY <5>1
      <4> HIDE DEF g
      <4> QED
        BY <4>1, <4>2, <4>3
    <3> QED
      BY <3>1, <3>2
  <2>6. Flattens(g, q, n + 1)
    <3>1. g = [i \in 1..n+1 |-> g[i]]
      OBVIOUS
    <3> HIDE DEF g
    <3> QED
      BY <2>5, <3>1 DEF Flattens
  <2> QED
    BY <2>4, <2>6
<1>3. Nat \subseteq T
  <2> HIDE DEF T
  <2> QED
    BY <1>1, <1>2, NatSetInduction
<1> QED
  BY <1>3

Continues(r, q) == Len(q) <= Len(r) /\ \A i \in 1..Len(q) : r[i] = q[i]

\* What is appended does not change what was concatenated before it.
LEMMA FlattensUnique ==
    ASSUME NEW S, NEW q \in Seq(Seq(S)), NEW r \in Seq(Seq(S)), Continues(r, q),
           NEW f, Flattens(f, q, Len(q)), NEW g, Flattens(g, r, Len(r))
    PROVE  \A i \in 1..Len(q) : g[i] = f[i]
<1>0. Len(q) <= Len(r) /\ \A i \in 1..Len(q) : r[i] = q[i]
  BY DEF Continues
<1> DEFINE T == {i \in Nat : i \in 1..Len(q) => g[i] = f[i]}
<1>1. 0 \in T
  OBVIOUS
<1>2. ASSUME NEW i \in Nat, i \in T PROVE i + 1 \in T
  <2> SUFFICES ASSUME i + 1 \in 1..Len(q) PROVE g[i + 1] = f[i + 1]
    OBVIOUS
  <2>1. f[i + 1] = IF i + 1 = 1 THEN q[i + 1] ELSE f[i] \o q[i + 1]
    <3>1. i + 1 \in 1..Len(q) /\ (i + 1) - 1 = i
      OBVIOUS
    <3> QED
      BY <3>1 DEF Flattens
  <2>2. g[i + 1] = IF i + 1 = 1 THEN r[i + 1] ELSE g[i] \o r[i + 1]
    <3>1. i + 1 \in 1..Len(r) /\ (i + 1) - 1 = i
      BY <1>0
    <3> QED
      BY <3>1 DEF Flattens
  <2>3. i # 0 => g[i] = f[i]
    BY <1>2
  <2> QED
    BY <1>0, <2>1, <2>2, <2>3
<1>3. Nat \subseteq T
  <2> HIDE DEF T
  <2> QED
    BY <1>1, <1>2, NatSetInduction
<1> QED
  BY <1>3

LEMMA FlatteningIs ==
    ASSUME NEW S, NEW q \in Seq(Seq(S))
    PROVE  Flattens(Flattening(q), q, Len(q))
<1>1. \E f : Flattens(f, q, Len(q))
  BY FlattensExists
<1> QED
  BY <1>1, Zenon DEF Flattening

LEMMA FlattenEmpty == FlattenSeq(<< >>) = << >>
BY DEF FlattenSeq

LEMMA FlattenType ==
    ASSUME NEW S, NEW q \in Seq(Seq(S))
    PROVE  FlattenSeq(q) \in Seq(S)
<1>1. CASE q = << >>
  <2>1. << >> \in Seq(S)
    OBVIOUS
  <2> QED
    BY <1>1, <2>1, FlattenEmpty, Zenon
<1>2. CASE q # << >>
  <2>1. Len(q) \in Nat /\ Len(q) # 0 /\ Len(q) <= Len(q) /\ Len(q) \in 1..Len(q)
    BY <1>2
  <2>2. PICK f \in [1..Len(q) -> Seq(S)] : Flattens(f, q, Len(q))
    BY FlattensExists
  <2>3. PICK g : g = Flattening(q)
    OBVIOUS
  <2>4. Flattens(g, q, Len(q))
    BY <2>3, FlatteningIs, Zenon
  <2>5. \A i \in 1..Len(q) : g[i] = f[i]
    <3>1. Continues(q, q)
      BY <2>1 DEF Continues
    <3> QED
      BY <2>1, <2>2, <2>4, <3>1, FlattensUnique
  <2>6. FlattenSeq(q) = g[Len(q)]
    BY <2>1, <2>3, FlattenSeqIs, Zenon
  <2> QED
    BY <2>1, <2>5, <2>6
<1> QED
  BY <1>1, <1>2

LEMMA FlattenAppend ==
    ASSUME NEW S, NEW q \in Seq(Seq(S)), NEW x \in Seq(S)
    PROVE  FlattenSeq(Append(q, x)) = FlattenSeq(q) \o x
<1>0. Append(q, x) \in Seq(Seq(S))
  OBVIOUS
<1>1. PICK r \in Seq(Seq(S)) : r = Append(q, x)
  BY <1>0, Zenon
<1>2. PICK n \in Nat : n = Len(q)
  OBVIOUS
<1>3. Len(r) = n + 1 /\ r[n + 1] = x /\ \A i \in 1..n : r[i] = q[i]
  BY <1>1, <1>2
<1>4. Flattens(Flattening(r), r, Len(r)) /\ Flattens(Flattening(q), q, Len(q))
  BY FlatteningIs
<1>5. FlattenSeq(r) = Flattening(r)[n + 1]
  BY <1>3, FlattenSeqIs
<1>6. Flattening(r)[n + 1] = IF n + 1 = 1 THEN x ELSE Flattening(r)[n] \o x
  <2>1. n + 1 \in 1..Len(r) /\ (n + 1) - 1 = n
    BY <1>3
  <2>2. PICK g : g = Flattening(r)
    OBVIOUS
  <2>3. g = [i \in 1..Len(r) |-> IF i = 1 THEN r[i] ELSE g[i-1] \o r[i]]
    BY <1>4, <2>2, Zenon DEF Flattens
  <2>4. g[n + 1] = IF n + 1 = 1 THEN r[n + 1] ELSE g[(n + 1) - 1] \o r[n + 1]
    BY <2>1, <2>3, Zenon
  <2> QED
    BY <1>3, <2>1, <2>2, <2>4, Zenon
<1>7. CASE n = 0
  <2>0. Len(q) = 0 => q = << >>
    OBVIOUS
  <2>1. q = << >>
    BY <1>2, <1>7, <2>0
  <2>2. FlattenSeq(r) = x
    BY <1>5, <1>6, <1>7
  <2>3. << >> \o x = x
    OBVIOUS
  <2> QED
    BY <1>1, <2>1, <2>2, <2>3, FlattenEmpty, Zenon
<1>8. CASE n # 0
  <2>1. Len(q) \in Nat /\ Len(r) \in Nat /\ Len(q) <= Len(r) /\ n \in 1..Len(q)
    BY <1>2, <1>3, <1>8
  <2>2. Continues(r, q)
    BY <1>2, <1>3, <2>1 DEF Continues
  <2>a. PICK f : f = Flattening(q)
    OBVIOUS
  <2>b. PICK g : g = Flattening(r)
    OBVIOUS
  <2>c. Flattens(f, q, Len(q)) /\ Flattens(g, r, Len(r))
    BY <1>4, <2>a, <2>b, Zenon
  <2>d. \A i \in 1..Len(q) : g[i] = f[i]
    BY <2>c, <2>2, FlattensUnique
  <2>3. \A i \in 1..Len(q) : Flattening(r)[i] = Flattening(q)[i]
    BY <2>a, <2>b, <2>d, Zenon
  <2>4. FlattenSeq(q) = Flattening(q)[n]
    BY <1>2, <1>8, FlattenSeqIs
  <2>5. Flattening(r)[n] = Flattening(q)[n]
    BY <2>1, <2>3
  <2>6. n + 1 # 1
    BY <1>8
  <2> QED
    BY <1>1, <1>5, <1>6, <2>4, <2>5, <2>6, Zenon
<1> QED
  BY <1>7, <1>8

LEMMA FlattenOne ==
    ASSUME NEW S, NEW x \in Seq(S)
    PROVE  FlattenSeq(<<x>>) = x
<1>1. << >> \in Seq(Seq(S)) /\ Append(<< >>, x) = <<x>> /\ << >> \o x = x
  OBVIOUS
<1> QED
  BY <1>1, FlattenAppend, FlattenEmpty

LEMMA FlattenConcat ==
    ASSUME NEW S, NEW p \in Seq(Seq(S)), NEW q \in Seq(Seq(S))
    PROVE  FlattenSeq(p \o q) = FlattenSeq(p) \o FlattenSeq(q)
<1> DEFINE T == {r \in Seq(Seq(S)) : FlattenSeq(p \o r) = FlattenSeq(p) \o FlattenSeq(r)}
<1>0. FlattenSeq(p) \in Seq(S)
  BY FlattenType
<1>1. << >> \in T
  <2>1. p \o << >> = p /\ FlattenSeq(p) \o << >> = FlattenSeq(p)
    BY <1>0
  <2>2. << >> \in Seq(Seq(S))
    OBVIOUS
  <2>3. FlattenSeq(p \o << >>) = FlattenSeq(p) \o FlattenSeq(<< >>)
    BY <2>1, FlattenEmpty, Zenon
  <2> QED
    BY <2>2, <2>3
<1>2. ASSUME NEW r \in Seq(Seq(S)), NEW x \in Seq(S), r \in T PROVE Append(r, x) \in T
  <2>a. p \o Append(r, x) = Append(p \o r, x)
    BY SMTT(20)
  <2>b. p \o r \in Seq(Seq(S)) /\ Append(r, x) \in Seq(Seq(S))
    OBVIOUS
  <2>1. /\ p \o Append(r, x) = Append(p \o r, x)
        /\ p \o r \in Seq(Seq(S)) /\ Append(r, x) \in Seq(Seq(S))
    BY <2>a, <2>b, Zenon
  <2>2. FlattenSeq(p \o Append(r, x)) = FlattenSeq(p \o r) \o x
    BY <2>1, FlattenAppend
  <2>3. FlattenSeq(Append(r, x)) = FlattenSeq(r) \o x
    BY FlattenAppend
  <2>4. FlattenSeq(r) \in Seq(S)
    BY FlattenType
  <2>5. (FlattenSeq(p) \o FlattenSeq(r)) \o x = FlattenSeq(p) \o (FlattenSeq(r) \o x)
    BY <1>0, <2>4, SMTT(20)
  <2> QED
    BY <1>2, <2>1, <2>2, <2>3, <2>5
<1>3. Seq(Seq(S)) \subseteq T
  <2> HIDE DEF T
  <2> QED
    BY <1>1, <1>2, SeqSetInduction
<1> QED
  BY <1>3

-----------------------------------------------------------------------------
(* AtIndices                                                                *)

Selection(q, I) == [i \in DOMAIN q |-> IF i \in I THEN <<q[i]>> ELSE <<>>]

LEMMA SelectionType ==
    ASSUME NEW S, NEW q \in Seq(S), NEW I
    PROVE  Selection(q, I) \in Seq(Seq(S)) /\ Len(Selection(q, I)) = Len(q)
<1>1. PICK n \in Nat : n = Len(q)
  OBVIOUS
<1>2. << >> \in Seq(S) /\ \A i \in 1..n : <<q[i]>> \in Seq(S)
  BY <1>1
<1>3. Selection(q, I) = [i \in 1..n |-> IF i \in I THEN <<q[i]>> ELSE <<>>]
  BY <1>1 DEF Selection
<1>4. \A i \in 1..n : (IF i \in I THEN <<q[i]>> ELSE <<>>) \in Seq(S)
  BY <1>2, Zenon
<1>5. Selection(q, I) \in [1..n -> Seq(S)]
  BY <1>3, <1>4, Zenon
<1>6. \A f \in [1..n -> Seq(S)] : f \in Seq(Seq(S)) /\ Len(f) = n
  OBVIOUS
<1> QED
  BY <1>1, <1>5, <1>6

LEMMA AtIndicesType ==
    ASSUME NEW S, NEW q \in Seq(S), NEW I
    PROVE  AtIndices(q, I) \in Seq(S)
<1>1. AtIndices(q, I) = FlattenSeq(Selection(q, I))
  BY Zenon DEF AtIndices, Selection
<1> QED
  BY <1>1, SelectionType, FlattenType, Zenon

LEMMA AtIndicesOfEmpty == \A I : AtIndices(<< >>, I) = << >>
<1> SUFFICES ASSUME NEW I PROVE AtIndices(<< >>, I) = << >>
  OBVIOUS
<1>1. Selection(<< >>, I) = << >>
  <2>1. Selection(<< >>, I) \in Seq(Seq({})) /\ Len(Selection(<< >>, I)) = 0
    <3>1. << >> \in Seq({}) /\ Len(<< >>) = 0
      OBVIOUS
    <3> QED
      BY <3>1, SelectionType, Zenon
  <2>2. \A q \in Seq(Seq({})) : Len(q) = 0 => q = << >>
    OBVIOUS
  <2> QED
    BY <2>1, <2>2, Zenon
<1> QED
  BY <1>1, FlattenEmpty, Zenon DEF AtIndices, Selection

LEMMA AtIndicesOfAppend ==
    ASSUME NEW S, NEW q \in Seq(S), NEW x \in S, NEW I
    PROVE  AtIndices(Append(q, x), I) =
             IF Len(q) + 1 \in I THEN Append(AtIndices(q, I), x) ELSE AtIndices(q, I)
<1>0. Append(q, x) \in Seq(S)
  OBVIOUS
<1>1. PICK r \in Seq(S) : r = Append(q, x)
  BY <1>0, Zenon
<1>2. PICK n \in Nat : n = Len(q)
  OBVIOUS
<1>3. Len(r) = n + 1 /\ r[n + 1] = x /\ \A i \in 1..n : r[i] = q[i]
  BY <1>1, <1>2
<1> DEFINE last == IF n + 1 \in I THEN <<x>> ELSE <<>>
<1>4. last \in Seq(S)
  <2>1. << >> \in Seq(S) /\ <<x>> \in Seq(S)
    OBVIOUS
  <2> QED
    BY <2>1, Zenon
<1>5. PICK m \in Seq(Seq(S)) : m = Selection(q, I) /\ Len(m) = n
  BY <1>2, SelectionType, Zenon
<1>6. PICK k \in Seq(Seq(S)) : k = Selection(r, I) /\ Len(k) = n + 1
  BY <1>3, SelectionType, Zenon
<1>7. k = Append(m, last)
  <2>1. DOMAIN q = 1..n /\ DOMAIN r = 1..(n + 1)
    BY <1>2, <1>3
  <2>2. \A i \in 1..n : i \in 1..(n + 1)
    OBVIOUS
  <2>3. \A i \in 1..n : k[i] = m[i]
    BY <1>3, <1>5, <1>6, <2>1, <2>2, Zenon DEF Selection
  <2>4. n + 1 \in 1..(n + 1)
    OBVIOUS
  <2>5. k[n + 1] = last
    BY <1>3, <1>6, <2>1, <2>4, Zenon DEF Selection
  <2> HIDE DEF last
  <2>6. \A l \in Seq(S) : k[n + 1] = l => k = Append(m, l)
    BY <1>5, <1>6, <2>3
  <2> QED
    BY <1>4, <2>5, <2>6, Zenon
<1>8. FlattenSeq(k) = FlattenSeq(m) \o last
  BY <1>4, <1>7, FlattenAppend, Zenon
<1>9. FlattenSeq(k) = AtIndices(r, I) /\ FlattenSeq(m) = AtIndices(q, I)
  BY <1>5, <1>6, Zenon DEF AtIndices, Selection
<1>10. AtIndices(q, I) \in Seq(S)
  BY AtIndicesType, Zenon
<1>11. \A a \in Seq(S) : a \o << >> = a /\ a \o <<x>> = Append(a, x)
  OBVIOUS
<1> QED
  BY <1>1, <1>2, <1>8, <1>9, <1>10, <1>11, Zenon

\* Only the indices of q count.
LEMMA AtIndicesDepends ==
    ASSUME NEW q, NEW I, NEW J, \A i \in DOMAIN q : i \in I <=> i \in J
    PROVE  AtIndices(q, I) = AtIndices(q, J)
<1>1. Selection(q, I) = Selection(q, J)
  BY Zenon DEF Selection
<1> QED
  BY <1>1, Zenon DEF AtIndices, Selection

-----------------------------------------------------------------------------
(* Among                                                                    *)

LEMMA AmongOfEmpty == \A S : Among(<< >>, S) = << >>
BY AtIndicesOfEmpty, Zenon DEF Among

LEMMA AmongOfAppend ==
    ASSUME NEW T, NEW q \in Seq(T), NEW x \in T, NEW S
    PROVE  Among(Append(q, x), S) =
             IF x \in S THEN Append(Among(q, S), x) ELSE Among(q, S)
<1>0. Append(q, x) \in Seq(T)
  OBVIOUS
<1>1. PICK r \in Seq(T) : r = Append(q, x)
  BY <1>0, Zenon
<1>2. PICK n \in Nat : n = Len(q)
  OBVIOUS
<1>3. /\ DOMAIN q = 1..n /\ DOMAIN r = 1..(n + 1) /\ n + 1 \in 1..(n + 1)
      /\ r[n + 1] = x /\ \A i \in 1..n : r[i] = q[i] /\ i \in 1..(n + 1)
  BY <1>1, <1>2
<1>4. PICK I : I = {i \in DOMAIN r : r[i] \in S}
  OBVIOUS
<1>5. PICK J : J = {i \in DOMAIN q : q[i] \in S}
  OBVIOUS
<1>6. \A i \in DOMAIN q : i \in I <=> i \in J
  BY <1>3, <1>4, <1>5, Zenon
<1>7. n + 1 \in I <=> x \in S
  BY <1>3, <1>4, Zenon
<1>8. AtIndices(q, I) = AtIndices(q, J)
  BY <1>6, AtIndicesDepends, Zenon
<1>9. AtIndices(r, I) = IF n + 1 \in I THEN Append(AtIndices(q, I), x) ELSE AtIndices(q, I)
  <2>1. AtIndices(Append(q, x), I) =
          IF Len(q) + 1 \in I THEN Append(AtIndices(q, I), x) ELSE AtIndices(q, I)
    BY AtIndicesOfAppend
  <2> QED
    BY <1>1, <1>2, <2>1, Zenon
<1>10. Among(r, S) = AtIndices(r, I) /\ Among(q, S) = AtIndices(q, J)
  BY <1>4, <1>5, Zenon DEF Among
<1> QED
  BY <1>1, <1>7, <1>8, <1>9, <1>10, Zenon

LEMMA AmongType ==
    ASSUME NEW T, NEW q \in Seq(T), NEW S
    PROVE  Among(q, S) \in Seq(T \cap S)
<1> DEFINE U == {r \in Seq(T) : Among(r, S) \in Seq(T \cap S)}
<1>1. << >> \in U
  <2>1. << >> \in Seq(T) /\ << >> \in Seq(T \cap S)
    OBVIOUS
  <2> QED
    BY <2>1, AmongOfEmpty, Zenon
<1>2. ASSUME NEW r \in Seq(T), NEW x \in T, r \in U PROVE Append(r, x) \in U
  <2>1. Among(r, S) \in Seq(T \cap S)
    BY <1>2
  <2>2. \A a \in Seq(T \cap S) : x \in S => Append(a, x) \in Seq(T \cap S)
    OBVIOUS
  <2>3. Append(r, x) \in Seq(T)
    OBVIOUS
  <2>4. Among(Append(r, x), S) \in Seq(T \cap S)
    <3>1. Among(Append(r, x), S) = IF x \in S THEN Append(Among(r, S), x) ELSE Among(r, S)
      BY AmongOfAppend, Zenon
    <3> QED
      BY <2>1, <2>2, <3>1, Zenon
  <2> QED
    BY <2>3, <2>4
<1>3. Seq(T) \subseteq U
  <2> HIDE DEF U
  <2> QED
    BY <1>1, <1>2, SeqSetInduction
<1> QED
  BY <1>3

LEMMA AmongConcat ==
    ASSUME NEW T, NEW p \in Seq(T), NEW q \in Seq(T), NEW S
    PROVE  Among(p \o q, S) = Among(p, S) \o Among(q, S)
<1> DEFINE U == {r \in Seq(T) : Among(p \o r, S) = Among(p, S) \o Among(r, S)}
<1>0. \A r \in Seq(T) : Among(r, S) \in Seq(T)
  <2>1. \A a \in Seq(T \cap S) : a \in Seq(T)
    OBVIOUS
  <2> QED
    BY <2>1, AmongType, Zenon
<1>1. << >> \in U
  <2>1. << >> \in Seq(T) /\ \A a \in Seq(T) : a \o << >> = a
    OBVIOUS
  <2>2. p \o << >> = p /\ Among(p, S) \o << >> = Among(p, S)
    BY <1>0, <2>1, Zenon
  <2>3. Among(p \o << >>, S) = Among(p, S) \o Among(<< >>, S)
    BY <2>2, AmongOfEmpty, Zenon
  <2> QED
    BY <2>1, <2>3
<1>2. ASSUME NEW r \in Seq(T), NEW x \in T, r \in U PROVE Append(r, x) \in U
  <2>1. \A a, b \in Seq(T) : a \o Append(b, x) = Append(a \o b, x) /\ a \o b \in Seq(T)
    OBVIOUS
  <2>2. Append(r, x) \in Seq(T)
    OBVIOUS
  <2>3. Among(p \o r, S) = Among(p, S) \o Among(r, S)
    BY <1>2
  <2>4. Among(Append(p \o r, x), S) =
          IF x \in S THEN Append(Among(p \o r, S), x) ELSE Among(p \o r, S)
    BY <2>1, AmongOfAppend, Zenon
  <2>5. Among(Append(r, x), S) = IF x \in S THEN Append(Among(r, S), x) ELSE Among(r, S)
    BY AmongOfAppend, Zenon
  <2>6. p \o Append(r, x) = Append(p \o r, x)
    BY <2>1, Zenon
  <2>7. Among(p, S) \o Append(Among(r, S), x) = Append(Among(p, S) \o Among(r, S), x)
    BY <1>0, <2>1, Zenon
  <2>8. Among(p \o Append(r, x), S) = Among(p, S) \o Among(Append(r, x), S)
    BY <2>3, <2>4, <2>5, <2>6, <2>7, Zenon
  <2> QED
    BY <2>2, <2>8
<1>3. Seq(T) \subseteq U
  <2> HIDE DEF U
  <2> QED
    BY <1>1, <1>2, SeqSetInduction
<1> QED
  BY <1>3

\* Nothing is dropped of a queue whose elements are all kept.
LEMMA AmongAll ==
    ASSUME NEW S, NEW q \in Seq(S)
    PROVE  Among(q, S) = q
<1> DEFINE U == {r \in Seq(S) : Among(r, S) = r}
<1>1. << >> \in U
  <2>1. << >> \in Seq(S)
    OBVIOUS
  <2> QED
    BY <2>1, AmongOfEmpty, Zenon
<1>2. ASSUME NEW r \in Seq(S), NEW x \in S, r \in U PROVE Append(r, x) \in U
  <2>1. Append(r, x) \in Seq(S)
    OBVIOUS
  <2>2. Among(Append(r, x), S) = Append(r, x)
    BY <1>2, AmongOfAppend, Zenon
  <2> QED
    BY <2>1, <2>2
<1>3. Seq(S) \subseteq U
  <2> HIDE DEF U
  <2> QED
    BY <1>1, <1>2, SeqSetInduction
<1> QED
  BY <1>3

-----------------------------------------------------------------------------
(* What is in a sequence, once each                                         *)

LEMMA ToSetIs == \A q : \A x : x \in ToSet(q) <=> \E i \in DOMAIN q : q[i] = x
BY Zenon DEF ToSet

LEMMA InAppend ==
    ASSUME NEW T, NEW q \in Seq(T), NEW x \in T
    PROVE  /\ ToSet(Append(q, x)) = ToSet(q) \cup {x}
           /\ IsInjective(Append(q, x)) <=> IsInjective(q) /\ x \notin ToSet(q)
<1>1. PICK n \in Nat : n = Len(q) /\ DOMAIN q = 1..n
  OBVIOUS
<1>2. PICK r : r = Append(q, x)
  OBVIOUS
<1>3. DOMAIN r = 1..(n + 1) /\ r[n + 1] = x /\ \A i \in 1..n : r[i] = q[i]
  BY <1>1, <1>2
<1>4. /\ \A i : i \in 1..(n + 1) <=> i \in 1..n \/ i = n + 1
      /\ \A i \in 1..n : i # n + 1
  OBVIOUS
<1>5. ToSet(r) = ToSet(q) \cup {x}
  BY <1>1, <1>3, <1>4, Zenon DEF ToSet
<1>6. ASSUME IsInjective(r) PROVE IsInjective(q) /\ x \notin ToSet(q)
  BY <1>1, <1>3, <1>4, <1>6, Zenon DEF ToSet, IsInjective
<1>7. ASSUME IsInjective(q), x \notin ToSet(q) PROVE IsInjective(r)
  BY <1>1, <1>3, <1>4, <1>7, Zenon DEF ToSet, IsInjective
<1> QED
  BY <1>2, <1>5, <1>6, <1>7, Zenon

LEMMA InConcat ==
    ASSUME NEW T, NEW p \in Seq(T), NEW q \in Seq(T)
    PROVE  /\ ToSet(p \o q) = ToSet(p) \cup ToSet(q)
           /\ IsInjective(p) /\ IsInjective(q) /\ ToSet(p) \cap ToSet(q) = {}
                => IsInjective(p \o q)
<1>1. PICK m \in Nat : m = Len(p) /\ DOMAIN p = 1..m
  OBVIOUS
<1>2. PICK n \in Nat : n = Len(q) /\ DOMAIN q = 1..n
  OBVIOUS
<1>3. PICK r : r = p \o q
  OBVIOUS
<1>4. /\ DOMAIN r = 1..(m + n)
      /\ \A i \in 1..m : r[i] = p[i]
      /\ \A i \in (m + 1)..(m + n) : r[i] = q[i - m] /\ i - m \in 1..n
      /\ \A i \in 1..n : r[m + i] = q[i] /\ m + i \in 1..(m + n)
      /\ \A i \in 1..(m + n) : i \in 1..m \/ i \in (m + 1)..(m + n)
      /\ \A i \in 1..m : i \in 1..(m + n)
  BY <1>1, <1>2, <1>3
<1>5. ASSUME NEW x, x \in ToSet(r) PROVE x \in ToSet(p) \cup ToSet(q)
  <2>1. PICK i \in 1..(m + n) : r[i] = x
    BY <1>4, <1>5, Zenon DEF ToSet
  <2> QED
    BY <1>1, <1>2, <1>4, <2>1, Zenon DEF ToSet
<1>6. ASSUME NEW x, x \in ToSet(p) \cup ToSet(q) PROVE x \in ToSet(r)
  <2>1. CASE x \in ToSet(p)
    BY <1>1, <1>4, <2>1, Zenon DEF ToSet
  <2>2. CASE x \in ToSet(q)
    BY <1>2, <1>4, <2>2, Zenon DEF ToSet
  <2> QED
    BY <1>6, <2>1, <2>2
<1>7. ASSUME IsInjective(p), IsInjective(q), ToSet(p) \cap ToSet(q) = {}
      PROVE  IsInjective(r)
  <2> SUFFICES ASSUME NEW i \in 1..(m + n), NEW j \in 1..(m + n), r[i] = r[j] PROVE i = j
    BY <1>4, Zenon DEF IsInjective
  <2>1. \A k \in 1..m, l \in 1..n : p[k] # q[l]
    BY <1>1, <1>2, <1>7, Zenon DEF ToSet
  <2>2. \A k, l \in 1..m : p[k] = p[l] => k = l
    BY <1>1, <1>7, Zenon DEF IsInjective
  <2>3. \A k, l \in 1..n : q[k] = q[l] => k = l
    BY <1>2, <1>7, Zenon DEF IsInjective
  <2>4. CASE i \in 1..m /\ j \in 1..m
    BY <1>4, <2>2, <2>4, Zenon
  <2>5. CASE i \in (m + 1)..(m + n) /\ j \in (m + 1)..(m + n)
    <3>1. i - m = j - m
      BY <1>4, <2>3, <2>5
    <3> QED
      BY <3>1
  <2>6. CASE i \in 1..m /\ j \in (m + 1)..(m + n)
    BY <1>4, <2>1, <2>6
  <2>7. CASE i \in (m + 1)..(m + n) /\ j \in 1..m
    BY <1>4, <2>1, <2>7
  <2> QED
    BY <1>4, <2>4, <2>5, <2>6, <2>7, Zenon
<1>8. ToSet(r) = ToSet(p) \cup ToSet(q)
  BY <1>5, <1>6, Zenon
<1> QED
  BY <1>3, <1>7, <1>8, Zenon

LEMMA InSubSeq ==
    ASSUME NEW T, NEW q \in Seq(T), NEW a \in Nat, NEW b \in Nat, 1 <= a, b <= Len(q)
    PROVE  /\ SubSeq(q, a, b) \in Seq(T)
           /\ \A x : x \in ToSet(SubSeq(q, a, b)) <=> \E i \in a..b : q[i] = x
           /\ IsInjective(q) => IsInjective(SubSeq(q, a, b))
<1>0. SubSeq(q, a, b) \in Seq(T)
  OBVIOUS
<1>1. PICK r \in Seq(T) : r = SubSeq(q, a, b)
  BY <1>0, Zenon
<1>2. PICK n \in Nat : n = Len(r)
  OBVIOUS
<1>3. n = IF a <= b THEN b - a + 1 ELSE 0
  BY <1>1, <1>2
<1>4. DOMAIN r = 1..n /\ \A i \in 1..n : r[i] = q[a + i - 1]
  BY <1>1, <1>2
<1>5. /\ \A i \in 1..n : a + i - 1 \in a..b /\ a + i - 1 \in DOMAIN q
      /\ \A i \in a..b : i - a + 1 \in 1..n /\ a + (i - a + 1) - 1 = i
      /\ \A i, j \in 1..n : a + i - 1 = a + j - 1 => i = j
  BY <1>3
<1>6. ASSUME NEW x PROVE x \in ToSet(r) <=> \E i \in a..b : q[i] = x
  <2>1. ASSUME x \in ToSet(r) PROVE \E i \in a..b : q[i] = x
    <3>1. PICK k \in 1..n : r[k] = x
      BY <1>4, <2>1, Zenon DEF ToSet
    <3> QED
      BY <1>4, <1>5, <3>1
  <2>2. ASSUME NEW i \in a..b, q[i] = x PROVE x \in ToSet(r)
    <3>1. PICK k \in 1..n : k = i - a + 1
      BY <1>5
    <3>2. r[k] = x
      BY <1>4, <1>5, <2>2, <3>1
    <3> QED
      BY <1>4, <3>2, Zenon DEF ToSet
  <2> QED
    BY <2>1, <2>2
<1>7. ASSUME IsInjective(q) PROVE IsInjective(r)
  <2> SUFFICES ASSUME NEW i \in 1..n, NEW j \in 1..n, r[i] = r[j] PROVE i = j
    BY <1>4, Zenon DEF IsInjective
  <2>1. q[a + i - 1] = q[a + j - 1]
    BY <1>4, Zenon
  <2>2. a + i - 1 = a + j - 1
    BY <1>5, <1>7, <2>1, Zenon DEF IsInjective
  <2> QED
    BY <1>5, <2>2, Zenon
<1> QED
  BY <1>1, <1>6, <1>7, Zenon

\* What Among keeps is what was there and is in the set, once each as before.
LEMMA InAmong ==
    ASSUME NEW T, NEW q \in Seq(T), NEW S
    PROVE  /\ ToSet(Among(q, S)) = ToSet(q) \cap S
           /\ IsInjective(q) => IsInjective(Among(q, S))
<1> DEFINE U == {r \in Seq(T) : /\ ToSet(Among(r, S)) = ToSet(r) \cap S
                                /\ IsInjective(r) => IsInjective(Among(r, S))}
<1>1. << >> \in U
  <2>1. << >> \in Seq(T) /\ DOMAIN << >> = {}
    OBVIOUS
  <2>2. ToSet(<< >>) = {} /\ IsInjective(<< >>)
    BY <2>1, Zenon DEF ToSet, IsInjective
  <2> QED
    BY <2>1, <2>2, AmongOfEmpty, Zenon
<1>2. ASSUME NEW r \in Seq(T), NEW x \in T, r \in U PROVE Append(r, x) \in U
  <2>1. Append(r, x) \in Seq(T)
    OBVIOUS
  <2>2. /\ ToSet(Append(r, x)) = ToSet(r) \cup {x}
        /\ IsInjective(Append(r, x)) <=> IsInjective(r) /\ x \notin ToSet(r)
    BY InAppend
  <2>3. Among(r, S) \in Seq(T)
    <3>1. \A a \in Seq(T \cap S) : a \in Seq(T)
      OBVIOUS
    <3> QED
      BY <3>1, AmongType, Zenon
  <2>4. Among(Append(r, x), S) = IF x \in S THEN Append(Among(r, S), x) ELSE Among(r, S)
    BY AmongOfAppend, Zenon
  <2>5. x \in S => /\ ToSet(Append(Among(r, S), x)) = ToSet(Among(r, S)) \cup {x}
                   /\ IsInjective(Append(Among(r, S), x))
                        <=> IsInjective(Among(r, S)) /\ x \notin ToSet(Among(r, S))
    BY <2>3, InAppend
  <2>6. /\ ToSet(Among(r, S)) = ToSet(r) \cap S
        /\ IsInjective(r) => IsInjective(Among(r, S))
    BY <1>2
  <2>7. /\ ToSet(Among(Append(r, x), S)) = ToSet(Append(r, x)) \cap S
        /\ IsInjective(Append(r, x)) => IsInjective(Among(Append(r, x), S))
    BY <2>2, <2>4, <2>5, <2>6, Zenon
  <2> QED
    BY <2>1, <2>7
<1>3. Seq(T) \subseteq U
  <2> HIDE DEF U
  <2> QED
    BY <1>1, <1>2, SeqSetInduction
<1> QED
  BY <1>3

LEMMA InjectiveLength ==
    ASSUME NEW S, IsFiniteSet(S), NEW q \in Seq(S), IsInjective(q)
    PROVE  Len(q) <= Cardinality(S)
<1>1. PICK n \in Nat : n = Len(q)
  OBVIOUS
<1>2. q \in [1..n -> S]
  BY <1>1
<1>3. q \in Injection(1..n, S)
  BY <1>2, Zenon DEF Injection
<1>4. Cardinality(1..n) <= Cardinality(S)
  BY <1>3, FS_Injection
<1>5. Cardinality(1..n) = n
  <2>1. 1 \in Int /\ n \in Int
    OBVIOUS
  <2>2. Cardinality(1..n) = IF 1 > n THEN 0 ELSE n - 1 + 1
    BY <2>1, FS_Interval
  <2> QED
    BY <2>2
<1> QED
  BY <1>1, <1>4, <1>5

\* An enumeration of a finite set.
LEMMA EnumerationIs ==
    ASSUME NEW S, IsFiniteSet(S), NEW q \in SetToSeqs(S)
    PROVE  q \in Seq(S) /\ IsInjective(q) /\ Len(q) = Cardinality(S)
<1>1. PICK n \in Nat : n = Cardinality(S)
  BY FS_CardinalityType
<1>2. q \in [1..n -> S] /\ \A i, j \in 1..n : i # j => q[i] # q[j]
  BY <1>1, Zenon DEF SetToSeqs
<1>3. q \in Seq(S) /\ Len(q) = n
  BY <1>2
<1>4. IsInjective(q)
  BY <1>2, Zenon DEF IsInjective
<1> QED
  BY <1>1, <1>3, <1>4

-----------------------------------------------------------------------------
(* Two ways to cut a sequence                                               *)

OfLength(S, n) == [1..n -> S]

LEMMA SeqOfLength ==
    ASSUME NEW S, NEW q \in Seq(S), NEW n \in Nat, Len(q) = n
    PROVE  q \in OfLength(S, n)
BY DEF OfLength

LEMMA LengthOf ==
    ASSUME NEW S, NEW n \in Nat, NEW q \in OfLength(S, n)
    PROVE  q \in Seq(S) /\ Len(q) = n /\ DOMAIN q = 1..n /\ \A i \in 1..n : q[i] \in S
BY DEF OfLength

LEMMA SameElements ==
    ASSUME NEW S, NEW n \in Nat, NEW p \in OfLength(S, n), NEW q \in OfLength(S, n),
           \A i \in 1..n : p[i] = q[i]
    PROVE  p = q
BY DEF OfLength

Cat(p, q) == p \o q
Cut(q, a, b) == SubSeq(q, a + 1, b)

LEMMA CatIs ==
    ASSUME NEW S, NEW m \in Nat, NEW n \in Nat, NEW p \in OfLength(S, m), NEW q \in OfLength(S, n)
    PROVE  /\ Cat(p, q) \in OfLength(S, m + n)
           /\ \A i \in 1..m : Cat(p, q)[i] = p[i]
           /\ \A i \in 1..n : Cat(p, q)[m + i] = q[i]
<1>1. p \in Seq(S) /\ Len(p) = m /\ q \in Seq(S) /\ Len(q) = n
  BY LengthOf
<1>2. p \o q \in Seq(S) /\ Len(p \o q) = m + n
  BY <1>1
<1>3. \A r \in Seq(S) : Len(r) = m + n => r \in OfLength(S, m + n)
  BY DEF OfLength
<1>4. \A i \in 1..m : (p \o q)[i] = p[i]
  BY <1>1
<1>5. \A i \in 1..n : (p \o q)[m + i] = q[i]
  BY <1>1
<1> QED
  BY <1>2, <1>3, <1>4, <1>5, Zenon DEF Cat

LEMMA CutIs ==
    ASSUME NEW S, NEW a \in Nat, NEW n \in Nat, NEW q \in OfLength(S, a + n)
    PROVE  /\ Cut(q, a, a + n) \in OfLength(S, n)
           /\ \A i \in 1..n : Cut(q, a, a + n)[i] = q[a + i]
<1>1. PICK c \in Nat : c = a + 1
  OBVIOUS
<1>2. PICK b \in Nat : b = a + n
  OBVIOUS
<1>3. q \in Seq(S) /\ Len(q) = b
  BY <1>2, LengthOf
<1>4. SubSeq(q, c, b) \in Seq(S) /\ Len(SubSeq(q, c, b)) = n
  BY <1>1, <1>2, <1>3
<1>5. \A i \in 1..n : SubSeq(q, c, b)[i] = q[c + i - 1]
  BY <1>1, <1>2, <1>3
<1>6. \A i \in 1..n : c + i - 1 = a + i
  BY <1>1
<1>7. \A r \in Seq(S) : Len(r) = n => r \in OfLength(S, n)
  BY DEF OfLength
<1>8. SubSeq(q, c, b) \in OfLength(S, n)
  BY <1>4, <1>7, Zenon
<1>9. \A i \in 1..n : SubSeq(q, c, b)[i] = q[a + i]
  BY <1>5, <1>6
<1>10. Cut(q, a, a + n) = SubSeq(q, c, b)
  BY <1>1, <1>2, Zenon DEF Cut
<1> QED
  BY <1>8, <1>9, <1>10, Zenon

\* The last n elements of a sequence that has a before them.
RestOf(S, q, a, n) == a \in Nat /\ n \in Nat /\ q \in OfLength(S, a + n)

CutsRest(S, q, a, n) ==
    /\ Cut(q, a, a + n) \in OfLength(S, n)
    /\ \A i \in 1..n : Cut(q, a, a + n)[i] = q[a + i]

LEMMA CutRest ==
    ASSUME NEW S, NEW q, NEW a, NEW n, RestOf(S, q, a, n)
    PROVE  CutsRest(S, q, a, n)
BY CutIs, Zenon DEF RestOf, CutsRest

\* r is the concatenation of u and w.
Joins(r, u, w, m, n) ==
    (\A i \in 1..m : r[i] = u[i]) /\ \A i \in 1..n : r[m + i] = w[i]

LEMMA CatJoins ==
    ASSUME NEW S, NEW m \in Nat, NEW n \in Nat, NEW p \in OfLength(S, m), NEW q \in OfLength(S, n)
    PROVE  Joins(Cat(p, q), p, q, m, n)
<1>1. /\ Cat(p, q) \in OfLength(S, m + n)
      /\ \A i \in 1..m : Cat(p, q)[i] = p[i]
      /\ \A i \in 1..n : Cat(p, q)[m + i] = q[i]
  BY CatIs
<1> QED
  BY <1>1, Zenon DEF Joins

LEMMA CatType ==
    ASSUME NEW S, NEW m \in Nat, NEW n \in Nat, NEW p \in OfLength(S, m), NEW q \in OfLength(S, n)
    PROVE  Cat(p, q) \in OfLength(S, m + n)
BY CatIs

LEMMA CutJoined ==
    ASSUME NEW S, NEW k \in Nat, NEW d \in Nat, NEW a \in Nat,
           NEW u \in OfLength(S, k + d), NEW w \in OfLength(S, a),
           NEW x \in OfLength(S, k), NEW y \in OfLength(S, d + a), NEW r,
           Joins(r, u, w, k + d, a), Joins(r, x, y, k, d + a)
    PROVE  Cut(u, 0, k) = x /\ Cat(Cut(u, k, k + d), w) = y
<1>1. /\ \A i \in 1..(k + d) : r[i] = u[i]
      /\ \A i \in 1..a : r[(k + d) + i] = w[i]
      /\ \A i \in 1..k : r[i] = x[i]
      /\ \A i \in 1..(d + a) : r[k + i] = y[i]
  BY DEF Joins
<1>2. Cut(u, 0, k) = x
  <2>1. Cut(u, 0, k) \in OfLength(S, k) /\ \A i \in 1..k : Cut(u, 0, k)[i] = u[i]
    <3>1. u \in Seq(S) /\ Len(u) = k + d
      BY LengthOf
    <3>2. SubSeq(u, 0 + 1, k) \in Seq(S) /\ Len(SubSeq(u, 0 + 1, k)) = k
      BY <3>1
    <3>3. SubSeq(u, 0 + 1, k) \in OfLength(S, k)
      BY <3>2, SeqOfLength, Zenon
    <3>4. \A i \in 1..k : SubSeq(u, 0 + 1, k)[i] = u[i]
      BY <3>1
    <3> QED
      BY <3>3, <3>4, Zenon DEF Cut
  <2>2. \A i \in 1..k : i \in 1..(k + d)
    OBVIOUS
  <2>3. \A i \in 1..k : Cut(u, 0, k)[i] = x[i]
    BY <1>1, <2>1, <2>2
  <2> QED
    BY <2>1, <2>3, SameElements, Zenon
<1>3. Cat(Cut(u, k, k + d), w) = y
  <2>1. /\ Cut(u, k, k + d) \in OfLength(S, d)
        /\ \A i \in 1..d : Cut(u, k, k + d)[i] = u[k + i]
    <3>1. RestOf(S, u, k, d)
      BY Zenon DEF RestOf
    <3>2. CutsRest(S, u, k, d)
      BY <3>1, CutRest, Zenon
    <3> QED
      BY <3>2, Zenon DEF CutsRest
  <2>a. PICK v \in OfLength(S, d) : v = Cut(u, k, k + d) /\ \A i \in 1..d : v[i] = u[k + i]
    BY <2>1, Zenon
  <2>2. /\ Cat(v, w) \in OfLength(S, d + a)
        /\ \A i \in 1..d : Cat(v, w)[i] = v[i]
        /\ \A i \in 1..a : Cat(v, w)[d + i] = w[i]
    BY CatIs
  <2>b. PICK z \in OfLength(S, d + a) :
          z = Cat(v, w) /\ (\A i \in 1..d : z[i] = v[i]) /\ (\A i \in 1..a : z[d + i] = w[i])
    BY <2>2, Zenon
  <2>3. ASSUME NEW i \in 1..(d + a) PROVE z[i] = y[i]
    <3>1. r[k + i] = y[i]
      BY <1>1
    <3>2. CASE i \in 1..d
      <4>1. k + i \in 1..(k + d)
        BY <3>2
      <4>2. z[i] = v[i] /\ v[i] = u[k + i]
        BY <2>a, <2>b, <3>2, Zenon
      <4>3. r[k + i] = u[k + i]
        BY <1>1, <4>1, Zenon
      <4> QED
        BY <3>1, <4>2, <4>3, Zenon
    <3>3. CASE i \notin 1..d
      <4>1. PICK j \in 1..a : i = d + j
        <5>1. i - d \in 1..a /\ i = d + (i - d)
          BY <3>3
        <5> QED
          BY <5>1
      <4>2. k + i = (k + d) + j
        BY <4>1
      <4>3. z[d + j] = w[j] /\ r[(k + d) + j] = w[j]
        BY <1>1, <2>b, Zenon
      <4> QED
        BY <3>1, <4>1, <4>2, <4>3, Zenon
    <3> QED
      BY <3>2, <3>3
  <2>c. d + a \in Nat
    OBVIOUS
  <2>4. z = y
    BY <2>3, <2>c, SameElements, Zenon
  <2> QED
    BY <2>a, <2>b, <2>4, Zenon
<1> QED
  BY <1>2, <1>3

\* u and w make up what x and y make up.
SameCat(u, w, x, y) == Cat(u, w) = Cat(x, y)

\* Of two ways to cut a sequence in two the shorter first part is the front of
\* the longer one.
LEMMA CutConcat ==
    ASSUME NEW S, NEW u \in Seq(S), NEW w \in Seq(S), NEW x \in Seq(S), NEW y \in Seq(S),
           Len(x) <= Len(u), SameCat(u, w, x, y)
    PROVE  Cut(u, 0, Len(x)) = x /\ Cat(Cut(u, Len(x), Len(u)), w) = y
<1>0. PICK r : r = Cat(u, w) /\ r = Cat(x, y)
  BY Zenon DEF SameCat
<1>1. PICK k \in Nat : k = Len(x)
  OBVIOUS
<1>2. PICK d \in Nat : Len(u) = k + d
  <2>1. Len(u) - k \in Nat /\ Len(u) = k + (Len(u) - k)
    BY <1>1
  <2> QED
    BY <2>1
<1>3. PICK a \in Nat : Len(w) = a
  OBVIOUS
<1>4. PICK b \in Nat : Len(y) = b
  OBVIOUS
<1>5. /\ u \in OfLength(S, k + d) /\ w \in OfLength(S, a) /\ x \in OfLength(S, k) /\ y \in OfLength(S, b)
      /\ k + d \in Nat
  <2>1. k + d \in Nat
    OBVIOUS
  <2> QED
    BY <1>1, <1>2, <1>3, <1>4, <2>1, SeqOfLength
<1>6. r \in OfLength(S, (k + d) + a) /\ Joins(r, u, w, k + d, a)
  <2>1. Cat(u, w) \in OfLength(S, (k + d) + a)
    BY <1>5, CatType, Zenon
  <2>2. Joins(Cat(u, w), u, w, k + d, a)
    BY <1>5, CatJoins, Zenon
  <2> QED
    BY <1>0, <2>1, <2>2, Zenon
<1>7. r \in OfLength(S, k + b) /\ Joins(r, x, y, k, b)
  <2>1. Cat(x, y) \in OfLength(S, k + b)
    BY <1>5, CatType, Zenon
  <2>2. Joins(Cat(x, y), x, y, k, b)
    BY <1>5, CatJoins, Zenon
  <2> QED
    BY <1>0, <2>1, <2>2, Zenon
<1>8. b = d + a
  <2>1. \A m, n \in Nat : r \in OfLength(S, m) /\ r \in OfLength(S, n) => m = n
    <3>1. ASSUME NEW m \in Nat, NEW n \in Nat, r \in OfLength(S, m), r \in OfLength(S, n) PROVE m = n
      <4>1. Len(r) = m /\ Len(r) = n
        BY <3>1, LengthOf
      <4> QED
        BY <4>1
    <3> QED
      BY <3>1
  <2>2. (k + d) + a \in Nat /\ k + b \in Nat
    OBVIOUS
  <2>3. (k + d) + a = k + b
    BY <1>6, <1>7, <2>1, <2>2, Zenon
  <2> QED
    BY <2>3
<1>9. Cut(u, 0, k) = x /\ Cat(Cut(u, k, k + d), w) = y
  <2>1. y \in OfLength(S, d + a) /\ Joins(r, x, y, k, d + a)
    BY <1>5, <1>7, <1>8, Zenon
  <2> QED
    BY <1>5, <1>6, <2>1, CutJoined, Zenon
<1> QED
  BY <1>1, <1>2, <1>9, Zenon

LEMMA CatSeq ==
    ASSUME NEW S, NEW p \in Seq(S), NEW q \in Seq(S)
    PROVE  Cat(p, q) \in Seq(S) /\ Len(Cat(p, q)) = Len(p) + Len(q)
BY DEF Cat

LEMMA CatNil ==
    ASSUME NEW S, NEW p \in Seq(S)
    PROVE  Cat(p, << >>) = p /\ Cat(<< >>, p) = p
BY DEF Cat

LEMMA CatElements ==
    ASSUME NEW S, NEW p \in Seq(S), NEW q \in Seq(S), NEW i \in 1..Len(p)
    PROVE  Cat(p, q)[i] = p[i]
BY DEF Cat

LEMMA CatAssoc ==
    ASSUME NEW S, NEW p \in Seq(S), NEW q \in Seq(S), NEW r \in Seq(S)
    PROVE  Cat(Cat(p, q), r) = Cat(p, Cat(q, r))
<1>1. PICK l \in Nat : l = Len(p)
  OBVIOUS
<1>2. PICK m \in Nat : m = Len(q)
  OBVIOUS
<1>3. PICK n \in Nat : n = Len(r)
  OBVIOUS
<1>4. p \in OfLength(S, l) /\ q \in OfLength(S, m) /\ r \in OfLength(S, n)
  BY <1>1, <1>2, <1>3, SeqOfLength
<1>5. PICK pq \in OfLength(S, l + m) : pq = Cat(p, q) /\ Joins(pq, p, q, l, m)
  BY <1>4, CatType, CatJoins, Zenon
<1>6. PICK qr \in OfLength(S, m + n) : qr = Cat(q, r) /\ Joins(qr, q, r, m, n)
  BY <1>4, CatType, CatJoins, Zenon
<1>7. l + m \in Nat /\ m + n \in Nat /\ l + (m + n) = (l + m) + n
  OBVIOUS
<1>8. PICK y \in OfLength(S, (l + m) + n) : y = Cat(pq, r) /\ Joins(y, pq, r, l + m, n)
  BY <1>4, <1>7, CatType, CatJoins, Zenon
<1>9. PICK z \in OfLength(S, l + (m + n)) : z = Cat(p, qr) /\ Joins(z, p, qr, l, m + n)
  BY <1>4, <1>7, CatType, CatJoins, Zenon
<1>10. \A i \in 1..l : i \in 1..(l + m) /\ y[i] = p[i] /\ z[i] = p[i]
  BY <1>5, <1>8, <1>9 DEF Joins
<1>11. \A i \in 1..m : y[l + i] = q[i] /\ z[l + i] = q[i]
  BY <1>5, <1>6, <1>8, <1>9 DEF Joins
<1>12. \A i \in 1..n : y[(l + m) + i] = r[i] /\ z[(l + m) + i] = r[i]
  <2>1. ASSUME NEW i \in 1..n PROVE y[(l + m) + i] = r[i] /\ z[(l + m) + i] = r[i]
    <3>1. m + i \in 1..(m + n) /\ l + (m + i) = (l + m) + i
      OBVIOUS
    <3>2. z[l + (m + i)] = qr[m + i] /\ qr[m + i] = r[i]
      BY <1>6, <1>9, <3>1, Zenon DEF Joins
    <3>3. y[(l + m) + i] = r[i]
      BY <1>8, Zenon DEF Joins
    <3> QED
      BY <3>1, <3>2, <3>3, Zenon
  <2> QED
    BY <2>1
<1>13. \A i \in 1..((l + m) + n) : y[i] = z[i]
  <2>1. ASSUME NEW i \in 1..((l + m) + n) PROVE y[i] = z[i]
    <3>1. CASE i \in 1..l
      BY <1>10, <3>1, Zenon
    <3>2. CASE i > l /\ i <= l + m
      <4>1. PICK j \in 1..m : i = l + j
        <5>1. i - l \in 1..m /\ i = l + (i - l)
          BY <3>2
        <5> QED
          BY <5>1
      <4> QED
        BY <1>11, <4>1, Zenon
    <3>3. CASE i > l + m
      <4>1. PICK j \in 1..n : i = (l + m) + j
        <5>1. i - (l + m) \in 1..n /\ i = (l + m) + (i - (l + m))
          BY <3>3
        <5> QED
          BY <5>1
      <4> QED
        BY <1>12, <4>1, Zenon
    <3> QED
      BY <3>1, <3>2, <3>3
  <2> QED
    BY <2>1
<1>14. (l + m) + n \in Nat
  OBVIOUS
<1>15. y = z
  <2>1. z \in OfLength(S, (l + m) + n)
    BY <1>7, Zenon
  <2> QED
    BY <1>13, <1>14, <2>1, SameElements, Zenon
<1> QED
  BY <1>5, <1>6, <1>8, <1>9, <1>15, Zenon

LEMMA CutType ==
    ASSUME NEW S, NEW a \in Nat, NEW n \in Nat, NEW q \in OfLength(S, a + n)
    PROVE  Cut(q, a, a + n) \in OfLength(S, n)
BY CutIs

LEMMA CutBack ==
    ASSUME NEW S, NEW q \in Seq(S), NEW n \in 0..Len(q)
    PROVE  /\ Cut(q, 0, n) \in Seq(S) /\ Len(Cut(q, 0, n)) = n
           /\ Cut(q, n, Len(q)) \in Seq(S) /\ Len(Cut(q, n, Len(q))) = Len(q) - n
           /\ Cat(Cut(q, 0, n), Cut(q, n, Len(q))) = q
<1>1. /\ Cut(q, 0, n) \in Seq(S) /\ Len(Cut(q, 0, n)) = n
      /\ Cut(q, n, Len(q)) \in Seq(S) /\ Len(Cut(q, n, Len(q))) = Len(q) - n
  BY DEF Cut
<1>2. Cat(Cut(q, 0, n), Cut(q, n, Len(q))) = q
  <2>1. PICK d \in Nat : Len(q) = n + d
    <3>1. Len(q) - n \in Nat /\ Len(q) = n + (Len(q) - n)
      OBVIOUS
    <3> QED
      BY <3>1, Zenon
  <2>2. Len(q) \in Nat /\ n + d \in Nat /\ n \in Nat /\ 0 \in Nat /\ 0 + n = n
    BY <2>1
  <2>3. q \in OfLength(S, n + d)
    BY <2>1, <2>2, SeqOfLength
  <2>4. PICK x \in OfLength(S, n) : x = Cut(q, 0, n) /\ \A i \in 1..n : x[i] = q[i]
    <3>1. Cut(q, 0, n) \in OfLength(S, n)
      BY <1>1, <2>2, SeqOfLength
    <3>2. \A i \in 1..n : Cut(q, 0, n)[i] = q[i]
      BY DEF Cut
    <3> QED
      BY <3>1, <3>2, Zenon
  <2>5. PICK y \in OfLength(S, d) : y = Cut(q, n, n + d) /\ \A i \in 1..d : y[i] = q[n + i]
    <3>1. Cut(q, n, n + d) \in OfLength(S, d)
      BY <2>2, <2>3, CutType, Zenon
    <3>2. \A i \in 1..d : Cut(q, n, n + d)[i] = q[(n + 1) + i - 1]
      BY <2>1, <2>2 DEF Cut
    <3>3. \A i \in 1..d : (n + 1) + i - 1 = n + i
      OBVIOUS
    <3> QED
      BY <3>1, <3>2, <3>3, Zenon
  <2>6. PICK z \in OfLength(S, n + d) : z = Cat(x, y) /\ Joins(z, x, y, n, d)
    BY <2>2, CatType, CatJoins, Zenon
  <2>7. \A i \in 1..n : z[i] = q[i]
    BY <2>4, <2>6, Zenon DEF Joins
  <2>8. \A i \in 1..d : z[n + i] = q[n + i]
    BY <2>5, <2>6, Zenon DEF Joins
  <2>9. ASSUME NEW i \in 1..(n + d) PROVE z[i] = q[i]
    <3>1. CASE i <= n
      BY <2>7, <3>1
    <3>2. CASE i > n
      <4>1. PICK j \in 1..d : i = n + j
        <5>1. i - n \in 1..d /\ i = n + (i - n)
          BY <3>2
        <5> QED
          BY <5>1
      <4> QED
        BY <2>8, <4>1, Zenon
    <3> QED
      BY <3>1, <3>2
  <2>10. z = q
    BY <2>2, <2>3, <2>9, SameElements, Zenon
  <2> QED
    BY <2>1, <2>4, <2>5, <2>6, <2>10, Zenon
<1> QED
  BY <1>1, <1>2

LEMMA TailAppend ==
    ASSUME NEW S, NEW q \in Seq(S), q # << >>, NEW x \in S
    PROVE  Append(q, x) # << >> /\ Head(Append(q, x)) = Head(q) /\ Tail(Append(q, x)) = Append(Tail(q), x)
<1>1. PICK n \in Nat : n + 1 = Len(q)
  <2>1. Len(q) - 1 \in Nat /\ (Len(q) - 1) + 1 = Len(q)
    OBVIOUS
  <2> QED
    BY <2>1
<1>2. PICK a \in Seq(S) : a = Append(q, x)
  <2>1. Append(q, x) \in Seq(S)
    OBVIOUS
  <2> QED
    BY <2>1, Zenon
<1>3. Len(a) = n + 2 /\ a[n + 2] = x /\ (\A i \in 1..(n + 1) : a[i] = q[i])
  BY <1>1, <1>2
<1>4. PICK t \in Seq(S) : t = Tail(q) /\ Len(t) = n /\ \A i \in 1..n : t[i] = q[i + 1]
  <2>1. Tail(q) \in Seq(S) /\ Len(Tail(q)) = n /\ \A i \in 1..n : Tail(q)[i] = q[i + 1]
    BY <1>1
  <2> QED
    BY <2>1, Zenon
<1>5. PICK y \in Seq(S) : y = Append(t, x) /\ Len(y) = n + 1 /\ y[n + 1] = x /\ \A i \in 1..n : y[i] = t[i]
  <2>1. Append(t, x) \in Seq(S) /\ Len(Append(t, x)) = n + 1 /\ Append(t, x)[n + 1] = x /\ \A i \in 1..n : Append(t, x)[i] = t[i]
    BY <1>4
  <2> QED
    BY <2>1, Zenon
<1>6. PICK z \in Seq(S) : z = Tail(a) /\ Len(z) = n + 1 /\ \A i \in 1..(n + 1) : z[i] = a[i + 1]
  <2>1. Tail(a) \in Seq(S) /\ Len(Tail(a)) = n + 1 /\ \A i \in 1..(n + 1) : Tail(a)[i] = a[i + 1]
    BY <1>3
  <2> QED
    BY <2>1, Zenon
<1>7. \A i \in 1..(n + 1) : z[i] = y[i]
  <2>1. z[n + 1] = y[n + 1]
    BY <1>3, <1>5, <1>6
  <2>2. \A i \in 1..n : z[i] = y[i]
    BY <1>3, <1>4, <1>5, <1>6
  <2> QED
    BY <2>1, <2>2
<1>8. z = y
  BY <1>5, <1>6, <1>7
<1>9. a # << >> /\ Head(a) = Head(q)
  BY <1>1, <1>3
<1> QED
  BY <1>2, <1>4, <1>5, <1>6, <1>8, <1>9, Zenon

\* What is appended to the second of two sequences is appended to both.
LEMMA CatAppend ==
    ASSUME NEW S, NEW p \in Seq(S), NEW q \in Seq(S), NEW x \in S
    PROVE  Cat(p, Append(q, x)) = Append(Cat(p, q), x)
<1>1. \A r \in Seq(S) : Append(r, x) = Cat(r, <<x>>)
  <2> SUFFICES ASSUME NEW r \in Seq(S) PROVE Append(r, x) = Cat(r, <<x>>)
    OBVIOUS
  <2>1. PICK n \in Nat : n = Len(r)
    OBVIOUS
  <2>2. PICK a \in Seq(S) : a = Append(r, x) /\ Len(a) = n + 1 /\ a[n + 1] = x
                            /\ \A i \in 1..n : a[i] = r[i]
    <3>1. /\ Append(r, x) \in Seq(S) /\ Len(Append(r, x)) = n + 1 /\ Append(r, x)[n + 1] = x
          /\ \A i \in 1..n : Append(r, x)[i] = r[i]
      BY <2>1
    <3> QED
      BY <3>1, Zenon
  <2>3. PICK c \in Seq(S) : c = r \o <<x>> /\ Len(c) = n + 1 /\ c[n + 1] = x
                            /\ \A i \in 1..n : c[i] = r[i]
    <3>1. /\ r \o <<x>> \in Seq(S) /\ Len(r \o <<x>>) = n + 1 /\ (r \o <<x>>)[n + 1] = x
          /\ \A i \in 1..n : (r \o <<x>>)[i] = r[i]
      BY <2>1
    <3> QED
      BY <3>1, Zenon
  <2>4. \A i \in 1..(n + 1) : a[i] = c[i]
    BY <2>2, <2>3
  <2>5. a = c
    BY <2>2, <2>3, <2>4
  <2> QED
    BY <2>2, <2>3, <2>5, Zenon DEF Cat
<1>2. PICK s \in Seq(S) : s = <<x>>
  <2>1. <<x>> \in Seq(S)
    OBVIOUS
  <2> QED
    BY <2>1, Zenon
<1>3. PICK c \in Seq(S) : c = Cat(p, q)
  BY CatSeq, Zenon
<1>4. Append(q, x) = Cat(q, s)
  BY <1>1, <1>2
<1>5. Append(c, x) = Cat(c, s)
  BY <1>1, <1>2
<1>6. Cat(Cat(p, q), s) = Cat(p, Cat(q, s))
  BY CatAssoc
<1> HIDE DEF Cat
<1> QED
  BY <1>3, <1>4, <1>5, <1>6, Zenon

\* A sequence is its head and its tail.
LEMMA HeadTail ==
    ASSUME NEW S, NEW q \in Seq(S), q # << >>
    PROVE  /\ Head(q) \in S /\ Tail(q) \in Seq(S)
           /\ q = Cat(<<Head(q)>>, Tail(q))
           /\ ToSet(q) = {Head(q)} \cup ToSet(Tail(q))
<1>1. PICK h \in S : h = Head(q)
  OBVIOUS
<1>2. PICK n \in Nat : n + 1 = Len(q)
  <2>1. Len(q) - 1 \in Nat /\ (Len(q) - 1) + 1 = Len(q)
    OBVIOUS
  <2> QED
    BY <2>1
<1>3. PICK t \in Seq(S) : t = Tail(q) /\ Len(t) = n /\ \A i \in 1..n : t[i] = q[i + 1]
  <2>1. Tail(q) \in Seq(S) /\ Len(Tail(q)) = n /\ \A i \in 1..n : Tail(q)[i] = q[i + 1]
    BY <1>2
  <2> QED
    BY <2>1, Zenon
<1>4. PICK s \in Seq(S) : s = <<h>> /\ Len(s) = 1 /\ s[1] = h
  <2>1. <<h>> \in Seq(S) /\ Len(<<h>>) = 1 /\ <<h>>[1] = h
    OBVIOUS
  <2> QED
    BY <2>1, Zenon
<1>5. PICK c \in Seq(S) : c = s \o t /\ Len(c) = n + 1 /\ c[1] = h
                          /\ \A i \in 1..n : c[i + 1] = t[i]
  <2>1. /\ s \o t \in Seq(S) /\ Len(s \o t) = n + 1 /\ (s \o t)[1] = h
        /\ \A i \in 1..n : (s \o t)[i + 1] = t[i]
    BY <1>3, <1>4
  <2> QED
    BY <2>1, Zenon
<1>6. \A i \in 1..(n + 1) : c[i] = q[i]
  <2>1. c[1] = q[1]
    BY <1>1, <1>5
  <2>2. ASSUME NEW i \in 1..(n + 1), i # 1 PROVE c[i] = q[i]
    <3>1. i - 1 \in 1..n /\ (i - 1) + 1 = i
      BY <2>2
    <3>2. PICK k \in 1..n : k + 1 = i
      BY <3>1
    <3> QED
      BY <1>3, <1>5, <3>2
  <2> QED
    BY <2>1, <2>2
<1>7. c = q
  <2>1. n + 1 \in Nat
    OBVIOUS
  <2>2. c \in OfLength(S, n + 1) /\ q \in OfLength(S, n + 1)
    BY <1>2, <1>5, <2>1, SeqOfLength, Zenon
  <2> QED
    BY <1>6, <2>1, <2>2, SameElements, Zenon
<1>8. q = Cat(<<Head(q)>>, Tail(q))
  BY <1>1, <1>3, <1>4, <1>5, <1>7, Zenon DEF Cat
<1>9. ToSet(c) = ToSet(s) \cup ToSet(t)
  BY <1>5, InConcat
<1>10. ToSet(s) = {h}
  <2>1. DOMAIN s = {1}
    BY <1>4
  <2> QED
    BY <1>4, <2>1, ToSetIs
<1> QED
  BY <1>1, <1>3, <1>7, <1>8, <1>9, <1>10, Zenon

LEMMA CatTail ==
    ASSUME NEW S, NEW p \in Seq(S), p # << >>, NEW q \in Seq(S)
    PROVE  /\ Cat(p, q) # << >> /\ Head(Cat(p, q)) = Head(p)
           /\ Tail(Cat(p, q)) = Cat(Tail(p), q)
<1>1. PICK s \in Seq(S) : s = <<Head(p)>> /\ Len(s) = 1 /\ s[1] = Head(p)
  <2>1. <<Head(p)>> \in Seq(S) /\ Len(<<Head(p)>>) = 1 /\ <<Head(p)>>[1] = Head(p)
    OBVIOUS
  <2> QED
    BY <2>1, Zenon
<1>2. PICK t \in Seq(S) : t = Tail(p)
  <2>1. Tail(p) \in Seq(S)
    OBVIOUS
  <2> QED
    BY <2>1, Zenon
<1>3. p = Cat(s, t)
  BY <1>1, <1>2, HeadTail, Zenon
<1>4. PICK r \in Seq(S) : r = Cat(t, q)
  BY CatSeq, Zenon
<1>5. Cat(Cat(s, t), q) = Cat(s, Cat(t, q))
  BY CatAssoc
<1>6. PICK n \in Nat : n = Len(r)
  OBVIOUS
<1>7. PICK c \in Seq(S) : c = s \o r /\ Len(c) = n + 1 /\ c[1] = Head(p)
                          /\ \A i \in 1..n : c[i + 1] = r[i]
  <2>1. /\ s \o r \in Seq(S) /\ Len(s \o r) = n + 1 /\ (s \o r)[1] = s[1]
        /\ \A i \in 1..n : (s \o r)[i + 1] = r[i]
    BY <1>1, <1>6
  <2> QED
    BY <1>1, <2>1, Zenon
<1>8. c # << >> /\ Head(c) = Head(p) /\ Tail(c) = r
  <2>1. c # << >> /\ Head(c) = c[1]
    BY <1>7
  <2>2. PICK u \in Seq(S) : u = Tail(c) /\ Len(u) = n /\ \A i \in 1..n : u[i] = c[i + 1]
    <3>1. Tail(c) \in Seq(S) /\ Len(Tail(c)) = n /\ \A i \in 1..n : Tail(c)[i] = c[i + 1]
      BY <1>7, SMTT(20)
    <3> QED
      BY <3>1, Zenon
  <2>3. \A i \in 1..n : u[i] = r[i]
    BY <1>7, <2>2, Zenon
  <2>4. u = r
    BY <1>6, <2>2, <2>3
  <2> QED
    BY <1>7, <2>1, <2>2, <2>4, Zenon
<1>9. c = Cat(p, q)
  <2>1. c = Cat(s, r)
    BY <1>7, Zenon DEF Cat
  <2> HIDE DEF Cat
  <2> QED
    BY <1>3, <1>4, <1>5, <2>1
<1> QED
  BY <1>2, <1>4, <1>8, <1>9, Zenon

\* What is left of a queue was in it.
LEMMA InAtIndices ==
    ASSUME NEW T, NEW q \in Seq(T), NEW I
    PROVE  ToSet(AtIndices(q, I)) \subseteq ToSet(q)
<1>1. \A i \in DOMAIN q : q[i] \in ToSet(q)
  BY ToSetIs, Zenon
<1>2. q \in Seq(ToSet(q))
  <2>1. PICK n \in Nat : n = Len(q) /\ DOMAIN q = 1..n /\ q = [i \in 1..n |-> q[i]]
    OBVIOUS
  <2>2. PICK R : R = ToSet(q)
    OBVIOUS
  <2> QED
    BY <1>1, <2>1, <2>2
<1>3. PICK R : R = ToSet(q)
  OBVIOUS
<1>4. PICK r \in Seq(R) : r = AtIndices(q, I)
  BY <1>2, <1>3, AtIndicesType, Zenon
<1>5. \A x \in ToSet(r) : x \in R
  <2>1. \A i \in DOMAIN r : r[i] \in R
    OBVIOUS
  <2> QED
    BY <2>1, ToSetIs, Zenon
<1> QED
  BY <1>3, <1>4, <1>5, Zenon

-----------------------------------------------------------------------------
(* How often a queue holds an element                                       *)

Count(q, x) == Len(Among(q, {x}))

LEMMA CountType ==
    ASSUME NEW S, NEW q \in Seq(S), NEW x
    PROVE  Count(q, x) \in Nat
<1>1. Among(q, {x}) \in Seq(S \cap {x})
  BY AmongType, Zenon
<1>2. \A T : \A r \in Seq(T) : Len(r) \in Nat
  OBVIOUS
<1> QED
  BY <1>1, <1>2, Zenon DEF Count

LEMMA CountNil == \A x : Count(<< >>, x) = 0
<1>1. \A x : Among(<< >>, {x}) = << >>
  BY AmongOfEmpty, Zenon
<1>2. Len(<< >>) = 0
  OBVIOUS
<1> QED
  BY <1>1, <1>2, Zenon DEF Count

LEMMA CountAppend ==
    ASSUME NEW S, NEW q \in Seq(S), NEW y \in S, NEW x
    PROVE  Count(Append(q, y), x) = IF y = x THEN Count(q, x) + 1 ELSE Count(q, x)
<1>1. PICK a : a = Among(q, {x})
  OBVIOUS
<1>2. Among(Append(q, y), {x}) = IF y \in {x} THEN Append(a, y) ELSE a
  BY <1>1, AmongOfAppend
<1>3. a \in Seq(S \cap {x})
  BY <1>1, AmongType, Zenon
<1>4. PICK T : T = S \cap {x} /\ a \in Seq(T)
  BY <1>3
<1>5. CASE y = x
  <2>1. y \in T /\ Among(Append(q, y), {x}) = Append(a, y)
    BY <1>2, <1>4, <1>5
  <2>2. Len(Append(a, y)) = Len(a) + 1
    BY <1>4, <2>1
  <2> QED
    BY <1>1, <1>5, <2>1, <2>2 DEF Count
<1>6. CASE y # x
  BY <1>1, <1>2, <1>6 DEF Count
<1> QED
  BY <1>5, <1>6

LEMMA CountCat ==
    ASSUME NEW S, NEW p \in Seq(S), NEW q \in Seq(S), NEW x
    PROVE  Count(Cat(p, q), x) = Count(p, x) + Count(q, x)
<1>1. Among(p \o q, {x}) = Among(p, {x}) \o Among(q, {x})
  BY AmongConcat
<1>2. PICK T : T = S \cap {x}
  OBVIOUS
<1>3. Among(p, {x}) \in Seq(T) /\ Among(q, {x}) \in Seq(T)
  BY <1>2, AmongType, Zenon
<1>4. \A a, b \in Seq(T) : Len(a \o b) = Len(a) + Len(b)
  OBVIOUS
<1> QED
  BY <1>1, <1>3, <1>4, Zenon DEF Count, Cat

LEMMA CountTail ==
    ASSUME NEW S, NEW q \in Seq(S), q # << >>, NEW x
    PROVE  Count(q, x) = (IF Head(q) = x THEN 1 ELSE 0) + Count(Tail(q), x)
<1>1. PICK h \in S : h = Head(q)
  BY HeadTail, Zenon
<1>2. PICK t \in Seq(S) : t = Tail(q)
  BY HeadTail, Zenon
<1>3. PICK s \in Seq(S) : s = <<h>> /\ s = Append(<< >>, h)
  <2>1. <<h>> \in Seq(S) /\ <<h>> = Append(<< >>, h)
    OBVIOUS
  <2> QED
    BY <2>1, Zenon
<1>4. q = Cat(s, t)
  BY <1>1, <1>2, <1>3, HeadTail
<1>5. Count(q, x) = Count(s, x) + Count(t, x)
  BY <1>4, CountCat
<1>6. PICK e \in Seq(S) : e = << >>
  <2>1. << >> \in Seq(S)
    OBVIOUS
  <2> QED
    BY <2>1, Zenon
<1>7. Count(s, x) = IF h = x THEN Count(e, x) + 1 ELSE Count(e, x)
  <2>1. s = Append(e, h)
    BY <1>3, <1>6
  <2> QED
    BY <2>1, CountAppend
<1> QED
  BY <1>1, <1>2, <1>5, <1>6, <1>7, CountNil

LEMMA CountNone ==
    ASSUME NEW S, NEW q \in Seq(S), NEW x, x \notin ToSet(q)
    PROVE  Count(q, x) = 0
<1>1. ToSet(Among(q, {x})) = ToSet(q) \cap {x}
  BY InAmong
<1>2. PICK T : T = S \cap {x}
  OBVIOUS
<1>3. PICK a \in Seq(T) : a = Among(q, {x})
  BY <1>2, AmongType, Zenon
<1>4. ASSUME Len(a) # 0 PROVE FALSE
  <2>1. 1 \in DOMAIN a
    BY <1>4
  <2>2. a[1] \in ToSet(a)
    BY <2>1, ToSetIs, Zenon
  <2> QED
    BY <1>1, <1>3, <2>2
<1> QED
  BY <1>3, <1>4, Zenon DEF Count

\* Every element is the one that is counted.
LEMMA CountAll ==
    ASSUME NEW x, NEW q \in Seq({x})
    PROVE  Count(q, x) = Len(q)
BY AmongAll, Zenon DEF Count

\* What a filter keeps is there as often as before.
LEMMA CountAmong ==
    ASSUME NEW S, NEW T, NEW x \in T
    PROVE  \A q \in Seq(S) : Count(Among(q, T), x) = Count(q, x)
<1> DEFINE P == {q \in Seq(S) : Count(Among(q, T), x) = Count(q, x)}
<1>1. << >> \in P
  <2>1. << >> \in Seq(S) /\ Among(<< >>, T) = << >>
    BY AmongOfEmpty
  <2> QED
    BY <2>1
<1>2. ASSUME NEW q \in Seq(S), NEW y \in S, q \in P
      PROVE  Append(q, y) \in P
  <2>1. PICK R : R = S \cap T
    OBVIOUS
  <2>2. PICK a \in Seq(R) : a = Among(q, T)
    BY <2>1, AmongType, Zenon
  <2>3. PICK b \in Seq(S) : b = Append(q, y)
    <3>1. Append(q, y) \in Seq(S)
      OBVIOUS
    <3> QED
      BY <3>1, Zenon
  <2>4. Count(a, x) = Count(q, x)
    BY <1>2, <2>2
  <2>5. Count(b, x) = IF y = x THEN Count(q, x) + 1 ELSE Count(q, x)
    BY <2>3, CountAppend
  <2>6. CASE y \in T
    <3>1. Among(b, T) = Append(a, y)
      BY <2>2, <2>3, <2>6, AmongOfAppend
    <3>2. y \in R
      BY <2>1, <2>6
    <3>3. Count(Append(a, y), x) = IF y = x THEN Count(a, x) + 1 ELSE Count(a, x)
      BY <3>2, CountAppend
    <3>4. Count(Among(b, T), x) = Count(b, x)
      BY <2>4, <2>5, <3>1, <3>3
    <3> QED
      BY <2>3, <3>4
  <2>7. CASE y \notin T
    <3>1. Among(b, T) = a
      BY <2>2, <2>3, <2>7, AmongOfAppend
    <3>2. Count(Among(b, T), x) = Count(b, x)
      BY <2>4, <2>5, <2>7, <3>1
    <3> QED
      BY <2>3, <3>2
  <2> QED
    BY <2>6, <2>7
<1> HIDE DEF P
<1>3. Seq(S) \subseteq P
  BY <1>1, <1>2, SeqSetInduction, Zenon
<1> QED
  BY <1>3 DEF P

\* What the members of a sequence hold is what their concatenation holds.
LEMMA InFlatten ==
    ASSUME NEW S
    PROVE  \A q \in Seq(Seq(S)) : \A x :
              x \in ToSet(FlattenSeq(q)) <=> \E e \in ToSet(q) : x \in ToSet(e)
<1> DEFINE Holds(q) == \A x : x \in ToSet(FlattenSeq(q)) <=> \E e \in ToSet(q) : x \in ToSet(e)
           P == {q \in Seq(Seq(S)) : Holds(q)}
<1>1. << >> \in P
  <2>1. << >> \in Seq(Seq(S))
    OBVIOUS
  <2>2. \A x : x \notin ToSet(<< >>)
    BY DEF ToSet
  <2>3. Holds(<< >>)
    BY <2>2, FlattenEmpty, Zenon
  <2> QED
    BY <2>1, <2>3
<1>2. ASSUME NEW q \in Seq(Seq(S)), NEW e \in Seq(S), q \in P
      PROVE  Append(q, e) \in P
  <2>1. Append(q, e) \in Seq(Seq(S)) /\ Holds(q)
    BY <1>2
  <2>2. PICK f \in Seq(S) : f = FlattenSeq(q)
    BY FlattenType
  <2>3. FlattenSeq(Append(q, e)) = f \o e
    BY <2>2, FlattenAppend
  <2>4. ToSet(f \o e) = ToSet(f) \cup ToSet(e)
    BY InConcat
  <2>5. ToSet(Append(q, e)) = ToSet(q) \cup {e}
    BY InAppend
  <2>6. \A x : x \in ToSet(FlattenSeq(Append(q, e))) <=> x \in ToSet(f) \/ x \in ToSet(e)
    BY <2>3, <2>4, Zenon
  <2>7. \A x : x \in ToSet(f) <=> \E d \in ToSet(q) : x \in ToSet(d)
    BY <2>1, <2>2, Zenon
  <2>8. Holds(Append(q, e))
    BY <2>5, <2>6, <2>7, Zenon
  <2> QED
    BY <2>1, <2>8, Zenon
<1> HIDE DEF P
<1>3. Seq(Seq(S)) \subseteq P
  BY <1>1, <1>2, SeqSetInduction
<1> QED
  BY <1>3 DEF P

\* Sequences of one and of two.
LEMMA OneIs ==
    ASSUME NEW S, NEW x \in S
    PROVE  /\ <<x>> \in Seq(S) /\ <<x>> = Append(<< >>, x) /\ ToSet(<<x>>) = {x}
           /\ \A y : Count(<<x>>, y) = IF x = y THEN 1 ELSE 0
<1>0. << >> \in Seq(S)
  OBVIOUS
<1>1. PICK q \in Seq(S) : q = << >>
  BY <1>0, Zenon
<1>2. <<x>> \in Seq(S) /\ <<x>> = Append(q, x)
  BY <1>1
<1>3. ToSet(<<x>>) = {x}
  <2>1. ToSet(Append(q, x)) = ToSet(q) \cup {x}
    BY InAppend
  <2>2. ToSet(<< >>) = {}
    BY DEF ToSet
  <2> QED
    BY <1>1, <1>2, <2>1, <2>2
<1>4. ASSUME NEW y
      PROVE  Count(<<x>>, y) = IF x = y THEN 1 ELSE 0
  <2>1. Count(Append(q, x), y) = IF x = y THEN Count(q, y) + 1 ELSE Count(q, y)
    BY CountAppend
  <2>2. Count(q, y) = 0
    BY <1>1, CountNil, Zenon
  <2>3. Count(<<x>>, y) = Count(Append(q, x), y)
    BY <1>2, Zenon
  <2> QED
    BY <2>1, <2>2, <2>3
<1> QED
  BY <1>1, <1>2, <1>3, <1>4, Zenon

Two(w, x, y) == w = <<x, y>>

LEMMA TwoAre ==
    ASSUME NEW S, NEW x \in S, NEW y \in S, NEW w, Two(w, x, y)
    PROVE  /\ w \in Seq(S)
           /\ \A z : z \in ToSet(w) <=> z = x \/ z = y
           /\ \A z : Count(w, z) = Count(<<x>>, z) + Count(<<y>>, z)
<1>0. <<x>> \in Seq(S)
  OBVIOUS
<1>1. PICK q \in Seq(S) : q = <<x>>
  BY <1>0, Zenon
<1>2. w \in Seq(S) /\ w = Append(q, y)
  BY <1>1 DEF Two
<1>3. ToSet(w) = {x, y}
  <2>1. ToSet(Append(q, y)) = ToSet(q) \cup {y}
    BY InAppend
  <2>2. ToSet(q) = {x}
    BY <1>1, OneIs, Zenon
  <2> QED
    BY <1>2, <2>1, <2>2
<1>4. ASSUME NEW z
      PROVE  Count(w, z) = Count(<<x>>, z) + Count(<<y>>, z)
  <2>1. Count(Append(q, y), z) = IF y = z THEN Count(q, z) + 1 ELSE Count(q, z)
    BY CountAppend
  <2>2. Count(<<y>>, z) = IF y = z THEN 1 ELSE 0
    BY OneIs
  <2>3. Count(w, z) = Count(Append(q, y), z) /\ Count(<<x>>, z) = Count(q, z)
    BY <1>1, <1>2, Zenon
  <2>4. Count(q, z) \in Nat
    BY CountType
  <2> QED
    BY <2>1, <2>2, <2>3, <2>4
<1> QED
  BY <1>1, <1>2, <1>3, <1>4, Zenon

-----------------------------------------------------------------------------
(* A queue around one of its elements                                       *)

Split(q, p, x, r) == q = Cat(Append(p, x), r)

LEMMA SplitFound ==
    ASSUME NEW S, NEW q \in Seq(S), NEW x \in ToSet(q)
    PROVE  \E p, r \in Seq(S) : Split(q, p, x, r)
<1>1. PICK i \in DOMAIN q : q[i] = x
  BY ToSetIs, Zenon
<1>2. i \in 1..Len(q) /\ i \in 0..Len(q) /\ Len(q) \in Nat /\ x \in S
  BY <1>1
<1>3. PICK p \in Seq(S), r \in Seq(S) :
        p = Cut(q, 0, i) /\ r = Cut(q, i, Len(q)) /\ Len(p) = i /\ Cat(p, r) = q
  <2>1. /\ Cut(q, 0, i) \in Seq(S) /\ Len(Cut(q, 0, i)) = i
        /\ Cut(q, i, Len(q)) \in Seq(S) /\ Cat(Cut(q, 0, i), Cut(q, i, Len(q))) = q
    BY <1>2, CutBack
  <2> QED
    BY <2>1, Zenon
<1>4. p[i] = x
  <2>1. i \in 1..Len(p)
    BY <1>2, <1>3
  <2>2. Cat(p, r)[i] = p[i]
    BY <2>1, CatElements
  <2> QED
    BY <1>1, <1>3, <2>2
<1>5. PICK f \in Seq(S) : f = SubSeq(p, 1, i - 1) /\ Len(f) = i - 1
                          /\ \A j \in 1..i - 1 : f[j] = p[j]
  <2>1. /\ SubSeq(p, 1, i - 1) \in Seq(S) /\ Len(SubSeq(p, 1, i - 1)) = i - 1
        /\ \A j \in 1..i - 1 : SubSeq(p, 1, i - 1)[j] = p[j]
    BY <1>2, <1>3
  <2> QED
    BY <2>1, Zenon
<1>6. PICK a \in Seq(S) : a = Append(f, x) /\ Len(a) = i /\ a[i] = x
                          /\ \A j \in 1..i - 1 : a[j] = f[j]
  <2>1. /\ Append(f, x) \in Seq(S) /\ Len(Append(f, x)) = i /\ Append(f, x)[i] = x
        /\ \A j \in 1..i - 1 : Append(f, x)[j] = f[j]
    BY <1>2, <1>5
  <2> QED
    BY <2>1, Zenon
<1>7. a = p
  <2>1. \A j \in 1..i : a[j] = p[j]
    BY <1>2, <1>4, <1>5, <1>6
  <2> QED
    BY <1>2, <1>3, <1>6, <2>1
<1> QED
  BY <1>3, <1>6, <1>7, Zenon DEF Split

LEMMA SplitLast ==
    ASSUME NEW S, NEW p \in Seq(S), NEW x \in S
    PROVE  Split(Append(p, x), p, x, << >>)
<1>1. Append(p, x) \in Seq(S)
  OBVIOUS
<1>2. Cat(Append(p, x), << >>) = Append(p, x)
  BY <1>1, CatNil, Zenon
<1> QED
  BY <1>2, Zenon DEF Split

LEMMA SplitMore ==
    ASSUME NEW S, NEW q, NEW p \in Seq(S), NEW x \in S, NEW r \in Seq(S), Split(q, p, x, r),
           NEW w \in Seq(S)
    PROVE  Split(Cat(q, w), p, x, Cat(r, w)) /\ Cat(r, w) \in Seq(S)
<1>1. PICK a \in Seq(S) : a = Append(p, x)
  <2>1. Append(p, x) \in Seq(S)
    OBVIOUS
  <2> QED
    BY <2>1, Zenon
<1>2. Cat(Cat(a, r), w) = Cat(a, Cat(r, w))
  BY CatAssoc
<1>3. q = Cat(a, r)
  BY <1>1, Zenon DEF Split
<1>4. Cat(q, w) = Cat(a, Cat(r, w))
  BY <1>2, <1>3
<1> QED
  BY <1>1, <1>4, CatSeq, Zenon DEF Split

LEMMA AppendType ==
    ASSUME NEW S, NEW q \in Seq(S), NEW x \in S
    PROVE  Append(q, x) \in Seq(S)
OBVIOUS

\* What is appended to a queue comes behind each of its elements.
LEMMA SplitAppend ==
    ASSUME NEW S, NEW q, NEW p \in Seq(S), NEW x \in S, NEW r \in Seq(S), Split(q, p, x, r),
           NEW z \in S
    PROVE  Split(Append(q, z), p, x, Append(r, z)) /\ Append(r, z) \in Seq(S)
<1>1. PICK f \in Seq(S) : f = Append(p, x)
  BY AppendType
<1>2. Cat(f, Append(r, z)) = Append(Cat(f, r), z)
  BY CatAppend
<1>3. q = Cat(f, r)
  BY <1>1 DEF Split
<1>4. Append(q, z) = Cat(Append(p, x), Append(r, z))
  BY <1>1, <1>2, <1>3
<1>5. Append(r, z) \in Seq(S)
  BY AppendType
<1> QED
  BY <1>4, <1>5 DEF Split

LEMMA SplitBefore ==
    ASSUME NEW S, NEW q \in Seq(S), NEW p \in Seq(S), NEW x \in S, NEW r \in Seq(S),
           Split(q, p, x, r), NEW w \in Seq(S)
    PROVE  Split(Cat(w, q), Cat(w, p), x, r) /\ Cat(w, p) \in Seq(S)
<1>1. PICK a \in Seq(S) : a = Append(p, x)
  <2>1. Append(p, x) \in Seq(S)
    OBVIOUS
  <2> QED
    BY <2>1, Zenon
<1>2. Cat(Cat(w, a), r) = Cat(w, Cat(a, r))
  BY CatAssoc
<1>3. q = Cat(a, r)
  BY <1>1, Zenon DEF Split
<1>4. PICK b \in Seq(S) : b = Cat(w, p)
  BY CatSeq, Zenon
<1>5. Cat(w, a) = Append(b, x)
  <2>1. Cat(w, Append(p, x)) = Append(Cat(w, p), x)
    BY CatAppend
  <2> QED
    BY <1>1, <1>4, <2>1
<1>6. Cat(w, q) = Cat(Append(b, x), r)
  BY <1>2, <1>3, <1>5
<1> QED
  BY <1>4, <1>6, Zenon DEF Split

LEMMA SplitTail ==
    ASSUME NEW S, NEW q, NEW p \in Seq(S), NEW x \in S, NEW r \in Seq(S), Split(q, p, x, r)
    PROVE  /\ q \in Seq(S) /\ q # << >>
           /\ \/ p = << >> /\ Head(q) = x /\ Tail(q) = r
              \/ p # << >> /\ Head(q) = Head(p) /\ Tail(p) \in Seq(S)
                           /\ Split(Tail(q), Tail(p), x, r)
<1>1. PICK a \in Seq(S) : a = Append(p, x) /\ a # << >>
  <2>1. Append(p, x) \in Seq(S) /\ Append(p, x) # << >>
    OBVIOUS
  <2> QED
    BY <2>1, Zenon
<1>2. q = Cat(a, r)
  BY <1>1, Zenon DEF Split
<1>3. /\ Cat(a, r) # << >> /\ Head(Cat(a, r)) = Head(a)
      /\ Tail(Cat(a, r)) = Cat(Tail(a), r)
  BY <1>1, CatTail
<1>4. Cat(a, r) \in Seq(S)
  BY CatSeq, Zenon
<1>5. CASE p = << >>
  <2>1. Head(a) = x /\ Tail(a) = << >>
    BY <1>1, <1>5
  <2>2. Cat(<< >>, r) = r
    BY CatNil
  <2> QED
    BY <1>2, <1>3, <1>4, <1>5, <2>1, <2>2
<1>6. CASE p # << >>
  <2>1. Head(Append(p, x)) = Head(p) /\ Tail(Append(p, x)) = Append(Tail(p), x)
    BY <1>6, TailAppend
  <2>2. Tail(p) \in Seq(S)
    BY <1>6, HeadTail, Zenon
  <2>3. PICK t \in Seq(S) : t = Tail(p)
    BY <2>2, Zenon
  <2>4. Tail(q) = Cat(Append(t, x), r)
    BY <1>1, <1>2, <1>3, <2>1, <2>3
  <2>5. Head(q) = Head(p)
    BY <1>1, <1>2, <1>3, <2>1
  <2>6. Split(Tail(q), Tail(p), x, r)
    BY <2>3, <2>4, Zenon DEF Split
  <2> QED
    BY <1>2, <1>3, <1>4, <1>6, <2>2, <2>5, <2>6
<1> QED
  BY <1>5, <1>6

\* What a queue holds, around one of its elements.
LEMMA SplitElements ==
    ASSUME NEW S, NEW q, NEW p \in Seq(S), NEW x \in S, NEW r \in Seq(S), Split(q, p, x, r)
    PROVE  /\ ToSet(q) = (ToSet(p) \cup {x}) \cup ToSet(r)
           /\ \A y : Count(q, y) = Count(p, y) + (IF x = y THEN 1 ELSE 0) + Count(r, y)
<1>1. PICK a \in Seq(S) : a = Append(p, x)
  <2>1. Append(p, x) \in Seq(S)
    OBVIOUS
  <2> QED
    BY <2>1, Zenon
<1>2. q = Cat(a, r)
  BY <1>1, Zenon DEF Split
<1>3. ToSet(a) = ToSet(p) \cup {x}
  BY <1>1, InAppend
<1>4. ToSet(a \o r) = ToSet(a) \cup ToSet(r)
  BY InConcat
<1>5. a \o r = q
  BY <1>2 DEF Cat
<1>6. ASSUME NEW y
      PROVE  Count(q, y) = Count(p, y) + (IF x = y THEN 1 ELSE 0) + Count(r, y)
  <2>1. Count(q, y) = Count(a, y) + Count(r, y)
    BY <1>2, CountCat
  <2>2. Count(a, y) = IF x = y THEN Count(p, y) + 1 ELSE Count(p, y)
    BY <1>1, CountAppend
  <2>3. Count(p, y) \in Nat /\ Count(r, y) \in Nat
    BY CountType
  <2> QED
    BY <2>1, <2>2, <2>3
<1> QED
  BY <1>3, <1>4, <1>5, <1>6
\* An element of p and q together is one of p or one of q.
LEMMA CatParts ==
    ASSUME NEW S, NEW p \in Seq(S), NEW q \in Seq(S), NEW i \in 1..Len(Cat(p, q))
    PROVE  \/ i \in 1..Len(p) /\ Cat(p, q)[i] = p[i]
           \/ \E j \in 1..Len(q) : i = Len(p) + j /\ Cat(p, q)[i] = q[j]
<1>1. Len(p) \in Nat /\ Len(q) \in Nat /\ Len(Cat(p, q)) = Len(p) + Len(q)
  <2>1. Len(Cat(p, q)) = Len(p) + Len(q)
    BY CatSeq
  <2>2. Len(p) \in Nat /\ Len(q) \in Nat
    OBVIOUS
  <2> QED
    BY <2>1, <2>2
<1>2. CASE i <= Len(p)
  <2>1. i \in 1..Len(p)
    BY <1>1, <1>2
  <2> QED
    BY <2>1, CatElements
<1>3. CASE ~(i <= Len(p))
  <2>1. i - Len(p) \in 1..Len(q) /\ i = Len(p) + (i - Len(p))
    BY <1>1, <1>3
  <2>2. Cat(p, q)[i] = q[i - Len(p)]
    BY <1>1, <1>3 DEF Cat
  <2> QED
    BY <2>1, <2>2
<1> QED
  BY <1>2, <1>3

LEMMA CatHas ==
    ASSUME NEW S, NEW p \in Seq(S), NEW q \in Seq(S)
    PROVE  \A i \in 1..Len(Cat(p, q)) :
              \/ i \in 1..Len(p) /\ Cat(p, q)[i] = p[i]
              \/ \E j \in 1..Len(q) : Cat(p, q)[i] = q[j]
<1> TAKE i \in 1..Len(Cat(p, q))
<1>1. \/ i \in 1..Len(p) /\ Cat(p, q)[i] = p[i]
      \/ \E j \in 1..Len(q) : i = Len(p) + j /\ Cat(p, q)[i] = q[j]
  BY CatParts
<1> QED
  BY <1>1

LEMMA SplitCount ==
    ASSUME NEW S, NEW q, NEW p \in Seq(S), NEW x \in S, NEW r \in Seq(S), Split(q, p, x, r)
    PROVE  /\ Count(p, x) \in Nat /\ Count(r, x) \in Nat
           /\ Count(q, x) = Count(p, x) + 1 + Count(r, x)
<1>1. PICK f \in Seq(S) : f = Append(p, x)
  BY AppendType
<1>2. q = Cat(f, r)
  BY <1>1, Zenon DEF Split
<1>3. Count(Cat(f, r), x) = Count(f, x) + Count(r, x)
  BY CountCat
<1>4. Count(f, x) = Count(p, x) + 1
  BY <1>1, CountAppend
<1>5. Count(p, x) \in Nat
  BY CountType
<1>6. Count(r, x) \in Nat
  BY CountType
<1>7. Count(q, x) = Count(p, x) + 1 + Count(r, x)
  BY <1>2, <1>3, <1>4, Zenon
<1> QED
  BY <1>5, <1>6, <1>7

=============================================================================
