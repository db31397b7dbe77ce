--------------------------- MODULE SequenceLemmas ---------------------------
(***************************************************************************)
(* Induction over the natural numbers without an operator parameter, and   *)
(* what it says of FlattenSeq, which the models use to filter and rewrite  *)
(* sequences of messages.                                                  *)
(***************************************************************************)
EXTENDS Integers, SequencesExt, SequenceTheorems, NaturalsInduction,
        WellFoundedInduction, TLAPS

Less == {ss \in Nat \X Nat : ss[1] < ss[2]}

LEMMA LessWellFounded == IsWellFoundedOn(Less, Nat)
<1>1. IsWellFoundedOn({ss \in Nat \X Nat : ss[1] < ss[2]}, Nat)
  BY NatLessThanWellFounded, Zenon DEF OpToRel
<1> QED
  BY <1>1 DEF Less

(* A set with 0 that is closed under successors holds every number.  To      *)
(* prove P(n) for all n, take {n \in Nat : P(n)}.                             *)
LEMMA SetInduction ==
  ASSUME NEW S, 0 \in S, \A n \in Nat : n \in S => n + 1 \in S
  PROVE  Nat \subseteq S
<1> DEFINE T == Nat \ S
<1>1. SUFFICES ASSUME T # {}
               PROVE  FALSE
  OBVIOUS
<1>2. PICK x \in T : \A y \in T : <<y, x>> \notin Less
  <2> HIDE DEF T
  <2>1. T \subseteq Nat
    BY DEF T
  <2> QED
    BY <1>1, <2>1, LessWellFounded, WFMin
<1>3. x # 0 /\ x - 1 \in Nat
  OBVIOUS
<1>4. x - 1 \in T
  BY <1>3
<1>5. <<x - 1, x>> \in Less
  BY <1>3 DEF Less
<1> QED
  BY <1>2, <1>4, <1>5

-----------------------------------------------------------------------------
(* The recursive function in FlattenSeq: g[i] is the concatenation of the   *)
(* first i members of q.                                                    *)

IsFlat(q, n, g) ==
  g = [i \in 1..n |-> IF i = 1 THEN q[i] ELSE g[i - 1] \o q[i]]
Flat(q) == CHOOSE g : IsFlat(q, Len(q), g)

LEMMA FlatExists ==
  ASSUME NEW q
  PROVE  \A n \in Nat : \E g : IsFlat(q, n, g)
<1> DEFINE S == {n \in Nat : \E g : IsFlat(q, n, g)}
<1>1. 0 \in S
  <2>1. IsFlat(q, 0, [i \in 1..0 |-> q[i]])
    BY DEF IsFlat
  <2> QED
    BY <2>1
<1>2. ASSUME NEW n \in Nat, n \in S
      PROVE  n + 1 \in S
  <2>1. PICK g : IsFlat(q, n, g)
    BY <1>2
  <2> DEFINE next == IF n = 0 THEN q[1] ELSE g[n] \o q[n + 1]
             h == [i \in 1..(n + 1) |-> IF i = n + 1 THEN next ELSE g[i]]
             k == [i \in 1..(n + 1) |-> IF i = 1 THEN q[i] ELSE h[i - 1] \o q[i]]
  <2>2. \A i \in 1..n : g[i] = IF i = 1 THEN q[i] ELSE g[i - 1] \o q[i]
    BY <2>1 DEF IsFlat
  <2>3. ASSUME NEW i \in 1..(n + 1)
        PROVE  h[i] = k[i]
    <3>1. CASE i = n + 1 /\ n = 0
      BY <3>1
    <3>2. CASE i = n + 1 /\ n # 0
      <4>1. h[i - 1] = g[n]
        BY <3>2
      <4>2. h[i] = g[n] \o q[i]
        BY <3>2
      <4>3. k[i] = h[i - 1] \o q[i]
        <5>1. i # 1
          BY <3>2
        <5> HIDE DEF h
        <5> QED
          BY <5>1
      <4> QED
        BY <4>1, <4>2, <4>3
    <3>3. CASE i \in 1..n
      <4>1. i # 1 => h[i - 1] = g[i - 1]
        BY <3>3
      <4> QED
        BY <2>2, <3>3, <4>1
    <3> QED
      BY <3>1, <3>2, <3>3
  <2>4. h = k
    BY <2>3
  <2>5. IsFlat(q, n + 1, h)
    BY <2>4 DEF IsFlat
  <2> QED
    BY <2>5
<1> HIDE DEF S
<1>3. Nat \subseteq S
  BY <1>1, <1>2, SetInduction
<1> QED
  BY <1>3 DEF S

LEMMA FlattenIsFlat ==
  ASSUME NEW S, NEW q \in Seq(S)
  PROVE  /\ FlattenSeq(q) = IF q = <<>> THEN <<>> ELSE Flat(q)[Len(q)]
         /\ q # <<>> => Flat(q)[1] = q[1]
         /\ \A i \in 1..(Len(q) - 1) : Flat(q)[i + 1] = Flat(q)[i] \o q[i + 1]
<1>1. Len(q) \in Nat /\ (q = <<>> <=> Len(q) = 0)
  BY LenProperties, EmptySeq
<1>2. IsFlat(q, Len(q), Flat(q))
  BY <1>1, FlatExists DEF Flat
<1>3. \A i \in 1..Len(q) :
        Flat(q)[i] = IF i = 1 THEN q[1] ELSE Flat(q)[i - 1] \o q[i]
  BY <1>1, <1>2 DEF IsFlat
<1>4. FlattenSeq(q) = IF q = <<>> THEN <<>> ELSE Flat(q)[Len(q)]
  BY <1>1 DEF FlattenSeq, Flat, IsFlat
<1>5. ASSUME NEW i \in 1..(Len(q) - 1)
      PROVE  Flat(q)[i + 1] = Flat(q)[i] \o q[i + 1]
  <2>1. i + 1 \in 1..Len(q) /\ i + 1 # 1 /\ (i + 1) - 1 = i
    BY <1>1
  <2>2. Flat(q)[i + 1] = IF i + 1 = 1 THEN q[1] ELSE Flat(q)[(i + 1) - 1] \o q[i + 1]
    BY <1>3, <2>1, Zenon
  <2>3. Flat(q)[i + 1] = Flat(q)[(i + 1) - 1] \o q[i + 1]
    BY <2>1, <2>2, Zenon
  <2> QED
    BY <2>1, <2>3, Zenon
<1>6. q # <<>> => Flat(q)[1] = q[1]
  BY <1>1, <1>3
<1> QED
  BY <1>4, <1>5, <1>6

\* Concatenations of sequences over the same elements.
LEMMA FlatType ==
  ASSUME NEW S, NEW q \in Seq(Seq(S))
  PROVE  \A i \in 1..Len(q) : Flat(q)[i] \in Seq(S)
<1> DEFINE T == {n \in Nat : n \in 1..Len(q) => Flat(q)[n] \in Seq(S)}
<1>1. /\ q # <<>> => Flat(q)[1] = q[1]
      /\ \A i \in 1..(Len(q) - 1) : Flat(q)[i + 1] = Flat(q)[i] \o q[i + 1]
  BY FlattenIsFlat
<1>2. Len(q) \in Nat /\ (q = <<>> <=> Len(q) = 0) /\ \A i \in 1..Len(q) : q[i] \in Seq(S)
  BY LenProperties, ElementOfSeq, EmptySeq
<1>3. 0 \in T
  BY <1>2
<1>4. ASSUME NEW n \in Nat, n \in T
      PROVE  n + 1 \in T
  <2>1. CASE n = 0
    BY <1>1, <1>2, <2>1
  <2>2. CASE n # 0 /\ n + 1 \in 1..Len(q)
    <3>1. /\ n \in 1..Len(q) /\ n \in 1..(Len(q) - 1)
          /\ Flat(q)[n] \in Seq(S) /\ q[n + 1] \in Seq(S)
      BY <1>2, <1>4, <2>2
    <3>2. Flat(q)[n + 1] = Flat(q)[n] \o q[n + 1]
      BY <1>1, <3>1
    <3>3. Flat(q)[n] \o q[n + 1] \in Seq(S)
      BY <3>1, ConcatProperties
    <3>4. Flat(q)[n + 1] \in Seq(S)
      BY <3>2, <3>3
    <3> QED
      BY <3>4
  <2> QED
    BY <2>1, <2>2
<1> HIDE DEF T
<1>5. Nat \subseteq T
  BY <1>3, <1>4, SetInduction
<1> QED
  BY <1>2, <1>5 DEF T

LEMMA FlattenType ==
  ASSUME NEW S, NEW q \in Seq(Seq(S))
  PROVE  FlattenSeq(q) \in Seq(S)
<1>1. CASE q = <<>>
  BY <1>1, FlattenIsFlat, EmptySeq
<1>2. CASE q # <<>>
  <2>1. Len(q) \in 1..Len(q)
    BY <1>2, LenProperties, EmptySeq
  <2>2. FlattenSeq(q) = Flat(q)[Len(q)]
    BY <1>2, FlattenIsFlat
  <2>3. Flat(q)[Len(q)] \in Seq(S)
    BY <2>1, FlatType
  <2> QED
    BY <2>2, <2>3
<1> QED
  BY <1>1, <1>2

LEMMA FlattenEmpty == FlattenSeq(<<>>) = <<>>
BY DEF FlattenSeq

\* Sequences that begin alike have the same concatenations.
LEMMA FlatPrefix ==
  ASSUME NEW S, NEW q \in Seq(S), NEW r \in Seq(S), Len(q) <= Len(r),
         \A i \in 1..Len(q) : q[i] = r[i]
  PROVE  \A i \in 1..Len(q) : Flat(q)[i] = Flat(r)[i]
<1> DEFINE T == {n \in Nat : n \in 1..Len(q) => Flat(q)[n] = Flat(r)[n]}
<1>1. /\ q # <<>> => Flat(q)[1] = q[1]
      /\ \A i \in 1..(Len(q) - 1) : Flat(q)[i + 1] = Flat(q)[i] \o q[i + 1]
      /\ r # <<>> => Flat(r)[1] = r[1]
      /\ \A i \in 1..(Len(r) - 1) : Flat(r)[i + 1] = Flat(r)[i] \o r[i + 1]
  BY FlattenIsFlat
<1>2. /\ Len(q) \in Nat /\ (q = <<>> <=> Len(q) = 0)
      /\ Len(r) \in Nat /\ (r = <<>> <=> Len(r) = 0)
  BY LenProperties, EmptySeq
<1>3. 0 \in T
  BY <1>2
<1>4. ASSUME NEW n \in Nat, n \in T
      PROVE  n + 1 \in T
  <2>1. SUFFICES ASSUME n + 1 \in 1..Len(q)
                 PROVE  Flat(q)[n + 1] = Flat(r)[n + 1]
    OBVIOUS
  <2>2. n + 1 \in 1..Len(r) /\ q[n + 1] = r[n + 1]
    BY <1>2, <2>1
  <2>3. CASE n = 0
    BY <1>1, <1>2, <2>1, <2>2, <2>3
  <2>4. CASE n # 0
    <3>1. /\ Flat(q)[n] = Flat(r)[n]
          /\ n \in 1..(Len(q) - 1) /\ n \in 1..(Len(r) - 1)
      BY <1>2, <1>4, <2>1, <2>2, <2>4
    <3>2. Flat(q)[n + 1] = Flat(q)[n] \o q[n + 1]
      BY <1>1, <3>1
    <3>3. Flat(r)[n + 1] = Flat(r)[n] \o r[n + 1]
      BY <1>1, <3>1
    <3> QED
      BY <2>2, <3>1, <3>2, <3>3
  <2> QED
    BY <2>3, <2>4
<1> HIDE DEF T
<1>5. Nat \subseteq T
  BY <1>3, <1>4, SetInduction
<1> QED
  BY <1>2, <1>5 DEF T

(* What FlattenSeq is for a sequence that has just grown.                    *)
LEMMA FlattenAppend ==
  ASSUME NEW S, NEW q \in Seq(Seq(S)), NEW e \in Seq(S)
  PROVE  FlattenSeq(Append(q, e)) = FlattenSeq(q) \o e
<1> DEFINE r == Append(q, e)
<1>1. /\ r \in Seq(Seq(S)) /\ Len(r) = Len(q) + 1 /\ Len(q) \in Nat
      /\ \A i \in 1..Len(q) : r[i] = q[i]
      /\ r[Len(q) + 1] = e
  BY AppendProperties, LenProperties
<1> HIDE DEF r
<1>2. r # <<>> /\ Len(r) \in 1..Len(r)
  BY <1>1, EmptySeq
<1>3. FlattenSeq(r) = Flat(r)[Len(r)]
  BY <1>1, <1>2, FlattenIsFlat
<1>4. /\ Flat(r)[1] = r[1]
      /\ \A i \in 1..(Len(r) - 1) : Flat(r)[i + 1] = Flat(r)[i] \o r[i + 1]
  BY <1>1, <1>2, FlattenIsFlat
<1>5. CASE q = <<>>
  <2>1. Len(r) = 1 /\ FlattenSeq(q) = <<>>
    BY <1>1, <1>5, EmptySeq, FlattenEmpty
  <2>2. FlattenSeq(r) = e
    BY <1>1, <1>3, <1>4, <1>5, <2>1
  <2> QED
    BY <2>1, <2>2, ConcatEmptySeq DEF r
<1>6. CASE q # <<>>
  <2>1. Len(q) \in 1..Len(q)
    BY <1>1, <1>6, EmptySeq
  <2>2. \A i \in 1..Len(q) : Flat(q)[i] = Flat(r)[i]
    <3>1. Len(q) <= Len(r) /\ \A i \in 1..Len(q) : q[i] = r[i]
      BY <1>1
    <3> QED
      BY <1>1, <3>1, FlatPrefix
  <2>3. FlattenSeq(q) = Flat(q)[Len(q)]
    BY <1>6, FlattenIsFlat
  <2>4. Flat(r)[Len(q) + 1] = Flat(r)[Len(q)] \o r[Len(q) + 1]
    <3>1. Len(q) \in 1..(Len(r) - 1)
      BY <1>1, <2>1
    <3> QED
      BY <1>4, <3>1
  <2> QED
    BY <1>1, <1>3, <2>1, <2>2, <2>3, <2>4 DEF r
<1> QED
  BY <1>5, <1>6

\* The first sequence comes first, whatever follows.
LEMMA FlatTail ==
  ASSUME NEW S, NEW q \in Seq(Seq(S)), q # <<>>
  PROVE  \A i \in 1..Len(Tail(q)) : Flat(q)[i + 1] = Head(q) \o Flat(Tail(q))[i]
<1> DEFINE t == Tail(q)
           P(i) == Flat(q)[i + 1] = Head(q) \o Flat(t)[i]
           T == {n \in Nat : n \in 1..Len(t) => P(n)}
<1>1. /\ t \in Seq(Seq(S)) /\ Len(t) = Len(q) - 1 /\ Len(q) \in Nat \ {0}
      /\ Head(q) = q[1] /\ Head(q) \in Seq(S)
      /\ \A i \in 1..Len(t) : t[i] = q[i + 1] /\ t[i] \in Seq(S)
  BY HeadTailProperties, EmptySeq, LenProperties, ElementOfSeq
<1> HIDE DEF t
<1>2. /\ Flat(q)[1] = q[1]
      /\ \A i \in 1..(Len(q) - 1) : Flat(q)[i + 1] = Flat(q)[i] \o q[i + 1]
      /\ t # <<>> => Flat(t)[1] = t[1]
      /\ \A i \in 1..(Len(t) - 1) : Flat(t)[i + 1] = Flat(t)[i] \o t[i + 1]
      /\ t = <<>> <=> Len(t) = 0
  BY <1>1, FlattenIsFlat, EmptySeq
<1>3. 1 \in 1..Len(t) => P(1)
  <2>1. SUFFICES ASSUME 1 \in 1..Len(t)
                 PROVE  Flat(q)[1 + 1] = Head(q) \o Flat(t)[1]
    OBVIOUS
  <2>2. 1 \in 1..(Len(q) - 1) /\ t # <<>>
    BY <1>1, <1>2, <2>1
  <2>3. Flat(q)[1 + 1] = Flat(q)[1] \o q[1 + 1]
    BY <1>2, <2>2
  <2>4. Flat(q)[1] = Head(q) /\ q[1 + 1] = Flat(t)[1]
    BY <1>1, <1>2, <2>1, <2>2
  <2> QED
    BY <2>3, <2>4
<1>4. ASSUME NEW n \in Nat, n \in T
      PROVE  n + 1 \in T
  <2> HIDE DEF P
  <2>1. CASE n = 0
    <3>1. n + 1 = 1
      BY <2>1
    <3> QED
      BY <1>3, <3>1
  <2>2. CASE n # 0 /\ n + 1 \in 1..Len(t)
    <3>1. /\ n \in 1..(Len(t) - 1) /\ n \in 1..Len(t) /\ n + 1 \in 1..(Len(q) - 1)
          /\ q[(n + 1) + 1] = t[n + 1] /\ t[n + 1] \in Seq(S)
      BY <1>1, <2>2
    <3>2. P(n)
      BY <1>4, <3>1
    <3>3. Flat(q)[(n + 1) + 1] = Flat(q)[n + 1] \o q[(n + 1) + 1]
      BY <1>2, <3>1
    <3>4. Flat(t)[n + 1] = Flat(t)[n] \o t[n + 1]
      BY <1>2, <3>1
    <3>5. Flat(t)[n] \in Seq(S)
      BY <1>1, <3>1, FlatType
    <3>6. (Head(q) \o Flat(t)[n]) \o t[n + 1] = Head(q) \o (Flat(t)[n] \o t[n + 1])
      <4>1. \A a, b, c \in Seq(S) : (a \o b) \o c = a \o (b \o c)
        BY ConcatAssociative, SMTT(30)
      <4> QED
        BY <1>1, <3>1, <3>5, <4>1, Zenon
    <3>7. P(n + 1)
      BY <3>1, <3>2, <3>3, <3>4, <3>6, Zenon DEF P
    <3> QED
      BY <3>7
  <2>3. CASE n + 1 \notin 1..Len(t)
    BY <2>3
  <2> QED
    BY <2>1, <2>2, <2>3
<1> HIDE DEF T
<1>5. Nat \subseteq T
  <2>1. 0 \in T
    BY <1>1 DEF T
  <2> QED
    BY <1>4, <2>1, SetInduction
<1> HIDE DEF P
<1>6. \A i \in 1..Len(t) : P(i)
  BY <1>1, <1>5 DEF T
<1> QED
  BY <1>6 DEF P, t

(* What FlattenSeq is for a sequence from which the head is taken.           *)
LEMMA FlattenTail ==
  ASSUME NEW S, NEW q \in Seq(Seq(S)), q # <<>>
  PROVE  FlattenSeq(q) = Head(q) \o FlattenSeq(Tail(q))
<1> DEFINE t == Tail(q)
<1>1. /\ t \in Seq(Seq(S)) /\ Len(t) = Len(q) - 1 /\ Len(q) \in Nat \ {0}
      /\ Head(q) = q[1] /\ Head(q) \in Seq(S)
  BY HeadTailProperties, EmptySeq, LenProperties
<1>2. FlattenSeq(q) = Flat(q)[Len(q)]
  BY FlattenIsFlat
<1>3. CASE t = <<>>
  <2>1. Len(q) = 1
    <3> HIDE DEF t
    <3> QED
      BY <1>1, <1>3, EmptySeq
  <2>2. Flat(q)[1] = q[1]
    BY <2>1, FlattenIsFlat
  <2> QED
    BY <1>1, <1>2, <1>3, <2>1, <2>2, FlattenEmpty, ConcatEmptySeq
<1>4. CASE t # <<>>
  <2>1. Len(t) \in 1..Len(t) /\ Len(t) + 1 = Len(q)
    BY <1>1, <1>4, EmptySeq
  <2>2. FlattenSeq(t) = Flat(t)[Len(t)]
    BY <1>1, <1>4, FlattenIsFlat
  <2> HIDE DEF t
  <2>3. Flat(q)[Len(t) + 1] = Head(q) \o Flat(t)[Len(t)]
    BY <2>1, FlatTail DEF t
  <2> QED
    BY <1>2, <2>1, <2>2, <2>3 DEF t
<1> QED
  BY <1>3, <1>4

-----------------------------------------------------------------------------
(* A sequence whose members are replaced by sequences: the members that a   *)
(* filter rejects by <<>>, the others by <<what becomes of them>>.          *)

FlatMap(F, q) == FlattenSeq([i \in DOMAIN q |-> F[q[i]]])

LEMMA Mapped ==
  ASSUME NEW S, NEW T, NEW F \in [S -> Seq(T)], NEW q \in Seq(S)
  PROVE  [i \in DOMAIN q |-> F[q[i]]] \in Seq(Seq(T))
<1>1. DOMAIN q = 1..Len(q) /\ Len(q) \in Nat /\ \A i \in 1..Len(q) : q[i] \in S
  BY LenProperties, ElementOfSeq
<1>2. \A i \in 1..Len(q) : F[q[i]] \in Seq(T)
  BY <1>1
<1> QED
  BY <1>1, <1>2, IsASeq

LEMMA FlatMapType ==
  ASSUME NEW S, NEW T, NEW F \in [S -> Seq(T)], NEW q \in Seq(S)
  PROVE  FlatMap(F, q) \in Seq(T)
<1> DEFINE r == [i \in DOMAIN q |-> F[q[i]]]
<1>1. r \in Seq(Seq(T))
  BY Mapped
<1> HIDE DEF r
<1>2. FlattenSeq(r) \in Seq(T)
  BY <1>1, FlattenType
<1> QED
  BY <1>2 DEF FlatMap, r

LEMMA FlatMapEmpty ==
  ASSUME NEW F
  PROVE  FlatMap(F, <<>>) = <<>>
<1>1. [i \in DOMAIN <<>> |-> F[<<>>[i]]] = <<>>
  OBVIOUS
<1> QED
  BY <1>1, FlattenEmpty DEF FlatMap

LEMMA FlatMapAppend ==
  ASSUME NEW S, NEW T, NEW F \in [S -> Seq(T)], NEW q \in Seq(S), NEW e \in S
  PROVE  FlatMap(F, Append(q, e)) = FlatMap(F, q) \o F[e]
<1> DEFINE r == Append(q, e)
           fq == [i \in DOMAIN q |-> F[q[i]]]
           fr == [i \in DOMAIN r |-> F[r[i]]]
<1>1. /\ Len(r) = Len(q) + 1 /\ Len(q) \in Nat
      /\ DOMAIN r = 1..(Len(q) + 1) /\ DOMAIN q = 1..Len(q)
      /\ \A i \in 1..Len(q) : r[i] = q[i]
      /\ r[Len(q) + 1] = e
  BY AppendProperties, LenProperties
<1> HIDE DEF r
<1>2. /\ DOMAIN fq = 1..Len(q) /\ \A i \in 1..Len(q) : fq[i] = F[q[i]]
      /\ DOMAIN fr = 1..(Len(q) + 1)
      /\ \A i \in 1..(Len(q) + 1) : fr[i] = F[r[i]]
      /\ fr = [i \in 1..(Len(q) + 1) |-> fr[i]]
  BY <1>1
<1>3. fq \in Seq(Seq(T)) /\ F[e] \in Seq(T)
  BY Mapped
<1> HIDE DEF fq, fr
<1>4. /\ Append(fq, F[e]) \in Seq(Seq(T))
      /\ Len(Append(fq, F[e])) = Len(fq) + 1
      /\ \A i \in 1..Len(fq) : Append(fq, F[e])[i] = fq[i]
      /\ Append(fq, F[e])[Len(fq) + 1] = F[e]
      /\ Len(fq) = Len(q)
  BY <1>1, <1>2, <1>3, AppendProperties, LenProperties
<1>5. \A i \in 1..(Len(q) + 1) : fr[i] = Append(fq, F[e])[i]
  <2>1. \A i \in 1..Len(q) : fr[i] = Append(fq, F[e])[i]
    BY <1>1, <1>2, <1>4
  <2>2. fr[Len(q) + 1] = Append(fq, F[e])[Len(q) + 1]
    BY <1>1, <1>2, <1>4
  <2>3. \A i \in 1..(Len(q) + 1) : i \in 1..Len(q) \/ i = Len(q) + 1
    BY <1>1
  <2> QED
    BY <2>1, <2>2, <2>3, Zenon
<1>6. DOMAIN Append(fq, F[e]) = 1..(Len(q) + 1)
  BY <1>1, <1>4, LenProperties
<1>7. Append(fq, F[e]) = [i \in 1..(Len(q) + 1) |-> Append(fq, F[e])[i]]
  BY <1>4, <1>6, SeqDef
<1>8. fr = Append(fq, F[e])
  BY <1>2, <1>5, <1>7
<1> QED
  BY <1>3, <1>8, FlattenAppend DEF FlatMap, fq, fr, r

LEMMA FlatMapTail ==
  ASSUME NEW S, NEW T, NEW F \in [S -> Seq(T)], NEW q \in Seq(S), q # <<>>
  PROVE  FlatMap(F, q) = F[Head(q)] \o FlatMap(F, Tail(q))
<1> DEFINE t == Tail(q)
           fq == [i \in DOMAIN q |-> F[q[i]]]
           ft == [i \in DOMAIN t |-> F[t[i]]]
<1>1. /\ Len(t) = Len(q) - 1 /\ Len(q) \in Nat \ {0}
      /\ DOMAIN t = 1..(Len(q) - 1) /\ DOMAIN q = 1..Len(q)
      /\ \A i \in 1..(Len(q) - 1) : t[i] = q[i + 1]
      /\ Head(q) = q[1]
  BY HeadTailProperties, EmptySeq, LenProperties
<1> HIDE DEF t
<1>2. /\ DOMAIN fq = 1..Len(q) /\ \A i \in 1..Len(q) : fq[i] = F[q[i]]
      /\ DOMAIN ft = 1..(Len(q) - 1)
      /\ \A i \in 1..(Len(q) - 1) : ft[i] = F[t[i]]
      /\ ft = [i \in 1..(Len(q) - 1) |-> ft[i]]
  BY <1>1
<1>3. fq \in Seq(Seq(T))
  BY Mapped
<1> HIDE DEF fq, ft
<1>4. Len(fq) = Len(q) /\ fq # <<>>
  BY <1>1, <1>2, <1>3, LenProperties, EmptySeq
<1>5. /\ Tail(fq) \in Seq(Seq(T)) /\ Len(Tail(fq)) = Len(q) - 1
      /\ Head(fq) = F[Head(q)]
      /\ \A i \in 1..(Len(q) - 1) : Tail(fq)[i] = fq[i + 1]
  <2>1. 1 \in 1..Len(q)
    BY <1>1
  <2>2. /\ Tail(fq) \in Seq(Seq(T)) /\ Len(Tail(fq)) = Len(fq) - 1
        /\ Head(fq) = fq[1]
        /\ \A i \in 1..Len(Tail(fq)) : Tail(fq)[i] = fq[i + 1]
    BY <1>3, <1>4, HeadTailProperties
  <2>3. Head(fq) = F[Head(q)]
    BY <1>1, <1>2, <2>1, <2>2
  <2> QED
    BY <1>4, <2>2, <2>3
<1>6. \A i \in 1..(Len(q) - 1) : ft[i] = Tail(fq)[i]
  <2>1. \A i \in 1..(Len(q) - 1) : i + 1 \in 1..Len(q)
    BY <1>1
  <2> QED
    BY <1>1, <1>2, <1>5, <2>1
<1>7. Tail(fq) = [i \in 1..(Len(q) - 1) |-> Tail(fq)[i]]
  BY <1>5, LenProperties, SeqDef
<1>8. ft = Tail(fq)
  BY <1>2, <1>6, <1>7
<1>9. FlattenSeq(fq) = Head(fq) \o FlattenSeq(Tail(fq))
  BY <1>3, <1>4, FlattenTail
<1> QED
  BY <1>5, <1>8, <1>9 DEF FlatMap, fq, ft, t
=============================================================================
