--------------------------- MODULE HandlingProofs ---------------------------
(***************************************************************************)
(* Theorems about a session: for any samples, any number of frames and any *)
(* charger.                                                                *)
(***************************************************************************)
EXTENDS Handling, SequenceLemmas, FiniteSetTheorems

Stages == {"recv", "validating", "responding", "sending", "ended", "failed"}

\* What may be in the inbox.
IncomingRequests ==
  {[f EXCEPT !.id = n] : f \in {f \in Frames : f.type = "Call"}, n \in 1..MaxWork}
Incoming ==
  {[f EXCEPT !.id = n] : f \in Frames, n \in 1..MaxWork}
  \union {[r EXCEPT !.id = n] :
            r \in UNION {RepliesTo(ActionOf(q.class)) : q \in OwnRequests}, n \in Nat}

-----------------------------------------------------------------------------
(* Frames.                                                                 *)

GoodArgs(action, args) ==
  /\ action \in {"StartTransaction", "StatusNotification", "MeterValues"}
       => args.connector \in Connectors
  /\ action = "MeterValues" => args.samples \in Seq(Samples)

LEMMA ArgsAreGood ==
  ASSUME NEW action, NEW p, NEW args \in ArgsOf(action, p)
  PROVE  GoodArgs(action, args)
<1>1. CASE action = "MeterValues"
  <2>1. PICK samples \in IF p.value # NoValue THEN {<<>>}
                         ELSE UNION {[1..n -> Samples] : n \in 0..MaxSamples} :
          args.connector \in Connectors /\ args.samples = samples
    BY <1>1 DEF ArgsOf
  <2>2. samples \in Seq(Samples)
    <3>1. CASE p.value # NoValue
      BY <2>1, <3>1, EmptySeq
    <3>2. CASE p.value = NoValue
      <4>1. PICK n \in 0..MaxSamples : samples \in [1..n -> Samples]
        BY <2>1, <3>2
      <4>2. n \in Nat
        BY BoundsAssumption
      <4> QED
        BY <4>1, <4>2, SeqDef
    <3> QED
      BY <3>1, <3>2
  <2> QED
    BY <1>1, <2>1, <2>2 DEF GoodArgs
<1>2. CASE action \in {"StartTransaction", "StatusNotification"}
  BY <1>2 DEF GoodArgs, ArgsOf
<1>3. CASE action \notin {"StartTransaction", "StatusNotification", "MeterValues"}
  BY <1>3 DEF GoodArgs
<1> QED
  BY <1>1, <1>2, <1>3

LEMMA SomeArgs ==
  ASSUME NEW action, NEW p
  PROVE  \E args : args \in ArgsOf(action, p)
<1>1. CASE action = "MeterValues"
  <2>1. <<>> \in IF p.value # NoValue THEN {<<>>}
                 ELSE UNION {[1..n -> Samples] : n \in 0..MaxSamples}
    <3>1. CASE p.value = NoValue
      <4>1. <<>> \in [1..0 -> Samples] /\ 0 \in 0..MaxSamples
        BY BoundsAssumption
      <4> QED
        BY <3>1, <4>1
    <3> QED
      BY <3>1
  <2> DEFINE t == IF "transactionId" \in p.objects["top"] THEN 7 ELSE 0
  <2>2. [connector |-> 1, transaction |-> t, samples |-> <<>>] \in ArgsOf(action, p)
    BY <1>1, <2>1, ConnectorsAssumption DEF ArgsOf
  <2> QED
    BY <2>2
<1>2. CASE action = "BootNotification"
  <2> DEFINE f == IF "firmwareVersion" \in p.objects["top"] THEN "v1" ELSE Absent
  <2>1. [firmware |-> f] \in ArgsOf(action, p)
    BY <1>2 DEF ArgsOf
  <2> QED
    BY <2>1
<1>3. CASE action = "StatusNotification"
  <2> DEFINE s == IF p.value # NoValue /\ p.value[2] = "status"
                  THEN p.value[3] ELSE "Available"
  <2>1. [connector |-> 0, status |-> s] \in ArgsOf(action, p)
    BY <1>3, ConnectorsAssumption DEF ArgsOf
  <2> QED
    BY <2>1
<1>4. CASE action = "Authorize"
  <2>1. [idTag |-> "tag"] \in ArgsOf(action, p)
    BY <1>4 DEF ArgsOf
  <2> QED
    BY <2>1
<1>5. CASE action = "StartTransaction"
  <2>1. [connector |-> 0] \in ArgsOf(action, p)
    BY <1>5, ConnectorsAssumption DEF ArgsOf
  <2> QED
    BY <2>1
<1>6. CASE action \notin {"MeterValues", "BootNotification", "StatusNotification",
                          "Authorize", "StartTransaction"}
  <2>1. NoArgs \in ArgsOf(action, p)
    BY <1>6 DEF ArgsOf
  <2> QED
    BY <2>1
<1> QED
  BY <1>1, <1>2, <1>3, <1>4, <1>5, <1>6

\* The requests that a station sends, and their payloads.
Payloads(a) == Admitted("Call", a) \union Flawed("Call", a)

LEMMA RequestFrames ==
  ASSUME NEW f \in Frames
  PROVE  \/ /\ f.type = "Call" /\ f = Ask(f.action, f.payload, f.args)
            /\ \/ /\ f.action \in Routed /\ f.payload \in Payloads(f.action)
                  /\ GoodArgs(f.action, f.args)
               \/ f.action \notin Routed /\ f.payload = Empty
         \/ f.type \in DOMAIN UnpackError /\ f \in Malformed
<1>1. CASE f \in ValidRequests
  <2>1. PICK a \in Routed : \E p \in Admitted("Call", a) :
          \E args \in ArgsOf(a, p) : f = Ask(a, p, args)
    BY <1>1 DEF ValidRequests
  <2> PICK p \in Admitted("Call", a) : \E args \in ArgsOf(a, p) : f = Ask(a, p, args)
    BY <2>1
  <2> PICK args \in ArgsOf(a, p) : f = Ask(a, p, args)
    OBVIOUS
  <2>2. GoodArgs(a, args)
    BY ArgsAreGood
  <2> QED
    BY <2>2 DEF Ask, Payloads
<1>2. CASE f \in FlawedRequests
  <2>1. \E a \in Routed : \E p \in Flawed("Call", a) :
          \E args \in ArgsOf(a, p) : f = Ask(a, p, args)
    <3>1. PICK a \in Routed : \E p \in Flawed("Call", a) :
            f = Ask(a, p, CHOOSE args \in ArgsOf(a, p) : TRUE)
      BY <1>2 DEF FlawedRequests
    <3> QED
      BY <3>1, SomeArgs
  <2> PICK a \in Routed : \E p \in Flawed("Call", a) :
         \E args \in ArgsOf(a, p) : f = Ask(a, p, args)
    BY <2>1
  <2> PICK p \in Flawed("Call", a) : \E args \in ArgsOf(a, p) : f = Ask(a, p, args)
    OBVIOUS
  <2> PICK args \in ArgsOf(a, p) : f = Ask(a, p, args)
    OBVIOUS
  <2>2. GoodArgs(a, args)
    BY ArgsAreGood
  <2> QED
    BY <2>2 DEF Ask, Payloads
<1>3. CASE f \in StrayRequests
  <2>1. PICK a \in ((Action \union MemberNames) \ Routed) \union {"Unheard", NotAString} :
          f = Ask(a, Empty, NoArgs)
    BY <1>3 DEF StrayRequests
  <2>2. a \notin Routed
    BY DEF Routed, RouteMap, NotAString
  <2> QED
    BY <2>1, <2>2 DEF Ask
<1>4. CASE f \in Malformed
  BY <1>4 DEF Malformed
<1> QED
  BY <1>1, <1>2, <1>3, <1>4 DEF Frames

\* What a message in the inbox may be.
LEMMA IncomingMessages ==
  ASSUME NEW m \in Incoming
  PROVE  \/ /\ m \in IncomingRequests /\ m.type = "Call" /\ m.id \in 1..MaxWork
            /\ m.action \in Routed => /\ m.payload \in Payloads(m.action)
                                      /\ GoodArgs(m.action, m.args)
            /\ m.action \notin Routed => m.payload = Empty
         \/ m.type \in DOMAIN UnpackError
         \/ m.type \in {"CallResult", "CallError"} /\ m.id \in Nat
<1>1. ASSUME NEW f \in Frames, NEW n \in 1..MaxWork, m = [f EXCEPT !.id = n]
      PROVE  \/ /\ m \in IncomingRequests /\ m.type = "Call" /\ m.id \in 1..MaxWork
                /\ m.action \in Routed => /\ m.payload \in Payloads(m.action)
                                          /\ GoodArgs(m.action, m.args)
                /\ m.action \notin Routed => m.payload = Empty
             \/ m.type \in DOMAIN UnpackError
  <2>1. CASE f.type = "Call" /\ f = Ask(f.action, f.payload, f.args)
    <3> DEFINE a == f.action
               p == f.payload
               g == f.args
    <3>1. f = [type |-> "Call", id |-> 0, action |-> a, payload |-> p, args |-> g]
      BY <2>1 DEF Ask
    <3> HIDE DEF a, p, g
    <3>2. /\ m.type = "Call" /\ m.id = n /\ m.action = a /\ m.payload = p /\ m.args = g
      BY <1>1, <3>1
    <3>3. m \in IncomingRequests
      BY <1>1, <2>1 DEF IncomingRequests
    <3> QED
      BY <3>2, <3>3, RequestFrames, <2>1 DEF a, p, g, UnpackError
  <2>2. CASE f.type \in DOMAIN UnpackError /\ f \in Malformed
    BY <1>1, <2>2 DEF Malformed
  <2> QED
    BY <2>1, <2>2, RequestFrames
<1>2. ASSUME NEW a, NEW r \in RepliesTo(a), NEW n \in Nat, m = [r EXCEPT !.id = n]
      PROVE  m.type \in {"CallResult", "CallError"} /\ m.id \in Nat
  BY <1>2 DEF RepliesTo, Replies, CommonReplies
<1> QED
  BY <1>1, <1>2 DEF Incoming

-----------------------------------------------------------------------------
(* Reading the samples of a meter value.  r[i] is what is read of the first  *)
(* i of them.                                                                *)

Start(reading) == [reading |-> reading, raised |-> FALSE]
IsRead(reading, q, n, r) ==
  r = [i \in 0..n |-> IF i = 0 THEN Start(reading) ELSE ReadSample(r[i - 1], q[i])]
Read(reading, q) == CHOOSE r : IsRead(reading, q, Len(q), r)

LEMMA ReadExists ==
  ASSUME NEW reading, NEW q
  PROVE  \A n \in Nat : \E r : IsRead(reading, q, n, r)
<1> DEFINE S == {n \in Nat : \E r : IsRead(reading, q, n, r)}
<1>1. 0 \in S
  <2>1. IsRead(reading, q, 0, [i \in 0..0 |-> Start(reading)])
    BY DEF IsRead
  <2> QED
    BY <2>1
<1>2. ASSUME NEW n \in Nat, n \in S
      PROVE  n + 1 \in S
  <2>1. PICK r : IsRead(reading, q, n, r)
    BY <1>2
  <2> DEFINE next == ReadSample(r[n], q[n + 1])
             h == [i \in 0..(n + 1) |-> IF i = n + 1 THEN next ELSE r[i]]
             k == [i \in 0..(n + 1) |-> IF i = 0 THEN Start(reading)
                                        ELSE ReadSample(h[i - 1], q[i])]
  <2>2. \A i \in 0..n : r[i] = IF i = 0 THEN Start(reading)
                               ELSE ReadSample(r[i - 1], q[i])
    BY <2>1 DEF IsRead
  <2>3. ASSUME NEW i \in 0..(n + 1)
        PROVE  h[i] = k[i]
    <3>1. CASE i = n + 1
      <4>1. h[i - 1] = r[n]
        BY <3>1
      <4>2. h[i] = ReadSample(r[n], q[i])
        BY <3>1
      <4>3. k[i] = ReadSample(h[i - 1], q[i])
        <5>1. i # 0
          BY <3>1
        <5> HIDE DEF h
        <5> QED
          BY <5>1
      <4> QED
        BY <4>1, <4>2, <4>3
    <3>2. CASE i \in 0..n
      <4>1. i # 0 => h[i - 1] = r[i - 1]
        BY <3>2
      <4> QED
        BY <2>2, <3>2, <4>1
    <3> QED
      BY <3>1, <3>2
  <2>4. h = k
    BY <2>3
  <2>5. IsRead(reading, q, n + 1, h)
    BY <2>4 DEF IsRead
  <2> QED
    BY <2>5
<1> HIDE DEF S
<1>3. Nat \subseteq S
  BY <1>1, <1>2, SetInduction
<1> QED
  BY <1>3 DEF S

LEMMA ReadSteps ==
  ASSUME NEW S, NEW reading, NEW q \in Seq(S)
  PROVE  /\ ReadSamples(reading, q) = Read(reading, q)[Len(q)]
         /\ Read(reading, q)[0] = Start(reading)
         /\ \A i \in 0..(Len(q) - 1) :
              Read(reading, q)[i + 1] = ReadSample(Read(reading, q)[i], q[i + 1])
<1>1. Len(q) \in Nat
  BY LenProperties
<1>2. IsRead(reading, q, Len(q), Read(reading, q))
  BY <1>1, ReadExists DEF Read
<1>3. \A i \in 0..Len(q) :
        Read(reading, q)[i] = IF i = 0 THEN Start(reading)
                              ELSE ReadSample(Read(reading, q)[i - 1], q[i])
  BY <1>1, <1>2 DEF IsRead
<1>4. ReadSamples(reading, q) = Read(reading, q)[Len(q)]
  BY DEF ReadSamples, Read, IsRead, Start
<1>5. ASSUME NEW i \in 0..(Len(q) - 1)
      PROVE  Read(reading, q)[i + 1] = ReadSample(Read(reading, q)[i], q[i + 1])
  <2>1. i + 1 \in 0..Len(q) /\ i + 1 # 0 /\ (i + 1) - 1 = i
    BY <1>1
  <2>2. Read(reading, q)[i + 1] = ReadSample(Read(reading, q)[(i + 1) - 1], q[i + 1])
    BY <1>3, <2>1, Zenon
  <2> QED
    BY <2>1, <2>2, Zenon
<1> QED
  BY <1>1, <1>3, <1>4, <1>5

\* The samples before the first unreadable value, those of a kind, and the
\* last of them.
Readable(q, n) == {i \in 1..n : \A j \in 1..i : q[j].value # Unreadable}
OfKind(q, n, f) == {i \in Readable(q, n) : Field(q[i]) = f}
IsLatest(q, n, f, i) == i \in OfKind(q, n, f) /\ \A j \in OfKind(q, n, f) : j <= i

\* What there is to say of what has been read of the first n samples.
KindWell(reading, q, n, acc, f) ==
  /\ OfKind(q, n, f) = {} => acc.reading[f] = reading[f]
  /\ OfKind(q, n, f) # {} => \E i : IsLatest(q, n, f, i)
  /\ \A i : IsLatest(q, n, f, i) => acc.reading[f] = Scaled(q[i])
IsAccumulator(acc) ==
  /\ acc = [reading |-> acc.reading, raised |-> acc.raised]
  /\ acc.reading \in [Readings -> Int] /\ acc.raised \in BOOLEAN
ReadWell(reading, q, n, acc) ==
  /\ IsAccumulator(acc)
  /\ acc.raised <=> \E j \in 1..n : q[j].value = Unreadable
  /\ \A f \in Readings : KindWell(reading, q, n, acc, f)

LEMMA FieldIsReading ==
  ASSUME NEW sample
  PROVE  Field(sample) \in Readings \union {Absent}
BY DEF Field, PhaseField, Readings

LEMMA TwoAssigned ==
  ASSUME NEW S, NEW T, NEW f \in [S -> T], NEW a, NEW b, NEW u \in T, NEW v \in T
  PROVE  [f EXCEPT ![a] = u, ![b] = v] \in [S -> T]
OBVIOUS

LEMMA ScaledIsInteger ==
  ASSUME NEW sample, sample.value \in Int
  PROVE  Scaled(sample) \in Int
BY DEF Scaled

LEMMA ReadableStep ==
  ASSUME NEW q, NEW n \in Nat
  PROVE  Readable(q, n + 1) =
           IF \E j \in 1..(n + 1) : q[j].value = Unreadable
           THEN Readable(q, n) ELSE Readable(q, n) \union {n + 1}
<1>1. \A i \in 1..n : i \in Readable(q, n + 1) <=> i \in Readable(q, n)
  BY DEF Readable
<1>2. n + 1 \in Readable(q, n + 1)
        <=> ~(\E j \in 1..(n + 1) : q[j].value = Unreadable)
  BY DEF Readable
<1>3. Readable(q, n) \subseteq 1..n /\ Readable(q, n + 1) \subseteq 1..(n + 1)
  BY DEF Readable
<1>4. 1..(n + 1) = 1..n \union {n + 1}
  OBVIOUS
<1> QED
  BY <1>1, <1>2, <1>3, <1>4

LEMMA ReadSampleWell ==
  ASSUME NEW reading, NEW q, NEW n \in Nat, NEW acc,
         q[n + 1].value = Unreadable \/ q[n + 1].value \in Int,
         ReadWell(reading, q, n, acc)
  PROVE  ReadWell(reading, q, n + 1, ReadSample(acc, q[n + 1]))
<1> DEFINE s == q[n + 1]
           next == ReadSample(acc, s)
<1>1. /\ acc = [reading |-> acc.reading, raised |-> acc.raised]
      /\ acc.reading \in [Readings -> Int] /\ acc.raised \in BOOLEAN
      /\ acc.raised <=> \E j \in 1..n : q[j].value = Unreadable
      /\ \A f \in Readings : KindWell(reading, q, n, acc, f)
  BY DEF ReadWell, IsAccumulator
<1>2. (\E j \in 1..(n + 1) : q[j].value = Unreadable)
        <=> (acc.raised \/ s.value = Unreadable)
  <2>1. 1..(n + 1) = 1..n \union {n + 1}
    OBVIOUS
  <2> QED
    BY <1>1, <2>1
<1>3. CASE acc.raised \/ s.value = Unreadable
  <2>1. next = [reading |-> acc.reading, raised |-> TRUE]
    BY <1>1, <1>3 DEF ReadSample
  <2>2. Readable(q, n + 1) = Readable(q, n)
    BY <1>2, <1>3, ReadableStep
  <2>3. \A f : OfKind(q, n + 1, f) = OfKind(q, n, f)
    BY <2>2 DEF OfKind
  <2> HIDE DEF next, s
  <2>4. IsAccumulator(next) /\ next.raised /\ next.reading = acc.reading
    BY <1>1, <2>1 DEF IsAccumulator
  <2>5. ASSUME NEW f \in Readings
        PROVE  KindWell(reading, q, n + 1, next, f)
    BY <1>1, <2>3, <2>4 DEF KindWell, IsLatest
  <2>6. \E j \in 1..(n + 1) : q[j].value = Unreadable
    BY <1>2, <1>3
  <2> QED
    BY <2>4, <2>5, <2>6 DEF ReadWell, next, s
<1>4. CASE ~(acc.raised \/ s.value = Unreadable)
  <2> DEFINE g == Field(s)
  <2>1. Readable(q, n + 1) = Readable(q, n) \union {n + 1}
    BY <1>2, <1>4, ReadableStep
  <2>2. /\ OfKind(q, n + 1, g) = OfKind(q, n, g) \union {n + 1}
        /\ \A f : f # g => OfKind(q, n + 1, f) = OfKind(q, n, f)
    BY <2>1 DEF OfKind
  <2>3. \A j \in OfKind(q, n, g) : j \in Int /\ j <= n + 1
    BY DEF OfKind, Readable
  <2>4. ~(\E j \in 1..(n + 1) : q[j].value = Unreadable)
    BY <1>2, <1>4
  <2>5. CASE g = Absent
    <3>1. next = acc
      BY <1>4, <2>5 DEF ReadSample
    <3>2. \A f \in Readings : OfKind(q, n + 1, f) = OfKind(q, n, f)
      BY <2>2, <2>5, AbsentAssumption
    <3> HIDE DEF next, s
    <3>3. ASSUME NEW f \in Readings
          PROVE  KindWell(reading, q, n + 1, next, f)
      BY <1>1, <3>1, <3>2 DEF KindWell, IsLatest
    <3>4. IsAccumulator(next) /\ ~next.raised
      BY <1>1, <1>4, <3>1 DEF IsAccumulator
    <3> QED
      BY <2>4, <3>3, <3>4 DEF ReadWell, next, s
  <2>6. CASE g # Absent
    <3> DEFINE v == Scaled(s)
    <3>1. g \in Readings
      BY <2>6, FieldIsReading
    <3>2. v \in Int
      BY <1>4, ScaledIsInteger
    <3>3. next = [acc EXCEPT !.reading = [@ EXCEPT ![g] = v]]
      BY <1>4, <2>6 DEF ReadSample
    <3> HIDE DEF v, g, next
    <3>4. next = [reading |-> [acc.reading EXCEPT ![g] = v], raised |-> acc.raised]
      BY <1>1, <3>3
    <3>5. /\ next.reading \in [Readings -> Int] /\ next.reading[g] = v
          /\ \A f \in Readings : f # g => next.reading[f] = acc.reading[f]
      BY <1>1, <3>1, <3>2, <3>4
    <3>6. next.raised = acc.raised /\ acc.raised = FALSE
          /\ next = [reading |-> next.reading, raised |-> next.raised]
      BY <1>1, <1>4, <3>4
    <3>7. ASSUME NEW f \in Readings, f # g
          PROVE  KindWell(reading, q, n + 1, next, f)
      BY <1>1, <2>2, <3>5, <3>7 DEF KindWell, IsLatest
    <3>8. IsLatest(q, n + 1, g, n + 1)
      BY <2>2, <2>3 DEF IsLatest
    <3>9. ASSUME NEW i, IsLatest(q, n + 1, g, i)
          PROVE  i = n + 1
      BY <2>2, <2>3, <3>9 DEF IsLatest
    <3>10. OfKind(q, n + 1, g) # {}
      BY <2>2
    <3>11. next.reading[g] = Scaled(q[n + 1])
      BY <3>5 DEF v
    <3>12. KindWell(reading, q, n + 1, next, g)
      BY <3>8, <3>9, <3>10, <3>11 DEF KindWell
    <3>13. IsAccumulator(next) /\ ~next.raised
      BY <3>5, <3>6 DEF IsAccumulator
    <3> QED
      BY <2>4, <3>7, <3>12, <3>13 DEF ReadWell, next
  <2> QED
    BY <2>5, <2>6
<1> QED
  BY <1>3, <1>4

LEMMA ReadSamplesWell ==
  ASSUME NEW reading \in [Readings -> Int], NEW q \in Seq(Samples)
  PROVE  ReadWell(reading, q, Len(q), ReadSamples(reading, q))
<1> DEFINE r == Read(reading, q)
           S == {n \in Nat : n \in 0..Len(q) => ReadWell(reading, q, n, r[n])}
<1>1. Len(q) \in Nat /\ \A i \in 1..Len(q) : q[i] \in Samples
  BY LenProperties, ElementOfSeq
<1>2. /\ ReadSamples(reading, q) = r[Len(q)] /\ r[0] = Start(reading)
      /\ \A i \in 0..(Len(q) - 1) : r[i + 1] = ReadSample(r[i], q[i + 1])
  BY ReadSteps
<1> HIDE DEF r
<1>3. 0 \in S
  <2>1. \A f : OfKind(q, 0, f) = {}
    BY DEF OfKind, Readable
  <2>2. IsAccumulator(Start(reading)) /\ ~Start(reading).raised
        /\ Start(reading).reading = reading
    BY DEF IsAccumulator, Start
  <2>3. ReadWell(reading, q, 0, Start(reading))
    BY <2>1, <2>2 DEF ReadWell, KindWell, IsLatest
  <2> QED
    BY <1>2, <2>3
<1>4. ASSUME NEW n \in Nat, n \in S
      PROVE  n + 1 \in S
  <2>1. SUFFICES ASSUME n + 1 \in 0..Len(q)
                 PROVE  ReadWell(reading, q, n + 1, r[n + 1])
    OBVIOUS
  <2>2. n \in 0..(Len(q) - 1) /\ n + 1 \in 1..Len(q)
    BY <1>1, <2>1
  <2>3. ReadWell(reading, q, n, r[n])
    BY <1>4, <2>2
  <2>4. q[n + 1].value = Unreadable \/ q[n + 1].value \in Int
    BY <1>1, <2>2, SamplesAssumption
  <2>5. ReadWell(reading, q, n + 1, ReadSample(r[n], q[n + 1]))
    BY <2>3, <2>4, ReadSampleWell
  <2> QED
    BY <1>2, <2>2, <2>5
<1> HIDE DEF S
<1>5. Nat \subseteq S
  BY <1>3, <1>4, SetInduction
<1>6. ReadWell(reading, q, Len(q), r[Len(q)])
  BY <1>1, <1>5 DEF S
<1> QED
  BY <1>2, <1>6

\* The current of a DC charger.
Size(watts) == 1000 * ((100 * watts) \div (DcVoltage * DcEfficiency * 3))
Amps(power) == IF power > 0 THEN Size(power) ELSE 0 - Size(0 - power)

LEMMA DcCurrentIs ==
  ASSUME NEW power \in Int, DcVoltage # 0, DcEfficiency # 0
  PROVE  DcCurrent(power) \in Int /\ DcCurrent(power) = Amps(power)
<1> DEFINE d == 3 * DcVoltage * DcEfficiency
           amps(watts) == (watts * 100) \div d
<1>1. d \in Nat /\ d > 0 /\ d = DcVoltage * DcEfficiency * 3
  BY ChargerAssumption
<1>2. DcCurrent(power) = 1000 * IF power < 0 THEN -amps(-power) ELSE amps(power)
  BY DEF DcCurrent
<1>3. ASSUME NEW watts \in Int
      PROVE  amps(watts) \in Int /\ Size(watts) = 1000 * amps(watts)
  <2> DEFINE p == watts * 100
  <2>1. p \in Int /\ p = 100 * watts
    OBVIOUS
  <2>2. Size(watts) = 1000 * (p \div d)
    BY <1>1, <2>1 DEF Size
  <2> HIDE DEF d, p
  <2>3. p \div d \in Int
    BY <1>1, <2>1
  <2> QED
    BY <2>2, <2>3 DEF p
<1> HIDE DEF amps, d
<1>4. CASE power > 0
  BY <1>2, <1>3, <1>4 DEF Amps
<1>5. CASE power < 0
  <2>1. -power \in Int /\ -power = 0 - power
    OBVIOUS
  <2>2. amps(-power) \in Int /\ Size(0 - power) = 1000 * amps(-power)
    BY <1>3, <2>1
  <2>3. DcCurrent(power) = 1000 * (-amps(-power)) /\ Amps(power) = 0 - Size(0 - power)
    BY <1>2, <1>5 DEF Amps
  <2> QED
    BY <2>2, <2>3
<1>6. CASE power = 0
  <2>1. amps(0) = 0 /\ Size(0) = 0
    <3>1. 0 \div d = 0
      BY <1>1
    <3>2. amps(0) = 0
      BY <3>1 DEF amps
    <3> QED
      BY <1>3, <3>2
  <2>2. DcCurrent(power) = 1000 * amps(0) /\ Amps(power) = 0 - Size(0)
    BY <1>2, <1>6 DEF Amps
  <2> QED
    BY <2>1, <2>2
<1> QED
  BY <1>4, <1>5, <1>6

\* What on_MeterValues() leaves the readings of a connector at.
After(acc) == IF acc.raised THEN acc.reading ELSE Recalculate(acc.reading)

LEMMA ReadingsAsExpected ==
  ASSUME NEW reading \in [Readings -> Int], NEW q \in Seq(Samples)
  PROVE  /\ After(ReadSamples(reading, q)) = Expected(reading, q)
         /\ Expected(reading, q) \in [Readings -> Int]
<1> DEFINE n == Len(q)
           acc == ReadSamples(reading, q)
           raw == [f \in Readings |->
                     IF OfKind(q, n, f) = {} THEN reading[f]
                     ELSE Scaled(q[CHOOSE i \in OfKind(q, n, f) :
                                     \A j \in OfKind(q, n, f) : j <= i])]
           dc == /\ DcCharger /\ DcVoltage # 0 /\ DcEfficiency # 0
                 /\ Readable(q, n) = 1..n /\ raw["power"] # 0
           amps == Amps(raw["power"])
<1>1. n \in Nat /\ DOMAIN q = 1..n
  BY LenProperties
<1>2. /\ ReadWell(reading, q, n, acc) /\ IsAccumulator(acc)
      /\ acc.raised <=> \E j \in 1..n : q[j].value = Unreadable
      /\ acc.reading \in [Readings -> Int] /\ acc.raised \in BOOLEAN
  BY ReadSamplesWell DEF ReadWell, IsAccumulator
<1>3. Expected(reading, q) = IF dc THEN [raw EXCEPT !["voltage"] = DcVoltage,
                                                    !["current"] = amps]
                             ELSE raw
  BY <1>1 DEF Expected, OfKind, Readable, Amps, Size
<1> HIDE DEF acc, n
<1>4. ASSUME NEW f \in Readings
      PROVE  acc.reading[f] = raw[f]
  <2>1. KindWell(reading, q, n, acc, f)
    BY <1>2 DEF ReadWell
  <2>2. CASE OfKind(q, n, f) = {}
    BY <2>1, <2>2 DEF KindWell
  <2>3. CASE OfKind(q, n, f) # {}
    <3> DEFINE l == CHOOSE i \in OfKind(q, n, f) : \A j \in OfKind(q, n, f) : j <= i
    <3>1. \E i : IsLatest(q, n, f, i)
      BY <2>1, <2>3 DEF KindWell
    <3>2. IsLatest(q, n, f, l)
      BY <3>1 DEF IsLatest
    <3>3. acc.reading[f] = Scaled(q[l])
      BY <2>1, <3>2 DEF KindWell
    <3> QED
      BY <2>3, <3>3
  <2> QED
    BY <2>2, <2>3
<1>5. raw = acc.reading
  BY <1>2, <1>4
<1> HIDE DEF raw
<1>6. Readable(q, n) = 1..n <=> ~acc.raised
  BY <1>1, <1>2 DEF Readable
<1>7. raw \in [Readings -> Int] /\ raw["power"] \in Int
  BY <1>2, <1>5 DEF Readings
<1>8. CASE dc
  <2>1. amps = DcCurrent(raw["power"]) /\ amps \in Int
    BY <1>7, <1>8, DcCurrentIs
  <2> HIDE DEF amps
  <2>2. Recalculate(raw) = [raw EXCEPT !["voltage"] = DcVoltage, !["current"] = amps]
    BY <1>7, <1>8, <2>1 DEF Recalculate
  <2>3. [raw EXCEPT !["voltage"] = DcVoltage, !["current"] = amps] \in [Readings -> Int]
    <3>1. DcVoltage \in Int
      BY ChargerAssumption
    <3>2. amps \in Int
      BY <2>1
    <3>3. raw \in [Readings -> Int]
      BY <1>7
    <3> QED
      BY <3>1, <3>2, <3>3, TwoAssigned
  <2> QED
    BY <1>3, <1>5, <1>6, <1>8, <2>2, <2>3 DEF After, acc
<1>9. CASE ~dc
  <2>1. After(acc) = raw
    <3>1. CASE acc.raised
      BY <1>5, <3>1 DEF After
    <3>2. CASE ~acc.raised
      <4>1. Readable(q, n) = 1..n
        BY <1>6, <3>2
      <4>2. Recalculate(raw) = raw
        BY <1>7, <1>9, <4>1 DEF Recalculate
      <4> QED
        BY <1>5, <3>2, <4>2 DEF After
    <3> QED
      BY <3>1, <3>2
  <2> QED
    BY <1>3, <1>7, <1>9, <2>1 DEF acc
<1> QED
  BY <1>8, <1>9

-----------------------------------------------------------------------------
(* The ChargePoint.                                                        *)

IsConnector(c) ==
  \E t, s : \E b \in BOOLEAN, r \in [Readings -> Int] :
    c = [transaction_id |-> t, cp_status |-> s, is_charing |-> b, reading |-> r]
IsChargePoint(x) ==
  /\ x = [connect_status |-> x.connect_status, id_tag |-> x.id_tag,
          firmware_version |-> x.firmware_version,
          meterValueSampleInterval |-> x.meterValueSampleInterval,
          connector |-> x.connector]
  /\ x.connector = [c \in DOMAIN x.connector |-> x.connector[c]]
  /\ 1 \in DOMAIN x.connector /\ DOMAIN x.connector \subseteq Connectors \ {0}
  /\ \A c \in DOMAIN x.connector : IsConnector(x.connector[c])

LEMMA ConnectorRecord ==
  ASSUME NEW t, NEW s, NEW b \in BOOLEAN, NEW r \in [Readings -> Int]
  PROVE  LET c == [transaction_id |-> t, cp_status |-> s, is_charing |-> b,
                   reading |-> r]
         IN  IsConnector(c) /\ c.reading = r
BY DEF IsConnector

LEMMA ConnectorFields ==
  ASSUME NEW c, IsConnector(c)
  PROVE  c.is_charing \in BOOLEAN /\ c.reading \in [Readings -> Int]
BY DEF IsConnector

LEMMA NewConnectorIs ==
  ASSUME NEW id
  PROVE  IsConnector(NewConnector(id))
         /\ NewConnector(id).reading = [f \in Readings |-> 0]
<1>1. [f \in Readings |-> 0] \in [Readings -> Int]
  OBVIOUS
<1> QED
  BY <1>1, ConnectorRecord DEF NewConnector

LEMMA NewChargePointIs == IsChargePoint(NewChargePoint)
BY NewConnectorIs, ConnectorsAssumption DEF NewChargePoint, IsChargePoint

LEMMA GetConnectorIs ==
  ASSUME NEW x, IsChargePoint(x), NEW id
  PROVE  IsConnector(GetConnector(x, id))
BY NewConnectorIs DEF GetConnector, IsChargePoint

\* A connector that is set is the one of its number; no other changes.
LEMMA SetConnectorIs ==
  ASSUME NEW x, IsChargePoint(x), NEW id \in Connectors, NEW c, IsConnector(c)
  PROVE  /\ IsChargePoint(SetConnector(x, id, c))
         /\ DOMAIN SetConnector(x, id, c).connector
              = DOMAIN x.connector \union {ConnectorId(id)}
         /\ SetConnector(x, id, c).connector[ConnectorId(id)] = c
         /\ \A i \in DOMAIN x.connector \ {ConnectorId(id)} :
              SetConnector(x, id, c).connector[i] = x.connector[i]
<1> DEFINE k == ConnectorId(id)
           cs == [i \in DOMAIN x.connector \union {k} |->
                    IF i = k THEN c ELSE x.connector[i]]
           y == SetConnector(x, id, c)
<1>1. k \in Connectors \ {0}
  BY ConnectorsAssumption DEF ConnectorId
<1> HIDE DEF k
<1>2. /\ cs[k] = c /\ \A i \in DOMAIN x.connector \ {k} : cs[i] = x.connector[i]
      /\ cs = [i \in DOMAIN cs |-> cs[i]]
      /\ DOMAIN cs = DOMAIN x.connector \union {k}
  OBVIOUS
<1>3. \A i \in DOMAIN cs : IsConnector(cs[i])
  BY DEF IsChargePoint
<1>4. y = [x EXCEPT !.connector = cs]
  BY DEF SetConnector, k
<1> HIDE DEF cs, y
<1>5. /\ y.connector = cs
      /\ y = [connect_status |-> y.connect_status, id_tag |-> y.id_tag,
              firmware_version |-> y.firmware_version,
              meterValueSampleInterval |-> y.meterValueSampleInterval,
              connector |-> y.connector]
  BY <1>4 DEF IsChargePoint
<1>6. 1 \in DOMAIN x.connector /\ DOMAIN x.connector \subseteq Connectors \ {0}
  BY DEF IsChargePoint
<1>7. IsChargePoint(y)
  BY <1>1, <1>2, <1>3, <1>5, <1>6 DEF IsChargePoint
<1> QED
  BY <1>2, <1>5, <1>7 DEF y, k

LEMMA MeterValuesAre ==
  ASSUME NEW x, IsChargePoint(x), NEW args, GoodArgs("MeterValues", args)
  PROVE  LET c == ConnectorId(args.connector)
             before == GetConnector(x, args.connector).reading
             y == OnMeterValues(x, args)
         IN  /\ IsChargePoint(y)
             /\ DOMAIN y.connector = DOMAIN x.connector \union {c}
             /\ y.connector[c].reading = Expected(before, args.samples)
             /\ \A other \in DOMAIN x.connector \ {c} :
                  y.connector[other] = x.connector[other]
<1> DEFINE id == args.connector
           q == args.samples
           c == GetConnector(x, id)
           read == ReadSamples(c.reading, q)
           after == IF read.raised THEN read.reading ELSE Recalculate(read.reading)
           t == IF args.transaction = 0 THEN c.transaction_id ELSE args.transaction
           d == [c EXCEPT !.transaction_id = t, !.reading = after]
<1>1. id \in Connectors /\ q \in Seq(Samples)
  BY DEF GoodArgs
<1>2. IsConnector(c)
  BY GetConnectorIs
<1>3. OnMeterValues(x, args) = SetConnector(x, id, d)
  BY DEF OnMeterValues
<1>4. c.reading \in [Readings -> Int]
  BY <1>2, ConnectorFields
<1> HIDE DEF c
<1>5. after = Expected(c.reading, q) /\ Expected(c.reading, q) \in [Readings -> Int]
  BY <1>1, <1>4, ReadingsAsExpected DEF After
<1> HIDE DEF after, t
<1>6. IsConnector(d) /\ d.reading = after
  <2>1. PICK t0, s : \E b \in BOOLEAN, r \in [Readings -> Int] :
          c = [transaction_id |-> t0, cp_status |-> s, is_charing |-> b,
               reading |-> r]
    BY <1>2 DEF IsConnector
  <2>2. PICK b \in BOOLEAN, r \in [Readings -> Int] :
          c = [transaction_id |-> t0, cp_status |-> s, is_charing |-> b,
               reading |-> r]
    BY <2>1
  <2> DEFINE e == [c EXCEPT !.transaction_id = t]
  <2>3. e = [transaction_id |-> t, cp_status |-> s, is_charing |-> b,
             reading |-> r]
    BY <2>2
  <2> HIDE DEF e
  <2>4. [e EXCEPT !.reading = after]
          = [transaction_id |-> t, cp_status |-> s, is_charing |-> b,
             reading |-> after]
    BY <2>3
  <2>5. d = [e EXCEPT !.reading = after]
    BY Zenon DEF e
  <2> HIDE DEF d
  <2> QED
    BY <1>5, <2>4, <2>5, ConnectorRecord
<1> HIDE DEF d, id, q
<1>7. /\ IsChargePoint(SetConnector(x, id, d))
      /\ DOMAIN SetConnector(x, id, d).connector
           = DOMAIN x.connector \union {ConnectorId(id)}
      /\ SetConnector(x, id, d).connector[ConnectorId(id)] = d
      /\ \A i \in DOMAIN x.connector \ {ConnectorId(id)} :
           SetConnector(x, id, d).connector[i] = x.connector[i]
  BY <1>1, <1>6, SetConnectorIs, SMTT(30)
<1> QED
  BY <1>3, <1>5, <1>6, <1>7 DEF id, q, c

LEMMA StatusIs ==
  ASSUME NEW x, IsChargePoint(x), NEW args, args.connector \in Connectors
  PROVE  IsChargePoint(OnStatus(x, args))
<1> DEFINE c == GetConnector(x, args.connector)
           charging == args.status \in Charging
           d == [c EXCEPT !.cp_status = args.status, !.is_charing = charging]
           zero == [d.reading EXCEPT !["current"] = 0, !["power"] = 0]
           e == IF args.status = "Finishing" THEN [d EXCEPT !.reading = zero] ELSE d
<1>1. OnStatus(x, args) = SetConnector(x, args.connector, e)
  BY DEF OnStatus
<1>2. PICK t, s : \E b \in BOOLEAN, r \in [Readings -> Int] :
        c = [transaction_id |-> t, cp_status |-> s, is_charing |-> b, reading |-> r]
  BY GetConnectorIs DEF IsConnector
<1>3. PICK b \in BOOLEAN, r \in [Readings -> Int] :
        c = [transaction_id |-> t, cp_status |-> s, is_charing |-> b, reading |-> r]
  BY <1>2
<1> HIDE DEF c
<1>4. charging \in BOOLEAN
  OBVIOUS
<1> HIDE DEF charging
<1>5. d = [transaction_id |-> t, cp_status |-> args.status, is_charing |-> charging,
           reading |-> r]
  <2> DEFINE f == [c EXCEPT !.cp_status = args.status]
  <2>1. f = [transaction_id |-> t, cp_status |-> args.status, is_charing |-> b,
             reading |-> r]
    BY <1>3
  <2> HIDE DEF f
  <2>2. [f EXCEPT !.is_charing = charging]
          = [transaction_id |-> t, cp_status |-> args.status,
             is_charing |-> charging, reading |-> r]
    BY <2>1
  <2> QED
    BY <2>2, Zenon DEF f
<1> HIDE DEF d
<1>6. zero \in [Readings -> Int]
  <2> DEFINE reading == d.reading
  <2>1. reading \in [Readings -> Int]
    BY <1>5
  <2> HIDE DEF reading
  <2>2. [reading EXCEPT !["current"] = 0, !["power"] = 0] \in [Readings -> Int]
    BY <2>1, TwoAssigned
  <2> QED
    BY <2>2 DEF reading
<1> HIDE DEF zero
<1>7. IsConnector(d)
  BY <1>4, <1>5, ConnectorRecord
<1>8. [d EXCEPT !.reading = zero]
        = [transaction_id |-> t, cp_status |-> args.status, is_charing |-> charging,
           reading |-> zero]
  BY <1>5
<1>9. IsConnector([d EXCEPT !.reading = zero])
  BY <1>4, <1>6, <1>8, ConnectorRecord
<1>10. IsConnector(e)
  BY <1>7, <1>9
<1> QED
  BY <1>1, <1>10, SetConnectorIs

LEMMA HandleIs ==
  ASSUME NEW x, IsChargePoint(x), NEW action, NEW args, GoodArgs(action, args)
  PROVE  IsChargePoint(Handle(x, action, args))
<1>1. CASE action = "MeterValues"
  BY <1>1, MeterValuesAre DEF Handle
<1>2. CASE action = "StatusNotification"
  BY <1>2, StatusIs DEF Handle, GoodArgs
<1>3. CASE action = "StartTransaction"
  <2>1. args.connector \in Connectors /\ IsConnector(GetConnector(x, args.connector))
    BY <1>3, GetConnectorIs DEF GoodArgs
  <2> QED
    BY <1>3, <2>1, SetConnectorIs DEF Handle
<1>4. CASE action = "BootNotification"
  <2> DEFINE f == IF args.firmware = Absent THEN x.firmware_version ELSE args.firmware
  <2>1. Handle(x, action, args)
          = [x EXCEPT !.firmware_version = f, !.connect_status = TRUE]
    BY <1>4 DEF Handle, OnBoot
  <2> HIDE DEF f
  <2> QED
    BY <2>1 DEF IsChargePoint
<1>5. CASE action = "Authorize"
  <2>1. Handle(x, action, args) = [x EXCEPT !.id_tag = args.idTag]
    BY <1>5 DEF Handle
  <2> QED
    BY <2>1 DEF IsChargePoint
<1>6. CASE action = "Heartbeat"
  <2>1. Handle(x, action, args) = [x EXCEPT !.connect_status = TRUE]
    BY <1>6 DEF Handle
  <2> QED
    BY <2>1 DEF IsChargePoint
<1>7. CASE action \notin {"MeterValues", "StatusNotification", "StartTransaction",
                          "BootNotification", "Authorize", "Heartbeat"}
  BY <1>7 DEF Handle
<1> QED
  BY <1>1, <1>2, <1>3, <1>4, <1>5, <1>6, <1>7

-----------------------------------------------------------------------------
(* Types.                                                                  *)

CallStates == {"idle", "validating", "waiting", "checking", "done"}
OwnFields ==
  {"state", "id", "method", "request", "suppress", "alone", "answered",
   "reply", "outcome"}

SessionInv == open \in BOOLEAN /\ work \in 0..MaxWork /\ inbox \in Seq(Incoming)
StageInv ==
  /\ stage \in Stages
  /\ msg # NoMessage => msg \in IncomingRequests
  /\ stage = "recv" => msg = NoMessage
  /\ stage \in {"validating", "responding", "sending"} => msg \in IncomingRequests
  /\ stage \in {"validating", "responding"} => msg.action \in Routed
  /\ stage = "responding" => response = ResponseTo(msg.action)
  /\ stage = "sending" => response.type \in {"CallResult", "CallError"}
CallInv ==
  /\ tasks \subseteq DOMAIN Methods
  /\ own.state \in CallStates /\ own.id \in Nat /\ {"state", "id"} \subseteq DOMAIN own
  /\ own.state # "idle" => DOMAIN own = OwnFields /\ own.request \in OwnRequests
TypeInv == SessionInv /\ StageInv /\ IsChargePoint(cp) /\ CallInv

\* Requests are incoming messages, and not NoMessage.
LEMMA RequestsComeIn ==
  ASSUME NEW m \in IncomingRequests
  PROVE  /\ m \in Incoming /\ m.type = "Call" /\ m # NoMessage
         /\ m.id \in 1..MaxWork
         /\ m.action \in Routed => /\ m.payload \in Payloads(m.action)
                                   /\ GoodArgs(m.action, m.args)
<1>1. m \in Incoming
  BY DEF IncomingRequests, Incoming
<1>2. PICK f \in Frames, n \in 1..MaxWork : f.type = "Call" /\ m = [f EXCEPT !.id = n]
  BY DEF IncomingRequests
<1>3. f = Ask(f.action, f.payload, f.args)
  BY <1>2, RequestFrames DEF UnpackError
<1> DEFINE a == f.action
           p == f.payload
           g == f.args
<1>4. f = [type |-> "Call", id |-> 0, action |-> a, payload |-> p, args |-> g]
  BY <1>3 DEF Ask
<1> HIDE DEF a, p, g
<1>5. m.type = "Call"
  BY <1>2, <1>4
<1>6. m # NoMessage
  BY <1>5 DEF NoMessage
<1> QED
  BY <1>1, <1>5, <1>6, IncomingMessages DEF UnpackError

LEMMA InitTypes == Init => TypeInv
<1> SUFFICES ASSUME Init
             PROVE  TypeInv
  OBVIOUS
<1>1. SessionInv
  BY BoundsAssumption, EmptySeq DEF Init, SessionInv
<1>2. StageInv
  BY DEF Init, StageInv, Stages
<1>3. IsChargePoint(cp)
  BY NewChargePointIs DEF Init
<1>4. CallInv
  BY DEF Init, CallInv, NoCall, CallStates
<1> QED
  BY <1>1, <1>2, <1>3, <1>4 DEF TypeInv

LEMMA SpendType ==
  ASSUME work \in 0..MaxWork, NEW common, Spend(common)
  PROVE  work' \in 0..MaxWork /\ work + 1 \in 1..MaxWork
BY BoundsAssumption DEF Spend

LEMMA ArriveTypes ==
  ASSUME TypeInv, NEW f \in Frames, Arrive(f)
  PROVE  TypeInv'
<1> USE DEF TypeInv
<1>1. work' \in 0..MaxWork /\ work + 1 \in 1..MaxWork
  BY SpendType DEF Arrive, SessionInv
<1>2. [f EXCEPT !.id = work + 1] \in Incoming
  BY <1>1 DEF Incoming
<1>3. inbox' \in Seq(Incoming)
  BY <1>2, AppendProperties DEF Arrive, SessionInv
<1>4. SessionInv'
  BY <1>1, <1>3 DEF Arrive, SessionInv
<1> QED
  BY <1>4 DEF Arrive, StageInv, CallInv

LEMMA ReplyTypes ==
  ASSUME TypeInv, NEW r \in RepliesTo(Action_(own)), Reply(r)
  PROVE  TypeInv'
<1> USE DEF TypeInv
<1>1. own.id \in Nat /\ own.request \in OwnRequests
  BY DEF Reply, CallInv
<1>2. [r EXCEPT !.id = own.id] \in Incoming
  BY <1>1 DEF Incoming, Action_
<1>3. inbox' \in Seq(Incoming)
  BY <1>2, AppendProperties DEF Reply, SessionInv
<1>4. SessionInv'
  BY <1>3 DEF Reply, SessionInv
<1>5. own' = [own EXCEPT !.answered = TRUE]
  BY DEF Reply
<1>6. CallInv'
  BY <1>5 DEF Reply, CallInv, OwnFields
<1> QED
  BY <1>4, <1>6 DEF Reply, StageInv

\* What becomes of the first message in the inbox.
Ignored(m) ==
  /\ m.type # "Call"
  /\ UNCHANGED <<open, stage, msg, response, cp, own>>
Taken(m) ==
  /\ m.type \in {"CallResult", "CallError"} /\ own.state = "waiting" /\ own.id = m.id
  /\ own' = [own EXCEPT !.state = "checking", !.reply = m]
  /\ UNCHANGED <<open, stage, msg, response, cp>>
Handled(m) == m \in IncomingRequests /\ (Fail(m) \/ Route(m))

LEMMA ReceiveCases ==
  ASSUME inbox \in Seq(Incoming), Receive
  PROVE  LET m == Head(inbox)
         IN  /\ stage = "recv" /\ inbox # <<>> /\ m \in Incoming
             /\ inbox' = Tail(inbox) /\ inbox' \in Seq(Incoming)
             /\ UNCHANGED <<answered, tasks, work>>
             /\ Ignored(m) \/ Taken(m) \/ Handled(m)
<1> DEFINE m == Head(inbox)
<1>1. /\ stage = "recv" /\ inbox # <<>> /\ inbox' = Tail(inbox)
      /\ UNCHANGED <<answered, tasks, work>>
  BY DEF Receive
<1>2. m \in Incoming /\ inbox' \in Seq(Incoming)
  BY <1>1, HeadTailProperties
<1>3. CASE ~IsMessage(m)
  <2>1. m.type \notin {"Call", "CallResult", "CallError"}
    BY <1>3 DEF IsMessage, MessageType
  <2>2. Ignored(m)
    BY <1>3, <2>1 DEF Receive, Ignored
  <2> QED
    BY <1>1, <1>2, <2>2
<1>4. CASE m.type \in {"CallResult", "CallError"}
  <2>1. IsMessage(m) /\ m.type # "Call"
    BY <1>4 DEF IsMessage, MessageType
  <2>2. Deliver(m)
    BY <1>4, <2>1 DEF Receive
  <2>3. Ignored(m) \/ Taken(m)
    BY <1>4, <2>1, <2>2 DEF Deliver, Ignored, Taken
  <2> QED
    BY <1>1, <1>2, <2>3
<1>5. CASE m.type = "Call"
  <2>1. IsMessage(m)
    BY <1>5 DEF IsMessage, MessageType
  <2>2. m \in IncomingRequests
    BY <1>2, <1>5, IncomingMessages DEF UnpackError
  <2>3. Fail(m) \/ Route(m)
    BY <1>5, <2>1 DEF Receive
  <2> QED
    BY <1>1, <1>2, <2>2, <2>3 DEF Handled
<1> QED
  BY <1>3, <1>4, <1>5 DEF IsMessage, MessageType

LEMMA ReceiveTypes ==
  ASSUME TypeInv, Receive
  PROVE  TypeInv'
<1> USE DEF TypeInv
<1> DEFINE m == Head(inbox)
<1>1. /\ stage = "recv" /\ m \in Incoming /\ inbox' \in Seq(Incoming)
      /\ UNCHANGED <<answered, tasks, work>>
      /\ Ignored(m) \/ Taken(m) \/ Handled(m)
  BY ReceiveCases DEF SessionInv
<1> HIDE DEF m
<1>2. CASE Ignored(m)
  BY <1>1, <1>2 DEF Ignored, SessionInv, StageInv, CallInv
<1>3. CASE Taken(m)
  <2>1. CallInv'
    BY <1>1, <1>3 DEF Taken, CallInv, OwnFields, CallStates
  <2> QED
    BY <1>1, <1>3, <2>1 DEF Taken, SessionInv, StageInv
<1>4. CASE m \in IncomingRequests /\ Fail(m)
  BY <1>1, <1>4 DEF Fail, SessionInv, StageInv, Stages, CallInv
<1>5. CASE m \in IncomingRequests /\ Route(m)
  BY <1>1, <1>5 DEF Route, SessionInv, StageInv, Stages, CallInv, Error
<1> QED
  BY <1>1, <1>2, <1>3, <1>4, <1>5 DEF Handled

\* What becomes of a request in validation.
Refused ==
  /\ response'.type = "CallError" /\ stage' = "sending"
  /\ UNCHANGED <<cp, tasks>>
Invoked(m) ==
  /\ "valid" \in ValidatePayload("Call", m.action, m.payload)
  /\ RouteMap[m.action].params \subseteq ToSnakeCase(m.payload).objects["top"]
  /\ cp' = Handle(cp, m.action, m.args)
  /\ tasks' = tasks \union Tasks(m.action, m.args)
  /\ response' = ResponseTo(m.action) /\ stage' = "responding"
ValidatedRequest == Refused \/ Invoked(msg)

LEMMA ValidateRequestCases ==
  ASSUME ValidateRequest
  PROVE  ValidatedRequest
<1> DEFINE handler == RouteMap[msg.action]
           kwargs == ToSnakeCase(msg.payload).objects["top"]
<1>1. PICK verdict \in ValidatePayload("Call", msg.action, msg.payload) :
        IF verdict # "valid"
        THEN response' = Error(verdict) /\ stage' = "sending" /\ UNCHANGED <<cp, tasks>>
        ELSE IF ~(handler.params \subseteq kwargs)
        THEN response' = Error("TypeError") /\ stage' = "sending"
             /\ UNCHANGED <<cp, tasks>>
        ELSE /\ cp' = Handle(cp, msg.action, msg.args)
             /\ tasks' = tasks \union Tasks(msg.action, msg.args)
             /\ response' = ResponseTo(msg.action) /\ stage' = "responding"
  BY DEF ValidateRequest, ResponseTo
<1> HIDE DEF handler, kwargs
<1>2. \A code : Error(code).type = "CallError"
  BY DEF Error
<1>3. CASE verdict # "valid" \/ ~(handler.params \subseteq kwargs)
  <2>1. Refused
    BY <1>1, <1>2, <1>3 DEF Refused
  <2> QED
    BY <2>1 DEF ValidatedRequest
<1>4. CASE verdict = "valid" /\ handler.params \subseteq kwargs
  <2>1. Invoked(msg)
    BY <1>1, <1>4 DEF Invoked, handler, kwargs
  <2> QED
    BY <2>1 DEF ValidatedRequest
<1> QED
  BY <1>3, <1>4

LEMMA ValidateRequestTypes ==
  ASSUME TypeInv, ValidateRequest
  PROVE  TypeInv'
<1> USE DEF TypeInv
<1>1. stage = "validating" /\ msg \in IncomingRequests /\ msg.action \in Routed
  BY DEF ValidateRequest, StageInv
<1>2. GoodArgs(msg.action, msg.args)
  BY <1>1, RequestsComeIn
<1>3. ValidatedRequest
  BY ValidateRequestCases
<1> USE DEF ValidatedRequest, Refused, Invoked
<1>4. IsChargePoint(cp')
  BY <1>2, <1>3, HandleIs
<1>5. Tasks(msg.action, msg.args) \subseteq DOMAIN Methods
  BY DEF Tasks, Methods, CommandMethods, MaintenanceMethods
<1>6. tasks' \subseteq DOMAIN Methods
  BY <1>3, <1>5 DEF CallInv
<1>7. UNCHANGED <<open, inbox, msg, answered, own, work>>
  BY DEF ValidateRequest
<1>8. StageInv'
  BY <1>1, <1>3, <1>7 DEF StageInv, Stages
<1> QED
  BY <1>4, <1>6, <1>7, <1>8 DEF SessionInv, CallInv

LEMMA ValidateResponseTypes ==
  ASSUME TypeInv, ValidateResponse
  PROVE  TypeInv'
<1> USE DEF TypeInv
<1>1. /\ stage = "responding" /\ stage' = "sending"
      /\ UNCHANGED <<open, inbox, msg, answered, cp, tasks, own, work>>
      /\ response'.type \in {"CallResult", "CallError"}
  BY DEF ValidateResponse, Error, StageInv, ResponseTo
<1> QED
  BY <1>1 DEF SessionInv, StageInv, Stages, CallInv

LEMMA EndedChargePoint ==
  ASSUME IsChargePoint(cp), EndSession
  PROVE  IsChargePoint(cp') /\ stage' = "ended"
BY DEF EndSession, IsChargePoint

LEMMA SendResponseTypes ==
  ASSUME TypeInv, SendResponse
  PROVE  TypeInv'
<1> USE DEF TypeInv
<1>1. UNCHANGED <<open, inbox, tasks, own, work>> /\ stage = "sending"
  BY DEF SendResponse
<1>2. CASE open
  <2>1. stage' = "recv" /\ msg' = NoMessage /\ cp' = cp
    BY <1>2 DEF SendResponse
  <2>2. StageInv'
    BY <2>1 DEF StageInv, Stages
  <2> QED
    BY <1>1, <2>1, <2>2 DEF SessionInv, CallInv
<1>3. CASE ~open
  <2>1. EndSession /\ UNCHANGED <<msg, response>>
    BY <1>3 DEF SendResponse
  <2>2. IsChargePoint(cp') /\ stage' = "ended"
    BY <2>1, EndedChargePoint
  <2>3. StageInv'
    BY <2>1, <2>2 DEF StageInv, Stages
  <2> QED
    BY <1>1, <2>2, <2>3 DEF SessionInv, CallInv
<1> QED
  BY <1>2, <1>3 DEF SessionInv

LEMMA ReceiveClosedTypes ==
  ASSUME TypeInv, ReceiveClosed
  PROVE  TypeInv'
<1> USE DEF TypeInv
<1>1. /\ UNCHANGED <<open, inbox, msg, response, answered, tasks, own, work>>
      /\ EndSession
  BY DEF ReceiveClosed
<1>2. IsChargePoint(cp') /\ stage' = "ended"
  BY <1>1, EndedChargePoint
<1>3. StageInv'
  BY <1>1, <1>2 DEF StageInv, Stages
<1> QED
  BY <1>1, <1>2, <1>3 DEF SessionInv, CallInv

LEMMA BeginTypes ==
  ASSUME TypeInv, work' \in 0..MaxWork, tasks' \subseteq tasks,
         NEW method, NEW request \in OwnRequests, NEW suppress, NEW alone,
         Begin(method, request, suppress, alone)
  PROVE  TypeInv'
<1> USE DEF TypeInv
<1>1. own' = Invocation(method, request, suppress, alone)
      /\ UNCHANGED <<open, inbox, stage, msg, response, cp>>
  BY DEF Begin, loopVars
<1>2. own.id + 1 \in Nat
  BY DEF CallInv
<1>3. CallInv'
  BY <1>1, <1>2 DEF CallInv, Invocation, OwnFields, CallStates
<1> QED
  BY <1>1, <1>3 DEF SessionInv, StageInv

LEMMA CallTypes ==
  ASSUME TypeInv,
         \/ \E t \in DOMAIN Methods : StartTask(t)
         \/ \E m \in DOMAIN Methods, alone \in BOOLEAN : CallMethod(m, alone)
         \/ \E r \in Instances, suppress \in BOOLEAN : Call(r, suppress)
  PROVE  TypeInv'
<1>1. ASSUME NEW t \in DOMAIN Methods, StartTask(t)
      PROVE  TypeInv'
  <2>1. tasks' \subseteq tasks /\ work' = work /\ Methods[t] \in OwnRequests
    BY <1>1 DEF StartTask, OwnRequests
  <2>2. Begin(t, Methods[t], TRUE, FALSE)
    BY <1>1 DEF StartTask
  <2> QED
    BY <2>1, <2>2, BeginTypes DEF TypeInv, SessionInv
<1>2. ASSUME NEW m \in DOMAIN Methods, NEW alone \in BOOLEAN, CallMethod(m, alone)
      PROVE  TypeInv'
  <2>1. tasks' = tasks /\ Methods[m] \in OwnRequests
    BY <1>2 DEF CallMethod, OwnRequests
  <2>2. Spend(~alone) /\ Begin(m, Methods[m], TRUE, alone)
    BY <1>2 DEF CallMethod
  <2>3. work' \in 0..MaxWork
    BY <2>2, SpendType DEF TypeInv, SessionInv
  <2> QED
    BY <2>1, <2>2, <2>3, BeginTypes
<1>3. ASSUME NEW r \in Instances, NEW suppress \in BOOLEAN, Call(r, suppress)
      PROVE  TypeInv'
  <2>1. tasks' = tasks /\ r \in OwnRequests
    BY <1>3 DEF Call, OwnRequests
  <2>2. Spend(FALSE) /\ Begin(NoMethod, r, suppress, TRUE)
    BY <1>3 DEF Call
  <2>3. work' \in 0..MaxWork
    BY <2>2, SpendType DEF TypeInv, SessionInv
  <2> QED
    BY <2>1, <2>2, <2>3, BeginTypes
<1> QED
  BY <1>1, <1>2, <1>3

\* What call() does after it has begun.
Progress ==
  \/ own' = [own EXCEPT !.state = "waiting"]
  \/ \E outcome : Finish(outcome)

LEMMA ReadSettingsCases ==
  ASSUME NEW p, ReadSettings(p)
  PROVE  /\ \E outcome : Finish(outcome)
         /\ cp' = cp \/ cp' = [cp EXCEPT !.meterValueSampleInterval = 10]
<1>1. CASE "configuration_key" \notin p.objects["top"]
  BY <1>1 DEF ReadSettings
<1>2. CASE "configuration_key" \in p.objects["top"] /\ p.value = Unset
  BY <1>2 DEF ReadSettings
<1>3. CASE "configuration_key" \in p.objects["top"] /\ p.value = Reported("ten")
  BY <1>3 DEF ReadSettings
<1>4. CASE "configuration_key" \in p.objects["top"]
           /\ p.value \notin {Unset, Reported("ten")}
  BY <1>4 DEF ReadSettings
<1> QED
  BY <1>1, <1>2, <1>3, <1>4

LEMMA CheckReplyCases ==
  ASSUME CheckReply
  PROVE  /\ \E outcome : Finish(outcome)
         /\ cp' = cp \/ cp' = [cp EXCEPT !.meterValueSampleInterval = 10]
<1>1. CASE own.reply.type = "CallError"
  BY <1>1 DEF CheckReply
<1>2. CASE own.reply.type # "CallError"
  <2> DEFINE p == ToSnakeCase(own.reply.payload)
             made == Construct(own.request.class, p)
  <2>1. PICK verdict \in ValidatePayload("CallResult", Action_(own), own.reply.payload) :
          IF verdict # "valid" THEN Finish(verdict) /\ UNCHANGED cp
          ELSE IF made # "constructed" THEN Finish(made) /\ UNCHANGED cp
          ELSE IF own.method = "get_config" THEN ReadSettings(p)
          ELSE Finish("returned") /\ UNCHANGED cp
    BY <1>2 DEF CheckReply
  <2> HIDE DEF p, made
  <2> QED
    BY <2>1, ReadSettingsCases
<1> QED
  BY <1>1, <1>2

LEMMA ProgressTypes ==
  ASSUME TypeInv, ValidateOwn \/ Timeout \/ CheckReply
  PROVE  TypeInv'
<1> USE DEF TypeInv
<1>1. UNCHANGED <<open, inbox, stage, msg, response, tasks, work>>
  BY DEF ValidateOwn, Timeout, CheckReply, loopVars
<1>2. own.state # "idle"
  BY DEF ValidateOwn, Timeout, CheckReply
<1>3. /\ Progress
      /\ cp' = cp \/ cp' = [cp EXCEPT !.meterValueSampleInterval = 10]
  <2>1. CASE ValidateOwn
    BY <2>1 DEF ValidateOwn, Progress
  <2>2. CASE Timeout
    BY <2>2 DEF Timeout, Progress
  <2>3. CASE CheckReply
    BY <2>3, CheckReplyCases DEF Progress
  <2> QED
    BY <2>1, <2>2, <2>3
<1>4. IsChargePoint(cp')
  BY <1>3 DEF IsChargePoint
<1>5. CallInv'
  BY <1>1, <1>2, <1>3 DEF CallInv, Progress, Finish, OwnFields, CallStates
<1> QED
  BY <1>1, <1>4, <1>5 DEF SessionInv, StageInv

LEMMA NextTypes == TypeInv /\ [Next]_vars => TypeInv'
<1> SUFFICES ASSUME TypeInv, [Next]_vars
             PROVE  TypeInv'
  OBVIOUS
<1>1. ASSUME NEW f \in Frames, Arrive(f)
      PROVE  TypeInv'
  BY <1>1, ArriveTypes
<1>2. CASE own.state \in {"waiting", "done"}
           /\ \E r \in IF own.alone THEN Replies(Action_(own))
                       ELSE CommonReplies(Action_(own)) : Reply(r)
  BY <1>2, ReplyTypes DEF RepliesTo
<1>3. CASE Close
  BY <1>3 DEF Close, loopVars, TypeInv, SessionInv, StageInv, CallInv
<1>4. CASE Loop
  BY <1>4, ReceiveTypes, ValidateRequestTypes, ValidateResponseTypes,
     SendResponseTypes, ReceiveClosedTypes DEF Loop
<1>5. CASE \/ \E t \in DOMAIN Methods : StartTask(t)
           \/ \E m \in DOMAIN Methods, alone \in BOOLEAN : CallMethod(m, alone)
           \/ \E r \in Instances, suppress \in BOOLEAN : Call(r, suppress)
  BY <1>5, CallTypes
<1>6. CASE ValidateOwn \/ Timeout \/ CheckReply
  BY <1>6, ProgressTypes
<1>7. CASE UNCHANGED vars
  BY <1>7 DEF vars, loopVars, TypeInv, SessionInv, StageInv, CallInv
<1> QED
  BY <1>1, <1>2, <1>3, <1>4, <1>5, <1>6, <1>7 DEF Next, MayBegin, MayReply

LEMMA TypesHold == Spec => []TypeInv
BY InitTypes, NextTypes, PTL DEF Spec

LEMMA TypeInvIsTypeOK == TypeInv => TypeOK
<1> SUFFICES ASSUME TypeInv
             PROVE  TypeOK
  OBVIOUS
<1> USE DEF TypeInv
<1>1. stage \in {"validating", "responding", "sending"} => msg.type = "Call"
  BY RequestsComeIn DEF StageInv
<1>2. \A c \in DOMAIN cp.connector :
        /\ DOMAIN cp.connector[c].reading = Readings
        /\ cp.connector[c].is_charing \in BOOLEAN
  BY ConnectorFields DEF IsChargePoint
<1>3. 1 \in DOMAIN cp.connector /\ DOMAIN cp.connector \subseteq Connectors \ {0}
  BY DEF IsChargePoint
<1> QED
  BY <1>1, <1>2, <1>3 DEF TypeOK, SessionInv, StageInv, CallInv, Stages, CallStates

(* Type correctness of start(), route_message(), _handle_call() and the      *)
(* handlers, whatever the samples and however many the frames: a request is  *)
(* in hand whenever the loop validates or answers one, and a ChargePoint has *)
(* connector 1 and those that requests have named, and never a connector 0.  *)
THEOREM TypeCorrect == Spec => []TypeOK
BY TypesHold, TypeInvIsTypeOK, PTL

-----------------------------------------------------------------------------
(* Meter values.                                                           *)

\* Only one step invokes a handler.
LEMMA HandlerInvoked ==
  ASSUME TypeInv, [Next]_vars, stage = "validating", stage' = "responding"
  PROVE  ValidateRequest
<1>1. ASSUME NEW f \in Frames, Arrive(f)
      PROVE  FALSE
  BY <1>1 DEF Arrive
<1>2. ASSUME NEW r, Reply(r)
      PROVE  FALSE
  BY <1>2 DEF Reply
<1>3. CASE Loop
  <2>1. ~Receive /\ ~ValidateResponse /\ ~SendResponse /\ ~ReceiveClosed
    BY DEF Receive, ValidateResponse, SendResponse, ReceiveClosed
  <2> QED
    BY <1>3, <2>1 DEF Loop
<1>4. CASE \/ \E t \in DOMAIN Methods : StartTask(t)
           \/ \E m \in DOMAIN Methods, alone \in BOOLEAN : CallMethod(m, alone)
           \/ \E r \in Instances, suppress \in BOOLEAN : Call(r, suppress)
  BY <1>4 DEF StartTask, CallMethod, Call, Begin, loopVars
<1>5. CASE Close \/ ValidateOwn \/ Timeout \/ CheckReply
  BY <1>5 DEF Close, ValidateOwn, Timeout, CheckReply, loopVars
<1>6. CASE UNCHANGED vars
  BY <1>6 DEF vars, loopVars
<1> QED
  BY <1>1, <1>2, <1>3, <1>4, <1>5, <1>6 DEF Next

LEMMA MeterStep ==
  ASSUME TypeInv, [Next]_vars, stage = "validating", msg.action = "MeterValues",
         stage' = "responding"
  PROVE  LET c == Measured(msg.args.connector)
         IN  /\ DOMAIN cp'.connector = DOMAIN cp.connector \union {c}
             /\ cp'.connector[c].reading = Expected(ReadingsOf(c), msg.args.samples)
             /\ \A other \in DOMAIN cp.connector \ {c} :
                  cp'.connector[other] = cp.connector[other]
<1> DEFINE c == Measured(msg.args.connector)
<1>1. ValidateRequest
  BY HandlerInvoked
<1>2. cp' = Handle(cp, msg.action, msg.args)
  BY <1>1, ValidateRequestCases DEF ValidatedRequest, Refused, Invoked
<1>3. cp' = OnMeterValues(cp, msg.args)
  BY <1>2 DEF Handle
<1>4. GoodArgs("MeterValues", msg.args) /\ IsChargePoint(cp)
  BY RequestsComeIn DEF TypeInv, StageInv
<1>5. c = ConnectorId(msg.args.connector)
  BY DEF Measured, ConnectorId
<1> HIDE DEF c
<1>6. /\ DOMAIN cp'.connector = DOMAIN cp.connector \union {c}
      /\ cp'.connector[c].reading
           = Expected(GetConnector(cp, msg.args.connector).reading, msg.args.samples)
      /\ \A other \in DOMAIN cp.connector \ {c} :
           cp'.connector[other] = cp.connector[other]
  BY <1>3, <1>4, <1>5, MeterValuesAre
<1>7. GetConnector(cp, msg.args.connector).reading = ReadingsOf(c)
  BY <1>5, NewConnectorIs DEF GetConnector, ReadingsOf
<1> QED
  BY <1>6, <1>7 DEF c

(* Whatever samples the station sends, in whatever order, whichever of them  *)
(* float() rejects, and by whatever number it names the connector:           *)
(* on_MeterValues() leaves each reading at the last sample of its kind before *)
(* the first unreadable one, recomputes the current of a DC charger from its *)
(* power, never divides by zero, and touches one connector only, which is    *)
(* connector 1 if the station has sent the readings of connector 0.          *)
THEOREM ReadingsFollowSamples == Spec => MeterReadings
<1>1. TypeInv /\ [Next]_vars
        => [stage = "validating" /\ msg.action = "MeterValues" /\ stage' = "responding"
              => LET c == Measured(msg.args.connector)
                 IN  /\ DOMAIN cp'.connector = DOMAIN cp.connector \union {c}
                     /\ cp'.connector[c].reading
                          = Expected(ReadingsOf(c), msg.args.samples)
                     /\ \A other \in DOMAIN cp.connector \ {c} :
                          cp'.connector[other] = cp.connector[other]]_vars
  BY MeterStep
<1> QED
  BY <1>1, TypesHold, PTL DEF Spec, MeterReadings

-----------------------------------------------------------------------------
(* The promise to the station.                                             *)

IdsOf == [m \in Incoming |-> IF m.type = "Call" THEN <<m.id>> ELSE <<>>]

LEMMA IdsOfType == IdsOf \in [Incoming -> Seq(1..MaxWork)]
<1>1. ASSUME NEW m \in Incoming, m.type = "Call"
      PROVE  <<m.id>> \in Seq(1..MaxWork)
  <2>1. m.id \in 1..MaxWork
    BY <1>1, IncomingMessages DEF UnpackError
  <2> QED
    BY <2>1
<1>2. <<>> \in Seq(1..MaxWork)
  BY EmptySeq
<1> QED
  BY <1>1, <1>2 DEF IdsOf

LEMMA RequestIdsAre ==
  ASSUME NEW q \in Seq(Incoming)
  PROVE  /\ RequestIds(q) = FlatMap(IdsOf, q)
         /\ RequestIds(q) \in Seq(1..MaxWork)
<1>1. \A i \in DOMAIN q : q[i] \in Incoming
  BY LenProperties, ElementOfSeq
<1>2. [i \in DOMAIN q |-> IF q[i].type = "Call" THEN <<q[i].id>> ELSE <<>>]
        = [i \in DOMAIN q |-> IdsOf[q[i]]]
  BY <1>1 DEF IdsOf
<1>3. RequestIds(q) = FlatMap(IdsOf, q)
  BY <1>2, Zenon DEF RequestIds, FlatMap
<1> QED
  BY <1>3, IdsOfType, FlatMapType

LEMMA RequestIdsEmpty == RequestIds(<<>>) = <<>>
BY RequestIdsAre, FlatMapEmpty, EmptySeq

LEMMA RequestIdsAppend ==
  ASSUME NEW q \in Seq(Incoming), NEW m \in Incoming
  PROVE  RequestIds(Append(q, m)) = IF m.type = "Call" THEN Append(RequestIds(q), m.id)
                                    ELSE RequestIds(q)
<1> DEFINE ids == RequestIds(q)
<1>1. Append(q, m) \in Seq(Incoming)
  BY AppendProperties
<1>2. RequestIds(Append(q, m)) = ids \o IdsOf[m] /\ ids \in Seq(1..MaxWork)
  BY <1>1, RequestIdsAre, IdsOfType, FlatMapAppend
<1> HIDE DEF ids
<1>3. CASE m.type = "Call"
  <2>1. IdsOf[m] = <<m.id>> /\ m.id \in 1..MaxWork
    BY <1>3, IncomingMessages DEF IdsOf, UnpackError
  <2>2. ids \o <<m.id>> = Append(ids, m.id)
    BY <1>2, <2>1, AppendIsConcat
  <2> QED
    BY <1>2, <1>3, <2>1, <2>2 DEF ids
<1>4. CASE m.type # "Call"
  <2>1. IdsOf[m] = <<>>
    BY <1>4 DEF IdsOf
  <2>2. ids \o <<>> = ids
    BY <1>2, ConcatEmptySeq
  <2> QED
    BY <1>2, <1>4, <2>1, <2>2 DEF ids
<1> QED
  BY <1>3, <1>4

LEMMA RequestIdsTail ==
  ASSUME NEW q \in Seq(Incoming), q # <<>>
  PROVE  RequestIds(q) = (IF Head(q).type = "Call" THEN <<Head(q).id>> ELSE <<>>)
                           \o RequestIds(Tail(q))
<1>1. Head(q) \in Incoming /\ Tail(q) \in Seq(Incoming)
  BY HeadTailProperties
<1>2. RequestIds(q) = IdsOf[Head(q)] \o RequestIds(Tail(q))
  BY <1>1, RequestIdsAre, IdsOfType, FlatMapTail
<1>3. IdsOf[Head(q)] = IF Head(q).type = "Call" THEN <<Head(q).id>> ELSE <<>>
  BY <1>1 DEF IdsOf
<1> QED
  BY <1>2, <1>3, Zenon

\* The request in hand, if any, is the first that waits.
InHand == IF msg = NoMessage THEN <<>> ELSE <<msg.id>>

LEMMA WaitingIs ==
  ASSUME TypeInv
  PROVE  /\ Waiting = InHand \o RequestIds(inbox)
         /\ InHand \in Seq(1..MaxWork) /\ RequestIds(inbox) \in Seq(1..MaxWork)
         /\ Waiting \in Seq(1..MaxWork)
<1>1. RequestIds(inbox) \in Seq(1..MaxWork)
  BY RequestIdsAre DEF TypeInv, SessionInv
<1>2. InHand \in Seq(1..MaxWork)
  <2>1. CASE msg = NoMessage
    BY <2>1, EmptySeq DEF InHand
  <2>2. CASE msg # NoMessage
    <3>1. msg.id \in 1..MaxWork
      BY <2>2, RequestsComeIn DEF TypeInv, StageInv
    <3> QED
      BY <2>2, <3>1 DEF InHand
  <2> QED
    BY <2>1, <2>2
<1>3. Waiting = InHand \o RequestIds(inbox)
  BY DEF Waiting, InHand
<1> QED
  BY <1>1, <1>2, <1>3, ConcatProperties

\* What a step may do to the requests that wait and to the answers.
Asked ==
  /\ Waiting' = Append(Waiting, work + 1) /\ work + 1 \in 1..MaxWork
  /\ work' >= work + 1 /\ UNCHANGED <<answered, stage>>
Answered ==
  /\ ~Over /\ ~Over' /\ Waiting # <<>> /\ work' = work
  /\ answered' = Append(answered, Head(Waiting)) /\ Waiting' = Tail(Waiting)
Ended == ~Over /\ Over' /\ work' = work /\ UNCHANGED <<Waiting, answered>>
Silent == Over' = Over /\ work' >= work /\ UNCHANGED <<Waiting, answered>>

LEMMA SpendCounts ==
  ASSUME TypeInv, NEW common, Spend(common)
  PROVE  work + 1 \in 1..MaxWork /\ work' >= work + 1 /\ work' >= work
BY BoundsAssumption DEF Spend, TypeInv, SessionInv

LEMMA ArriveAsks ==
  ASSUME TypeInv, NEW f \in Frames, Arrive(f)
  PROVE  Asked \/ Silent
<1> DEFINE m == [f EXCEPT !.id = work + 1]
           ids == RequestIds(inbox)
<1>1. work + 1 \in 1..MaxWork /\ work' >= work + 1 /\ work' >= work
  BY SpendCounts DEF Arrive
<1>2. m \in Incoming /\ inbox \in Seq(Incoming)
  BY <1>1 DEF Incoming, TypeInv, SessionInv
<1>3. inbox' = Append(inbox, m) /\ UNCHANGED <<stage, msg, answered>>
  BY DEF Arrive
<1>4. Waiting' = InHand \o RequestIds(inbox')
  BY <1>3 DEF Waiting, InHand
<1>5. /\ Waiting = InHand \o ids
      /\ InHand \in Seq(1..MaxWork) /\ ids \in Seq(1..MaxWork)
  BY WaitingIs
<1>6. m.type = "Call" => m.id = work + 1
  <2>1. CASE f.type = "Call"
    <3>1. f = Ask(f.action, f.payload, f.args)
      BY <2>1, RequestFrames DEF UnpackError
    <3> QED
      BY <3>1 DEF Ask
  <2>2. CASE f \in Malformed
    BY <2>2 DEF Malformed, UnpackError
  <2> QED
    BY <2>1, <2>2, RequestFrames
<1> HIDE DEF m, ids
<1>7. CASE m.type = "Call"
  <2> DEFINE new == <<work + 1>>
  <2>1. RequestIds(inbox') = Append(ids, work + 1)
    BY <1>2, <1>3, <1>6, <1>7, RequestIdsAppend DEF ids
  <2>2. Append(ids, work + 1) = ids \o new /\ new \in Seq(1..MaxWork)
        /\ Append(Waiting, work + 1) = Waiting \o new
    BY <1>1, <1>5, AppendIsConcat, WaitingIs
  <2> HIDE DEF new
  <2>3. \A a, b, c \in Seq(1..MaxWork) : a \o (b \o c) = (a \o b) \o c
    BY ConcatAssociative, SMTT(30)
  <2>4. InHand \o (ids \o new) = (InHand \o ids) \o new
    BY <1>5, <2>2, <2>3, Zenon
  <2>5. Waiting' = Append(Waiting, work + 1)
    BY <1>4, <1>5, <2>1, <2>2, <2>4, Zenon
  <2> QED
    BY <1>1, <1>3, <2>5 DEF Asked
<1>8. CASE m.type # "Call"
  <2>1. RequestIds(inbox') = ids
    BY <1>2, <1>3, <1>8, RequestIdsAppend DEF ids
  <2>2. Waiting' = Waiting
    BY <1>4, <1>5, <2>1, Zenon
  <2> QED
    BY <1>1, <1>3, <2>2 DEF Silent, Over, TypeInv, SessionInv
<1> QED
  BY <1>7, <1>8

LEMMA ReplyIsSilent ==
  ASSUME TypeInv, NEW r \in RepliesTo(Action_(own)), Reply(r)
  PROVE  Silent
<1> DEFINE m == [r EXCEPT !.id = own.id]
<1>1. own.id \in Nat /\ own.request \in OwnRequests /\ inbox \in Seq(Incoming)
  BY DEF Reply, TypeInv, CallInv, SessionInv
<1>2. m \in Incoming
  BY <1>1 DEF Incoming, Action_
<1>3. m.type # "Call"
  BY DEF RepliesTo, Replies, CommonReplies
<1>4. /\ inbox' = Append(inbox, m)
      /\ UNCHANGED <<stage, msg, answered, work>>
  BY DEF Reply
<1> HIDE DEF m
<1>5. RequestIds(inbox') = RequestIds(inbox)
  BY <1>1, <1>2, <1>3, <1>4, RequestIdsAppend
<1>6. Waiting' = Waiting
  BY <1>4, <1>5 DEF Waiting
<1> QED
  BY <1>4, <1>6 DEF Silent, Over, TypeInv, SessionInv

LEMMA ReceiveWaits ==
  ASSUME TypeInv, Receive
  PROVE  Silent \/ Ended
<1> DEFINE m == Head(inbox)
<1>1. /\ stage = "recv" /\ inbox # <<>> /\ inbox' = Tail(inbox) /\ m \in Incoming
      /\ UNCHANGED <<answered, tasks, work>> /\ inbox' \in Seq(Incoming)
      /\ inbox \in Seq(Incoming)
      /\ Ignored(m) \/ Taken(m) \/ Handled(m)
  BY ReceiveCases DEF TypeInv, SessionInv
<1>2. RequestIds(inbox) = (IF m.type = "Call" THEN <<m.id>> ELSE <<>>)
                            \o RequestIds(inbox')
  BY <1>1, RequestIdsTail
<1>3. /\ RequestIds(inbox) \in Seq(1..MaxWork)
      /\ RequestIds(inbox') \in Seq(1..MaxWork)
  BY <1>1, RequestIdsAre
<1>4. msg = NoMessage
  BY <1>1 DEF TypeInv, StageInv
<1>5. Waiting = RequestIds(inbox)
  BY <1>3, <1>4, ConcatEmptySeq DEF Waiting
<1> HIDE DEF m
<1>6. CASE Ignored(m) \/ Taken(m)
  <2>1. m.type # "Call" /\ UNCHANGED <<stage, msg>>
    BY <1>6 DEF Ignored, Taken
  <2>2. RequestIds(inbox) = RequestIds(inbox')
    BY <1>2, <1>3, <2>1, ConcatEmptySeq
  <2>3. Waiting' = Waiting
    BY <2>1, <2>2 DEF Waiting
  <2> QED
    BY <1>1, <2>1, <2>3 DEF Silent, Over, TypeInv, SessionInv
<1>7. CASE Handled(m)
  <2>1. msg' = m /\ m # NoMessage /\ m.type = "Call"
    BY <1>7, RequestsComeIn DEF Handled, Fail, Route
  <2>2. Waiting' = <<m.id>> \o RequestIds(inbox')
    BY <2>1 DEF Waiting
  <2>3. Waiting' = Waiting
    BY <1>2, <1>5, <2>1, <2>2, Zenon
  <2>4. CASE Fail(m)
    BY <1>1, <2>3, <2>4 DEF Fail, Ended, Over
  <2>5. CASE Route(m)
    <3>1. stage' \in {"validating", "sending"}
      BY <2>5 DEF Route
    <3> QED
      BY <1>1, <2>3, <3>1 DEF Silent, Over, TypeInv, SessionInv
  <2> QED
    BY <1>7, <2>4, <2>5 DEF Handled
<1> QED
  BY <1>1, <1>6, <1>7

LEMMA SendResponseAnswers ==
  ASSUME TypeInv, SendResponse
  PROVE  Answered \/ Ended
<1>1. UNCHANGED <<inbox, work>> /\ stage = "sending"
  BY DEF SendResponse
<1>2. msg \in IncomingRequests /\ inbox \in Seq(Incoming)
  BY <1>1 DEF TypeInv, StageInv, SessionInv
<1>3. msg # NoMessage /\ msg.id \in 1..MaxWork
  BY <1>2, RequestsComeIn
<1> DEFINE id == msg.id
           ids == RequestIds(inbox)
<1>4. Waiting = <<id>> \o ids /\ ids \in Seq(1..MaxWork)
  BY <1>2, <1>3, RequestIdsAre DEF Waiting
<1>5. CASE open
  <2>1. answered' = Append(answered, id) /\ stage' = "recv" /\ msg' = NoMessage
    BY <1>5 DEF SendResponse
  <2>2. Waiting' = <<>> \o ids
    BY <1>1, <2>1 DEF Waiting
  <2>3. Waiting' = ids
    BY <1>4, <2>2, ConcatEmptySeq
  <2> HIDE DEF id, ids
  <2>4. id \in 1..MaxWork
    BY <1>3 DEF id
  <2>5. /\ <<id>> \o ids # <<>>
        /\ Head(<<id>> \o ids) = id /\ Tail(<<id>> \o ids) = ids
    BY <1>4, <2>4
  <2>6. Waiting # <<>> /\ Head(Waiting) = id /\ Tail(Waiting) = ids
    BY <1>4, <2>5, Zenon
  <2> QED
    BY <1>1, <2>1, <2>3, <2>6 DEF Answered, Over
<1>6. CASE ~open
  <2>1. stage' = "ended" /\ UNCHANGED <<answered, msg>>
    BY <1>6 DEF SendResponse, EndSession
  <2>2. Waiting' = Waiting
    BY <1>1, <2>1 DEF Waiting
  <2> QED
    BY <1>1, <2>1, <2>2 DEF Ended, Over
<1> QED
  BY <1>5, <1>6 DEF TypeInv, SessionInv

LEMMA StepsPromised ==
  ASSUME TypeInv, [Next]_vars
  PROVE  Asked \/ Answered \/ Ended \/ Silent
<1>0. work \in Nat
  BY BoundsAssumption DEF TypeInv, SessionInv
<1>1. ASSUME NEW f \in Frames, Arrive(f)
      PROVE  Asked \/ Silent
  BY <1>1, ArriveAsks
<1>2. CASE own.state \in {"waiting", "done"}
           /\ \E r \in IF own.alone THEN Replies(Action_(own))
                       ELSE CommonReplies(Action_(own)) : Reply(r)
  BY <1>2, ReplyIsSilent DEF RepliesTo
<1>3. ASSUME UNCHANGED <<inbox, stage, msg, answered>>, work' >= work
      PROVE  Silent
  BY <1>3 DEF Silent, Over, Waiting
<1>4. CASE Close \/ ValidateOwn \/ Timeout \/ CheckReply \/ UNCHANGED vars
  BY <1>0, <1>3, <1>4 DEF Close, ValidateOwn, Timeout, CheckReply, loopVars, vars
<1>5. CASE \/ \E t \in DOMAIN Methods : StartTask(t)
           \/ \E m \in DOMAIN Methods, alone \in BOOLEAN : CallMethod(m, alone)
           \/ \E r \in Instances, suppress \in BOOLEAN : Call(r, suppress)
  <2>1. UNCHANGED <<inbox, stage, msg, answered>>
    BY <1>5 DEF StartTask, CallMethod, Call, Begin, loopVars
  <2>2. work' >= work
    <3>1. ASSUME NEW common, Spend(common)
          PROVE  work' >= work
      BY <3>1, SpendCounts
    <3>2. (\E common : Spend(common)) \/ work' = work
      BY <1>5 DEF StartTask, CallMethod, Call
    <3> QED
      BY <1>0, <3>1, <3>2
  <2> QED
    BY <1>3, <2>1, <2>2
<1>6. CASE Loop
  <2>1. CASE Receive
    BY <2>1, ReceiveWaits
  <2>2. CASE ValidateRequest
    <3>1. /\ stage = "validating" /\ UNCHANGED <<inbox, msg, answered, work>>
          /\ stage' \in {"sending", "responding"}
      BY <2>2, ValidateRequestCases DEF ValidateRequest, ValidatedRequest,
         Refused, Invoked
    <3> QED
      BY <1>0, <3>1 DEF Silent, Over, Waiting
  <2>3. CASE ValidateResponse
    BY <1>0, <2>3 DEF ValidateResponse, Silent, Over, Waiting
  <2>4. CASE SendResponse
    BY <2>4, SendResponseAnswers
  <2>5. CASE ReceiveClosed
    BY <2>5 DEF ReceiveClosed, EndSession, Ended, Over, Waiting
  <2> QED
    BY <1>6, <2>1, <2>2, <2>3, <2>4, <2>5 DEF Loop
<1> QED
  BY <1>1, <1>2, <1>4, <1>5, <1>6 DEF Next, MayBegin, MayReply

\* The next request gets an id that none has had.
FreshInv ==
  /\ answered \in Seq(1..MaxWork)
  /\ \A i \in DOMAIN Waiting : Waiting[i] <= work
  /\ \A i \in DOMAIN answered : answered[i] <= work

LEMMA FreshStep ==
  ASSUME TypeInv, FreshInv, [Next]_vars
  PROVE  FreshInv'
<1>1. /\ Waiting \in Seq(1..MaxWork) /\ answered \in Seq(1..MaxWork)
      /\ work \in Nat /\ work' \in Nat
      /\ \A i \in DOMAIN Waiting : Waiting[i] <= work
      /\ \A i \in DOMAIN answered : answered[i] <= work
  <2>1. TypeInv'
    BY NextTypes
  <2> QED
    BY <2>1, WaitingIs, BoundsAssumption DEF FreshInv, TypeInv, SessionInv
<1> DEFINE w == Waiting
           a == answered
<1>2. /\ Len(w) \in Nat /\ DOMAIN w = 1..Len(w) /\ \A i \in 1..Len(w) : w[i] \in 1..MaxWork
      /\ Len(a) \in Nat /\ DOMAIN a = 1..Len(a) /\ \A i \in 1..Len(a) : a[i] \in 1..MaxWork
  BY <1>1, LenProperties, ElementOfSeq
<1>3. CASE Asked
  <2> DEFINE v == Append(w, work + 1)
  <2>1. v \in Seq(1..MaxWork) /\ Len(v) = Len(w) + 1 /\ DOMAIN v = 1..Len(v)
        /\ v[Len(w) + 1] = work + 1 /\ \A i \in 1..Len(w) : v[i] = w[i]
    BY <1>1, <1>3, AppendProperties, LenProperties DEF Asked
  <2> HIDE DEF v, w, a
  <2> DEFINE k == Len(w)
  <2>2. ASSUME NEW i \in DOMAIN v
        PROVE  v[i] <= work'
    <3>1. k \in Nat /\ i \in 1..(k + 1)
      BY <1>2, <2>1 DEF w
    <3>2. CASE i \in 1..k
      <4>1. v[i] = w[i] /\ w[i] \in 1..MaxWork /\ w[i] <= work /\ work <= work'
        BY <1>1, <1>2, <1>3, <2>1, <3>2 DEF Asked, w
      <4> HIDE DEF k
      <4> QED
        BY <1>1, <4>1
    <3>3. CASE i = k + 1
      <4>1. v[i] = work + 1 /\ work' >= work + 1
        BY <1>3, <2>1, <3>3 DEF Asked
      <4> QED
        BY <1>1, <4>1
    <3> HIDE DEF k
    <3> QED
      BY <3>1, <3>2, <3>3
  <2>3. Waiting' = v /\ answered' = answered /\ work' >= work
    BY <1>1, <1>3 DEF Asked, v, w
  <2>4. \A i \in DOMAIN answered : answered[i] <= work'
    BY <1>1, <1>2, <2>3 DEF a
  <2> QED
    BY <1>1, <2>2, <2>3, <2>4 DEF FreshInv
<1>4. CASE Answered
  <2> DEFINE h == Head(w)
             t == Tail(w)
             b == Append(a, h)
  <2>1. w # <<>> /\ Waiting' = t /\ answered' = b /\ work' = work
    BY <1>4 DEF Answered
  <2>2. /\ h = w[1] /\ Len(w) >= 1 /\ t \in Seq(1..MaxWork)
        /\ Len(t) = Len(w) - 1 /\ DOMAIN t = 1..Len(t)
        /\ \A i \in 1..Len(t) : t[i] = w[i + 1]
    BY <1>1, <1>2, <2>1, HeadTailProperties, EmptySeq, LenProperties
  <2>3. h \in 1..MaxWork /\ h <= work
    BY <1>1, <1>2, <2>2
  <2> HIDE DEF h
  <2>4. b \in Seq(1..MaxWork) /\ Len(b) = Len(a) + 1 /\ DOMAIN b = 1..Len(b)
        /\ b[Len(a) + 1] = h /\ \A i \in 1..Len(a) : b[i] = a[i]
    BY <1>1, <2>3, AppendProperties, LenProperties
  <2> HIDE DEF t, b, w, a
  <2>5. ASSUME NEW i \in DOMAIN t
        PROVE  t[i] <= work'
    <3>1. t[i] = w[i + 1] /\ i + 1 \in 1..Len(w)
      BY <1>2, <2>2
    <3>2. w[i + 1] <= work
      BY <1>1, <1>2, <3>1 DEF w
    <3> QED
      BY <2>1, <3>1, <3>2
  <2>6. \A i \in DOMAIN b : b[i] <= work'
    BY <1>1, <1>2, <2>1, <2>3, <2>4, SMTT(30) DEF a
  <2> QED
    BY <2>1, <2>4, <2>5, <2>6 DEF FreshInv
<1>5. CASE Ended \/ Silent
  <2>1. Waiting' = Waiting /\ answered' = answered /\ work' >= work
    BY <1>1, <1>5 DEF Ended, Silent
  <2> QED
    BY <1>1, <1>2, <2>1 DEF FreshInv
<1> QED
  BY <1>3, <1>4, <1>5, StepsPromised

LEMMA FreshInit == Init => FreshInv /\ Promised!Init
<1> SUFFICES ASSUME Init
             PROVE  FreshInv /\ Promised!Init
  OBVIOUS
<1>1. inbox = <<>> /\ msg = NoMessage /\ answered = <<>> /\ stage = "recv"
  BY DEF Init
<1>2. RequestIds(inbox) = <<>>
  BY <1>1, RequestIdsEmpty
<1>3. Waiting = <<>> \o <<>>
  BY <1>1, <1>2 DEF Waiting
<1>4. Waiting = <<>>
  BY <1>3
<1>5. (~Over) = TRUE
  BY <1>1 DEF Over
<1>6. FreshInv
  BY <1>1, <1>4, EmptySeq DEF FreshInv
<1> QED
  BY <1>1, <1>4, <1>5, <1>6 DEF Promised!Init

LEMMA PromiseStep ==
  ASSUME TypeInv, FreshInv, [Next]_vars
  PROVE  [Promised!Next]_Promised!responderVars
<1>1. CASE Asked
  <2>1. \A i \in DOMAIN Waiting : Waiting[i] # work + 1
    BY BoundsAssumption, WaitingIs, LenProperties, ElementOfSeq
       DEF FreshInv, TypeInv, SessionInv
  <2>2. \A i \in DOMAIN answered : answered[i] # work + 1
    BY BoundsAssumption, LenProperties, ElementOfSeq
       DEF FreshInv, TypeInv, SessionInv
  <2>3. work + 1 \notin Promised!Members(Waiting) \union Promised!Members(answered)
    BY <2>1, <2>2 DEF Promised!Members
  <2>4. (~Over)' = ~Over
    BY <1>1 DEF Asked, Over
  <2>5. Promised!Ask(work + 1)
    BY <1>1, <2>3, <2>4 DEF Promised!Ask, Asked
  <2> QED
    BY <1>1, <2>5 DEF Promised!Next, Asked
<1>2. CASE Answered
  <2>1. (~Over) = TRUE /\ (~Over)' = ~Over
    BY <1>2 DEF Answered, Over
  <2>2. Promised!Answer
    BY <1>2, <2>1 DEF Promised!Answer, Answered
  <2> QED
    BY <2>2 DEF Promised!Next
<1>3. CASE Ended
  <2>1. (~Over) = TRUE /\ (~Over)' = FALSE
    BY <1>3 DEF Ended, Over
  <2>2. Promised!End
    BY <1>3, <2>1 DEF Promised!End, Ended
  <2> QED
    BY <2>2 DEF Promised!Next
<1>4. CASE Silent
  <2>1. (~Over)' = ~Over
    BY <1>4 DEF Silent, Over
  <2> QED
    BY <1>4, <2>1 DEF Silent, Promised!responderVars
<1> QED
  BY <1>1, <1>2, <1>3, <1>4, StepsPromised

(* The receive loop with its handlers answers each request once, in the      *)
(* order in which the requests came, and none that has not come: an error, a *)
(* request without handler, a reply in between or a call in progress neither *)
(* drops nor duplicates nor overtakes one.                                   *)
THEOREM LoopAnswersInOrder == Spec => AnswersInOrder
<1>1. Init => FreshInv /\ Promised!Init
  BY FreshInit
<1>2. TypeInv /\ TypeInv' /\ FreshInv /\ [Next]_vars => FreshInv'
  BY FreshStep
<1>3. TypeInv /\ FreshInv /\ [Next]_vars => [Promised!Next]_Promised!responderVars
  BY PromiseStep
<1> QED
  BY <1>1, <1>2, <1>3, TypesHold, PTL DEF Spec, AnswersInOrder, Promised!Safety

-----------------------------------------------------------------------------
(* Payloads and validation.                                                *)

\* What every payload of a station has: an object "top", and a value at the top
\* only where the schema lists some.
Shaped(type, action, p) ==
  \E objects, value, flaw :
    /\ p = Payload(objects, value, flaw) /\ "top" \in DOMAIN objects
    /\ value # NoValue /\ value[1] = "top"
         => value[2] \in DOMAIN Enumerated(type, action, "top")

LEMMA AsDictHasTop ==
  ASSUME NEW class, NEW types, NEW extent
  PROVE  "top" \in DOMAIN AsDict(class, types, extent)
BY DEF AsDict

LEMMA AdmittedShaped ==
  ASSUME NEW type, NEW action
  PROVE  /\ Admitted(type, action) # {}
         /\ \A p \in Admitted(type, action) : Shaped(type, action, p)
<1> DEFINE objects(extent) == AsDict(Schema(type)[action], ObjectSchema, extent)
           listed(o) == Enumerated(type, action, o)
           places(extent) == {q \in (DOMAIN objects(extent)) \X SchemaKeys :
                                /\ q[2] \in objects(extent)[q[1]]
                                /\ q[2] \in DOMAIN listed(q[1])}
           values(extent) == UNION {{<<at[1], at[2], v>> : v \in listed(at[1])[at[2]]} :
                                      at \in places(extent)}
<1>1. Admitted(type, action)
        = UNION {{Payload(objects(extent), v, "none") :
                    v \in {NoValue} \union values(extent)} : extent \in {"least", "full"}}
  BY DEF Admitted
<1> HIDE DEF objects
<1>2. ASSUME NEW extent, NEW v \in values(extent)
      PROVE  v[1] = "top" => v[2] \in DOMAIN listed("top")
  <2>1. PICK at \in places(extent) : \E w \in listed(at[1])[at[2]] : v = <<at[1], at[2], w>>
    BY <1>2
  <2> QED
    BY <2>1
<1> HIDE DEF values
<1>3. Payload(objects("least"), NoValue, "none") \in Admitted(type, action)
  BY <1>1
<1>4. ASSUME NEW p \in Admitted(type, action)
      PROVE  Shaped(type, action, p)
  <2>1. PICK extent \in {"least", "full"} :
          \E v \in {NoValue} \union values(extent) :
            p = Payload(objects(extent), v, "none")
    BY <1>1
  <2> PICK v \in {NoValue} \union values(extent) : p = Payload(objects(extent), v, "none")
    BY <2>1
  <2>2. "top" \in DOMAIN objects(extent)
    BY AsDictHasTop DEF objects
  <2>3. v # NoValue /\ v[1] = "top" => v[2] \in DOMAIN Enumerated(type, action, "top")
    BY <1>2
  <2> QED
    BY <2>2, <2>3 DEF Shaped
<1> QED
  BY <1>3, <1>4

LEMMA FlawedShaped ==
  ASSUME NEW type, NEW action, NEW p \in Flawed(type, action)
  PROVE  Shaped(type, action, p)
<1> DEFINE s == Schema(type)[action]
           objects == AsDict(s, ObjectSchema, "full")
           with(keys) == [objects EXCEPT !["top"] = keys]
           top(keys) == Payload(with(keys), NoValue, "none")
           enumerated == DOMAIN Enumerated(type, action, "top")
<1>1. "top" \in DOMAIN objects
  BY AsDictHasTop
<1>2. p \in {Payload(objects, NoValue, f) : f \in Flaws}
            \union {top(objects["top"] \ {k}) : k \in s.required}
            \union {top(objects["top"] \union {OtherKey})}
            \union {Payload(objects, <<"top", k, "unlisted">>, "none") : k \in enumerated}
  BY DEF Flawed
<1> HIDE DEF objects
<1>3. \A keys : "top" \in DOMAIN with(keys)
  BY <1>1
<1> HIDE DEF with
<1>4. \A keys : Shaped(type, action, top(keys))
  BY <1>3 DEF Shaped
<1>5. \A f : Shaped(type, action, Payload(objects, NoValue, f))
  BY <1>1 DEF Shaped
<1>6. ASSUME NEW k \in enumerated
      PROVE  Shaped(type, action, Payload(objects, <<"top", k, "unlisted">>, "none"))
  <2> DEFINE v == <<"top", k, "unlisted">>
  <2>1. v[2] = k
    OBVIOUS
  <2> HIDE DEF v
  <2>2. Shaped(type, action, Payload(objects, v, "none"))
    BY <1>1, <2>1 DEF Shaped
  <2> QED
    BY <2>2 DEF v
<1> HIDE DEF top
<1> QED
  BY <1>2, <1>4, <1>5, <1>6

LEMMA SettingsShaped ==
  ASSUME NEW p \in Settings, NEW action
  PROVE  Shaped("CallResult", action, p)
<1> DEFINE objects == AsDict(ResultSchema["GetConfiguration"], ObjectSchema, "full")
           unset == [objects EXCEPT !["KeyValue"] = @ \ {"value"}]
           values == {Reported("10"), Reported("ten"), Named("OtherKey"), Unset}
<1>1. "top" \in DOMAIN objects
  BY AsDictHasTop
<1>2. \E v \in values : p = Payload(objects, v, "none") \/ p = Payload(unset, v, "none")
  BY DEF Settings
<1> HIDE DEF objects
<1>3. "top" \in DOMAIN unset
  BY <1>1
<1>4. \A v \in values : v[1] # "top"
  BY DEF Reported, Named, Unset
<1> HIDE DEF unset, values
<1> QED
  BY <1>1, <1>2, <1>3, <1>4 DEF Shaped

LEMMA PayloadsShaped ==
  ASSUME NEW action, NEW p \in Payloads(action)
  PROVE  Shaped("Call", action, p)
BY AdmittedShaped, FlawedShaped DEF Payloads

LEMMA RepliesPayloads ==
  ASSUME NEW action, NEW r \in RepliesTo(action), r.type = "CallResult"
  PROVE  r.payload \in Admitted("CallResult", action)
                         \union Flawed("CallResult", action) \union Settings
<1>1. CASE r \in Replies(action)
  BY <1>1 DEF Replies
<1>2. CASE r \in CommonReplies(action)
  <2>1. (CHOOSE p \in Admitted("CallResult", action) : TRUE)
          \in Admitted("CallResult", action)
    BY AdmittedShaped
  <2> QED
    BY <1>2, <2>1 DEF CommonReplies
<1> QED
  BY <1>1, <1>2 DEF RepliesTo

LEMMA RepliesShaped ==
  ASSUME NEW action, NEW r \in RepliesTo(action)
  PROVE  /\ r.type \in {"CallResult", "CallError"}
         /\ r.type = "CallResult" => Shaped("CallResult", action, r.payload)
<1>1. r.type \in {"CallResult", "CallError"}
  BY DEF RepliesTo, Replies, CommonReplies
<1> QED
  BY <1>1, RepliesPayloads, AdmittedShaped, FlawedShaped, SettingsShaped

LEMMA Verdicts ==
  ASSUME NEW type, NEW action \in DOMAIN Schema(type), NEW p
  PROVE  /\ Violations(type, action, p) = {} => ValidatePayload(type, action, p) = {"valid"}
         /\ Violations(type, action, p) # {} => "valid" \notin ValidatePayload(type, action, p)
<1>1. \A k : ErrorOf(k) # "valid"
  BY DEF ErrorOf
<1> QED
  BY <1>1 DEF ValidatePayload

\* What validation lets through, and its keys in snake_case.
LEMMA Conforming ==
  ASSUME NEW type, NEW action, NEW p, Shaped(type, action, p),
         Violations(type, action, p) = {}
  PROVE  LET s == Schema(type)[action]
             keys == p.objects["top"]
             listed == Enumerated(type, action, "top")
         IN  /\ s.required \subseteq keys
             /\ s.additional \/ keys \subseteq s.required \union s.optional
             /\ ToSnakeCase(p).objects["top"] = InSnakeCase(keys)
             /\ p.value # NoValue /\ p.value[1] = "top"
                  => /\ p.value[2] \in DOMAIN listed
                     /\ p.value[3] \in listed[p.value[2]]
<1> DEFINE s == Schema(type)[action]
           keys == p.objects["top"]
           listed == Enumerated(type, action, "top")
<1>1. PICK objects, value, flaw :
        /\ p = Payload(objects, value, flaw) /\ "top" \in DOMAIN objects
        /\ value # NoValue /\ value[1] = "top" => value[2] \in DOMAIN listed
  BY DEF Shaped
<1>2. /\ p.objects = objects /\ p.value = value
      /\ p = [objects |-> objects, value |-> value, flaw |-> flaw]
  BY <1>1 DEF Payload
<1>3. Object(type, action, "top") = s
  BY DEF Object
<1>4. s.required \subseteq keys
  BY <1>1, <1>2, <1>3 DEF Violations
<1>5. s.additional \/ keys \subseteq s.required \union s.optional
  BY <1>1, <1>2, <1>3 DEF Violations
<1>6. p.value # NoValue /\ p.value[1] = "top"
        => p.value[2] \in DOMAIN listed /\ p.value[3] \in listed[p.value[2]]
  <2>1. SUFFICES ASSUME p.value # NoValue, p.value[1] = "top"
                 PROVE  p.value[3] \in listed[p.value[2]]
    BY <1>1, <1>2
  <2>2. p.value[2] \in DOMAIN listed
    BY <1>1, <1>2, <2>1
  <2> QED
    BY <2>1, <2>2 DEF Violations
<1>7. ToSnakeCase(p).objects["top"] = InSnakeCase(keys)
  <2> DEFINE snake == [o \in DOMAIN objects |-> {SnakeKeys[k] : k \in objects[o]}]
             v == IF value = NoValue THEN value
                  ELSE <<value[1], SnakeKeys[value[2]], value[3]>>
  <2>1. ToSnakeCase(p) = [[p EXCEPT !.objects = snake] EXCEPT !.value = v]
    BY <1>2 DEF ToSnakeCase, ConvertKeys
  <2> HIDE DEF v
  <2>2. snake["top"] = {SnakeKeys[k] : k \in objects["top"]}
    BY <1>1
  <2> HIDE DEF snake
  <2>3. ToSnakeCase(p).objects = snake
    BY <1>2, <2>1
  <2> QED
    BY <1>2, <2>2, <2>3 DEF InSnakeCase
<1> QED
  BY <1>4, <1>5, <1>6, <1>7

-----------------------------------------------------------------------------
(* Valid requests.                                                         *)

ValidInv ==
  /\ stage = "responding" => Violations("Call", msg.action, msg.payload) = {}
  /\ ValidRequestsSucceed

LEMMA ValidRequestStep ==
  ASSUME HandlersFit, TypeInv, ValidateRequest
  PROVE  ValidInv'
<1> DEFINE a == msg.action
           p == msg.payload
<1>1. stage = "validating" /\ msg' = msg
  BY DEF ValidateRequest
<1>2. msg \in IncomingRequests /\ a \in Routed
  BY <1>1 DEF TypeInv, StageInv
<1>3. Shaped("Call", a, p)
  BY <1>2, RequestsComeIn, PayloadsShaped
<1>4. a \in DOMAIN Schema("Call")
      /\ RouteMap[a].params \subseteq InSnakeCase(RequestSchema[a].required)
  BY <1>2 DEF HandlersFit, Schema
<1>5. CASE Violations("Call", a, p) = {}
  <2>1. ValidatePayload("Call", a, p) = {"valid"}
    BY <1>4, <1>5, Verdicts
  <2>2. RouteMap[a].params \subseteq ToSnakeCase(p).objects["top"]
    BY <1>3, <1>4, <1>5, Conforming DEF Schema, InSnakeCase
  <2>3. response' = ResponseTo(a) /\ stage' = "responding"
    BY <2>1, <2>2 DEF ValidateRequest
  <2> QED
    BY <1>1, <1>5, <2>3 DEF ValidInv, ValidRequestsSucceed
<1>6. CASE Violations("Call", a, p) # {}
  <2>1. "valid" \notin ValidatePayload("Call", a, p)
    BY <1>4, <1>6, Verdicts
  <2>2. Refused
    BY <2>1, ValidateRequestCases DEF ValidatedRequest, Invoked
  <2> QED
    BY <1>1, <1>6, <2>2 DEF Refused, ValidInv, ValidRequestsSucceed
<1> QED
  BY <1>5, <1>6

LEMMA ValidResponseStep ==
  ASSUME HandlersFit, TypeInv, ValidInv, ValidateResponse
  PROVE  ValidInv'
<1> DEFINE a == msg.action
<1>1. stage = "responding" /\ stage' = "sending" /\ msg' = msg
  BY DEF ValidateResponse
<1>2. a \in Routed /\ response = ResponseTo(a)
  BY <1>1 DEF TypeInv, StageInv
<1>3. a \in DOMAIN Schema("CallResult")
      /\ Violations("CallResult", a, response.payload) = {}
  BY <1>2 DEF HandlersFit, Schema
<1>4. ValidatePayload("CallResult", a, response.payload) = {"valid"}
  BY <1>3, Verdicts
<1>5. response' = response
  BY <1>4 DEF ValidateResponse
<1>6. response'.type = "CallResult"
  BY <1>2, <1>5 DEF ResponseTo
<1> QED
  BY <1>1, <1>2, <1>6 DEF ValidInv, ValidRequestsSucceed

\* Steps that leave the request in hand and what it is answered alone.
LEMMA OtherStages ==
  ASSUME TypeInv, [Next]_vars
  PROVE  \/ UNCHANGED <<stage, msg, response>>
         \/ Receive \/ ValidateRequest \/ ValidateResponse
         \/ stage' \in {"recv", "ended"}
<1>1. ASSUME NEW f \in Frames, Arrive(f)
      PROVE  UNCHANGED <<stage, msg, response>>
  BY <1>1 DEF Arrive
<1>2. ASSUME NEW r, Reply(r)
      PROVE  UNCHANGED <<stage, msg, response>>
  BY <1>2 DEF Reply
<1>3. CASE Loop
  BY <1>3 DEF Loop, SendResponse, ReceiveClosed, EndSession
<1>4. CASE \/ \E t \in DOMAIN Methods : StartTask(t)
           \/ \E m \in DOMAIN Methods, alone \in BOOLEAN : CallMethod(m, alone)
           \/ \E r \in Instances, suppress \in BOOLEAN : Call(r, suppress)
  BY <1>4 DEF StartTask, CallMethod, Call, Begin, loopVars
<1>5. CASE Close \/ ValidateOwn \/ Timeout \/ CheckReply
  BY <1>5 DEF Close, ValidateOwn, Timeout, CheckReply, loopVars
<1>6. CASE UNCHANGED vars
  BY <1>6 DEF vars, loopVars
<1> QED
  BY <1>1, <1>2, <1>3, <1>4, <1>5, <1>6 DEF Next

LEMMA ValidStep ==
  ASSUME HandlersFit, TypeInv, ValidInv, [Next]_vars
  PROVE  ValidInv'
<1>1. CASE UNCHANGED <<stage, msg, response>>
  BY <1>1 DEF ValidInv, ValidRequestsSucceed
<1>2. CASE stage' \in {"recv", "ended"}
  BY <1>2 DEF ValidInv, ValidRequestsSucceed
<1>3. CASE Receive
  <2> DEFINE m == Head(inbox)
  <2>1. stage = "recv" /\ (Ignored(m) \/ Taken(m) \/ Handled(m))
    BY <1>3, ReceiveCases DEF TypeInv, SessionInv
  <2> HIDE DEF m
  <2>2. CASE Ignored(m) \/ Taken(m)
    BY <2>1, <2>2 DEF Ignored, Taken, ValidInv, ValidRequestsSucceed
  <2>3. CASE Fail(m)
    BY <2>3 DEF Fail, ValidInv, ValidRequestsSucceed
  <2>4. CASE Route(m) /\ m.action \in Routed
    BY <2>4 DEF Route, ValidInv, ValidRequestsSucceed
  <2>5. CASE Route(m) /\ m.action \notin Routed
    <3>1. stage' = "sending" /\ msg' = m /\ response'.type = "CallError"
      BY <2>5 DEF Route, Error
    <3> QED
      BY <2>5, <3>1 DEF ValidInv, ValidRequestsSucceed
  <2> QED
    BY <2>1, <2>2, <2>3, <2>4, <2>5 DEF Handled
<1> QED
  BY <1>1, <1>2, <1>3, OtherStages, ValidRequestStep, ValidResponseStep

(* If the handlers fit the schemas, then a request gets a CallResult exactly *)
(* if there is a handler and its schema admits it, whatever arrives, is      *)
(* called or closes while it is validated in the executor.                   *)
THEOREM ValidRequestsAnswered == ASSUME HandlersFit PROVE Spec => []ValidRequestsSucceed
<1>1. Init => ValidInv
  BY DEF Init, ValidInv, ValidRequestsSucceed
<1>2. TypeInv /\ ValidInv /\ [Next]_vars => ValidInv'
  BY ValidStep
<1>3. ValidInv => ValidRequestsSucceed
  BY DEF ValidInv
<1> QED
  BY <1>1, <1>2, <1>3, TypesHold, PTL DEF Spec

-----------------------------------------------------------------------------
(* Calls and the answers to them.                                          *)

IsReply(m) == m.type \in {"CallResult", "CallError"}
AnswersAction(m, action) == \E r \in RepliesTo(action), n \in Nat : m = [r EXCEPT !.id = n]

\* A reply in the inbox is to the latest call or to an earlier one.
RepliesInv ==
  \A i \in DOMAIN inbox :
    IsReply(inbox[i]) =>
      /\ own.state # "idle" /\ inbox[i].id <= own.id
      /\ inbox[i].id = own.id => AnswersAction(inbox[i], Action_(own))
\* What call() has is an answer to its own request.
OwnInv ==
  /\ own.state \in {"validating", "waiting"} => own.reply = NoMessage
  /\ own.state = "checking" => AnswersAction(own.reply, Action_(own))
  /\ own.state = "done" => \/ own.reply = NoMessage /\ own.outcome # "returned"
                           \/ AnswersAction(own.reply, Action_(own))
  /\ own.state # "idle" /\ own.method = "get_config"
       => own.request = Methods["get_config"]
ConformInv == RepliesInv /\ OwnInv /\ CallsConform

LEMMA ReplyIs ==
  ASSUME NEW m, NEW action, AnswersAction(m, action)
  PROVE  /\ IsReply(m) /\ m # NoMessage
         /\ m.type = "CallResult" =>
              /\ Shaped("CallResult", action, m.payload)
              /\ \E r \in RepliesTo(action) : r.type = m.type /\ r.payload = m.payload
         /\ m.type = "CallError" => m.code \in OCPPErrors \union {"UnheardCode"}
<1>1. PICK r \in RepliesTo(action), n \in Nat : m = [r EXCEPT !.id = n]
  BY DEF AnswersAction
<1>2. r.type \in {"CallResult", "CallError"} /\ m.type = r.type
  BY <1>1, RepliesShaped DEF RepliesTo, Replies, CommonReplies
<1>3. IsReply(m) /\ m # NoMessage
  BY <1>2 DEF IsReply, NoMessage
<1>4. r.type = "CallResult" => m.payload = r.payload
  BY <1>1 DEF RepliesTo, Replies, CommonReplies
<1>5. r.type = "CallError" => m.code \in OCPPErrors \union {"UnheardCode"}
  BY <1>1 DEF RepliesTo, Replies, CommonReplies, OCPPErrors
<1> QED
  BY <1>2, <1>3, <1>4, <1>5, RepliesShaped

\* The fields of a call that the invariant is about.
SameCall ==
  /\ own'.state = own.state /\ own'.id = own.id /\ own'.method = own.method
  /\ own'.request = own.request /\ own'.reply = own.reply
  /\ own'.outcome = own.outcome

LEMMA SameCallConforms ==
  ASSUME OwnInv, CallsConform, SameCall
  PROVE  OwnInv' /\ CallsConform'
<1>1. OwnInv'
  BY DEF OwnInv, SameCall, Action_
<1>2. CallsConform'
  BY DEF CallsConform, SameCall, Action_
<1> QED
  BY <1>1, <1>2

LEMMA SameInbox ==
  ASSUME RepliesInv, inbox' = inbox, own'.id = own.id, own'.request = own.request,
         own.state # "idle" => own'.state # "idle"
  PROVE  RepliesInv'
BY DEF RepliesInv, Action_

LEMMA ArriveConforms ==
  ASSUME TypeInv, ConformInv, NEW f \in Frames, Arrive(f)
  PROVE  ConformInv'
<1> DEFINE m == [f EXCEPT !.id = work + 1]
<1>1. inbox' = Append(inbox, m) /\ own' = own /\ inbox \in Seq(Incoming)
  BY DEF Arrive, TypeInv, SessionInv
<1>2. work + 1 \in 1..MaxWork
  BY SpendCounts DEF Arrive
<1>3. m \in Incoming /\ ~IsReply(m)
  <2>1. m \in Incoming
    BY <1>2 DEF Incoming
  <2>2. m.type = f.type
    <3>1. CASE f \in Malformed
      BY <3>1 DEF Malformed
    <3>2. CASE f = Ask(f.action, f.payload, f.args)
      BY <3>2 DEF Ask
    <3> QED
      BY <3>1, <3>2, RequestFrames
  <2>3. ~IsReply(f)
    BY RequestFrames DEF IsReply, UnpackError
  <2> QED
    BY <2>1, <2>2, <2>3 DEF IsReply
<1> HIDE DEF m
<1>4. /\ Len(inbox) \in Nat /\ DOMAIN inbox = 1..Len(inbox)
      /\ DOMAIN inbox' = 1..(Len(inbox) + 1) /\ inbox'[Len(inbox) + 1] = m
      /\ \A i \in 1..Len(inbox) : inbox'[i] = inbox[i]
  BY <1>1, <1>3, AppendProperties, LenProperties
<1>5. RepliesInv'
  BY <1>1, <1>3, <1>4 DEF RepliesInv, ConformInv, Action_
<1>6. SameCall
  BY <1>1 DEF SameCall
<1> QED
  BY <1>5, <1>6, SameCallConforms DEF ConformInv

LEMMA ReplyConforms ==
  ASSUME TypeInv, ConformInv, NEW r \in RepliesTo(Action_(own)), Reply(r)
  PROVE  ConformInv'
<1> DEFINE m == [r EXCEPT !.id = own.id]
<1>1. /\ inbox' = Append(inbox, m) /\ own.state # "idle"
      /\ own' = [own EXCEPT !.answered = TRUE]
  BY DEF Reply
<1>2. /\ inbox \in Seq(Incoming) /\ own.id \in Nat /\ own.request \in OwnRequests
      /\ DOMAIN own = OwnFields
  BY <1>1 DEF TypeInv, SessionInv, CallInv
<1>3. m \in Incoming /\ AnswersAction(m, Action_(own))
  BY <1>2 DEF Incoming, AnswersAction, Action_
<1>4. m.id = own.id
  BY DEF RepliesTo, Replies, CommonReplies
<1> HIDE DEF m
<1>5. /\ Len(inbox) \in Nat /\ DOMAIN inbox = 1..Len(inbox)
      /\ DOMAIN inbox' = 1..(Len(inbox) + 1) /\ inbox'[Len(inbox) + 1] = m
      /\ \A i \in 1..Len(inbox) : inbox'[i] = inbox[i]
  BY <1>1, <1>2, <1>3, AppendProperties, LenProperties
<1>6. SameCall
  BY <1>1, <1>2 DEF SameCall, OwnFields
<1>7. ASSUME NEW i \in DOMAIN inbox', IsReply(inbox'[i])
      PROVE  /\ own'.state # "idle" /\ inbox'[i].id <= own'.id
             /\ inbox'[i].id = own'.id => AnswersAction(inbox'[i], Action_(own)')
  <2>1. CASE i \in 1..Len(inbox)
    BY <1>5, <1>6, <1>7, <2>1 DEF SameCall, ConformInv, RepliesInv, Action_
  <2>2. CASE i = Len(inbox) + 1
    BY <1>1, <1>2, <1>3, <1>4, <1>5, <1>6, <2>2 DEF SameCall, Action_
  <2> QED
    BY <1>5, <2>1, <2>2
<1>8. RepliesInv'
  BY <1>7 DEF RepliesInv
<1> QED
  BY <1>6, <1>8, SameCallConforms DEF ConformInv

LEMMA ReceiveConforms ==
  ASSUME TypeInv, ConformInv, Receive
  PROVE  ConformInv'
<1> DEFINE m == Head(inbox)
<1>1. /\ inbox # <<>> /\ inbox' = Tail(inbox) /\ inbox \in Seq(Incoming)
      /\ Ignored(m) \/ Taken(m) \/ Handled(m)
  BY ReceiveCases DEF TypeInv, SessionInv
<1>2. /\ Len(inbox) \in Nat /\ DOMAIN inbox = 1..Len(inbox) /\ m = inbox[1]
      /\ 1 \in DOMAIN inbox /\ DOMAIN inbox' = 1..(Len(inbox) - 1)
      /\ \A i \in 1..(Len(inbox) - 1) : inbox'[i] = inbox[i + 1]
  BY <1>1, HeadTailProperties, LenProperties, EmptySeq
<1> HIDE DEF m
<1>3. ASSUME own'.id = own.id, own'.request = own.request,
             own.state # "idle" => own'.state # "idle"
      PROVE  RepliesInv'
  <2> SUFFICES ASSUME NEW i \in DOMAIN inbox', IsReply(inbox'[i])
               PROVE  /\ own'.state # "idle" /\ inbox'[i].id <= own'.id
                      /\ inbox'[i].id = own'.id
                           => AnswersAction(inbox'[i], Action_(own)')
    BY DEF RepliesInv
  <2>1. i + 1 \in DOMAIN inbox /\ inbox'[i] = inbox[i + 1]
    BY <1>2
  <2> QED
    BY <1>3, <2>1 DEF ConformInv, RepliesInv, Action_
<1>4. CASE Ignored(m) \/ Handled(m)
  <2>1. own' = own
    BY <1>4 DEF Ignored, Handled, Fail, Route
  <2> QED
    BY <1>3, <2>1, SameCallConforms DEF SameCall, ConformInv
<1>5. CASE Taken(m)
  <2>1. own.state = "waiting" /\ DOMAIN own = OwnFields
    BY <1>5 DEF Taken, TypeInv, CallInv
  <2>2. /\ own'.state = "checking" /\ own'.reply = m /\ own'.id = own.id
        /\ own'.request = own.request /\ own'.method = own.method
    BY <1>5, <2>1 DEF Taken, OwnFields
  <2>3. AnswersAction(m, Action_(own))
    BY <1>2, <1>5 DEF Taken, ConformInv, RepliesInv, IsReply
  <2>4. OwnInv'
    BY <2>1, <2>2, <2>3 DEF ConformInv, OwnInv, Action_
  <2>5. CallsConform'
    BY <2>2 DEF CallsConform
  <2> QED
    BY <1>3, <2>1, <2>2, <2>4, <2>5 DEF ConformInv
<1> QED
  BY <1>1, <1>4, <1>5

LEMMA IncomingIds ==
  ASSUME NEW m \in Incoming
  PROVE  m.id \in Nat
<1>1. CASE \E f \in Frames, n \in 1..MaxWork : m = [f EXCEPT !.id = n]
  <2>1. PICK f \in Frames, n \in 1..MaxWork : m = [f EXCEPT !.id = n]
    BY <1>1
  <2>2. CASE f \in Malformed
    BY <2>1, <2>2 DEF Malformed
  <2>3. CASE f = Ask(f.action, f.payload, f.args)
    BY <2>1, <2>3 DEF Ask
  <2> QED
    BY <2>2, <2>3, RequestFrames
<1>2. CASE \E a : \E r \in RepliesTo(a), n \in Nat : m = [r EXCEPT !.id = n]
  BY <1>2 DEF RepliesTo, Replies, CommonReplies
<1> QED
  BY <1>1, <1>2 DEF Incoming

LEMMA BeginConforms ==
  ASSUME TypeInv, ConformInv, NEW method, NEW request, NEW suppress, NEW alone,
         method = "get_config" => request = Methods["get_config"],
         Begin(method, request, suppress, alone)
  PROVE  ConformInv'
<1>1. /\ own' = Invocation(method, request, suppress, alone)
      /\ inbox' = inbox /\ inbox \in Seq(Incoming) /\ own.id \in Nat
  BY DEF Begin, loopVars, TypeInv, SessionInv, CallInv
<1>2. /\ own'.state = "validating" /\ own'.id = own.id + 1 /\ own'.reply = NoMessage
      /\ own'.method = method /\ own'.request = request
  BY <1>1 DEF Invocation
<1>3. OwnInv' /\ CallsConform'
  BY <1>2 DEF OwnInv, CallsConform
<1>4. ASSUME NEW i \in DOMAIN inbox', IsReply(inbox'[i])
      PROVE  inbox'[i].id <= own'.id /\ inbox'[i].id # own'.id
  <2>1. inbox[i].id \in Nat
    BY <1>1, IncomingIds
  <2>2. inbox[i].id <= own.id
    BY <1>1, <1>4 DEF ConformInv, RepliesInv
  <2> QED
    BY <1>1, <1>2, <2>1, <2>2
<1>5. RepliesInv'
  BY <1>2, <1>4 DEF RepliesInv
<1> QED
  BY <1>3, <1>5 DEF ConformInv

LEMMA CallConforms ==
  ASSUME TypeInv, ConformInv,
         \/ \E t \in DOMAIN Methods : StartTask(t)
         \/ \E m \in DOMAIN Methods, alone \in BOOLEAN : CallMethod(m, alone)
         \/ \E r \in Instances, suppress \in BOOLEAN : Call(r, suppress)
  PROVE  ConformInv'
<1>1. ASSUME NEW t \in DOMAIN Methods, StartTask(t)
      PROVE  ConformInv'
  BY <1>1, BeginConforms DEF StartTask
<1>2. ASSUME NEW m \in DOMAIN Methods, NEW alone \in BOOLEAN, CallMethod(m, alone)
      PROVE  ConformInv'
  BY <1>2, BeginConforms DEF CallMethod
<1>3. ASSUME NEW r \in Instances, NEW suppress \in BOOLEAN, Call(r, suppress)
      PROVE  ConformInv'
  BY <1>3, BeginConforms DEF Call, NoMethod
<1> QED
  BY <1>1, <1>2, <1>3

\* What the end of a call leaves as it was.
LEMMA FinishIs ==
  ASSUME TypeInv, own.state # "idle", NEW outcome, Finish(outcome)
  PROVE  /\ own'.state = "done" /\ own'.outcome = outcome /\ own'.id = own.id
         /\ own'.method = own.method /\ own'.request = own.request
         /\ own'.reply = own.reply
<1>1. DOMAIN own = OwnFields
  BY DEF TypeInv, CallInv
<1> QED
  BY <1>1 DEF Finish, OwnFields

\* A call that ends without an answer.
LEMMA UnansweredConforms ==
  ASSUME TypeInv, ConformInv, own.state # "idle", own.reply = NoMessage,
         NEW outcome, Finish(outcome), outcome # "returned",
         \/ outcome \in {"TimeoutError", "ConnectionClosed"}
         \/ Unsigned(own.request)
  PROVE  OwnInv' /\ CallsConform'
<1>1. /\ own'.state = "done" /\ own'.outcome = outcome /\ own'.reply = NoMessage
      /\ own'.method = own.method /\ own'.request = own.request
  BY FinishIs
<1>2. own'.outcome # "returned"
  BY <1>1
<1>3. OwnInv'
  BY <1>1, <1>2 DEF ConformInv, OwnInv
<1>4. CallsConform'
  <2>1. NoMessage.type = "none"
    BY DEF NoMessage
  <2>2. \/ own'.outcome \in {"TimeoutError", "ConnectionClosed"}
        \/ Unsigned(own'.request)
    BY <1>1
  <2> QED
    BY <1>1, <2>1, <2>2 DEF CallsConform
<1> QED
  BY <1>3, <1>4

LEMMA TimeoutConforms ==
  ASSUME TypeInv, ConformInv, Timeout
  PROVE  ConformInv'
<1>1. own.state = "waiting" /\ Finish("TimeoutError") /\ inbox' = inbox
  BY DEF Timeout, loopVars
<1>2. own.reply = NoMessage
  BY <1>1 DEF ConformInv, OwnInv
<1>3. OwnInv' /\ CallsConform'
  BY <1>1, <1>2, UnansweredConforms
<1>4. RepliesInv'
  BY <1>1, FinishIs, SameInbox DEF ConformInv
<1> QED
  BY <1>3, <1>4 DEF ConformInv

\* The action of a request has both schemas.
LEMMA OwnSchemas ==
  ASSUME CallsFit, TypeInv, own.state # "idle"
  PROVE  /\ Action_(own) \in DOMAIN Schema("Call") /\ Action_(own) \in DOMAIN Schema("CallResult")
         /\ Unsigned(own.request)
            \/ Violations("Call", Action_(own), ToCamelCase(own.request.payload)) = {}
         /\ ClassFits(own.request.class, ResultSchema[Action_(own)])
<1>1. own.request \in OwnRequests
  BY DEF TypeInv, CallInv
<1> QED
  BY <1>1 DEF CallsFit, Schema, Action_

LEMMA ValidateOwnConforms ==
  ASSUME CallsFit, TypeInv, ConformInv, ValidateOwn
  PROVE  ConformInv'
<1> DEFINE p == ToCamelCase(own.request.payload)
<1>1. own.state = "validating" /\ inbox' = inbox
  BY DEF ValidateOwn, loopVars
<1>2. own.reply = NoMessage /\ DOMAIN own = OwnFields
  BY <1>1 DEF ConformInv, OwnInv, TypeInv, CallInv
<1>3. PICK verdict \in ValidatePayload("Call", Action_(own), p) :
        IF verdict # "valid" THEN Finish(verdict)
        ELSE IF ~open THEN Finish("ConnectionClosed")
        ELSE own' = [own EXCEPT !.state = "waiting"]
  BY DEF ValidateOwn
<1>4. verdict # "returned"
  BY <1>3 DEF ValidatePayload, ErrorOf
<1>5. CASE verdict # "valid"
  <2>1. Finish(verdict)
    BY <1>3, <1>5
  <2>2. Violations("Call", Action_(own), p) # {}
    BY <1>1, <1>3, <1>5, OwnSchemas, Verdicts
  <2>3. Unsigned(own.request)
    BY <1>1, <2>2, OwnSchemas
  <2>4. OwnInv' /\ CallsConform'
    BY <1>1, <1>2, <1>4, <2>1, <2>3, UnansweredConforms
  <2>5. RepliesInv'
    BY <1>1, <2>1, FinishIs, SameInbox DEF ConformInv
  <2> QED
    BY <2>4, <2>5 DEF ConformInv
<1>6. CASE verdict = "valid" /\ ~open
  <2>1. Finish("ConnectionClosed")
    BY <1>3, <1>6
  <2>4. OwnInv' /\ CallsConform'
    BY <1>1, <1>2, <2>1, UnansweredConforms
  <2>5. RepliesInv'
    BY <1>1, <2>1, FinishIs, SameInbox DEF ConformInv
  <2> QED
    BY <2>4, <2>5 DEF ConformInv
<1>7. CASE verdict = "valid" /\ open
  <2>1. own' = [own EXCEPT !.state = "waiting"]
    BY <1>3, <1>7
  <2>2. /\ own'.state = "waiting" /\ own'.reply = NoMessage /\ own'.id = own.id
        /\ own'.method = own.method /\ own'.request = own.request
    BY <1>2, <2>1 DEF OwnFields
  <2>4. OwnInv' /\ CallsConform'
    BY <1>1, <2>2 DEF ConformInv, OwnInv, CallsConform
  <2>5. RepliesInv'
    BY <1>1, <2>2, SameInbox DEF ConformInv
  <2> QED
    BY <2>4, <2>5 DEF ConformInv
<1> QED
  BY <1>5, <1>6, <1>7

\* A call that ends with an answer.
LEMMA AnsweredConforms ==
  ASSUME TypeInv, ConformInv, own.state = "checking", NEW outcome, Finish(outcome),
         own.reply.type = "CallResult" =>
           ((outcome = "returned") <=>
             /\ Violations("CallResult", Action_(own), own.reply.payload) = {}
             /\ ~(own.method = "get_config" /\ NoSetting(own.reply.payload))),
         own.reply.type = "CallError" => outcome # "returned"
  PROVE  OwnInv' /\ CallsConform'
<1>1. /\ own'.state = "done" /\ own'.outcome = outcome /\ own'.reply = own.reply
      /\ own'.method = own.method /\ own'.request = own.request
  BY FinishIs
<1>2. AnswersAction(own.reply, Action_(own))
  BY DEF ConformInv, OwnInv
<1>3. Action_(own)' = Action_(own)
  BY <1>1 DEF Action_
<1>4. OwnInv'
  BY <1>1, <1>2, <1>3 DEF ConformInv, OwnInv
<1>5. CallsConform'
  <2>1. own'.reply # NoMessage /\ own'.reply.type \in {"CallResult", "CallError"}
    BY <1>1, <1>2, ReplyIs DEF IsReply
  <2>2. CASE own.reply.type = "CallResult"
    <3>1. (own'.outcome = "returned") <=>
             /\ Violations("CallResult", Action_(own)', own'.reply.payload) = {}
             /\ ~(own'.method = "get_config" /\ NoSetting(own'.reply.payload))
      BY <1>1, <1>3, <2>2
    <3> QED
      BY <1>1, <2>1, <2>2, <3>1 DEF CallsConform
  <2>3. CASE own.reply.type = "CallError"
    BY <1>1, <2>1, <2>3 DEF CallsConform
  <2> QED
    BY <1>1, <2>1, <2>2, <2>3
<1> QED
  BY <1>4, <1>5

\* A reply that passes validation becomes an object.
LEMMA ReplyConstructed ==
  ASSUME CallsFit, TypeInv, ConformInv, own.state = "checking",
         own.reply.type = "CallResult",
         Violations("CallResult", Action_(own), own.reply.payload) = {}
  PROVE  Construct(own.request.class, ToSnakeCase(own.reply.payload)) = "constructed"
<1> DEFINE a == Action_(own)
           c == own.request.class
           s == ResultSchema[a]
           keys == own.reply.payload.objects["top"]
<1>1. Shaped("CallResult", a, own.reply.payload)
  BY ReplyIs DEF ConformInv, OwnInv
<1>2. ClassFits(c, s)
  BY OwnSchemas
<1>3. /\ s.required \subseteq keys /\ keys \subseteq s.required \union s.optional
      /\ ToSnakeCase(own.reply.payload).objects["top"] = InSnakeCase(keys)
  BY <1>1, <1>2, Conforming DEF ClassFits, Schema
<1>4. /\ InSnakeCase(s.required) \subseteq InSnakeCase(keys)
      /\ InSnakeCase(keys) \subseteq InSnakeCase(s.required \union s.optional)
  BY <1>3 DEF InSnakeCase
<1>5. /\ ResultTypes[c].required \subseteq InSnakeCase(keys)
      /\ InSnakeCase(keys) \subseteq FieldsOf(ResultTypes[c])
  BY <1>2, <1>4 DEF ClassFits
<1> QED
  BY <1>2, <1>3, <1>5 DEF Construct, ClassFits

LEMMA ReadSettingsOutcome ==
  ASSUME NEW p, ReadSettings(p)
  PROVE  \E outcome :
           /\ Finish(outcome)
           /\ (outcome = "returned") <=>
                /\ "configuration_key" \in p.objects["top"]
                /\ p.value \notin {Unset, Reported("ten")}
<1>1. CASE "configuration_key" \notin p.objects["top"]
  BY <1>1 DEF ReadSettings
<1>2. CASE "configuration_key" \in p.objects["top"] /\ p.value = Unset
  BY <1>2 DEF ReadSettings
<1>3. CASE "configuration_key" \in p.objects["top"] /\ p.value = Reported("ten")
  BY <1>3 DEF ReadSettings
<1>4. CASE "configuration_key" \in p.objects["top"]
           /\ p.value \notin {Unset, Reported("ten")}
  BY <1>4 DEF ReadSettings
<1> QED
  BY <1>1, <1>2, <1>3, <1>4

LEMMA CheckReplyConforms ==
  ASSUME CallsFit, TypeInv, ConformInv, CheckReply
  PROVE  ConformInv'
<1> DEFINE p == ToSnakeCase(own.reply.payload)
           made == Construct(own.request.class, p)
           valid == Violations("CallResult", Action_(own), own.reply.payload) = {}
<1>1. own.state = "checking" /\ inbox' = inbox
  BY DEF CheckReply, loopVars
<1>2. AnswersAction(own.reply, Action_(own)) /\ IsReply(own.reply)
  BY <1>1, ReplyIs DEF ConformInv, OwnInv
<1>3. ASSUME NEW outcome, Finish(outcome),
             own.reply.type = "CallResult" =>
               ((outcome = "returned") <=>
                  valid /\ ~(own.method = "get_config" /\ NoSetting(own.reply.payload))),
             own.reply.type = "CallError" => outcome # "returned"
      PROVE  ConformInv'
  <2>1. OwnInv' /\ CallsConform'
    BY <1>1, <1>3, AnsweredConforms
  <2>2. RepliesInv'
    BY <1>1, <1>3, FinishIs, SameInbox DEF ConformInv
  <2> QED
    BY <2>1, <2>2 DEF ConformInv
<1>4. CASE own.reply.type = "CallError"
  <2> DEFINE outcome == IF own.suppress THEN "None" ELSE ToException(own.reply.code)
  <2>1. Finish(outcome)
    BY <1>4 DEF CheckReply
  <2>2. outcome # "returned"
    BY DEF ToException, OCPPErrors
  <2> HIDE DEF outcome
  <2> QED
    BY <1>3, <1>4, <2>1, <2>2
<1>5. CASE own.reply.type = "CallResult"
  <2>1. PICK verdict \in ValidatePayload("CallResult", Action_(own), own.reply.payload) :
          IF verdict # "valid" THEN Finish(verdict)
          ELSE IF made # "constructed" THEN Finish(made)
          ELSE IF own.method = "get_config" THEN ReadSettings(p)
          ELSE Finish("returned")
    BY <1>5 DEF CheckReply
  <2>2. Action_(own) \in DOMAIN Schema("CallResult")
    BY <1>1, OwnSchemas
  <2>3. verdict = "valid" <=> valid
    BY <2>2, Verdicts
  <2>4. CASE ~valid
    <3>1. verdict # "returned" /\ Finish(verdict)
      BY <2>1, <2>3, <2>4 DEF ValidatePayload, ErrorOf
    <3> QED
      BY <1>3, <1>5, <2>4, <3>1
  <2>5. CASE valid /\ own.method # "get_config"
    <3>1. Finish("returned")
      BY <1>1, <1>5, <2>1, <2>3, <2>5, ReplyConstructed
    <3> QED
      BY <1>3, <1>5, <2>5, <3>1
  <2>6. CASE valid /\ own.method = "get_config"
    <3>1. ReadSettings(p)
      BY <1>1, <1>5, <2>1, <2>3, <2>6, ReplyConstructed
    <3>2. PICK outcome :
            /\ Finish(outcome)
            /\ (outcome = "returned") <=>
                 /\ "configuration_key" \in p.objects["top"]
                 /\ p.value \notin {Unset, Reported("ten")}
      BY <3>1, ReadSettingsOutcome
    <3>3. Action_(own) = ActionOf(Methods["get_config"].class)
      BY <1>1, <2>6 DEF ConformInv, OwnInv, Action_
    <3>4. PICK r \in RepliesTo(Action_(own)) :
            r.type = "CallResult" /\ r.payload = own.reply.payload
      BY <1>2, <1>5, ReplyIs
    <3>5. NoSetting(own.reply.payload)
            <=> ~(/\ "configuration_key" \in p.objects["top"]
                  /\ p.value \notin {Unset, Reported("ten")})
      BY <3>3, <3>4 DEF CallsFit, NoSetting
    <3> QED
      BY <1>3, <1>5, <2>6, <3>2, <3>5
  <2> QED
    BY <2>4, <2>5, <2>6
<1> QED
  BY <1>2, <1>4, <1>5 DEF IsReply

LEMMA ConformStep ==
  ASSUME CallsFit, TypeInv, ConformInv, [Next]_vars
  PROVE  ConformInv'
<1>1. ASSUME NEW f \in Frames, Arrive(f)
      PROVE  ConformInv'
  BY <1>1, ArriveConforms
<1>2. CASE own.state \in {"waiting", "done"}
           /\ \E r \in IF own.alone THEN Replies(Action_(own))
                       ELSE CommonReplies(Action_(own)) : Reply(r)
  BY <1>2, ReplyConforms DEF RepliesTo
<1>3. CASE UNCHANGED <<inbox, own>>
  BY <1>3, SameInbox, SameCallConforms DEF SameCall, ConformInv
<1>4. CASE Loop
  <2>1. CASE Receive
    BY <2>1, ReceiveConforms
  <2>2. CASE ValidateRequest \/ ValidateResponse \/ SendResponse \/ ReceiveClosed
    BY <1>3, <2>2 DEF ValidateRequest, ValidateResponse, SendResponse, ReceiveClosed
  <2> QED
    BY <1>4, <2>1, <2>2 DEF Loop
<1>5. CASE \/ \E t \in DOMAIN Methods : StartTask(t)
           \/ \E m \in DOMAIN Methods, alone \in BOOLEAN : CallMethod(m, alone)
           \/ \E r \in Instances, suppress \in BOOLEAN : Call(r, suppress)
  BY <1>5, CallConforms
<1>6. CASE Close \/ UNCHANGED vars
  BY <1>3, <1>6 DEF Close, vars, loopVars
<1> QED
  BY <1>1, <1>2, <1>4, <1>5, <1>6, ValidateOwnConforms, TimeoutConforms,
     CheckReplyConforms DEF Next, MayBegin, MayReply

LEMMA InitConforms == Init => ConformInv
BY DEF Init, NoCall, ConformInv, RepliesInv, OwnInv, CallsConform

(* If the classes fit the schemas, then call() returns an object exactly if  *)
(* the answer is one that the schema admits, up to the two exceptions, and   *)
(* an answer is only ever taken for the request that it is to, however late  *)
(* answers to requests given up come in.                                     *)
THEOREM ConformingAnswersReturned == ASSUME CallsFit PROVE Spec => []CallsConform
<1>1. TypeInv /\ ConformInv /\ [Next]_vars => ConformInv'
  BY ConformStep
<1>2. ConformInv => CallsConform
  BY DEF ConformInv
<1> QED
  BY <1>1, <1>2, InitConforms, TypesHold, PTL DEF Spec

LEMMA ReturnedStatus ==
  ASSUME CallsFit, StatusesFit, TypeInv, ConformInv
  PROVE  StatusesAreKnown
<1> DEFINE v == own.reply.payload.value
           a == Action_(own)
           listed == Enumerated("CallResult", a, "top")
<1> SUFFICES ASSUME own.state = "done", own.outcome = "returned",
                    v # NoValue, v[1] = "top"
             PROVE  v[3] \in Enum[ResultEnums[a][v[2]]]
  BY DEF StatusesAreKnown
<1>1. own.request \in OwnRequests
  BY DEF TypeInv, CallInv
<1>2. AnswersAction(own.reply, a)
  BY DEF ConformInv, OwnInv
<1>3. own.reply # NoMessage /\ own.reply.type = "CallResult"
      /\ Shaped("CallResult", a, own.reply.payload)
  BY <1>2, ReplyIs DEF ConformInv, CallsConform, IsReply
<1>4. Violations("CallResult", a, own.reply.payload) = {}
  BY <1>3 DEF ConformInv, CallsConform
<1>5. v[2] \in DOMAIN listed /\ v[3] \in listed[v[2]]
  BY <1>3, <1>4, Conforming
<1> QED
  BY <1>1, <1>5 DEF StatusesFit, Action_

(* If the schemas list no value that the data classes do not know, then what *)
(* call() returns has a status that the server can compare.                  *)
THEOREM StatusesKnown == ASSUME CallsFit, StatusesFit PROVE Spec => []StatusesAreKnown
<1>1. TypeInv /\ ConformInv /\ [Next]_vars => ConformInv'
  BY ConformStep
<1>2. TypeInv /\ ConformInv => StatusesAreKnown
  BY ReturnedStatus
<1> QED
  BY <1>1, <1>2, InitConforms, TypesHold, PTL DEF Spec

-----------------------------------------------------------------------------
(* Keys.                                                                   *)

\* The recursive function in Carriers: reach[d] is what is carried d levels
\* down or less.
CarriedBy(ks) ==
  {Carried[k] : k \in {SnakeKeys[key] : key \in ks} \intersect DOMAIN Carried}
IsReach(keys, types, extent, n, reach) ==
  reach = [depth \in 0..n |->
             IF depth = 0 THEN CarriedBy(keys)
             ELSE LET found == reach[depth - 1]
                  IN  found \union UNION {CarriedBy(Pick(types[t], extent)) : t \in found}]

LEMMA ReachExists ==
  ASSUME NEW keys, NEW types, NEW extent
  PROVE  \A n \in Nat : \E reach : IsReach(keys, types, extent, n, reach)
<1> DEFINE S == {n \in Nat : \E reach : IsReach(keys, types, extent, n, reach)}
           next(found) == found \union UNION {CarriedBy(Pick(types[t], extent)) : t \in found}
<1>1. \A n, reach : IsReach(keys, types, extent, n, reach)
        <=> reach = [depth \in 0..n |-> IF depth = 0 THEN CarriedBy(keys)
                                        ELSE next(reach[depth - 1])]
  BY DEF IsReach
<1> HIDE DEF next
<1>2. 0 \in S
  <2> DEFINE r == [i \in 0..0 |-> CarriedBy(keys)]
  <2>1. r = [i \in 0..0 |-> IF i = 0 THEN CarriedBy(keys) ELSE next(r[i - 1])]
    OBVIOUS
  <2> HIDE DEF r
  <2>2. IsReach(keys, types, extent, 0, r)
    BY <1>1, <2>1
  <2> QED
    BY <2>2
<1>3. ASSUME NEW n \in Nat, n \in S
      PROVE  n + 1 \in S
  <2>1. PICK r : IsReach(keys, types, extent, n, r)
    BY <1>3
  <2> DEFINE last == next(r[n])
             h == [i \in 0..(n + 1) |-> IF i = n + 1 THEN last ELSE r[i]]
             k == [i \in 0..(n + 1) |-> IF i = 0 THEN CarriedBy(keys) ELSE next(h[i - 1])]
  <2>2. \A i \in 0..n : r[i] = IF i = 0 THEN CarriedBy(keys) ELSE next(r[i - 1])
    BY <1>1, <2>1
  <2>3. ASSUME NEW i \in 0..(n + 1)
        PROVE  h[i] = k[i]
    <3>1. CASE i = n + 1
      <4>1. h[i - 1] = r[n]
        BY <3>1
      <4>2. h[i] = next(r[n])
        BY <3>1
      <4>3. k[i] = next(h[i - 1])
        <5>1. i # 0
          BY <3>1
        <5> HIDE DEF h
        <5> QED
          BY <5>1
      <4> QED
        BY <4>1, <4>2, <4>3
    <3>2. CASE i \in 0..n
      <4>1. i # 0 => h[i - 1] = r[i - 1]
        BY <3>2
      <4> QED
        BY <2>2, <3>2, <4>1
    <3> QED
      BY <3>1, <3>2
  <2>4. h = k
    BY <2>3
  <2>5. IsReach(keys, types, extent, n + 1, h)
    BY <1>1, <2>4
  <2> QED
    BY <2>5
<1> HIDE DEF S
<1>4. Nat \subseteq S
  BY <1>2, <1>3, SetInduction
<1> QED
  BY <1>4 DEF S

\* What is carried is of one of the eleven types.
CarriedTypes == {Carried[k] : k \in DOMAIN Carried}

LEMMA CarriersKnown ==
  ASSUME NEW keys, NEW types, NEW extent, IsFiniteSet(DOMAIN types)
  PROVE  Carriers(keys, types, extent) \subseteq CarriedTypes
<1> DEFINE N == Cardinality(DOMAIN types)
           reach == CHOOSE reach : IsReach(keys, types, extent, N, reach)
           next(found) == found \union UNION {CarriedBy(Pick(types[t], extent)) : t \in found}
           S == {n \in Nat : n \in 0..N => reach[n] \subseteq CarriedTypes}
<1>1. N \in Nat
  BY FS_CardinalityType
<1>2. Carriers(keys, types, extent) = reach[N]
  BY DEF Carriers, IsReach, CarriedBy
<1> HIDE DEF N
<1>3. IsReach(keys, types, extent, N, reach)
  BY <1>1, ReachExists
<1> HIDE DEF reach
<1>4. \A ks : CarriedBy(ks) \subseteq CarriedTypes
  BY DEF CarriedBy, CarriedTypes
<1>5. \A i \in 0..N :
        reach[i] = IF i = 0 THEN CarriedBy(keys) ELSE next(reach[i - 1])
  BY <1>3 DEF IsReach
<1>6. \A found : found \subseteq CarriedTypes => next(found) \subseteq CarriedTypes
  BY <1>4
<1> HIDE DEF next
<1>7. 0 \in S
  BY <1>1, <1>4, <1>5
<1>8. ASSUME NEW n \in Nat, n \in S
      PROVE  n + 1 \in S
  <2>1. SUFFICES ASSUME n + 1 \in 0..N
                 PROVE  reach[n + 1] \subseteq CarriedTypes
    OBVIOUS
  <2>2. reach[n] \subseteq CarriedTypes
    BY <1>1, <1>8, <2>1
  <2>3. n + 1 # 0 /\ (n + 1) - 1 = n
    OBVIOUS
  <2>4. reach[n + 1] = next(reach[(n + 1) - 1])
    BY <1>5, <2>1, <2>3, Zenon
  <2> QED
    BY <1>6, <2>2, <2>3, <2>4
<1> HIDE DEF S
<1>9. Nat \subseteq S
  BY <1>7, <1>8, SetInduction
<1> QED
  BY <1>1, <1>2, <1>9 DEF S

LEMMA TypesKnown ==
  /\ CarriedTypes \subseteq DOMAIN ObjectSchema /\ CarriedTypes \subseteq DOMAIN DataTypes
  /\ IsFiniteSet(DOMAIN ObjectSchema) /\ IsFiniteSet(DOMAIN DataTypes)
<1> DEFINE names == <<"IdTagInfo", "LogParameters", "MeterValue", "SampledValue",
                      "CertificateHashData", "AuthorizationData", "KeyValue",
                      "ChargingProfile", "ChargingSchedule", "ChargingSchedulePeriod",
                      "Firmware">>
           T == {names[i] : i \in 1..11}
<1>1. IsFiniteSet(T)
  <2>1. IsFiniteSet(1..11)
    <3> DEFINE first == 1
               last == 11
    <3>1. first \in Int /\ last \in Int
      OBVIOUS
    <3> HIDE DEF first, last
    <3>2. IsFiniteSet(first..last)
      BY <3>1, FS_Interval
    <3> QED
      BY <3>2 DEF first, last
  <2> DEFINE f == [i \in 1..11 |-> names[i]]
  <2> HIDE DEF names
  <2>2. f \in Surjection(1..11, T)
    BY DEF Surjection
  <2> QED
    BY <2>1, <2>2, FS_Surjection
<1>2. T = {"IdTagInfo", "LogParameters", "MeterValue", "SampledValue",
           "CertificateHashData", "AuthorizationData", "KeyValue", "ChargingProfile",
           "ChargingSchedule", "ChargingSchedulePeriod", "Firmware"}
  OBVIOUS
<1> HIDE DEF T
<1>3. DOMAIN ObjectSchema = T /\ DOMAIN DataTypes = T
  BY <1>2 DEF ObjectSchema, DataTypes
<1>4. CarriedTypes \subseteq T
  BY <1>2 DEF CarriedTypes, Carried
<1> QED
  BY <1>1, <1>3, <1>4

\* A payload whose keys are all in K.
Keyed(p, K) ==
  \E objects, value, flaw :
    /\ p = Payload(objects, value, flaw)
    /\ objects = [o \in DOMAIN objects |-> objects[o]]
    /\ \A o \in DOMAIN objects : objects[o] \subseteq K
    /\ value # NoValue => value = <<value[1], value[2], value[3]>> /\ value[2] \in K

LEMMA ThereAndBack ==
  ASSUME NEW K, NEW there, NEW back, \A k \in K : back[there[k]] = k,
         NEW p, Keyed(p, K)
  PROVE  ConvertKeys(ConvertKeys(p, there), back) = p
<1>1. PICK objects, value, flaw :
        /\ p = Payload(objects, value, flaw)
        /\ objects = [o \in DOMAIN objects |-> objects[o]]
        /\ \A o \in DOMAIN objects : objects[o] \subseteq K
        /\ value # NoValue => value = <<value[1], value[2], value[3]>> /\ value[2] \in K
  BY DEF Keyed
<1> DEFINE mapped(objs, table) == [o \in DOMAIN objs |-> {table[k] : k \in objs[o]}]
           moved(v, table) == IF v = NoValue THEN v ELSE <<v[1], table[v[2]], v[3]>>
<1>2. ASSUME NEW objs, NEW v, NEW table
      PROVE  ConvertKeys(Payload(objs, v, flaw), table)
               = Payload(mapped(objs, table), moved(v, table), flaw)
  <2> DEFINE x == mapped(objs, table)
             y == moved(v, table)
             q == Payload(objs, v, flaw)
  <2>1. q.objects = objs /\ q.value = v
    BY DEF Payload
  <2>2. ConvertKeys(q, table) = [[q EXCEPT !.objects = x] EXCEPT !.value = y]
    BY <2>1 DEF ConvertKeys, Payload
  <2> HIDE DEF x, y
  <2>3. [q EXCEPT !.objects = x] = Payload(x, v, flaw)
    BY DEF Payload
  <2>4. [Payload(x, v, flaw) EXCEPT !.value = y] = Payload(x, y, flaw)
    BY DEF Payload
  <2> QED
    BY <2>2, <2>3, <2>4 DEF x, y
<1>3. mapped(mapped(objects, there), back) = objects
  <2> DEFINE once == mapped(objects, there)
             twice == mapped(once, back)
  <2>1. DOMAIN once = DOMAIN objects /\ DOMAIN twice = DOMAIN objects
    OBVIOUS
  <2>2. ASSUME NEW o \in DOMAIN objects
        PROVE  twice[o] = objects[o]
    <3>1. once[o] = {there[k] : k \in objects[o]}
      OBVIOUS
    <3>2. twice[o] = {back[k] : k \in once[o]}
      BY <2>1
    <3>3. \A k \in objects[o] : back[there[k]] = k
      BY <1>1
    <3> QED
      BY <3>1, <3>2, <3>3
  <2>3. twice = [o \in DOMAIN objects |-> twice[o]]
    BY <2>1
  <2> HIDE DEF twice
  <2> QED
    BY <1>1, <2>2, <2>3 DEF twice
<1>4. moved(moved(value, there), back) = value
  <2>1. CASE value = NoValue
    BY <2>1
  <2>2. CASE value # NoValue
    <3> DEFINE w == <<value[1], there[value[2]], value[3]>>
    <3>1. w # NoValue /\ w[1] = value[1] /\ w[2] = there[value[2]] /\ w[3] = value[3]
      BY DEF NoValue
    <3>2. moved(value, there) = w
      BY <2>2
    <3> HIDE DEF w
    <3>3. moved(w, back) = <<value[1], back[there[value[2]]], value[3]>>
      BY <3>1
    <3> QED
      BY <1>1, <2>2, <3>2, <3>3
  <2> QED
    BY <2>1, <2>2
<1> HIDE DEF mapped, moved
<1> QED
  BY <1>1, <1>2, <1>3, <1>4

\* The keys of a type and of what it carries.
LEMMA DictKeys ==
  ASSUME NEW K, NEW class, NEW types, NEW extent, IsFiniteSet(DOMAIN types),
         CarriedTypes \subseteq DOMAIN types,
         class.required \union class.optional \subseteq K,
         \A t \in DOMAIN types : types[t].required \union types[t].optional \subseteq K
  PROVE  LET objects == AsDict(class, types, extent)
         IN  /\ objects = [o \in DOMAIN objects |-> objects[o]]
             /\ \A o \in DOMAIN objects : objects[o] \subseteq K
<1> DEFINE objects == AsDict(class, types, extent)
           top == Pick(class, extent)
<1>1. objects = [o \in {"top"} \union Carriers(top, types, extent) |->
                   IF o = "top" THEN top ELSE Pick(types[o], extent)]
  BY DEF AsDict
<1>2. Carriers(top, types, extent) \subseteq DOMAIN types
  BY CarriersKnown
<1>3. top \subseteq K /\ \A t \in DOMAIN types : Pick(types[t], extent) \subseteq K
  BY DEF Pick
<1> HIDE DEF top
<1> QED
  BY <1>1, <1>2, <1>3

\* Messages: the keys of the schemas, and the one that no schema has.
MessageKeys == SchemaKeys \union {OtherKey}

LEMMA SchemaDictKeys ==
  ASSUME NEW type \in {"Call", "CallResult"}, NEW a \in DOMAIN Schema(type), NEW extent
  PROVE  LET objects == AsDict(Schema(type)[a], ObjectSchema, extent)
         IN  /\ objects = [o \in DOMAIN objects |-> objects[o]]
             /\ \A o \in DOMAIN objects : objects[o] \subseteq SchemaKeys
<1>1. Schema(type)[a].required \union Schema(type)[a].optional \subseteq SchemaKeys
  BY DEF Schema, SchemaKeys, Range
<1>2. \A t \in DOMAIN ObjectSchema :
        ObjectSchema[t].required \union ObjectSchema[t].optional \subseteq SchemaKeys
  BY DEF SchemaKeys, Range
<1> QED
  BY <1>1, <1>2, TypesKnown, DictKeys

LEMMA AdmittedKeyed ==
  ASSUME NEW type \in {"Call", "CallResult"}, NEW a \in DOMAIN Schema(type),
         NEW p \in Admitted(type, a)
  PROVE  Keyed(p, MessageKeys)
<1> DEFINE objects(extent) == AsDict(Schema(type)[a], ObjectSchema, extent)
           listed(o) == Enumerated(type, a, o)
           places(extent) == {q \in (DOMAIN objects(extent)) \X SchemaKeys :
                                /\ q[2] \in objects(extent)[q[1]]
                                /\ q[2] \in DOMAIN listed(q[1])}
           values(extent) == UNION {{<<at[1], at[2], v>> : v \in listed(at[1])[at[2]]} :
                                      at \in places(extent)}
<1>1. Admitted(type, a)
        = UNION {{Payload(objects(extent), v, "none") :
                    v \in {NoValue} \union values(extent)} : extent \in {"least", "full"}}
  BY DEF Admitted
<1>2. \A extent : /\ objects(extent) = [o \in DOMAIN objects(extent) |-> objects(extent)[o]]
                  /\ \A o \in DOMAIN objects(extent) : objects(extent)[o] \subseteq SchemaKeys
  BY SchemaDictKeys
<1> HIDE DEF objects
<1>3. ASSUME NEW extent, NEW v \in values(extent)
      PROVE  v = <<v[1], v[2], v[3]>> /\ v[2] \in SchemaKeys
  <2>1. PICK at \in places(extent) : \E w \in listed(at[1])[at[2]] : v = <<at[1], at[2], w>>
    BY <1>3
  <2>2. at[2] \in SchemaKeys
    OBVIOUS
  <2> HIDE DEF places, listed
  <2> QED
    BY <2>1, <2>2
<1> HIDE DEF values
<1>4. PICK extent \in {"least", "full"} :
        \E v \in {NoValue} \union values(extent) : p = Payload(objects(extent), v, "none")
  BY <1>1
<1> PICK v \in {NoValue} \union values(extent) : p = Payload(objects(extent), v, "none")
  BY <1>4
<1> QED
  BY <1>2, <1>3 DEF Keyed, MessageKeys

LEMMA FlawedKeyed ==
  ASSUME KeysFit, NEW type \in {"Call", "CallResult"}, NEW a \in DOMAIN Schema(type),
         NEW p \in Flawed(type, a)
  PROVE  Keyed(p, MessageKeys)
<1> DEFINE s == Schema(type)[a]
           objects == AsDict(s, ObjectSchema, "full")
           with(keys) == [objects EXCEPT !["top"] = keys]
           top(keys) == Payload(with(keys), NoValue, "none")
           enumerated == DOMAIN Enumerated(type, a, "top")
<1>1. "top" \in DOMAIN objects
  BY AsDictHasTop
<1>2. p \in {Payload(objects, NoValue, f) : f \in Flaws}
            \union {top(objects["top"] \ {k}) : k \in s.required}
            \union {top(objects["top"] \union {OtherKey})}
            \union {Payload(objects, <<"top", k, "unlisted">>, "none") : k \in enumerated}
  BY DEF Flawed
<1>3. /\ objects = [o \in DOMAIN objects |-> objects[o]]
      /\ \A o \in DOMAIN objects : objects[o] \subseteq SchemaKeys
  BY SchemaDictKeys
<1> HIDE DEF objects
<1>4. \A keys \in SUBSET MessageKeys :
        /\ with(keys) = [o \in DOMAIN with(keys) |-> with(keys)[o]]
        /\ \A o \in DOMAIN with(keys) : with(keys)[o] \subseteq MessageKeys
  BY <1>3 DEF MessageKeys
<1> HIDE DEF with
<1>5. \A keys \in SUBSET MessageKeys : Keyed(top(keys), MessageKeys)
  BY <1>4 DEF Keyed
<1> HIDE DEF top
<1>6. \A f : Keyed(Payload(objects, NoValue, f), MessageKeys)
  BY <1>3 DEF Keyed, MessageKeys
<1>7. ASSUME NEW k \in enumerated
      PROVE  Keyed(Payload(objects, <<"top", k, "unlisted">>, "none"), MessageKeys)
  <2> DEFINE v == <<"top", k, "unlisted">>
  <2>1. k \in SchemaKeys
    BY DEF Enumerated, KeysFit
  <2>2. v = <<v[1], v[2], v[3]>> /\ v[2] = k
    OBVIOUS
  <2> HIDE DEF v
  <2>3. Keyed(Payload(objects, v, "none"), MessageKeys)
    BY <1>3, <2>1, <2>2 DEF Keyed, MessageKeys
  <2> QED
    BY <2>3 DEF v
<1>8. \A k : objects["top"] \ {k} \in SUBSET MessageKeys
  BY <1>1, <1>3 DEF MessageKeys
<1>9. objects["top"] \union {OtherKey} \in SUBSET MessageKeys
  BY <1>1, <1>3 DEF MessageKeys
<1> HIDE DEF enumerated
<1> QED
  BY <1>2, <1>5, <1>6, <1>7, <1>8, <1>9

LEMMA SettingsKeyed ==
  ASSUME NEW p \in Settings
  PROVE  Keyed(p, MessageKeys)
<1> DEFINE objects == AsDict(ResultSchema["GetConfiguration"], ObjectSchema, "full")
           unset == [objects EXCEPT !["KeyValue"] = @ \ {"value"}]
           values == {Reported("10"), Reported("ten"), Named("OtherKey"), Unset}
<1>1. "GetConfiguration" \in DOMAIN Schema("CallResult")
  BY DEF Schema, ResultSchema
<1>2. /\ objects = [o \in DOMAIN objects |-> objects[o]]
      /\ \A o \in DOMAIN objects : objects[o] \subseteq SchemaKeys
  BY <1>1, SchemaDictKeys DEF Schema
<1>3. \E v \in values : p = Payload(objects, v, "none") \/ p = Payload(unset, v, "none")
  BY DEF Settings
<1> HIDE DEF objects
<1>4. /\ unset = [o \in DOMAIN unset |-> unset[o]]
      /\ \A o \in DOMAIN unset : unset[o] \subseteq SchemaKeys
  BY <1>2
<1>5. "key" \in SchemaKeys /\ "value" \in SchemaKeys
  <2>1. "KeyValue" \in DOMAIN ObjectSchema
    BY DEF ObjectSchema
  <2>2. ObjectSchema["KeyValue"] = Open({"key", "readonly"}, {"value"})
    BY DEF ObjectSchema
  <2> QED
    BY <2>1, <2>2 DEF SchemaKeys, Open, Range
<1>6. \A v \in values : v = <<v[1], v[2], v[3]>> /\ v[2] \in {"key", "value"}
  BY DEF Reported, Named, Unset
<1> HIDE DEF unset, values
<1>7. \A v \in values : Keyed(Payload(objects, v, "none"), MessageKeys)
  BY <1>2, <1>5, <1>6 DEF Keyed, MessageKeys
<1>8. \A v \in values : Keyed(Payload(unset, v, "none"), MessageKeys)
  BY <1>4, <1>5, <1>6 DEF Keyed, MessageKeys
<1> QED
  BY <1>3, <1>7, <1>8

LEMMA InstanceKeyed ==
  ASSUME KeysFit, NEW q \in Instances
  PROVE  Keyed(q.payload, FieldNames)
<1>1. PICK c \in CentralSystemClasses, extent \in {"least", "full"} :
        q \in LET objects == AsDict(RequestClasses[c], DataTypes, extent)
              IN  {Request(name, objects, value) :
                     name \in {c, Deprecated(c)},
                     value \in {NoValue} \union DeclaredValues(c, objects)}
  BY DEF Instances
<1> DEFINE objects == AsDict(RequestClasses[c], DataTypes, extent)
<1>2. PICK name \in {c, Deprecated(c)},
           value \in {NoValue} \union DeclaredValues(c, objects) :
        q = Request(name, objects, value)
  BY <1>1
<1>3. q.payload = Payload(objects, value, "none")
  BY <1>2 DEF Request
<1>4. /\ objects = [o \in DOMAIN objects |-> objects[o]]
      /\ \A o \in DOMAIN objects : objects[o] \subseteq FieldNames
  <2>1. RequestClasses[c].required \union RequestClasses[c].optional \subseteq FieldNames
    BY DEF KeysFit, FieldNames, FieldsOf, Range
  <2>2. \A t \in DOMAIN DataTypes :
          DataTypes[t].required \union DataTypes[t].optional \subseteq FieldNames
    BY DEF FieldNames, FieldsOf, Range
  <2> QED
    BY <2>1, <2>2, TypesKnown, DictKeys
<1> HIDE DEF objects
<1>5. value # NoValue => value = <<value[1], value[2], value[3]>> /\ value[2] \in FieldNames
  BY DEF DeclaredValues
<1> QED
  BY <1>3, <1>4, <1>5 DEF Keyed

\* Until its request is sent, a call has the request that it was given.
InstanceInv ==
  own.state = "validating" /\ own.method = NoMethod => own.request \in Instances

LEMMA InstanceStep ==
  ASSUME TypeInv, InstanceInv, [Next]_vars
  PROVE  InstanceInv'
<1>1. CASE own' = own
  BY <1>1 DEF InstanceInv
<1>2. CASE own'.state # "validating"
  BY <1>2 DEF InstanceInv
<1>3. ASSUME NEW method, NEW request, NEW suppress, NEW alone,
             own' = Invocation(method, request, suppress, alone),
             method \in DOMAIN Methods \/ request \in Instances
      PROVE  InstanceInv'
  <2>1. own'.method = method /\ own'.request = request
    BY <1>3 DEF Invocation
  <2>2. NoMethod \notin DOMAIN Methods
    BY DEF NoMethod, Methods, CommandMethods, ChargingMethods, MaintenanceMethods
  <2> QED
    BY <1>3, <2>1, <2>2 DEF InstanceInv
<1>4. ASSUME NEW f \in Frames, Arrive(f)
      PROVE  InstanceInv'
  BY <1>1, <1>4 DEF Arrive
<1>5. ASSUME NEW r, Reply(r)
      PROVE  InstanceInv'
  <2>1. own' = [own EXCEPT !.answered = TRUE] /\ own.state \in {"waiting", "done"}
    BY <1>5 DEF Reply
  <2>2. own'.state = own.state
    BY <2>1
  <2> QED
    BY <1>2, <2>1, <2>2
<1>6. CASE Loop
  <2>1. CASE Receive
    <3> DEFINE m == Head(inbox)
    <3>1. Ignored(m) \/ Taken(m) \/ Handled(m)
      BY <2>1, ReceiveCases DEF TypeInv, SessionInv
    <3> HIDE DEF m
    <3>2. CASE Ignored(m) \/ Handled(m)
      BY <1>1, <3>2 DEF Ignored, Handled, Fail, Route
    <3>3. CASE Taken(m)
      <4>1. DOMAIN own = OwnFields
        BY <3>3 DEF Taken, TypeInv, CallInv
      <4>2. own'.state = "checking"
        BY <3>3, <4>1 DEF Taken, OwnFields
      <4> QED
        BY <1>2, <4>2
    <3> QED
      BY <3>1, <3>2, <3>3
  <2>2. CASE ValidateRequest \/ ValidateResponse \/ SendResponse \/ ReceiveClosed
    BY <1>1, <2>2 DEF ValidateRequest, ValidateResponse, SendResponse, ReceiveClosed
  <2> QED
    BY <1>6, <2>1, <2>2 DEF Loop
<1>7. CASE Close \/ UNCHANGED vars
  BY <1>1, <1>7 DEF Close, vars
<1>8. CASE \/ \E t \in DOMAIN Methods : StartTask(t)
           \/ \E m \in DOMAIN Methods, alone \in BOOLEAN : CallMethod(m, alone)
           \/ \E r \in Instances, suppress \in BOOLEAN : Call(r, suppress)
  BY <1>3, <1>8 DEF StartTask, CallMethod, Call, Begin
<1>9. CASE ValidateOwn \/ Timeout \/ CheckReply
  <2>1. DOMAIN own = OwnFields
    BY <1>9 DEF ValidateOwn, Timeout, CheckReply, TypeInv, CallInv
  <2>2. Progress
    BY <1>9, CheckReplyCases DEF ValidateOwn, Timeout, Progress
  <2>3. own'.state \in {"waiting", "done"}
    BY <2>1, <2>2 DEF Progress, Finish, OwnFields
  <2> QED
    BY <1>2, <2>3
<1> QED
  BY <1>4, <1>5, <1>6, <1>7, <1>8, <1>9 DEF Next

LEMMA KeysConverted ==
  ASSUME HandlersFit, CallsFit, KeysFit, TypeInv, ConformInv, InstanceInv
  PROVE  KeysSurvive
<1>1. ASSUME NEW p, Keyed(p, MessageKeys)
      PROVE  ToCamelCase(ToSnakeCase(p)) = p
  BY <1>1, ThereAndBack DEF ToCamelCase, ToSnakeCase, KeysFit, MessageKeys
<1>2. ASSUME NEW p, Keyed(p, FieldNames)
      PROVE  ToSnakeCase(ToCamelCase(p)) = p
  BY <1>2, ThereAndBack DEF ToCamelCase, ToSnakeCase, KeysFit
<1>3. ASSUME stage = "validating"
      PROVE  Keyed(msg.payload, MessageKeys)
  <2>1. msg \in IncomingRequests /\ msg.action \in Routed
    BY <1>3 DEF TypeInv, StageInv
  <2>2. msg.payload \in Payloads(msg.action) /\ msg.action \in DOMAIN Schema("Call")
    BY <2>1, RequestsComeIn DEF HandlersFit, Schema
  <2> QED
    BY <2>2, AdmittedKeyed, FlawedKeyed DEF Payloads
<1>4. ASSUME own.state = "checking", own.reply.type = "CallResult"
      PROVE  Keyed(own.reply.payload, MessageKeys)
  <2> DEFINE a == Action_(own)
  <2>1. AnswersAction(own.reply, a)
    BY <1>4 DEF ConformInv, OwnInv
  <2>2. PICK r \in RepliesTo(a) : r.type = "CallResult" /\ r.payload = own.reply.payload
    BY <1>4, <2>1, ReplyIs
  <2>3. r.payload \in Admitted("CallResult", a) \union Flawed("CallResult", a) \union Settings
    BY <2>2, RepliesPayloads
  <2>4. a \in DOMAIN Schema("CallResult")
    BY <1>4, OwnSchemas
  <2> QED
    BY <2>2, <2>3, <2>4, AdmittedKeyed, FlawedKeyed, SettingsKeyed
<1>5. ASSUME own.state = "validating", own.method = NoMethod
      PROVE  Keyed(own.request.payload, FieldNames)
  BY <1>5, InstanceKeyed DEF InstanceInv
<1> QED
  BY <1>1, <1>2, <1>3, <1>4, <1>5 DEF KeysSurvive

(* If each key of a schema and each field of a class comes back from its     *)
(* conversion as it was, then so do all payloads: of a request with whatever *)
(* objects it carries, of the answer to a call, and of any instance that the *)
(* library serialises.                                                       *)
THEOREM PayloadKeysSurvive ==
  ASSUME HandlersFit, CallsFit, KeysFit PROVE Spec => []KeysSurvive
<1>1. TypeInv /\ ConformInv /\ [Next]_vars => ConformInv'
  BY ConformStep
<1>2. Init => InstanceInv
  BY DEF Init, NoCall, InstanceInv
<1>3. TypeInv /\ InstanceInv /\ [Next]_vars => InstanceInv'
  BY InstanceStep
<1>4. TypeInv /\ ConformInv /\ InstanceInv => KeysSurvive
  BY KeysConverted
<1> QED
  BY <1>1, <1>2, <1>3, <1>4, InitConforms, TypesHold, PTL DEF Spec
=============================================================================
