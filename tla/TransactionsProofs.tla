------------------------- MODULE TransactionsProofs -------------------------
(***************************************************************************)
(* Whose transaction ids the Connectors hold, for any set of charge points *)
(* and any ids.                                                            *)
(***************************************************************************)
EXTENDS Transactions, SequenceTheorems, TLAPS

\* The uuids are those of the charge point itself, and the ids that the other
\* servers have given are within the bound.
Inv ==
  /\ TypeOK
  /\ \A p \in Points : starts[p] \in Seq(Uuids[p])
  /\ \A p \in Points : connector[p].lastStart \in Uuids[p] \union {0}

LEMMA UuidsAreNumbers ==
  ASSUME TransactionAssumption
  PROVE  \A p \in Points : Uuids[p] \subseteq Nat \ {0}
BY DEF TransactionAssumption

LEMMA MainForwards == \A p \in Points : Main(p) \in Servers
BY DEF Main, Servers

(* The uuid at a place of what the charge point has said.                   *)
LEMMA SaidUuid ==
  ASSUME TransactionAssumption, Inv, NEW p \in Points, NEW i \in Nat, 1 <= i, i <= Len(starts[p])
  PROVE  starts[p][i] \in Uuids[p] /\ starts[p][i] \in Nat \ {0}
<1>1. starts[p] \in Seq(Uuids[p])
  BY DEF Inv
<1>2. i \in 1..Len(starts[p])
  BY <1>1, LenProperties
<1>3. starts[p][i] \in Uuids[p]
  BY <1>1, <1>2, ElementOfSeq
<1> QED
  BY <1>3, UuidsAreNumbers

LEMMA InvInit ==
  ASSUME TransactionAssumption, Init
  PROVE  Inv
<1>1. \A S : <<>> \in Seq(S) /\ Len(<<>>) = 0
  BY EmptySeq
<1>2. connector \in [Points -> ConnectorType]
      /\ \A p \in Points : connector[p].lastStart = 0
  BY DEF TransactionAssumption, Init, Unknown, ConnectorType
<1>3. /\ starts \in [Points -> Seq(Nat \ {0})]
      /\ \A p \in Points : starts[p] = <<>>
  BY <1>1 DEF Init
<1>4. /\ seen \in [Points -> [Servers -> Nat]]
      /\ \A p \in Points, c \in Servers : seen[p][c] = 0
  BY DEF Init
<1>5. /\ answered \in [Points -> SUBSET Nat] /\ given \in [Points -> SUBSET (0..MaxIssued)]
      /\ issued \in 0..MaxIssued /\ sessions \in Nat
  BY DEF TransactionAssumption, Init
<1> QED
  BY <1>1, <1>2, <1>3, <1>4, <1>5 DEF Inv, TypeOK

LEMMA ConnectStep ==
  ASSUME TransactionAssumption, Inv, NEW p \in Points, Connect(p)
  PROVE  Inv'
<1>1. NewConnector \in ConnectorType /\ NewConnector.lastStart = 0
  BY DEF TransactionAssumption, NewConnector, ConnectorType
<1> QED
  BY <1>1 DEF Connect, sessionVars, Inv, TypeOK

LEMMA Appended ==
  ASSUME NEW S, NEW q \in Seq(S), NEW e \in S
  PROVE  Append(q, e) \in Seq(S) /\ Len(Append(q, e)) = Len(q) + 1
BY AppendProperties

LEMMA StartStep ==
  ASSUME TransactionAssumption, Inv, NEW p \in Points, Start(p)
  PROVE  Inv'
<1>1. PICK u \in Uuids[p] : starts' = [starts EXCEPT ![p] = Append(starts[p], u)]
  BY DEF Start
<1>2. u \in Nat \ {0}
  BY UuidsAreNumbers
<1>3. /\ starts[p] \in Seq(Nat \ {0}) /\ starts[p] \in Seq(Uuids[p])
      /\ Len(starts[p]) \in Nat
  BY LenProperties DEF Inv, TypeOK
<1>4. /\ Append(starts[p], u) \in Seq(Nat \ {0})
      /\ Append(starts[p], u) \in Seq(Uuids[p])
      /\ Len(Append(starts[p], u)) = Len(starts[p]) + 1
  BY <1>2, <1>3, Appended
<1>5. UNCHANGED <<connector, seen, answered, given, issued, sessions>>
  BY DEF Start
<1>6. \A q \in Points : /\ starts'[q] \in Seq(Uuids[q])
                        /\ starts'[q] = starts[q] \/ Len(starts'[q]) = Len(starts[q]) + 1
  BY <1>1, <1>4 DEF Inv, TypeOK
<1>7. starts' \in [Points -> Seq(Nat \ {0})]
  BY <1>1, <1>4 DEF Inv, TypeOK
<1>8. \A q \in Points, c \in Servers : seen[q][c] <= Len(starts'[q])
  <2> TAKE q \in Points, c \in Servers
  <2>1. starts[q] \in Seq(Nat \ {0})
    BY DEF Inv, TypeOK
  <2>2. Len(starts[q]) \in Nat /\ seen[q][c] \in Nat /\ seen[q][c] <= Len(starts[q])
    BY <2>1, LenProperties DEF Inv, TypeOK
  <2> QED
    BY <1>6, <2>2
<1> QED
  BY <1>5, <1>6, <1>7, <1>8 DEF Inv, TypeOK

LEMMA ForwardStep ==
  ASSUME TransactionAssumption, Inv, NEW p \in Points, NEW c \in Servers, Forward(p, c)
  PROVE  Inv'
<1> DEFINE i == seen[p][c] + 1
           u == starts[p][i]
<1>1. starts[p] \in Seq(Nat \ {0}) /\ seen[p][c] \in Nat /\ seen[p][c] < Len(starts[p])
  BY DEF Inv, TypeOK, Forward
<1>2. i \in Nat /\ 1 <= i /\ i <= Len(starts[p])
  BY <1>1, LenProperties
<1>3. u \in Uuids[p] /\ u \in Nat
  BY <1>2, SaidUuid
<1>4. /\ seen' = [seen EXCEPT ![p] = [seen[p] EXCEPT ![c] = i]]
      /\ \/ connector' = connector
         \/ connector' = [connector EXCEPT ![p] = [connector[p] EXCEPT !.lastStart = u]]
      /\ UNCHANGED <<starts, answered, given, issued, sessions>>
  BY DEF Forward
<1> HIDE DEF i, u
<1>5. /\ seen' \in [Points -> [Servers -> Nat]]
      /\ \A q \in Points, d \in Servers : seen'[q][d] <= Len(starts[q])
  BY <1>2, <1>4 DEF Inv, TypeOK
<1>6. [connector[p] EXCEPT !.lastStart = u] \in ConnectorType
      /\ [connector[p] EXCEPT !.lastStart = u].lastStart = u
  BY <1>3 DEF Inv, TypeOK, ConnectorType
<1>7. connector' \in [Points -> ConnectorType]
      /\ \A q \in Points : connector'[q].lastStart \in Uuids[q] \union {0}
  BY <1>3, <1>4, <1>6 DEF Inv, TypeOK
<1> QED
  BY <1>4, <1>5, <1>7 DEF Inv, TypeOK

(* An answer that is passed on: which StartTransaction it is for, and what   *)
(* becomes of the Connectors.                                               *)
LEMMA AnswerPassed ==
  ASSUME TransactionAssumption, Inv, NEW p \in Points, Answered(p)
  PROVE  \E u \in Uuids[p], t \in 0..MaxIssued :
           /\ u # 0 /\ connector' = Learned(u, t)
           /\ given' = [given EXCEPT ![p] = given[p] \union {t}]
           /\ issued' \in 0..MaxIssued
           /\ answered' \in [Points -> SUBSET Nat]
           /\ UNCHANGED <<starts, seen, sessions>>
<1>1. PICK i \in 1..seen[p][Main(p)], t \in 0..MaxIssued :
        /\ issued' = IF p \in Foreign THEN t ELSE issued
        /\ answered' = [answered EXCEPT ![p] = answered[p] \union {i}]
        /\ given' = [given EXCEPT ![p] = given[p] \union {t}]
        /\ connector' = Learned(starts[p][i], t)
        /\ UNCHANGED <<starts, seen, sessions>>
  BY DEF Answered
<1>2. /\ starts[p] \in Seq(Nat \ {0}) /\ seen[p][Main(p)] \in Nat
      /\ seen[p][Main(p)] <= Len(starts[p])
  BY MainForwards DEF Inv, TypeOK
<1>3. i \in Nat /\ 1 <= i /\ i <= Len(starts[p])
  BY <1>2, LenProperties
<1>4. starts[p][i] \in Uuids[p] /\ starts[p][i] # 0
  BY <1>3, SaidUuid
<1>5. issued' \in 0..MaxIssued /\ answered' \in [Points -> SUBSET Nat]
  BY <1>1, <1>3 DEF Inv, TypeOK
<1> QED
  BY <1>1, <1>4, <1>5

(* What learning does to a Connector.                                       *)
LEMMA LearnedConnector ==
  ASSUME Inv, NEW u, NEW t \in 0..MaxIssued, NEW q \in Points
  PROVE  /\ Learned(u, t) \in [Points -> ConnectorType]
         /\ Learned(u, t)[q].lastStart = connector[q].lastStart
         /\ Learned(u, t)[q].transaction =
              IF connector[q].lastStart = u THEN t ELSE connector[q].transaction
BY DEF Inv, TypeOK, Learned, Matches, ConnectorType

LEMMA AnsweredStep ==
  ASSUME TransactionAssumption, Inv, NEW p \in Points, Answered(p)
  PROVE  Inv'
<1>1. PICK u \in Uuids[p], t \in 0..MaxIssued :
        /\ connector' = Learned(u, t)
        /\ given' = [given EXCEPT ![p] = given[p] \union {t}]
        /\ issued' \in 0..MaxIssued
        /\ answered' \in [Points -> SUBSET Nat]
        /\ UNCHANGED <<starts, seen, sessions>>
  BY AnswerPassed
<1>2. /\ connector' \in [Points -> ConnectorType]
      /\ \A q \in Points : connector'[q].lastStart = connector[q].lastStart
  BY <1>1, LearnedConnector
<1>3. given' \in [Points -> SUBSET (0..MaxIssued)]
  BY <1>1 DEF Inv, TypeOK
<1> QED
  BY <1>1, <1>2, <1>3 DEF Inv, TypeOK

LEMMA MeterValuesStep ==
  ASSUME Inv, NEW p \in Points, MeterValues(p)
  PROVE  Inv'
<1>1. PICK t \in given[p] :
        connector' = [connector EXCEPT ![p] = [connector[p] EXCEPT !.transaction = t]]
  BY DEF MeterValues
<1>2. t \in 0..MaxIssued
  BY DEF Inv, TypeOK
<1>3. /\ [connector[p] EXCEPT !.transaction = t] \in ConnectorType
      /\ [connector[p] EXCEPT !.transaction = t].lastStart = connector[p].lastStart
  BY <1>2 DEF Inv, TypeOK, ConnectorType
<1>4. /\ connector' \in [Points -> ConnectorType]
      /\ \A q \in Points : connector'[q].lastStart = connector[q].lastStart
  BY <1>1, <1>3 DEF Inv, TypeOK
<1> QED
  BY <1>4 DEF MeterValues, sessionVars, Inv, TypeOK

LEMMA SessionEndsStep ==
  ASSUME Inv, NEW p \in Points, SessionEnds(p)
  PROVE  Inv'
<1>1. \A S : <<>> \in Seq(S) /\ Len(<<>>) = 0
  BY EmptySeq
<1>2. /\ starts' = [starts EXCEPT ![p] = <<>>]
      /\ seen' = [seen EXCEPT ![p] = [c \in Servers |-> 0]]
      /\ answered' = [answered EXCEPT ![p] = {}]
      /\ sessions' = sessions + 1
      /\ UNCHANGED <<connector, given, issued>>
  BY DEF SessionEnds, Restart
<1>3. /\ starts' \in [Points -> Seq(Nat \ {0})]
      /\ \A q \in Points : starts'[q] \in Seq(Uuids[q])
  BY <1>1, <1>2 DEF Inv, TypeOK
<1>4. /\ seen' \in [Points -> [Servers -> Nat]]
      /\ \A q \in Points, c \in Servers : seen'[q][c] <= Len(starts'[q])
  BY <1>1, <1>2 DEF Inv, TypeOK
<1>5. answered' \in [Points -> SUBSET Nat] /\ sessions' \in Nat
  BY <1>2 DEF Inv, TypeOK
<1> QED
  BY <1>2, <1>3, <1>4, <1>5 DEF Inv, TypeOK

LEMMA InvStep ==
  ASSUME TransactionAssumption, Inv, [Next]_vars
  PROVE  Inv'
<1>1. CASE UNCHANGED vars
  BY <1>1 DEF vars, sessionVars, Inv, TypeOK
<1> QED
  BY <1>1, ConnectStep, StartStep, ForwardStep, AnsweredStep, MeterValuesStep,
     SessionEndsStep DEF Next

LEMMA InvHolds ==
  ASSUME TransactionAssumption
  PROVE  Spec => []Inv
<1>1. Init => Inv
  BY InvInit
<1>2. Inv /\ [Next]_vars => Inv'
  BY InvStep
<1> QED
  BY <1>1, <1>2, PTL DEF Spec

(* Every variable has its type, and no channel has forwarded more than the   *)
(* charge point has said, over any number of sessions.                      *)
THEOREM TypeCorrect ==
  ASSUME TransactionAssumption
  PROVE  Spec => []TypeOK
<1>1. Inv => TypeOK
  BY DEF Inv
<1> QED
  BY <1>1, InvHolds, PTL

-----------------------------------------------------------------------------
LEMMA OwnStep ==
  ASSUME TransactionAssumption, DistinctUuids, Inv, OwnTransaction, [Next]_vars
  PROVE  OwnTransaction'
<1> SUFFICES ASSUME NEW q \in Points
             PROVE  connector'[q].transaction \in given'[q] \union {0}
  BY DEF OwnTransaction
<1>1. connector[q].transaction \in given[q] \union {0}
  BY DEF OwnTransaction
<1>2. ASSUME NEW p \in Points, Answered(p)
      PROVE  connector'[q].transaction \in given'[q] \union {0}
  <2>1. PICK u \in Uuids[p], t \in 0..MaxIssued :
          /\ u # 0 /\ connector' = Learned(u, t)
          /\ given' = [given EXCEPT ![p] = given[p] \union {t}]
    BY <1>2, AnswerPassed
  <2>2. connector'[q].transaction =
          IF connector[q].lastStart = u THEN t ELSE connector[q].transaction
    BY <2>1, LearnedConnector
  <2>3. given[q] \subseteq given'[q] /\ (q = p => t \in given'[q])
    BY <2>1 DEF Inv, TypeOK
  <2>4. connector[q].lastStart = u => q = p
    BY <2>1 DEF Inv, DistinctUuids
  <2> QED
    BY <1>1, <2>2, <2>3, <2>4
<1>3. ASSUME NEW p \in Points, MeterValues(p)
      PROVE  connector'[q].transaction \in given'[q] \union {0}
  BY <1>1, <1>3 DEF MeterValues, Inv, TypeOK, ConnectorType
<1>4. ASSUME NEW p \in Points, Connect(p)
      PROVE  connector'[q].transaction \in given'[q] \union {0}
  BY <1>1, <1>4 DEF Connect, NewConnector, Inv, TypeOK
<1>5. ASSUME NEW p \in Points, NEW c \in Servers, Forward(p, c)
      PROVE  connector'[q].transaction \in given'[q] \union {0}
  BY <1>1, <1>5 DEF Forward, Inv, TypeOK, ConnectorType
<1>6. ASSUME NEW p \in Points, Start(p) \/ SessionEnds(p) \/ UNCHANGED vars
      PROVE  connector'[q].transaction \in given'[q] \union {0}
  BY <1>1, <1>6 DEF Start, SessionEnds, vars
<1> QED
  BY <1>2, <1>3, <1>4, <1>5, <1>6 DEF Next

(* If no two charge points use the same uuid, each Connector holds only      *)
(* transaction ids of its own charge point, although the filters compare an  *)
(* answer with the Connectors of all: equal uuids are the whole cause of the *)
(* ids that are mixed up.                                                   *)
THEOREM DistinctUuidsSuffice ==
  ASSUME TransactionAssumption, DistinctUuids
  PROVE  Spec => []OwnTransaction
<1>1. Init => OwnTransaction
  BY DEF Init, Unknown, OwnTransaction
<1>2. Inv /\ OwnTransaction /\ [Next]_vars => OwnTransaction'
  BY OwnStep
<1> QED
  BY <1>1, <1>2, InvHolds, PTL DEF Spec
=============================================================================
