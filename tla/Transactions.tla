---------------------------- MODULE Transactions ----------------------------
(***************************************************************************)
(* The transaction ids of all charge points.  The filters of their proxy   *)
(* sessions write into g_connector, which they share, and which outlives   *)
(* them: the uuid of a StartTransaction on its way up, the transaction id  *)
(* of the answer on its way down.                                          *)
(*                                                                         *)
(* Of a session only the StartTransactions are kept, in the order in which *)
(* each channel forwards them; the rest of it is Proxy.  A charge point    *)
(* has one connector.                                                      *)
(***************************************************************************)
EXTENDS Naturals, SequencesExt

CONSTANTS
  Points,       \* the charge points
  Foreign,      \* those with a cms_server_url: the other server is the main one
  Uuids,        \* the ids that each uses for its requests
  MaxStarts,    \* bound: StartTransactions of a session
  MaxIssued,    \* bound: transaction ids that the other servers give
  MaxSessions   \* bound: how often sessions end

TransactionAssumption ==
  /\ Foreign \subseteq Points
  /\ Uuids \in [Points -> SUBSET (Nat \ {0})]
  /\ MaxStarts \in Nat /\ MaxIssued \in Nat /\ MaxSessions \in Nat

VARIABLES
  connector,  \* g_connector: whether there is a Connector for each charge
              \* point, last_StartTransaction_uuid and transaction_id
  starts,     \* the uuids of the StartTransactions of each session
  seen,       \* how many of them each channel has forwarded
  answered,   \* those that the main server has answered
  given,      \* history: the transaction ids that each charge point was given
  issued,     \* how many transaction ids the other servers have given
  sessions    \* how much of the bound is used

sessionVars == <<starts, seen, answered>>
vars == <<connector, sessionVars, given, issued, sessions>>

Channels(p) == IF p \in Foreign THEN {"PSN", "CMS"} ELSE {"PSN"}
Main(p) == IF p \in Foreign THEN "CMS" ELSE "PSN"
Servers == {"PSN", "CMS"}

\* Connector.__init__; 0 stands for no uuid and for the default id,
\* which is the number of the connector.
NewConnector == [exists |-> TRUE, lastStart |-> 0, transaction |-> 0]
Unknown == [exists |-> FALSE, lastStart |-> 0, transaction |-> 0]

Init ==
  /\ connector = [p \in Points |-> Unknown]
  /\ starts = [p \in Points |-> <<>>]
  /\ seen = [p \in Points |-> [c \in Servers |-> 0]]
  /\ answered = [p \in Points |-> {}]
  /\ given = [p \in Points |-> {}]
  /\ issued = 0
  /\ sessions = 0

\* The channel to PSN is connected: ChargePoint.__init__ registers a Connector.
Connect(p) ==
  /\ connector' = [connector EXCEPT ![p] = NewConnector]
  /\ UNCHANGED <<sessionVars, given, issued, sessions>>

\* The charge point does not use an id twice in a session.
Start(p) ==
  /\ Len(starts[p]) < MaxStarts
  /\ \E u \in Uuids[p] \ Range(starts[p]) :
       starts' = [starts EXCEPT ![p] = Append(@, u)]
  /\ UNCHANGED <<connector, seen, answered, given, issued, sessions>>

\* router_filter_cp_to_cms()
Forward(p, c) ==
  /\ c \in Channels(p) /\ seen[p][c] < Len(starts[p])
  /\ seen' = [seen EXCEPT ![p][c] = @ + 1]
  /\ connector' = IF ~connector[p].exists THEN connector
                  ELSE [connector EXCEPT ![p].lastStart = starts[p][seen[p][c] + 1]]
  /\ UNCHANGED <<starts, answered, given, issued, sessions>>

Matches(q, u) == connector[q].lastStart = u

\* router_filter_cms_to_cp(): the transaction id is taken over by every
\* Connector whose uuid is that of the answer.
Learned(u, t) ==
  [q \in Points |-> IF Matches(q, u) THEN [connector[q] EXCEPT !.transaction = t]
                    ELSE connector[q]]

\* The main server answers, another one with an id of its own, this one
\* (on_start_transaction()) with the one that the Connector has, and the answer
\* passes the filter.  What it waits for on its way is in when the step is taken.
Answered(p) ==
  \E i \in 1..seen[p][Main(p)], t \in 0..MaxIssued :
    /\ i \notin answered[p]
    /\ IF p \in Foreign THEN t = issued + 1 ELSE t = connector[p].transaction
    /\ issued' = IF p \in Foreign THEN t ELSE issued
    /\ answered' = [answered EXCEPT ![p] = @ \union {i}]
    /\ given' = [given EXCEPT ![p] = @ \union {t}]
    /\ connector' = Learned(starts[p][i], t)
    /\ UNCHANGED <<starts, seen, sessions>>

\* on_MeterValues(): the charge point reports a transaction it was given.
MeterValues(p) ==
  /\ connector[p].exists
  /\ \E t \in given[p] : connector' = [connector EXCEPT ![p].transaction = t]
  /\ UNCHANGED <<sessionVars, given, issued, sessions>>

Restart(p) == seen' = [seen EXCEPT ![p] = [c \in Servers |-> 0]]

\* All tasks of the session are cancelled; its Connector stays.
SessionEnds(p) ==
  /\ sessions < MaxSessions
  /\ sessions' = sessions + 1
  /\ starts' = [starts EXCEPT ![p] = <<>>]
  /\ Restart(p)
  /\ answered' = [answered EXCEPT ![p] = {}]
  /\ UNCHANGED <<connector, given, issued>>

Next ==
  \E p \in Points :
    \/ Connect(p) \/ Start(p) \/ Answered(p) \/ MeterValues(p) \/ SessionEnds(p)
    \/ \E c \in Servers : Forward(p, c)

Spec == Init /\ [][Next]_vars

-----------------------------------------------------------------------------
ConnectorType == [exists : BOOLEAN, lastStart : Nat, transaction : 0..MaxIssued]

(* Every variable has its type, and no channel has forwarded more than the  *)
(* charge point has said.                                                   *)
TypeOK ==
  /\ connector \in [Points -> ConnectorType]
  /\ starts \in [Points -> Seq(Nat \ {0})]
  /\ seen \in [Points -> [Servers -> Nat]]
  /\ \A p \in Points, c \in Servers : seen[p][c] <= Len(starts[p])
  /\ answered \in [Points -> SUBSET Nat]
  /\ given \in [Points -> SUBSET (0..MaxIssued)]
  /\ issued \in 0..MaxIssued /\ sessions \in Nat

(* A Connector has no transaction id but the default or one that its own    *)
(* charge point was given: CpChannelAbs.py:92 says "when connector send     *)
(* StartTransaction to save uuid", and line 69 "when CMS/PSN send           *)
(* StartTransaction ACK, get transactionID from payload".                   *)
OwnTransaction ==
  \A p \in Points : connector[p].transaction \in given[p] \union {0}

\* No two charge points use the same id, ever.
DistinctUuids ==
  \A p, q \in Points : p # q => Uuids[p] \intersect Uuids[q] = {}
=============================================================================
