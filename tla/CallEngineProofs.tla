-------------------------- MODULE CallEngineProofs --------------------------
(***************************************************************************)
(* Theorems of CallEngine for any finite set of calls, any timeout and any *)
(* backlog, proved from three inductive invariants: the lock, the timer    *)
(* and, when the ids are fresh, the ids.                                   *)
(***************************************************************************)
EXTENDS CallEngine, SequenceTheorems, TLAPS

(* The steps of Next as one disjunction of actions, for the case splits.    *)
USE DEF Holds, Finish, NextStamp, Matches, TimeoutLeft, TimerRuns

LEMMA StepCases ==
  ASSUME Next
  PROVE  \/ \E c \in Calls :
              \/ Start(c) \/ ValidRequest(c) \/ InvalidRequest(c)
              \/ Send(c) \/ SendFails(c) \/ AcceptReply(c) \/ IgnoreReply(c)
              \/ Timeout(c) \/ CheckResult(c)
         \/ Tick
         \/ RouteReply \/ RouteMalformed \/ RouteCall
         \/ FinishHandling \/ ConnectionClosed
         \/ PeerReply \/ StrayReply \/ PeerRequest \/ Disconnect
         \/ Finished
  BY DEF Next, CallStep, LoopStep, Environment

-----------------------------------------------------------------------------
(* The call that waits for a reply is at the head of the lock's queue: what *)
(* makes it safe for that call to take the head off, and the reason only    *)
(* one request is outstanding.                                              *)
WaiterHolds == \A c \in Calls : pc[c] = "wait" => Holds(c)

LEMMA TypeStep ==
  ASSUME TypeOK, WaiterHolds, [Next]_vars
  PROVE  TypeOK'
<1> USE CallsAssumption, OptionsAssumption, BoundsAssumption DEF TypeOK
<1>1. ASSUME NEW c \in Calls, Start(c) PROVE TypeOK'
  <2>1. stamp' \in 1..(MaxStamp + 1) /\ stamp \in 0..MaxStamp
    BY <1>1 DEF Start
  <2>2. lockQ' \in Seq(Calls)
    <3>1. lockQ' \in {lockQ, Append(lockQ, c)}
      BY <1>1 DEF Start
    <3>2. Append(lockQ, c) \in Seq(Calls)
      BY AppendProperties
    <3> QED
      BY <3>1, <3>2
  <2> QED
    BY <1>1, <2>1, <2>2 DEF Start, netVars
<1>2. ASSUME NEW c \in Calls, ValidRequest(c) PROVE TypeOK'
  <2>1. lockQ' \in Seq(Calls)
    BY <1>2, AppendProperties DEF ValidRequest
  <2> QED
    BY <1>2, <2>1 DEF ValidRequest, netVars
<1>3. ASSUME NEW c \in Calls, InvalidRequest(c) PROVE TypeOK'
  BY <1>3 DEF InvalidRequest, netVars, Outcome
<1>4. ASSUME NEW c \in Calls, Send(c) PROVE TypeOK'
  BY <1>4 DEF Send
<1>5. ASSUME NEW c \in Calls, SendFails(c) PROVE TypeOK'
  <2>1. lockQ' \in Seq(Calls)
    BY <1>5, HeadTailProperties DEF SendFails
  <2> QED
    BY <1>5, <2>1 DEF SendFails, netVars, Outcome
<1>6. ASSUME NEW c \in Calls, AcceptReply(c) PROVE TypeOK'
  <2>1. responseQ # <<>> /\ responseQ' = Tail(responseQ)
    BY <1>6 DEF AcceptReply
  <2>2. responseQ' \in Seq(Reply) /\ Head(responseQ) \in Reply
    BY <2>1, HeadTailProperties
  <2>3. lockQ' \in Seq(Calls)
    BY <1>6, HeadTailProperties DEF AcceptReply, WaiterHolds
  <2>4. answeredBy' \in [Calls -> Calls \union {NoCall}]
    BY <1>6, <2>2 DEF AcceptReply, Reply
  <2>5. /\ pc' \in [Calls -> {"new", "validate", "lock", "wait", "check", "done"}]
        /\ out' \in [Calls -> Outcome]
    BY <1>6 DEF AcceptReply, Outcome
  <2> QED
    BY <1>6, <2>2, <2>3, <2>4, <2>5 DEF AcceptReply, netVars
<1>7. ASSUME NEW c \in Calls, IgnoreReply(c) PROVE TypeOK'
  <2>1. responseQ' \in Seq(Reply)
    BY <1>7, HeadTailProperties DEF IgnoreReply
  <2> QED
    BY <1>7, <2>1 DEF IgnoreReply, netVars
<1>8. ASSUME NEW c \in Calls, Timeout(c) PROVE TypeOK'
  <2>1. lockQ' \in Seq(Calls)
    BY <1>8, HeadTailProperties DEF Timeout, WaiterHolds
  <2> QED
    BY <1>8, <2>1 DEF Timeout, netVars, Outcome
<1>9. ASSUME NEW c \in Calls, CheckResult(c) PROVE TypeOK'
  BY <1>9 DEF CheckResult, netVars, Outcome
<1>11. CASE Tick
  BY <1>11 DEF Tick, netVars
<1>12. CASE RouteReply
  <2>1. Head(downlink) \in Message /\ downlink' \in Seq(Message)
    BY <1>12, HeadTailProperties DEF RouteReply
  <2>2. Head(downlink) \in Reply
    BY <1>12, <2>1 DEF RouteReply, Message
  <2>3. responseQ' \in Seq(Reply)
    BY <1>12, <2>2, AppendProperties DEF RouteReply
  <2> QED
    BY <1>12, <2>1, <2>3 DEF RouteReply, callVars
<1>13. CASE RouteMalformed
  <2>1. downlink' \in Seq(Message)
    BY <1>13, HeadTailProperties DEF RouteMalformed
  <2> QED
    BY <1>13, <2>1 DEF RouteMalformed, callVars
<1>14. CASE RouteCall
  <2>1. downlink' \in Seq(Message)
    BY <1>14, HeadTailProperties DEF RouteCall
  <2> QED
    BY <1>14, <2>1 DEF RouteCall, callVars
<1>15. CASE FinishHandling
  BY <1>15 DEF FinishHandling, callVars, netVars
<1>16. CASE ConnectionClosed
  BY <1>16 DEF ConnectionClosed, callVars, netVars
<1>17. ASSUME NEW m \in Message, Receive(m) PROVE TypeOK'
  <2>1. downlink' \in Seq(Message)
    BY <1>17, AppendProperties DEF Receive
  <2> QED
    BY <1>17, <2>1 DEF Receive, callVars
<1>18. CASE PeerReply
  <2>1. PICK c \in sent, k \in {"result", "error"} :
          Receive([kind |-> k, uid |-> uid[c], for |-> c])
    BY <1>18 DEF PeerReply
  <2>2. [kind |-> k, uid |-> uid[c], for |-> c] \in Message
    BY DEF Message, Reply
  <2> QED
    BY <1>17, <2>1, <2>2
<1>19. CASE StrayReply
  <2>1. [kind |-> "result", uid |-> 0, for |-> NoCall] \in Message
    BY DEF Message, Reply
  <2> QED
    BY <1>17, <1>19, <2>1 DEF StrayReply
<1>20. CASE PeerRequest
  <2>1. PICK k \in {"call", "malformed"} : Receive([kind |-> k])
    BY <1>20 DEF PeerRequest
  <2>2. [kind |-> k] \in Message
    BY DEF Message
  <2> QED
    BY <1>17, <2>1, <2>2
<1>21. CASE Disconnect
  <2>1. downlink' \in Seq(Message)
    <3>1. PICK n \in 0..Len(downlink) : downlink' = SubSeq(downlink, 1, n)
      BY <1>21 DEF Disconnect
    <3> QED
      BY <3>1, SubSeqProperties
  <2> QED
    BY <1>21, <2>1 DEF Disconnect, callVars
<1>22. CASE UNCHANGED vars
  BY <1>22 DEF vars, callVars, netVars
<1> QED
  BY StepCases, <1>1, <1>2, <1>3, <1>4, <1>5, <1>6, <1>7, <1>8, <1>9,
     <1>11, <1>12, <1>13, <1>14, <1>15, <1>16, <1>18, <1>19,
     <1>20, <1>21, <1>22 DEF Finished

LEMMA LockStep ==
  ASSUME TypeOK, WaiterHolds, [Next]_vars
  PROVE  WaiterHolds'
<1> USE DEF TypeOK, WaiterHolds
<1>1. ASSUME NEW c \in Calls, lockQ' = Append(lockQ, c), pc[c] # "wait",
             \E v \in {"validate", "lock"} : pc' = [pc EXCEPT ![c] = v]
      PROVE  WaiterHolds'
  <2>1. lockQ # <<>> => Head(lockQ') = Head(lockQ)
    BY <1>1, HeadTailAppend, AppendProperties
  <2>2. lockQ' # <<>>
    BY <1>1, AppendProperties
  <2> QED
    BY <1>1, <2>1, <2>2
<1>2. ASSUME NEW c \in Calls, Start(c) PROVE WaiterHolds'
  <2>1. CASE c \in SkipValidation
    BY <1>1, <1>2, <2>1 DEF Start
  <2>2. CASE c \notin SkipValidation
    BY <1>2, <2>2 DEF Start
  <2> QED
    BY <2>1, <2>2
<1>3. ASSUME NEW c \in Calls, ValidRequest(c) PROVE WaiterHolds'
  BY <1>1, <1>3 DEF ValidRequest
<1>4. ASSUME NEW c \in Calls, InvalidRequest(c) PROVE WaiterHolds'
  BY <1>4 DEF InvalidRequest
<1>5. ASSUME NEW c \in Calls, Send(c) PROVE WaiterHolds'
  BY <1>5 DEF Send
\* The holder leaves: no other call waits, for it would hold the lock too.
<1>6. ASSUME NEW c \in Calls, Holds(c), pc' \in [Calls -> STRING],
             \A d \in Calls \ {c} : pc'[d] = pc[d], pc'[c] # "wait"
      PROVE  WaiterHolds'
  BY <1>6
<1>7. ASSUME NEW c \in Calls, SendFails(c) PROVE WaiterHolds'
  BY <1>6, <1>7 DEF SendFails
<1>8. ASSUME NEW c \in Calls, AcceptReply(c) PROVE WaiterHolds'
  <2>1. \E v \in {"done", "check"} : pc' = [pc EXCEPT ![c] = v]
    BY <1>8 DEF AcceptReply
  <2> QED
    BY <1>6, <1>8, <2>1 DEF AcceptReply
<1>9. ASSUME NEW c \in Calls, IgnoreReply(c) PROVE WaiterHolds'
  BY <1>9 DEF IgnoreReply
<1>10. ASSUME NEW c \in Calls, Timeout(c) PROVE WaiterHolds'
  BY <1>6, <1>10 DEF Timeout
<1>11. ASSUME NEW c \in Calls, CheckResult(c) PROVE WaiterHolds'
  BY <1>11 DEF CheckResult
<1>12. ASSUME UNCHANGED <<pc, lockQ>> PROVE WaiterHolds'
  BY <1>12
<1> QED
  BY StepCases, <1>2, <1>3, <1>4, <1>5, <1>7, <1>8, <1>9, <1>10, <1>11, <1>12
     DEF vars, callVars, Tick, RouteReply, RouteMalformed,
         RouteCall, FinishHandling, ConnectionClosed, PeerReply, StrayReply,
         PeerRequest, Receive, Disconnect, Finished

-----------------------------------------------------------------------------
(* Every reachable state is well typed, and the waiting call holds the lock. *)
THEOREM TypeCorrect == Spec => [](TypeOK /\ WaiterHolds)
<1>1. Init => TypeOK /\ WaiterHolds
  BY CallsAssumption, OptionsAssumption, BoundsAssumption
     DEF Init, TypeOK, WaiterHolds, Outcome
<1>2. TypeOK /\ WaiterHolds /\ [Next]_vars => (TypeOK /\ WaiterHolds)'
  BY TypeStep, LockStep
<1> QED
  BY <1>1, <1>2, PTL DEF Spec

(* Two requests are never outstanding at once: what the docstring of call() *)
(* promises, whatever the peer sends and whenever the timer fires.          *)
THEOREM SerialCalls == Spec => []OneOutstanding
<1>1. WaiterHolds => OneOutstanding
  BY DEF WaiterHolds, OneOutstanding
<1> QED
  BY TypeCorrect, <1>1, PTL

-----------------------------------------------------------------------------
(* The timer.                                                              *)

(* A call that has not been sent has not waited; one that waits has waited  *)
(* for what is gone of its timeout.                                         *)
TimerInv ==
  \A c \in Calls :
    /\ pc[c] \in {"new", "validate", "lock"} => waited[c] = 0
    /\ pc[c] = "wait" => waited[c] + left = ResponseTimeout
    /\ out[c] = "timeout" => pc[c] = "done" /\ waited[c] = ResponseTimeout
    /\ waited[c] <= ResponseTimeout

LEMMA TimerStep ==
  ASSUME TypeOK, WaiterHolds, TimerInv, [Next]_vars
  PROVE  TimerInv'
<1> USE BoundsAssumption DEF TypeOK, TimerInv
<1>1. ASSUME NEW c \in Calls, Start(c) PROVE TimerInv'
  <2>1. \E v \in {"validate", "lock"} : pc' = [pc EXCEPT ![c] = v]
    BY <1>1 DEF Start
  <2> QED
    BY <1>1, <2>1 DEF Start
<1>2. ASSUME NEW c \in Calls, ValidRequest(c) PROVE TimerInv'
  BY <1>2 DEF ValidRequest
<1>3. ASSUME NEW c \in Calls, InvalidRequest(c) PROVE TimerInv'
  BY <1>3 DEF InvalidRequest
\* No other call waits, so none sees its timer restarted.
<1>4. ASSUME NEW c \in Calls, Send(c) PROVE TimerInv'
  <2>1. \A d \in Calls : pc[d] # "wait"
    BY <1>4 DEF Send, WaiterHolds
  <2> QED
    BY <1>4, <2>1 DEF Send
<1>5. ASSUME NEW c \in Calls, SendFails(c) PROVE TimerInv'
  BY <1>5 DEF SendFails
<1>6. ASSUME NEW c \in Calls, AcceptReply(c) PROVE TimerInv'
  <2>1. /\ pc[c] = "wait" /\ UNCHANGED <<left, waited>>
        /\ \E v \in {"done", "check"} : pc' = [pc EXCEPT ![c] = v]
        /\ \E v \in {"result", "raised", "suppressed", out[c]} :
              out' = [out EXCEPT ![c] = v]
    BY <1>6 DEF AcceptReply
  <2>2. out[c] # "timeout"
    BY <2>1
  <2> QED
    BY <2>1, <2>2
<1>7. ASSUME NEW c \in Calls, IgnoreReply(c) PROVE TimerInv'
  BY <1>7 DEF IgnoreReply
<1>8. ASSUME NEW c \in Calls, Timeout(c) PROVE TimerInv'
  BY <1>8 DEF Timeout
<1>9. ASSUME NEW c \in Calls, CheckResult(c) PROVE TimerInv'
  BY <1>9 DEF CheckResult
<1>10. CASE Tick
  <2>1. PICK c \in Calls : /\ pc[c] = "wait" /\ left > 0 /\ left' = left - 1
                           /\ waited' = [waited EXCEPT ![c] = @ + 1]
                           /\ UNCHANGED <<pc, out>>
    BY <1>10 DEF Tick
  <2>2. \A d \in Calls : pc[d] = "wait" => d = c
    BY <2>1 DEF WaiterHolds
  <2>3. waited[c] + left = ResponseTimeout /\ out[c] # "timeout"
    BY <2>1
  <2> QED
    BY <2>1, <2>2, <2>3
<1>11. ASSUME UNCHANGED <<pc, out, left, waited>> PROVE TimerInv'
  BY <1>11
<1> QED
  BY StepCases, <1>1, <1>2, <1>3, <1>4, <1>5, <1>6, <1>7, <1>8, <1>9, <1>10, <1>11
     DEF vars, callVars, RouteReply, RouteMalformed,
         RouteCall, FinishHandling, ConnectionClosed, PeerReply, StrayReply,
         PeerRequest, Receive, Disconnect, Finished

(* A call gives up exactly ResponseTimeout after its request was sent, and  *)
(* never holds the lock longer, however many foreign replies it discards.   *)
THEOREM ExactTimeouts == Spec => []TimeoutExact
<1>1. Init => TimerInv
  BY BoundsAssumption DEF Init, TimerInv
<1>2. TypeOK /\ WaiterHolds /\ TimerInv /\ [Next]_vars => TimerInv'
  BY TimerStep
<1>3. TimerInv => TimeoutExact
  BY DEF TimerInv, TimeoutExact
<1> QED
  BY <1>1, <1>2, <1>3, TypeCorrect, PTL DEF Spec

-----------------------------------------------------------------------------
(* The ids.                                                                *)

Elements(s) == {s[i] : i \in 1..Len(s)}

LEMMA ElementsAppend ==
  ASSUME NEW S, NEW s \in Seq(S), NEW e \in S
  PROVE  Elements(Append(s, e)) \subseteq Elements(s) \union {e}
BY AppendProperties DEF Elements

LEMMA ElementsTail ==
  ASSUME NEW S, NEW s \in Seq(S), s # <<>>
  PROVE  /\ Head(s) \in Elements(s) \intersect S
         /\ Elements(Tail(s)) \subseteq Elements(s)
<1>1. Head(s) = s[1] /\ 1 \in 1..Len(s)
  BY EmptySeq
<1> QED
  BY <1>1, HeadTailProperties DEF Elements

LEMMA ElementsPrefix ==
  ASSUME NEW S, NEW s \in Seq(S), NEW n \in 0..Len(s)
  PROVE  Elements(SubSeq(s, 1, n)) \subseteq Elements(s)
<1>1. \A i \in 1..n : s[i] \in S
  BY ElementOfSeq
<1> QED
  BY <1>1, SubSeqProperties DEF Elements

(* A reply carries the id of the request it answers; a stray one no id.     *)
Honest(m) ==
  IF m.for = NoCall THEN m.uid = 0 ELSE m.uid # 0 /\ m.uid = uid[m.for]

(* A call draws its id once and keeps it, so the id of a reply under way is  *)
(* that of the request it was made for.                                     *)
HonestInv ==
  /\ \A c \in Calls : pc[c] = "new" <=> uid[c] = 0
  /\ \A c \in sent : uid[c] # 0
  /\ \A m \in Elements(responseQ) \union Elements(downlink) :
       m \in Reply => Honest(m)

(* Fresh ids never repeat, so the id names the request.                     *)
IdInv ==
  /\ \A c \in Calls : uid[c] < stamp
  /\ \A c, d \in Calls : uid[c] = uid[d] => uid[c] = 0 \/ c = d
  /\ ReplyMatchesRequest

\* Only these messages can be queued after a step, beside those queued before.
Fresh ==
  [kind : {"call", "malformed"}] \union {[kind |-> "result", uid |-> 0, for |-> NoCall]}
  \union {[kind |-> k, uid |-> uid[c], for |-> c] : k \in {"result", "error"}, c \in sent}

LEMMA QueuedStep ==
  ASSUME TypeOK, [Next]_vars
  PROVE  Elements(responseQ') \union Elements(downlink')
           \subseteq Elements(responseQ) \union Elements(downlink) \union Fresh
<1> DEFINE Goal == Elements(responseQ') \union Elements(downlink')
             \subseteq Elements(responseQ) \union Elements(downlink) \union Fresh
<1> USE DEF TypeOK
<1>1. ASSUME UNCHANGED <<responseQ, downlink>> PROVE Goal
  BY <1>1
<1>2. ASSUME responseQ # <<>>, responseQ' = Tail(responseQ), UNCHANGED downlink
      PROVE  Goal
  BY <1>2, ElementsTail
<1>3. ASSUME downlink # <<>>, downlink' = Tail(downlink), UNCHANGED responseQ
      PROVE  Goal
  BY <1>3, ElementsTail
<1>4. CASE RouteReply
  <2>1. Head(downlink) \in Elements(downlink) \intersect Message
    BY <1>4, ElementsTail DEF RouteReply
  <2>2. Head(downlink) \in Reply
    BY <1>4, <2>1 DEF RouteReply, Message
  <2>3. Elements(responseQ') \subseteq Elements(responseQ) \union {Head(downlink)}
    BY <1>4, <2>2, ElementsAppend DEF RouteReply
  <2>4. Elements(downlink') \subseteq Elements(downlink)
    BY <1>4, ElementsTail DEF RouteReply
  <2> QED
    BY <2>1, <2>3, <2>4
<1>5. ASSUME NEW m \in Fresh, Receive(m) PROVE Goal
  <2>1. m \in Message
    <3>1. \A k \in {"result", "error"}, c \in sent :
            [kind |-> k, uid |-> uid[c], for |-> c] \in Reply
      BY DEF Reply
    <3>2. [kind |-> "result", uid |-> 0, for |-> NoCall] \in Reply
      BY BoundsAssumption DEF Reply
    <3> QED
      BY <3>1, <3>2 DEF Fresh, Message
  <2>2. Elements(downlink') \subseteq Elements(downlink) \union {m}
    BY <1>5, <2>1, ElementsAppend DEF Receive
  <2> QED
    BY <1>5, <2>2 DEF Receive
<1>6. CASE PeerReply
  BY <1>5, <1>6 DEF PeerReply, Fresh
<1>7. CASE StrayReply
  BY <1>5, <1>7 DEF StrayReply, Fresh
<1>8. CASE PeerRequest
  BY <1>5, <1>8 DEF PeerRequest, Fresh
<1>9. CASE Disconnect
  <2>1. PICK n \in 0..Len(downlink) : downlink' = SubSeq(downlink, 1, n)
    BY <1>9 DEF Disconnect
  <2>2. Elements(downlink') \subseteq Elements(downlink)
    BY <2>1, ElementsPrefix
  <2> QED
    BY <1>9, <2>2 DEF Disconnect
<1>10. ASSUME NEW c \in Calls, AcceptReply(c) \/ IgnoreReply(c) PROVE Goal
  BY <1>2, <1>10 DEF AcceptReply, IgnoreReply, netVars
<1>11. CASE RouteMalformed \/ RouteCall
  BY <1>3, <1>11 DEF RouteMalformed, RouteCall
<1> QED
  BY StepCases, <1>1, <1>4, <1>6, <1>7, <1>8, <1>9, <1>10, <1>11
     DEF vars, netVars, Start, ValidRequest, InvalidRequest, Send, SendFails,
         Timeout, CheckResult, Tick, FinishHandling,
         ConnectionClosed, Finished

LEMMA HonestStep ==
  ASSUME TypeOK, HonestInv, [Next]_vars
  PROVE  HonestInv'
<1> USE CallsAssumption DEF TypeOK
<1> DEFINE Queued == Elements(responseQ) \union Elements(downlink)
\* An honest reply stays honest while the drawn ids keep their owners.
<1>1. ASSUME \A c \in Calls : uid[c] # 0 => uid'[c] = uid[c]
      PROVE  \A m \in Elements(responseQ') \union Elements(downlink') :
               m \in Reply => Honest(m)'
  <2> TAKE m \in Elements(responseQ') \union Elements(downlink')
  <2> HAVE m \in Reply
  <2>1. m \in Queued \/ m \in Fresh
    BY QueuedStep
  <2>2. m.for \in Calls \union {NoCall}
    BY DEF Reply
  <2>3. CASE m \in Queued
    BY <1>1, <2>2, <2>3 DEF HonestInv, Honest
  <2>4. CASE m \in Fresh
    <3>1. CASE m = [kind |-> "result", uid |-> 0, for |-> NoCall]
      BY <3>1 DEF Honest
    <3>2. ASSUME NEW k \in {"result", "error"}, NEW c \in sent,
                 m = [kind |-> k, uid |-> uid[c], for |-> c]
          PROVE  Honest(m)'
      BY <1>1, <3>2 DEF Honest, HonestInv
    <3>3. CASE m \in [kind : {"call", "malformed"}]
      <4>1. m.kind \in {"call", "malformed"}
        BY <3>3
      <4>2. m.kind \in {"result", "error"}
        BY DEF Reply
      <4> QED
        BY <4>1, <4>2
    <3> QED
      BY <2>4, <3>1, <3>2, <3>3 DEF Fresh
  <2> QED
    BY <2>1, <2>3, <2>4
<1>2. ASSUME UNCHANGED <<uid, sent>>,
             \A c \in Calls : pc'[c] = "new" <=> pc[c] = "new"
      PROVE  HonestInv'
  BY <1>1, <1>2 DEF HonestInv
<1>3. ASSUME NEW c \in Calls, Start(c) PROVE HonestInv'
  <2>1. /\ uid[c] = 0 /\ uid' = [uid EXCEPT ![c] = stamp] /\ stamp # 0
        /\ UNCHANGED sent
        /\ \E v \in {"validate", "lock"} : pc' = [pc EXCEPT ![c] = v]
    BY <1>3 DEF Start, HonestInv, netVars
  <2>2. \A d \in Calls : uid[d] # 0 => uid'[d] = uid[d]
    BY <2>1
  <2> QED
    BY <1>1, <2>1, <2>2 DEF HonestInv
<1>4. ASSUME NEW c \in Calls, Send(c) PROVE HonestInv'
  <2>1. /\ uid[c] # 0 /\ sent' = sent \union {c} /\ UNCHANGED uid
        /\ pc[c] # "new" /\ pc' = [pc EXCEPT ![c] = "wait"]
    BY <1>4 DEF Send, HonestInv
  <2> QED
    BY <1>1, <2>1 DEF HonestInv
<1>5. ASSUME NEW c \in Calls, pc[c] # "new", UNCHANGED <<uid, sent>>,
             \E v \in {"lock", "check", "done"} : pc' = [pc EXCEPT ![c] = v]
      PROVE  HonestInv'
  BY <1>2, <1>5
<1>6. ASSUME UNCHANGED <<pc, uid, sent>> PROVE HonestInv'
  BY <1>2, <1>6
<1>7. ASSUME NEW c \in Calls, AcceptReply(c) PROVE HonestInv'
  <2>1. pc[c] = "wait" /\ UNCHANGED <<uid, sent>>
        /\ \E v \in {"done", "check"} : pc' = [pc EXCEPT ![c] = v]
    BY <1>7 DEF AcceptReply, netVars
  <2> QED
    BY <1>5, <2>1
<1>8. ASSUME NEW c \in Calls, ValidRequest(c) PROVE HonestInv'
  BY <1>5, <1>8 DEF ValidRequest, netVars
<1>9. ASSUME NEW c \in Calls, InvalidRequest(c) PROVE HonestInv'
  BY <1>5, <1>9 DEF InvalidRequest, netVars
<1>10. ASSUME NEW c \in Calls, SendFails(c) PROVE HonestInv'
  BY <1>5, <1>10 DEF SendFails, netVars
<1>11. ASSUME NEW c \in Calls, Timeout(c) PROVE HonestInv'
  BY <1>5, <1>11 DEF Timeout, netVars
<1>12. ASSUME NEW c \in Calls, CheckResult(c) PROVE HonestInv'
  BY <1>5, <1>12 DEF CheckResult, netVars
<1> QED
  BY StepCases, <1>3, <1>4, <1>6, <1>7, <1>8, <1>9, <1>10, <1>11, <1>12
     DEF vars, callVars, netVars, IgnoreReply, Tick, RouteReply, RouteMalformed,
         RouteCall, FinishHandling, ConnectionClosed, PeerReply, StrayReply,
         PeerRequest, Receive, Disconnect, Finished

LEMMA HonestReplies == Spec => [](TypeOK /\ WaiterHolds /\ HonestInv)
<1>1. Init => HonestInv
  <2> SUFFICES ASSUME Init PROVE HonestInv
    OBVIOUS
  <2>1. Elements(responseQ) = {} /\ Elements(downlink) = {}
    <3>1. responseQ = <<>> /\ downlink = <<>>
      BY DEF Init
    <3>2. Len(responseQ) = 0 /\ Len(downlink) = 0
      BY <3>1, EmptySeq
    <3> QED
      BY <3>2 DEF Elements
  <2>2. pc = [c \in Calls |-> "new"] /\ uid = [c \in Calls |-> 0] /\ sent = {}
    BY DEF Init
  <2> QED
    BY <2>1, <2>2 DEF HonestInv
<1>2. TypeOK /\ HonestInv /\ [Next]_vars => HonestInv'
  BY HonestStep
<1> QED
  BY <1>1, <1>2, TypeCorrect, PTL DEF Spec

LEMMA StaleDiscarded ==
  ASSUME TypeOK, WaiterHolds, HonestInv, [Next]_vars, NEW c \in Calls,
         pc[c] = "wait", pc'[c] = "wait",
         responseQ # <<>>, Len(responseQ') < Len(responseQ)
  PROVE  Head(responseQ).for # c
<1> USE DEF TypeOK
<1>1. responseQ' # responseQ
  OBVIOUS
<1>2. ~RouteReply
  <2>1. SUFFICES ASSUME RouteReply PROVE FALSE
    OBVIOUS
  <2>2. Head(downlink) \in Message
    BY <2>1, HeadTailProperties DEF RouteReply
  <2>3. Head(downlink) \in Reply
    BY <2>1, <2>2 DEF RouteReply, Message
  <2>4. Len(responseQ') = Len(responseQ) + 1 /\ Len(responseQ) \in Nat
    BY <2>1, <2>3, AppendProperties, LenProperties DEF RouteReply
  <2> QED
    BY <2>4
\* Only the call that waits takes replies off the queue.
<1>3. PICK d \in Calls : AcceptReply(d) \/ IgnoreReply(d)
  BY <1>1, <1>2, StepCases
     DEF vars, callVars, netVars, Start, ValidRequest, InvalidRequest, Send, SendFails,
         Timeout, CheckResult, Tick, RouteMalformed, RouteCall, FinishHandling,
         ConnectionClosed, PeerReply, StrayReply, PeerRequest, Receive, Disconnect,
         Finished
<1>4. d = c
  BY <1>3 DEF AcceptReply, IgnoreReply, WaiterHolds
<1>5. IgnoreReply(c)
  BY <1>3, <1>4 DEF AcceptReply
<1>6. Head(responseQ) \in Elements(responseQ) \intersect Reply
  BY ElementsTail
<1>7. Honest(Head(responseQ)) /\ Head(responseQ).uid # uid[c]
  BY <1>5, <1>6 DEF HonestInv, IgnoreReply
<1> QED
  BY <1>7, CallsAssumption DEF Honest

(* _get_specific_response() never throws away the answer to the request that *)
(* waits, not even when ids repeat: who draws an id keeps it, and what the   *)
(* peer echoes is the id the request was sent with.                          *)
THEOREM DiscardedIsStale == Spec => OnlyStaleDiscarded
<1>1. TypeOK /\ WaiterHolds /\ HonestInv /\ [Next]_vars
        => [ \A c \in Calls :
               /\ pc[c] = "wait" /\ pc'[c] = "wait"
               /\ responseQ # <<>> /\ Len(responseQ') < Len(responseQ)
               => Head(responseQ).for # c ]_vars
  BY StaleDiscarded
<1> QED
  BY <1>1, HonestReplies, PTL DEF Spec, OnlyStaleDiscarded

LEMMA IdStep ==
  ASSUME FreshIds, TypeOK, HonestInv, IdInv, [Next]_vars
  PROVE  IdInv'
<1> USE CallsAssumption DEF TypeOK, ReplyMatchesRequest
<1>1. ASSUME UNCHANGED <<uid, stamp, answeredBy>>
      PROVE  IdInv'
  BY <1>1 DEF IdInv
<1>2. ASSUME NEW c \in Calls, Start(c) PROVE IdInv'
  <2>1. /\ uid[c] = 0 /\ uid' = [uid EXCEPT ![c] = stamp] /\ stamp' = stamp + 1
        /\ UNCHANGED answeredBy
    BY <1>2 DEF Start, HonestInv
  <2>2. \A d \in Calls : uid[d] # stamp
    BY DEF IdInv
  <2> QED
    BY <2>1, <2>2 DEF IdInv
<1>3. ASSUME NEW c \in Calls, AcceptReply(c) PROVE IdInv'
  <2>1. Head(responseQ) \in Elements(responseQ) \intersect Reply
    BY <1>3, ElementsTail DEF AcceptReply
  <2>2. Honest(Head(responseQ)) /\ Head(responseQ).for \in Calls \union {NoCall}
    BY <2>1 DEF HonestInv, Reply
  <2>3. uid[c] # 0 /\ Head(responseQ).uid = uid[c]
    BY <1>3 DEF AcceptReply, HonestInv
  <2>4. Head(responseQ).for = c
    BY <2>2, <2>3 DEF Honest, IdInv
  <2>5. answeredBy' = [answeredBy EXCEPT ![c] = c] /\ UNCHANGED <<uid, stamp>>
    BY <1>3, <2>4 DEF AcceptReply
  <2> QED
    BY <2>5 DEF IdInv
<1> QED
  BY StepCases, <1>1, <1>2, <1>3
     DEF vars, callVars, netVars, ValidRequest, InvalidRequest, Send, SendFails,
         Timeout, CheckResult, IgnoreReply, Tick, RouteReply, RouteMalformed,
         RouteCall, FinishHandling, ConnectionClosed, PeerReply, StrayReply,
         PeerRequest, Receive, Disconnect, Finished

LEMMA IdsInvariant ==
  ASSUME FreshIds PROVE Spec => [](TypeOK /\ WaiterHolds /\ HonestInv /\ IdInv)
<1>1. Init => IdInv
  BY CallsAssumption DEF Init, IdInv, ReplyMatchesRequest
<1>2. TypeOK /\ HonestInv /\ IdInv /\ [Next]_vars => IdInv'
  BY IdStep
<1> QED
  BY <1>1, <1>2, HonestReplies, PTL DEF Spec

(* With ids that do not repeat, call() never takes the reply to one request *)
(* for the reply to another: late, duplicated and stray replies included.   *)
THEOREM RepliesMatch == ASSUME FreshIds PROVE Spec => []ReplyMatchesRequest
<1>1. IdInv => ReplyMatchesRequest
  BY DEF IdInv
<1> QED
  BY <1>1, IdsInvariant, PTL

-----------------------------------------------------------------------------
(* Implementation of SerialRpc.                                            *)

LEMMA PhaseChange ==
  ASSUME TypeOK, NEW c \in Calls, NEW p, NEW o,
         pc' = [pc EXCEPT ![c] = p], out' = [out EXCEPT ![c] = o]
  PROVE  phase' = [phase EXCEPT ![c] = PhaseOf(p, o)]
BY DEF phase, TypeOK

LEMMA RpcStep ==
  ASSUME FreshIds, TypeOK, WaiterHolds, HonestInv, IdInv, IdInv', [Next]_vars
  PROVE  [Rpc!Next]_<<phase, answeredBy>>
<1> DEFINE Goal == [Rpc!Next]_<<phase, answeredBy>>
<1> USE DEF Rpc!Move
<1>1. ASSUME UNCHANGED <<pc, out, answeredBy>> PROVE Goal
  BY <1>1 DEF phase
\* Every other step moves one call, from one phase to another or nowhere.
<1>2. ASSUME NEW c \in Calls PROVE phase[c] = PhaseOf(pc[c], out[c])
  BY DEF phase
<1>3. ASSUME NEW c \in Calls, Start(c) PROVE Goal
  <2>1. /\ pc[c] = "new" /\ UNCHANGED answeredBy
        /\ \E v \in {"validate", "lock"} : pc' = [pc EXCEPT ![c] = v]
        /\ out' = [out EXCEPT ![c] = out[c]]
    BY <1>3 DEF Start, TypeOK
  <2>2. phase' = [phase EXCEPT ![c] = "pending"]
    BY <2>1, PhaseChange DEF PhaseOf
  <2>3. Rpc!Submit(c)
    BY <1>2, <2>1, <2>2 DEF Rpc!Submit, PhaseOf
  <2> QED
    BY <2>3 DEF Rpc!Next
<1>4. ASSUME NEW c \in Calls, ValidRequest(c) PROVE Goal
  <2>1. /\ pc[c] = "validate" /\ UNCHANGED answeredBy
        /\ pc' = [pc EXCEPT ![c] = "lock"] /\ out' = [out EXCEPT ![c] = out[c]]
    BY <1>4 DEF ValidRequest, TypeOK
  <2>2. phase' = [phase EXCEPT ![c] = "pending"] /\ phase[c] = "pending"
    BY <1>2, <2>1, PhaseChange DEF PhaseOf
  <2> QED
    BY <2>1, <2>2 DEF phase
<1>5. ASSUME NEW c \in Calls, Send(c) PROVE Goal
  <2>1. /\ pc[c] = "lock" /\ UNCHANGED answeredBy
        /\ pc' = [pc EXCEPT ![c] = "wait"] /\ out' = [out EXCEPT ![c] = out[c]]
    BY <1>5 DEF Send, TypeOK
  <2>2. phase' = [phase EXCEPT ![c] = "inflight"] /\ phase[c] = "pending"
    BY <1>2, <2>1, PhaseChange DEF PhaseOf
  <2>3. \A d \in Calls : pc[d] # "wait"
    BY <1>5 DEF Send, WaiterHolds
  <2>4. \A d \in Calls : phase[d] # "inflight"
    BY <1>2, <2>3 DEF PhaseOf, TypeOK
  <2>5. Rpc!Transmit(c)
    BY <2>1, <2>2, <2>4 DEF Rpc!Transmit
  <2> QED
    BY <2>5 DEF Rpc!Next
<1>6. ASSUME NEW c \in Calls, AcceptReply(c) PROVE Goal
  <2>1. pc[c] = "wait" /\ phase[c] = "inflight"
    BY <1>2, <1>6 DEF AcceptReply, PhaseOf
  <2>2. answeredBy' = [answeredBy EXCEPT ![c] = c]
    <3>1. Head(responseQ) \in Elements(responseQ) \intersect Reply
      BY <1>6, ElementsTail DEF AcceptReply, TypeOK
    <3>2. Honest(Head(responseQ)) /\ Head(responseQ).for \in Calls \union {NoCall}
      BY <3>1 DEF HonestInv, Reply
    <3>3. Head(responseQ).uid = uid[c] /\ uid[c] # 0
      BY <1>6, <2>1 DEF AcceptReply, HonestInv
    <3> QED
      BY <1>6, <3>2, <3>3 DEF AcceptReply, Honest, IdInv
  <2>3. \E p \in {"done", "check"}, o \in Outcome :
          /\ pc' = [pc EXCEPT ![c] = p] /\ out' = [out EXCEPT ![c] = o]
          /\ p = "done" => o \in {"result", "suppressed", "raised"}
    BY <1>6 DEF AcceptReply, Outcome, TypeOK
  <2>4. \E to \in {"replied", "answered"} : phase' = [phase EXCEPT ![c] = to]
    <3>1. PICK p \in {"done", "check"}, o \in Outcome :
            /\ pc' = [pc EXCEPT ![c] = p] /\ out' = [out EXCEPT ![c] = o]
            /\ p = "done" => o \in {"result", "suppressed", "raised"}
      BY <2>3
    <3>2. phase' = [phase EXCEPT ![c] = PhaseOf(p, o)]
      BY <3>1, PhaseChange
    <3>3. PhaseOf(p, o) \in {"replied", "answered"}
      BY <3>1 DEF PhaseOf
    <3> QED
      BY <3>2, <3>3
  <2>5. Rpc!Answer(c)
    BY <2>1, <2>2, <2>4 DEF Rpc!Answer
  <2> QED
    BY <2>5 DEF Rpc!Next
<1>7. ASSUME NEW c \in Calls, CheckResult(c) PROVE Goal
  <2>1. pc[c] = "check" /\ phase[c] = "replied" /\ UNCHANGED answeredBy
    BY <1>2, <1>7 DEF CheckResult, PhaseOf
  <2>2. \E o \in {"result", "badResult"} :
          pc' = [pc EXCEPT ![c] = "done"] /\ out' = [out EXCEPT ![c] = o]
    BY <1>7 DEF CheckResult
  <2>3. \E to \in {"answered", "failed"} : phase' = [phase EXCEPT ![c] = to]
    BY <2>2, PhaseChange DEF PhaseOf
  <2>4. Rpc!Accept(c) \/ Rpc!Fail(c)
    BY <2>1, <2>3 DEF Rpc!Accept, Rpc!Fail
  <2> QED
    BY <2>4 DEF Rpc!Next
<1>8. ASSUME NEW c \in Calls, InvalidRequest(c) \/ SendFails(c) \/ Timeout(c)
      PROVE  Goal
  <2>1. pc[c] \in {"validate", "lock", "wait"} /\ UNCHANGED answeredBy
    BY <1>8 DEF InvalidRequest, SendFails, Timeout
  <2>2. \E o \in {"badRequest", "closed", "timeout"} :
          pc' = [pc EXCEPT ![c] = "done"] /\ out' = [out EXCEPT ![c] = o]
    BY <1>8 DEF InvalidRequest, SendFails, Timeout
  <2>3. phase[c] \in {"pending", "inflight"}
    BY <1>2, <2>1 DEF PhaseOf
  <2>4. phase' = [phase EXCEPT ![c] = "failed"]
    BY <2>2, PhaseChange DEF PhaseOf
  <2>5. Rpc!Fail(c)
    BY <2>1, <2>3, <2>4 DEF Rpc!Fail
  <2> QED
    BY <2>5 DEF Rpc!Next
<1> QED
  BY StepCases, <1>1, <1>3, <1>4, <1>5, <1>6, <1>7, <1>8
     DEF vars, callVars, netVars, Tick, RouteReply, RouteMalformed, RouteCall,
         FinishHandling, ConnectionClosed, PeerReply, StrayReply, PeerRequest,
         Receive, Disconnect, Finished, IgnoreReply

(* With fresh ids the engine implements the abstract specification: callers *)
(* see requests go out one at a time and get the answers made for them.     *)
THEOREM EngineImplementsRpc == ASSUME FreshIds PROVE Spec => ImplementsSerialRpc
<1>1. Init => Rpc!Init
  <2> SUFFICES ASSUME Init PROVE Rpc!Init
    OBVIOUS
  <2>1. \A c \in Calls : PhaseOf(pc[c], out[c]) = "idle"
    BY DEF Init, PhaseOf
  <2>2. phase = [c \in Calls |-> "idle"]
    BY <2>1 DEF phase
  <2> QED
    BY <2>2 DEF Init, Rpc!Init
<1>2. TypeOK /\ WaiterHolds /\ HonestInv /\ IdInv /\ IdInv' /\ [Next]_vars
        => [Rpc!Next]_<<phase, answeredBy>>
  BY RpcStep
<1> QED
  BY <1>1, <1>2, IdsInvariant, PTL DEF Spec, ImplementsSerialRpc, Rpc!Spec, Rpc!rpcVars
=============================================================================
