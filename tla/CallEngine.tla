----------------------------- MODULE CallEngine -----------------------------
(***************************************************************************)
(* The request side of ocpp.charge_point.ChargePoint: the coroutines that  *)
(* run call(), the FIFO lock that serialises them, the response queue, and *)
(* the receive loop start()/route_message() that fills that queue from the *)
(* websocket.  The charge point at the other end may answer late, twice,   *)
(* or never, may send requests of its own, and the socket may close at any *)
(* moment.                                                                 *)
(*                                                                         *)
(* A step is the code between two awaits.  Every coroutine runs on one     *)
(* event loop, so a step is atomic.                                        *)
(***************************************************************************)
EXTENDS Integers, Sequences, FiniteSets

CONSTANTS
  Calls,            \* the invocations of call(), each made once
  NoCall,           \* not an invocation
  FreshIds,         \* TRUE: uuid.uuid4; FALSE: a clock reading is the id
  SkipValidation,   \* the calls made with skip_schema_validation=True
  Raising,          \* the calls made with suppress=False
  ResponseTimeout,  \* response_timeout, in ticks
  MaxStamp,         \* bound: how far the generator of ids advances
  MaxBacklog        \* bound: messages received and not yet consumed

ASSUME CallsAssumption == IsFiniteSet(Calls) /\ NoCall \notin Calls
ASSUME OptionsAssumption ==
  /\ FreshIds \in BOOLEAN
  /\ SkipValidation \subseteq Calls
  /\ Raising \subseteq Calls
ASSUME BoundsAssumption ==
  /\ ResponseTimeout \in Nat \ {0}
  /\ MaxStamp \in Nat \ {0}
  /\ MaxBacklog \in Nat

VARIABLES
  pc,         \* where each invocation of call() is suspended
  uid,        \* its unique_id, 0 before it has one
  out,        \* how it ended
  answeredBy, \* history: the request the accepted reply answers
  lockQ,      \* _call_lock: its holder, then the waiters in order
  left,       \* ticks until wait_for() gives up, for the holder
  waited,     \* history: ticks each call has waited for its reply
  stamp,      \* the next unique id
  responseQ,  \* _response_queue
  downlink,   \* frames received by the websocket, not yet by recv()
  sent,       \* the calls whose request has reached the peer
  conn,       \* the websocket is open
  loop        \* where start() is suspended

callVars == <<pc, uid, out, answeredBy, lockQ, left, waited, stamp>>
netVars  == <<downlink, sent, conn>>
vars     == <<callVars, responseQ, netVars, loop>>

Reply == [kind : {"result", "error"}, uid : 0..MaxStamp,
          for : Calls \union {NoCall}]
Message == Reply \union [kind : {"call", "malformed"}]

Outcome == {"none", "result", "suppressed", "raised", "timeout",
            "badRequest", "badResult", "closed"}

Init ==
  /\ pc = [c \in Calls |-> "new"]
  /\ uid = [c \in Calls |-> 0]
  /\ out = [c \in Calls |-> "none"]
  /\ answeredBy = [c \in Calls |-> NoCall]
  /\ lockQ = <<>>
  /\ left = ResponseTimeout
  /\ waited = [c \in Calls |-> 0]
  /\ stamp = 1
  /\ responseQ = <<>>
  /\ downlink = <<>>
  /\ sent = {}
  /\ conn = TRUE
  /\ loop = "recv"

NoLock(c) == TRUE \* mutant: no lock
Holds(c) == lockQ # <<>> /\ Head(lockQ) = c

Finish(c, how) ==
  /\ pc' = [pc EXCEPT ![c] = "done"]
  /\ out' = [out EXCEPT ![c] = how]

\* The generator: a new uuid each time, or whatever the clock shows, which
\* may or may not have moved on when the next id is taken.
SameStamp == {stamp} \* mutant: ids drawn and not consumed
NextStamp == IF FreshIds THEN {stamp + 1} ELSE {stamp, stamp + 1}

\* "if response.unique_id == unique_id".
AnyReply(reply, c) == TRUE \* mutant: the next reply is taken to be ours
ResultOnly(reply, c) == \* mutant: a CallError is not recognised as an answer
  reply.uid = uid[c] /\ reply.kind = "result"
Matches(reply, c) == reply.uid = uid[c]

\* timeout_left = wait_until - time.time().
FullTimeout == ResponseTimeout \* mutant: each wait starts afresh
TimeoutLeft == left

-----------------------------------------------------------------------------
(* call(): entry, validation of the request, and the lock.                 *)

\* The id is taken on entry, long before the request is sent.
Start(c) ==
  /\ pc[c] = "new"
  /\ stamp <= MaxStamp
  /\ uid' = [uid EXCEPT ![c] = stamp]
  /\ stamp' \in NextStamp
  /\ IF c \in SkipValidation
       THEN /\ pc' = [pc EXCEPT ![c] = "lock"]
            /\ lockQ' = Append(lockQ, c)
       ELSE /\ pc' = [pc EXCEPT ![c] = "validate"]
            /\ UNCHANGED lockQ
  /\ UNCHANGED <<out, answeredBy, left, waited, responseQ, netVars, loop>>

\* validate_payload() in the executor; the waiters on the lock are FIFO.
ValidRequest(c) ==
  /\ pc[c] = "validate"
  /\ pc' = [pc EXCEPT ![c] = "lock"]
  /\ lockQ' = Append(lockQ, c)
  /\ UNCHANGED <<uid, out, answeredBy, left, waited, stamp, responseQ,
                 netVars, loop>>

InvalidRequest(c) ==
  /\ pc[c] = "validate"
  /\ Finish(c, "badRequest")
  /\ UNCHANGED <<uid, answeredBy, lockQ, left, waited, stamp, responseQ,
                 netVars, loop>>

-----------------------------------------------------------------------------
(* call(): the critical section, _send() and _get_specific_response().     *)

Send(c) ==
  /\ pc[c] = "lock"
  /\ Holds(c)
  /\ conn
  /\ pc' = [pc EXCEPT ![c] = "wait"]
  /\ left' = ResponseTimeout
  /\ sent' = sent \union {c}
  /\ UNCHANGED <<uid, out, answeredBy, lockQ, waited, stamp, responseQ,
                 downlink, conn, loop>>

KeepsLock(c) == \* mutant: the lock is not released when send() raises
  /\ pc[c] = "lock" /\ Holds(c) /\ ~conn
  /\ Finish(c, "closed")
  /\ UNCHANGED <<uid, answeredBy, lockQ, left, waited, stamp, responseQ,
                 netVars, loop>>

\* send() raises ConnectionClosed, and leaving the block frees the lock.
SendFails(c) ==
  /\ pc[c] = "lock"
  /\ Holds(c)
  /\ ~conn
  /\ Finish(c, "closed")
  /\ lockQ' = Tail(lockQ)
  /\ UNCHANGED <<uid, answeredBy, left, waited, stamp, responseQ, netVars,
                 loop>>

\* The head of the queue is for this call: leave the lock, then look at it.
AcceptReply(c) ==
  /\ pc[c] = "wait"
  /\ responseQ # <<>>
  /\ LET reply == Head(responseQ) IN
       /\ Matches(reply, c)
       /\ answeredBy' = [answeredBy EXCEPT ![c] = reply.for]
       /\ CASE reply.kind = "error" ->
                 Finish(c, IF c \in Raising THEN "raised" ELSE "suppressed")
            [] reply.kind = "result" /\ c \in SkipValidation ->
                 Finish(c, "result")
            [] OTHER -> /\ pc' = [pc EXCEPT ![c] = "check"]
                        /\ UNCHANGED out
  /\ responseQ' = Tail(responseQ)
  /\ lockQ' = Tail(lockQ)
  /\ UNCHANGED <<uid, left, waited, stamp, netVars, loop>>

\* "Ignoring response with unknown unique id": wait again for what is left.
IgnoreReply(c) ==
  /\ pc[c] = "wait"
  /\ responseQ # <<>>
  /\ ~Matches(Head(responseQ), c)
  /\ responseQ' = Tail(responseQ)
  /\ left' = TimeoutLeft
  /\ UNCHANGED <<pc, uid, out, answeredBy, lockQ, waited, stamp, netVars, loop>>

\* wait_for() gives up; a reply that has just arrived stays in the queue.
Timeout(c) ==
  /\ pc[c] = "wait"
  /\ left = 0
  /\ Finish(c, "timeout")
  /\ lockQ' = Tail(lockQ)
  /\ UNCHANGED <<uid, answeredBy, left, waited, stamp, responseQ, netVars,
                 loop>>

\* Outside the lock: the payload of the result is validated and rebuilt.
CheckResult(c) ==
  /\ pc[c] = "check"
  /\ \E how \in {"result", "badResult"} : Finish(c, how)
  /\ UNCHANGED <<uid, answeredBy, lockQ, left, waited, stamp, responseQ,
                 netVars, loop>>

\* A second passes on the event loop's clock; due timers run before it does.
Overdue == TRUE \* mutant: time passes while a timer is due
TimerRuns == left > 0

Tick ==
  \E c \in Calls :
    /\ pc[c] = "wait"
    /\ TimerRuns
    /\ left' = left - 1
    /\ waited' = [waited EXCEPT ![c] = @ + 1]
    /\ UNCHANGED <<pc, uid, out, answeredBy, lockQ, stamp, responseQ,
                   netVars, loop>>

-----------------------------------------------------------------------------
(* start() and route_message().                                            *)

\* CallResult and CallError: put_nowait() with no await after recv().
RouteReply ==
  /\ loop = "recv"
  /\ downlink # <<>>
  /\ Head(downlink).kind \in {"result", "error"}
  /\ responseQ' = Append(responseQ, Head(downlink))
  /\ downlink' = Tail(downlink)
  /\ UNCHANGED <<callVars, sent, conn, loop>>

RouteMalformed ==
  /\ loop = "recv"
  /\ downlink # <<>>
  /\ Head(downlink).kind = "malformed"
  /\ downlink' = Tail(downlink)
  /\ UNCHANGED <<callVars, responseQ, sent, conn, loop>>

\* A request of the charge point: nothing else is received while
\* _handle_call() validates it, runs the handler and sends the answer.
RouteCall ==
  /\ loop = "recv"
  /\ downlink # <<>>
  /\ Head(downlink).kind = "call"
  /\ loop' = "handle"
  /\ downlink' = Tail(downlink)
  /\ UNCHANGED <<callVars, responseQ, sent, conn>>

\* The answer is sent, or sending it raises and ends start().
FinishHandling ==
  /\ loop = "handle"
  /\ loop' = IF conn THEN "recv" ELSE "stopped"
  /\ UNCHANGED <<callVars, responseQ, netVars>>

CloseSwallowed == \* mutant: the exception is caught inside the loop
  /\ loop = "recv" /\ ~conn /\ downlink = <<>>
  /\ UNCHANGED vars

\* recv() raises ConnectionClosed once the frames already received are read.
ConnectionClosed ==
  /\ loop = "recv"
  /\ ~conn
  /\ downlink = <<>>
  /\ loop' = "stopped"
  /\ UNCHANGED <<callVars, responseQ, netVars>>

-----------------------------------------------------------------------------
(* The peer and the network, outside this program.                         *)

Receive(m) ==
  /\ conn
  /\ Len(downlink) + Len(responseQ) < MaxBacklog
  /\ downlink' = Append(downlink, m)
  /\ UNCHANGED <<callVars, responseQ, sent, conn, loop>>

\* An answer to any request ever sent: in time, late or again.
PeerReply ==
  \E c \in sent, k \in {"result", "error"} :
    Receive([kind |-> k, uid |-> uid[c], for |-> c])

\* A reply nobody asked for: another master's id, or a debugging client.
StrayReply == Receive([kind |-> "result", uid |-> 0, for |-> NoCall])

PeerRequest == \E k \in {"call", "malformed"} : Receive([kind |-> k])

\* The socket closes; only some of the frames under way were received.
Disconnect ==
  /\ conn
  /\ conn' = FALSE
  /\ \E n \in 0..Len(downlink) : downlink' = SubSeq(downlink, 1, n)
  /\ UNCHANGED <<callVars, responseQ, sent, loop>>

-----------------------------------------------------------------------------
Finished ==
  /\ \A c \in Calls : pc[c] \in {"new", "done"}
  /\ loop = "stopped"
  /\ UNCHANGED vars

CallStep(c) ==
  \/ ValidRequest(c) \/ InvalidRequest(c)
  \/ Send(c) \/ SendFails(c)
  \/ AcceptReply(c) \/ IgnoreReply(c)
  \/ Timeout(c)
  \/ CheckResult(c)

LoopStep ==
  \/ RouteReply \/ RouteMalformed \/ RouteCall
  \/ FinishHandling
  \/ ConnectionClosed

Environment ==
  \/ PeerReply \/ StrayReply \/ PeerRequest
  \/ Disconnect

Next ==
  \/ \E c \in Calls : Start(c) \/ CallStep(c)
  \/ Tick
  \/ LoopStep
  \/ Environment
  \/ Finished

(* The event loop runs every ready coroutine and every due timer: the steps *)
(* of a call, the clock and the receive loop are fair.  A timer that is due *)
(* fires even if stale replies keep arriving, hence its own fairness.       *)
(* Nothing obliges the peer to answer or the network to stay up.            *)
Fairness ==
  /\ \A c \in Calls : WF_vars(CallStep(c)) /\ WF_vars(Timeout(c))
  /\ WF_vars(Tick)
  /\ WF_vars(LoopStep)

Spec == Init /\ [][Next]_vars
FairSpec == Spec /\ Fairness

-----------------------------------------------------------------------------
(* Properties.                                                             *)

(* Every variable has its type: the state of each invocation of call(), the *)
(* lock's queue of distinct invocations, and the queues of messages.        *)
TypeOK ==
  /\ pc \in [Calls -> {"new", "validate", "lock", "wait", "check", "done"}]
  /\ uid \in [Calls -> 0..MaxStamp]
  /\ out \in [Calls -> Outcome]
  /\ answeredBy \in [Calls -> Calls \union {NoCall}]
  /\ lockQ \in Seq(Calls)
  /\ left \in 0..ResponseTimeout
  /\ waited \in [Calls -> Nat]
  /\ stamp \in 1..(MaxStamp + 1)
  /\ responseQ \in Seq(Reply)
  /\ downlink \in Seq(Message)
  /\ sent \subseteq Calls
  /\ conn \in BOOLEAN
  /\ loop \in {"recv", "handle", "stopped"}

(* call() returns or raises what the peer answered to that very request:    *)
(* never a late, repeated or stray reply, whatever the order in which calls *)
(* are started, sent, timed out and answered.                               *)
ReplyMatchesRequest ==
  \A c \in Calls : answeredBy[c] # NoCall => answeredBy[c] = c

(* "When waiting for a response no other Call message can be send": the     *)
(* call that waits holds the lock, so two never wait at once.               *)
OneOutstanding ==
  \A c, d \in Calls : pc[c] = "wait" /\ pc[d] = "wait" => c = d

(* A call gives up exactly ResponseTimeout after it was sent, however many  *)
(* foreign replies _get_specific_response() throws away meanwhile, and so   *)
(* the lock is never held longer.                                           *)
TimeoutExact ==
  \A c \in Calls :
    /\ pc[c] = "wait" => waited[c] + left = ResponseTimeout
    /\ out[c] = "timeout" => waited[c] = ResponseTimeout
    /\ waited[c] <= ResponseTimeout

(* A reply that leaves the response queue without ending a call is not the  *)
(* answer to the request that is waiting at that moment.                    *)
OnlyStaleDiscarded ==
  [][ \A c \in Calls :
        /\ pc[c] = "wait" /\ pc'[c] = "wait"
        /\ responseQ # <<>> /\ Len(responseQ') < Len(responseQ)
        => Head(responseQ).for # c ]_vars

(* Every call() that was entered ends, whatever the peer and the network    *)
(* do: the lock is always released, so no later call waits for it for ever. *)
CallCompletes ==
  \A c \in Calls : pc[c] # "new" ~> pc[c] = "done"

(* Once the socket is closed the receive loop ends, whether it was idle or  *)
(* answering a request; the session is then marked offline.                 *)
CloseStopsLoop == ~conn ~> loop = "stopped"

(* What the users of call() rely on, whatever goes on below: see SerialRpc. *)
PhaseOf(where, how) ==
  CASE where = "new" -> "idle"
    [] where \in {"validate", "lock"} -> "pending"
    [] where = "wait" -> "inflight"
    [] where = "check" -> "replied"
    [] where = "done" ->
         IF how \in {"result", "suppressed", "raised"} THEN "answered" ELSE "failed"

phase == [c \in Calls |-> PhaseOf(pc[c], out[c])]

Rpc == INSTANCE SerialRpc WITH answer <- answeredBy

ImplementsSerialRpc == Rpc!Spec
=============================================================================
