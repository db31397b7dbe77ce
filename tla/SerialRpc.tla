----------------------------- MODULE SerialRpc ------------------------------
(***************************************************************************)
(* What ChargePoint.call() promises its callers: requests go out one at a  *)
(* time, each ends once, and an answered request was answered by the reply *)
(* to that request.  How replies are carried, queued, matched and timed is *)
(* left to CallEngine, which implements this specification.                *)
(***************************************************************************)
CONSTANTS Calls, NoCall

VARIABLES
  phase,   \* how far each request is
  answer   \* the request its accepted reply was made for

rpcVars == <<phase, answer>>

Init ==
  /\ phase = [c \in Calls |-> "idle"]
  /\ answer = [c \in Calls |-> NoCall]

Move(c, from, to) ==
  /\ phase[c] \in from
  /\ phase' = [phase EXCEPT ![c] = to]

Submit(c) == Move(c, {"idle"}, "pending") /\ UNCHANGED answer

\* The docstring of call(): nothing is sent while a response is awaited.
Transmit(c) ==
  /\ \A d \in Calls : phase[d] # "inflight"
  /\ Move(c, {"pending"}, "inflight")
  /\ UNCHANGED answer

\* The reply still has to be validated, or is final at once.
Answer(c) ==
  /\ \E to \in {"replied", "answered"} : Move(c, {"inflight"}, to)
  /\ answer' = [answer EXCEPT ![c] = c]

Accept(c) == Move(c, {"replied"}, "answered") /\ UNCHANGED answer

Fail(c) ==
  /\ Move(c, {"pending", "inflight", "replied"}, "failed")
  /\ UNCHANGED answer

Next ==
  \E c \in Calls :
    Submit(c) \/ Transmit(c) \/ Answer(c) \/ Accept(c) \/ Fail(c)

Spec == Init /\ [][Next]_rpcVars
=============================================================================
