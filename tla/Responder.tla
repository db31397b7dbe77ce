----------------------------- MODULE Responder -----------------------------
(***************************************************************************)
(* What a central system promises a charge point: each request that is     *)
(* waiting is answered once, in the order in which the requests came, and  *)
(* none is left waiting unless the session ends.  Handling implements it.  *)
(***************************************************************************)
EXTENDS Sequences

CONSTANT Requests

VARIABLES
  waiting,   \* the requests that have come and are not answered, in order
  answered,  \* those that are, in the order of the answers
  up         \* the session has not ended

responderVars == <<waiting, answered, up>>

Init == waiting = <<>> /\ answered = <<>> /\ up = TRUE

Members(seq) == {seq[i] : i \in DOMAIN seq}

Ask(r) ==
  /\ r \notin Members(waiting) \union Members(answered)
  /\ waiting' = Append(waiting, r)
  /\ UNCHANGED <<answered, up>>

Answer ==
  /\ up = TRUE
  /\ waiting # <<>>
  /\ answered' = Append(answered, Head(waiting))
  /\ waiting' = Tail(waiting)
  /\ UNCHANGED up

End ==
  /\ up = TRUE
  /\ up' = FALSE
  /\ UNCHANGED <<waiting, answered>>

Next == (\E r \in Requests : Ask(r)) \/ Answer \/ End

\* Which answers there may be; where no request waits, none need follow.
Safety == Init /\ [][Next]_responderVars
Spec == Safety /\ WF_responderVars(Answer \/ (waiting # <<>> /\ End))
=============================================================================
