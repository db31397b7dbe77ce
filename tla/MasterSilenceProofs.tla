------------------------- MODULE MasterSilenceProofs -------------------------
(***************************************************************************)
(* When a master box that has been heard from counts as offline, for any   *)
(* set of chargers, any commands and any timeouts.                         *)
(***************************************************************************)
EXTENDS MasterSilence, PowerControlProofs

USE ControlAssumption

(* A step with the stopwatch is a step of PowerControl, by definition, so    *)
(* that its type invariant holds here.                                      *)
LEMMA StopwatchOnlyWatches == SilenceSpec => Spec
<1>1. SilenceInit => Init
  BY DEF SilenceInit
<1>2. [SilenceNext]_silenceVars => [Next]_vars
  <2>1. Sends => Next
    BY DEF Sends, Next, Outside
  <2>2. Passes => Next
    BY DEF Passes, Next
  <2>3. Ends => Next
    BY DEF Ends, Next, UdpStep, UdpReturns, CallStep
  <2>4. Others => Next
    <3>1. CASE RecvCommand \/ DurStep \/ Poll \/ CurrentChanges
      BY <3>1 DEF Next, UdpStep, Outside
    <3>2. ASSUME NEW k \in Connectors,
                 \/ Transmit("udp", k)
                 \/ StatusNotification(k) \/ SecondConnector(k)
                 \/ StationAccepts(k) \/ StationRefuses(k) \/ Meddle(k)
                 \/ Vehicle(k) \/ Drop(k) \/ Reconnect(k)
          PROVE  Next
      BY <3>2 DEF Next, UdpStep, CallStep, Outside
    <3> QED
      BY <3>1, <3>2 DEF Others
  <2>5. UNCHANGED silenceVars => UNCHANGED vars
    BY DEF silenceVars
  <2> QED
    BY <2>1, <2>2, <2>3, <2>4, <2>5 DEF SilenceNext
<1> QED
  BY <1>1, <1>2, PTL DEF SilenceSpec, Spec

-----------------------------------------------------------------------------
\* As long as no handler is at work and the last one has not raised, the
\* master box was noted no earlier than it sent, save for a datagram that has
\* come within the second and is yet to be read.
Noted == sinceMaster <= sinceSent \/ (inbox # <<>> /\ sinceSent = 0)
WatchInv ==
  /\ sinceSent \in 0..(MasterTimeout + 1)
  /\ call["udp"] = NoCall /\ ~raised => Noted

(* What does not end a handler leaves what has been noted as it is.         *)
LEMMA Unnoted ==
  ASSUME TypeOK, WatchInv, UNCHANGED <<sinceMaster, sinceSent, raised>>,
         call'["udp"] = NoCall => call["udp"] = NoCall /\ UNCHANGED inbox
  PROVE  WatchInv'
  BY DEF WatchInv, Noted

LEMMA DurLeavesMaster ==
  ASSUME TypeOK, DurStep
  PROVE  UNCHANGED <<sinceMaster, inbox>> /\ call'["udp"] = call["udp"]
<1>t. call \in [Tasks -> RequestType] /\ "dur" \in Tasks /\ "udp" \in Tasks
  BY DEF TypeOK, Tasks
<1>1. CASE BeginPass
  BY <1>1 DEF BeginPass, masterVars
<1>2. ASSUME NEW k \in Connectors, PassUnmanaged(k) \/ PassOver(k) \/ PassSend(k)
      PROVE  UNCHANGED <<sinceMaster, inbox>> /\ call'["udp"] = call["udp"]
  BY <1>t, <1>2 DEF PassUnmanaged, PassOver, PassSend, masterVars
<1>3. ASSUME NEW k \in Connectors, DurReturns(k)
      PROVE  UNCHANGED <<sinceMaster, inbox>> /\ call'["udp"] = call["udp"]
  BY <1>t, <1>3 DEF DurReturns, Return, masterVars
<1>4. ASSUME NEW k \in Connectors,
             Transmit("dur", k) \/ CallBreaks("dur", k) \/ CallTimesOut("dur", k)
      PROVE  UNCHANGED <<sinceMaster, inbox>> /\ call'["udp"] = call["udp"]
  BY <1>t, <1>4 DEF Transmit, CallBreaks, CallTimesOut, Raise, masterVars
<1>5. ASSUME NEW raises \in BOOLEAN, OrphanEnds("dur", raises)
      PROVE  UNCHANGED <<sinceMaster, inbox>> /\ call'["udp"] = call["udp"]
  BY <1>t, <1>5 DEF OrphanEnds
<1> QED
  BY <1>1, <1>2, <1>3, <1>4, <1>5 DEF DurStep, CallStep

LEMMA OthersKeep ==
  ASSUME TypeOK, WatchInv, Others
  PROVE  WatchInv'
<1>t. call \in [Tasks -> RequestType] /\ "dur" \in Tasks /\ "udp" \in Tasks
  BY DEF TypeOK, Tasks
<1>w. UNCHANGED <<sinceSent, raised>>
  BY DEF Others, watchVars
<1> USE DEF ctlVars, masterVars
<1>1. CASE RecvCommand
  BY <1>t, <1>w, <1>1, Unnoted DEF RecvCommand, Request, NoCall
<1>2. CASE DurStep
  BY <1>w, <1>2, Unnoted, DurLeavesMaster
<1>3. CASE Poll \/ CurrentChanges
  BY <1>w, <1>3, Unnoted DEF Poll, CurrentChanges
<1>4. ASSUME NEW k \in Connectors, Transmit("udp", k)
      PROVE  WatchInv'
  <2>1. call'["udp"].pc = "wait"
    BY <1>t, <1>4 DEF Transmit, RequestType
  <2> QED
    BY <1>4, <1>w, <2>1, Unnoted DEF Transmit, NoCall
<1>5. ASSUME NEW k \in Connectors, Reconnect(k)
      PROVE  WatchInv'
  <2>1. call'["udp"] = IF call["udp"].k = k THEN [NoCall EXCEPT !.pc = "orphan"] ELSE call["udp"]
    BY <1>t, <1>5 DEF Reconnect, Orphaned
  <2>2. [NoCall EXCEPT !.pc = "orphan"] # NoCall
    BY DEF NoCall
  <2> QED
    BY <1>5, <1>w, <2>1, <2>2, Unnoted DEF Reconnect
<1>6. ASSUME NEW k \in Connectors,
             \/ StatusNotification(k) \/ SecondConnector(k)
             \/ StationAccepts(k) \/ StationRefuses(k) \/ Meddle(k) \/ Vehicle(k) \/ Drop(k)
      PROVE  WatchInv'
  BY <1>6, <1>w, Unnoted DEF StatusNotification, SecondConnector, StationAccepts,
     StationRefuses, Meddle, Vehicle, Drop
<1> QED
  BY <1>1, <1>2, <1>3, <1>4, <1>5, <1>6 DEF Others

LEMMA EndsNote ==
  ASSUME TypeOK, WatchInv, Ends
  PROVE  WatchInv'
<1>1. UNCHANGED sinceSent /\ sinceSent \in 0..(MasterTimeout + 1)
  BY DEF Ends, WatchInv
<1>2. sinceMaster' = 0 => Noted'
  BY <1>1 DEF Noted
<1>3. raised' \/ sinceMaster' = 0
  BY DEF Ends, RecvPing, RecvSetPowerRate, OrphanEnds, UdpEnds, Handled
<1> QED
  BY <1>1, <1>2, <1>3 DEF WatchInv

LEMMA WatchStep ==
  ASSUME TypeOK, WatchInv, [SilenceNext]_silenceVars
  PROVE  WatchInv'
<1>t. sinceMaster \in 0..(MasterTimeout + 1) /\ sinceSent \in 0..(MasterTimeout + 1)
  BY DEF TypeOK, WatchInv
<1>1. CASE Sends
  <2>1. inbox' # <<>> /\ sinceSent' = 0
    BY <1>1 DEF Sends, MasterPings, MasterCommands, MasterSends
  <2> QED
    BY <2>1 DEF WatchInv, Noted
<1>2. CASE Passes
  <2>1. /\ sinceMaster' = Up(sinceMaster, MasterTimeout + 1)
        /\ sinceSent' = Up(sinceSent, MasterTimeout + 1)
        /\ UNCHANGED <<call, inbox, raised>>
        /\ inbox # <<>> => call["udp"] # NoCall
    BY <1>2 DEF Passes, Tick, KeepsUp
  <2>2. sinceMaster <= sinceSent => sinceMaster' <= sinceSent'
    BY <1>t, <2>1 DEF Up
  <2>3. sinceSent' \in 0..(MasterTimeout + 1)
    BY <1>t, <2>1, UpBounded
  <2> QED
    BY <2>1, <2>2, <2>3 DEF WatchInv, Noted
<1>3. CASE UNCHANGED silenceVars
  BY <1>3, Unnoted DEF silenceVars, vars, watchVars, ctlVars, masterVars
<1> QED
  BY <1>1, <1>2, <1>3, OthersKeep, EndsNote DEF SilenceNext

(* The alarm "when master-box offline" is raised for a master box that was   *)
(* heard from within the timeout only while one of its commands is being    *)
(* handled, or after a handler that raised: the order of the two statements *)
(* in udp_recv() is the whole reason, whatever the chargers do and however  *)
(* long their calls take.                                                   *)
THEOREM LateNotesAlone == SilenceSpec => []OfflineOnlyIfBusy
<1>1. SilenceInit => WatchInv
  BY DEF SilenceInit, Init, WatchInv, Noted
<1>2. TypeOK /\ WatchInv /\ [SilenceNext]_silenceVars => WatchInv'
  BY WatchStep
<1>3. TypeOK /\ WatchInv => OfflineOnlyIfBusy
  BY DEF TypeOK, WatchInv, Noted, MasterLost, OfflineOnlyIfBusy
<1> QED
  BY <1>1, <1>2, <1>3, StopwatchOnlyWatches, TypeCorrect, PTL DEF SilenceSpec
=============================================================================
