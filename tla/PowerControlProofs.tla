------------------------- MODULE PowerControlProofs -------------------------
(***************************************************************************)
(* Theorems of PowerControl for any set of chargers, any settings and any  *)
(* bounds: type correctness, the zero that every alarm decides, and that   *)
(* the rate reported is one the charge point has accepted and kept.        *)
(***************************************************************************)
EXTENDS PowerControl, TLAPS

USE MeterAssumption, ControlAssumption

(* The actions of Next, for the case splits.                                *)
LEMMA StepCases ==
  ASSUME Next
  PROVE  \/ BeginPass \/ RecvPing \/ RecvSetPowerRate \/ RecvRaises \/ RecvCommand
         \/ Poll \/ Tick \/ MasterPings \/ MasterCommands \/ CurrentChanges
         \/ \E t \in Tasks, raises \in BOOLEAN : OrphanEnds(t, raises)
         \/ \E t \in Tasks, k \in Connectors :
              Transmit(t, k) \/ CallBreaks(t, k) \/ CallTimesOut(t, k)
         \/ \E k \in Connectors :
              \/ PassUnmanaged(k) \/ PassOver(k) \/ PassSend(k)
              \/ DurReturns(k) \/ UdpReturns(k)
              \/ StatusNotification(k) \/ SecondConnector(k)
              \/ StationAccepts(k) \/ StationRefuses(k) \/ Meddle(k) \/ Vehicle(k)
              \/ Drop(k) \/ Reconnect(k)
  BY DEF Next, DurStep, UdpStep, CallStep, Outside, Tasks

-----------------------------------------------------------------------------
(* Limits.                                                                  *)

(* A limit that is sent is a natural number, whatever the rate.             *)
LEMMA LimitNat ==
  ASSUME NEW k \in Connectors, NEW rate \in Int
  PROVE  LimitOf(k, rate) \in Nat
<1>1. /\ (rate * MaxCurrent) \div 100 \in Int
      /\ (rate * MaxPower[k]) \div 100 \in Int
  BY DEF MaxCurrent
<1>2. Amps(rate) \in Nat
  BY <1>1 DEF Amps, Floored, MinCurrent
<1>3. Watts(rate, MaxPower[k]) \in Nat
  <2> DEFINE w == (rate * MaxPower[k]) \div 100
  <2>1. Watts(rate, MaxPower[k]) = Floored(w, 2000)
    BY DEF Watts, MinPower
  <2>2. w \in Int
    BY <1>1
  <2> HIDE DEF w
  <2>3. Floored(w, 2000) \in Nat
    BY <2>2 DEF Floored
  <2> QED
    BY <2>1, <2>3
<1> QED
  BY <1>2, <1>3 DEF LimitOf

(* A rate of 1 is sent as a limit of 0 to a charger of less than 200 kW.    *)
LEMMA OneIsZero ==
  ASSUME NEW k \in Connectors, k \in DC => MaxPower[k] < 200000
  PROVE  LimitOf(k, 1) = 0
<1>1. Amps(1) = 0
  BY DEF Amps, Floored, MaxCurrent, MinCurrent
<1>2. ASSUME k \in DC PROVE Watts(1, MaxPower[k]) = 0
  <2> DEFINE p == MaxPower[k]
  <2>1. p \in Nat /\ p < 200000
    BY <1>2
  <2> HIDE DEF p
  <2>2. (1 * p) \div 100 < 2000
    BY <2>1
  <2>3. Watts(1, p) = 0
    BY <2>2 DEF Watts, Floored, MinPower
  <2> QED
    BY <2>3 DEF p
<1> QED
  BY <1>1, <1>2 DEF LimitOf, IsDC

-----------------------------------------------------------------------------
(* Types.                                                                   *)

(* A default limit that is recorded was sent, and so is a number; type      *)
(* correctness needs it, because a request to stop carries no profile.      *)
LimitsKnown ==
  \A t \in Tasks :
    call[t].kind \in {"setCurrentLimitDefault", "setPowerLimitDefault"}
      => call[t].profile.limit \in Nat

LEMMA NoCallType == NoCall \in RequestType /\ NoProfile \in Profiles
  BY DEF NoCall, RequestType, Kinds, Profiles, NoProfile

LEMMA NewConnectorType ==
  ASSUME NEW k \in Connectors
  PROVE  NewConnector(k) \in ConnectorType
  BY DEF NewConnector, ConnectorType, MaxCurrent

LEMMA FreeType == Free \in WireType
  BY DEF Free, WireType

LEMMA ProfileType ==
  ASSUME NEW k \in Connectors, NEW limit \in Nat
  PROVE  Profile(k, limit) \in Profiles /\ Profile(k, limit).limit = limit
  BY DEF Profile, Profiles

(* What is recorded about a connector, by the kind of the request.          *)
LEMMA RecordedType ==
  ASSUME TypeOK, LimitsKnown, NEW t \in Tasks, NEW k \in Connectors
  PROVE  Recorded(k, call[t]) \in ConnectorType
<1>1. conn[k] \in ConnectorType
  BY DEF TypeOK
<1>2. CASE call[t].kind \in {"setCurrentLimitDefault", "setPowerLimitDefault"}
  <2>1. call[t].profile.limit \in Nat
    BY <1>2 DEF LimitsKnown
  <2> QED
    BY <1>1, <1>2, <2>1 DEF Recorded, ConnectorType
<1>3. CASE call[t].kind \notin {"setCurrentLimitDefault", "setPowerLimitDefault"}
  BY <1>1, <1>3 DEF Recorded, ConnectorType
<1> QED
  BY <1>2, <1>3

TypeInv == TypeOK /\ LimitsKnown

LEMMA MeterStep ==
  ASSUME TypeOK, MeterPoll \/ MeterChange
  PROVE  MeterTypeOK'
<1> USE DEF MeterTypeOK
<1>1. MeterTypeOK
  BY DEF TypeOK
<1>2. CASE MeterPoll
  <2>1. overload' \in BOOLEAN
    BY <1>1, <1>2 DEF MeterPoll
  <2>2. sinceMeter' \in 0..(MeterTimeout + 1)
    BY <1>1, <1>2 DEF MeterPoll
  <2> QED
    BY <1>1, <1>2, <2>1, <2>2 DEF MeterPoll
<1>3. CASE MeterChange
  BY <1>1, <1>3 DEF MeterChange
<1> QED
  BY <1>2, <1>3

(* Counting up stays within the bound.                                      *)
LEMMA UpBounded ==
  ASSUME NEW n \in Nat, NEW x \in 0..n + 1
  PROVE  Up(x, n + 1) \in 0..n + 1
BY DEF Up

(* A profile ages up to its second phase.                                   *)
LEMMA AgeType ==
  ASSUME NEW s \in StationType
  PROVE  [s EXCEPT !.age = Up(@, s.profile.start)] \in StationType
<1>1. s.profile.start \in Nat /\ s.age \in Nat /\ s.age <= s.profile.start
  BY DEF StationType, Profiles, NoProfile
<1>2. Up(s.age, s.profile.start) \in Nat /\ Up(s.age, s.profile.start) <= s.profile.start
  BY <1>1 DEF Up
<1> QED
  BY <1>2 DEF StationType

(* A profile that has just been set has no age.                             *)
LEMMA FreshType ==
  ASSUME NEW p \in Profiles, NEW f \in BOOLEAN, NEW d \in BOOLEAN
  PROVE  [profile |-> p, age |-> 0, foreign |-> f, draws |-> d] \in StationType
  BY DEF StationType, Profiles, NoProfile

(* Every step keeps the types and the limits known.                        *)
LEMMA TypeStep ==
  ASSUME TypeInv, [Next]_vars
  PROVE  TypeInv'
<1> USE DEF TypeInv, meterVars, ctlVars, masterVars
<1>t. /\ conn \in [Connectors -> ConnectorType]
      /\ call \in [Tasks -> RequestType]
      /\ wire \in [Connectors -> WireType]
      /\ station \in [Connectors -> StationType]
  BY DEF TypeOK
<1>1. CASE BeginPass
  BY <1>1 DEF BeginPass, LimitsKnown, MeterTypeOK, TypeOK
<1>2. ASSUME NEW k \in Connectors, PassUnmanaged(k) PROVE TypeInv'
  <2>1. conn' \in [Connectors -> ConnectorType]
    BY <1>t, <1>2 DEF PassUnmanaged, ConnectorType
  <2> QED
    BY <1>2, <2>1 DEF PassUnmanaged, Pass, LimitsKnown, MeterTypeOK, TypeOK
<1>3. ASSUME NEW k \in Connectors, PassOver(k) PROVE TypeInv'
  BY <1>3 DEF PassOver, Pass, LimitsKnown, MeterTypeOK, TypeOK
<1>4. ASSUME NEW k \in Connectors, PassSend(k) PROVE TypeInv'
  <2> DEFINE rate == Decided(k)
             request == Request(k, SetLimit(k), Profile(k, LimitOf(k, rate)), rate)
  <2>1. rate \in Int
    BY <1>t DEF Decided, ConnectorType
  <2>2. conn' = [conn EXCEPT ![k].target = rate, ![k].since = 0]
    BY <1>4 DEF PassSend
  <2>3. conn' \in [Connectors -> ConnectorType]
    <3> DEFINE g == [conn EXCEPT ![k].target = rate]
    <3>1. conn' = [g EXCEPT ![k].since = 0]
      BY <2>2
    <3> HIDE DEF rate
    <3>2. g \in [Connectors -> ConnectorType]
      BY <1>t, <2>1 DEF ConnectorType
    <3> HIDE DEF g
    <3> QED
      BY <3>1, <3>2 DEF ConnectorType
  <2>4. rate \in Nat => request \in RequestType /\ request.profile.limit \in Nat
    <3> SUFFICES ASSUME rate \in Nat
                 PROVE  request \in RequestType /\ request.profile.limit \in Nat
      OBVIOUS
    <3>1. Profile(k, LimitOf(k, rate)) \in Profiles
          /\ Profile(k, LimitOf(k, rate)).limit \in Nat
      BY LimitNat, ProfileType
    <3>2. SetLimit(k) \in Kinds
      BY DEF SetLimit, Kinds
    <3> HIDE DEF rate
    <3> QED
      BY <3>1, <3>2 DEF Request, RequestType
  <2>5. call' = call \/ (rate \in Nat /\ call' = [call EXCEPT !["dur"] = request])
    BY <1>4, <2>1 DEF PassSend, Sendable
  <2>6. call' \in [Tasks -> RequestType] /\ LimitsKnown'
    <3> HIDE DEF request
    <3> QED
      BY <1>t, <2>4, <2>5 DEF LimitsKnown, Tasks
  <2> QED
    BY <1>4, <2>3, <2>6 DEF PassSend, Pass, MeterTypeOK, TypeOK
<1>5. CASE RecvPing
  BY <1>5 DEF RecvPing, Handled, LimitsKnown, MeterTypeOK, TypeOK
<1>6. CASE RecvSetPowerRate
  <2>1. Head(inbox).k \in Connectors /\ Head(inbox).value \in Int
    BY <1>6 DEF RecvSetPowerRate, Commands, Ping, TypeOK
  <2> QED
    <3>1. conn' \in [Connectors -> ConnectorType]
      <4> DEFINE k == Head(inbox).k
                 rate == Head(inbox).value
      <4>1. conn' = [conn EXCEPT ![k].target = rate]
        BY <1>6 DEF RecvSetPowerRate
      <4>2. k \in Connectors /\ rate \in Int
        BY <2>1
      <4> HIDE DEF k, rate
      <4> QED
        BY <1>t, <4>1, <4>2, SMTT(30) DEF ConnectorType
    <3> QED
      BY <1>6, <3>1, SMTT(30) DEF RecvSetPowerRate, Handled, LimitsKnown, MeterTypeOK, TypeOK
<1>7. CASE RecvCommand
  <2>1. PICK m \in Commands \union {Ping} : inbox = <<m>>
    BY <1>7 DEF RecvCommand, TypeOK
  <2>2. m.method \in Bare \union {"start", "setCurrentLimit", "setCurrentLimitDefault"}
    BY <1>7, <2>1 DEF RecvCommand
  <2>3. m.k \in Connectors /\ (m.method \notin Bare \union {"start"} => m.value \in Nat)
    <3>1. m \in Commands
      BY <2>1, <2>2 DEF Ping, Bare
    <3> QED
      BY <2>2, <3>1 DEF Commands, Bare
  <2> DEFINE profile == CASE m.method \in Bare -> NoProfile
                          [] m.method = "start" -> Profile(m.k, RemoteStartLimit(m.k))
                          [] OTHER -> Profile(m.k, m.value)
             kind == IF m.method = "setCurrentLimit" THEN "setLimit" ELSE m.method
             request == Request(m.k, kind, profile, 0)
  <2>4. profile \in Profiles /\ (m.method = "setCurrentLimitDefault" => profile.limit \in Nat)
    <3>1. RemoteStartLimit(m.k) \in Nat
      BY <1>t, <2>3 DEF RemoteStartLimit, ConnectorType
    <3>2. CASE m.method \in Bare
      BY <3>2, NoCallType DEF Bare
    <3>3. CASE m.method = "start"
      BY <3>1, <3>3, <2>3, ProfileType DEF Bare
    <3>4. CASE m.method \notin Bare \union {"start"}
      BY <3>4, <2>3, ProfileType DEF Bare
    <3> QED
      BY <3>2, <3>3, <3>4
  <2>5. kind \in Kinds /\ (kind = "setCurrentLimitDefault" => m.method = kind)
        /\ kind # "setPowerLimitDefault"
    BY <2>2 DEF Kinds, Bare
  <2>6. call' = [call EXCEPT !["udp"] = request]
    BY <1>7, <2>1 DEF RecvCommand
  <2>7. call' \in [Tasks -> RequestType] /\ LimitsKnown'
    <3> HIDE DEF profile, kind
    <3>1. request \in RequestType /\ request.kind = kind /\ request.profile = profile
      BY <2>3, <2>4, <2>5 DEF Request, RequestType
    <3> HIDE DEF request
    <3> QED
      BY <1>t, <2>4, <2>5, <2>6, <3>1 DEF LimitsKnown, Tasks
  <2> QED
    BY <1>7, <2>7 DEF RecvCommand, MeterTypeOK, TypeOK
<1>8. ASSUME NEW t \in Tasks, NEW k \in Connectors, Transmit(t, k) PROVE TypeInv'
  <2>1. wire' \in [Connectors -> WireType]
    BY <1>t, <1>8 DEF Transmit, WireType, Free
  <2>2. call' \in [Tasks -> RequestType]
    BY <1>t, <1>8 DEF Transmit, RequestType
  <2>3. LimitsKnown'
    BY <1>t, <1>8 DEF Transmit, LimitsKnown, RequestType
  <2> QED
    BY <1>8, <2>1, <2>2, <2>3 DEF Transmit, MeterTypeOK, TypeOK
<1>9. ASSUME NEW t \in Tasks, Raise(t) PROVE call' \in [Tasks -> RequestType] /\ LimitsKnown'
  BY <1>t, <1>9, NoCallType DEF Raise, LimitsKnown, NoCall
<1>10. ASSUME NEW t \in Tasks, NEW k \in Connectors, CallBreaks(t, k) PROVE TypeInv'
  BY <1>9, <1>10 DEF CallBreaks, Raise, MeterTypeOK, TypeOK
<1>11. ASSUME NEW t \in Tasks, NEW raises \in BOOLEAN, OrphanEnds(t, raises) PROVE TypeInv'
  <2>1. call' \in [Tasks -> RequestType] /\ LimitsKnown'
    BY <1>t, <1>11, NoCallType DEF OrphanEnds, LimitsKnown, NoCall
  <2>2. sinceMaster' \in 0..(MasterTimeout + 1)
    BY <1>11 DEF OrphanEnds, Handled, TypeOK
  <2> QED
    BY <1>11, <2>1, <2>2 DEF OrphanEnds, MeterTypeOK, TypeOK
<1>12. ASSUME NEW t \in Tasks, NEW k \in Connectors, CallTimesOut(t, k) PROVE TypeInv'
  BY <1>9, <1>12, FreeType DEF CallTimesOut, Raise, MeterTypeOK, TypeOK
<1>13. ASSUME NEW t \in Tasks, NEW k \in Connectors, Return(t, k)
       PROVE  /\ call' \in [Tasks -> RequestType] /\ LimitsKnown'
              /\ wire' \in [Connectors -> WireType]
  BY <1>t, <1>13, NoCallType, FreeType DEF Return, LimitsKnown, NoCall
<1>14. ASSUME NEW k \in Connectors, DurReturns(k) PROVE TypeInv'
  <2>1. "dur" \in Tasks
    BY DEF Tasks
  <2>2. Recorded(k, call["dur"]) \in ConnectorType /\ call["dur"].rate \in Int
    BY <1>t, <2>1, RecordedType DEF RequestType
  <2>3. conn' \in [Connectors -> ConnectorType]
    <3> DEFINE c == Recorded(k, call["dur"])
               r == call["dur"].rate
    <3>1. conn' = conn \/ conn' = [conn EXCEPT ![k] = [c EXCEPT !.rate = r]]
      BY <1>14 DEF DurReturns
    <3> HIDE DEF c, r
    <3>2. c \in ConnectorType /\ r \in Int
      BY <2>2 DEF c, r
    <3>3. [c EXCEPT !.rate = r] \in ConnectorType
      BY <3>2 DEF ConnectorType
    <3> QED
      BY <1>t, <3>1, <3>3
  <2> QED
    BY <1>13, <1>14, <2>1, <2>3 DEF DurReturns, MeterTypeOK, TypeOK
<1>15. ASSUME NEW k \in Connectors, UdpReturns(k) PROVE TypeInv'
  <2>1. "udp" \in Tasks
    BY DEF Tasks
  <2>2. conn' \in [Connectors -> ConnectorType]
    <3>1. Recorded(k, call["udp"]) \in ConnectorType
      BY <2>1, RecordedType
    <3> QED
      BY <1>t, <1>15, <3>1 DEF UdpReturns, UdpEnds
  <2>3. sinceMaster' \in 0..(MasterTimeout + 1)
    BY <1>15 DEF UdpReturns, UdpEnds, Handled, TypeOK
  <2> QED
    BY <1>13, <1>15, <2>1, <2>2, <2>3 DEF UdpReturns, UdpEnds, MeterTypeOK, TypeOK
<1>16. ASSUME NEW k \in Connectors, StatusNotification(k) PROVE TypeInv'
  <2>1. conn' \in [Connectors -> ConnectorType]
    <3>1. IsCharging(k) \in BOOLEAN
      BY <1>t DEF IsCharging, StationType
    <3> QED
      BY <1>t, <1>16, <3>1 DEF StatusNotification, ConnectorType
  <2> QED
    BY <1>16, <2>1 DEF StatusNotification, LimitsKnown, MeterTypeOK, TypeOK
<1>17. ASSUME NEW k \in Connectors, SecondConnector(k) PROVE TypeInv'
  <2>1. conn' \in [Connectors -> ConnectorType]
    <3>1. PICK b \in BOOLEAN : conn' = [conn EXCEPT ![k].configured = b]
      BY <1>17 DEF SecondConnector
    <3> QED
      BY <1>t, <3>1, SMTT(30) DEF ConnectorType
  <2> QED
    BY <1>17, <2>1 DEF SecondConnector, LimitsKnown, MeterTypeOK, TypeOK
<1>18. ASSUME NEW k \in Connectors, Drop(k) PROVE TypeInv'
  BY <1>18 DEF Drop, LimitsKnown, MeterTypeOK, TypeOK
<1>19. ASSUME NEW k \in Connectors, Reconnect(k) PROVE TypeInv'
  <2>1. call' \in [Tasks -> RequestType] /\ LimitsKnown'
    <3>1. [NoCall EXCEPT !.pc = "orphan"] \in RequestType
          /\ [NoCall EXCEPT !.pc = "orphan"].kind = "none"
      BY DEF NoCall, RequestType, Kinds, Profiles, NoProfile
    <3>2. call' = [t \in Tasks |-> IF call[t].k = k THEN [NoCall EXCEPT !.pc = "orphan"]
                                   ELSE call[t]]
      BY <1>19 DEF Reconnect, Orphaned
    <3> DEFINE orphan == [NoCall EXCEPT !.pc = "orphan"]
    <3> HIDE DEF orphan
    <3> QED
      BY <1>t, <3>1, <3>2 DEF LimitsKnown, orphan
  <2>2. conn' \in [Connectors -> ConnectorType] /\ wire' \in [Connectors -> WireType]
    BY <1>t, <1>19, NewConnectorType, FreeType DEF Reconnect
  <2> QED
    BY <1>19, <2>1, <2>2 DEF Reconnect, MeterTypeOK, TypeOK
<1>20. ASSUME NEW k \in Connectors, StationAccepts(k) PROVE TypeInv'
  <2>1. wire[k].by \in Tasks /\ station[k] \in StationType
    BY <1>t, <1>20 DEF StationAccepts, WireType
  <2>2. call[wire[k].by].profile \in Profiles
    BY <1>t, <2>1 DEF RequestType
  <2>3. Applied(k) \in StationType
    <3>1. CASE call[wire[k].by].kind \in {"stop", "maintain"}
      BY <2>1, <3>1 DEF Applied, StationType
    <3>2. CASE call[wire[k].by].kind \notin {"stop", "maintain"}
      <4>1. (station[k].draws \/ call[wire[k].by].kind = "start") \in BOOLEAN
        OBVIOUS
      <4> QED
        BY <2>2, <3>2, <4>1, FreshType DEF Applied
    <3> QED
      BY <3>1, <3>2
  <2>4. station' \in [Connectors -> StationType]
    BY <1>t, <1>20, <2>3 DEF StationAccepts
  <2>5. wire' \in [Connectors -> WireType]
    BY <1>t, <1>20 DEF StationAccepts, WireType
  <2> QED
    BY <1>20, <2>4, <2>5 DEF StationAccepts, LimitsKnown, MeterTypeOK, TypeOK
<1>21. ASSUME NEW k \in Connectors, StationRefuses(k) PROVE TypeInv'
  <2>1. wire' \in [Connectors -> WireType]
    BY <1>t, <1>21 DEF StationRefuses, WireType
  <2> QED
    BY <1>21, <2>1 DEF StationRefuses, LimitsKnown, MeterTypeOK, TypeOK
<1>22. ASSUME NEW k \in Connectors, Vehicle(k) PROVE TypeInv'
  <2>1. station' \in [Connectors -> StationType]
    <3>1. station' = [station EXCEPT ![k].draws = ~station[k].draws]
      BY <1>22 DEF Vehicle
    <3>2. PICK b \in BOOLEAN : station' = [station EXCEPT ![k].draws = b]
      BY <3>1
    <3>3. [station[k] EXCEPT !.draws = b] \in StationType
      BY <1>t DEF StationType
    <3> QED
      BY <1>t, <3>2, <3>3
  <2> QED
    BY <1>22, <2>1 DEF Vehicle, LimitsKnown, MeterTypeOK, TypeOK
<1>30. ASSUME NEW k \in Connectors, Meddle(k) PROVE TypeInv'
  <2>1. PICK p \in OtherProfiles :
          station' = [station EXCEPT ![k] = [station[k] EXCEPT !.profile = p, !.age = 0,
                                                              !.foreign = TRUE]]
    BY <1>30 DEF Meddle
  <2>2. p \in Profiles /\ p.start \in Nat
    BY DEF Profiles, NoProfile
  <2>3. [station[k] EXCEPT !.profile = p, !.age = 0, !.foreign = TRUE] \in StationType
    <3> DEFINE s == station[k]
               x == [s EXCEPT !.profile = p, !.age = 0, !.foreign = TRUE]
    <3>1. s \in [profile : Profiles, age : Nat, foreign : BOOLEAN, draws : BOOLEAN]
      BY <1>t DEF StationType
    <3> HIDE DEF s
    <3>2. x \in [profile : Profiles, age : Nat, foreign : BOOLEAN, draws : BOOLEAN]
          /\ x.age = 0 /\ x.profile = p
      BY <2>2, <3>1
    <3> HIDE DEF x
    <3>3. x \in StationType
      BY <2>2, <3>2 DEF StationType
    <3> QED
      BY <3>3 DEF s, x
  <2>4. station' \in [Connectors -> StationType]
    BY <1>t, <2>1, <2>3
  <2> QED
    BY <1>30, <2>4 DEF Meddle, LimitsKnown, MeterTypeOK, TypeOK
<1>31. CASE RecvRaises
  BY <1>31 DEF RecvRaises, LimitsKnown, MeterTypeOK, TypeOK
<1>23. ASSUME NEW m \in Commands \union {Ping}, MasterSends(m), commands' \in 0..MaxCommands
       PROVE  TypeInv'
  BY <1>23 DEF MasterSends, LimitsKnown, MeterTypeOK, Commands, TypeOK
<1>24. CASE MasterPings
  BY <1>23, <1>24 DEF MasterPings, TypeOK
<1>25. CASE MasterCommands
  BY <1>23, <1>25 DEF MasterCommands, TypeOK
<1>26. CASE Poll
  BY <1>26, MeterStep DEF Poll, LimitsKnown, TypeOK
<1>27. CASE CurrentChanges
  BY <1>27, MeterStep DEF CurrentChanges, LimitsKnown, TypeOK
<1>28. CASE Tick
  <2>1. conn' \in [Connectors -> ConnectorType]
    <3>1. \A k \in Connectors : [conn[k] EXCEPT !.since = Up(@, 2)] \in ConnectorType
      BY <1>t DEF Up, ConnectorType
    <3> QED
      BY <1>28, <3>1 DEF Tick
  <2>2. wire' \in [Connectors -> WireType]
    <3>1. \A k \in Connectors : wire[k].left - 1 \in 0..ResponseTimeout
      BY <1>t, <1>28 DEF Tick, WireType
    <3>2. \A k \in Connectors : [wire[k] EXCEPT !.left = @ - 1] \in WireType
      BY <1>t, <3>1 DEF WireType
    <3> QED
      BY <1>t, <1>28, <3>2 DEF Tick
  <2>3. station' \in [Connectors -> StationType]
    <3>1. \A k \in Connectors :
            [station[k] EXCEPT !.age = Up(@, station[k].profile.start)] \in StationType
      BY <1>t, AgeType
    <3> QED
      BY <1>28, <3>1 DEF Tick
  <2>4. sinceMaster' \in 0..(MasterTimeout + 1) /\ sinceMeter' \in 0..(MeterTimeout + 1)
    <3>1. sinceMaster \in 0..(MasterTimeout + 1) /\ sinceMeter \in 0..(MeterTimeout + 1)
      BY DEF MeterTypeOK, TypeOK
    <3> QED
      BY <1>28, <3>1, UpBounded DEF Tick
  <2> QED
    BY <1>28, <2>1, <2>2, <2>3, <2>4 DEF Tick, LimitsKnown, MeterTypeOK, TypeOK
<1>29. CASE UNCHANGED vars
  BY <1>29 DEF vars, LimitsKnown, MeterTypeOK, TypeOK
<1> QED
  BY <1>1, <1>2, <1>3, <1>4, <1>5, <1>6, <1>7, <1>8, <1>10, <1>11, <1>12, <1>14, <1>15,
     <1>16, <1>17, <1>18, <1>19, <1>20, <1>21, <1>22, <1>24, <1>25, <1>26, <1>27, <1>28,
     <1>29, <1>30, <1>31, StepCases

(* Every variable of PowerControl keeps its type: the limits sent are       *)
(* natural numbers, no rate below zero is sent, the timers stay in range.   *)
THEOREM TypesHold == Spec => []TypeInv
<1>1. Init => TypeInv
  <2> SUFFICES ASSUME Init PROVE TypeInv
    OBVIOUS
  <2>1. MeterTypeOK
    <3>1. reading \in Readings /\ sinceMeter \in 0..(MeterTimeout + 1)
      BY DEF Init, MeterInit
    <3>2. overload \in BOOLEAN
      BY DEF Init, MeterInit
    <3> QED
      BY <3>1, <3>2 DEF MeterTypeOK
  <2>2. conn \in [Connectors -> ConnectorType] /\ wire \in [Connectors -> WireType]
    BY NewConnectorType, FreeType DEF Init
  <2>3. call \in [Tasks -> RequestType] /\ LimitsKnown
    BY NoCallType DEF Init, Tasks, LimitsKnown, NoCall
  <2>4. station \in [Connectors -> StationType]
    BY NoCallType, FreshType DEF Init
  <2>5. /\ sinceMaster \in 0..(MasterTimeout + 1)
        /\ commands \in 0..MaxCommands /\ drops \in 0..MaxDrops
    BY DEF Init
  <2>6. inbox = <<>> /\ todo = {} /\ online \in [Connectors -> BOOLEAN]
    BY DEF Init
  <2> QED
    BY <2>1, <2>2, <2>3, <2>4, <2>5, <2>6 DEF TypeInv, TypeOK
<1>2. TypeInv /\ [Next]_vars => TypeInv'
  BY TypeStep
<1> QED
  BY <1>1, <1>2, PTL DEF Spec

(* In particular, PowerControl is type correct.                             *)
THEOREM TypeCorrect == Spec => []TypeOK
<1>1. TypeInv => TypeOK
  BY DEF TypeInv
<1> QED
  BY TypesHold, <1>1, PTL

-----------------------------------------------------------------------------
(* The zero of an alarm.                                                    *)

(* Only PassSend gives task_duration a call to make.                        *)
LEMMA OnlyPassSends ==
  ASSUME TypeOK, [Next]_vars, call["dur"] = NoCall, call'["dur"] # NoCall
  PROVE  \E k \in Connectors : PassSend(k)
<1> USE DEF ctlVars
<1>t. call \in [Tasks -> RequestType] /\ "dur" \in Tasks /\ "udp" \in Tasks
  BY DEF TypeOK, Tasks
<1>1. call' # call
  OBVIOUS
<1>2. ASSUME NEW t \in Tasks, call' = [call EXCEPT ![t] = NoCall] PROVE FALSE
  BY <1>t, <1>2
<1>3. ~RecvCommand
  BY <1>t DEF RecvCommand
<1>4. ASSUME NEW t \in Tasks, NEW k \in Connectors, Transmit(t, k) PROVE FALSE
  BY <1>t, <1>4 DEF Transmit, NoCall
<1>5. ASSUME NEW k \in Connectors, Reconnect(k) PROVE FALSE
  <2>1. call'["dur"] = Orphaned(k)["dur"] /\ call["dur"].k = NoConnector
    BY <1>5 DEF Reconnect, NoCall
  <2> QED
    BY <1>t, <2>1 DEF Orphaned
<1>6. ASSUME NEW t \in Tasks, NEW k \in Connectors,
             CallBreaks(t, k) \/ CallTimesOut(t, k) \/ Return(t, k)
      PROVE  FALSE
  BY <1>2, <1>6 DEF CallBreaks, CallTimesOut, Raise, Return
<1>7. ASSUME NEW k \in Connectors, DurReturns(k) \/ UdpReturns(k) PROVE FALSE
  BY <1>t, <1>6, <1>7 DEF DurReturns, UdpReturns, UdpEnds
<1>8. ASSUME NEW t \in Tasks, NEW raises \in BOOLEAN, OrphanEnds(t, raises) PROVE FALSE
  BY <1>2, <1>8 DEF OrphanEnds
<1>9. /\ ~BeginPass /\ ~RecvPing /\ ~RecvSetPowerRate /\ ~RecvRaises /\ ~Poll /\ ~Tick
      /\ ~MasterPings /\ ~MasterCommands /\ ~CurrentChanges /\ ~UNCHANGED vars
  BY <1>1 DEF BeginPass, RecvPing, RecvSetPowerRate, RecvRaises, Poll, Tick, MasterPings,
              MasterCommands, MasterSends, CurrentChanges, vars
<1>10. \A k \in Connectors :
         /\ ~PassUnmanaged(k) /\ ~PassOver(k) /\ ~StatusNotification(k)
         /\ ~SecondConnector(k) /\ ~StationAccepts(k) /\ ~StationRefuses(k)
         /\ ~Meddle(k) /\ ~Vehicle(k) /\ ~Drop(k)
  BY <1>1 DEF PassUnmanaged, PassOver, StatusNotification, SecondConnector,
              StationAccepts, StationRefuses, Meddle, Vehicle, Drop
<1> QED
  BY <1>3, <1>4, <1>5, <1>6, <1>7, <1>8, <1>9, <1>10, StepCases

(* While an alarm lasts, task_duration decides on a limit of 0 for every    *)
(* charger, provided that no DC charger has 200 kW or more.                 *)
THEOREM AlarmsDecideZero ==
  ASSUME \A k \in DC : MaxPower[k] < 200000
  PROVE  Spec => AlarmDecidesZero
<1> DEFINE Step == call["dur"] = NoCall /\ call'["dur"] # NoCall /\ (overload \/ MasterLost)
                     => call'["dur"].profile.limit = 0
<1>1. TypeOK /\ [Next]_vars => [Step]_vars
  <2> SUFFICES ASSUME TypeOK, [Next]_vars, overload \/ MasterLost,
                      call["dur"] = NoCall, call'["dur"] # NoCall
               PROVE  call'["dur"].profile.limit = 0
    OBVIOUS
  <2>1. PICK k \in Connectors : PassSend(k)
    BY OnlyPassSends
  <2>2. Decided(k) = 1
    BY DEF Decided
  <2>3. call' = [call EXCEPT !["dur"] = Request(k, SetLimit(k), Profile(k, LimitOf(k, 1)), 1)]
    BY <2>1, <2>2 DEF PassSend, Sendable
  <2>4. call'["dur"] = Request(k, SetLimit(k), Profile(k, LimitOf(k, 1)), 1)
    BY <2>3 DEF TypeOK, Tasks
  <2>5. LimitOf(k, 1) = 0
    BY OneIsZero
  <2> QED
    BY <2>4, <2>5 DEF Request, Profile
<1> QED
  BY <1>1, TypeCorrect, PTL DEF Spec, AlarmDecidesZero

-----------------------------------------------------------------------------
(* The rate that is held.                                                   *)

(* Whoever holds the lock of a charge point waits for an answer from it.    *)
WireOwned ==
  \A k \in Connectors, t \in Tasks :
    wire[k].by = t => call[t].pc = "wait" /\ call[t].k = k

(* task_duration only sets limits: it does not start, stop or clear.        *)
DurSetsLimits == call["dur"].kind \notin Bare \union {"start"}

(* While an accepted answer to task_duration is on its way, the profile it  *)
(* sent is the one the charge point holds: no other call of this server     *)
(* gets through, though someone else may have replaced the profile.         *)
AnswerHeld ==
  \A k \in Connectors :
    wire[k].by = "dur" /\ wire[k].reply = "accepted"
      => station[k].profile = call["dur"].profile \/ station[k].foreign

HeldInv == WireOwned /\ DurSetsLimits /\ AnswerHeld

(* A task that gives up or completes its call leaves the others' alone.     *)
LEMMA OwnedStep ==
  ASSUME TypeOK, WireOwned, [Next]_vars
  PROVE  WireOwned'
<1> USE DEF WireOwned, ctlVars
<1>t. /\ call \in [Tasks -> RequestType] /\ wire \in [Connectors -> WireType]
      /\ "dur" \in Tasks /\ "udp" \in Tasks
      /\ \A t \in Tasks : t # "none"
  BY DEF TypeOK, Tasks
<1>1. ASSUME NEW k \in Connectors, PassSend(k) PROVE WireOwned'
  BY <1>t, <1>1 DEF PassSend, Pass, NoCall
<1>2. CASE RecvCommand
  BY <1>t, <1>2 DEF RecvCommand, NoCall
<1>3. ASSUME NEW t \in Tasks, NEW k \in Connectors, Transmit(t, k) PROVE WireOwned'
  BY <1>t, <1>3 DEF Transmit, Lockable, Free
<1>4. ASSUME NEW t \in Tasks, NEW k \in Connectors, CallBreaks(t, k) PROVE WireOwned'
  BY <1>t, <1>4 DEF CallBreaks, Raise
<1>5. ASSUME NEW t \in Tasks, NEW raises \in BOOLEAN, OrphanEnds(t, raises) PROVE WireOwned'
  BY <1>t, <1>5 DEF OrphanEnds
<1>6. ASSUME NEW t \in Tasks, NEW k \in Connectors, CallTimesOut(t, k) PROVE WireOwned'
  BY <1>t, <1>6 DEF CallTimesOut, Raise, Free
<1>7. ASSUME NEW t \in Tasks, NEW k \in Connectors, Return(t, k) PROVE WireOwned'
  BY <1>t, <1>7 DEF Return, Free
<1>8. ASSUME NEW k \in Connectors, DurReturns(k) \/ UdpReturns(k) PROVE WireOwned'
  BY <1>t, <1>7, <1>8 DEF DurReturns, UdpReturns, UdpEnds
<1>9. ASSUME NEW k \in Connectors, Reconnect(k) PROVE WireOwned'
  BY <1>t, <1>9 DEF Reconnect, Orphaned, Free
<1>10. ASSUME NEW k \in Connectors, StationAccepts(k) \/ StationRefuses(k) PROVE WireOwned'
  <2>1. PICK r \in {"accepted", "refused"} : wire' = [wire EXCEPT ![k].reply = r]
    BY <1>10 DEF StationAccepts, StationRefuses
  <2>2. \A j \in Connectors : wire'[j].by = wire[j].by
    BY <1>t, <2>1 DEF WireType
  <2> QED
    BY <1>10, <2>2 DEF StationAccepts, StationRefuses
<1>11. CASE Tick
  <2>1. \A k \in Connectors : [wire[k] EXCEPT !.left = @ - 1].by = wire[k].by
    BY <1>t DEF WireType
  <2>2. \A k \in Connectors : wire'[k].by = wire[k].by
    BY <1>t, <1>11, <2>1 DEF Tick
  <2> QED
    BY <1>11, <2>2 DEF Tick
<1>12. CASE \/ BeginPass \/ RecvPing \/ RecvSetPowerRate \/ RecvRaises \/ Poll
            \/ MasterPings \/ MasterCommands \/ CurrentChanges \/ UNCHANGED vars
  BY <1>12 DEF BeginPass, RecvPing, RecvSetPowerRate, RecvRaises, Poll, MasterPings,
               MasterCommands, MasterSends, CurrentChanges, vars
<1>13. ASSUME NEW k \in Connectors,
              \/ PassUnmanaged(k) \/ PassOver(k) \/ StatusNotification(k)
              \/ SecondConnector(k) \/ Meddle(k) \/ Vehicle(k) \/ Drop(k)
       PROVE  WireOwned'
  BY <1>13 DEF PassUnmanaged, PassOver, StatusNotification, SecondConnector, Meddle,
               Vehicle, Drop
<1> QED
  BY <1>1, <1>2, <1>3, <1>4, <1>5, <1>6, <1>8, <1>9, <1>10, <1>11, <1>12, <1>13, StepCases

(* task_duration's requests, and the profile a charge point holds once it   *)
(* has accepted one.                                                        *)
LEMMA HeldStep ==
  ASSUME TypeOK, HeldInv, [Next]_vars
  PROVE  (DurSetsLimits /\ AnswerHeld)'
<1> USE DEF DurSetsLimits, AnswerHeld, Bare, ctlVars
<1>t. /\ call \in [Tasks -> RequestType] /\ wire \in [Connectors -> WireType]
      /\ station \in [Connectors -> StationType]
      /\ "dur" \in Tasks /\ "udp" \in Tasks
  BY DEF TypeOK, Tasks
<1>i. /\ WireOwned /\ WireOwned' /\ DurSetsLimits /\ AnswerHeld
  BY OwnedStep DEF HeldInv
<1>1. ASSUME NEW k \in Connectors, PassSend(k) PROVE (DurSetsLimits /\ AnswerHeld)'
  <2>1. SetLimit(k) \notin Bare \union {"start"}
    BY DEF SetLimit
  <2>2. DurSetsLimits'
    BY <1>t, <1>i, <1>1, <2>1 DEF PassSend, Request
  <2>3. \A j \in Connectors : wire[j].by # "dur"
    BY <1>t, <1>i, <1>1 DEF PassSend, Pass, NoCall, WireOwned
  <2> QED
    BY <1>1, <2>2, <2>3 DEF PassSend
<1>2. CASE RecvCommand
  BY <1>t, <1>i, <1>2 DEF RecvCommand
<1>3. ASSUME NEW t \in Tasks, NEW k \in Connectors, Transmit(t, k)
      PROVE  (DurSetsLimits /\ AnswerHeld)'
  BY <1>t, <1>i, <1>3 DEF Transmit, Free, RequestType
<1>4. ASSUME NEW t \in Tasks, call' = [call EXCEPT ![t] = NoCall], UNCHANGED station,
             UNCHANGED wire \/ \E k \in Connectors :
                                  wire[k].by = t /\ wire' = [wire EXCEPT ![k] = Free]
      PROVE  (DurSetsLimits /\ AnswerHeld)'
  <2>1. DurSetsLimits'
    BY <1>t, <1>i, <1>4 DEF NoCall
  <2>2. \A j \in Connectors : wire'[j].by = "dur" => t # "dur"
    BY <1>t, <1>i, <1>4 DEF NoCall, WireOwned
  <2>3. \A j \in Connectors : wire'[j] = wire[j] \/ wire'[j].by = "none"
    BY <1>t, <1>4 DEF Free
  <2> QED
    BY <1>t, <1>i, <1>4, <2>1, <2>2, <2>3
<1>5. ASSUME NEW t \in Tasks, NEW k \in Connectors, CallBreaks(t, k)
      PROVE  (DurSetsLimits /\ AnswerHeld)'
  BY <1>4, <1>5 DEF CallBreaks, Raise
<1>6. ASSUME NEW t \in Tasks, NEW raises \in BOOLEAN, OrphanEnds(t, raises)
      PROVE  (DurSetsLimits /\ AnswerHeld)'
  BY <1>4, <1>6 DEF OrphanEnds
<1>7. ASSUME NEW t \in Tasks, NEW k \in Connectors, CallTimesOut(t, k)
      PROVE  (DurSetsLimits /\ AnswerHeld)'
  BY <1>4, <1>7 DEF CallTimesOut, Raise
<1>8. ASSUME NEW t \in Tasks, NEW k \in Connectors, Return(t, k), UNCHANGED station
      PROVE  (DurSetsLimits /\ AnswerHeld)'
  <2>1. DurSetsLimits'
    BY <1>t, <1>i, <1>8 DEF Return, NoCall
  <2>2. \A j \in Connectors : wire'[j].by = "dur" => t # "dur"
    BY <1>t, <1>i, <1>8 DEF Return, NoCall, WireOwned
  <2>3. \A j \in Connectors : wire'[j] = wire[j] \/ wire'[j].by = "none"
    BY <1>t, <1>8 DEF Return, Free
  <2> QED
    BY <1>t, <1>i, <1>8, <2>1, <2>2, <2>3 DEF Return
<1>9. ASSUME NEW k \in Connectors, DurReturns(k) \/ UdpReturns(k)
      PROVE  (DurSetsLimits /\ AnswerHeld)'
  BY <1>t, <1>8, <1>9 DEF DurReturns, UdpReturns, UdpEnds
<1>10. ASSUME NEW k \in Connectors, Reconnect(k) PROVE (DurSetsLimits /\ AnswerHeld)'
  <2>1. DurSetsLimits'
    BY <1>t, <1>i, <1>10 DEF Reconnect, Orphaned, NoCall
  <2>2. \A j \in Connectors : wire'[j].by = "dur" => j # k /\ call["dur"].k = j
    BY <1>t, <1>i, <1>10 DEF Reconnect, Free, WireOwned
  <2> QED
    BY <1>t, <1>i, <1>10, <2>1, <2>2 DEF Reconnect, Orphaned
<1>11. ASSUME NEW k \in Connectors, StationAccepts(k) PROVE (DurSetsLimits /\ AnswerHeld)'
  <2>1. wire[k].by = "dur" => Applied(k).profile = call["dur"].profile
    BY <1>i DEF Applied
  <2>2. station' = [station EXCEPT ![k] = Applied(k)]
    BY <1>11 DEF StationAccepts
  <2>3. station'[k] = Applied(k) /\ \A j \in Connectors \ {k} : station'[j] = station[j]
    BY <1>t, <2>2
  <2>4. wire'[k].by = wire[k].by /\ \A j \in Connectors \ {k} : wire'[j] = wire[j]
    BY <1>t, <1>11 DEF StationAccepts, WireType
  <2> QED
    BY <1>i, <1>11, <2>1, <2>3, <2>4 DEF StationAccepts
<1>12. ASSUME NEW k \in Connectors, StationRefuses(k) PROVE (DurSetsLimits /\ AnswerHeld)'
  BY <1>t, <1>i, <1>12 DEF StationRefuses, WireType
<1>13. ASSUME NEW k \in Connectors, Vehicle(k) PROVE (DurSetsLimits /\ AnswerHeld)'
  <2>1. \A j \in Connectors : /\ station'[j].profile = station[j].profile
                              /\ station'[j].foreign = station[j].foreign
    BY <1>t, <1>13 DEF Vehicle, StationType
  <2> QED
    BY <1>i, <1>13, <2>1 DEF Vehicle
<1>17. ASSUME NEW k \in Connectors, Meddle(k) PROVE (DurSetsLimits /\ AnswerHeld)'
  <2>1. station'[k].foreign /\ \A j \in Connectors \ {k} : station'[j] = station[j]
    BY <1>t, <1>17 DEF Meddle, StationType
  <2> QED
    BY <1>i, <1>17, <2>1 DEF Meddle
<1>14. CASE Tick
  <2>1. \A k \in Connectors : /\ wire'[k].by = wire[k].by /\ wire'[k].reply = wire[k].reply
                              /\ station'[k].profile = station[k].profile
                              /\ station'[k].foreign = station[k].foreign
    BY <1>t, <1>14 DEF Tick, WireType, StationType
  <2> QED
    BY <1>i, <1>14, <2>1 DEF Tick
<1>15. CASE \/ BeginPass \/ RecvPing \/ RecvSetPowerRate \/ RecvRaises \/ Poll
            \/ MasterPings \/ MasterCommands \/ CurrentChanges \/ UNCHANGED vars
  BY <1>i, <1>15 DEF BeginPass, RecvPing, RecvSetPowerRate, RecvRaises, Poll, MasterPings,
               MasterCommands, MasterSends, CurrentChanges, vars
<1>16. ASSUME NEW k \in Connectors,
              \/ PassUnmanaged(k) \/ PassOver(k) \/ StatusNotification(k)
              \/ SecondConnector(k) \/ Drop(k)
       PROVE  (DurSetsLimits /\ AnswerHeld)'
  BY <1>i, <1>16 DEF PassUnmanaged, PassOver, StatusNotification, SecondConnector, Drop
<1> QED
  BY <1>1, <1>2, <1>3, <1>5, <1>6, <1>7, <1>9, <1>10, <1>11, <1>12, <1>13, <1>14, <1>15,
     <1>16, <1>17, StepCases

LEMMA HeldInvariant == Spec => []HeldInv
<1>1. Init => HeldInv
  BY DEF Init, HeldInv, WireOwned, DurSetsLimits, AnswerHeld, Bare, Free, NoCall, Tasks
<1>2. TypeOK /\ HeldInv /\ [Next]_vars => HeldInv'
  BY OwnedStep, HeldStep DEF HeldInv
<1> QED
  BY <1>1, <1>2, TypeCorrect, PTL DEF Spec

(* The only steps that change power_rate.                                   *)
LEMMA RateChanges ==
  ASSUME TypeOK, [Next]_vars, NEW k \in Connectors,
         conn'[k].rate # conn[k].rate, ~Unmanaged(k)
  PROVE  DurReturns(k) \/ Reconnect(k)
<1>t. /\ conn \in [Connectors -> ConnectorType]
      /\ call \in [Tasks -> RequestType]
  BY DEF TypeOK
<1>1. conn' # conn
  OBVIOUS
<1>2. ASSUME NEW j \in Connectors, PassUnmanaged(j) PROVE FALSE
  BY <1>t, <1>2 DEF PassUnmanaged
<1>3. ASSUME NEW j \in Connectors, PassSend(j) PROVE FALSE
  BY <1>t, <1>3 DEF PassSend, ConnectorType
<1>4. ~RecvSetPowerRate
  <2> SUFFICES ASSUME RecvSetPowerRate PROVE FALSE
    OBVIOUS
  <2> DEFINE j == Head(inbox).k
             rate == Head(inbox).value
  <2>1. conn' = [conn EXCEPT ![j].target = rate]
    BY DEF RecvSetPowerRate
  <2> HIDE DEF j, rate
  <2> QED
    BY <1>t, <2>1 DEF ConnectorType
<1>5. ASSUME NEW j \in Connectors, DurReturns(j) PROVE j = k
  BY <1>t, <1>5 DEF DurReturns
<1>6. ASSUME NEW j \in Connectors, UdpReturns(j) PROVE FALSE
  <2>1. Recorded(j, call["udp"]).rate = conn[j].rate
    BY <1>t DEF Recorded, ConnectorType
  <2> QED
    BY <1>t, <1>6, <2>1 DEF UdpReturns, UdpEnds
<1>7. ASSUME NEW j \in Connectors, StatusNotification(j) \/ SecondConnector(j) PROVE FALSE
  BY <1>t, <1>7 DEF StatusNotification, SecondConnector, ConnectorType
<1>8. ASSUME NEW j \in Connectors, Reconnect(j) PROVE j = k
  BY <1>t, <1>8 DEF Reconnect
<1>9. ~Tick
  BY <1>t DEF Tick, ConnectorType
<1>10. /\ ~BeginPass /\ ~RecvPing /\ ~RecvRaises /\ ~RecvCommand /\ ~Poll
       /\ ~MasterPings /\ ~MasterCommands /\ ~CurrentChanges /\ ~UNCHANGED vars
  BY <1>1 DEF BeginPass, RecvPing, RecvRaises, RecvCommand, Poll, MasterPings, MasterCommands,
              MasterSends, CurrentChanges, vars, ctlVars
<1>11. \A t \in Tasks, j \in Connectors :
         /\ ~Transmit(t, j) /\ ~CallBreaks(t, j) /\ ~CallTimesOut(t, j)
  BY <1>1 DEF Transmit, CallBreaks, CallTimesOut, Raise
<1>12. \A t \in Tasks, raises \in BOOLEAN : ~OrphanEnds(t, raises)
  BY <1>1 DEF OrphanEnds
<1>13. \A j \in Connectors :
         /\ ~PassOver(j) /\ ~StationAccepts(j) /\ ~StationRefuses(j)
         /\ ~Meddle(j) /\ ~Vehicle(j) /\ ~Drop(j)
  BY <1>1 DEF PassOver, StationAccepts, StationRefuses, Meddle, Vehicle, Drop, ctlVars
<1> QED
  BY <1>2, <1>3, <1>4, <1>5, <1>6, <1>7, <1>8, <1>9, <1>10, <1>11, <1>12, <1>13, StepCases

(* The rate reported to the master box is that of the profile which the     *)
(* charge point accepted in answer to the very call that assigns it, and    *)
(* which no other call of this server has replaced since, for any number of *)
(* chargers, whatever others send and however often sessions are replaced.  *)
THEOREM RecordedHeld == Spec => RecordedRateHeld
<1> DEFINE Step ==
      \A k \in Connectors :
        conn'[k].rate # conn[k].rate /\ ~Unmanaged(k) =>
          \/ Reconnect(k)
          \/ /\ call["dur"].k = k /\ call["dur"].rate = conn'[k].rate
             /\ station[k].profile = call["dur"].profile \/ station[k].foreign
<1>1. TypeOK /\ HeldInv /\ [Next]_vars => [Step]_vars
  <2> SUFFICES ASSUME TypeOK, HeldInv, [Next]_vars, NEW k \in Connectors,
                      conn'[k].rate # conn[k].rate, ~Unmanaged(k), ~Reconnect(k)
               PROVE  /\ call["dur"].k = k /\ call["dur"].rate = conn'[k].rate
                      /\ station[k].profile = call["dur"].profile \/ station[k].foreign
    OBVIOUS
  <2>1. DurReturns(k)
    BY RateChanges
  <2>2. wire[k].by = "dur" /\ wire[k].reply = "accepted"
    BY <2>1 DEF DurReturns, Return, Granted
  <2>3. station[k].profile = call["dur"].profile \/ station[k].foreign
    BY <2>2 DEF HeldInv, AnswerHeld
  <2>4. call["dur"].k = k
    BY <2>2 DEF HeldInv, WireOwned, Tasks
  <2>5. conn'[k].rate = call["dur"].rate
    <3>1. conn' = [conn EXCEPT ![k] = [Recorded(k, call["dur"]) EXCEPT !.rate = call["dur"].rate]]
      BY <2>1, <2>2 DEF DurReturns, Granted
    <3>2. "dur" \in Tasks /\ conn[k] \in ConnectorType
      BY DEF TypeOK, Tasks
    <3> QED
      BY <3>1, <3>2 DEF TypeOK, Recorded, ConnectorType
  <2> QED
    BY <2>3, <2>4, <2>5
<1> QED
  BY <1>1, TypeCorrect, HeldInvariant, PTL DEF Spec, RecordedRateHeld
=============================================================================
