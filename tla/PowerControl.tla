---------------------------- MODULE PowerControl ----------------------------
(***************************************************************************)
(* How the charging power is kept within the building's limit: the task    *)
(* task_duration sends every connector its power rate again and again, the *)
(* master box asks for rates over UDP (task_udp), the meter raises the     *)
(* overload flag (Meter), and each charge point applies the profiles it    *)
(* accepts, which run down to the phase-2 limit unless they are renewed.   *)
(* Others send profiles, too: the central system behind the proxy, and the *)
(* debug socket.                                                           *)
(*                                                                         *)
(* A call to a charge point is what SerialRpc promises: one at a time per  *)
(* charge point, answered or given up after ResponseTimeout.  A step is    *)
(* the code between two awaits; a tick is a second.                        *)
(***************************************************************************)
EXTENDS ChargingProfile, Meter, Sequences, FiniteSets

CONSTANTS
  Connectors,        \* connector 1 of each charge point
  NoConnector,
  DC,                \* charge points configured with charge_type 2
  MaxPower,          \* configured max_power of each, in watts
  Phase2Limit,       \* configured txprofile_phase2_limit
  Phase2Start,       \* configured txprofile_phase2_start_period, in ticks
  DefaultStart,      \* 180, its default, in ticks
  OtherProfiles,     \* profiles that others send, NoProfile for clearing
  TwoConnectors,     \* charge points that have a second connector
  Rates,             \* power rates the master box asks for
  Limits,            \* current limits the master box sends directly
  Methods,           \* what the master box asks for, beside nothing
  AllDisabled,       \* g_task_duration_disable
  DurationDisabled,  \* configured with task_duration_disable
  ProfileDisabled,   \* configured with set_charging_profile_disable
  MasterTimeout,     \* g_masterbox_disconnect_timeout, in ticks
  ResponseTimeout,   \* response_timeout of a call, in ticks
  MaxCommands,       \* bound: commands the master box sends
  MaxDrops           \* bound: how often sessions are lost or replaced

NoProfile == [limit |-> -1, rest |-> -1, start |-> 0]
Profiles == [limit : Nat, rest : Nat, start : Nat] \union {NoProfile}

ASSUME ControlAssumption ==
  /\ NoConnector \notin Connectors
  /\ Rates \subseteq Int /\ Limits \subseteq Nat
  /\ DC \subseteq Connectors /\ TwoConnectors \subseteq Connectors
  /\ MaxPower \in [Connectors -> Nat] /\ Phase2Limit \in Nat
  /\ Phase2Start \in Nat \ {0} /\ DefaultStart \in Nat \ {0}
  /\ OtherProfiles \subseteq Profiles
  /\ AllDisabled \in BOOLEAN
  /\ DurationDisabled \subseteq Connectors /\ ProfileDisabled \subseteq Connectors
  /\ MasterTimeout \in Nat /\ ResponseTimeout \in Nat \ {0}
  /\ MaxCommands \in Nat /\ MaxDrops \in Nat

VARIABLES
  conn,      \* each Connector object: target (last_set_power_rate_value),
             \* rate (power_rate), since (ticks since last_set_power_rate_time),
             \* amps, watts (the limits remote_start() sends), charging
             \* (is_charing), configured (its charge point follows config.json)
  online,    \* connect_status
  todo,      \* task_duration.start(): the connectors this pass has yet to see
  call,      \* the call that task_duration ("dur") and udp_recv ("udp") await
  wire,      \* the call on its way to each charge point: who holds the lock,
             \* the reply, and the ticks left until it times out
  inbox,     \* the datagram received and not yet read
  sinceMaster,  \* ticks since g_last_recv_master_time
  station,   \* external: each charge point's profile and its age, whether it is
             \* someone else's (foreign), and whether a vehicle draws power
  commands, drops  \* how much of the bounds is used

ctlVars == <<conn, online, todo, call, wire>>
masterVars == <<inbox, sinceMaster, commands>>
vars == <<meterVars, ctlVars, masterVars, station, drops>>

Free == [by |-> "none", reply |-> "none", left |-> ResponseTimeout]
NoCall == [pc |-> "none", k |-> NoConnector, kind |-> "none", profile |-> NoProfile,
           rate |-> 0]
Ping == [method |-> "ping", k |-> NoConnector, value |-> 0]

\* A call in the making: for which connector, and what it carries.
Request(k, kind, profile, rate) ==
  [pc |-> "send", k |-> k, kind |-> kind, profile |-> profile, rate |-> rate]

\* A newly created Connector: nothing asked for, nothing accepted.  Connector
\* 1 is created before ChargePoint.__init__ sets the defaults, so what it took
\* from config.json is overwritten; connector 2 takes it again.
NewConnector(k) ==
  [target |-> 0, rate |-> 0, since |-> 2, amps |-> MaxCurrent, watts |-> MaxPower[k],
   charging |-> FALSE, configured |-> FALSE]

Init ==
  /\ MeterInit
  /\ conn = [k \in Connectors |-> NewConnector(k)]
  /\ online = [k \in Connectors |-> TRUE]
  /\ todo = {}
  /\ call = [t \in {"dur", "udp"} |-> NoCall]
  /\ wire = [k \in Connectors |-> Free]
  /\ inbox = <<>>
  /\ sinceMaster = MasterTimeout + 1
  /\ station = [k \in Connectors |->
                  [profile |-> NoProfile, age |-> 0, foreign |-> FALSE, draws |-> FALSE]]
  /\ commands = 0
  /\ drops = 0

Tasks == {"dur", "udp"}

\* What get_charging_profile_payload() and set_power_rate() go by.
IsDC(k) == conn[k].configured /\ k \in DC
LimitOf(k, rate) == IF IsDC(k) THEN Watts(rate, MaxPower[k]) ELSE Amps(rate)
Profile(k, limit) ==
  [limit |-> limit,
   rest |-> IF conn[k].configured THEN Phase2Limit ELSE 0,
   start |-> IF conn[k].configured THEN Phase2Start ELSE DefaultStart]

\* A charge point without a profile delivers all it can.
ShutDown(k) ==
  station[k].profile # NoProfile /\ InForce(station[k].profile, station[k].age) = 0

MasterLost == sinceMaster > MasterTimeout

-----------------------------------------------------------------------------
(* task_duration.start()                                                   *)

\* After the sleep of a second, a new pass over g_connector.
BeginPass ==
  /\ todo = {} /\ call["dur"] = NoCall
  /\ todo' = Connectors
  /\ UNCHANGED <<meterVars, conn, online, call, wire, masterVars, station, drops>>

\* task_duration_disable, of all or of one
RenewalOff(k) == AllDisabled \/ (conn[k].configured /\ k \in DurationDisabled)

EqualSkipped(k) == conn[k].target = conn[k].rate \* mutant: nothing is renewed
\* The rate in force needs renewing only while a vehicle charges.
RenewalSkipped(k) ==
  /\ conn[k].target = conn[k].rate
  /\ \/ RenewalOff(k)
     \/ ~conn[k].charging
     \/ conn[k].since < 2

Skipped(k) ==
  \/ ~online[k]
  \/ RenewalSkipped(k)
  \/ conn[k].since < 1

Pass(k) ==
  /\ call["dur"] = NoCall
  /\ k \in todo
  /\ todo' = todo \ {k}

Managed(k) == FALSE \* mutant: the setting has no effect
Unmanaged(k) == conn[k].configured /\ k \in ProfileDisabled

\* set_charging_profile_disable: the rate asked for is reported as if set.
PassUnmanaged(k) ==
  /\ Pass(k)
  /\ online[k] /\ Unmanaged(k)
  /\ conn' = [conn EXCEPT ![k].rate = conn[k].target]
  /\ UNCHANGED <<meterVars, online, call, wire, masterVars, station, drops>>

PassOver(k) ==
  /\ Pass(k)
  /\ ~Unmanaged(k) \/ ~online[k]
  /\ Skipped(k)
  /\ UNCHANGED <<meterVars, conn, online, call, wire, masterVars, station, drops>>

MeterOnly(k) == IF overload THEN 1 ELSE conn[k].target \* mutant: the master is forgotten
\* A rate of 1 stands for "shut down".
Decided(k) == IF overload \/ MasterLost THEN 1 ELSE conn[k].target

\* set_power_rate() picks the method by is_charing and charge_type.
SetLimit(k) ==
  IF conn[k].charging THEN "setLimit"
  ELSE IF IsDC(k) THEN "setPowerLimitDefault" ELSE "setCurrentLimitDefault"

AnyRate(rate) == TRUE \* mutant: a rate below zero is sent as well
Sendable(rate) == rate >= 0

\* The rate is decided, the payload built from it, and only then the lock of
\* the charge point is waited for.
PassSend(k) ==
  /\ Pass(k)
  /\ online[k] /\ ~Unmanaged(k)
  /\ ~Skipped(k)
  /\ LET rate == Decided(k) IN
       /\ conn' = [conn EXCEPT ![k].target = rate, ![k].since = 0]
       /\ call' = IF ~Sendable(rate) THEN call
                  ELSE [call EXCEPT !["dur"] =
                          Request(k, SetLimit(k), Profile(k, LimitOf(k, rate)), rate)]
  /\ UNCHANGED <<meterVars, online, wire, masterVars, station, drops>>

-----------------------------------------------------------------------------
(* task_udp.udp_recv() and handler_recv()                                  *)

Handled == sinceMaster' = 0

\* A datagram that asks for nothing: an acknowledgement, or an unknown id.
RecvPing ==
  /\ call["udp"] = NoCall
  /\ inbox = <<Ping>>
  /\ inbox' = <<>>
  /\ Handled
  /\ UNCHANGED <<meterVars, ctlVars, commands, station, drops>>

RecvSetPowerRate ==
  /\ call["udp"] = NoCall
  /\ inbox # <<>> /\ Head(inbox).method = "setPowerRate"
  /\ conn' = [conn EXCEPT ![Head(inbox).k].target = Head(inbox).value]
  /\ inbox' = <<>>
  /\ Handled
  /\ UNCHANGED <<meterVars, online, todo, call, wire, commands,
                 station, drops>>

\* The number in the datagram is none, or the datagram is no object: the
\* handler raises before it does anything.
RecvRaises ==
  /\ call["udp"] = NoCall
  /\ inbox # <<>>
  /\ Head(inbox).method \in {"ping", "setPowerRate", "setCurrentLimit",
                             "setCurrentLimitDefault"}
  /\ inbox' = <<>>
  /\ UNCHANGED <<meterVars, ctlVars, sinceMaster, commands, station, drops>>

RemoteStartLimit(k) == IF IsDC(k) THEN conn[k].watts ELSE conn[k].amps

\* The methods that send no profile: "maintain" stands for qrcode, debug,
\* getconfig, setconfig and updateFirmware.
Bare == {"stop", "ClearChargingProfile", "maintain"}

\* The other methods call the charge point, and the datagrams behind wait.
RecvCommand ==
  /\ call["udp"] = NoCall
  /\ inbox # <<>>
  /\ LET m == Head(inbox) IN
       /\ m.method \in Bare \union {"start", "setCurrentLimit", "setCurrentLimitDefault"}
       /\ call' = [call EXCEPT !["udp"] =
                     Request(m.k, IF m.method = "setCurrentLimit" THEN "setLimit" ELSE m.method,
                             CASE m.method \in Bare -> NoProfile
                               [] m.method = "start" -> Profile(m.k, RemoteStartLimit(m.k))
                               [] OTHER -> Profile(m.k, m.value), 0)]
  /\ inbox' = <<>>
  /\ UNCHANGED <<meterVars, conn, online, todo, wire, sinceMaster,
                 commands, station, drops>>

-----------------------------------------------------------------------------
(* A call to a charge point: CallEngine seen from its callers.             *)

Lockable(k) == wire[k] = Free

Transmit(t, k) ==
  /\ call[t].pc = "send" /\ call[t].k = k
  /\ online[k] /\ Lockable(k)
  /\ call' = [call EXCEPT ![t].pc = "wait"]
  /\ wire' = [wire EXCEPT ![k] = [Free EXCEPT !.by = t]]
  /\ UNCHANGED <<meterVars, conn, online, todo, masterVars, station, drops>>

\* The call raises: udp_recv() logs it and takes no note of the master box.
Raise(t) ==
  /\ call' = [call EXCEPT ![t] = NoCall]
  /\ UNCHANGED <<meterVars, conn, online, todo, masterVars, station, drops>>

\* send() on a closed socket.
CallBreaks(t, k) ==
  /\ call[t].pc = "send" /\ call[t].k = k
  /\ ~online[k] /\ Lockable(k)
  /\ Raise(t)
  /\ UNCHANGED wire

\* A call on an object that a new session has replaced ends as it may, for its
\* answer may be there already, or the old socket open; what it assigns
\* concerns objects that nobody reads any more.
OrphanEnds(t, raises) ==
  /\ call[t].pc = "orphan"
  /\ call' = [call EXCEPT ![t] = NoCall]
  /\ IF t = "udp" /\ ~raises THEN Handled ELSE UNCHANGED sinceMaster
  /\ UNCHANGED <<meterVars, conn, online, todo, wire, inbox, commands, station, drops>>

CallTimesOut(t, k) ==
  /\ wire[k].by = t
  /\ wire[k].left = 0
  /\ Raise(t)
  /\ wire' = [wire EXCEPT ![k] = Free]

\* A charge point refuses with a status or with a CallError, which comes back
\* as None: set_current_limit_default() and set_power_limit_default() do not
\* expect it.  get_config() raises if the answer lacks what it reads.
MayRaise(k) ==
  LET kind == call[wire[k].by].kind IN
    CASE kind \in {"setCurrentLimitDefault", "setPowerLimitDefault"} ->
           {FALSE, wire[k].reply = "refused"}
      [] kind = "maintain" -> {FALSE, wire[k].reply = "accepted"}
      [] OTHER -> {FALSE}

RecordAlways(k) == TRUE \* mutant: a rejected rate is recorded
Granted(k) == wire[k].reply = "accepted"

\* What the methods assign when they are granted: the default limits, of
\* which remote_start() sends one, and is_charing.
Recorded(k, request) ==
  LET limit == request.profile.limit IN
    CASE request.kind = "start" -> [conn[k] EXCEPT !.charging = TRUE]
      [] request.kind = "stop" -> [conn[k] EXCEPT !.charging = FALSE]
      [] request.kind = "setCurrentLimitDefault" -> [conn[k] EXCEPT !.amps = limit]
      [] request.kind = "setPowerLimitDefault" -> [conn[k] EXCEPT !.watts = limit]
      [] OTHER -> conn[k]

Return(t, k) ==
  /\ wire[k].by = t /\ wire[k].reply # "none"
  /\ call' = [call EXCEPT ![t] = NoCall]
  /\ wire' = [wire EXCEPT ![k] = Free]

\* set_power_rate(): power_rate, too, is what was granted.
DurReturns(k) ==
  /\ Return("dur", k)
  /\ conn' = IF ~Granted(k) THEN conn
             ELSE [conn EXCEPT ![k] = [Recorded(k, call["dur"]) EXCEPT
                                         !.rate = call["dur"].rate]]
  /\ UNCHANGED <<meterVars, online, todo, masterVars, station, drops>>

\* handler_recv() is done, and udp_recv() notes that the master box is there,
\* unless it has raised.
UdpEnds(k, raises) ==
  /\ Return("udp", k)
  /\ raises \in MayRaise(k)
  /\ conn' = IF ~Granted(k) THEN conn
             ELSE [conn EXCEPT ![k] = Recorded(k, call["udp"])]
  /\ IF raises THEN UNCHANGED sinceMaster ELSE Handled
  /\ UNCHANGED <<meterVars, online, todo, inbox, commands, station, drops>>

UdpReturns(k) == \E raises \in BOOLEAN : UdpEnds(k, raises)

-----------------------------------------------------------------------------
(* Status notifications and sessions.                                      *)

IsCharging(k) == station[k].draws

\* on_status_notification()
StatusNotification(k) ==
  /\ online[k]
  /\ conn[k].charging # IsCharging(k)
  /\ conn' = [conn EXCEPT ![k].charging = IsCharging(k)]
  /\ UNCHANGED <<meterVars, online, todo, call, wire, masterVars, station, drops>>

\* The first message about connector 2 creates it, and Connector.__init__
\* gives the charge point the settings of config.json.
SecondConnector(k) ==
  /\ online[k] /\ k \in TwoConnectors
  /\ ~conn[k].configured
  /\ conn' = [conn EXCEPT ![k].configured = TRUE]
  /\ UNCHANGED <<meterVars, online, todo, call, wire, masterVars, station, drops>>

\* ConnectionClosed in ws_on_connect(): connect_status = False.
Drop(k) ==
  /\ online[k]
  /\ drops < MaxDrops
  /\ online' = [online EXCEPT ![k] = FALSE]
  /\ drops' = drops + 1
  /\ UNCHANGED <<meterVars, conn, todo, call, wire, masterVars, station>>

\* The calls that the old object was making no longer concern the new one.
Orphaned(k) ==
  [t \in Tasks |-> IF call[t].k = k THEN [NoCall EXCEPT !.pc = "orphan"] ELSE call[t]]

\* ws_on_connect(): a new ChargePoint with new Connectors and a new lock, also
\* while the old session is still there.
Reconnect(k) ==
  /\ online[k] => drops < MaxDrops
  /\ drops' = IF online[k] THEN drops + 1 ELSE drops
  /\ online' = [online EXCEPT ![k] = TRUE]
  /\ conn' = [conn EXCEPT ![k] = NewConnector(k)]
  /\ call' = Orphaned(k)
  /\ wire' = [wire EXCEPT ![k] = Free]
  /\ UNCHANGED <<meterVars, todo, masterVars, station>>

-----------------------------------------------------------------------------
(* The world outside: charge points, vehicles, the master box, the meter,  *)
(* and time.                                                               *)

Applied(k) ==
  LET request == call[wire[k].by] IN
    CASE request.kind = "stop" -> [station[k] EXCEPT !.draws = FALSE]
      [] request.kind = "maintain" -> station[k]
      [] OTHER -> [profile |-> request.profile, age |-> 0, foreign |-> FALSE,
                   draws |-> station[k].draws \/ request.kind = "start"]

StationAccepts(k) ==
  /\ online[k]
  /\ wire[k].by # "none" /\ wire[k].reply = "none"
  /\ station' = [station EXCEPT ![k] = Applied(k)]
  /\ wire' = [wire EXCEPT ![k].reply = "accepted"]
  /\ UNCHANGED <<meterVars, conn, online, todo, call, masterVars, drops>>

StationRefuses(k) ==
  /\ online[k]
  /\ wire[k].by # "none" /\ wire[k].reply = "none"
  /\ wire' = [wire EXCEPT ![k].reply = "refused"]
  /\ UNCHANGED <<meterVars, conn, online, todo, call, masterVars, station, drops>>

\* The central system behind the proxy (CpChannelAbs), the debug socket
\* (ws_debug_loop) and the calls of a session that has been replaced set and
\* clear profiles without the lock of this session.
Meddle(k) ==
  /\ \E p \in OtherProfiles :
       station' = [station EXCEPT ![k] = [@ EXCEPT !.profile = p, !.age = 0, !.foreign = TRUE]]
  /\ UNCHANGED <<meterVars, ctlVars, masterVars, drops>>

Vehicle(k) ==
  /\ station' = [station EXCEPT ![k].draws = ~@]
  /\ UNCHANGED <<meterVars, ctlVars, masterVars, drops>>

Commands ==
  {m \in [method : {"setPowerRate"}, k : Connectors, value : Rates]
     \union [method : {"setCurrentLimit", "setCurrentLimitDefault"}, k : Connectors,
             value : Limits]
     \union [method : Bare \union {"start"}, k : Connectors, value : {0}] :
   m.method \in Methods}

\* The inbox holds one datagram: a bound.
MasterSends(m) ==
  /\ inbox = <<>>
  /\ inbox' = <<m>>
  /\ UNCHANGED <<meterVars, ctlVars, sinceMaster, station, drops>>

MasterPings == MasterSends(Ping) /\ UNCHANGED commands

MasterCommands ==
  /\ commands < MaxCommands
  /\ commands' = commands + 1
  /\ \E m \in Commands : MasterSends(m)

Poll == MeterPoll /\ UNCHANGED <<ctlVars, masterVars, station, drops>>

CurrentChanges == MeterChange /\ UNCHANGED <<ctlVars, masterVars, station, drops>>

Up(n, most) == IF n < most THEN n + 1 ELSE n

\* Time does not pass a timeout by.
Tick ==
  /\ \A k \in Connectors : wire[k].left > 0
  /\ sinceMeter' = Up(sinceMeter, MeterTimeout + 1)
  /\ sinceMaster' = Up(sinceMaster, MasterTimeout + 1)
  /\ conn' = [k \in Connectors |-> [conn[k] EXCEPT !.since = Up(@, 2)]]
  /\ wire' = [k \in Connectors |-> IF wire[k].by = "none" THEN wire[k]
                                    ELSE [wire[k] EXCEPT !.left = @ - 1]]
  /\ station' = [k \in Connectors |->
                   [station[k] EXCEPT !.age = Up(@, station[k].profile.start)]]
  /\ UNCHANGED <<reading, overload, online, todo, call, inbox, commands, drops>>

-----------------------------------------------------------------------------
CallStep(t) ==
  \/ \E k \in Connectors :
       Transmit(t, k) \/ CallBreaks(t, k) \/ CallTimesOut(t, k)
  \/ \E raises \in BOOLEAN : OrphanEnds(t, raises)

DurStep ==
  \/ BeginPass
  \/ \E k \in Connectors :
       PassUnmanaged(k) \/ PassOver(k) \/ PassSend(k) \/ DurReturns(k)
  \/ CallStep("dur")

UdpStep ==
  \/ RecvPing \/ RecvSetPowerRate \/ RecvRaises \/ RecvCommand
  \/ \E k \in Connectors : UdpReturns(k)
  \/ CallStep("udp")

Outside ==
  \/ MasterPings \/ MasterCommands \/ CurrentChanges
  \/ \E k \in Connectors :
       \/ StationAccepts(k) \/ StationRefuses(k) \/ Meddle(k) \/ Vehicle(k)
       \/ Drop(k) \/ Reconnect(k)

Next ==
  \/ DurStep \/ UdpStep \/ Poll \/ Tick \/ Outside
  \/ \E k \in Connectors : StatusNotification(k) \/ SecondConnector(k)

Spec == Init /\ [][Next]_vars

(* The tasks of the server are scheduled fairly, a pass reaches every       *)
(* connector, time passes, the meter is polled and status notifications     *)
(* arrive.  A charge point that is asked again and again accepts at last.   *)
Fairness ==
  /\ WF_vars(DurStep) /\ WF_vars(UdpStep)
  /\ WF_vars(Poll) /\ WF_vars(Tick)
  /\ \A k \in Connectors :
       /\ WF_vars(StatusNotification(k))
       /\ SF_vars(StationAccepts(k))

FairSpec == Spec /\ Fairness

-----------------------------------------------------------------------------
(* Properties.                                                             *)

Kinds == {"none", "setLimit", "setCurrentLimitDefault", "setPowerLimitDefault",
          "start"} \union Bare

ConnectorType ==
  [target : Int, rate : Int, since : 0..2, amps : Nat, watts : Nat,
   charging : BOOLEAN, configured : BOOLEAN]
RequestType ==
  [pc : {"none", "send", "wait", "orphan"}, k : Connectors \union {NoConnector},
   kind : Kinds, profile : Profiles, rate : Nat]
WireType ==
  [by : Tasks \union {"none"}, reply : {"none", "accepted", "refused"},
   left : 0..ResponseTimeout]
StationType ==
  {s \in [profile : Profiles, age : Nat, foreign : BOOLEAN, draws : BOOLEAN] :
     s.age <= s.profile.start}

(* Every variable has its type.                                             *)
TypeOK ==
  /\ MeterTypeOK
  /\ conn \in [Connectors -> ConnectorType]
  /\ online \in [Connectors -> BOOLEAN]
  /\ todo \subseteq Connectors
  /\ call \in [Tasks -> RequestType]
  /\ wire \in [Connectors -> WireType]
  /\ inbox = <<>> \/ \E m \in Commands \union {Ping} : inbox = <<m>>
  /\ sinceMaster \in 0..(MasterTimeout + 1)
  /\ station \in [Connectors -> StationType]
  /\ commands \in 0..MaxCommands
  /\ drops \in 0..MaxDrops

(* While the meter is overloaded or the master box counts as offline, every *)
(* profile that task_duration decides on has the limit 0, whatever the      *)
(* master box has asked for and whichever charger it is for.                *)
AlarmDecidesZero ==
  [][ call["dur"] = NoCall /\ call'["dur"] # NoCall /\ (overload \/ MasterLost)
        => call'["dur"].profile.limit = 0 ]_vars

(* A charge point configured with set_charging_profile_disable is never     *)
(* sent a profile by task_duration: task_duration.py:27 says "don't send    *)
(* charging profile command".                                               *)
UnmanagedNeverSent ==
  [][ call["dur"] = NoCall => call'["dur"].k \notin ProfileDisabled ]_vars

(* power_rate, which is reported to the master box, changes within a        *)
(* session only to the rate whose profile the charge point accepted in      *)
(* answer to that very call and has kept since: a rate that was refused,    *)
(* failed or timed out is never reported, nor one that another call of this *)
(* server has overtaken.  Someone else may have replaced the profile in the *)
(* meantime, and it may have run down.                                      *)
RecordedRateHeld ==
  [][ \A k \in Connectors :
        conn'[k].rate # conn[k].rate /\ ~Unmanaged(k) =>
          \/ Reconnect(k)
          \/ /\ call["dur"].k = k /\ call["dur"].rate = conn'[k].rate
             /\ station[k].profile = call["dur"].profile \/ station[k].foreign ]_vars

\* A connector that a vehicle charges at, and that stays connected.
Charging(k) == online[k] /\ station[k].draws

\* Others leave the charge point's profile alone at last.
LeftAlone(k) == <>[][~Meddle(k)]_vars

(* While the current stays above the limit, or the meter stays silent, each *)
(* charging station ends up at 0 and stays there: from the meter through    *)
(* the flag, a pass, a call and the charge point.  That is so wherever      *)
(* neither set_charging_profile_disable nor task_duration_disable is in     *)
(* effect, for they have task_duration skip the alarm (26-28, 36-41), and   *)
(* once others leave the charge point's profile alone.                      *)
MeterAlarmShutsDown ==
  \A k \in Connectors :
    /\ <>[](/\ Charging(k) /\ ~Unmanaged(k) /\ ~RenewalOff(k)
            /\ Read(reading) > CurrentOverload \/ Read(reading) = -1)
    /\ LeftAlone(k)
    => <>[]ShutDown(k)

(* task_duration.py:60 says it without exception: "When the TCP meter is    *)
(* overloaded, all charging stations are shut down".                        *)
MeterAlarmShutsAllDown ==
  \A k \in Connectors :
    <>[](Charging(k) /\ Read(reading) > CurrentOverload) => <>[]ShutDown(k)

(* The same when the master box falls silent for good.                      *)
MasterLossShutsDown ==
  \A k \in Connectors :
    /\ <>[](/\ Charging(k) /\ ~Unmanaged(k) /\ ~RenewalOff(k)
            /\ inbox = <<>> /\ MasterLost)
    /\ LeftAlone(k)
    => <>[]ShutDown(k)

(* With no alarm, and a rate that the master box leaves as it is, a station *)
(* that charges is brought back to the limit of that rate again and again,  *)
(* in spite of timeouts, refusals, lost answers, profiles running down, and *)
(* profiles that others set or clear, until they leave it alone.  The       *)
(* settings that switch the renewal off are not in effect.                  *)
TargetReached ==
  \A k \in Connectors :
    /\ <>[](/\ Charging(k) /\ ~Unmanaged(k) /\ ~RenewalOff(k)
            /\ ~overload /\ ~MasterLost /\ conn[k].target >= 0)
    /\ LeftAlone(k)
    => []<>(/\ station[k].profile # NoProfile
            /\ station[k].age < station[k].profile.start
            /\ station[k].profile.limit = LimitOf(k, conn[k].target))

(* A charge point whose profiles are not managed at last reports the rate   *)
(* that the master box asks for, whatever is on its way to it when the      *)
(* setting takes effect.                                                    *)
UnmanagedFollows ==
  \A k \in ProfileDisabled :
    <>[](online[k] /\ conn[k].configured) => <>[](conn[k].rate = conn[k].target)
=============================================================================
