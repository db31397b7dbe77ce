------------------------------ MODULE Registry ------------------------------
(***************************************************************************)
(* The registries g_cp_ocpp and g_connector, the sessions that fill them,  *)
(* and the loops that iterate over them and await in the body: the pass of *)
(* task_duration, and the daily and the ten-second loops of udp_loop, with *)
(* the reports that they and the status notifications send to the master   *)
(* box.                                                                    *)
(*                                                                         *)
(* A dictionary keeps the order of insertion: it is a sequence of keys and *)
(* values here.  A step is the code between two awaits, so what a loop     *)
(* passes over without an await is one step.                               *)
(***************************************************************************)
EXTENDS Naturals, Sequences

CONSTANTS
  Stations,      \* the ids of charge points
  ReportGap,     \* the least time between two reports of a connector
  MinuteRounds,  \* rounds of udp_loop in a minute, 6 in the code
  DayRounds,     \* and in a day, 8640 in the code
  MaxSessions,   \* bound: connections that are made
  MaxChanges     \* bound: changes of cp_status

ASSUME RegistryAssumption ==
  /\ "none" \notin Stations
  /\ ReportGap \in Nat /\ MinuteRounds \in Nat \ {0} /\ DayRounds \in Nat \ {0}
  /\ MaxSessions \in Nat /\ MaxChanges \in Nat

VARIABLES
  up,           \* the server is running
  session,      \* the ChargePoint of each connection, in the order made:
                \* station, state of the websocket and its handler, online
                \* (connect_status)
  object,       \* each Connector, by session and number: cp_status, is_charing
                \* and age, the time since its last report
  g_cp_ocpp,    \* sequence of [key, session]
  g_connector,  \* sequence of [key, session], a key being [station, number]
  dur,          \* task_duration.start(): where it is, and whether the number
                \* of passes it has completed is odd
  udp,          \* udp_loop(): where it is, and the rounds
  reported,     \* the status that the master box has of each connector
  changes       \* counts what MaxChanges bounds

registryVars == <<session, object, g_cp_ocpp, g_connector>>
vars == <<up, registryVars, dur, udp, reported, changes>>

Sessions == 1..MaxSessions
Numbers == 1..2  \* of the connectors of a charge point
Statuses == {"Available", "Charging"}
Keys == [station : Stations, number : Numbers]

-----------------------------------------------------------------------------
(* Dictionaries and iterators.                                             *)

KeysOf(d) == {d[i].key : i \in DOMAIN d}
KeepsFirst(d, key, s) == \* mutant: setdefault()
  IF key \in KeysOf(d) THEN d ELSE Append(d, [key |-> key, session |-> s])
Appends(d, key, s) == Append(d, [key |-> key, session |-> s]) \* mutant: a list
Put(d, key, s) ==
  IF key \in KeysOf(d)
  THEN [i \in DOMAIN d |-> IF d[i].key = key THEN [d[i] EXCEPT !.session = s]
                           ELSE d[i]]
  ELSE Append(d, [key |-> key, session |-> s])

\* next(): RuntimeError, "dictionary changed size during iteration".
Resized(d, size) == Len(d) # size

NoObject == <<0, 0>>
ObjectAt(i) == <<g_connector[i].session, g_connector[i].key.number>>

Online(o) == session[o[1]].online

-----------------------------------------------------------------------------
(* Reports.                                                                *)

KeyOf(o) == [station |-> session[o[1]].station, number |-> o[2]]

NewObject == [status |-> "", charging |-> FALSE, age |-> ReportGap]

\* udp_send_report(): too early a report is dropped.
NoReport(o) == UNCHANGED <<reported, object>> \* mutant: the loops do not report
Report(o) ==
  IF Online(o) /\ object[o].age >= ReportGap
  THEN /\ reported' = [reported EXCEPT ![KeyOf(o)] = object[o].status]
       /\ object' = [object EXCEPT ![o].age = 0]
  ELSE UNCHANGED <<reported, object>>

\* Time passes.
Tick ==
  /\ up
  /\ \E o \in DOMAIN object : object[o].age < ReportGap
  /\ object' = [o \in DOMAIN object |->
                  [object[o] EXCEPT !.age = IF @ < ReportGap THEN @ + 1 ELSE @]]
  /\ UNCHANGED <<up, session, g_cp_ocpp, g_connector, dur, udp, reported, changes>>

-----------------------------------------------------------------------------
(* Sessions: ws_on_connect() and what the receive loop does.               *)

Unmade == [station |-> "none", state |-> "none", online |-> FALSE]
Made(s) == session[s].state # "none"

\* ChargePoint() registers its connector 1 before it is registered itself.
\* The station's earlier connection, if there is one, goes on.
Connect(st, s) ==
  /\ up
  /\ ~Made(s) /\ \A earlier \in 1..(s - 1) : Made(earlier)
  /\ session' = [session EXCEPT ![s] = [station |-> st, state |-> "open",
                                        online |-> TRUE]]
  /\ object' = [o \in DOMAIN object \union {<<s, 1>>} |->
                  IF o = <<s, 1>> THEN NewObject ELSE object[o]]
  /\ g_connector' = Put(g_connector, [station |-> st, number |-> 1], s)
  /\ g_cp_ocpp' = Put(g_cp_ocpp, st, s)
  /\ UNCHANGED <<up, dur, udp, reported, changes>>

\* The websocket closes, which recv() changes after what it has received.
Close(s) ==
  /\ up
  /\ session[s].state = "open"
  /\ session' = [session EXCEPT ![s].state = "closed"]
  /\ UNCHANGED <<up, object, g_cp_ocpp, g_connector, dur, udp, reported, changes>>

ByStation(s) == \* mutant: the ChargePoint is looked up in g_cp_ocpp
  CHOOSE r \in {g_cp_ocpp[i].session : i \in DOMAIN g_cp_ocpp} :
    session[r].station = session[s].station
OfHandler(s) == s

\* "except ConnectionClosed": the handler marks the ChargePoint it made.
Ended(s) ==
  /\ up
  /\ session[s].state = "closed"
  /\ session' = [session EXCEPT ![s].state = "over",
                                ![OfHandler(s)].online = FALSE]
  /\ UNCHANGED <<up, object, g_cp_ocpp, g_connector, dur, udp, reported, changes>>

\* Any other exception ends the handler, too, and the websocket with it, but
\* nothing marks the ChargePoint.
Failed(s) ==
  /\ up
  /\ session[s].state \in {"open", "closed"}
  /\ session' = [session EXCEPT ![s].state = "over"]
  /\ UNCHANGED <<up, object, g_cp_ocpp, g_connector, dur, udp, reported, changes>>

\* on_status_notification(), with get_connector(): a Connector that this
\* ChargePoint has not made yet is made, and takes the place of another's.
StatusNotification(s, n, status) ==
  /\ up
  /\ changes < MaxChanges
  /\ session[s].state \in {"open", "closed"}
  /\ changes' = changes + 1
  /\ LET o == <<s, n>>
         before == IF o \in DOMAIN object THEN object[o] ELSE NewObject
         due == session[s].online /\ before.age >= ReportGap
     IN  /\ object' = [p \in DOMAIN object \union {o} |->
                         IF p = o THEN [status |-> status,
                                        charging |-> status = "Charging",
                                        age |-> IF due THEN 0 ELSE before.age]
                         ELSE object[p]]
         /\ g_connector' = IF o \in DOMAIN object THEN g_connector
                           ELSE Put(g_connector, KeyOf(o), s)
         /\ reported' = IF due THEN [reported EXCEPT ![KeyOf(o)] = status]
                        ELSE reported
  /\ UNCHANGED <<up, session, g_cp_ocpp, dur, udp>>

-----------------------------------------------------------------------------
(* task_duration.start()                                                   *)

DurAt(pc, i, size, odd) ==
  [pc |-> pc, at |-> i, size |-> size, odd |-> odd,
   object |-> IF pc = "sleep" THEN NoObject ELSE ObjectAt(i)]
DurAsleep(odd) == DurAt("sleep", 0, 0, odd)

\* "except Exception" around the pass: the next one begins.
Escapes(odd) == [DurAsleep(odd) EXCEPT !.pc = "ended"] \* mutant: not caught
Interrupted(odd) == DurAsleep(odd)

\* Under an alarm cp_status becomes available, whatever the charge point said.
Alarm(o) ==
  /\ changes < MaxChanges
  /\ changes' = changes + 1
  /\ object' = [object EXCEPT ![o].status = "Available"]

\* On to the next connector that is online and due, PowerControl tells which
\* are, and when there is an alarm; nothing is awaited for those in between.
DurNext(at, size) ==
  \/ /\ Resized(g_connector, size)
     /\ dur' = Interrupted(dur.odd)
     /\ UNCHANGED <<object, changes>>
  \/ /\ ~Resized(g_connector, size)
     /\ dur' = DurAsleep(~dur.odd)
     /\ UNCHANGED <<object, changes>>
  \/ /\ ~Resized(g_connector, size)
     /\ \E i \in (at + 1)..size :
          /\ Online(ObjectAt(i))
          /\ dur' = DurAt("call", i, size, dur.odd)
          /\ \/ UNCHANGED <<object, changes>>
             \/ Alarm(ObjectAt(i))

DurFrame == UNCHANGED <<up, session, g_cp_ocpp, g_connector, udp>>

BeginPass ==
  /\ up
  /\ dur.pc = "sleep"
  /\ DurNext(0, Len(g_connector))
  /\ UNCHANGED reported
  /\ DurFrame

\* set_power_rate() returns, or raises, in which case nothing is reported;
\* either way the loop goes on.  The Connector may have been replaced.
PowerRateSet ==
  /\ up
  /\ dur.pc = "call"
  /\ dur' = [dur EXCEPT !.pc = "pause"]
  /\ Report(dur.object)
  /\ UNCHANGED changes
  /\ DurFrame
PowerRateRaises ==
  /\ up
  /\ dur.pc = "call"
  /\ DurNext(dur.at, dur.size)
  /\ UNCHANGED reported
  /\ DurFrame
PassGoesOn ==
  /\ up
  /\ dur.pc = "pause"
  /\ DurNext(dur.at, dur.size)
  /\ UNCHANGED reported
  /\ DurFrame

Dur == BeginPass \/ PowerRateSet \/ PowerRateRaises \/ PassGoesOn

-----------------------------------------------------------------------------
(* udp_loop()                                                              *)

UdpAt(pc, i, size, object_, round) ==
  [pc |-> pc, at |-> i, size |-> size, object |-> object_, round |-> round]
UdpAsleep(round) == UdpAt("sleep", 0, 0, NoObject, round)

IsMinute(round) == round % MinuteRounds = 0
IsDay(round) == round % DayRounds = 0

\* The RuntimeError is raised outside the try: it ends the loop and, by way
\* of both gather(), main() and the server.
Crash ==
  /\ up' = FALSE
  /\ UNCHANGED <<udp, reported, object>>

UdpNext(at, size, round) ==
  IF Resized(g_connector, size) THEN Crash
  ELSE IF at = size
  THEN /\ udp' = UdpAsleep(round)
       /\ UNCHANGED <<up, reported, object>>
  ELSE LET o == ObjectAt(at + 1)
       IN  IF IsMinute(round) /\ Online(o)
           THEN /\ udp' = UdpAt("trigger", at + 1, size, o, round)
                /\ UNCHANGED <<up, reported, object>>
           ELSE /\ udp' = UdpAt("pause", at + 1, size, o, round)
                /\ Report(o)
                /\ UNCHANGED up

\* Some of the charge points, those whose meterValueSampleInterval is not
\* known (Handling has it), are asked for it.
DayNext(at, size, round) ==
  IF Resized(g_cp_ocpp, size) THEN Crash
  ELSE \/ UdpNext(0, Len(g_connector), round)
       \/ \E i \in (at + 1)..size :
            /\ udp' = UdpAt("config", i, size, NoObject, round)
            /\ UNCHANGED <<up, reported, object>>

UdpFrame == UNCHANGED <<session, g_cp_ocpp, g_connector, dur, changes>>

BeginRound ==
  /\ up
  /\ udp.pc = "sleep"
  /\ LET round == (udp.round + 1) % DayRounds
     IN  IF IsDay(round) THEN DayNext(0, Len(g_cp_ocpp), round)
         ELSE UdpNext(0, Len(g_connector), round)
  /\ UdpFrame

\* set_config() and get_config(), answered or not
Configured ==
  /\ up
  /\ udp.pc = "config"
  /\ DayNext(udp.at, udp.size, udp.round)
  /\ UdpFrame

\* The status is triggered and, unless it charges, the meter values.
Triggered ==
  /\ up
  /\ udp.pc \in {"trigger", "meter"}
  /\ IF udp.pc = "trigger" /\ ~object[udp.object].charging
     THEN /\ udp' = [udp EXCEPT !.pc = "meter"]
          /\ UNCHANGED <<reported, object>>
     ELSE /\ udp' = [udp EXCEPT !.pc = "pause"]
          /\ Report(udp.object)
  /\ UNCHANGED up
  /\ UdpFrame
\* If a call raises, there is no report, and no pause.
TriggerRaises ==
  /\ up
  /\ udp.pc \in {"trigger", "meter"}
  /\ UdpNext(udp.at, udp.size, udp.round)
  /\ UdpFrame
NextConnector ==
  /\ up
  /\ udp.pc = "pause"
  /\ UdpNext(udp.at, udp.size, udp.round)
  /\ UdpFrame

Udp == BeginRound \/ Configured \/ Triggered \/ TriggerRaises \/ NextConnector

-----------------------------------------------------------------------------
KeepsRegistry == \* mutant: the registry outlives the server
  /\ up' = TRUE
  /\ UNCHANGED <<g_cp_ocpp, g_connector>>
  /\ object' = <<>>
  /\ dur' = DurAsleep(FALSE)
  /\ udp' = UdpAsleep(0)
Fresh ==
  /\ up' = TRUE
  /\ g_cp_ocpp' = <<>>
  /\ g_connector' = <<>>
  /\ object' = <<>>
  /\ dur' = DurAsleep(FALSE)
  /\ udp' = UdpAsleep(0)

\* systemd starts the server again; nothing is persistent.
Restart ==
  /\ ~up
  /\ Fresh
  /\ session' = [s \in Sessions |->
                   IF Made(s) THEN [session[s] EXCEPT !.state = "over",
                                                      !.online = FALSE]
                   ELSE session[s]]
  /\ UNCHANGED <<reported, changes>>

Init ==
  /\ up = TRUE
  /\ session = [s \in Sessions |-> Unmade]
  /\ object = <<>>
  /\ g_cp_ocpp = <<>>
  /\ g_connector = <<>>
  /\ dur = DurAsleep(FALSE)
  /\ udp = UdpAsleep(0)
  /\ reported = [k \in Keys |-> ""]
  /\ changes = 0

Next ==
  \/ \E s \in Sessions :
       \/ \E st \in Stations : Connect(st, s)
       \/ \E n \in Numbers, status \in Statuses : StatusNotification(s, n, status)
       \/ Close(s) \/ Ended(s) \/ Failed(s)
  \/ Tick
  \/ Dur
  \/ Udp
  \/ Restart

\* The loops and the handlers run, calls come to their end, time passes, and
\* the server is started again.
Spec ==
  /\ Init /\ [][Next]_vars
  /\ WF_vars(Dur) /\ WF_vars(Udp) /\ WF_vars(Tick) /\ WF_vars(Restart)
  /\ \A s \in Sessions : WF_vars(Ended(s))

-----------------------------------------------------------------------------
(* Properties.                                                             *)

\* Type invariant.
TypeOK ==
  /\ up \in BOOLEAN
  /\ session \in [Sessions -> [station : Stations \union {"none"},
                               state : {"none", "open", "closed", "over"},
                               online : BOOLEAN]]
  /\ DOMAIN object \subseteq Sessions \X Numbers
  /\ \A o \in DOMAIN object : object[o] \in [status : Statuses \union {""},
                                           charging : BOOLEAN, age : 0..ReportGap]
  /\ \A i \in DOMAIN g_cp_ocpp :
       g_cp_ocpp[i] \in [key : Stations, session : Sessions]
  /\ \A i \in DOMAIN g_connector :
       /\ g_connector[i] \in [key : Keys, session : Sessions]
       /\ ObjectAt(i) \in DOMAIN object
  /\ dur.pc \in {"sleep", "call", "pause"}
  /\ dur.pc # "sleep" => dur.object \in DOMAIN object
  /\ udp.pc \in {"sleep", "config", "trigger", "meter", "pause"}
  /\ udp.pc \in {"trigger", "meter", "pause"} =>
       udp.object \in DOMAIN object
  /\ reported \in [Keys -> Statuses \union {""}]
  /\ changes \in 0..MaxChanges

\* After a charge point has connected again, g_cp_ocpp has its latest
\* ChargePoint, and connector 1 in g_connector is that one's: a command never
\* goes to an earlier connection.  (Connector 2 may be an earlier one's.)
LatestRegistered ==
  \A i \in DOMAIN g_cp_ocpp :
    LET s == g_cp_ocpp[i].session
    IN  /\ \A t \in Sessions : session[t].station = g_cp_ocpp[i].key => t <= s
        /\ \E j \in DOMAIN g_connector :
             g_connector[j] = [key |-> [station |-> g_cp_ocpp[i].key, number |-> 1],
                               session |-> s]

\* The end of an earlier connection, however late it is noticed, does not
\* take the charge point offline: while the handler of the connection that is
\* registered runs, the charge point is online.
CurrentOnline ==
  \A i \in DOMAIN g_cp_ocpp :
    LET s == session[g_cp_ocpp[i].session]
    IN  s.state \in {"open", "closed"} => s.online

\* task_duration completes a pass over g_connector again and again, whatever
\* connects, disconnects or appears while it awaits.
PassesGoOn == []<><<up' /\ dur'.odd # dur.odd>>_vars

\* The master box does not stay behind: when the status of an online
\* connector differs from the last report, it is reported in the end, though
\* reports that follow too soon are dropped.
Behind(k) ==
  /\ up
  /\ \E i \in DOMAIN g_connector :
       /\ g_connector[i].key = k
       /\ Online(ObjectAt(i))
       /\ object[ObjectAt(i)].status # reported[k]
ReportsCatchUp == \A k \in Keys : Behind(k) ~> ~Behind(k)

\* Nothing but growth ends udp_loop(): while no charge point and no connector
\* is registered for the first time, the iteration goes on, whoever connects
\* again, takes the place of another, leaves, fails or does not answer.
Iterating ==
  \/ udp.pc = "sleep"
  \/ udp.pc = "config" /\ ~Resized(g_cp_ocpp, udp.size)
  \/ udp.pc \in {"trigger", "meter", "pause"} /\ ~Resized(g_connector, udp.size)
OnlyGrowthEndsLoop ==
  [][ /\ up /\ Iterating
      /\ UNCHANGED <<KeysOf(g_cp_ocpp), KeysOf(g_connector)>>
      => up' /\ Iterating' ]_vars

\* task_udp.py:188, "per 10s": the loop over the connectors comes round again
\* and again; it does not end the server.
LoopGoesOn == [][up => up']_vars
=============================================================================
