---------------------------- MODULE RegistryProofs ----------------------------
(***************************************************************************)
(* Theorems about the registries, for any set of charge points, any gap    *)
(* between reports and any number of connections.                          *)
(***************************************************************************)
EXTENDS Registry, SequenceTheorems, TLAPS

Entries(K) == [key : K, session : Sessions]
Object == [status : Statuses \union {""}, charging : BOOLEAN, age : 0..ReportGap]

DurState ==
  [pc : {"sleep", "call", "pause"}, at : Nat, size : Nat, odd : BOOLEAN,
   object : Nat \X Nat]
UdpState ==
  [pc : {"sleep", "config", "trigger", "meter", "pause"}, at : Nat, size : Nat,
   object : Nat \X Nat, round : Nat]

\* The dictionaries are sequences, and the iterators stay within them.
Containers ==
  /\ g_cp_ocpp \in Seq(Entries(Stations))
  /\ g_connector \in Seq(Entries(Keys))
  /\ dur \in DurState
  /\ udp \in UdpState
  /\ udp.at <= udp.size

\* Connections are made in their order.
InOrder ==
  /\ \A s \in Sessions : IF Made(s) THEN session[s].station \in Stations
                                    ELSE session[s] = Unmade
  /\ \A s, t \in Sessions : s < t /\ Made(t) => Made(s)

\* While the handler of a connection runs, its ChargePoint is online and has
\* its connector 1: no status notification registers that one again.
Running ==
  \A s \in Sessions :
    session[s].state \in {"open", "closed"} =>
      session[s].online /\ <<s, 1>> \in DOMAIN object

IInv == TypeOK /\ Containers /\ InOrder /\ Running /\ LatestRegistered

-----------------------------------------------------------------------------
(* Dictionaries.                                                           *)

(* What Put() does: it is a dictionary's assignment.                       *)
LEMMA PutProperties ==
  ASSUME NEW K, NEW d \in Seq(Entries(K)), NEW k \in K, NEW s \in Sessions
  PROVE  /\ Put(d, k, s) \in Seq(Entries(K))
         /\ \A i \in DOMAIN Put(d, k, s) :
              \/ Put(d, k, s)[i] = [key |-> k, session |-> s]
              \/ i \in DOMAIN d /\ d[i].key # k /\ Put(d, k, s)[i] = d[i]
         /\ \A i \in DOMAIN d : d[i].key # k =>
              i \in DOMAIN Put(d, k, s) /\ Put(d, k, s)[i] = d[i]
         /\ \E i \in DOMAIN Put(d, k, s) : Put(d, k, s)[i] = [key |-> k, session |-> s]
<1> DEFINE p == Put(d, k, s)
           e == [key |-> k, session |-> s]
<1>1. e \in Entries(K)
  BY DEF Entries
<1>2. DOMAIN d = 1..Len(d) /\ Len(d) \in Nat /\ \A i \in 1..Len(d) : d[i] \in Entries(K)
  BY LenProperties, ElementOfSeq
<1>3. CASE k \in KeysOf(d)
  <2> DEFINE f == [i \in 1..Len(d) |-> IF d[i].key = k THEN [d[i] EXCEPT !.session = s]
                                       ELSE d[i]]
  <2>1. p = f
    BY <1>2, <1>3 DEF Put
  <2>2. \A i \in 1..Len(d) : d[i].key = k => [d[i] EXCEPT !.session = s] = e
    BY <1>2 DEF Entries
  <2>3. \A i \in 1..Len(d) : f[i] \in Entries(K)
    BY <1>1, <1>2, <2>2
  <2>4. f \in Seq(Entries(K)) /\ DOMAIN f = 1..Len(d)
    BY <1>2, <2>3, IsASeq
  <2>5. PICK i \in 1..Len(d) : d[i].key = k
    BY <1>2, <1>3 DEF KeysOf
  <2>6. f[i] = e
    BY <2>2, <2>5
  <2> HIDE DEF e
  <2> QED
    BY <1>2, <2>1, <2>2, <2>4, <2>5, <2>6 DEF e
<1>4. CASE k \notin KeysOf(d)
  <2>1. p = Append(d, e)
    BY <1>4 DEF Put
  <2>2. /\ Append(d, e) \in Seq(Entries(K))
        /\ Len(Append(d, e)) = Len(d) + 1
        /\ \A i \in 1..Len(d) : Append(d, e)[i] = d[i]
        /\ Append(d, e)[Len(d) + 1] = e
    BY <1>1, AppendProperties
  <2>3. DOMAIN Append(d, e) = 1..(Len(d) + 1)
    BY <2>2, LenProperties
  <2>4. \A i \in 1..Len(d) : d[i].key # k
    BY <1>2, <1>4 DEF KeysOf
  <2> HIDE DEF e
  <2> QED
    BY <1>2, <2>1, <2>2, <2>3, <2>4 DEF e
<1> QED
  BY <1>3, <1>4

-----------------------------------------------------------------------------
(* Steps of the loops: they leave the registry alone.                      *)

Quiet ==
  /\ UNCHANGED <<session, g_cp_ocpp, g_connector>>
  /\ DOMAIN object' = DOMAIN object

LEMMA QuietKeeps ==
  ASSUME InOrder, Running, LatestRegistered, Quiet
  PROVE  InOrder' /\ Running' /\ LatestRegistered'
BY DEF InOrder, Running, LatestRegistered, Quiet, Made

(* A Connector that the iterator yields exists.                            *)
LEMMA ObjectAtType ==
  ASSUME TypeOK, Containers, NEW i \in 1..Len(g_connector)
  PROVE  ObjectAt(i) \in DOMAIN object /\ ObjectAt(i) \in Nat \X Nat
<1>1. i \in DOMAIN g_connector
  BY LenProperties DEF Containers
<1>2. ObjectAt(i) \in DOMAIN object /\ DOMAIN object \subseteq Sessions \X Numbers
  BY <1>1 DEF TypeOK
<1> QED
  BY <1>2, RegistryAssumption DEF Numbers, Sessions

LEMMA ObjectUpdate ==
  ASSUME NEW x \in Object
  PROVE  /\ [x EXCEPT !.age = 0] \in Object
         /\ [x EXCEPT !.age = IF @ < ReportGap THEN @ + 1 ELSE @] \in Object
         /\ [x EXCEPT !.status = "Available"] \in Object
<1>1. ReportGap \in Nat
  BY RegistryAssumption
<1>2. [x EXCEPT !.status = "Available"] \in Object
  BY DEF Object, Statuses
<1>3. ASSUME NEW a \in 0..ReportGap PROVE [x EXCEPT !.age = a] \in Object
  BY DEF Object
<1>4. x.age \in 0..ReportGap
  BY DEF Object
<1>5. 0 \in 0..ReportGap /\ (IF x.age < ReportGap THEN x.age + 1 ELSE x.age) \in 0..ReportGap
  BY <1>1, <1>4
<1> QED
  BY <1>2, <1>3, <1>5

LEMMA ReportType ==
  ASSUME TypeOK, NEW o \in DOMAIN object, Report(o)
  PROVE  /\ DOMAIN object' = DOMAIN object
         /\ \A p \in DOMAIN object' : object'[p] \in Object
         /\ reported' \in [Keys -> Statuses \union {""}]
<1>1. /\ \A p \in DOMAIN object : object[p] \in Object
      /\ reported \in [Keys -> Statuses \union {""}]
  BY DEF TypeOK, Object
<1>2. CASE UNCHANGED <<reported, object>>
  BY <1>1, <1>2
<1>3. CASE /\ reported' = [reported EXCEPT ![KeyOf(o)] = object[o].status]
           /\ object' = [object EXCEPT ![o].age = 0]
  <2>1. object[o].status \in Statuses \union {""}
    BY <1>1 DEF Object
  <2>2. [object[o] EXCEPT !.age = 0] \in Object
    BY <1>1, ObjectUpdate
  <2> QED
    BY <1>1, <1>3, <2>1, <2>2
<1> QED
  BY <1>2, <1>3 DEF Report

(* What a step of task_duration does to what it may change.                 *)
DurEffect ==
  /\ DOMAIN object' = DOMAIN object
  /\ \A p \in DOMAIN object' : object'[p] \in Object
  /\ dur' \in DurState
  /\ dur'.pc # "sleep" => dur'.object \in DOMAIN object
  /\ changes' \in 0..MaxChanges

LEMMA DurNextType ==
  ASSUME TypeOK, Containers, NEW at \in Nat, NEW size \in Nat, DurNext(at, size)
  PROVE  DurEffect
<1>1. \A odd \in BOOLEAN :
        DurAsleep(odd) \in DurState /\ DurAsleep(odd).pc = "sleep"
  BY DEF DurAsleep, DurAt, NoObject, DurState
<1>2. dur.odd \in BOOLEAN /\ (~dur.odd) \in BOOLEAN
  BY DEF Containers, DurState
<1>3. CASE UNCHANGED <<object, changes>> /\ dur' \in {DurAsleep(dur.odd), DurAsleep(~dur.odd)}
  BY <1>1, <1>2, <1>3 DEF TypeOK, Object, DurEffect
<1>4. ASSUME NEW i \in (at + 1)..size, ~Resized(g_connector, size),
             dur' = DurAt("call", i, size, dur.odd),
             UNCHANGED <<object, changes>> \/ Alarm(ObjectAt(i))
      PROVE  DurEffect
  <2>1. i \in 1..Len(g_connector) /\ i \in Nat
    BY <1>4 DEF Resized
  <2>2. ObjectAt(i) \in DOMAIN object /\ ObjectAt(i) \in Nat \X Nat
    BY <2>1, ObjectAtType
  <2>3. dur' = [pc |-> "call", at |-> i, size |-> size, odd |-> dur.odd,
                object |-> ObjectAt(i)]
    BY <1>4 DEF DurAt
  <2>4. /\ DOMAIN object' = DOMAIN object
        /\ \A p \in DOMAIN object' : object'[p] \in Object
        /\ changes' \in 0..MaxChanges
    <3> DEFINE o == ObjectAt(i)
    <3> HIDE DEF o
    <3>1. CASE UNCHANGED <<object, changes>>
      BY <3>1 DEF TypeOK, Object
    <3>2. CASE Alarm(o)
      <4>1. o \in DOMAIN object
        BY <2>2 DEF o
      <4>2. changes' \in 0..MaxChanges
        <5>1. changes \in 0..MaxChanges
          BY DEF TypeOK
        <5>2. changes < MaxChanges /\ changes' = changes + 1
          BY <3>2 DEF Alarm
        <5> QED
          BY <5>1, <5>2, RegistryAssumption
      <4>3. object' = [object EXCEPT ![o].status = "Available"]
        BY <3>2 DEF Alarm
      <4>4. \A p \in DOMAIN object : object[p] \in Object
        BY DEF TypeOK, Object
      <4>5. [object[o] EXCEPT !.status = "Available"] \in Object
        BY <4>1, <4>4, ObjectUpdate
      <4> QED
        BY <4>1, <4>2, <4>3, <4>4, <4>5
    <3> QED
      BY <1>4, <3>1, <3>2 DEF o
  <2> QED
    BY <1>2, <2>1, <2>2, <2>3, <2>4 DEF DurEffect, DurState
<1> QED
  BY <1>3, <1>4 DEF DurNext, Interrupted

LEMMA DurStep ==
  ASSUME TypeOK, Containers, Dur
  PROVE  TypeOK' /\ Containers' /\ Quiet
<1>1. /\ DurEffect
      /\ reported' \in [Keys -> Statuses \union {""}]
      /\ UNCHANGED <<up, session, g_cp_ocpp, g_connector, udp>>
  <2>1. dur.at \in Nat /\ dur.size \in Nat /\ Len(g_connector) \in Nat
    BY LenProperties DEF Containers, DurState
  <2>2. CASE BeginPass
    BY <2>1, <2>2, DurNextType DEF BeginPass, DurFrame, TypeOK
  <2>3. CASE PowerRateSet
    <3>1. dur.object \in DOMAIN object
      BY <2>3 DEF PowerRateSet, TypeOK
    <3>2. dur' \in DurState /\ dur'.object = dur.object
      BY <2>3 DEF PowerRateSet, Containers, DurState
    <3> QED
      BY <2>3, <3>1, <3>2, ReportType DEF PowerRateSet, DurFrame, TypeOK, DurEffect
  <2>4. CASE PowerRateRaises
    BY <2>1, <2>4, DurNextType DEF PowerRateRaises, DurFrame, TypeOK
  <2>5. CASE PassGoesOn
    BY <2>1, <2>5, DurNextType DEF PassGoesOn, DurFrame, TypeOK
  <2> QED
    BY <2>2, <2>3, <2>4, <2>5 DEF Dur
<1>2. dur'.pc \in {"sleep", "call", "pause"}
  BY <1>1 DEF DurEffect, DurState
<1> QED
  BY <1>1, <1>2 DEF TypeOK, Containers, Quiet, Object, ObjectAt, DurEffect

(* What a step of udp_loop() does to what it may change.                    *)
UdpEffect ==
  /\ up' \in BOOLEAN
  /\ DOMAIN object' = DOMAIN object
  /\ \A p \in DOMAIN object' : object'[p] \in Object
  /\ reported' \in [Keys -> Statuses \union {""}]
  /\ udp' \in UdpState
  /\ udp'.at <= udp'.size
  /\ udp'.pc \in {"trigger", "meter", "pause"} => udp'.object \in DOMAIN object

LEMMA CrashType ==
  ASSUME TypeOK, Containers, Crash
  PROVE  UdpEffect
BY DEF TypeOK, Containers, Crash, UdpEffect, Object

LEMMA UdpNextType ==
  ASSUME TypeOK, Containers, UNCHANGED g_connector,
         NEW at \in Nat, NEW size \in Nat, at <= size, NEW round \in Nat,
         UdpNext(at, size, round)
  PROVE  UdpEffect
<1>1. CASE Resized(g_connector, size)
  BY <1>1, CrashType DEF UdpNext
<1>2. CASE ~Resized(g_connector, size) /\ at = size
  <2>1. udp' = [pc |-> "sleep", at |-> 0, size |-> 0, object |-> <<0, 0>>, round |-> round]
        /\ UNCHANGED <<up, reported, object>>
    BY <1>2 DEF UdpNext, UdpAsleep, UdpAt, NoObject
  <2>2. udp' \in UdpState /\ udp'.at <= udp'.size /\ udp'.pc = "sleep"
    BY <2>1 DEF UdpState
  <2> QED
    BY <2>1, <2>2 DEF TypeOK, UdpEffect, Object
<1>3. CASE ~Resized(g_connector, size) /\ at # size
  <2> DEFINE o == ObjectAt(at + 1)
  <2>1. at + 1 \in 1..Len(g_connector) /\ at + 1 \in Nat /\ at + 1 <= size
    BY <1>3 DEF Resized
  <2>2. o \in DOMAIN object /\ o \in Nat \X Nat
    BY <2>1, ObjectAtType
  <2> HIDE DEF o
  <2>3. \/ /\ udp' = UdpAt("trigger", at + 1, size, o, round)
           /\ UNCHANGED <<up, reported, object>>
        \/ /\ udp' = UdpAt("pause", at + 1, size, o, round)
           /\ Report(o)
           /\ UNCHANGED up
    BY <1>3 DEF UdpNext, o
  <2>4. udp' \in UdpState /\ udp'.at <= udp'.size /\ udp'.object = o
    BY <2>1, <2>2, <2>3 DEF UdpAt, UdpState
  <2>5. CASE UNCHANGED <<up, reported, object>>
    BY <2>2, <2>4, <2>5 DEF TypeOK, UdpEffect, Object
  <2>6. CASE Report(o) /\ UNCHANGED up
    BY <2>2, <2>4, <2>6, ReportType DEF TypeOK, UdpEffect
  <2> QED
    BY <2>3, <2>5, <2>6
<1> QED
  BY <1>1, <1>2, <1>3

LEMMA DayNextType ==
  ASSUME TypeOK, Containers, UNCHANGED g_connector,
         NEW at \in Nat, NEW size \in Nat, NEW round \in Nat,
         DayNext(at, size, round)
  PROVE  UdpEffect
<1>1. CASE Crash
  BY <1>1, CrashType
<1>2. CASE UdpNext(0, Len(g_connector), round)
  <2>1. Len(g_connector) \in Nat /\ 0 <= Len(g_connector)
    BY LenProperties DEF Containers
  <2> QED
    BY <1>2, <2>1, UdpNextType
<1>3. ASSUME NEW i \in (at + 1)..size,
             udp' = UdpAt("config", i, size, NoObject, round),
             UNCHANGED <<up, reported, object>>
      PROVE  UdpEffect
  <2>1. udp' \in UdpState /\ udp'.at <= udp'.size /\ udp'.pc = "config"
    BY <1>3 DEF UdpAt, NoObject, UdpState
  <2> QED
    BY <1>3, <2>1 DEF TypeOK, UdpEffect, Object
<1> QED
  BY <1>1, <1>2, <1>3 DEF DayNext

LEMMA UdpStep ==
  ASSUME TypeOK, Containers, Udp
  PROVE  TypeOK' /\ Containers' /\ Quiet
<1>1. /\ udp.at \in Nat /\ udp.size \in Nat /\ udp.at <= udp.size /\ udp.round \in Nat
      /\ Len(g_connector) \in Nat /\ Len(g_cp_ocpp) \in Nat
  BY LenProperties DEF Containers, UdpState
<1>2. UdpFrame
  BY DEF Udp, BeginRound, Configured, Triggered, TriggerRaises, NextConnector
<1>3. UdpEffect
  <2> USE <1>2 DEF UdpFrame
  <2>1. CASE BeginRound
    <3> DEFINE round == (udp.round + 1) % DayRounds
    <3>1. round \in Nat
      BY <1>1, RegistryAssumption
    <3> HIDE DEF round
    <3>2. \/ DayNext(0, Len(g_cp_ocpp), round)
          \/ UdpNext(0, Len(g_connector), round)
      BY <2>1 DEF BeginRound, round
    <3> QED
      BY <1>1, <3>1, <3>2, DayNextType, UdpNextType
  <2>2. CASE Configured
    BY <1>1, <2>2, DayNextType DEF Configured
  <2>3. CASE Triggered
    <3>1. udp.object \in DOMAIN object
      BY <2>3 DEF Triggered, TypeOK
    <3>2. \E pc \in {"meter", "pause"} : udp' = [udp EXCEPT !.pc = pc]
      BY <2>3 DEF Triggered
    <3>3. udp' \in UdpState /\ udp'.at <= udp'.size /\ udp'.object = udp.object
      BY <3>2 DEF Containers, UdpState
    <3>4. UNCHANGED up
      BY <2>3 DEF Triggered
    <3>5. CASE UNCHANGED <<reported, object>>
      BY <3>1, <3>3, <3>4, <3>5 DEF TypeOK, UdpEffect, Object
    <3>6. CASE Report(udp.object)
      BY <3>1, <3>3, <3>4, <3>6, ReportType DEF TypeOK, UdpEffect
    <3> QED
      BY <2>3, <3>5, <3>6 DEF Triggered
  <2>4. CASE TriggerRaises
    BY <1>1, <2>4, UdpNextType DEF TriggerRaises
  <2>5. CASE NextConnector
    BY <1>1, <2>5, UdpNextType DEF NextConnector
  <2> QED
    BY <2>1, <2>2, <2>3, <2>4, <2>5 DEF Udp
<1>4. udp'.pc \in {"sleep", "config", "trigger", "meter", "pause"}
  BY <1>3 DEF UdpEffect, UdpState
<1> QED
  BY <1>2, <1>3, <1>4 DEF TypeOK, Containers, Quiet, Object, ObjectAt, UdpEffect, UdpFrame

-----------------------------------------------------------------------------
(* The steps that change the registry.                                     *)

(* The invariant in parts, without the definitions that hide them.         *)
LEMMA Parts ==
  ASSUME TypeOK
  PROVE  /\ up \in BOOLEAN
         /\ session \in [Sessions -> [station : Stations \union {"none"},
                                      state : {"none", "open", "closed", "over"},
                                      online : BOOLEAN]]
         /\ DOMAIN object \subseteq Sessions \X Numbers
         /\ \A o \in DOMAIN object : object[o] \in Object
         /\ \A i \in DOMAIN g_connector : ObjectAt(i) \in DOMAIN object
         /\ dur.pc \in {"sleep", "call", "pause"}
         /\ dur.pc # "sleep" => dur.object \in DOMAIN object
         /\ udp.pc \in {"sleep", "config", "trigger", "meter", "pause"}
         /\ udp.pc \in {"trigger", "meter", "pause"} => udp.object \in DOMAIN object
         /\ reported \in [Keys -> Statuses \union {""}]
         /\ changes \in 0..MaxChanges
BY DEF TypeOK, Object

(* Entries of a dictionary that is a sequence have their type.             *)
LEMMA EntriesType ==
  ASSUME NEW K, NEW d \in Seq(Entries(K))
  PROVE  \A i \in DOMAIN d : d[i] \in [key : K, session : Sessions]
BY LenProperties, ElementOfSeq DEF Entries

(* A Connector that is made takes its place in g_connector.                *)
LEMMA PutConnector ==
  ASSUME TypeOK, Containers,
         NEW key \in Keys, NEW s \in Sessions,
         g_connector' = Put(g_connector, key, s),
         DOMAIN object' = DOMAIN object \union {<<s, key.number>>}
  PROVE  /\ g_connector' \in Seq(Entries(Keys))
         /\ \A i \in DOMAIN g_connector' : ObjectAt(i)' \in DOMAIN object'
<1>1. /\ g_connector' \in Seq(Entries(Keys))
      /\ \A i \in DOMAIN g_connector' :
           \/ g_connector'[i] = [key |-> key, session |-> s]
           \/ i \in DOMAIN g_connector /\ g_connector'[i] = g_connector[i]
  BY PutProperties DEF Containers
<1>2. ASSUME NEW i \in DOMAIN g_connector' PROVE ObjectAt(i)' \in DOMAIN object'
  <2>1. CASE g_connector'[i] = [key |-> key, session |-> s]
    BY <2>1 DEF ObjectAt
  <2>2. CASE i \in DOMAIN g_connector /\ g_connector'[i] = g_connector[i]
    <3>1. ObjectAt(i) \in DOMAIN object
      BY <2>2, Parts
    <3> QED
      BY <2>2, <3>1 DEF ObjectAt
  <2> QED
    BY <1>1, <1>2, <2>1, <2>2
<1> QED
  BY <1>1, <1>2

LEMMA ConnectStep ==
  ASSUME IInv, NEW st \in Stations, NEW s \in Sessions, Connect(st, s)
  PROVE  IInv'
<1> DEFINE new == [station |-> st, state |-> "open", online |-> TRUE]
           first == [station |-> st, number |-> 1]
<1> USE DEF IInv
<1>1. /\ session' = [session EXCEPT ![s] = new]
      /\ object' = [o \in DOMAIN object \union {<<s, 1>>} |->
                      IF o = <<s, 1>> THEN NewObject ELSE object[o]]
      /\ g_connector' = Put(g_connector, first, s)
      /\ g_cp_ocpp' = Put(g_cp_ocpp, st, s)
      /\ UNCHANGED <<up, dur, udp, reported, changes>>
      /\ ~Made(s) /\ \A earlier \in 1..(s - 1) : Made(earlier)
  BY DEF Connect
<1>2. first \in Keys /\ first.number = 1
  BY DEF Keys, Numbers
<1>3. s \in Nat /\ Sessions \subseteq Nat /\ <<s, 1>> \in Sessions \X Numbers
  BY RegistryAssumption DEF Sessions, Numbers
<1>4. NewObject \in Object
  BY RegistryAssumption DEF NewObject, Object
<1>5. /\ g_connector' \in Seq(Entries(Keys))
      /\ \A i \in DOMAIN g_connector' : ObjectAt(i)' \in DOMAIN object'
  <2>1. DOMAIN object' = DOMAIN object \union {<<s, first.number>>}
    BY <1>1, <1>2
  <2> QED
    BY <1>1, <1>2, <2>1, PutConnector
<1>6. g_cp_ocpp' \in Seq(Entries(Stations))
  BY <1>1, PutProperties DEF Containers
<1>7. /\ DOMAIN object' \subseteq Sessions \X Numbers
      /\ DOMAIN object \subseteq DOMAIN object'
      /\ \A o \in DOMAIN object' : object'[o] \in Object
  BY <1>1, <1>3, <1>4, Parts
<1>8. session' \in [Sessions -> [station : Stations \union {"none"},
                                 state : {"none", "open", "closed", "over"},
                                 online : BOOLEAN]]
  BY <1>1, Parts
<1>9. TypeOK'
  <2>1. \A i \in DOMAIN g_cp_ocpp' : g_cp_ocpp'[i] \in [key : Stations, session : Sessions]
    BY <1>6, EntriesType
  <2>2. \A i \in DOMAIN g_connector' : g_connector'[i] \in [key : Keys, session : Sessions]
    BY <1>5, EntriesType
  <2>3. /\ up' \in BOOLEAN
        /\ dur'.pc \in {"sleep", "call", "pause"}
        /\ dur'.pc # "sleep" => dur'.object \in DOMAIN object'
        /\ udp'.pc \in {"sleep", "config", "trigger", "meter", "pause"}
        /\ udp'.pc \in {"trigger", "meter", "pause"} => udp'.object \in DOMAIN object'
        /\ reported' \in [Keys -> Statuses \union {""}]
        /\ changes' \in 0..MaxChanges
    BY <1>1, <1>7, Parts
  <2> QED
    BY <1>5, <1>7, <1>8, <2>1, <2>2, <2>3 DEF TypeOK, Object
<1>10. Containers'
  BY <1>1, <1>5, <1>6 DEF Containers
<1>11. InOrder'
  <2>1. \A t \in Sessions : t # s => session'[t] = session[t]
    BY <1>1, Parts
  <2>2. session'[s] = new
    BY <1>1, Parts
  <2>3. \A t \in Sessions : t < s => Made(t)
    BY <1>1, <1>3 DEF Sessions
  <2> QED
    BY <1>1, <2>1, <2>2, <2>3 DEF InOrder, Made
<1>12. Running'
  <2>1. \A t \in Sessions : t # s => session'[t] = session[t]
    BY <1>1, Parts
  <2>2. session'[s] = new /\ <<s, 1>> \in DOMAIN object'
    BY <1>1, Parts
  <2> QED
    BY <1>7, <2>1, <2>2 DEF Running
<1>13. LatestRegistered'
  <2> SUFFICES ASSUME NEW i \in DOMAIN g_cp_ocpp'
               PROVE  LET r == g_cp_ocpp'[i].session
                      IN  /\ \A t \in Sessions : session'[t].station = g_cp_ocpp'[i].key => t <= r
                          /\ \E j \in DOMAIN g_connector' :
                               g_connector'[j] = [key |-> [station |-> g_cp_ocpp'[i].key,
                                                           number |-> 1],
                                                  session |-> r]
    BY DEF LatestRegistered
  <2>1. \A t \in Sessions : t # s => session'[t] = session[t]
    BY <1>1, Parts
  <2>2. session'[s].station = st
    BY <1>1, Parts
  <2>3. \/ g_cp_ocpp'[i] = [key |-> st, session |-> s]
        \/ i \in DOMAIN g_cp_ocpp /\ g_cp_ocpp[i].key # st /\ g_cp_ocpp'[i] = g_cp_ocpp[i]
    BY <1>1, PutProperties DEF Containers
  <2>4. /\ \E j \in DOMAIN g_connector' :
             g_connector'[j] = [key |-> first, session |-> s]
        /\ \A j \in DOMAIN g_connector : g_connector[j].key # first =>
             j \in DOMAIN g_connector' /\ g_connector'[j] = g_connector[j]
    BY <1>1, <1>2, PutProperties DEF Containers
  <2>5. CASE g_cp_ocpp'[i] = [key |-> st, session |-> s]
    <3>1. ASSUME NEW t \in Sessions, t > s PROVE session'[t].station # st
      <4>1. ~Made(t)
        BY <1>1, <3>1 DEF InOrder
      <4>2. session'[t] = Unmade
        BY <1>3, <2>1, <3>1, <4>1 DEF InOrder
      <4> QED
        BY <4>2, RegistryAssumption DEF Unmade
    <3>2. \A t \in Sessions : session'[t].station = st => t <= s
      BY <1>3, <3>1
    <3> QED
      BY <2>4, <2>5, <3>2
  <2>6. CASE i \in DOMAIN g_cp_ocpp /\ g_cp_ocpp[i].key # st /\ g_cp_ocpp'[i] = g_cp_ocpp[i]
    <3> DEFINE r == g_cp_ocpp[i].session
               key == [station |-> g_cp_ocpp[i].key, number |-> 1]
    <3>1. \A t \in Sessions : session[t].station = g_cp_ocpp[i].key => t <= r
      BY <2>6 DEF LatestRegistered
    <3>2. PICK j \in DOMAIN g_connector : g_connector[j] = [key |-> key, session |-> r]
      BY <2>6 DEF LatestRegistered
    <3>3. key # first
      BY <2>6
    <3>4. j \in DOMAIN g_connector' /\ g_connector'[j] = [key |-> key, session |-> r]
      BY <2>4, <3>2, <3>3
    <3>5. \A t \in Sessions : session'[t].station = g_cp_ocpp[i].key => t <= r
      BY <2>1, <2>2, <2>6, <3>1
    <3> QED
      BY <2>6, <3>4, <3>5
  <2> QED
    BY <2>3, <2>5, <2>6
<1> QED
  BY <1>9, <1>10, <1>11, <1>12, <1>13

(* Close, Ended and Failed: a connection changes its state, a ChargePoint    *)
(* goes offline when its handler is over.                                   *)
LEMMA SessionStep ==
  ASSUME IInv, NEW s \in Sessions, Close(s) \/ Ended(s) \/ Failed(s)
  PROVE  IInv'
<1> USE DEF IInv
<1> DEFINE Session == [station : Stations \union {"none"},
                       state : {"none", "open", "closed", "over"}, online : BOOLEAN]
<1>1. PICK y \in Session :
        /\ session' = [session EXCEPT ![s] = y]
        /\ y.station = session[s].station
        /\ y.state \in {"closed", "over"}
        /\ y.state = "closed" => y.online = session[s].online /\ session[s].state = "open"
  <2>1. session[s] \in Session
    BY Parts
  <2>2. CASE Close(s)
    <3> DEFINE y == [session[s] EXCEPT !.state = "closed"]
    <3>1. session' = [session EXCEPT ![s] = y] /\ session[s].state = "open"
      BY <2>2 DEF Close
    <3>2. /\ y \in Session /\ y.station = session[s].station
          /\ y.state = "closed" /\ y.online = session[s].online
      BY <2>1
    <3> HIDE DEF y
    <3> QED
      BY <3>1, <3>2
  <2>3. CASE Ended(s)
    <3> DEFINE y == [session[s] EXCEPT !.state = "over", !.online = FALSE]
    <3>1. session' = [session EXCEPT ![s] = y]
      BY <2>3, Parts DEF Ended, OfHandler
    <3>2. y \in Session /\ y.station = session[s].station /\ y.state = "over"
      BY <2>1
    <3> HIDE DEF y
    <3> QED
      BY <3>1, <3>2
  <2>4. CASE Failed(s)
    <3> DEFINE y == [session[s] EXCEPT !.state = "over"]
    <3>1. session' = [session EXCEPT ![s] = y]
      BY <2>4 DEF Failed
    <3>2. y \in Session /\ y.station = session[s].station /\ y.state = "over"
      BY <2>1
    <3> HIDE DEF y
    <3> QED
      BY <3>1, <3>2
  <2> QED
    BY <2>2, <2>3, <2>4
<1>2. UNCHANGED <<up, object, g_cp_ocpp, g_connector, dur, udp, reported, changes>>
  BY DEF Close, Ended, Failed
<1>3. session[s].state # "none"
  BY DEF Close, Ended, Failed
<1>4. /\ session'[s] = y
      /\ \A t \in Sessions : t # s => session'[t] = session[t]
      /\ \A t \in Sessions : session'[t].station = session[t].station
  BY <1>1, Parts
<1>5. TypeOK'
  <2>1. session' \in [Sessions -> Session]
    BY <1>1, Parts
  <2> QED
    BY <1>2, <2>1 DEF TypeOK, ObjectAt
<1>6. Containers'
  BY <1>2 DEF Containers
<1>7. InOrder'
  BY <1>1, <1>3, <1>4 DEF InOrder, Made
<1>8. Running'
  BY <1>1, <1>2, <1>4 DEF Running
<1>9. LatestRegistered'
  BY <1>2, <1>4 DEF LatestRegistered
<1> QED
  BY <1>5, <1>6, <1>7, <1>8, <1>9

(* A status notification makes at most a second Connector: connector 1 of   *)
(* a ChargePoint whose handler runs is there from the beginning.            *)
LEMMA NotificationStep ==
  ASSUME IInv, NEW s \in Sessions, NEW n \in Numbers, NEW status \in Statuses,
         StatusNotification(s, n, status)
  PROVE  IInv'
<1> DEFINE o == <<s, n>>
           before == IF o \in DOMAIN object THEN object[o] ELSE NewObject
           due == session[s].online /\ before.age >= ReportGap
           after == [status |-> status, charging |-> status = "Charging",
                     age |-> IF due THEN 0 ELSE before.age]
           key == [station |-> session[s].station, number |-> n]
<1> USE DEF IInv
<1>1. /\ object' = [p \in DOMAIN object \union {o} |-> IF p = o THEN after ELSE object[p]]
      /\ g_connector' = IF o \in DOMAIN object THEN g_connector
                        ELSE Put(g_connector, key, s)
      /\ reported' = IF due THEN [reported EXCEPT ![key] = status] ELSE reported
      /\ changes < MaxChanges /\ changes' = changes + 1
      /\ session[s].state \in {"open", "closed"}
      /\ UNCHANGED <<up, session, g_cp_ocpp, dur, udp>>
  BY DEF StatusNotification, KeyOf
<1>2. session[s].station \in Stations /\ key \in Keys /\ key.number = n
  BY <1>1 DEF InOrder, Made, Keys
<1>3. o \in Sessions \X Numbers
  OBVIOUS
<1>4. before \in Object
  <2>1. NewObject \in Object
    BY RegistryAssumption DEF NewObject, Object
  <2> QED
    BY <2>1, Parts
<1>5. after \in Object
  <2>1. before.age \in 0..ReportGap /\ ReportGap \in Nat
    BY <1>4, RegistryAssumption DEF Object
  <2> HIDE DEF before
  <2>2. (IF due THEN 0 ELSE before.age) \in 0..ReportGap
    BY <2>1
  <2> HIDE DEF due
  <2>3. (status = "Charging") \in BOOLEAN
    OBVIOUS
  <2> QED
    BY <2>2, <2>3 DEF Object
<1> HIDE DEF before, due, after, key
<1>6. /\ DOMAIN object' = DOMAIN object \union {o}
      /\ DOMAIN object' \subseteq Sessions \X Numbers
      /\ \A p \in DOMAIN object' : object'[p] \in Object
  BY <1>1, <1>3, <1>5, Parts
<1>7. /\ g_connector' \in Seq(Entries(Keys))
      /\ \A i \in DOMAIN g_connector' : ObjectAt(i)' \in DOMAIN object'
  <2>1. CASE o \in DOMAIN object
    BY <1>1, <1>6, <2>1, Parts DEF Containers, ObjectAt
  <2>2. CASE o \notin DOMAIN object
    BY <1>1, <1>2, <1>6, <2>2, PutConnector
  <2> QED
    BY <2>1, <2>2
<1>8. reported' \in [Keys -> Statuses \union {""}]
  BY <1>1, Parts
<1>9. changes' \in 0..MaxChanges
  <2>1. changes \in 0..MaxChanges /\ MaxChanges \in Nat
    BY Parts, RegistryAssumption
  <2> QED
    BY <1>1, <2>1
<1>10. TypeOK'
  <2>1. \A i \in DOMAIN g_cp_ocpp' : g_cp_ocpp'[i] \in [key : Stations, session : Sessions]
    BY <1>1, EntriesType DEF Containers
  <2>2. \A i \in DOMAIN g_connector' : g_connector'[i] \in [key : Keys, session : Sessions]
    BY <1>7, EntriesType
  <2>3. /\ up' \in BOOLEAN
        /\ session' \in [Sessions -> [station : Stations \union {"none"},
                                      state : {"none", "open", "closed", "over"},
                                      online : BOOLEAN]]
        /\ dur'.pc \in {"sleep", "call", "pause"}
        /\ dur'.pc # "sleep" => dur'.object \in DOMAIN object'
        /\ udp'.pc \in {"sleep", "config", "trigger", "meter", "pause"}
        /\ udp'.pc \in {"trigger", "meter", "pause"} => udp'.object \in DOMAIN object'
    BY <1>1, <1>6, Parts
  <2> QED
    BY <1>6, <1>7, <1>8, <1>9, <2>1, <2>2, <2>3 DEF TypeOK, Object
<1>11. Containers'
  BY <1>1, <1>7 DEF Containers
<1>12. InOrder' /\ Running'
  BY <1>1, <1>6 DEF InOrder, Running, Made
<1>13. LatestRegistered'
  <2>1. o \notin DOMAIN object => n # 1
    BY <1>1 DEF Running
  <2>2. \A j \in DOMAIN g_connector :
          g_connector[j].key.number = 1 =>
            j \in DOMAIN g_connector' /\ g_connector'[j] = g_connector[j]
    <3>1. CASE o \in DOMAIN object
      BY <1>1, <3>1
    <3>2. CASE o \notin DOMAIN object
      <4>1. \A j \in DOMAIN g_connector : g_connector[j].key # key =>
              j \in DOMAIN g_connector' /\ g_connector'[j] = g_connector[j]
        BY <1>1, <1>2, <3>2, PutProperties DEF Containers
      <4> QED
        BY <1>2, <2>1, <3>2, <4>1
    <3> QED
      BY <3>1, <3>2
  <2> QED
    BY <1>1, <2>2 DEF LatestRegistered
<1> QED
  BY <1>10, <1>11, <1>12, <1>13

LEMMA TickStep ==
  ASSUME IInv, Tick
  PROVE  IInv'
<1> USE DEF IInv
<1>1. /\ DOMAIN object' = DOMAIN object
      /\ UNCHANGED <<up, session, g_cp_ocpp, g_connector, dur, udp, reported, changes>>
  BY DEF Tick
<1>2. \A o \in DOMAIN object' : object'[o] \in Object
  BY Parts, ObjectUpdate DEF Tick
<1>3. TypeOK' /\ Containers'
  BY <1>1, <1>2 DEF TypeOK, Containers, Object, ObjectAt
<1> QED
  BY <1>1, <1>3, QuietKeeps DEF Quiet

LEMMA RestartStep ==
  ASSUME IInv, Restart
  PROVE  IInv'
<1> USE DEF IInv
<1>1. /\ up' = TRUE /\ g_cp_ocpp' = <<>> /\ g_connector' = <<>> /\ object' = <<>>
      /\ dur' = [pc |-> "sleep", at |-> 0, size |-> 0, odd |-> FALSE, object |-> <<0, 0>>]
      /\ udp' = [pc |-> "sleep", at |-> 0, size |-> 0, object |-> <<0, 0>>, round |-> 0]
      /\ UNCHANGED <<reported, changes>>
  BY DEF Restart, Fresh, DurAsleep, DurAt, UdpAsleep, UdpAt, NoObject
<1>2. session' = [s \in Sessions |->
                    IF Made(s) THEN [session[s] EXCEPT !.state = "over", !.online = FALSE]
                    ELSE session[s]]
  BY DEF Restart
<1>3. ASSUME NEW s \in Sessions
      PROVE  /\ session'[s] \in [station : Stations \union {"none"},
                                 state : {"none", "open", "closed", "over"},
                                 online : BOOLEAN]
             /\ session'[s].station = session[s].station
             /\ session'[s].state = "none" <=> session[s].state = "none"
             /\ session[s].state = "none" => session'[s] = session[s]
             /\ session'[s].state \notin {"open", "closed"}
  <2>1. session[s] \in [station : Stations \union {"none"},
                        state : {"none", "open", "closed", "over"}, online : BOOLEAN]
    BY Parts
  <2>2. CASE Made(s)
    <3>1. session'[s] = [session[s] EXCEPT !.state = "over", !.online = FALSE]
      BY <1>2, <2>2
    <3> QED
      BY <2>1, <2>2, <3>1 DEF Made
  <2>3. CASE ~Made(s)
    <3>1. session'[s] = session[s]
      BY <1>2, <2>3
    <3> QED
      BY <2>1, <2>3, <3>1 DEF Made
  <2> QED
    BY <2>2, <2>3
<1>4. DOMAIN object' = {} /\ DOMAIN g_cp_ocpp' = {} /\ DOMAIN g_connector' = {}
  BY <1>1
<1>5. TypeOK'
  <2>1. session' \in [Sessions -> [station : Stations \union {"none"},
                                   state : {"none", "open", "closed", "over"},
                                   online : BOOLEAN]]
    BY <1>2, <1>3
  <2>2. reported' \in [Keys -> Statuses \union {""}] /\ changes' \in 0..MaxChanges
    BY <1>1, Parts
  <2> QED
    BY <1>1, <1>4, <2>1, <2>2 DEF TypeOK
<1>6. Containers'
  BY <1>1 DEF Containers, DurState, UdpState
<1>7. InOrder'
  BY <1>3 DEF InOrder, Made
<1>8. Running' /\ LatestRegistered'
  BY <1>3, <1>4 DEF Running, LatestRegistered
<1> QED
  BY <1>5, <1>6, <1>7, <1>8

-----------------------------------------------------------------------------
LEMMA Initially ==
  ASSUME Init
  PROVE  IInv
<1>1. DOMAIN object = {} /\ DOMAIN g_cp_ocpp = {} /\ DOMAIN g_connector = {}
  <2>1. object = <<>> /\ g_cp_ocpp = <<>> /\ g_connector = <<>>
    BY DEF Init
  <2> QED
    BY <2>1
<1>2. /\ dur = [pc |-> "sleep", at |-> 0, size |-> 0, odd |-> FALSE, object |-> <<0, 0>>]
      /\ udp = [pc |-> "sleep", at |-> 0, size |-> 0, object |-> <<0, 0>>, round |-> 0]
  BY DEF Init, DurAsleep, DurAt, UdpAsleep, UdpAt, NoObject
<1>3. session = [s \in Sessions |-> [station |-> "none", state |-> "none", online |-> FALSE]]
  BY DEF Init, Unmade
<1>4. TypeOK
  <2>1. up \in BOOLEAN /\ reported \in [Keys -> Statuses \union {""}] /\ changes = 0
    BY DEF Init
  <2>2. 0 \in 0..MaxChanges
    BY RegistryAssumption
  <2>3. session \in [Sessions -> [station : Stations \union {"none"},
                                  state : {"none", "open", "closed", "over"},
                                  online : BOOLEAN]]
    BY <1>3
  <2> QED
    BY <1>1, <1>2, <2>1, <2>2, <2>3 DEF TypeOK
<1>5. Containers
  <2>1. g_cp_ocpp = <<>> /\ g_connector = <<>>
    BY DEF Init
  <2> QED
    BY <1>2, <2>1 DEF Containers, DurState, UdpState
<1>6. InOrder /\ Running /\ LatestRegistered
  BY <1>1, <1>3 DEF InOrder, Running, LatestRegistered, Made, Unmade
<1> QED
  BY <1>4, <1>5, <1>6 DEF IInv

LEMMA Inductive ==
  ASSUME IInv, [Next]_vars
  PROVE  IInv'
<1>1. CASE Dur
  BY <1>1, DurStep, QuietKeeps DEF IInv
<1>2. CASE Udp
  BY <1>2, UdpStep, QuietKeeps DEF IInv
<1>3. CASE UNCHANGED vars
  <2> USE <1>3 DEF vars, registryVars
  <2>1. TypeOK' /\ Containers'
    BY DEF IInv, TypeOK, Containers, ObjectAt
  <2>2. InOrder' /\ Running' /\ LatestRegistered'
    BY QuietKeeps DEF IInv, Quiet
  <2> QED
    BY <2>1, <2>2 DEF IInv
<1> QED
  BY <1>1, <1>2, <1>3, ConnectStep, SessionStep, NotificationStep, TickStep, RestartStep
  DEF Next

LEMMA Invariant == Spec => []IInv
<1>1. Init => IInv
  BY Initially
<1>2. IInv /\ [Next]_vars => IInv'
  BY Inductive
<1> QED
  BY <1>1, <1>2, PTL DEF Spec

(* Every variable has its type, in particular the iterators yield Connectors *)
(* that exist, whatever is registered while the loops await.                 *)
THEOREM TypeCorrect == Spec => []TypeOK
<1>1. IInv => TypeOK
  BY DEF IInv
<1> QED
  BY Invariant, <1>1, PTL

(* A command never goes to an earlier connection of a charge point.         *)
THEOREM LatestIsRegistered == Spec => []LatestRegistered
<1>1. IInv => LatestRegistered
  BY DEF IInv
<1> QED
  BY Invariant, <1>1, PTL

(* The late end of an earlier connection does not take the charge point     *)
(* offline.                                                                 *)
THEOREM CurrentIsOnline == Spec => []CurrentOnline
<1>1. IInv => CurrentOnline
  BY EntriesType DEF IInv, Containers, Running, CurrentOnline
<1> QED
  BY Invariant, <1>1, PTL

-----------------------------------------------------------------------------
(* What ends the loop.                                                     *)

(* A key that is registered already does not make the dictionary grow.     *)
LEMMA PutKnown ==
  ASSUME NEW K, NEW d \in Seq(Entries(K)), NEW k \in K, NEW s \in Sessions,
         KeysOf(Put(d, k, s)) = KeysOf(d)
  PROVE  Len(Put(d, k, s)) = Len(d)
<1>1. k \in KeysOf(Put(d, k, s))
  BY PutProperties DEF KeysOf
<1>2. Put(d, k, s) = [i \in DOMAIN d |-> IF d[i].key = k THEN [d[i] EXCEPT !.session = s]
                                        ELSE d[i]]
  BY <1>1 DEF Put
<1>3. DOMAIN Put(d, k, s) = 1..Len(d) /\ Len(d) \in Nat
  BY <1>2, LenProperties
<1>4. Put(d, k, s) \in Seq(Entries(K))
  BY PutProperties
<1> QED
  BY <1>3, <1>4, LenProperties

(* A loop that begins, or goes on with what has not grown, keeps iterating. *)
LEMMA UdpNextIterates ==
  ASSUME NEW at, NEW size, NEW round, UdpNext(at, size, round),
         ~Resized(g_connector, size), UNCHANGED g_connector
  PROVE  UNCHANGED up /\ Iterating'
BY DEF UdpNext, UdpAsleep, UdpAt, Iterating, Resized

LEMMA DayNextIterates ==
  ASSUME NEW at, NEW size, NEW round, DayNext(at, size, round),
         ~Resized(g_cp_ocpp, size), UNCHANGED <<g_connector, g_cp_ocpp>>
  PROVE  UNCHANGED up /\ Iterating'
<1>1. CASE UdpNext(0, Len(g_connector), round)
  BY <1>1, UdpNextIterates DEF Resized
<1>2. ASSUME NEW i \in (at + 1)..size,
             udp' = UdpAt("config", i, size, NoObject, round),
             UNCHANGED <<up, reported, object>>
      PROVE  UNCHANGED up /\ Iterating'
  BY <1>2 DEF UdpAt, Iterating, Resized
<1> QED
  BY <1>1, <1>2 DEF DayNext

LEMMA UdpIterates ==
  ASSUME Containers, Udp, Iterating
  PROVE  UNCHANGED up /\ Iterating'
<1>1. UNCHANGED <<g_connector, g_cp_ocpp>>
  BY DEF Udp, BeginRound, Configured, Triggered, TriggerRaises, NextConnector, UdpFrame
<1>2. CASE BeginRound
  <2> DEFINE round == (udp.round + 1) % DayRounds
  <2>1. \/ DayNext(0, Len(g_cp_ocpp), round)
        \/ UdpNext(0, Len(g_connector), round)
    BY <1>2 DEF BeginRound
  <2> HIDE DEF round
  <2> QED
    BY <1>1, <2>1, DayNextIterates, UdpNextIterates DEF Resized
<1>3. CASE Configured
  BY <1>1, <1>3, DayNextIterates DEF Configured, Iterating
<1>4. CASE Triggered
  <2>1. udp'.pc \in {"meter", "pause"} /\ udp'.size = udp.size /\ UNCHANGED up
    BY <1>4 DEF Triggered, Containers, UdpState
  <2>2. ~Resized(g_connector, udp.size) /\ up
    BY <1>4 DEF Triggered, Iterating
  <2> QED
    BY <1>1, <2>1, <2>2 DEF Iterating, Resized
<1>5. CASE TriggerRaises \/ NextConnector
  BY <1>1, <1>5, UdpNextIterates DEF TriggerRaises, NextConnector, Iterating
<1> QED
  BY <1>2, <1>3, <1>4, <1>5 DEF Udp

LEMMA NoGrowth ==
  ASSUME TypeOK, Containers, InOrder, [Next]_vars, up, Iterating,
         UNCHANGED <<KeysOf(g_cp_ocpp), KeysOf(g_connector)>>
  PROVE  up' /\ Iterating'
<1>1. ASSUME UNCHANGED <<up, udp>>, Len(g_connector') = Len(g_connector),
             Len(g_cp_ocpp') = Len(g_cp_ocpp)
      PROVE  up' /\ Iterating'
  BY <1>1 DEF Iterating, Resized
<1>2. ASSUME NEW s \in Sessions, NEW st \in Stations, Connect(st, s)
      PROVE  up' /\ Iterating'
  <2>1. [station |-> st, number |-> 1] \in Keys
    BY DEF Keys, Numbers
  <2>2. Len(g_connector') = Len(g_connector)
    BY <1>2, <2>1, PutKnown DEF Connect, Containers
  <2>3. Len(g_cp_ocpp') = Len(g_cp_ocpp)
    BY <1>2, PutKnown DEF Connect, Containers
  <2> QED
    BY <1>1, <1>2, <2>2, <2>3 DEF Connect
<1>3. ASSUME NEW s \in Sessions, NEW n \in Numbers, NEW status \in Statuses,
             StatusNotification(s, n, status)
      PROVE  up' /\ Iterating'
  <2>1. UNCHANGED <<up, udp, g_cp_ocpp>>
    BY <1>3 DEF StatusNotification
  <2>2. g_connector' = g_connector \/ g_connector' = Put(g_connector, KeyOf(<<s, n>>), s)
    BY <1>3 DEF StatusNotification
  <2>3. KeyOf(<<s, n>>) \in Keys
    BY <1>3 DEF StatusNotification, KeyOf, InOrder, Made, Keys
  <2>4. Len(g_connector') = Len(g_connector)
    BY <2>2, <2>3, PutKnown DEF Containers
  <2> QED
    BY <1>1, <2>1, <2>4
<1>4. CASE Udp
  BY <1>4, UdpIterates
<1>5. CASE Dur
  BY <1>1, <1>5 DEF Dur, BeginPass, PowerRateSet, PowerRateRaises, PassGoesOn, DurFrame
<1>6. CASE Tick \/ UNCHANGED vars \/ \E s \in Sessions : Close(s) \/ Ended(s) \/ Failed(s)
  BY <1>1, <1>6 DEF Tick, vars, registryVars, Close, Ended, Failed
<1>7. CASE Restart
  BY <1>7 DEF Restart
<1> QED
  BY <1>2, <1>3, <1>4, <1>5, <1>6, <1>7 DEF Next

(* udp_loop() survives whatever happens to the sessions that it knows: only *)
(* a charge point or a connector that registers for the first time makes    *)
(* the iteration fail.                                                      *)
THEOREM GrowthAloneEndsLoop == Spec => OnlyGrowthEndsLoop
<1>1. TypeOK /\ Containers /\ InOrder /\ [Next]_vars =>
        [/\ up /\ Iterating
         /\ UNCHANGED <<KeysOf(g_cp_ocpp), KeysOf(g_connector)>>
         => up' /\ Iterating']_vars
  BY NoGrowth
<1>2. IInv => TypeOK /\ Containers /\ InOrder
  BY DEF IInv
<1> QED
  BY Invariant, <1>1, <1>2, PTL DEF Spec, OnlyGrowthEndsLoop
=============================================================================
