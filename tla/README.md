# Formal model of pyocpp

pyocpp is a small OCPP 1.6 central system for a building with electric-vehicle
chargers.  It talks to the charge points over websockets, takes power rates
from a *master box* over UDP, reads the building's current from a meter over
Modbus/TCP, and keeps the chargers within the building's limit.  A charge point
may also be shared with another central system through a proxy.  All of it runs
as coroutines on one event loop.

The modules here model the call engine, the handling of requests with the
messages and schemas behind it, the control of the charging power, the registry
of sessions with the loops and reports that go over it, and the proxy.  TLC
checks them on small instances; TLAPS proves what matters most for every
instance.

    tlc -workers 2 -config PowerControl_safety.cfg PowerControlMC.tla
    tlapm PowerControlProofs.tla

The run, the module and the properties of every configuration are listed in
PROJECT.json, with the lines of the source that each definition stands for.

## The system

    charge point --ws 9000--> proxy --ws 9001--> server "PSN" (ChargePoint, Connector)
                                  `--ws-------> other central system "CMS"
    master box  --udp 8080--> udp_recv      meter --modbus--> modbus_loop
                <-udp 9988--- udp_loop, reports        task_duration

| Component | State | Operations | Interacts with |
|---|---|---|---|
| Call engine (`ocpp/charge_point.py`) | `_call_lock`, `_response_queue`, unique ids | `call`, `_get_specific_response`, `start`, `route_message` | websocket; everyone who calls a charge point |
| Request handling (`_handle_call`, `routing.py`, the `on_...` handlers of `pyocppsrv.py`) | `Connector` fields | one handler per action | call engine (receive loop), reports |
| Sessions and registry (`task_psn_ocpp_server.py`, `config.py`) | `g_cp_ocpp`, `g_connector`, `connect_status` | connect, replace, disconnect | all tasks read the registry |
| Duration task (`task_duration.py`) | `last_set_power_rate_value`, `last_set_power_rate_time`, `power_rate` | a pass over `g_connector` each second; `set_power_rate` | meter flag, master box, call engine |
| Master box (`task_udp.py`: `udp_recv`, `handler_recv`) | `g_last_recv_master_time` | `setPowerRate`, `start`, `stop`, limits, maintenance | `Connector`, call engine |
| Reports (`task_udp.py`: `udp_loop`, `udp_send_report`) | `last_udp_send_report_time` | periodic reports and triggers | registry, call engine |
| Meter (`task_modbus_async.py`) | `g_is_current_overload`, `g_last_modbus_response_time` | a poll each second | duration task |
| Proxy (`task_proxy_server.py`, `CpChannelAbs.py`, `CpChannelCMS.py`) | a queue per channel, the connections | relay, filter, transaction id, end of the session | charge point, both servers, `g_connector` |
| Transactions, meter values | `transaction_id`, `meter_value_...` | `on_start_transaction`, `on_MeterValues` | proxy, reports |
| Messages, keys, validation (`ocpp/messages.py`, `charge_point.py`) | none (a cache of validators) | `unpack`, `pack`, `validate_payload`, `camel_to_snake_case` | call engine, proxy |
| Debug socket (`task_websocket_debug.py`) | none | forwards raw messages | call engine: replies nobody waits for |
| Start-up (`central_system.py`, `task_find_gc.py`) | the tasks | `gather` | everything: one failing task ends the server |
| Data types (`v16`, `v20`, `v201`), scripts, tests | none | declarations | - |

What is hard about it:

* **Interleaving.** Every `await` lets other coroutines run.  `task_duration`
  decides on a rate, then waits for the charge point's lock and for its answer;
  the master box may have sent a command to the same charger meanwhile, and the
  charger may have reconnected, which replaces the `Connector`.
* **Ordering.** Replies are matched by id, out of one queue per session; late,
  repeated and stray replies are in it, too.  Through the proxy, answers to two
  servers share one socket.
* **Timeouts.** A call takes up to 10 s, longer than the 7 s after which the
  master box counts as offline; a profile runs down unless it is renewed.
* **Failure.** Any connection may close at any step, an answer may be lost
  after the charge point has acted, and the meter may fall silent.
* **Numbers.** "Shut down" is the rate 1, and works through a division and a
  minimum; a current exactly at the limit belongs to neither side; -1 is a
  reading that is none.

The full list, line by line, is under "hazards" in PROJECT.json.

What makes each component correct:

* call engine: one request at a time; an answer goes to its own request; a call
  always ends, after exactly its timeout at the latest; a closed socket ends the
  session;
* duration task, master box and meter: under an alarm a charger ends at 0, unless
  `set_charging_profile_disable` or `task_duration_disable` is in effect for it;
  otherwise it is brought to the rate asked for; the rate that is reported is one that
  it has accepted;
* proxy: each server sees the charge point as if alone; the charge point gets one
  answer; the session ends when the charge point leaves, or when something is to be sent to a
  server that has left;
* registry: a command goes to the latest connection of a charge point, the end of
  an earlier one leaves the later one online, and a change of the registry stops
  no loop (`udp_loop` breaks that, see the findings);
* reports: the master box does not stay behind the state of a connector, though
  reports that follow too soon are dropped;
* request handling: each request gets one answer, in order, and a valid one is
  accepted; readings end up in the connector they belong to;
* messages: what the server sends conforms to the schema of its action; what
  conforms becomes the object that the code works with; the conversions of keys
  lose nothing.

## Modules

| Module | Models | State and actions |
|---|---|---|
| `SerialRpc` | what `call()` promises, abstractly | `phase` and `answer` of each call; `Submit`, `Transmit`, `Answer`, `Accept`, `Fail` |
| `CallEngine` | `call`, `_get_specific_response`, `start`, `route_message` | `pc`, `uid`, `out` of each coroutine; `lockQ` is `asyncio.Lock`, its holder first; `responseQ`; `left` is `timeout_left`; `loop` is where `start()` is suspended. One action per step between awaits |
| `CallEngineMC` | instances | |
| `CallEngineProofs` | theorems about `CallEngine` | |
| `ChargingProfile` | limits from rates, profiles and their two phases | operators only |
| `Meter` | `task_modbus_async` | `overload`, `sinceMeter`; `MeterPoll` is one round of `modbus_loop()` |
| `PowerControl` | `task_duration`, `udp_recv`, `Connector`, sessions; the charge points and the master box as their environment | `conn` holds the fields of each `Connector`, `call` what the two tasks await, `wire` the lock and the call of each charge point, `station` the profile that the charge point has, its age, and whether it is someone else's. `PassOver`, `PassUnmanaged`, `PassSend` are the ways through the body of the loop; `RecvPing`, `RecvSetPowerRate`, `RecvRaises`, `RecvCommand` those through `handler_recv()`; `DurReturns`, `UdpReturns` what is assigned when a call returns, `OrphanEnds` the end of a call whose object has been replaced; `Drop`, `Reconnect` the session; `Meddle` what others send to the charge point |
| `PowerControlMC` | instances | |
| `PowerControlProofs` | theorems about `PowerControl` | |
| `MasterSilence`, `MasterSilenceMC` | `PowerControl` with a stopwatch on the master box | a composition: each step of `PowerControl` and what the stopwatch does. `Sends` is the master box, `Ends` the end of a handler with the code of `udp_recv()` behind it, `raised` whether it has raised |
| `MasterSilenceProofs` | theorems about `MasterSilence` | |
| `Keys` | `camel_to_snake_case`, `snake_to_camel_case` on one key | operators on strings: the two substitutions and the replacements, as the code makes them |
| `V16Messages`, `V16Enums` | the classes of `v16/call.py`, `call_result.py`, `datatypes.py`; `enums.py` | required and optional fields of each class; the members of each enumeration, and the fields declared with it |
| `V16Schemas` | the JSON schemas that validation reads | required and optional keys, and enumerated values, of each message and object |
| `Messages` | `unpack`, `validate_payload`, `serialize_as_dict`, `remove_nones`, the conversions on payloads, the errors | operators only |
| `Requests` | the methods of `pyocppsrv.ChargePoint` that call, with the payloads they build; `ChargePoint.call`'s serialisation | operators only |
| `Handlers` | the route map, the `on_...` handlers, `Connector`, `get_connector` | what a handler takes, assigns and returns |
| `Responder` | what the receive loop promises a charge point, abstractly | `waiting`, `answered`, `up` |
| `Handling` | `start`, `route_message`, `_handle_call`, the checks of `call` | `inbox`, `stage` (where the receive loop is), `msg` and `response`, `cp` (the `ChargePoint`), `tasks` (made with `create_task`), `own` (the call that the server makes). `Receive`, `ValidateRequest`, `ValidateResponse`, `SendResponse`, `ReceiveClosed` are the receive loop, `ValidateOwn`, `Timeout`, `CheckReply` a call |
| `HandlingMC` | its instance | |
| `HandlingProofs` | theorems about `Handling` | |
| `Registry` | `ws_on_connect`, `get_connector`, the loops of `task_duration` and `udp_loop` as iterations, `udp_send_report`, a crash and the restart by systemd | `session` and `object`: every ChargePoint and Connector ever made; `g_cp_ocpp`, `g_connector`; `dur`, `udp`: the two loops with their iterators; `reported` |
| `RegistryProofs` | theorems about `Registry` | |
| `Proxy` | `ws_on_connect`, `ws_cp_loop`, `CpChannelCMS`, the filters of `CpChannelAbs` | `queue` and `link` of each channel; `Forward` is a round of `ws_cp_recv_loop()`, `DropReply`, `FailOnError` and `Backward` are one of `ws_cms_recv_loop()`; `EndSession` is `FIRST_COMPLETED` and the cancellation; `Register` the `ChargePoint` that this server makes; `connector` the Connector of each number, made before, in this session or never |
| `ProxyProofs` | theorems about `Proxy` | |
| `Transactions` | the transaction ids of all charge points, which the filters of their sessions write into one `g_connector` | `connector`; of each session its StartTransactions (`starts`), how far each channel is (`seen`), what the main server has answered; `given`, the ids that each charge point got. `Forward` is `router_filter_cp_to_cms()`, `Answered` `router_filter_cms_to_cp()` |
| `TransactionsMC` | instances | |
| `TransactionsProofs` | theorems about `Transactions` | |
| `SequenceLemmas` | what `FlattenSeq` does to a sequence, by induction; used by the proofs about `Proxy` and `Handling` | |

`PowerControl` extends `Meter` and `ChargingProfile`.  It uses the call engine
by its promise: `wire` admits one call per charge point at a time, which ends by
an answer or the timeout.  `CallEngine` is shown to keep that promise as a
refinement, `SerialRpc` under `phase` (a function of `pc` and `out`) and
`answer <- answeredBy`.  `CallEngine` and `Handling` are two views of the same
receive loop: the first has several calls, the lock, the ids and the timers, and
of a request only that it occupies the loop; the second has one call at a time and
everything that a message may contain.  `Handling` extends `Handlers`, `Requests`
and `Messages`, which extend `Keys` and the three tables; it implements
`Responder`, with `waiting` the ids in `msg` and `inbox` (`Waiting`): its safety part
is `AnswersInOrder`, with fairness it is `ImplementsResponder`.

### What is abstracted

* A message is its kind and its id, with a history field that says which request
  it answers (`for`), which the code cannot see and the properties need.
* Time is counted in ticks.  A tick does not pass a due timer by.  In
  `PowerControl` a tick is a second; the pauses of a tenth of a second between two
  calls of a pass are left out, as they add no interleaving that the awaits of the
  call itself do not have.
* `task_duration` and `udp_recv` are the two tasks that call charge points in
  `PowerControl`, with the registry's keys fixed; a second connector takes effect
  in `SecondConnector`.  `udp_loop`, which calls too but assigns nothing that
  decides a rate, and what a change of the keys does to the loops are in `Registry`.
* Others reach the charge point, too, without the lock of its session: the central
  system behind the proxy (`CpChannelAbs.py`:64), the debug socket
  (`task_websocket_debug.py`:26), a call of a session that has been replaced.  `Meddle`
  gives the charge point any profile of `OtherProfiles`, or none, at any time.  What is
  said of its profile says in each case what others may have done to it.
* The settings of config.json take effect late, or not at all (`configured`), and with
  them both the limit of the second phase and its start.
* In `Registry` a dictionary is the sequence of its items in the order of insertion,
  and an iterator an index with the size that it began with.  Answers to calls may
  come or fail; a report is the status in it.  Under an alarm `task_duration` sets
  `cp_status`; these changes and the notifications are bounded together.
* A payload in `Messages` is the set of keys of each object in it, one enumerated
  value, and one flaw of another kind (a type, a length, a decimal).  Objects of one
  kind in a list count as one.  So a payload has at most one value out of its
  enumeration, which is enough: a second changes neither the verdict nor the answer.
* In `Handling` frames and calls that many paths treat alike may mix up to `MaxWork`;
  each of the others comes alone, at the beginning of a session (`Spend`).  Their
  effects do not depend on what came before, save for the connectors there are.
* The ids of the other server's requests are assumed not to start with "PSN".
* In `Transactions` a charge point has one connector, and an answer is made and passes
  the filter in one step: what it waits for on its way is in when the step is taken.
  What else the channels relay, and how sessions begin and end, is `Proxy`.
* In `MasterSilence` the server keeps up: no second goes by between a datagram and its
  reading unless `udp_recv()` is busy with another (`KeepsUp`).  What goes wrong there
  is thus never the network's or the scheduler's doing.
* In `Proxy`, the handlers of this server run in the step in which it answers, and any
  StatusNotification or MeterValues may be about any connector, the first such one
  making the Connector.
* In `Handling` a station names connectors by the numbers in `Connectors`, 0 among them.
  The schemas admit any integer, and the code takes any but 0 as it is: each number
  makes a Connector.

## Runs

| Run | Shows | Bounds |
|---|---|---|
| `call` | one outstanding request, replies match, exact timeouts, only stale replies are thrown away, refinement of `SerialRpc`; every call ends; a closed socket ends the loop | 3 calls with fresh ids, one that may raise and one that validates, timeout 1, 1 frame in the queue: a late reply to the first meets the second and the third. Longer timeouts and queues are left to the theorems |
| `call_same_id` | *violated*: replies match | 2 calls with one id |
| `power_safety` | under an alarm every decision is 0; a rate is reported only when it has been accepted and no other call of this server has overtaken it | 1 DC charger with two connectors, the reading 2 (the meter is heard, or not yet), the rate 100, one command (`setPowerRate`, `start` or a maintenance command), one disconnection or a second connection while the first is there; others clear the profile at any time: a command and a pass meet at the same lock, and a session is replaced under both |
| `power_alarms` | a high or silent meter, and a silent master box, end with the charger at 0, where no setting disables that | 1 AC charger without the settings, the readings -1, 0 and 2 against a limit of 1, the rate 100; others clear the profile |
| `power_rates` | a rate is reached again and again, also after the master box or others have cleared the profile; an unmanaged charger reports what it is asked | 1 charger whose setting takes effect late, the rates 100 and -1, the commands `setPowerRate` and `ClearChargingProfile` |
| `power_sent` | *violated*: no profile is sent to an unmanaged charger | 1 charger with one connector |
| `master_busy` | *violated*: a master box heard from in time is not offline | a call that outlasts the timeout |
| `proxy_relay` | both servers see the charge point as if alone, one answer, sessions end | 1 connector, 1 request of the charge point and 1 of each server, with equal ids; any connection breaks at any step, this server registers the charge point early or late |
| `proxy_transaction` | *violated*: a transaction id that passes is taken over | 1 StartTransaction, on connector 1 or 2 |
| `handling` | refinement of `Responder`, with and without its fairness; valid requests succeed, the server's requests conform, known statuses, keys survive, the tables fit each other, replies reach their call, readings | every class of request, every answer, every single flaw; up to 2 samples in a MeterValues, up to 2 common frames or calls mixed |
| `registry` | commands go to the latest connection, its end alone takes it offline, nothing but growth ends `udp_loop`, passes go on, the master box catches up | 1 charge point with 2 connectors, 2 connections, 1 change of status, a crash at any resized loop; a minute and a day are 2 rounds, so that all parts of `udp_loop` meet |
| `registry_growth` | *violated*: the loop comes round again | 2 charge points |

Six more configurations are kept beside the runs: three for what is proved for every
instance, so that an instance of it can be watched, and three that show a premise to be
needed or a comment to be wrong.

| Configuration | Shows | Theorem |
|---|---|---|
| `MasterSilence_heard` | a master box heard from in time is offline only while a command is handled, or after a handler that raised: 1 charger with two connectors, 2 commands, 1 disconnection, a response timeout longer than the master box's | `LateNotesAlone` |
| `Proxy_patient` | with 2 connectors and 2 requests, a charge point that starts a transaction on a connector only when this server has made it in this session, and one at a time on each, misses no id | `PatienceIsEnough` |
| `Transactions_unique` | a Connector holds ids of its own charge point only: 2 charge points behind another server and 1 without, distinct uuids, 2 StartTransactions in a session, 2 ids, 1 session that ends | `DistinctUuidsSuffice` |
| `Transactions_serial` | with 2 charge points that number their requests alike this is *violated*: the hypothesis is needed | |
| `PowerControl_disabled` | with `task_duration_disable` for all, `MeterAlarmShutsAllDown` is *violated*: a charger at its rate is not shut down | |
| `Handling_measurand` | `DefaultMeasurand` is *violated*: a sample without measurand is not taken for the energy | |

One charger is enough for what `power_...` ask: chargers share only the task
that serves them in turn, the alarms and the commands, and the properties are
about each charger.  The proofs of the safety properties do without that argument, for
any set of chargers; for the liveness properties it stays an argument: that a charger
which does not answer holds up the others for 10 s, and no longer, is not checked.
The phases of a profile begin and end within a tick or two, which is enough for a profile
to run down while a call waits; the theorems are for any start.
Commands and disconnections are bounded by `MaxCommands` and `MaxDrops`, ids by
`MaxStamp`, queues by `MaxBacklog`, requests through the proxy by `MaxCalls` and
`MaxAsked`, frames and calls in `Handling` by `MaxWork` and `MaxSamples`,
connections by `MaxSessions`, changes of status by `MaxChanges`, what `Transactions`
does by `MaxStarts`, `MaxIssued` and `MaxSessions`.  One charge point
is enough for the passing run of the registry: what is asked is asked of each one, a
second only makes the dictionaries grow, which the second connector does as well,
and the theorems are for any number.  Deadlock is checked in the two `call` runs; `CallEngine` has an
explicit final state.  The others switch the check off because there the system
may really stop: when the bounds are used up, or a session has ended.

### Fairness

* `CallEngine`: the steps of each coroutine, the clock and the receive loop are
  weakly fair, as asyncio runs every ready coroutine.  A due timer has fairness of
  its own, since stale replies may keep its coroutine busy.  Nothing obliges the
  peer to answer.
* `PowerControl`: the two tasks, the meter's poll, the clock and the status
  notifications (charge points are asked for one every minute) are weakly fair.
  For a charge point that is asked again and again there is strong fairness:
  some day it accepts.  Without it no profile would ever be in force, whatever the
  server does.
* `Handling`: the receive loop alone is weakly fair, since handlers and validation do
  not await anything that may fail to come.  The charge point owes nothing, neither
  a frame nor an answer.
* `Registry`: both loops are weakly fair, as each of their calls ends by an answer, a
  closed socket or its timeout; so are the clock, the handler of a closed connection,
  and the restart, which `pyocpp.service` sets to `always`.
* `Proxy`: the tasks of the session are weakly fair, and a connection attempt ends
  one way or the other (`websockets.connect` has a timeout of its own).  The
  charge point and the servers owe nothing.

## Findings

Each is found by a run of its own.  For four of them a theorem says that nothing else
leads there, for every value of the constants, so that a repair of the one cause is
enough.

* **Same id twice** (`call_same_id`): ids are milliseconds; the two calls made at
  boot may share one, and a late reply to the first is taken for the second's.  With
  fresh ids every reply goes to its request (`RepliesMatch`).
* **Settings are lost** (`power_sent`): connector 1 takes its settings from
  config.json before the constructor of `ChargePoint` assigns the defaults.
* **A busy master box is offline** (`master_busy`): its sign of life is noted after
  its command has been handled, which may take longer than the timeout, and not at
  all if the handler raises.  There is no other reason (`OfflineOnlyIfBusy`, proved as `LateNotesAlone`).
* **A transaction id is missed** (`proxy_transaction`): the uuid of a
  StartTransaction is only kept if this server already has a Connector for it, and is
  kept in vain if that Connector is of an earlier session and then replaced.  Nor must a
  StartTransaction be overtaken by another on the same connector: the channel that lags
  behind notes the older uuid again.  A charge point that avoids both, on each of its
  connectors, misses nothing (`PatienceIsEnough`).
* **A new connector ends the server** (`registry_growth`): `udp_loop` awaits while it
  iterates over `g_connector`; a connector that is registered meanwhile raises
  RuntimeError outside the `try`.  In `task_duration` the same error is caught, and
  only ends the pass (`PassesGoOn`).  Nothing else ends the loop, neither sessions that
  go and are replaced nor calls that fail (`OnlyGrowthEndsLoop`).

Seen while modelling, without a run of their own:

* Transaction ids are mixed up: `CpChannelAbs.py`:75 compares the uuid of an answer with
  the Connectors of all charge points, also of those whose session has ended.  Two that
  number their requests alike take each other's transaction ids, with which
  `remote_stop()` then stops the wrong transaction or none (`Transactions_serial.cfg`).
  Equal uuids are the only way there (`DistinctUuidsSuffice`).
* From 200 kW on, 1 % of a DC charger is at least the minimum of 2000 W and is sent as
  it is, although an overload is said to shut all charging stations down.
  `AlarmsDecideZero` states it as an assumption.
* The change log says that a timeout of 10 s closes the websocket, and that a profile
  set while charging is a TxProfile (`PSN-EVC-PI 软件更新日志.md`:7); the code does
  neither, and always sends a TxDefaultProfile (`pyocppsrv.py`:453).
* `Firmware.signature` is optional in `datatypes.py` and required by the schema: a
  request without it is refused before it is sent (`Unsigned` in `Handling`).
* `enums.py`:542-543 says that a measurand that is not sent is
  Energy.Active.Import.Register; `on_MeterValues` takes such a sample for none of the
  readings (`Handling_measurand.cfg`).  `MeterReadings` describes what the code does.
* `get_config` raises if the charge point sends no list of settings, or reports the key
  without a value or with one that is no number (`NoSetting` in `Handling`).
* `task_duration.py`:60 says that an overload shuts all charging stations down.  The
  checks of `set_charging_profile_disable` (26-28) and of `task_duration_disable`, for a
  charger at its rate (36-41), come before the alarms and skip them, the master box's as
  well (`PowerControl_disabled.cfg`).  The properties say so in their premises.
* MeterValues for connector 0, the charge point as a whole, replace the readings of
  connector 1 (`pyocppsrv.py`:228).

## Proofs

`CallEngineProofs`, for every set of calls, every timeout and backlog:

* `TypeCorrect`: `TypeOK`.  The inductive invariant also says that the call that
  waits heads the lock's queue (`WaiterHolds`); without it nothing bounds `left`.
* `SerialCalls`: two calls never wait at once; from `WaiterHolds`.
* `ExactTimeouts`: `TimerInv` relates the ticks a call has waited to the ticks its
  timer has left, in every phase of the call.
* `DiscardedIsStale`: `OnlyStaleDiscarded`.  `HonestInv` says that a call draws its id
  once and keeps it, and that every reply on its way carries the id of the request it
  was made for.  So the answer to the call that waits has its id and is not thrown
  away.  This needs no fresh ids: what goes wrong in `call_same_id` is that too much is
  accepted, never that too little is.
* `RepliesMatch`, with fresh ids: `IdInv` adds that ids are drawn upwards and never
  shared, so that the id names the request.
* `EngineImplementsRpc`, with fresh ids: each step of the engine is a step of
  `SerialRpc` or leaves it alone.

`PowerControlProofs`, for every set of chargers, all settings and bounds:

* `TypeCorrect`: `TypeOK`, together with `LimitsKnown`: what a call will record when
  it returns is the limit it carries, of the kind of the call.
* `AlarmsDecideZero`: under an alarm the limit that `task_duration` decides on is 0,
  assuming that every DC charger has less than 200 kW.  The
  assumption is needed, see above: from 200 kW on it fails.
* `RecordedHeld`: `RecordedRateHeld`.  `power_rate` changes within a session only to the
  rate of a call whose profile the charge point has accepted, and has kept unless others
  have replaced it.  The invariant has three parts.  `WireOwned`: a charge point's lock
  is held by the task whose call waits, which is a call to that charge point.
  `DurSetsLimits`: what `task_duration` waits for is a profile.  `AnswerHeld`: as long as
  an accepted profile has not been returned to the task that sent it, it is the charge
  point's or someone else's (`foreign`), because no other call of this session can be on
  its way.  That the profile is in force at that moment is neither stated nor true:
  others need no lock, and it may have run down to its second phase.

`MasterSilenceProofs`, for every set of chargers, any commands and timeouts:

* `LateNotesAlone`: `OfflineOnlyIfBusy`.  With `WatchInv`: as long as no handler is at
  work and the last one has not raised, the master box was noted no earlier than it
  sent, save for a datagram of this very second that is yet to be read (`Noted`).  A
  handler that ends without raising brings this about, and nothing but a handler
  disturbs it.

`RegistryProofs`, for every set of charge points (none called "none", which stands for
no connection), any gap between reports and any number of connections and rounds.
The invariant is `TypeOK` with four parts:

* `Containers`: keys are registered once, and the place of an iterator is within what
  it began with; without it `ObjectAt` need not be a Connector.
* `InOrder`: connections are numbered in the order in which they are made.
* `Running`: the ChargePoint of a connection whose handler runs is online and has its
  connector 1.  So a status notification of an earlier connection, which
  does create Connectors and registers them, never registers connector 1 again.
* `LatestRegistered` itself, which needs the other three: only `Connect` registers a
  connector 1, and it makes the latest connection.

`TypeCorrect`, `LatestIsRegistered` and `CurrentIsOnline` follow, and from the types and
`Containers`:

* `GrowthAloneEndsLoop`: `OnlyGrowthEndsLoop`.  The iterator of `udp_loop` raises only if the dictionary
  has grown since it began (`UdpNextIterates`, `DayNextIterates`), and a key that is
  known is replaced in its place (`PutKnown`), so that a charge point that connects again
  disturbs nobody.

`ProxyProofs`, for any number of requests, with and without the other server:

* `TypeCorrect`: `TypeOK`.  `TypeInv` also gives the types of what each server has
  received and sent.
* `OneAnswer`: `AnsweredOnce`, from `RepliesInv`: the main server answers a request at
  most once, what its channel or the charge point holds was answered by it, and an
  answer is never both on its way and at the charge point.  That the other server's
  answers are dropped keeps them out of both.
* `EachServerSeesItsOwn`: `ServerView`.  What concerns a server is `FlattenSeq` of each
  message's `Share`, so that a message that is appended, forwarded or dropped moves one
  share from one sequence to the next (`SequenceLemmas`).  `PrefixInv` is what makes the
  shares right: a request at the charge point, and an answer on its way back, has the
  prefix exactly if it is this server's, whichever ids the servers use.
* `PatienceIsEnough`: `TransactionLearned`, for a charge point that starts a transaction
  on a connector only when this server has made that Connector in this session, and one
  at a time on each (`Patient`).  `PatienceInv`: on each connector at most one
  StartTransaction is under way, none unless this session's Connector is there, and the
  one whose answer is awaited is the one last noted.  A Connector that is made later, or
  in place of one of an earlier session, is thus none that an answer is awaited for
  (`NamedKeeps`).

`TransactionsProofs`, for any charge points, uuids, sessions and servers:

* `TypeCorrect`: `TypeOK`, and that no channel forwards more than has been said.
* `DistinctUuidsSuffice`: `OwnTransaction`, if no two charge points use the same uuid
  (`DistinctUuids`).  `Inv` says that what is under way, and what a Connector has noted,
  are uuids of its own charge point; that it is never forgotten does no harm then.

`HandlingProofs`, for all samples, any charger and any number of frames and calls:

* `TypeCorrect`: `TypeOK`, with `TypeInv`: what is in the inbox is a frame or an answer
  to a request that the server can make, what is validated has a handler, and the
  response is the handler's own until it has been validated.
* `ReadingsFollowSamples`: `MeterReadings`, by induction on the samples read: what has
  been read agrees with the last sample of each kind so far.
* `LoopAnswersInOrder`: `AnswersInOrder`.  The id of a request is larger than those that
  wait or have been answered (`FreshInv`), and each step asks, answers the first that
  waits, ends the session, or leaves the promise alone.  The id being fresh is what the
  model assumes of a charge point.
* `ValidRequestsAnswered`: `ValidRequestsSucceed`, with `ValidInv`: a request whose
  handler has run is one that its schema admits, until the response has been validated.
* `ConformingAnswersReturned`: `CallsConform`, with `ConformInv`: a reply in the inbox is
  to the latest call or to an earlier one (`RepliesInv`), and what a call has taken is an
  answer to its own request (`OwnInv`).  Without the first, a late reply to a call given
  up could be checked against the class of another.
* `StatusesKnown`: `StatusesAreKnown`, from the same invariant.
* `PayloadKeysSurvive`: `KeysSurvive`.  `InstanceInv` says that what the library makes of
  a data class has the fields of data classes only.  Keys that come back one by one
  make payloads that come back, whichever objects they nest.

The last four name what they need of the tables as hypotheses: `HandlersFit` (no handler
wants what the schema lets a station leave out, and none returns what its schema
refuses), `CallsFit` (classes and schemas name the same fields), `StatusesFit` (schemas
list no value that the enumerations lack) and `KeysFit` (a key converted and converted
back is itself).  Each is a closed formula over the tables of `V16Messages`, `V16Enums`,
`V16Schemas` and `Keys`: several hundred rows joined with `@@`, and strings rewritten
character by character, which is a matter of evaluation.  TLC evaluates them in full,
with nothing bounded, where a session begins: `TablesFit` in the run `handling`.  So the
hypotheses hold, and the theorems say that nothing else is needed, in any state and any
interleaving; when a class or a schema is changed, `TablesFit` alone tells whether they
still apply.

`SequenceLemmas` and `SetInduction`: an induction theorem that takes an operator is out of
the provers' reach, one about a set of numbers is not.  To show P(n) for all n, take
{n \in Nat : P(n)}, which has 0 and is closed under successors.  The lemmas on sequences,
the recursive functions (`Carriers`, `ReadSamples`) and the finite sets of payloads are
dealt with in this way.

The assumptions are the ones named in the modules (`CallsAssumption`,
`ControlAssumption` and so on), which TLC evaluates in the runs; `TransactionAssumption`
(numbers are numbers) is a hypothesis of its theorems.  Those of `Handling`: a
reading is an integer or unreadable (`SamplesAssumption`), the mark of an absent key is
not the name of a reading (`AbsentAssumption`), and at least one frame may come
(`BoundsAssumption`).

Only model-checked:

* the liveness properties (`CallCompletes`, `CloseStopsLoop`, `MeterAlarmShutsDown`,
  `MasterLossShutsDown`, `TargetReached`, `UnmanagedFollows`, `SessionsEnd`,
  `RepliesReachCalls`, `PassesGoOn`, `ReportsCatchUp`), which rest on fairness and
  ENABLED and are out of the prover's reach;
* the fairness part of the refinement `ImplementsResponder`;
* `TablesFit`, closed and evaluated in full, on which four theorems rest as said above.

Every other invariant, and every action property, of the passing runs is thus stated by
a theorem, and so are both refinements, up to fairness.

## Not modelled

* OCPP 2.0 and 2.0.1 (`v20`, `v201`): declarations that the server never uses, since its
  `ChargePoint` is that of `ocpp.v16`.
* `task_modbus.py`: not imported, `task_modbus_async.py` has replaced it.
* `CiStringType` and `ConfigurationKey`: no message is declared with them.
* `pack`, `to_json`, the cache of validators, `parse_float`: no caller sees a state of
  theirs.  A validator that is cached is the one that would be made again.
* `central_system.py`, `config.py` and `task_find_gc.py` but for the tasks that are
  started, the two dictionaries, and the end of the server with the first task that
  fails: they read the configuration and send one broadcast.
* `task_websocket_debug.py` but for its effect: raw messages whose replies no call waits
  for (`StrayReply` in `CallEngine`).
* `nest_asyncio`, which is applied although nothing runs a nested loop.
* scripts and tests.

## What is left

* The rate of before an alarm, which nothing restores unless the master box asks again.
* A `registry` run with two changes of status.  It exceeds five minutes; with one, a
  report is overtaken by one change only.
* `PassSend` and `DurReturns` of several chargers as a refinement of one charger's
  control, so that the argument for one charger in the runs is a theorem as well.
* What the liveness properties rest on short of fairness: that a step which must come
  eventually leads out of the state it is to leave, as action properties with proofs.
