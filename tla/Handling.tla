------------------------------ MODULE Handling ------------------------------
(***************************************************************************)
(* One session of pyocppsrv.ChargePoint: the receive loop, the handling of *)
(* requests, from validation to the answer, and a request of the server's  *)
(* own, from its payload to the object that call() returns.  Requests of   *)
(* the server go out one at a time; CallEngine has the lock, the queue of  *)
(* responses and the timer, which are one step each here.                  *)
(*                                                                         *)
(* A step is the code between two awaits: validation runs in an executor,  *)
(* so that the loop, the calls and the station interleave around it.       *)
(***************************************************************************)
EXTENDS Requests, Handlers, SequencesExt

CONSTANTS
  Samples,     \* samples that a station puts into meter values
  Connectors,  \* the numbers by which it names its connectors
  MaxSamples,  \* bound: samples in one request
  MaxWork      \* bound: frames that come unasked and calls that are begun

ASSUME BoundsAssumption == MaxSamples \in Nat /\ MaxWork \in Nat \ {0}
\* The schemas admit any integer for a connector.
ASSUME ConnectorsAssumption == Connectors \subseteq Int /\ {0, 1} \subseteq Connectors
ASSUME SamplesAssumption ==
  \A s \in Samples : s.value = Unreadable \/ s.value \in Int

VARIABLES
  open,      \* the websocket is open
  inbox,     \* frames received and not yet taken by recv()
  stage,     \* where start() is suspended
  msg,       \* the request that it handles
  response,  \* what the request is answered
  answered,  \* history: the ids of the requests answered
  cp,        \* the ChargePoint
  tasks,     \* methods scheduled by create_task() that have not begun
  own,       \* the latest invocation of call()
  work       \* counts what MaxWork bounds

loopVars == <<inbox, stage, msg, response, answered>>
vars == <<open, loopVars, cp, tasks, own, work>>

NoMessage == [type |-> "none"]

-----------------------------------------------------------------------------
(* What the station sends.                                                 *)

\* The payloads that a schema admits, with the least or all keys of every
\* object, and each value of its enumerations.
Admitted(type, action) ==
  UNION {LET objects == AsDict(Schema(type)[action], ObjectSchema, extent)
             listed(o) == Enumerated(type, action, o)
             values == UNION {{<<at[1], at[2], v>> : v \in listed(at[1])[at[2]]} :
                                at \in {p \in (DOMAIN objects) \X SchemaKeys :
                                          /\ p[2] \in objects[p[1]]
                                          /\ p[2] \in DOMAIN listed(p[1])}}
         IN  {Payload(objects, v, "none") : v \in {NoValue} \union values} :
           extent \in {"least", "full"}}

\* One thing wrong with the fullest of them.
Flaws == {"type", "maxLength", "format"}
Flawed(type, action) ==
  LET s == Schema(type)[action]
      objects == AsDict(s, ObjectSchema, "full")
      top(keys) == Payload([objects EXCEPT !["top"] = keys], NoValue, "none")
      enumerated == DOMAIN Enumerated(type, action, "top")
  IN  {Payload(objects, NoValue, f) : f \in Flaws}
      \union {top(objects["top"] \ {k}) : k \in s.required}
      \union {top(objects["top"] \union {OtherKey})}
      \union {Payload(objects, <<"top", k, "unlisted">>, "none") : k \in enumerated}

\* What the handlers look at in a payload.
NoArgs == [action |-> "none"]
ArgsOf(action, p) ==
  CASE action = "BootNotification" ->
         [firmware : {IF "firmwareVersion" \in p.objects.top THEN "v1"
                      ELSE Absent}]
    [] action = "Authorize" -> [idTag : {"tag"}]
    [] action = "StartTransaction" -> [connector : Connectors]
    [] action = "StatusNotification" ->
         [connector : Connectors,
          status : {IF p.value # NoValue /\ p.value[2] = "status"
                    THEN p.value[3] ELSE "Available"}]
    [] action = "MeterValues" ->
         [connector : Connectors,
          transaction : {IF "transactionId" \in p.objects.top THEN 7 ELSE 0},
          samples : IF p.value # NoValue THEN {<<>>}
                    ELSE UNION {[1..n -> Samples] : n \in 0..MaxSamples}]
    [] OTHER -> {NoArgs}

Ask(action, p, args) ==
  [type |-> "Call", id |-> 0, action |-> action, payload |-> p, args |-> args]

\* create_route_map(): the actions that have a handler; after() has none.
Routed == DOMAIN RouteMap
ValidRequests ==
  UNION {UNION {{Ask(a, p, args) : args \in ArgsOf(a, p)} :
                  p \in Admitted("Call", a)} : a \in Routed}
FlawedRequests ==
  UNION {{Ask(a, p, CHOOSE args \in ArgsOf(a, p) : TRUE) : p \in Flawed("Call", a)} :
           a \in Routed}
\* Known actions without a handler, what else is an attribute of the class
\* Action (the names of its members, and what it inherits, as upper()), an
\* unknown one, and one that is no string.
MemberNames == {CamelToSnake(a) : a \in Action} \union {"upper"}
NotAString == "<a number>"
Empty == Payload([top |-> {}], NoValue, "none")
StrayRequests ==
  {Ask(a, Empty, NoArgs) :
     a \in ((Action \union MemberNames) \ Routed) \union {"Unheard", NotAString}}
Frames == ValidRequests \union FlawedRequests \union StrayRequests \union Malformed

\* The frames that may come at any time; others come first.
CommonFrames ==
  {f \in ValidRequests :
     \/ f.action = "Heartbeat"
     \/ f.action = "BootNotification" /\ f.payload.objects.top
                                         = RequestSchema[f.action].required
     \/ f.action = "MeterValues" /\ f.args.connector \in {0, 1}
                                 /\ f.args.transaction = 0
                                 /\ Len(f.args.samples) = 1
                                 /\ Field(f.args.samples[1]) = "power"
                                 /\ f.args.samples[1].value # 0
     \/ f.action = "StatusNotification" /\ f.args.status = "Finishing"
                                        /\ f.args.connector = 1
                                        /\ OtherKey \notin f.payload.objects.top
                                        /\ "info" \notin f.payload.objects.top}

\* The answers to a request of the server, valid, flawed or an error.  That
\* to GetConfiguration may name the setting that get_config() looks for, with
\* a number, with a text or without a value, which the schema all admits, or
\* other settings only.
Reported(value) == <<"KeyValue", "value", value>>
Named(key) == <<"KeyValue", "key", key>>
Unset == Named("MeterValueSampleInterval")
Settings ==
  LET objects == AsDict(ResultSchema["GetConfiguration"], ObjectSchema, "full")
      unset == [objects EXCEPT !["KeyValue"] = @ \ {"value"}]
  IN  {Payload(objects, v, "none") :
         v \in {Reported("10"), Reported("ten"), Named("OtherKey")}}
      \union {Payload(unset, v, "none") : v \in {Unset, Named("OtherKey")}}
Replies(action) ==
  [type : {"CallResult"}, id : {0},
   payload : Admitted("CallResult", action) \union Flawed("CallResult", action)
             \union IF action = "GetConfiguration" THEN Settings ELSE {}]
  \union [type : {"CallError"}, id : {0}, code : OCPPErrors \union {"UnheardCode"}]
\* Amid other traffic, one answer of each kind will do.
CommonReplies(action) ==
  [type : {"CallResult"}, id : {0},
   payload : IF action = "GetConfiguration" THEN Settings
             ELSE {CHOOSE p \in Admitted("CallResult", action) : TRUE}]
  \union [type : {"CallError"}, id : {0}, code : {"GenericError"}]
RepliesTo(action) == Replies(action) \union CommonReplies(action)

-----------------------------------------------------------------------------
(* Invocations of call().                                                  *)

NoMethod == "none"
NoCall == [state |-> "idle", id |-> 0]
Invocation(method, request, suppress, alone) ==
  [state |-> "validating", id |-> own.id + 1, method |-> method,
   request |-> request, suppress |-> suppress, alone |-> alone,
   answered |-> FALSE,
   reply |-> NoMessage, outcome |-> "none"]
Idle == own.state \in {"idle", "done"}
Action_(o) == ActionOf(o.request.class)
OwnRequests == Instances \union {Methods[m] : m \in DOMAIN Methods}

CommonMethods == {"get_config", "Set_Charging_Profile"}

Init ==
  /\ open = TRUE
  /\ inbox = <<>>
  /\ stage = "recv"
  /\ msg = NoMessage
  /\ response = NoMessage
  /\ answered = <<>>
  /\ cp = NewChargePoint
  /\ tasks = {}
  /\ own = NoCall
  /\ work = 0

\* What is not common comes alone, and takes up the bound.
Spend(common) ==
  /\ IF common THEN work < MaxWork ELSE work = 0
  /\ work' = IF common THEN work + 1 ELSE MaxWork

Arrive(f) ==
  /\ open
  /\ Spend(f \in CommonFrames)
  /\ inbox' = Append(inbox, [f EXCEPT !.id = work + 1])
  /\ UNCHANGED <<open, stage, msg, response, answered, cp, tasks, own>>

\* The station may answer after call() has given up, or not at all.
Reply(r) ==
  /\ open
  /\ own.state \in {"waiting", "done"}
  /\ ~own.answered
  /\ inbox' = Append(inbox, [r EXCEPT !.id = own.id])
  /\ own' = [own EXCEPT !.answered = TRUE]
  /\ UNCHANGED <<open, stage, msg, response, answered, cp, tasks, work>>

Close ==
  /\ open
  /\ open' = FALSE
  /\ UNCHANGED <<loopVars, cp, tasks, own, work>>

-----------------------------------------------------------------------------
(* start(), route_message() and _handle_call().                            *)

Error(code) == [type |-> "CallError", code |-> ErrorCode(code)]

\* _raise_key_error()
KeyErrorOf(action) ==
  IF action \in Action \union MemberNames THEN "NotImplemented"
  ELSE "NotSupported"

\* A reply goes to the call that waits for it.
Deliver(reply) ==
  /\ own' = IF own.state = "waiting" /\ own.id = reply.id
            THEN [own EXCEPT !.state = "checking", !.reply = reply] ELSE own
  /\ UNCHANGED <<open, stage, msg, response, cp>>

\* No handler raises: the loop ends, connect_status stays as it is, and the
\* server closes the websocket.
Fail(m) ==
  /\ msg' = m
  /\ stage' = "failed"
  /\ open' = FALSE
  /\ UNCHANGED <<response, cp, own>>

Unrouted(m) == \* mutant: a request without a handler is dropped
  /\ IF m.action \in Routed
     THEN stage' = "validating" /\ msg' = m
     ELSE UNCHANGED <<stage, msg>>
  /\ UNCHANGED <<open, response, cp, own>>
Route(m) ==
  /\ msg' = m
  /\ IF m.action \in Routed
     THEN stage' = "validating" /\ UNCHANGED response
     ELSE stage' = "sending" /\ response' = Error(KeyErrorOf(m.action))
  /\ UNCHANGED <<open, cp, own>>

WhenNotCalling == own.state # "waiting" \* mutant: a handler awaits a call
MayReceive == TRUE

Receive ==
  /\ stage = "recv"
  /\ inbox # <<>>
  /\ MayReceive
  /\ inbox' = Tail(inbox)
  /\ LET m == Head(inbox)
     IN  CASE ~IsMessage(m) -> UNCHANGED <<open, stage, msg, response, cp, own>>
           [] m.type \in {"CallResult", "CallError"} -> Deliver(m)
           [] m.type = "Call" /\ m.action = NotAString -> Fail(m)
           [] OTHER -> Route(m)
  /\ UNCHANGED <<answered, tasks, work>>

\* What the handler of an action answers, as it is sent.
ResponseTo(action) ==
  [type |-> "CallResult",
   payload |-> ToCamelCase(Payload(RouteMap[action].objects,
                                   RouteMap[action].value, "none"))]

\* The handler runs as soon as the payload is validated.
ValidateRequest ==
  /\ stage = "validating"
  /\ \E verdict \in ValidatePayload("Call", msg.action, msg.payload) :
       LET kwargs == ToSnakeCase(msg.payload).objects["top"]
       IN  IF verdict # "valid"
           THEN /\ response' = Error(verdict)
                /\ stage' = "sending"
                /\ UNCHANGED <<cp, tasks>>
           ELSE IF ~(RouteMap[msg.action].params \subseteq kwargs)
           THEN /\ response' = Error("TypeError")
                /\ stage' = "sending"
                /\ UNCHANGED <<cp, tasks>>
           ELSE /\ cp' = Handle(cp, msg.action, msg.args)
                /\ tasks' = tasks \union Tasks(msg.action, msg.args)
                /\ response' = ResponseTo(msg.action)
                /\ stage' = "responding"
  /\ UNCHANGED <<open, inbox, msg, answered, own, work>>

ValidateResponse ==
  /\ stage = "responding"
  /\ stage' = "sending"
  /\ \E verdict \in ValidatePayload("CallResult", msg.action, response.payload) :
       response' = IF verdict = "valid" THEN response ELSE Error(verdict)
  /\ UNCHANGED <<open, inbox, msg, answered, cp, tasks, own, work>>

\* ws_on_connect(), when recv() or send() finds the websocket closed
EndSession ==
  /\ stage' = "ended"
  /\ cp' = [cp EXCEPT !.connect_status = FALSE]

SendResponse ==
  /\ stage = "sending"
  /\ IF open
     THEN /\ answered' = Append(answered, msg.id)
          /\ stage' = "recv"
          /\ msg' = NoMessage
          /\ response' = NoMessage
          /\ UNCHANGED cp
     ELSE EndSession /\ UNCHANGED <<answered, msg, response>>
  /\ UNCHANGED <<open, inbox, tasks, own, work>>

\* recv() hands out what has been received before it raises.
ReceiveClosed ==
  /\ stage = "recv"
  /\ inbox = <<>>
  /\ ~open
  /\ EndSession
  /\ UNCHANGED <<open, inbox, msg, response, answered, tasks, own, work>>

-----------------------------------------------------------------------------
(* call().                                                                 *)

Begin(method, request, suppress, alone) ==
  /\ Idle
  /\ own' = Invocation(method, request, suppress, alone)
  /\ UNCHANGED <<open, loopVars, cp>>

StartTask(t) ==
  /\ t \in tasks
  /\ tasks' = tasks \ {t}
  /\ Begin(t, Methods[t], TRUE, FALSE)
  /\ UNCHANGED work

CallMethod(m, alone) ==
  /\ alone \/ m \in CommonMethods
  /\ Spend(~alone)
  /\ Begin(m, Methods[m], TRUE, alone)
  /\ UNCHANGED tasks

\* Any other request that the library can make.
Call(request, suppress) ==
  /\ Spend(FALSE)
  /\ Begin(NoMethod, request, suppress, TRUE)
  /\ UNCHANGED tasks

Finish(outcome) == own' = [own EXCEPT !.state = "done", !.outcome = outcome]

ValidateOwn ==
  /\ own.state = "validating"
  /\ \E verdict \in ValidatePayload("Call", Action_(own),
                                    ToCamelCase(own.request.payload)) :
       IF verdict # "valid" THEN Finish(verdict)
       ELSE IF ~open THEN Finish("ConnectionClosed")
       ELSE own' = [own EXCEPT !.state = "waiting"]
  /\ UNCHANGED <<open, loopVars, cp, tasks, work>>

Timeout ==
  /\ own.state = "waiting"
  /\ Finish("TimeoutError")
  /\ UNCHANGED <<open, loopVars, cp, tasks, work>>

\* get_config() goes through the list of settings, which the schema lets the
\* station leave out, and through int(value) of the one that it looks for.
ReadSettings(p) ==
  CASE "configuration_key" \notin p.objects["top"] ->
         Finish("TypeError") /\ UNCHANGED cp
    [] "configuration_key" \in p.objects["top"] /\ p.value = Unset ->
         Finish("KeyError") /\ UNCHANGED cp
    [] "configuration_key" \in p.objects["top"] /\ p.value = Reported("ten") ->
         Finish("ValueError") /\ UNCHANGED cp
    [] OTHER ->
         /\ Finish("returned")
         /\ cp' = IF p.value = Reported("10")
                  THEN [cp EXCEPT !.meterValueSampleInterval = 10] ELSE cp

CheckReply ==
  /\ own.state = "checking"
  /\ IF own.reply.type = "CallError"
     THEN /\ Finish(IF own.suppress THEN "None" ELSE ToException(own.reply.code))
          /\ UNCHANGED cp
     ELSE \E verdict \in ValidatePayload("CallResult", Action_(own),
                                         own.reply.payload) :
            LET p == ToSnakeCase(own.reply.payload)
                made == Construct(own.request.class, p)
            IN  IF verdict # "valid" THEN Finish(verdict) /\ UNCHANGED cp
                ELSE IF made # "constructed" THEN Finish(made) /\ UNCHANGED cp
                ELSE IF own.method = "get_config" THEN ReadSettings(p)
                ELSE Finish("returned") /\ UNCHANGED cp
  /\ UNCHANGED <<open, loopVars, tasks, work>>

-----------------------------------------------------------------------------
Loop == Receive \/ ValidateRequest \/ ValidateResponse \/ SendResponse
        \/ ReceiveClosed

\* What the bound or the call does not admit need not be looked for.
MayBegin == Idle /\ work < MaxWork
MayReply == own.state \in {"waiting", "done"} /\ ~own.answered

Next ==
  \/ work < MaxWork /\ \E f \in Frames : Arrive(f)
  \/ MayReply
     /\ \E r \in IF own.alone THEN Replies(Action_(own))
               ELSE CommonReplies(Action_(own)) : Reply(r)
  \/ Close
  \/ Loop
  \/ \E t \in DOMAIN Methods : StartTask(t)
  \/ MayBegin
     /\ \E m \in DOMAIN Methods, alone \in BOOLEAN : CallMethod(m, alone)
  \/ MayBegin /\ \E r \in Instances, suppress \in BOOLEAN : Call(r, suppress)
  \/ ValidateOwn
  \/ Timeout
  \/ CheckReply

\* The event loop comes back to the receive loop; validation terminates.
Spec == Init /\ [][Next]_vars /\ WF_vars(Loop)

-----------------------------------------------------------------------------
(* Properties.                                                             *)

Over == stage \in {"ended", "failed"}

\* Type invariant.  A ChargePoint has connector 1 and those that the station
\* has named, whatever their numbers; there is no connector 0, which
\* get_connector() takes for connector 1.
TypeOK ==
  /\ open \in BOOLEAN
  /\ stage \in {"recv", "validating", "responding", "sending", "ended", "failed"}
  /\ stage = "recv" => msg = NoMessage
  /\ stage \in {"validating", "responding", "sending"} => msg.type = "Call"
  /\ stage = "sending" => response.type \in {"CallResult", "CallError"}
  /\ 1 \in DOMAIN cp.connector
  /\ DOMAIN cp.connector \subseteq Connectors \ {0}
  /\ \A c \in DOMAIN cp.connector :
       /\ DOMAIN cp.connector[c].reading = Readings
       /\ cp.connector[c].is_charing \in BOOLEAN
  /\ tasks \subseteq DOMAIN Methods
  /\ own.state \in {"idle", "validating", "waiting", "checking", "done"}
  /\ work \in 0..MaxWork

\* start() with route_message() and _handle_call() keeps the promise to the
\* station: requests are answered once and in their order, whatever is wrong
\* with them and whatever the server itself is calling.
RequestIds(frames) ==
  FlattenSeq([i \in DOMAIN frames |->
                IF frames[i].type = "Call" THEN <<frames[i].id>> ELSE <<>>])
Waiting == (IF msg = NoMessage THEN <<>> ELSE <<msg.id>>) \o RequestIds(inbox)
Promised == INSTANCE Responder WITH
  Requests <- 1..MaxWork, waiting <- Waiting, up <- ~Over
AnswersInOrder == Promised!Safety

\* And no request is left waiting, unless the session ends.
ImplementsResponder == Promised!Spec

\* A request gets a CallResult if and only if there is a handler for it and
\* its schema admits it: no handler misses a parameter that the schema lets
\* the station leave out, and no answer is rejected by its own schema.
ValidRequestsSucceed ==
  stage = "sending" =>
    (response.type = "CallResult") =
      (msg.action \in Routed /\ Violations("Call", msg.action, msg.payload) = {})

\* What call() is given passes validation, and an answer that the schema
\* admits becomes the object that is returned.  Two exceptions: a Firmware
\* without signature, which datatypes.py makes optional and the schema does
\* not; and get_config(), which raises on three answers that the schema admits,
\* without a list of settings, or with the setting that it looks for but no
\* value, or none that is a number.  It does return if that is not listed.
Unsigned(request) ==
  /\ "Firmware" \in DOMAIN request.payload.objects
  /\ "signature" \notin request.payload.objects["Firmware"]
NoSetting(p) ==
  \/ "configurationKey" \notin p.objects["top"]
  \/ p.value \in {Unset, Reported("ten")}
CallsConform ==
  own.state = "done" =>
    CASE own.reply = NoMessage ->
           \/ own.outcome \in {"TimeoutError", "ConnectionClosed"}
           \/ Unsigned(own.request)
      [] own.reply.type = "CallResult" ->
           (own.outcome = "returned") =
             /\ Violations("CallResult", Action_(own), own.reply.payload) = {}
             /\ ~(own.method = "get_config" /\ NoSetting(own.reply.payload))
      [] OTHER -> own.outcome # "returned"

\* The status of what call() returns is a member of the enumeration that the
\* server compares it with.
StatusesAreKnown ==
  (own.state = "done" /\ own.outcome = "returned") =>
    LET v == own.reply.payload.value
    IN  (v # NoValue /\ v[1] = "top") =>
          v[3] \in Enum[ResultEnums[Action_(own)][v[2]]]

\* camel_to_snake_case() and snake_to_camel_case() lose nothing: converted and
\* converted back, a payload has the keys it had, be it a request of the
\* station, the answer to a call, or an instance of a data class.
KeysSurvive ==
  /\ stage = "validating" => ToCamelCase(ToSnakeCase(msg.payload)) = msg.payload
  /\ (own.state = "checking" /\ own.reply.type = "CallResult") =>
       ToCamelCase(ToSnakeCase(own.reply.payload)) = own.reply.payload
  /\ (own.state = "validating" /\ own.method = NoMethod) =>
       ToSnakeCase(ToCamelCase(own.request.payload)) = own.request.payload

\* The tables fit each other.  No handler wants a parameter that the schema
\* lets the station leave out, and none gives an answer that its own schema
\* rejects.
InSnakeCase(keys) == {SnakeKeys[k] : k \in keys}
HandlersFit ==
  \A a \in Routed :
    /\ a \in DOMAIN RequestSchema /\ a \in DOMAIN ResultSchema
    /\ RouteMap[a].params \subseteq InSnakeCase(RequestSchema[a].required)
    /\ Violations("CallResult", a, ResponseTo(a).payload) = {}

\* What call() is given passes validation, but for a Firmware; the class of
\* the result wants what the schema requires and takes what it allows.  The
\* list that get_config() goes through is there, or the station sent none.
ClassFits(class, schema) ==
  /\ class \in DOMAIN ResultTypes
  /\ ResultTypes[class].required \subseteq InSnakeCase(schema.required)
  /\ InSnakeCase(schema.required \union schema.optional)
       \subseteq FieldsOf(ResultTypes[class])
  /\ ~schema.additional
CallsFit ==
  /\ \A q \in OwnRequests :
       LET a == ActionOf(q.class)
       IN  /\ a \in DOMAIN RequestSchema /\ a \in DOMAIN ResultSchema
           /\ Unsigned(q) \/ Violations("Call", a, ToCamelCase(q.payload)) = {}
           /\ ClassFits(q.class, ResultSchema[a])
  /\ \A r \in RepliesTo(ActionOf(Methods["get_config"].class)) :
       r.type = "CallResult" =>
         LET p == ToSnakeCase(r.payload)
         IN  /\ "configurationKey" \in r.payload.objects["top"]
                  <=> "configuration_key" \in p.objects["top"]
             /\ p.value \in {Unset, Reported("ten")}
                  <=> r.payload.value \in {Unset, Reported("ten")}

\* The values that a schema lists are members of the enumeration that the
\* class of the result declares for the field.
StatusesFit ==
  \A q \in OwnRequests :
    LET a == ActionOf(q.class)
        listed == Enumerated("CallResult", a, "top")
    IN  \A k \in DOMAIN listed : /\ a \in DOMAIN ResultEnums
                                 /\ k \in DOMAIN ResultEnums[a]
                                 /\ listed[k] \subseteq Enum[ResultEnums[a][k]]

\* The keys of the schemas come back from snake_case as they were, and the
\* fields of the classes from camelCase.  What is enumerated is in the schema.
KeysFit ==
  /\ \A k \in SchemaKeys \union {OtherKey} : CamelKeys[SnakeKeys[k]] = k
  /\ \A f \in FieldNames : SnakeKeys[CamelKeys[f]] = f
  /\ \A type \in {"Call", "CallResult"} : \A a \in DOMAIN Values(type) :
       DOMAIN Values(type)[a] \subseteq SchemaKeys
  /\ CentralSystemClasses \subseteq DOMAIN RequestClasses

\* A session begins with tables that fit, and they do not change: what the
\* invariants above rest on, apart from what the loop and call() do.
TablesFit == Init => HandlersFit /\ CallsFit /\ StatusesFit /\ KeysFit

\* A reply is taken by the call that waits for it, unless the call gives up
\* or the session ends: handling requests does not keep it in the inbox.
ReplyArrived ==
  own.state = "waiting"
    /\ \E i \in DOMAIN inbox : inbox[i].type \in {"CallResult", "CallError"}
                               /\ inbox[i].id = own.id
RepliesReachCalls == ReplyArrived ~> (own.state # "waiting" \/ Over)

\* MeterValues leaves each reading of its connector at the last sample of
\* that kind before the first unreadable value, and of a DC charger that was
\* read to the end and has power, voltage and current follow from the power.
\* What is sent for connector 0, the charge point itself, replaces the
\* readings of connector 1; a connector not seen before comes into being; no
\* other changes.  A sample without measurand counts for nothing.
Expected(r, samples) ==
  LET read == {i \in DOMAIN samples :
                 \A j \in 1..i : samples[j].value # Unreadable}
      of(f) == {i \in read : Field(samples[i]) = f}
      latest(f) == CHOOSE i \in of(f) : \A j \in of(f) : j <= i
      raw == [f \in Readings |->
                IF of(f) = {} THEN r[f] ELSE Scaled(samples[latest(f)])]
      size(watts) == 1000 * ((100 * watts) \div (DcVoltage * DcEfficiency * 3))
  IN  IF /\ DcCharger /\ DcVoltage # 0 /\ DcEfficiency # 0
         /\ read = DOMAIN samples /\ raw["power"] # 0
      THEN [raw EXCEPT !["voltage"] = DcVoltage,
                       !["current"] = IF raw["power"] > 0 THEN size(raw["power"])
                                      ELSE 0 - size(0 - raw["power"])]
      ELSE raw
Measured(id) == IF id = 0 THEN 1 ELSE id
ReadingsOf(c) == IF c \in DOMAIN cp.connector THEN cp.connector[c].reading
                 ELSE [f \in Readings |-> 0]
MeterReadings ==
  [][(stage = "validating" /\ msg.action = "MeterValues" /\ stage' = "responding")
     => LET c == Measured(msg.args.connector)
        IN  /\ DOMAIN cp'.connector = DOMAIN cp.connector \union {c}
            /\ cp'.connector[c].reading = Expected(ReadingsOf(c), msg.args.samples)
            /\ \A other \in DOMAIN cp.connector \ {c} :
                 cp'.connector[other] = cp.connector[other]]_vars

\* The comment of enums.Measurand: "Default value of "measurand" is always
\* "Energy.Active.Import.Register"".  A sample without measurand that is read
\* is the energy.
DefaultMeasurand ==
  [][(stage = "validating" /\ msg.action = "MeterValues" /\ stage' = "responding")
     => LET samples == msg.args.samples
            energy == cp'.connector[Measured(msg.args.connector)].reading["energy"]
        IN  (/\ Len(samples) = 1
             /\ samples[1].measurand = Absent
             /\ samples[1].value # Unreadable) => energy = samples[1].value]_vars
=============================================================================
