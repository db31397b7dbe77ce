------------------------------ MODULE Requests ------------------------------
(***************************************************************************)
(* What call() may be given: the requests that the methods of              *)
(* pyocppsrv.ChargePoint make, and any other instance of a request class   *)
(* that a central system sends.                                            *)
(***************************************************************************)
EXTENDS Messages

\* A request is the class of the payload, and the payload in snake_case.
Request(class, objects, value) ==
  [class |-> class, payload |-> Payload(objects, value, "none")]
Plain(class, fields, value) ==
  Request(Deprecated(class), [top |-> fields], value)

\* get_charging_profile_payload(): dictionaries, some of whose keys are in
\* camelCase as they stand.
WithProfile(fields) ==
  [top |-> fields,
   ChargingProfile |->
     {"charging_profile_id", "stack_level", "charging_profile_purpose",
      "charging_profile_kind", "recurrency_kind", "charging_schedule",
      "transaction_id"},
   ChargingSchedule |->
     {"duration", "startSchedule", "charging_rate_unit",
      "charging_schedule_period"},
   ChargingSchedulePeriod |-> {"start_period", "limit", "numberPhases"}]

\* Change_Availability() to Unlock_Connector()
CommandMethods ==
  [Change_Availability |->
     Plain("ChangeAvailability", {"connector_id", "type"},
           <<"top", "type", "Operative">>),
   Resetreq |-> Plain("Reset", {"type"}, <<"top", "type", "Soft">>),
   Clear_Charging_Profiles |-> Plain("ClearChargingProfile", {}, NoValue),
   trigger_status_notification |->
     Plain("TriggerMessage", {"connector_id", "requested_message"},
           <<"top", "requested_message", "StatusNotification">>),
   trigger_meter_values |->
     Plain("TriggerMessage", {"connector_id", "requested_message"},
           <<"top", "requested_message", "MeterValues">>),
   Change_Configuration |->
     Plain("ChangeConfiguration", {"key", "value"}, NoValue),
   Unlock_Connector |-> Plain("UnlockConnector", {"connector_id"}, NoValue)]

\* Remote_Start_Transaction() to Set_Charging_Profile()
ChargingMethods ==
  [Remote_Start_Transaction |->
     Request(Deprecated("RemoteStartTransaction"),
             WithProfile({"id_tag", "connector_id", "charging_profile"}),
             <<"ChargingProfile", "charging_profile_kind", "Recurring">>),
   Remote_Stop_Transaction |->
     Plain("RemoteStopTransaction", {"transaction_id"}, NoValue),
   Set_Charging_Profile |->
     Request(Deprecated("SetChargingProfile"),
             WithProfile({"connector_id", "cs_charging_profiles"}),
             <<"ChargingProfile", "charging_profile_purpose",
               "TxDefaultProfile">>)]

\* update_firmware() to clear_charging_profile()
MaintenanceMethods ==
  [update_firmware |->
     Plain("UpdateFirmware", {"location", "retrieve_date"}, NoValue),
   set_qrcode |->
     Plain("DataTransfer", {"vendor_id", "message_id", "data"}, NoValue),
   send_debug |-> Plain("DataTransfer", {"vendor_id", "message_id"}, NoValue),
   get_config |-> Plain("GetConfiguration", {}, NoValue),
   set_config |-> Plain("ChangeConfiguration", {"key", "value"}, NoValue),
   clear_charging_profile |-> Plain("ClearChargingProfile", {}, NoValue)]

Methods ==
  [m \in DOMAIN CommandMethods \union DOMAIN ChargingMethods
           \union DOMAIN MaintenanceMethods |->
     IF m \in DOMAIN CommandMethods THEN CommandMethods[m]
     ELSE IF m \in DOMAIN ChargingMethods THEN ChargingMethods[m]
     ELSE MaintenanceMethods[m]]

\* An enumerated field of one of the objects, with a member of its type.
DeclaredValues(class, objects) ==
  LET declared(o) ==
        IF o = "top"
        THEN IF class \in DOMAIN RequestEnums THEN RequestEnums[class] ELSE <<>>
        ELSE IF o \in DOMAIN TypeEnums THEN TypeEnums[o] ELSE <<>>
  IN  UNION {{<<of[1], of[2], v>> : v \in Enum[declared(of[1])[of[2]]]} :
               of \in {p \in (DOMAIN objects) \X FieldNames :
                        /\ p[2] \in DOMAIN declared(p[1])
                        /\ p[2] \in objects[p[1]]}}

\* Instances of any other request class, under either name, with the least
\* or all of their fields.
CentralSystemClasses == DOMAIN CentralSystemRequests \union {"DataTransfer"}
Instances ==
  UNION {LET objects == AsDict(RequestClasses[c], DataTypes, extent)
         IN  {Request(name, objects, value) :
                name \in {c, Deprecated(c)},
                value \in {NoValue} \union DeclaredValues(c, objects)} :
           c \in CentralSystemClasses, extent \in {"least", "full"}}

\* "Due to deprecated call and callresults": the action of a class.
ActionOf(class) ==
  IF class \in DOMAIN RequestPayloads
  THEN SubSeq(class, 1, Len(class) - 7) ELSE class
=============================================================================
