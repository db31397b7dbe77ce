---------------------------- MODULE V16Messages ----------------------------
(***************************************************************************)
(* The data classes of ocpp.v16: the requests (call.py), the results       *)
(* (call_result.py) and the types that they carry (datatypes.py).  A class *)
(* is the fields that must be given and those with a default.              *)
(***************************************************************************)
EXTENDS Sequences, TLC

Fields(required, optional) == [required |-> required, optional |-> optional]
FieldsOf(class) == class.required \union class.optional

\* Requests of the central system.
CentralSystemRequests ==
  [CancelReservation |-> Fields({"reservation_id"}, {}),
   CertificateSigned |-> Fields({"certificate_chain"}, {}),
   ChangeAvailability |-> Fields({"connector_id", "type"}, {}),
   ChangeConfiguration |-> Fields({"key", "value"}, {}),
   ClearCache |-> Fields({}, {}),
   ClearChargingProfile |-> Fields({}, {"id", "connector_id",
        "charging_profile_purpose", "stack_level"}),
   DeleteCertificate |-> Fields({"certificate_hash_data"}, {}),
   ExtendedTriggerMessage |-> Fields({"requested_message"}, {"connector_id"}),
   GetCompositeSchedule |-> Fields({"connector_id", "duration"},
        {"charging_rate_unit"}),
   GetConfiguration |-> Fields({}, {"key"}),
   GetDiagnostics |-> Fields({"location"}, {"retries", "retry_interval",
        "start_time", "stop_time"}),
   GetInstalledCertificateIds |-> Fields({"certificate_type"}, {}),
   GetLocalListVersion |-> Fields({}, {}),
   GetLog |-> Fields({"log", "log_type", "request_id"}, {"retries",
        "retry_interval"}),
   InstallCertificate |-> Fields({"certificate_type", "certificate"}, {}),
   RemoteStartTransaction |-> Fields({"id_tag"}, {"connector_id",
        "charging_profile"}),
   RemoteStopTransaction |-> Fields({"transaction_id"}, {}),
   ReserveNow |-> Fields({"connector_id", "expiry_date", "id_tag",
        "reservation_id"}, {"parent_id_tag"}),
   Reset |-> Fields({"type"}, {}),
   SendLocalList |-> Fields({"list_version", "update_type"},
        {"local_authorization_list"}),
   SetChargingProfile |-> Fields({"connector_id", "cs_charging_profiles"},
        {}),
   SignedUpdateFirmware |-> Fields({"request_id", "firmware"}, {"retries",
        "retry_interval"}),
   TriggerMessage |-> Fields({"requested_message"}, {"connector_id"}),
   UnlockConnector |-> Fields({"connector_id"}, {}),
   UpdateFirmware |-> Fields({"location", "retrieve_date"}, {"retries",
        "retry_interval"})]

\* Requests of the charge point.
ChargePointRequests ==
  [Authorize |-> Fields({"id_tag"}, {}),
   BootNotification |-> Fields({"charge_point_model", "charge_point_vendor"},
        {"charge_box_serial_number", "charge_point_serial_number",
        "firmware_version", "iccid", "imsi", "meter_serial_number",
        "meter_type"}),
   DiagnosticsStatusNotification |-> Fields({"status"}, {}),
   FirmwareStatusNotification |-> Fields({"status"}, {}),
   Heartbeat |-> Fields({}, {}),
   LogStatusNotification |-> Fields({"status", "request_id"}, {}),
   MeterValues |-> Fields({"connector_id"}, {"meter_value",
        "transaction_id"}),
   SecurityEventNotification |-> Fields({"type", "timestamp", "tech_info"},
        {}),
   SignCertificate |-> Fields({"csr"}, {}),
   SignedFirmwareStatusNotification |-> Fields({"status", "request_id"}, {}),
   StartTransaction |-> Fields({"connector_id", "id_tag", "meter_start",
        "timestamp"}, {"reservation_id"}),
   StopTransaction |-> Fields({"meter_stop", "timestamp", "transaction_id"},
        {"reason", "id_tag", "transaction_data"}),
   StatusNotification |-> Fields({"connector_id", "error_code", "status"},
        {"timestamp", "info", "vendor_id", "vendor_error_code"})]

\* Both may send a DataTransfer.
RequestClasses ==
  CentralSystemRequests @@ ChargePointRequests @@
  [DataTransfer |-> Fields({"vendor_id"}, {"message_id", "data"})]

\* Every class exists a second time, with the suffix Payload: the one that the
\* server uses.  To make an instance of it logs a warning, nothing else.
Deprecated(name) == name \o "Payload"
WithSuffix(classes) ==
  [n \in {Deprecated(c) : c \in DOMAIN classes} |->
     classes[CHOOSE c \in DOMAIN classes : Deprecated(c) = n]]
CentralSystemRequestPayloads == WithSuffix(CentralSystemRequests)
ChargePointRequestPayloads == WithSuffix(ChargePointRequests)
RequestPayloads ==
  CentralSystemRequestPayloads @@ ChargePointRequestPayloads @@
  WithSuffix([DataTransfer |-> RequestClasses.DataTransfer])

\* Results of the central system.
CentralSystemResults ==
  [Authorize |-> Fields({"id_tag_info"}, {}),
   BootNotification |-> Fields({"current_time", "interval", "status"}, {}),
   DiagnosticsStatusNotification |-> Fields({}, {}),
   FirmwareStatusNotification |-> Fields({}, {}),
   Heartbeat |-> Fields({"current_time"}, {}),
   LogStatusNotification |-> Fields({}, {}),
   SecurityEventNotification |-> Fields({}, {}),
   SignCertificate |-> Fields({"status"}, {}),
   MeterValues |-> Fields({}, {}),
   StartTransaction |-> Fields({"transaction_id", "id_tag_info"}, {}),
   StatusNotification |-> Fields({}, {}),
   StopTransaction |-> Fields({}, {"id_tag_info"})]

\* Results of the charge point.
ChargePointResults ==
  [CancelReservation |-> Fields({"status"}, {}),
   CertificateSigned |-> Fields({"status"}, {}),
   ChangeAvailability |-> Fields({"status"}, {}),
   ChangeConfiguration |-> Fields({"status"}, {}),
   ClearCache |-> Fields({"status"}, {}),
   ClearChargingProfile |-> Fields({"status"}, {}),
   DeleteCertificate |-> Fields({"status"}, {}),
   ExtendedTriggerMessage |-> Fields({"status"}, {}),
   GetInstalledCertificateIds |-> Fields({"status"},
        {"certificate_hash_data"}),
   GetCompositeSchedule |-> Fields({"status"}, {"connector_id",
        "schedule_start", "charging_schedule"}),
   GetConfiguration |-> Fields({}, {"configuration_key", "unknown_key"}),
   GetDiagnostics |-> Fields({}, {"file_name"}),
   GetLocalListVersion |-> Fields({"list_version"}, {}),
   GetLog |-> Fields({"status"}, {"filename"}),
   InstallCertificate |-> Fields({"status"}, {}),
   RemoteStartTransaction |-> Fields({"status"}, {}),
   RemoteStopTransaction |-> Fields({"status"}, {}),
   ReserveNow |-> Fields({"status"}, {}),
   Reset |-> Fields({"status"}, {}),
   SendLocalList |-> Fields({"status"}, {}),
   SetChargingProfile |-> Fields({"status"}, {}),
   SignedFirmwareStatusNotification |-> Fields({}, {}),
   SignedUpdateFirmware |-> Fields({"status"}, {}),
   TriggerMessage |-> Fields({"status"}, {}),
   UnlockConnector |-> Fields({"status"}, {}),
   UpdateFirmware |-> Fields({}, {})]

ResultClasses ==
  CentralSystemResults @@ ChargePointResults @@
  [DataTransfer |-> Fields({"status"}, {"data"})]

CentralSystemResultPayloads == WithSuffix(CentralSystemResults)
ChargePointResultPayloads == WithSuffix(ChargePointResults)
ResultPayloads ==
  CentralSystemResultPayloads @@ ChargePointResultPayloads @@
  WithSuffix([DataTransfer |-> ResultClasses.DataTransfer])

\* The types that are carried by a message, or by one another.
DataTypes ==
  [IdTagInfo |-> Fields({"status"}, {"parent_id_tag", "expiry_date"}),
   AuthorizationData |-> Fields({"id_tag"}, {"id_tag_info"}),
   ChargingSchedulePeriod |-> Fields({"start_period", "limit"},
        {"number_phases"}),
   ChargingSchedule |-> Fields({"charging_rate_unit",
        "charging_schedule_period"}, {"duration", "start_schedule",
        "min_charging_rate"}),
   ChargingProfile |-> Fields({"charging_profile_id", "stack_level",
        "charging_profile_purpose", "charging_profile_kind",
        "charging_schedule"}, {"transaction_id", "recurrency_kind",
        "valid_from", "valid_to"}),
   KeyValue |-> Fields({"key", "readonly"}, {"value"}),
   SampledValue |-> Fields({"value"}, {"context", "format", "measurand",
        "phase", "location", "unit"}),
   MeterValue |-> Fields({"timestamp", "sampled_value"}, {}),
   CertificateHashData |-> Fields({"hash_algorithm", "issuer_name_hash",
        "issuer_key_hash", "serial_number"}, {}),
   Firmware |-> Fields({"location", "retrieve_date_time",
        "signing_certificate"}, {"install_date_time", "signature"}),
   LogParameters |-> Fields({"remote_location"}, {"oldest_timestamp",
        "latest_timestamp"})]

\* The field under which a message or a type carries another.
Carried ==
  [cs_charging_profiles |-> "ChargingProfile",
   charging_profile |-> "ChargingProfile",
   charging_schedule |-> "ChargingSchedule",
   charging_schedule_period |-> "ChargingSchedulePeriod",
   local_authorization_list |-> "AuthorizationData",
   id_tag_info |-> "IdTagInfo",
   configuration_key |-> "KeyValue",
   meter_value |-> "MeterValue",
   transaction_data |-> "MeterValue",
   sampled_value |-> "SampledValue",
   certificate_hash_data |-> "CertificateHashData",
   firmware |-> "Firmware",
   log |-> "LogParameters"]
=============================================================================
