----------------------------- MODULE V16Schemas -----------------------------
(***************************************************************************)
(* The JSON schemas of OCPP 1.6, src/ocpp/v16/schemas, that validation     *)
(* reads: the properties of each payload and of the objects in it, which   *)
(* of them are required, whether others are let through, and the values of *)
(* those that are enumerated.                                              *)
(***************************************************************************)

Closed(required, optional) ==
  [required |-> required, optional |-> optional, additional |-> FALSE]
Open(required, optional) ==
  [required |-> required, optional |-> optional, additional |-> TRUE]

\* <action>.json
RequestSchema ==
  [Authorize |-> Open({"idTag"}, {}),
   BootNotification |-> Open({"chargePointVendor", "chargePointModel"},
        {"chargePointSerialNumber", "chargeBoxSerialNumber",
        "firmwareVersion", "iccid", "imsi", "meterType",
        "meterSerialNumber"}),
   CancelReservation |-> Closed({"reservationId"}, {}),
   CertificateSigned |-> Closed({"certificateChain"}, {}),
   ChangeAvailability |-> Closed({"connectorId", "type"}, {}),
   ChangeConfiguration |-> Closed({"key", "value"}, {}),
   ClearCache |-> Closed({}, {}),
   ClearChargingProfile |-> Closed({}, {"id", "connectorId",
        "chargingProfilePurpose", "stackLevel"}),
   DataTransfer |-> Closed({"vendorId"}, {"messageId", "data"}),
   DeleteCertificate |-> Closed({"certificateHashData"}, {}),
   DiagnosticsStatusNotification |-> Closed({"status"}, {}),
   ExtendedTriggerMessage |-> Closed({"requestedMessage"}, {"connectorId"}),
   FirmwareStatusNotification |-> Closed({"status"}, {}),
   GetCompositeSchedule |-> Closed({"connectorId", "duration"},
        {"chargingRateUnit"}),
   GetConfiguration |-> Closed({}, {"key"}),
   GetDiagnostics |-> Closed({"location"}, {"retries", "retryInterval",
        "startTime", "stopTime"}),
   GetInstalledCertificateIds |-> Closed({"certificateType"}, {}),
   GetLocalListVersion |-> Closed({}, {}),
   GetLog |-> Closed({"logType", "requestId", "log"}, {"retries",
        "retryInterval"}),
   Heartbeat |-> Closed({}, {}),
   InstallCertificate |-> Closed({"certificateType", "certificate"}, {}),
   LogStatusNotification |-> Closed({"status"}, {"requestId"}),
   MeterValues |-> Closed({"connectorId", "meterValue"}, {"transactionId"}),
   RemoteStartTransaction |-> Open({"idTag"}, {"connectorId",
        "chargingProfile"}),
   RemoteStopTransaction |-> Closed({"transactionId"}, {}),
   ReserveNow |-> Closed({"connectorId", "expiryDate", "idTag",
        "reservationId"}, {"parentIdTag"}),
   Reset |-> Closed({"type"}, {}),
   SecurityEventNotification |-> Closed({"type", "timestamp"}, {"techInfo"}),
   SendLocalList |-> Closed({"listVersion", "updateType"},
        {"localAuthorizationList"}),
   SetChargingProfile |-> Closed({"connectorId", "csChargingProfiles"}, {}),
   SignCertificate |-> Closed({"csr"}, {}),
   SignedFirmwareStatusNotification |-> Closed({"status"}, {"requestId"}),
   SignedUpdateFirmware |-> Closed({"requestId", "firmware"}, {"retries",
        "retryInterval"}),
   StartTransaction |-> Open({"connectorId", "idTag", "meterStart",
        "timestamp"}, {"reservationId"}),
   StatusNotification |-> Open({"connectorId", "errorCode", "status"},
        {"info", "timestamp", "vendorId", "vendorErrorCode"}),
   StopTransaction |-> Closed({"transactionId", "timestamp", "meterStop"},
        {"idTag", "reason", "transactionData"}),
   TriggerMessage |-> Closed({"requestedMessage"}, {"connectorId"}),
   UnlockConnector |-> Closed({"connectorId"}, {}),
   UpdateFirmware |-> Closed({"location", "retrieveDate"}, {"retries",
        "retryInterval"})]

\* <action>Response.json
ResultSchema ==
  [Authorize |-> Open({"idTagInfo"}, {}),
   BootNotification |-> Open({"status", "currentTime", "interval"}, {}),
   CancelReservation |-> Closed({"status"}, {}),
   CertificateSigned |-> Closed({"status"}, {}),
   ChangeAvailability |-> Closed({"status"}, {}),
   ChangeConfiguration |-> Closed({"status"}, {}),
   ClearCache |-> Closed({"status"}, {}),
   ClearChargingProfile |-> Closed({"status"}, {}),
   DataTransfer |-> Closed({"status"}, {"data"}),
   DeleteCertificate |-> Closed({"status"}, {}),
   DiagnosticsStatusNotification |-> Closed({}, {}),
   ExtendedTriggerMessage |-> Closed({"status"}, {}),
   FirmwareStatusNotification |-> Closed({}, {}),
   GetCompositeSchedule |-> Closed({"status"}, {"connectorId",
        "scheduleStart", "chargingSchedule"}),
   GetConfiguration |-> Closed({}, {"configurationKey", "unknownKey"}),
   GetDiagnostics |-> Closed({}, {"fileName"}),
   GetInstalledCertificateIds |-> Closed({"status"}, {"certificateHashData"}),
   GetLocalListVersion |-> Closed({"listVersion"}, {}),
   GetLog |-> Closed({"status"}, {"filename"}),
   Heartbeat |-> Closed({"currentTime"}, {}),
   InstallCertificate |-> Closed({"status"}, {}),
   LogStatusNotification |-> Closed({}, {}),
   MeterValues |-> Closed({}, {}),
   RemoteStartTransaction |-> Closed({"status"}, {}),
   RemoteStopTransaction |-> Closed({"status"}, {}),
   ReserveNow |-> Closed({"status"}, {}),
   Reset |-> Closed({"status"}, {}),
   SecurityEventNotification |-> Closed({}, {}),
   SendLocalList |-> Closed({"status"}, {}),
   SetChargingProfile |-> Closed({"status"}, {}),
   SignCertificate |-> Closed({"status"}, {}),
   SignedFirmwareStatusNotification |-> Closed({}, {}),
   SignedUpdateFirmware |-> Closed({"status"}, {}),
   StartTransaction |-> Closed({"idTagInfo", "transactionId"}, {}),
   StatusNotification |-> Open({}, {}),
   StopTransaction |-> Closed({}, {"idTagInfo"}),
   TriggerMessage |-> Closed({"status"}, {}),
   UnlockConnector |-> Closed({"status"}, {}),
   UpdateFirmware |-> Closed({}, {})]

\* The objects inside a payload.  Where two schemas differ, the narrower one:
\* idTagInfo is open in AuthorizeResponse, and a unit may also be Hertz in
\* MeterValues.
ObjectSchema ==
  [IdTagInfo |-> Closed({"status"}, {"expiryDate", "parentIdTag"}),
   LogParameters |-> Closed({"remoteLocation"}, {"oldestTimestamp",
        "latestTimestamp"}),
   MeterValue |-> Closed({"timestamp", "sampledValue"}, {}),
   SampledValue |-> Closed({"value"}, {"context", "format", "measurand",
        "phase", "location", "unit"}),
   CertificateHashData |-> Closed({"hashAlgorithm", "issuerNameHash",
        "issuerKeyHash", "serialNumber"}, {}),
   AuthorizationData |-> Closed({"idTag"}, {"idTagInfo"}),
   KeyValue |-> Open({"key", "readonly"}, {"value"}),
   ChargingProfile |-> Closed({"chargingProfileId", "stackLevel",
        "chargingProfilePurpose", "chargingProfileKind", "chargingSchedule"},
        {"transactionId", "recurrencyKind", "validFrom", "validTo"}),
   ChargingSchedule |-> Closed({"chargingRateUnit",
        "chargingSchedulePeriod"}, {"duration", "startSchedule",
        "minChargingRate"}),
   ChargingSchedulePeriod |-> Closed({"startPeriod", "limit"},
        {"numberPhases"}),
   Firmware |-> Closed({"location", "retrieveDateTime", "signingCertificate",
        "signature"}, {"installDateTime"})]

\* The values that a schema enumerates.
RequestValues ==
  [ChangeAvailability |-> [type |-> {"Inoperative", "Operative"}],
   ClearChargingProfile |->
        [chargingProfilePurpose |-> {"ChargePointMaxProfile",
        "TxDefaultProfile", "TxProfile"}],
   DiagnosticsStatusNotification |-> [status |-> {"Idle", "Uploaded",
        "UploadFailed", "Uploading"}],
   ExtendedTriggerMessage |-> [requestedMessage |-> {"BootNotification",
        "LogStatusNotification", "FirmwareStatusNotification", "Heartbeat",
        "MeterValues", "SignChargePointCertificate", "StatusNotification"}],
   FirmwareStatusNotification |-> [status |-> {"Downloaded",
        "DownloadFailed", "Downloading", "Idle", "InstallationFailed",
        "Installing", "Installed"}],
   GetCompositeSchedule |-> [chargingRateUnit |-> {"A", "W"}],
   GetInstalledCertificateIds |-> [certificateType |->
        {"CentralSystemRootCertificate", "ManufacturerRootCertificate"}],
   GetLog |-> [logType |-> {"DiagnosticsLog", "SecurityLog"}],
   InstallCertificate |-> [certificateType |->
        {"CentralSystemRootCertificate", "ManufacturerRootCertificate"}],
   LogStatusNotification |-> [status |-> {"BadMessage", "Idle",
        "NotSupportedOperation", "PermissionDenied", "Uploaded",
        "UploadFailure", "Uploading"}],
   Reset |-> [type |-> {"Hard", "Soft"}],
   SendLocalList |-> [updateType |-> {"Differential", "Full"}],
   SignedFirmwareStatusNotification |-> [status |-> {"Downloaded",
        "DownloadFailed", "Downloading", "DownloadScheduled",
        "DownloadPaused", "Idle", "InstallationFailed", "Installing",
        "Installed", "InstallRebooting", "InstallScheduled",
        "InstallVerificationFailed", "InvalidSignature",
        "SignatureVerified"}],
   StatusNotification |-> [errorCode |-> {"ConnectorLockFailure",
        "EVCommunicationError", "GroundFailure", "HighTemperature",
        "InternalError", "LocalListConflict", "NoError", "OtherError",
        "OverCurrentFailure", "PowerMeterFailure", "PowerSwitchFailure",
        "ReaderFailure", "ResetFailure", "UnderVoltage", "OverVoltage",
        "WeakSignal"}, status |-> {"Available", "Preparing", "Charging",
        "SuspendedEVSE", "SuspendedEV", "Finishing", "Reserved",
        "Unavailable", "Faulted"}],
   StopTransaction |-> [reason |-> {"EmergencyStop", "EVDisconnected",
        "HardReset", "Local", "Other", "PowerLoss", "Reboot", "Remote",
        "SoftReset", "UnlockCommand", "DeAuthorized", "Timeout"}],
   TriggerMessage |-> [requestedMessage |-> {"BootNotification",
        "DiagnosticsStatusNotification", "FirmwareStatusNotification",
        "Heartbeat", "MeterValues", "StatusNotification"}]]

ResultValues ==
  [BootNotification |-> [status |-> {"Accepted", "Pending", "Rejected"}],
   CancelReservation |-> [status |-> {"Accepted", "Rejected"}],
   CertificateSigned |-> [status |-> {"Accepted", "Rejected"}],
   ChangeAvailability |-> [status |-> {"Accepted", "Rejected", "Scheduled"}],
   ChangeConfiguration |-> [status |-> {"Accepted", "Rejected",
        "RebootRequired", "NotSupported"}],
   ClearCache |-> [status |-> {"Accepted", "Rejected"}],
   ClearChargingProfile |-> [status |-> {"Accepted", "Unknown"}],
   DataTransfer |-> [status |-> {"Accepted", "Rejected", "UnknownMessageId",
        "UnknownVendorId"}],
   DeleteCertificate |-> [status |-> {"Accepted", "Failed", "NotFound"}],
   ExtendedTriggerMessage |-> [status |-> {"Accepted", "Rejected",
        "NotImplemented"}],
   GetCompositeSchedule |-> [status |-> {"Accepted", "Rejected"}],
   GetInstalledCertificateIds |-> [status |-> {"Accepted", "NotFound"}],
   GetLog |-> [status |-> {"Accepted", "Rejected", "AcceptedCanceled"}],
   InstallCertificate |-> [status |-> {"Accepted", "Failed", "Rejected"}],
   RemoteStartTransaction |-> [status |-> {"Accepted", "Rejected"}],
   RemoteStopTransaction |-> [status |-> {"Accepted", "Rejected"}],
   ReserveNow |-> [status |-> {"Accepted", "Faulted", "Occupied", "Rejected",
        "Unavailable"}],
   Reset |-> [status |-> {"Accepted", "Rejected"}],
   SendLocalList |-> [status |-> {"Accepted", "Failed", "NotSupported",
        "VersionMismatch"}],
   SetChargingProfile |-> [status |-> {"Accepted", "Rejected",
        "NotSupported"}],
   SignCertificate |-> [status |-> {"Accepted", "Rejected"}],
   SignedUpdateFirmware |-> [status |-> {"Accepted", "Rejected",
        "AcceptedCanceled", "InvalidCertificate", "RevokedCertificate"}],
   TriggerMessage |-> [status |-> {"Accepted", "Rejected", "NotImplemented"}],
   UnlockConnector |-> [status |-> {"Unlocked", "UnlockFailed",
        "NotSupported"}]]

ObjectValues ==
  [IdTagInfo |-> [status |-> {"Accepted", "Blocked", "Expired", "Invalid",
        "ConcurrentTx"}],
   SampledValue |-> [context |-> {"Interruption.Begin", "Interruption.End",
        "Sample.Clock", "Sample.Periodic", "Transaction.Begin",
        "Transaction.End", "Trigger", "Other"}, format |-> {"Raw",
        "SignedData"}, measurand |-> {"Energy.Active.Export.Register",
        "Energy.Active.Import.Register", "Energy.Reactive.Export.Register",
        "Energy.Reactive.Import.Register", "Energy.Active.Export.Interval",
        "Energy.Active.Import.Interval", "Energy.Reactive.Export.Interval",
        "Energy.Reactive.Import.Interval", "Power.Active.Export",
        "Power.Active.Import", "Power.Offered", "Power.Reactive.Export",
        "Power.Reactive.Import", "Power.Factor", "Current.Import",
        "Current.Export", "Current.Offered", "Voltage", "Frequency",
        "Temperature", "SoC", "RPM"}, phase |-> {"L1", "L2", "L3", "N",
        "L1-N", "L2-N", "L3-N", "L1-L2", "L2-L3", "L3-L1"},
        location |-> {"Cable", "EV", "Inlet", "Outlet", "Body"},
        unit |-> {"Wh", "kWh", "varh", "kvarh", "W", "kW", "VA", "kVA",
        "var", "kvar", "A", "V", "K", "Celcius", "Celsius", "Fahrenheit",
        "Percent"}],
   CertificateHashData |-> [hashAlgorithm |-> {"SHA256", "SHA384", "SHA512"}],
   ChargingProfile |-> [chargingProfilePurpose |-> {"ChargePointMaxProfile",
        "TxDefaultProfile", "TxProfile"},
        chargingProfileKind |-> {"Absolute", "Recurring", "Relative"},
        recurrencyKind |-> {"Daily", "Weekly"}],
   ChargingSchedule |-> [chargingRateUnit |-> {"A", "W"}]]
=============================================================================
