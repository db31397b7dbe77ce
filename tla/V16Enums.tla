------------------------------ MODULE V16Enums ------------------------------
(***************************************************************************)
(* The enumerations of ocpp.v16.enums, and the fields that are declared    *)
(* with them in call.py, call_result.py and datatypes.py.                  *)
(***************************************************************************)
EXTENDS TLC

Action ==
  {"Authorize", "BootNotification", "CancelReservation", "CertificateSigned",
   "ChangeAvailability", "ChangeConfiguration", "ClearCache",
   "ClearChargingProfile", "DataTransfer", "DeleteCertificate",
   "DiagnosticsStatusNotification", "ExtendedTriggerMessage",
   "FirmwareStatusNotification", "GetCompositeSchedule", "GetConfiguration",
   "GetDiagnostics", "GetInstalledCertificateIds", "GetLocalListVersion",
   "GetLog", "Heartbeat", "InstallCertificate", "LogStatusNotification",
   "MeterValues", "RemoteStartTransaction", "RemoteStopTransaction",
   "ReserveNow", "Reset", "SecurityEventNotification", "SendLocalList",
   "SetChargingProfile", "SignCertificate",
   "SignedFirmwareStatusNotification", "SignedUpdateFirmware",
   "StartTransaction", "StatusNotification", "StopTransaction",
   "TriggerMessage", "UnlockConnector", "UpdateFirmware"}

\* The charge point, its users and certificates.
StationEnums ==
  [AuthorizationStatus |-> {"Accepted", "Blocked", "Expired", "Invalid",
        "ConcurrentTx"},
   AvailabilityStatus |-> {"Accepted", "Rejected", "Scheduled"},
   AvailabilityType |-> {"Inoperative", "Operative"},
   CancelReservationStatus |-> {"Accepted", "Rejected"},
   CertificateSignedStatus |-> {"Accepted", "Rejected"},
   CertificateStatus |-> {"Accepted", "Rejected", "Failed"},
   CertificateUse |-> {"CentralSystemRootCertificate",
        "ManufacturerRootCertificate"},
   ChargePointErrorCode |-> {"ConnectorLockFailure", "EVCommunicationError",
        "GroundFailure", "HighTemperature", "InternalError",
        "LocalListConflict", "NoError", "OtherError", "OverCurrentFailure",
        "OverVoltage", "PowerMeterFailure", "PowerSwitchFailure",
        "ReaderFailure", "ResetFailure", "UnderVoltage", "WeakSignal"},
   ChargePointStatus |-> {"Available", "Preparing", "Charging",
        "SuspendedEVSE", "SuspendedEV", "Finishing", "Reserved",
        "Unavailable", "Faulted"}]

\* Charging profiles and settings.
ProfileEnums ==
  [ChargingProfileKindType |-> {"Absolute", "Recurring", "Relative"},
   ChargingProfilePurposeType |-> {"ChargePointMaxProfile",
        "TxDefaultProfile", "TxProfile"},
   ChargingProfileStatus |-> {"Accepted", "Rejected", "NotSupported"},
   ChargingRateUnitType |-> {"W", "A"},
   ClearCacheStatus |-> {"Accepted", "Rejected"},
   ClearChargingProfileStatus |-> {"Accepted", "Unknown"},
   ConfigurationStatus |-> {"Accepted", "Rejected", "RebootRequired",
        "NotSupported"}]

\* Transfers, firmware and logs.  The members of FirmwareStatus that are
\* commented as "only for" the signed notification are kept apart.
TransferEnums ==
  [DataTransferStatus |-> {"Accepted", "Rejected", "UnknownMessageId",
        "UnknownVendorId"},
   DeleteCertificateStatus |-> {"Accepted", "Failed", "NotFound"},
   DiagnosticsStatus |-> {"Idle", "Uploaded", "UploadFailed", "Uploading"},
   FirmwareStatus |-> {"Downloaded", "DownloadFailed", "Downloading", "Idle",
        "InstallationFailed", "Installing", "Installed"},
   SignedFirmwareStatus |-> {"Downloaded", "DownloadFailed", "Downloading",
        "Idle", "InstallationFailed", "Installing", "Installed",
        "DownloadScheduled", "DownloadPaused", "InstallRebooting",
        "InstallScheduled", "InstallVerificationFailed", "InvalidSignature",
        "SignatureVerified"},
   GenericStatus |-> {"Accepted", "Rejected"},
   GetCompositeScheduleStatus |-> {"Accepted", "Rejected"},
   GetInstalledCertificateStatus |-> {"Accepted", "NotFound"},
   HashAlgorithm |-> {"SHA256", "SHA384", "SHA512"},
   Location |-> {"Inlet", "Outlet", "Body", "Cable", "EV"},
   Log |-> {"DiagnosticsLog", "SecurityLog"},
   LogStatus |-> {"Accepted", "Rejected", "AcceptedCanceled"}]

\* Readings, and what makes the charge point send them.  So are the members
\* of MessageTrigger that are only for one of the two requests.
MeterEnums ==
  [Measurand |-> {"Current.Export", "Current.Import", "Current.Offered",
        "Energy.Active.Export.Register", "Energy.Active.Import.Register",
        "Energy.Reactive.Export.Register", "Energy.Reactive.Import.Register",
        "Energy.Active.Export.Interval", "Energy.Active.Import.Interval",
        "Energy.Reactive.Export.Interval", "Energy.Reactive.Import.Interval",
        "Frequency", "Power.Active.Export", "Power.Active.Import",
        "Power.Factor", "Power.Offered", "Power.Reactive.Export",
        "Power.Reactive.Import", "RPM", "SoC", "Temperature", "Voltage"},
   MessageTrigger |-> {"BootNotification", "FirmwareStatusNotification",
        "Heartbeat", "MeterValues", "StatusNotification",
        "DiagnosticsStatusNotification"},
   ExtendedMessageTrigger |-> {"BootNotification",
        "FirmwareStatusNotification", "Heartbeat", "MeterValues",
        "StatusNotification", "LogStatusNotification",
        "SignChargePointCertificate"},
   Phase |-> {"L1", "L2", "L3", "N", "L1-N", "L2-N", "L3-N", "L1-L2",
        "L2-L3", "L3-L1"},
   ReadingContext |-> {"Interruption.Begin", "Interruption.End", "Other",
        "Sample.Clock", "Sample.Periodic", "Transaction.Begin",
        "Transaction.End", "Trigger"},
   Reason |-> {"EmergencyStop", "EVDisconnected", "HardReset", "Local",
        "Other", "PowerLoss", "Reboot", "Remote", "SoftReset",
        "UnlockCommand", "DeAuthorized"},
   RecurrencyKind |-> {"Daily", "Weekly"}]

\* Answers.
AnswerEnums ==
  [RegistrationStatus |-> {"Accepted", "Pending", "Rejected"},
   RemoteStartStopStatus |-> {"Accepted", "Rejected"},
   ReservationStatus |-> {"Accepted", "Faulted", "Occupied", "Rejected",
        "Unavailable"},
   ResetStatus |-> {"Accepted", "Rejected"},
   ResetType |-> {"Hard", "Soft"},
   TriggerMessageStatus |-> {"Accepted", "Rejected", "NotImplemented"},
   UnitOfMeasure |-> {"Wh", "kWh", "varh", "kvarh", "W", "kW", "VA", "kVA",
        "var", "kvar", "A", "V", "Celsius", "Fahrenheit", "K", "Percent"},
   UnlockStatus |-> {"Unlocked", "UnlockFailed", "NotSupported"},
   UpdateFirmwareStatus |-> {"Accepted", "Rejected", "AcceptedCanceled",
        "InvalidCertificate", "RevokedCertificate"},
   UploadLogStatus |-> {"BadMessage", "Idle", "NotSupportedOperation",
        "PermissionDenied", "Uploaded", "UploadFailure", "Uploading"},
   UpdateStatus |-> {"Accepted", "Failed", "NotSupported", "VersionMismatch"},
   UpdateType |-> {"Differential", "Full"},
   ValueFormat |-> {"Raw", "SignedData"}]

AsInDraft == \* mutant: a later value of an enumeration was never added
  ("UnlockStatus" :> {"Unlocked", "UnlockFailed"}) @@ StationEnums
  @@ ProfileEnums @@ TransferEnums @@ MeterEnums @@ AnswerEnums
Enum ==
  StationEnums @@ ProfileEnums @@ TransferEnums @@ MeterEnums @@ AnswerEnums

\* The fields whose declared type is an enumeration.
RequestEnums ==
  [ChangeAvailability |-> [type |-> "AvailabilityType"],
   ClearChargingProfile |->
        [charging_profile_purpose |-> "ChargingProfilePurposeType"],
   ExtendedTriggerMessage |-> [requested_message |-> "ExtendedMessageTrigger"],
   GetCompositeSchedule |-> [charging_rate_unit |-> "ChargingRateUnitType"],
   GetInstalledCertificateIds |-> [certificate_type |-> "CertificateUse"],
   GetLog |-> [log_type |-> "Log"],
   InstallCertificate |-> [certificate_type |-> "CertificateUse"],
   Reset |-> [type |-> "ResetType"],
   SendLocalList |-> [update_type |-> "UpdateType"],
   TriggerMessage |-> [requested_message |-> "MessageTrigger"],
   DiagnosticsStatusNotification |-> [status |-> "DiagnosticsStatus"],
   FirmwareStatusNotification |-> [status |-> "FirmwareStatus"],
   LogStatusNotification |-> [status |-> "UploadLogStatus"],
   SignedFirmwareStatusNotification |-> [status |-> "SignedFirmwareStatus"],
   StopTransaction |-> [reason |-> "Reason"],
   StatusNotification |-> [error_code |-> "ChargePointErrorCode",
        status |-> "ChargePointStatus"]]

ResultEnums ==
  [BootNotification |-> [status |-> "RegistrationStatus"],
   SignCertificate |-> [status |-> "GenericStatus"],
   CancelReservation |-> [status |-> "CancelReservationStatus"],
   CertificateSigned |-> [status |-> "CertificateSignedStatus"],
   ChangeAvailability |-> [status |-> "AvailabilityStatus"],
   ChangeConfiguration |-> [status |-> "ConfigurationStatus"],
   ClearCache |-> [status |-> "ClearCacheStatus"],
   ClearChargingProfile |-> [status |-> "ClearChargingProfileStatus"],
   DeleteCertificate |-> [status |-> "DeleteCertificateStatus"],
   ExtendedTriggerMessage |-> [status |-> "TriggerMessageStatus"],
   GetInstalledCertificateIds |-> [status |-> "GetInstalledCertificateStatus"],
   GetCompositeSchedule |-> [status |-> "GetCompositeScheduleStatus"],
   GetLog |-> [status |-> "LogStatus"],
   InstallCertificate |-> [status |-> "CertificateStatus"],
   RemoteStartTransaction |-> [status |-> "RemoteStartStopStatus"],
   RemoteStopTransaction |-> [status |-> "RemoteStartStopStatus"],
   ReserveNow |-> [status |-> "ReservationStatus"],
   Reset |-> [status |-> "ResetStatus"],
   SendLocalList |-> [status |-> "UpdateStatus"],
   SetChargingProfile |-> [status |-> "ChargingProfileStatus"],
   SignedUpdateFirmware |-> [status |-> "UpdateFirmwareStatus"],
   TriggerMessage |-> [status |-> "TriggerMessageStatus"],
   UnlockConnector |-> [status |-> "UnlockStatus"],
   DataTransfer |-> [status |-> "DataTransferStatus"]]

TypeEnums ==
  [IdTagInfo |-> [status |-> "AuthorizationStatus"],
   ChargingSchedule |-> [charging_rate_unit |-> "ChargingRateUnitType"],
   ChargingProfile |->
        [charging_profile_purpose |-> "ChargingProfilePurposeType",
        charging_profile_kind |-> "ChargingProfileKindType",
        recurrency_kind |-> "RecurrencyKind"],
   SampledValue |-> [context |-> "ReadingContext", format |-> "ValueFormat",
        measurand |-> "Measurand", phase |-> "Phase",
        location |-> "Location", unit |-> "UnitOfMeasure"],
   CertificateHashData |-> [hash_algorithm |-> "HashAlgorithm"]]
=============================================================================
