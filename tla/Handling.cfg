SPECIFICATION Spec
CONSTANTS
  DcCharger = TRUE
  DcVoltage = 220
  DcEfficiency = 97
  Unreadable = Unreadable
  Absent = "absent"
  Samples <- MeterSamples
  Connectors = {0, 1, 2, 3}
  MaxSamples = 2
  MaxWork = 2
INVARIANTS
  TypeOK
  ValidRequestsSucceed
  CallsConform
  StatusesAreKnown
  KeysSurvive
  TablesFit
PROPERTIES
  AnswersInOrder
  ImplementsResponder
  RepliesReachCalls
  MeterReadings
CHECK_DEADLOCK FALSE
