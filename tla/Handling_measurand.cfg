SPECIFICATION Spec
CONSTANTS
  DcCharger = TRUE
  DcVoltage = 220
  DcEfficiency = 97
  Unreadable = Unreadable
  Absent = "absent"
  Samples <- MeterSamples
  Connectors = {0, 1, 2, 3}
  MaxSamples = 1
  MaxWork = 2
PROPERTIES
  DefaultMeasurand
CHECK_DEADLOCK FALSE
