\* task_duration_disable for all: a charger at its rate does not see the alarm.
CONSTANTS
  k1 = k1
  Connectors = {k1}
  NoConnector = NoConnector
  TwoConnectors = {}
  DC = {}
  MaxPower <- UsualPower
  Phase2Start = 1
  DefaultStart = 1
  OtherProfiles = {}
  Phase2Limit = 0
  Readings <- TwoReadings
  CurrentOverload = 1
  MeterTimeout = 0
  ZeroIsFailure = FALSE
  Rates = {100}
  Limits = {32}
  Methods = {"setPowerRate"}
  AllDisabled = TRUE
  DurationDisabled = {}
  ProfileDisabled = {}
  MasterTimeout = 0
  ResponseTimeout = 1
  MaxCommands = 1
  MaxDrops = 0
SPECIFICATION FairSpec
CHECK_DEADLOCK FALSE
PROPERTIES
  MeterAlarmShutsAllDown
