\* A DC charger whose session may be replaced and whose config is applied late.
CONSTANTS
  k1 = k1
  Connectors = {k1}
  NoConnector = NoConnector
  TwoConnectors = {k1}
  DC = {k1}
  MaxPower <- UsualPower
  Phase2Start = 1
  DefaultStart = 1
  OtherProfiles <- Cleared
  Phase2Limit = 0
  Readings = {2}
  CurrentOverload = 1
  MeterTimeout = 0
  ZeroIsFailure = FALSE
  Rates = {100}
  Limits = {32}
  Methods = {"setPowerRate", "start", "maintain"}
  AllDisabled = FALSE
  DurationDisabled = {}
  ProfileDisabled = {}
  MasterTimeout = 0
  ResponseTimeout = 1
  MaxCommands = 1
  MaxDrops = 1
SPECIFICATION Spec
PROPERTIES
  AlarmDecidesZero
  RecordedRateHeld
CHECK_DEADLOCK FALSE
