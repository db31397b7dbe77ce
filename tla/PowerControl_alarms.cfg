\* One AC charger: alarms shut it down, otherwise it follows the rate.
CONSTANTS
  k1 = k1
  Connectors = {k1}
  NoConnector = NoConnector
  TwoConnectors = {}
  DC = {}
  MaxPower <- UsualPower
  Phase2Start = 1
  DefaultStart = 1
  OtherProfiles <- Cleared
  Phase2Limit = 0
  Readings <- ThreeReadings
  CurrentOverload = 1
  MeterTimeout = 0
  ZeroIsFailure = FALSE
  Rates = {100}
  Limits = {32}
  Methods = {"setPowerRate"}
  AllDisabled = FALSE
  DurationDisabled = {}
  ProfileDisabled = {}
  MasterTimeout = 0
  ResponseTimeout = 1
  MaxCommands = 1
  MaxDrops = 0
SPECIFICATION FairSpec
CHECK_DEADLOCK FALSE
PROPERTIES
  MeterAlarmShutsDown
  MasterLossShutsDown
