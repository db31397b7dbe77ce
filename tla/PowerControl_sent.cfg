\* A charger with set_charging_profile_disable that has one connector.
CONSTANTS
  k1 = k1
  Connectors = {k1}
  NoConnector = NoConnector
  TwoConnectors = {}
  DC = {}
  MaxPower <- UsualPower
  Phase2Start = 1
  DefaultStart = 1
  OtherProfiles = {}
  Phase2Limit = 0
  Readings <- TwoReadings
  CurrentOverload = 1
  MeterTimeout = 0
  ZeroIsFailure = FALSE
  Rates = {50}
  Limits = {32}
  Methods = {"setPowerRate", "start", "stop"}
  AllDisabled = FALSE
  DurationDisabled = {}
  ProfileDisabled = {k1}
  MasterTimeout = 0
  ResponseTimeout = 1
  MaxCommands = 1
  MaxDrops = 0
SPECIFICATION Spec
PROPERTIES
  UnmanagedNeverSent
CHECK_DEADLOCK FALSE
