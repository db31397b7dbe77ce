\* A charger at which set_charging_profile_disable takes effect late.
CONSTANTS
  k1 = k1
  Connectors = {k1}
  NoConnector = NoConnector
  TwoConnectors = {k1}
  DC = {}
  MaxPower <- UsualPower
  Phase2Start = 1
  DefaultStart = 1
  OtherProfiles <- Cleared
  Phase2Limit = 0
  Readings = {0}
  CurrentOverload = 1
  MeterTimeout = 0
  ZeroIsFailure = FALSE
  Rates <- OddRates
  Limits = {32}
  Methods = {"setPowerRate", "ClearChargingProfile"}
  AllDisabled = FALSE
  DurationDisabled = {}
  ProfileDisabled = {k1}
  MasterTimeout = 1
  ResponseTimeout = 1
  MaxCommands = 1
  MaxDrops = 0
SPECIFICATION FairSpec
CHECK_DEADLOCK FALSE
INVARIANTS
  TypeOK
PROPERTIES
  UnmanagedFollows
  TargetReached
