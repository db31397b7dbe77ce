\* A call that outlasts the timeout of the master box, 10 s against 7 s.
CONSTANTS
  k1 = k1
  Connectors = {k1}
  NoConnector = NoConnector
  TwoConnectors = {}
  DC = {}
  MaxPower <- UsualPower
  Phase2Start = 1
  DefaultStart = 1
  OtherProfiles = {}
  Phase2Limit = 0
  Readings <- ThreeReadings
  CurrentOverload = 1
  MeterTimeout = 0
  ZeroIsFailure = FALSE
  Rates = {50}
  Limits = {32}
  Methods = {"setCurrentLimit", "setCurrentLimitDefault"}
  AllDisabled = FALSE
  DurationDisabled = {}
  ProfileDisabled = {}
  MasterTimeout = 1
  ResponseTimeout = 2
  MaxCommands = 1
  MaxDrops = 0
SPECIFICATION SilenceSpec
CHECK_DEADLOCK FALSE
INVARIANTS
  OfflineOnlyIfSilent
