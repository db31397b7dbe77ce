\* As in MasterSilence_busy.cfg, with a session that is replaced, a charger with
\* two connectors, and handlers that raise.
CONSTANTS
  k1 = k1
  Connectors = {k1}
  NoConnector = NoConnector
  TwoConnectors = {k1}
  DC = {}
  MaxPower <- UsualPower
  Phase2Start = 1
  DefaultStart = 1
  OtherProfiles = {}
  Phase2Limit = 0
  Readings = {0}
  CurrentOverload = 1
  MeterTimeout = 0
  ZeroIsFailure = FALSE
  Rates = {50}
  Limits = {32}
  Methods = {"setPowerRate", "setCurrentLimitDefault"}
  AllDisabled = TRUE
  DurationDisabled = {}
  ProfileDisabled = {}
  MasterTimeout = 1
  ResponseTimeout = 2
  MaxCommands = 2
  MaxDrops = 1
SPECIFICATION SilenceSpec
CHECK_DEADLOCK FALSE
INVARIANTS
  OfflineOnlyIfBusy
