SPECIFICATION Spec
CONSTANTS
  Stations = {"a"}
  ReportGap = 1
  MinuteRounds = 2
  DayRounds = 2
  MaxSessions = 2
  MaxChanges = 1
INVARIANTS
  TypeOK
  LatestRegistered
  CurrentOnline
PROPERTIES
  OnlyGrowthEndsLoop
  PassesGoOn
  ReportsCatchUp
CHECK_DEADLOCK FALSE
