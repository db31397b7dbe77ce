SPECIFICATION Spec
CONSTANTS
  Stations = {"a", "b"}
  ReportGap = 1
  MinuteRounds = 2
  DayRounds = 2
  MaxSessions = 2
  MaxChanges = 1
PROPERTIES
  LoopGoesOn
CHECK_DEADLOCK FALSE
