\* Two charge points with another server, one without; no id is used by two.
CONSTANTS
  a = a
  b = b
  z = z
  Points = {a, b, z}
  Foreign = {a, b}
  Uuids <- DistinctIds
  MaxStarts = 2
  MaxIssued = 2
  MaxSessions = 1
SPECIFICATION Spec
INVARIANTS
  TypeOK
  OwnTransaction
CHECK_DEADLOCK FALSE
