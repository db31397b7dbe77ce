\* Two charge points that both number their requests from 1.
CONSTANTS
  a = a
  b = b
  z = z
  Points = {a, b}
  Foreign = {a, b}
  Uuids <- SerialIds
  MaxStarts = 1
  MaxIssued = 2
  MaxSessions = 0
SPECIFICATION Spec
INVARIANTS
  OwnTransaction
CHECK_DEADLOCK FALSE
