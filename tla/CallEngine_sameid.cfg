\* The ids of the application, get_uuid(), in the smallest instance.
CONSTANTS
  c1 = c1
  c2 = c2
  Calls = {c1, c2}
  NoCall = NoCall
  FreshIds = FALSE
  SkipValidation = {c1, c2}
  Raising = {}
  ResponseTimeout = 1
  MaxStamp = 1
  MaxBacklog = 1
SPECIFICATION Spec
INVARIANTS
  ReplyMatchesRequest
