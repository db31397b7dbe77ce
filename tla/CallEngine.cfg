\* Three calls with uuid4 ids: a late reply to the first can meet the second
\* or the third, in the queue or on its way.
CONSTANTS
  c1 = c1
  c2 = c2
  c3 = c3
  Calls = {c1, c2, c3}
  NoCall = NoCall
  FreshIds = TRUE
  SkipValidation = {c2, c3}
  Raising = {c3}
  ResponseTimeout = 1
  MaxStamp = 3
  MaxBacklog = 1
SPECIFICATION FairSpec
INVARIANTS
  TypeOK
  ReplyMatchesRequest
  OneOutstanding
  TimeoutExact
PROPERTIES
  ImplementsSerialRpc
  OnlyStaleDiscarded
  CallCompletes
  CloseStopsLoop
