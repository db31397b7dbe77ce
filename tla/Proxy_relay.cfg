\* A charge point between two servers that number their requests alike.
CONSTANTS
  HasCMS = TRUE
  Connectors = {1}
  MaxCalls = 1
  MaxAsked = 1
SPECIFICATION FairSpec
INVARIANTS
  TypeOK
  ServerView
  AnsweredOnce
PROPERTIES
  SessionsEnd
CHECK_DEADLOCK FALSE
