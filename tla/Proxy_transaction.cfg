\* One request is enough for the transaction id to be missed.
CONSTANTS
  HasCMS = TRUE
  Connectors = {1, 2}
  MaxCalls = 1
  MaxAsked = 0
SPECIFICATION Spec
PROPERTIES
  TransactionLearned
CHECK_DEADLOCK FALSE
