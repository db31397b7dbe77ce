\* As in Proxy_transaction.cfg, with a charge point that starts a transaction on a
\* connector only when this server has made it, and one at a time on each.
CONSTANTS
  HasCMS = TRUE
  Connectors = {1, 2}
  MaxCalls = 2
  MaxAsked = 0
SPECIFICATION PatientSpec
PROPERTIES
  TransactionLearned
CHECK_DEADLOCK FALSE
