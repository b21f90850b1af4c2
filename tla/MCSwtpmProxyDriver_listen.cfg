CONSTANTS
  Backends <- MCBackends
  MaxChunks = 2
  MaxWrites = 2
  EarlyClose = TRUE
SPECIFICATION Spec
INVARIANTS TypeOK ResolvedAfterBoth CloseReportedOnce
  SafeWhileChildLives ChildDialsServers
PROPERTIES ListenSettles LossIsReported CloseStopsChild
CHECK_DEADLOCK FALSE
