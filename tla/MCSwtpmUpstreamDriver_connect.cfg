CONSTANTS
  Params <- MCParams
  MaxChunks = 2
  MaxWrites = 2
  EarlyClose = TRUE
SPECIFICATION Spec
INVARIANTS TypeOK ResolvedAfterBoth NothingBeforeResume ThrowsOnlyAfterClose
PROPERTIES ConnectSettles WritesSettle
CHECK_DEADLOCK FALSE
