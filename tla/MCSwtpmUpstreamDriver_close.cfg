CONSTANTS
  Params <- MCParams
  MaxChunks = 1
  MaxWrites = 0
  EarlyClose = FALSE
SPECIFICATION Spec
PROPERTY CloseIsReported
CHECK_DEADLOCK FALSE
