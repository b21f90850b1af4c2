CONSTANTS
  Capacity = 8
  Packets <- MCPackets
  MaxPackets = 2
  MaxControl = 1
  Pipelined = FALSE
  Failures = TRUE
  WritePcap = TRUE
  MaxCapture = 3
SPECIFICATION Spec
INVARIANTS TypeOK OneUnwritten CapturedBeforeForwarded
PROPERTIES ImplementsExchange CommandsAnswered LossIsFatal
CHECK_DEADLOCK FALSE
