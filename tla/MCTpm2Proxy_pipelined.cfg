CONSTANTS
  Capacity = 6
  Packets <- MCPackets
  MaxPackets = 2
  MaxControl = 0
  Pipelined = TRUE
  Failures = TRUE
  WritePcap = FALSE
  MaxCapture = 8
SPECIFICATION Spec
INVARIANT NoStall
CHECK_DEADLOCK FALSE
