CONSTANTS
  Capacity = 8
  Packets <- MCPackets
  MaxPackets = 2
  Pipelined = TRUE
SPECIFICATION Spec
INVARIANT InOrder
CHECK_DEADLOCK FALSE
