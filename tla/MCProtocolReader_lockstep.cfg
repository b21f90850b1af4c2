CONSTANTS
  Capacity = 8
  Packets <- MCPackets
  MaxPackets = 4
  Pipelined = FALSE
SPECIFICATION Spec
INVARIANTS TypeOK InOrder
PROPERTY ImplementsChannel
CHECK_DEADLOCK FALSE
