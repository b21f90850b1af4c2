CONSTANTS
  Packets <- MCPackets
  RoundedDown <- MCRoundedDown
  HighWater = 100
  MaxPackets = 4
SPECIFICATION Spec
INVARIANTS TypeOK InWriteOrder Readable
PROPERTIES Drains
CHECK_DEADLOCK FALSE
