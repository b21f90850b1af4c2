CONSTANTS
  DataFds = {"data1", "data2"}
  PacketSize = 2
  ReadSize = 2
  MaxPackets = 2
  MaxControl = 3
  MaxClients = 2
SPECIFICATION Spec
INVARIANTS TypeOK NothingDropped Conserved
PROPERTIES PacketsAnswered CommandsAnswered ClientLossEnds BackendLossEnds
CHECK_DEADLOCK FALSE
