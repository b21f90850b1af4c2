CONSTANTS
  Fixed = {2}
  Counted = {3, 4}
  BodySize <- MCBodySize
  BufferLen = 4
  Commands <- MCFrontCommands
  MaxCommands = 2
  SetDataFd = 6
  Attached = 7
SPECIFICATION FrontSpec
INVARIANTS TypeOK ExactUnlessLate  BackEndSeesClient
PROPERTY CallReturns
CHECK_DEADLOCK FALSE
