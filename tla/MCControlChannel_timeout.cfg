CONSTANTS
  Fixed = {2}
  Counted = {3, 4}
  BodySize <- MCBodySize
  BufferLen = 4
  Commands <- MCCommands
  MaxCommands = 2
SPECIFICATION Spec
INVARIANT TimeoutIsError
CHECK_DEADLOCK FALSE
