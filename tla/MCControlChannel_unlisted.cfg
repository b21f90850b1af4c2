CONSTANTS
  Fixed = {2}
  Counted = {3, 4}
  BodySize <- MCBodySize
  BufferLen = 4
  Commands <- MCUnlisted
  MaxCommands = 2
SPECIFICATION Spec
INVARIANT WholeUnlessLate
CHECK_DEADLOCK FALSE
