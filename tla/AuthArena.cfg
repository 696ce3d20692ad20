SPECIFICATION Spec
CONSTANTS
  BufferSize = 11
  MaxContent = 10
  ArenaSize = 1024
  MessageSize = 56
  BeginSize = 160
  StringSize = 0
  FieldLength = 2
  MaxTimeout = 18
INVARIANT ArenaHolds
CHECK_DEADLOCK FALSE
