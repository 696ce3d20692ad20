SPECIFICATION Spec
CONSTANTS
  BufferSize = 11
  MaxContent = 10
  ArenaSize = 1024
  MessageSize = 56
  BeginSize = 160
  StringSize = 48
  FieldLength = 2
  MaxTimeout = 18
INVARIANTS
  SessionTypeOK
  TransactionsClosed
  StoredIsThere
  WaitingFits
  
CHECK_DEADLOCK FALSE
