SPECIFICATION Spec
CONSTANTS
  MaxMessages = 4
  MaxWire = 4
  Window = 2
  BufferLimit = 20
INVARIANTS
  WindowReturned
CHECK_DEADLOCK FALSE
