SPECIFICATION Spec
CONSTANTS
  MaxMessages = 4
  MaxWire = 4
  Window = 4
  BufferLimit = 4
INVARIANTS
  TypeOK
  HeaderFirst
  InOrderOnce
  LostOnlyAfterSplit
CHECK_DEADLOCK FALSE
