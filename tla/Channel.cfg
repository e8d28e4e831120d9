SPECIFICATION Spec
CONSTANTS
  NonceLimit = 3
  MaxConnections = 2
  MaxUp = 4
  MaxDown = 2
  MaxServerKeys = 2
INVARIANTS
  TypeOK
  NonceOnce
  Agreement
  NothingLost
PROPERTIES
  ImplementsPipe
CHECK_DEADLOCK FALSE
