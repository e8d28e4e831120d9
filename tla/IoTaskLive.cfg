SPECIFICATION FairSpec
CONSTANTS
  Buffers = {b1, b2}
  Tasks = {t1}
  None = None
  PoolSize = 2
  MaxPerLoop = 1
  MaxPackets = 2
  StopMayTimeOut = FALSE
  CreateMayFail = TRUE
INVARIANTS
  RoutedInOrder
PROPERTIES
  QueuedIsRouted
  TcpIsSignalled
