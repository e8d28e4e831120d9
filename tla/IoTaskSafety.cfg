SPECIFICATION Spec
CONSTANTS
  Buffers = {b1, b2}
  Tasks = {t1, t2}
  None = None
  PoolSize = 2
  MaxPerLoop = 2
  MaxPackets = 3
  StopMayTimeOut = TRUE
  CreateMayFail = TRUE
SYMMETRY Symmetry
INVARIANTS
  TypeOK
  OneOwner
  QueuesNeverRefuse
  RoutedOnce
  TcpNotForgotten
PROPERTY
  PoolSpec
