SPECIFICATION Spec
CONSTANTS
  Buffers = {b1, b2}
  Tasks = {t1, t2}
  None = None
  PoolSize = 2
  MaxPerLoop = 2
  MaxPackets = 2
  StopMayTimeOut = FALSE
  CreateMayFail = FALSE
PROPERTY
  StunRestartsTask
