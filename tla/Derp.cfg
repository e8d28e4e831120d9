SPECIFICATION FairSpec
CONSTANTS
  MaxPackets = 2
  MaxWire = 5
  IdleLimit = 1
  Wrap = 9
INVARIANTS
  TypeOK
  OnBoundary
  BackoffEnds
PROPERTIES
  PacketsWhole
  RelayRecovers
CHECK_DEADLOCK FALSE
