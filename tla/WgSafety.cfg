SPECIFICATION Spec
CONSTANTS
  p1 = p1
  p2 = p2
  p3 = p3
  None = None
  Peers <- ThreePeers
  PeerOrder <- ThreeInOrder
  MaxActive = 2
  MaxIds = 5
  MaxFaults = 1
  Punctual = FALSE
INVARIANTS
  TypeOK
  ActiveFits
  SessionRoutable
  KeysAreOwn
PROPERTY
  EvictsLongestIdle
