SPECIFICATION FairSpec
CONSTANTS
  p1 = p1
  p2 = p2
  p3 = p3
  None = None
  Peers <- OnePeer
  PeerOrder <- OneInOrder
  MaxActive = 1
  MaxIds = 12
  MaxFaults = 1
  Punctual = TRUE
PROPERTY
  ActiveHasSession
