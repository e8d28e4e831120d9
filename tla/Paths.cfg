SPECIFICATION FairSpec
CONSTANTS
  p1 = p1
  p2 = p2
  home = home
  lan = lan
  PeerOrder <- TwoPeers
  Reachable = {p1}
  Addresses = {home, lan}
  Lan = {lan}
  Nowhere = Nowhere
  FakeAddress = FakeAddress
  PreferDirect = TRUE
  IcmpSocket = TRUE
  RoundsPerDiscovery = 2
  MaxFaults = 1
INVARIANT
  TypeOK
PROPERTIES
  RouteReturns
  PathSettles
CHECK_DEADLOCK FALSE
