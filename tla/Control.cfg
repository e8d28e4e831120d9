SPECIFICATION FairSpec
CONSTANTS
  NumPairs = 3
  MaxKeys = 3
  MaxSaveFaults = 1
  MaxReadFaults = 1
  MayTear = TRUE
  SilenceLimit = 4
  NotReadyLimit = 1
  DirectLimit = 10
  MayRevoke = TRUE
INVARIANTS
  TypeOK
  ChannelOutlivesTransport
  ReadyIsWatched
  RegisteringIsFresh
  TimerIsCurrent
  KeysWhole
  DerpIdentity
PROPERTY
  Recovers
