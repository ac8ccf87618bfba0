SPECIFICATION FairSpec
CONSTANTS
  Socks = {s1, s2}
  Timeout = 1
  MaxUnread = 1
  MaxBacklog = 1
  CallsMayFail = TRUE
INVARIANTS
  TypeOK
  WatchesOpenOnes
  PassServesAll
  NoEarlyExit
PROPERTIES
  EveryoneServed
