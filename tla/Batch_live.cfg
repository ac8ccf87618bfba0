SPECIFICATION FairSpec
CONSTANTS
  NCmds = 3
  GivenN = {1, 2, 12, 15, 16}
  IntValues = 16
  Cap0 = 1
  MaxSignals = 1
  NForeign = 1
  CallsMayFail = TRUE
INVARIANTS
  FailureRemembered
PROPERTIES
  BatchEnds
  QuietShutdown
