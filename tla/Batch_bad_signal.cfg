SPECIFICATION FairSpec
CONSTANTS
  NCmds = 3
  GivenN = {1, 2}
  IntValues = 16
  Cap0 = 1
  MaxSignals = 1
  NForeign = 0
  CallsMayFail = FALSE
PROPERTIES
  SignalStopsBatch
