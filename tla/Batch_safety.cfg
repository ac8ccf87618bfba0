SPECIFICATION Spec
CONSTANTS
  NCmds = 4
  GivenN = {1, 2, 3, 12, 15, 16, 18}
  IntValues = 16
  Cap0 = 1
  MaxSignals = 1
  NForeign = 0
  CallsMayFail = TRUE
INVARIANTS
  TypeOK
  AtMostN
  TableMatches
  WaitsForSomething
  Verdict
  NoOrphans
PROPERTIES
  NoStartAfterFailure
