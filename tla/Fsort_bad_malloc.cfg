SPECIFICATION Spec
CONSTANTS
  N = 4
  Min = 1
  Keys = {1, 2}
  PipeCap = 1
  CallsMayFail = FALSE
  MallocMayFail = TRUE
  MaxErrors = 0
INVARIANTS
  ZeroMeansSorted
