SPECIFICATION FairSpec
CONSTANTS
  N = 6
  Min = 2
  Keys = {1, 2}
  PipeCap = 2
  CallsMayFail = TRUE
  MallocMayFail = FALSE
  MaxErrors = 1
INVARIANTS
  TypeOK
  ZeroMeansSorted
  OneMeansFailed
  NothingLost
  AllReaped
PROPERTIES
  AllEnd
\* Processes that wait for each other for ever show as a violation of AllEnd.
CHECK_DEADLOCK FALSE
