SPECIFICATION Spec
CONSTANTS
  Base = 2
  InitDictSize = 3
  Input = {0, 1, 3}
  MaxInput = 8
  MaxFailures = 1
INVARIANTS
  TypeOK
  RoundTrip
  Matching
  InStep
