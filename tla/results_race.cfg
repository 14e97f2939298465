SPECIFICATION Spec
CONSTANTS
  NDevices = 2
  BatchSize <- Two1
  Capacity <- Two1
  Priority <- Two1
  Lowest = 0
  ChecksCapacity = TRUE
  Totals = {2}
  MaxRuns = 1
  ThreadInit = FALSE
  WorkMayThrow = FALSE
INVARIANTS ResultsCollected
