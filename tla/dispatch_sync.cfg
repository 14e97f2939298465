SPECIFICATION SyncFairSpec
CONSTANTS
  NDevices = 2
  BatchSize <- Two23
  Capacity <- Two23
  Priority <- Two1
  Lowest = 0
  ChecksCapacity = TRUE
  Totals = {1, 4, 7}
  MaxRuns = 3
  WorkMayThrow = TRUE
INVARIANTS InOrder
PROPERTIES RunEnds SyncImplementsBatchDispatch
