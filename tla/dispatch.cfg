SPECIFICATION FairSpec
CONSTANTS
  NDevices = 2
  BatchSize <- Two21
  Capacity <- Two32
  Priority <- Two21
  Lowest = 0
  ChecksCapacity = TRUE
  Totals = {2, 5}
  MaxRuns = 2
  ThreadInit = TRUE
  WorkMayThrow = TRUE
INVARIANTS LoadAccounted CapacityRespected ReturnsComplete NoLostWakeup DrainedAtJoin IInv
PROPERTIES CallsEnd ImplementsBatchDispatch
