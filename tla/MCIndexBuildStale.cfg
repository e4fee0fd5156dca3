SPECIFICATION Spec
CONSTANTS
  NumDocs = 6
  BatchSizes = {1}
  VectorsPerShard = 4
  CheckpointEvery = 2
  MaxWorkers = 1
  MaxBatchRetries = 0
  Faults = {}
  MaxCrashes = 2
  MaxFetchErrors = 0
INVARIANTS NoDuplicateIds
CHECK_DEADLOCK FALSE
