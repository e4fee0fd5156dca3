SPECIFICATION Spec
CONSTANTS
  NumDocs = 7
  BatchSizes = {2, 3}
  VectorsPerShard = 3
  CheckpointEvery = 1
  MaxWorkers = 2
  MaxBatchRetries = 1
  Faults = {"write", "json", "rename", "unlink", "load"}
  MaxCrashes = 3
  MaxFetchErrors = 2
INVARIANTS TypeOK IndexComplete Recoverable BatchAccounting
PROPERTIES BoundaryNeverRetreats ImplementsPromise
CHECK_DEADLOCK FALSE
