SPECIFICATION FairSpec
CONSTANTS
  NumDocs = 7
  BatchSizes = {2}
  VectorsPerShard = 0
  CheckpointEvery = 2
  MaxWorkers = 3
  MaxBatchRetries = 1
  Faults = {"write", "json", "rename", "unlink", "load"}
  MaxCrashes = 3
  MaxFetchErrors = 2
INVARIANTS IndexComplete
PROPERTIES EventuallyBuilt
CHECK_DEADLOCK FALSE
