SPECIFICATION FairSpec
CONSTANTS
  Total = 6
  Required = 2
  SyncSteps = 1
  MaxRequired = 3
  MaxConcurrent = 2
  PendingSize = 2
  TestFreq = 2
  Modes = {TRUE, FALSE}
  Fragile = {2}
INVARIANTS
  TypeOK
  SamplesAccounted
  OutstandingBound
  ProcessorSurvives
  WeightsNotInUse
  FinishIsLast
  FinishKept
PROPERTY StreamEnds
