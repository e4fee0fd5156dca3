SPECIFICATION FairSpec
CONSTANTS
  r1 = r1
  r2 = r2
  r3 = r3
  Requests = {r1, r2, r3}
  Queries <- MCQueries
  Ks <- MCKs
  IndexSize = 2
  MaxBatch <- MCMaxBatch
  EmbedBatchSize = 2
  MaxConcurrent = 2
  MaxRetries = 1
  MaxFailures = 2
INVARIANTS TypeOK NobodyForgotten StopMeetsNobody
PROPERTIES ImplementsPromise EveryoneAnswered StopReturns
CHECK_DEADLOCK FALSE
