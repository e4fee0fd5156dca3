SPECIFICATION FairSpec
CONSTANTS
  RowUid <- MCTwoRows
  TsN = 1
  TsL = 1
  TsK = 2
  MaxTurns = 2
  ResponseLength = 9
  Lengths = {1}
  ObsLengths = {1}
  Unset = Unset
INVARIANTS NodeIdsUnique OutputsAligned
PROPERTIES RolloutEnds
CHECK_DEADLOCK FALSE
