SPECIFICATION Spec
CONSTANTS
  RowUid <- MCOneRow
  TsN = 2
  TsL = 2
  TsK = 4
  MaxTurns = 3
  ResponseLength = 6
  Lengths = {0, 2}
  ObsLengths = {1}
  Unset = Unset
INVARIANTS TypeOK KFinishedLeaves RewardOnOwnTurn
CHECK_DEADLOCK FALSE
