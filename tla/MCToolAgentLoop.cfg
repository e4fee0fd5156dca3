SPECIFICATION Spec
CONSTANTS
  PromptLength = 2
  ResponseLength = 8
  MaxModelLen = 11
  MaxAssistantTurns = 4
  MaxUserTurns = 4
  MaxParallelCalls = 2
  PromptLengths = {1, 2}
  BlockLengths = {1, 3}
  CallCounts = {0, 1, 2, 3}
INVARIANTS
  TypeOK
  TokensAligned
  RewardOnGenerated
  StepsMeetTheirData
CHECK_DEADLOCK FALSE
