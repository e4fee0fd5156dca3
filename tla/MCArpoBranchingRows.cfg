SPECIFICATION FairSpec
CONSTANTS
  p1 = p1
  p2 = p2
  RowPrompt <- MCRowPrompt
  NRollouts = 3
  InitialRollouts = 1
  BeamSize = 2
  MaxTurns = 2
INVARIANTS
  RowsMatchPrompts
CHECK_DEADLOCK FALSE
