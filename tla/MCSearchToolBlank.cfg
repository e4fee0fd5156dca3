SPECIFICATION Spec
CONSTANTS
  c1 = c1
  c2 = c2
  c3 = c3
  c4 = c4
  Calls = {c1}
  Asked <- MCBlankAsked
  KArg <- MCBlankKArg
  DefaultK = 2
  MaxAttempts = 3
  IndexSize = 2
INVARIANTS AnswersAligned
CHECK_DEADLOCK FALSE
