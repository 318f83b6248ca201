CONSTANTS
  Calls = {c1, c2}
  MaxStates = 2
  Sizes = {0, 1}
  StrayTokens = {}
  Cancellable = {c2}
  Starved = {}
  MayFail = FALSE
SPECIFICATION Spec
INVARIANT PoolAnswers
CHECK_DEADLOCK FALSE
