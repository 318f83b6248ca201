CONSTANTS
  Calls = {c1, c2, c3}
  MaxPools = 2
  Sizes = {0, 1, 2}
  StrayTokens = {1}
SPECIFICATION FairSpec
INVARIANT PoolSound
PROPERTIES ImplementsPool AwaitReturns
CHECK_DEADLOCK FALSE
