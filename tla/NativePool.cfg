CONSTANTS
  Calls = {c1, c2, c3}
  MaxStates = 3
  Sizes = {1, 2}
  StrayTokens = {1}
  Cancellable = {c1}
  Starved = {1}
  MayFail = TRUE
SPECIFICATION FairSpec
INVARIANTS TypeOK Capacity TokensApart LeasesAccounted WaitingCounted NoLostWakeup
PROPERTIES SettledOnce ImplementsPool EveryAcquireSettles
CHECK_DEADLOCK FALSE
