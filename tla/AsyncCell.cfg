CONSTANTS
  Cells = {a, b}
  MaxList = 3
SPECIFICATION FairSpec
INVARIANTS OneResult AllInListOrder
PROPERTIES AwaitReturns
CHECK_DEADLOCK FALSE
