CONSTANTS
  MaxSize = 4
  Cap = 8
  LeaseTokens = {1, 2, 3, 4, 5, 6, 9}
  AskedTokens = {0, 1, 2, 3, 4, 5, 6, 7, 9}
  Home <- HashSlot
SPECIFICATION TableSpec
INVARIANTS TableSound LengthExact AddNeverFails
PROPERTIES ImplementsSet
