CONSTANTS
  Ids = {0, 1, 2, 3, 5}
  Window = 4
  MaxWindow = 5
  MaxBody = 6
  MaxFragments = 2
  MaxConcurrent = 2
  MaxRequests = 3
  Lengths = {0, 3}
  Increments = {0, 2}
  PeerWindows = {1, 4}
  Replies = {1, 3}
SPECIFICATION Spec
INVARIANTS StreamsSound ReceiveWindows NeverOversends
PROPERTIES ResponsesFit
CHECK_DEADLOCK FALSE
