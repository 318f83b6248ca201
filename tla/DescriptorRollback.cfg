CONSTANTS
  Procs = {p1, p2}
  Units = {u1, u2}
  Map = Map
  None = None
  MaxFaults = 1
  MaxCrashes = 0
SPECIFICATION Spec
INVARIANT FailureTouchesNothing
CHECK_DEADLOCK FALSE
