CONSTANTS
  Procs = {p1, p2, p3}
  Units = {u1}
  Map = Map
  None = None
  MaxFaults = 0
  MaxCrashes = 0
SPECIFICATION Spec
INVARIANT OneBuilder
CHECK_DEADLOCK FALSE
