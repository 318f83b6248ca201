CONSTANTS
  Procs = {p1, p2, p3}
  Units = {u1, u2}
  Map = Map
  None = None
  MaxFaults = 1
  MaxCrashes = 1
SPECIFICATION Spec
SYMMETRY Symmetry
CONSTRAINT KeptApart
INVARIANTS MapTellsTruth EndsWell
CHECK_DEADLOCK FALSE
