CONSTANTS
  Builds = {b1, b2, b3}
  index = index
  util = util
  Paths <- TwoPaths
  PathOf <- FirstIsLast
  None = None
  MaxOutputs = 3
  MaxFaults = 1
  MaxCrashes = 2
SPECIFICATION Spec
INVARIANT VersionKept
PROPERTIES EndsWell
CHECK_DEADLOCK FALSE
