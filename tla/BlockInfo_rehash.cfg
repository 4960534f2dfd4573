SPECIFICATION Spec
CONSTANTS
  DiskMax = 2
  PosMax = 2
  Percents = {}
  MinAge = 1
  MaxRuns = 3
  MaxKind = 2
  None = None
INVARIANT
  RepHashesKnown
CHECK_DEADLOCK FALSE
