SPECIFICATION Spec
CONSTANTS
  DiskMax = 2
  PosMax = 2
  Percents = {0, 833, 5000}
  MinAge = 1
  MaxRuns = 4
  MaxKind = 2
  None = None
INVARIANTS
  TypeOK
  SavedHashesKnown
  BadUntilRepaired
  OldestFirst
CHECK_DEADLOCK FALSE
