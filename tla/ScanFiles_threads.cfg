SPECIFICATION Spec
CONSTANTS
  DiskMax = 2
  Paths = {p, q}
  Inodes = {i1, i2}
  MaxOps = 2
  None = None
SYMMETRY Symmetric
INVARIANTS
  TypeOK
  SourceAlive
  SetsConsistent
  SeenIsRecorded
  CopiesFound
CHECK_DEADLOCK FALSE
