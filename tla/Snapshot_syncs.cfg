SPECIFICATION Spec
CONSTANTS
  DiskMax = 3
  Names = {x}
  MaxOps = 4
  MaxSyncs = 2
  MaxBegun = 2
  None = None
INVARIANTS
  TypeOK
  StableIsParity
  SyncedBlocksFrozen
  RebuiltFromSnapshots
CHECK_DEADLOCK FALSE
