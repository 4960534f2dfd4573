SPECIFICATION SpecRecovery
CONSTANTS
  DiskMax = 2
  LevelMax = 2
  PosMax = 1
  Names = {x}
  Values = {a, b}
  Zero = Zero
  Invalid = Invalid
  Garbage = Garbage
  NoName = NoName
  NoParity = NoParity
  MaxOps = 2
  MaxCrash = 2
  MaxFix = 2
  ForceFull = FALSE
  ForceEmpty = TRUE
  Autosave = TRUE
  IoErrors = FALSE
SYMMETRY Symmetric
INVARIANTS
  RecoveryTypeOK
  RecoveredIsGenuine
  SyncedBlocksRecovered
  FixRestoresParity
CHECK_DEADLOCK FALSE
