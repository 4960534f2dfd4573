SPECIFICATION Spec
CONSTANTS
  DiskMax = 2
  LevelMax = 2
  PosMax = 1
  Names = {x}
  Values = {a, b}
  Zero = Zero
  Invalid = Invalid
  Garbage = Garbage
  NoName = NoName
  MaxOps = 2
  MaxCrash = 1
  ForceFull = FALSE
  ForceEmpty = FALSE
  Autosave = TRUE
  IoErrors = TRUE
  NoParity = NoParity
INVARIANTS
  TypeOK
  SavedInfoComplete
  SavedParityHolds
  SuccessMeansSynced
PROPERTIES
  NoLaundering
  RunsEnd
