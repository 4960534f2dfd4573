SPECIFICATION Spec
CONSTANTS
  DiskMax = 2
  LevelMax = 1
  PosMax = 1
  Names = {x}
  Values = {a, b}
  Zero = Zero
  Invalid = Invalid
  Garbage = Garbage
  NoName = NoName
  MaxOps = 3
  MaxCrash = 0
  ForceFull = FALSE
  ForceEmpty = TRUE
  Autosave = TRUE
  IoErrors = FALSE
  NoParity = NoParity
SYMMETRY Symmetric
INVARIANTS
  ErrorsMarkedBad
