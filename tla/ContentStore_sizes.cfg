SPECIFICATION Spec
CONSTANTS
  CopyMax = 3
  MaxVersion = 2
  MaxCrash = 1
  SizeMax = 2
INVARIANT
  CopiesCoverParity
CHECK_DEADLOCK FALSE
