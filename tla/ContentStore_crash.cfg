SPECIFICATION Spec
CONSTANTS
  CopyMax = 3
  MaxVersion = 3
  MaxCrash = 2
  SizeMax = 2
INVARIANTS
  TypeOK
  CopiesValid
  OlderCopiesLookTheSame
PROPERTIES
  LoadsLatest
  ImplementsAtomic
CHECK_DEADLOCK FALSE
