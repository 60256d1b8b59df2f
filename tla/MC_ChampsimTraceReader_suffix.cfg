\* Names whose last dot is followed by a supported first character only.
CONSTANTS
  MinRecs = 1
  MaxRecs = 1
  Cpu = 1
  MaxOut = 1
  Files <- MCFiles
  Names <- EdgeNames
SPECIFICATION Spec
INVARIANT SuffixSelectsReader
CHECK_DEADLOCK FALSE
