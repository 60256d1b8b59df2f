\* Both reader classes built from supported and unsupported names, traces of
\* 0..3 records, 7 calls: two passes over a 3-record trace and the restart twice.
CONSTANTS
  MinRecs = 0
  MaxRecs = 3
  Cpu = 1
  MaxOut = 7
  Files <- MCFiles
  Names <- MCNames
SPECIFICATION Spec
INVARIANT TypeOK
INVARIANT DecompressorMatchesReader
PROPERTY ImplementsLookaheadStream
\* the consumer stops calling get() when its instruction budget is spent
CHECK_DEADLOCK FALSE
