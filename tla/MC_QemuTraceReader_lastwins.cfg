\* Traces where an instruction is followed by a load and then a store.
CONSTANTS
  DataShapes <- LoadStore
  OtherKinds = {66}
  Files <- MCFiles
  InsnShapes <- CoreInsns
  HeadMarkers = {190}
  HeadKinds = {63}
  MaxTail = 4
  CutLast = {FALSE}
SPECIFICATION Spec
INVARIANT MemOperandLastWins
CHECK_DEADLOCK FALSE
