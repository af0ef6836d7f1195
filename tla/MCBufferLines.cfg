SPECIFICATION FairSpec
CONSTANTS
  Modes = {TRUE}
  Units = {0, 1, 2, 3}
  BufSize = 3
  UninitLines = {0}
  MaxBytes = 8
INVARIANTS
  Inv
  TailIsLastUnits
  AssertBeg
  TailStaysInList
  WalkReadsTail
PROPERTIES
  TailSpec
  AppendReturns
CHECK_DEADLOCK FALSE
