SPECIFICATION FairSpec
CONSTANTS
  Modes = {TRUE}
  Units = {0, 1}
  BufSize = 3
  UninitLines = {0, 1}
  MaxBytes = 4
INVARIANTS
  AssertBeg
CHECK_DEADLOCK FALSE
