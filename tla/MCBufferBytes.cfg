SPECIFICATION FairSpec
CONSTANTS
  Modes = {FALSE}
  Units <- BytesUnits
  BufSize = 3
  UninitLines = {0, 1}
  MaxBytes = 20
INVARIANTS
  TailIsLastUnits
  WalkReadsTail
  BlocksAccounted
  BytesTailBounded
CHECK_DEADLOCK FALSE
