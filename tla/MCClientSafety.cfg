SPECIFICATION Spec
CONSTANTS
  Follows = {FALSE, TRUE}
  Reopens = {FALSE, TRUE}
  Waits = {FALSE}
  Modes = {FALSE, TRUE}
  NewlineSets = {{2, 3, 5}}
  Units = {2}
  Tails = {4}
  Base = 2
  Lengths = {FALSE, TRUE}
  Sane = {FALSE, TRUE}
  ReadSize = 4
  MaxBytes = 5
  MaxFailures = 1
  MaxConns = 2
INVARIANTS
  TypeOK
  SizeLineNeverOverruns
  PrintsWhatItReads
PROPERTIES
  FollowMovesForward
CHECK_DEADLOCK FALSE
