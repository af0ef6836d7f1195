SPECIFICATION FairSpec
CONSTANTS
  Follows = {FALSE, TRUE}
  Reopens = {FALSE, TRUE}
  Waits = {FALSE, TRUE}
  Modes = {FALSE}
  NewlineSets = {{}}
  Units = {1}
  Tails = {2}
  Base = 2
  Lengths = {FALSE}
  Sane = {FALSE, TRUE}
  ReadSize = 3
  MaxBytes = 3
  MaxFailures = 1
  MaxConns = 2
PROPERTIES
  FollowerGetsTail
  EndsWithoutFollow
  Reconnects
CHECK_DEADLOCK FALSE
