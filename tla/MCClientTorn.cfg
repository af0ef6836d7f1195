SPECIFICATION Spec
CONSTANTS
  Follows = {TRUE}
  Reopens = {TRUE}
  Waits = {FALSE}
  Modes = {FALSE}
  NewlineSets = {{}}
  Units = {3}
  Tails = {2}
  Base = 2
  Lengths = {FALSE}
  Sane = {TRUE}
  ReadSize = 3
  MaxBytes = 2
  MaxFailures = 0
  MaxConns = 2
PROPERTIES
  PrintsOfferedTail
CHECK_DEADLOCK FALSE
