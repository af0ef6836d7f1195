SPECIFICATION FairSpec
CONSTANTS
  Follows = {FALSE}
  Reopens = {FALSE}
  Waits = {FALSE}
  Modes = {FALSE}
  NewlineSets = {{}}
  Units = {1}
  Tails = {1}
  Base = 2
  Lengths = {FALSE}
  Sane = {TRUE}
  ReadSize = 3
  MaxBytes = 1
  MaxFailures = 0
  MaxConns = 1
PROPERTIES
  TailGetsPrinted
CHECK_DEADLOCK FALSE
