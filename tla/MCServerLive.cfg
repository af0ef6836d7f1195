SPECIFICATION LiveSpec
CONSTANTS
  c1 = c1
  c2 = c2
  Clients = {c1, c2}
  Files = {TRUE}
  Waits = {FALSE, TRUE}
  Blocks = {FALSE, TRUE}
  Ignores = {FALSE}
  Modes = {FALSE}
  NewlineSets = {{}}
  Units = {1}
  PartialWrites = FALSE
  ReadSize = 1
  Capacity = 1
  MaxAcceptRetry = 2
  MaxBytes = 1
  MaxFailures = 1
PROPERTIES
  
  ClientIsServed
  InterruptEnds
CHECK_DEADLOCK FALSE
