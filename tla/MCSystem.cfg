SPECIFICATION SystemFairSpec
CONSTANTS
  me = me
  Clients = {me}
  Files = {TRUE}
  Waits = {FALSE}
  Blocks = {TRUE}
  Ignores = {FALSE}
  Modes = {FALSE}
  Units = {2}
  NewlineSets = {{2, 3}}
  PartialWrites = FALSE
  ReadSize = 2
  Capacity = 2
  MaxAcceptRetry = 1
  MaxBytes = 3
  MaxFailures = 0
  Base = 2
  Follows = {FALSE, TRUE}
  FileWaits = {TRUE}
  ClientModes = {TRUE}
  ClientUnits = {1}
  ClientReadSize = 4
  MaxClientFailures = 0
PROPERTIES
  PrintsTheStream
  FollowerKeepsUp
  TailIsGot
CHECK_DEADLOCK FALSE
