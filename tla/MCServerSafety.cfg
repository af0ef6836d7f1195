SPECIFICATION LaunchSpec
CONSTANTS
  c1 = c1
  c2 = c2
  Clients = {c1, c2}
  Files = {FALSE, TRUE}
  Waits = {FALSE, TRUE}
  Blocks = {FALSE, TRUE}
  Ignores = {TRUE}
  Modes = {FALSE}
  NewlineSets = {{}}
  Units = {2}
  PartialWrites = TRUE
  ReadSize = 2
  Capacity = 2
  MaxAcceptRetry = 2
  MaxBytes = 3
  MaxFailures = 1
SYMMETRY ClientSymmetry
INVARIANTS
  TypeOK
  ClientsGetTheStream
  NobodyIsLeftBehind
  StdoutComesFirst
  WaitsForFirstClient
  NoUseAfterFree
  EndsCleanly
PROPERTIES
  RelaySpec
  BlocksForever
CHECK_DEADLOCK FALSE
