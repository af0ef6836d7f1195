SPECIFICATION Spec
CONSTANTS
  Programs = {"tailserver", "tailclient"}
  Numbers <- SomeNumbers
  Suffixes <- SomeSuffixes
  UINTMAX_MAX = 255
  Kibi = 4
  Kilo = 3
  Block = 2
  DEFAULT_N_LINES = 10
  MaxOptions = 2
  HelpLength = 3
  VersionLength = 1
  BufferLength = 1
INVARIANTS
  TypeOK
  UnitsAreMeant
  RefusedForAReason
  StatusTellsLoss
CHECK_DEADLOCK FALSE
