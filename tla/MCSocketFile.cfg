SPECIFICATION FairSpec
CONSTANTS
  s1 = s1
  s2 = s2
  s3 = s3
  c1 = c1
  c2 = c2
  Servers = {s1, s2, s3}
  Clients = {c1, c2}
  NoFile = NoFile
INVARIANTS
  StaysReachable
PROPERTIES
  TakenOnceDeleted
  LeavesNoFile
CHECK_DEADLOCK FALSE
