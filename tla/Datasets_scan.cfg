SPECIFICATION FairSpec
CONSTANTS
  w1 = w1
  w2 = w2
  a = a
  b = b
  r1 = r1
  r2 = r2
  p1 = p1
  p2 = p2
  Workspace = {w1, w2}
  Place <- Places
  Inode = {i1, i2}
  Process = {p1, p2}
  Request = {r1, r2}
  ProcessOf <- TwoProcesses
  MaxIds = 6
  MaxRequests = 4
INVARIANTS
  TypeOK
PROPERTIES
  QuietListSettles
  ListForgetsOnlyTouched
  QuietSyncAligns
  WorkspaceSyncEnds
CHECK_DEADLOCK FALSE
