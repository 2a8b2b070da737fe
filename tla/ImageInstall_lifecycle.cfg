SPECIFICATION FairSpec
CONSTANTS
  MaxImages = 3
  MaxQueue = 2
  MaxRestarts = 1
  Workspace = {w1}
  Request = {r1}
  BuiltIn <- MCBuiltIn
  Original <- MCOriginal
  Faults = {"install", "check_push", "check_list", "remove"}
INVARIANTS
  TypeOK
  InstallingIsReal
  InstallUndisturbed
  ReadyInRegistry
PROPERTIES
  StatusMoves
  PendingSettles
  DeletingGoes
CHECK_DEADLOCK FALSE
