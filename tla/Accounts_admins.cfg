SPECIFICATION Spec
CONSTANTS
  Name = {n1, n2}
  Uid = {u1, u2, u3}
  Request = {r1, r2, r3}
  MaxIds = 4
  MaxRequests = 5
  MaxRestarts = 1
  Faults = {"database", "workspace"}
SYMMETRY Alike
INVARIANTS
  TypeOK
  SavedWhenIdle
PROPERTIES
  QuietRecoveryRestores
CHECK_DEADLOCK FALSE
