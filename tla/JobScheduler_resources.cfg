SPECIFICATION Spec
CONSTANTS
  n1 = n1
  n2 = n2
  n3 = n3
  t1 = t1
  t2 = t2
  t3 = t3
  w1 = w1
  w2 = w2
  Node = {n1, n2, n3}
  NodeGpus <- ModelNodeGpus
  MigNode = {n1}
  NetworkGroups <- ModelNetworks
  CpuRoom <- Room
  MaxJobs = 5
  MaxBatch = 2
  Training = {t1, t2, t3}
  Workspace = {w1, w2}
  Request = {r1}
  TrainingOf <- ModelTrainingOf
  WorkspaceOf <- ModelWorkspaceOf
  Gpus <- ModelGpus
  Want <- ModelWant
  Quota <- ModelQuota
  Guaranteed = {w1}
  Ops = {"create_job"}
  MayExpire = {}
  Faults = {"list", "create", "restart", "delete"}
INVARIANTS
  WithinQuota
  GuaranteeHeld
PROPERTIES
  NoOvertaking
