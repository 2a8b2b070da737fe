SPECIFICATION Spec
CONSTANTS
  n1 = n1
  n2 = n2
  n3 = n3
  t1 = t1
  t2 = t2
  t3 = t3
  w1 = w1
  w2 = w2
  Node = {n1}
  NodeGpus <- PairNodeGpus
  MigNode = {}
  NetworkGroups <- NoNetwork
  CpuRoom <- Room
  MaxJobs = 3
  MaxBatch = 2
  Training = {t1, t2}
  Workspace = {w1}
  Request = {r1, r2}
  TrainingOf <- PairTrainingOf
  WorkspaceOf <- OneWorkspace
  Gpus <- PairGpus
  Want <- AnyNode
  Quota <- PairQuota
  Guaranteed = {}
  Ops = {"create_job", "delete_training"}
  MayExpire = {}
  Faults = {}
PROPERTIES
  OnlyStoppedDeleted
