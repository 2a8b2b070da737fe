SPECIFICATION Spec
CONSTANTS
  n1 = n1
  n2 = n2
  n3 = n3
  t1 = t1
  t2 = t2
  t3 = t3
  w1 = w1
  w2 = w2
  Node = {n1}
  NodeGpus <- PairNodeGpus
  MigNode = {}
  NetworkGroups <- NoNetwork
  CpuRoom <- Room
  MaxJobs = 2
  MaxBatch = 2
  Training = {t1}
  Workspace = {w1}
  Request = {r1, r2}
  TrainingOf <- DuoTrainingOf
  WorkspaceOf <- OneWorkspace
  Gpus <- DuoGpus
  Want <- AnyNode
  Quota <- DuoQuota
  Guaranteed = {}
  Ops = {"create_job", "stop_jobs", "stop_job", "stop_training", "delete_job", "delete_training"}
  MayExpire = {}
  Faults = {"create", "create_list", "timeout", "restart", "delete"}
INVARIANTS
  TypeOK
  OneItemPerTraining
