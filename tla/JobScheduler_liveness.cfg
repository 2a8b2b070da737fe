SPECIFICATION FairSpec
CONSTANTS
  n1 = n1
  n2 = n2
  n3 = n3
  t1 = t1
  t2 = t2
  t3 = t3
  w1 = w1
  w2 = w2
  Node = {n1, n2}
  NodeGpus <- ExpiryNodeGpus
  MigNode = {n1}
  NetworkGroups <- NoNetwork
  CpuRoom <- Room
  MaxJobs = 5
  MaxBatch = 1
  Training = {t1, t2, t3}
  Workspace = {w1, w2}
  Request = {r1}
  TrainingOf <- ExpiryTrainingOf
  WorkspaceOf <- ExpiryWorkspaceOf
  Gpus <- ExpiryGpus
  Want <- ExpiryWant
  Quota <- ExpiryQuota
  Guaranteed = {w1}
  Ops = {"create_job"}
  MayExpire = {w1, w2}
  Faults = {}
PROPERTIES
  ExpiredStopped
  EndedCollected
  QueuedLeaves
