SPECIFICATION Spec
CONSTANTS
  n1 = n1
  n2 = n2
  n3 = n3
  t1 = t1
  t2 = t2
  d1 = d1
  w1 = w1
  w2 = w2
  Node = {n1, n2, n3}
  NodeGpus <- Hosts
  MigNode = {}
  NetworkGroups <- Networks
  CpuRoom <- Room
  Tool = {t1, t2}
  Deployment = {d1}
  Workspace = {w1, w2}
  Request = {r1, r2}
  MaxWorkers = 3
  MaxRequests = 4
  DeploymentOf <- WorkersOf
  WorkspaceOf <- Workspaces
  Gpus <- Asks
  Allowed <- Anywhere
  TrainingQuota <- Training
  DeploymentQuota <- Deploying
  Guaranteed = {w2}
  Ops = {"start_tool", "stop_tool", "add_worker", "stop_worker", "delete_worker", "stop_deployment", "delete_deployment"}
  Faults = {"create", "timeout", "list", "folder"}
SYMMETRY Alike
INVARIANTS
  TypeOK
  EveryPodListed
  NodeNotOversubscribed
  QuotasHeld
  GuaranteeHeld
PROPERTIES
  StopSparesOthers
