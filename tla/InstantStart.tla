----------------------------- MODULE InstantStart -----------------------------
(***************************************************************************)
(* What starts at once or not at all: training tools (training_tool.py)    *)
(* and deployment workers (deployment_worker.py, deployment.py).  Their    *)
(* handlers choose a node under jf_scheduler_lock from the list of pods    *)
(* that KubeData (utils/kube.py) shares between the worker processes; they *)
(* stop without the lock, and the stop of a deployment worker refreshes    *)
(* that shared list all the same.                                          *)
(*                                                                         *)
(* The shared list is two entries of a manager's dictionary: the bytes of  *)
(* the last list and, written only when every kind of object was listed,   *)
(* its resource version.  A process reads the bytes only if the version is *)
(* not that of the list it has in memory.                                  *)
(***************************************************************************)
EXTENDS Placement

CONSTANTS
  Tool, Deployment, Workspace,
  Request,          \* the web processes, each serving one request at a time
  MaxWorkers,       \* bound on the worker ids ever handed out
  MaxRequests,      \* bound on the requests ever made
  DeploymentOf,     \* the deployment a worker id belongs to
  WorkspaceOf,      \* the workspace of a tool or deployment
  Gpus,             \* the GPUs of a tool, and of each worker of a deployment
  Allowed,          \* the nodes of its gpu_model, all of them by default
  TrainingQuota, DeploymentQuota,   \* the GPUs of a workspace, by usage
  Guaranteed,       \* the workspaces whose quota is guaranteed
  Ops,              \* the requests clients send
  Faults            \* the faults that happen

Worker == 1 .. MaxWorkers
Owner == Tool \cup Deployment     \* what has a workspace, GPUs and services
Item == Tool \cup Worker          \* what has a pod

OpKinds ==
  {"start_tool", "stop_tool", "add_worker", "stop_worker",
   "delete_worker", "stop_deployment", "delete_deployment"}
FaultKinds ==
  {"create",        \* a pod creation is refused
   "timeout",       \* a pod creation raises although the pod was created
   "list",          \* a refresh fails: before or after it wrote the pod list
   "folder"}        \* the folder of a deployment cannot be removed

(* Who holds the lock, when it is not a request.                           *)
NoLock == "free"
Scheduler == "scheduler"

ASSUME InstantStartAssumption ==
  /\ MaxWorkers \in Nat /\ MaxRequests \in Nat
  /\ (Tool \cup Deployment) \cap Worker = {} /\ Tool \cap Deployment = {}
  /\ {NoLock, Scheduler} \cap Request = {}
  /\ DeploymentOf \in [Worker -> Deployment]
  /\ WorkspaceOf \in [Owner -> Workspace]
  /\ Gpus \in [Owner -> Nat]
  /\ Allowed \in [Owner -> SUBSET Node]
  /\ TrainingQuota \in [Workspace -> Nat] /\ DeploymentQuota \in [Workspace -> Nat]
  /\ Guaranteed \subseteq Workspace /\ IsFiniteSet(Guaranteed)
  /\ Ops \subseteq OpKinds
  /\ Faults \subseteq FaultKinds

VARIABLES
  deployments,   \* rows of table deployment
  workers,       \* rows of table deployment_worker
  lastId,        \* the auto-increment counter of that table
  pods,          \* the pods of tools and workers in the cluster
  services,      \* the tools and deployments whose services exist
  revision,      \* counts the changes to pods: their resource version
  bytes,         \* kube_share_dict[POD_LIST_KEY]
  version,       \* kube_share_dict["resource_version"][POD_LIST_KEY]
  memory,        \* KubeData.pod_list of each process
  lock,          \* who holds jf_scheduler_lock
  tick,          \* the scheduler's refresh
  req,           \* the API request each process is serving
  made,          \* the requests made so far
  missed         \* history: some creation may be missing from a list: its
                 \* refresh was left out or failed, or an unlocked one ran

db == <<deployments, workers, lastId>>
cluster == <<pods, services, revision>>
share == <<bytes, version>>
vars == <<db, cluster, share, memory, lock, tick, req, made, missed>>

Pod == [item : Item, node : Node, gpus : Nat]
List == [version : Nat, pods : SUBSET Pod]

OwnerOf(i) == IF i \in Tool THEN i ELSE DeploymentOf[i]
PodsOf(S, o) == {p \in S : OwnerOf(p.item) = o}
PodsFor(S, i) == {p \in S : p.item = i}

------------------------------------------------------------------------------
(* The list as a process sees it: get_pod_list                             *)

(* Mutant: the memory copy is used once there is one.                      *)
ViewKept(p) == IF memory[p].version # 0 THEN memory[p] ELSE bytes
View(p) == IF memory[p].version = version THEN memory[p] ELSE bytes

Listed(r) == View(r).pods
Read(r) == memory' = [memory EXCEPT ![r] = View(r)]

------------------------------------------------------------------------------
(* Whether and where an item may start                                     *)
(* (check_immediate_running_item_resource_new)                             *)

QuotaOf(o) ==
  IF o \in Tool THEN TrainingQuota[WorkspaceOf[o]]
                ELSE DeploymentQuota[WorkspaceOf[o]]

SameUsage(o, i) == (o \in Tool) = (i \in Tool)

GpusOf(S) == MapThenSumSet(LAMBDA p : p.gpus, S)

UsedOfQuota(view, o) ==
  GpusOf({p \in view : /\ WorkspaceOf[OwnerOf(p.item)] = WorkspaceOf[o]
                       /\ SameUsage(o, p.item)})

(* check_workspace_resource: tools and workers have a quota each.          *)
(* Mutant: it is not exceeded yet.                                         *)
InQuotaBefore(view, o) == QuotaOf(o) - UsedOfQuota(view, o) >= 0
InQuota(view, o) == QuotaOf(o) - UsedOfQuota(view, o) >= Gpus[o]

(* check_guarantee_resource: others leave the guaranteed workspaces what   *)
(* they have not used of their two quotas.                                 *)
(* Mutant: any free GPU will do.                                           *)
FreeGpus(view) == MapThenSumSet(LAMBDA n : NodeGpus[n], Node) - GpusOf(view)
StillGuaranteed(view) ==
  MapThenSumSet(LAMBDA w : TrainingQuota[w] + DeploymentQuota[w], Guaranteed)
    - GpusOf({p \in view : WorkspaceOf[OwnerOf(p.item)] \in Guaranteed})
GuaranteeAnyFree(view, o) ==
  WorkspaceOf[o] \in Guaranteed \/ FreeGpus(view) >= Gpus[o]
GuaranteeKept(view, o) ==
  WorkspaceOf[o] \in Guaranteed \/ FreeGpus(view) - StillGuaranteed(view) >= Gpus[o]

(* One GPU comes from a MIG slice, if one is free, or a general node; more *)
(* come from general nodes, from several if need be.                       *)
Gangs(view, o) ==
  LET mig == IntraGangs(view, Allowed[o] \cap MigNode, 1)
  IN  IF Gpus[o] = 0 THEN CpuGangs(view)
      ELSE IF Gpus[o] = 1 /\ mig # {} THEN mig
      ELSE GpuGangs(view, Allowed[o] \ MigNode, Gpus[o])

Admitted(view, o) ==
  Gpus[o] = 0 \/ (InQuota(view, o) /\ GuaranteeKept(view, o))

(* The gangs a view admits; none when the item may not start.              *)
Found(view, o) == IF Admitted(view, o) THEN Gangs(view, o) ELSE {}

(* A tool wants one node.  A worker takes the first of the gang and with   *)
(* it only the GPUs of that node (node_info_list[0]).                      *)
Places(view, o) ==
  {g[1] : g \in {h \in Found(view, o) : o \in Deployment \/ Len(h) = 1}}

------------------------------------------------------------------------------
Empty == [version |-> 0, pods |-> {}]
NoRequest == [pc |-> "none"]
NoTick == [pc |-> "none"]

Init ==
  /\ deployments = Deployment
  /\ workers = {}
  /\ lastId = 0
  /\ pods = {}
  /\ services = {}
  /\ revision = 0
  /\ bytes = Empty
  /\ version = 0
  /\ memory = [r \in Request |-> Empty]
  /\ lock = NoLock
  /\ tick = NoTick
  /\ req = [r \in Request |-> NoRequest]
  /\ made = 0
  /\ missed = FALSE

Become(r, q) == req' = [req EXCEPT ![r] = q]
Answer(r) == Become(r, NoRequest)
Goto(r, at) == Become(r, [req[r] EXCEPT !.pc = at])

(* A request comes in.                                                     *)
Open(r, op) ==
  /\ op \in Ops
  /\ req[r].pc = "none"
  /\ made < MaxRequests
  /\ made' = made + 1

LockFree == lock = NoLock

DeletePods(S) ==
  /\ pods' = pods \ S
  /\ revision' = IF pods \cap S = {} THEN revision ELSE revision + 1

------------------------------------------------------------------------------
(* update_all_list                                                         *)

(* The steps of a refresh x: the API is asked for the pods; the bytes are  *)
(* shared and their version read back; that version is shared once         *)
(* services, ingresses and nodes were listed too.                          *)
Asked == [pc |-> "ask", list |-> Empty]

Answered(x) == [x EXCEPT !.pc = "write", !.list = [version |-> revision, pods |-> pods]]
Written(x) == [x EXCEPT !.pc = "publish", !.list.pods = {}]

(* The scheduler's pass: it refreshes under the lock, once a second, and   *)
(* starts jobs (module JobScheduler).  A refresh that fails is swallowed.  *)
TickStart ==
  /\ LockFree
  /\ lock' = Scheduler
  /\ tick' = Asked
  /\ UNCHANGED <<db, cluster, share, memory, req, made, missed>>

TickRefresh ==
  /\ lock = Scheduler
  /\ \/ tick.pc = "ask" /\ tick' = Answered(tick) /\ UNCHANGED bytes
     \/ tick.pc = "write" /\ tick' = Written(tick) /\ bytes' = tick.list
  /\ UNCHANGED <<db, cluster, version, memory, lock, req, made, missed>>

TickEnd ==
  /\ lock = Scheduler
  /\ \/ tick.pc = "publish" /\ version' = tick.list.version
     \/ "list" \in Faults /\ UNCHANGED version
  /\ tick' = NoTick
  /\ lock' = NoLock
  /\ UNCHANGED <<db, cluster, bytes, memory, req, made, missed>>

(* The refresh of a request: of the creator of a pod, with the lock, and   *)
(* of the stop of a deployment worker, without.                            *)
RefreshPcs == {"ask", "write", "publish"}
StartRefresh(r, op, i) ==
  Become(r, [pc |-> "ask", op |-> op, item |-> i, list |-> Empty])

Refresh(r) ==
  /\ req[r].pc \in RefreshPcs
  /\ \/ req[r].pc = "ask" /\ Become(r, Answered(req[r])) /\ UNCHANGED bytes
     \/ req[r].pc = "write" /\ Become(r, Written(req[r])) /\ bytes' = req[r].list
  /\ UNCHANGED <<db, cluster, version, memory, lock, tick, made, missed>>

(* Only the failure of a creator's refresh leaves a pod unseen.            *)
EndRefresh(r) ==
  /\ req[r].pc \in RefreshPcs
  /\ \/ /\ req[r].pc = "publish"
        /\ version' = req[r].list.version
        /\ UNCHANGED missed
     \/ /\ "list" \in Faults
        /\ missed' = (missed \/ lock = r)
        /\ UNCHANGED version
  /\ lock' = IF lock = r THEN NoLock ELSE lock
  /\ IF req[r].op = "delete_worker" THEN Goto(r, "delete_row") ELSE Answer(r)
  /\ UNCHANGED <<db, cluster, bytes, memory, tick, made>>

------------------------------------------------------------------------------
(* Starting.  The lock is held from the check to the end of the refresh.   *)

Starting(r, at, op, i) == Become(r, [pc |-> at, op |-> op, item |-> i, place |-> {}])
Refuse(r) == Answer(r) /\ lock' = NoLock

(* run_training_tool looks for a pod of the tool before it takes the lock. *)
OpenStartTool(r, t) ==
  /\ Open(r, "start_tool")
  /\ Read(r)
  /\ PodsFor(Listed(r), t) = {}
  /\ Starting(r, "check", "start_tool", t)
  /\ UNCHANGED <<db, cluster, share, lock, tick, missed>>

(* add_deployment_worker_with_run reads the deployment first.              *)
OpenAddWorker(r, d) ==
  /\ Open(r, "add_worker")
  /\ d \in deployments
  /\ Starting(r, "admit", "add_worker", d)
  /\ UNCHANGED <<db, cluster, share, memory, lock, tick, missed>>

(* Under the lock: a row for the worker, if there is room for it; ids are  *)
(* handed out in increasing order.  The insert fails without a deployment. *)
AddRow(r, w) ==
  /\ req[r].pc = "admit"
  /\ LockFree
  /\ Read(r)
  /\ w > lastId /\ DeploymentOf[w] = req[r].item
  /\ Found(Listed(r), req[r].item) # {}
  /\ req[r].item \in deployments
  /\ workers' = workers \cup {w}
  /\ lastId' = w
  /\ lock' = r
  /\ Starting(r, "check", "add_worker", w)
  /\ UNCHANGED <<deployments, cluster, share, tick, made, missed>>

AddRefused(r) ==
  /\ req[r].pc = "admit"
  /\ LockFree
  /\ Read(r)
  /\ Found(Listed(r), req[r].item) = {} \/ req[r].item \notin deployments
  /\ Answer(r)
  /\ UNCHANGED <<db, cluster, share, lock, tick, made, missed>>

HoldsOrTakes(r) == lock = (IF req[r].op = "add_worker" THEN r ELSE NoLock)

(* The place is chosen, for a worker after a second check; a tool's        *)
(* services are created anew, those of a deployment if there are none.     *)
Choose(r) ==
  /\ req[r].pc = "check"
  /\ HoldsOrTakes(r)
  /\ Read(r)
  /\ \E g \in Places(Listed(r), OwnerOf(req[r].item)) :
       Become(r, [req[r] EXCEPT !.pc = "create", !.place = {g}])
  /\ services' = services \cup {OwnerOf(req[r].item)}
  /\ lock' = r
  /\ UNCHANGED <<db, pods, revision, share, tick, made, missed>>

NoPlace(r) ==
  /\ req[r].pc = "check"
  /\ HoldsOrTakes(r)
  /\ Read(r)
  /\ Places(Listed(r), OwnerOf(req[r].item)) = {}
  /\ Refuse(r)
  /\ UNCHANGED <<db, cluster, share, tick, made, missed>>

(* A refresh without the lock that has asked already: it may share a list  *)
(* that lacks the pod, and a process may keep that list in memory.         *)
Underway(q) == lock # q /\ req[q].pc \in RefreshPcs \ {"ask"}

(* Mutant: the pod is created and its refresh is left out.                 *)
CreatePodUnlisted(r) ==
  /\ req[r].pc = "create"
  /\ PodsFor(pods, req[r].item) = {}
  /\ pods' = pods \cup {[item |-> req[r].item, node |-> g.node, gpus |-> g.gpus] :
                          g \in req[r].place}
  /\ revision' = revision + 1
  /\ Refuse(r)
  /\ UNCHANGED <<db, services, share, memory, tick, made, missed>>

(* create_pod.  Pods are named after their item: a second one is refused.  *)
CreatePod(r) ==
  /\ req[r].pc = "create"
  /\ PodsFor(pods, req[r].item) = {}
  /\ pods' = pods \cup {[item |-> req[r].item, node |-> g.node, gpus |-> g.gpus] :
                          g \in req[r].place}
  /\ revision' = revision + 1
  /\ missed' = (missed \/ \E q \in Request : Underway(q))
  /\ StartRefresh(r, req[r].op, req[r].item)
  /\ UNCHANGED <<db, services, share, memory, lock, tick, made>>

(* Services, and the row of a worker, are left behind.                     *)
CreateFails(r) ==
  /\ req[r].pc = "create"
  /\ PodsFor(pods, req[r].item) # {} \/ "create" \in Faults
  /\ Refuse(r)
  /\ UNCHANGED <<db, cluster, share, memory, tick, made, missed>>

(* The call times out after the cluster accepted the pod, or the start     *)
(* time cannot be written after it: the refresh is left out, as well as    *)
(* the removal of the pod.                                                 *)
CreateTimesOut(r) ==
  /\ "timeout" \in Faults
  /\ req[r].pc = "create"
  /\ PodsFor(pods, req[r].item) = {}
  /\ pods' = pods \cup {[item |-> req[r].item, node |-> g.node, gpus |-> g.gpus] :
                          g \in req[r].place}
  /\ revision' = revision + 1
  /\ missed' = TRUE
  /\ Refuse(r)
  /\ UNCHANGED <<db, services, share, memory, tick, made>>

------------------------------------------------------------------------------
(* Stopping, without the lock                                              *)

(* "spared" is history of the stop of a worker: the pods of the other      *)
(* workers of its deployment when the stop begins, unless a list may lack  *)
(* one of them then, because a start has not refreshed yet, or for good.   *)
Refreshing == lock \in Request /\ req[lock].pc \in RefreshPcs
Besides(x) ==
  IF x \notin Worker \/ missed \/ Refreshing THEN {}
  ELSE PodsOf(pods, DeploymentOf[x]) \ PodsFor(pods, x)

Stopping(r, at, op, i, target, found) ==
  Become(r, [pc |-> at, op |-> op, item |-> i, target |-> target,
             found |-> found, served |-> FALSE, spared |-> Besides(i)])

OpenStopTool(r, t) ==
  /\ Open(r, "stop_tool")
  /\ Stopping(r, "list", "stop_tool", t, t, {})
  /\ UNCHANGED <<db, cluster, share, memory, lock, tick, missed>>

OpenStopDeployment(r, d) ==
  /\ Open(r, "stop_deployment")
  /\ d \in deployments
  /\ Stopping(r, "list", "stop_deployment", d, d, {})
  /\ UNCHANGED <<db, cluster, share, memory, lock, tick, missed>>

(* stop_deployment_worker: the last worker, by the shared list, takes the  *)
(* whole deployment with it: its pods, and its services.                   *)
Last(r, w) == Cardinality(PodsOf(Listed(r), DeploymentOf[w])) <= 1

OpenStopWorker(r, w, op) ==
  /\ op \in {"stop_worker", "delete_worker"}
  /\ Open(r, op)
  /\ w \in workers
  /\ Read(r)
  /\ PodsFor(Listed(r), w) # {}
  /\ Stopping(r, "list", op, w, IF Last(r, w) THEN DeploymentOf[w] ELSE w, {})
  /\ UNCHANGED <<db, cluster, share, lock, tick, missed>>

(* A worker without a listed pod is not stopped; it is deleted all the     *)
(* same.                                                                   *)
OpenDeleteStopped(r, w) ==
  /\ Open(r, "delete_worker")
  /\ w \in workers
  /\ Read(r)
  /\ PodsFor(Listed(r), w) = {}
  /\ Stopping(r, "delete_row", "delete_worker", w, w, {})
  /\ UNCHANGED <<db, cluster, share, lock, tick, missed>>

(* kuber_item_remove: the pods, services and ingresses with the label of   *)
(* the target are listed, then deleted by name, the pods first.  (That a   *)
(* deletion fails and is ignored is modelled in JobScheduler.)             *)
Labelled(S, x) == {p \in S : p.item = x \/ OwnerOf(p.item) = x}

ListTarget(r) ==
  /\ req[r].pc = "list"
  /\ Become(r, [req[r] EXCEPT !.pc = "remove",
                              !.found = Labelled(pods, req[r].target),
                              !.served = req[r].target \in services])
  /\ UNCHANGED <<db, cluster, share, memory, lock, tick, made, missed>>

RemovePods(r) ==
  /\ req[r].pc = "remove"
  /\ DeletePods({p \in pods : \E q \in req[r].found : q.item = p.item})
  /\ Goto(r, "unserve")
  /\ UNCHANGED <<db, services, share, memory, lock, tick, made, missed>>

(* Mutant: the services of a worker's deployment go with the worker        *)
(* (no_delete_service is not given).                                       *)
UnserveAll(r) ==
  /\ req[r].pc = "unserve"
  /\ services' = services \ {OwnerOf(p.item) : p \in req[r].found}
  /\ IF req[r].op \in {"stop_worker", "delete_worker"}
       THEN StartRefresh(r, req[r].op, req[r].item)
       ELSE Answer(r)
  /\ UNCHANGED <<db, pods, revision, share, memory, lock, tick, made, missed>>

RemoveServices(r) ==
  /\ req[r].pc = "unserve"
  /\ services' = IF req[r].served THEN services \ {req[r].target} ELSE services
  /\ IF req[r].op \in {"stop_worker", "delete_worker"}
       THEN StartRefresh(r, req[r].op, req[r].item)
       ELSE Answer(r)
  /\ UNCHANGED <<db, pods, revision, share, memory, lock, tick, made, missed>>

DeleteRow(r) ==
  /\ req[r].pc = "delete_row"
  /\ workers' = workers \ {req[r].item}
  /\ Answer(r)
  /\ UNCHANGED <<deployments, lastId, cluster, share, memory, lock, tick, made, missed>>

(* The rows of its workers go with a deployment's row.                     *)
(* Mutant: without the foreign key they stay.                              *)
RowsKept(d) == {}
RowsOf(d) == {w \in workers : DeploymentOf[w] = d}

(* delete_deployment lists the pods, then takes the lock.  Only if the     *)
(* deployment had pods then are its pods and services removed; its row     *)
(* goes unless its folder cannot be removed.                               *)
OpenDeleteDeployment(r, d) ==
  /\ Open(r, "delete_deployment")
  /\ d \in deployments
  /\ Stopping(r, "delete", "delete_deployment", d, d, PodsOf(pods, d))
  /\ UNCHANGED <<db, cluster, share, memory, lock, tick, missed>>

DeleteDeployment(r) ==
  /\ req[r].pc = "delete"
  /\ LockFree
  /\ LET d == req[r].item
     IN  /\ IF req[r].found # {}
              THEN DeletePods(PodsOf(pods, d)) /\ services' = services \ {d}
              ELSE UNCHANGED <<pods, revision, services>>
         /\ \/ /\ deployments' = deployments \ {d}
               /\ workers' = workers \ RowsOf(d)
            \/ "folder" \in Faults /\ UNCHANGED <<deployments, workers>>
  /\ Answer(r)
  /\ UNCHANGED <<lastId, share, memory, lock, tick, made, missed>>

------------------------------------------------------------------------------
Tick == TickStart \/ TickRefresh \/ TickEnd

Client(r) ==
  \/ \E t \in Tool : OpenStartTool(r, t) \/ OpenStopTool(r, t)
  \/ \E d \in Deployment : \/ OpenAddWorker(r, d)
                           \/ OpenStopDeployment(r, d)
                           \/ OpenDeleteDeployment(r, d)
  \/ \E w \in Worker : \/ OpenDeleteStopped(r, w)
                       \/ \E op \in Ops : OpenStopWorker(r, w, op)

Serve(r) ==
  \/ \E w \in Worker : AddRow(r, w)
  \/ AddRefused(r) \/ Choose(r) \/ NoPlace(r)
  \/ CreatePod(r) \/ CreateFails(r) \/ CreateTimesOut(r)
  \/ Refresh(r) \/ EndRefresh(r)
  \/ ListTarget(r) \/ RemovePods(r) \/ RemoveServices(r) \/ DeleteRow(r)
  \/ DeleteDeployment(r)

Next == Tick \/ \E r \in Request : Client(r) \/ Serve(r)

Spec == Init /\ [][Next]_vars

------------------------------------------------------------------------------
(* Type correctness of the rows, the cluster, the shared list and who      *)
(* holds the lock: always a request between its check and its refresh, or  *)
(* the scheduler.                                                          *)
TypeOK ==
  /\ deployments \subseteq Deployment
  /\ workers \subseteq Worker /\ \A w \in workers : DeploymentOf[w] \in deployments
  /\ lastId \in 0 .. MaxWorkers
  /\ pods \subseteq Pod /\ services \subseteq Owner
  /\ revision \in Nat /\ made \in 0 .. MaxRequests
  /\ bytes \in List /\ version \in 0 .. revision
  /\ memory \in [Request -> List]
  /\ lock \in Request \cup {NoLock, Scheduler}
  /\ tick.pc # "none" <=> lock = Scheduler
  /\ \A r \in Request : req[r].pc = "create" => lock = r
  /\ missed \in BOOLEAN

(* Whoever takes the scheduler lock next reads, in whichever process, a    *)
(* list with every pod there is: the version check, the four unprotected   *)
(* writes of a refresh and the stops that refresh without the lock hide no *)
(* pod; except a creation whose own refresh was left out or failed, or     *)
(* during which such a stop was refreshing (missed).                       *)
EveryPodListed ==
  lock = NoLock /\ ~missed => \A r \in Request : pods \subseteq View(r).pods

(* No node has more GPUs given to tools and workers than it has, with the  *)
(* same proviso: the choice of a node rests on a list that stops and       *)
(* restarts overtake.                                                      *)
NodeNotOversubscribed ==
  ~missed => \A n \in Node : Used(pods, n) <= NodeGpus[n]

(* Tools stay within the training quota and workers within the deployment  *)
(* quota of their workspace, with the same proviso: a process may check    *)
(* against a list that another one made.                                   *)
QuotasHeld ==
  ~missed => \A o \in Owner : UsedOfQuota(pods, o) <= QuotaOf(o)

(* What the guaranteed workspaces have not used of their quotas stays free *)
(* for them, with the same proviso.                                        *)
GuaranteeHeld == ~missed => FreeGpus(pods) >= StillGuaranteed(pods)

(* The stop of a worker leaves the other workers that ran when it began    *)
(* their pods and the services of the deployment: its process does not     *)
(* take for the last worker one whose deployment has another, started by   *)
(* whichever process, unless that one's list was still under way.          *)
StopSparesOthers ==
  [][\A r \in Request :
       req[r].pc \in {"remove", "unserve"} /\ req'[r] # req[r] /\ req[r].spared # {} =>
         /\ pods \cap req[r].spared \subseteq pods'
         /\ UNCHANGED services]_vars

==============================================================================
