---------------------------- MODULE JobScheduler ----------------------------
(***************************************************************************)
(* The training job queue: the API handlers that insert, queue, stop and   *)
(* delete jobs (training.py, training_job.py), run by the web workers, and *)
(* the scheduler thread (app.py, utils/scheduler.py) that once a second    *)
(* starts at most one queued job as a gang of Kubernetes pods.  They share *)
(* the database, the cluster and jf_scheduler_lock.                        *)
(*                                                                         *)
(* The scheduler holds the lock from Refresh until its pass ends, so the   *)
(* body of a handler under the lock is one step taken while the scheduler  *)
(* is idle; what a handler does before or without the lock is a step of    *)
(* its own.  A pod deleted through the API is gone at once (its grace      *)
(* period is zero).                                                        *)
(***************************************************************************)
EXTENDS Placement, SequencesExt

CONSTANTS
  MaxJobs,        \* bound on the job ids ever handed out
  MaxBatch,       \* bound on the jobs of one creation request
  Training, Workspace, Request,
  TrainingOf,     \* the training a job id belongs to
  WorkspaceOf,    \* the workspace of a training
  Gpus,           \* the GPUs a job asks for
  Want,           \* the nodes of its gpu_model, <<>> when it names none
  Quota,          \* the training GPUs of a workspace
  Guaranteed,     \* the workspaces whose quota is guaranteed
  Ops,            \* the requests clients send
  MayExpire,      \* the workspaces whose period may end and be extended
  Faults          \* the faults that happen, a subset of FaultKinds

JobId == 1 .. MaxJobs

OpKinds == {"create_job", "stop_jobs", "stop_group", "stop_job",
            "stop_training", "delete_job", "delete_training"}

FaultKinds ==
  {"list",          \* the refresh at the start of a pass fails
   "create_list",   \* the refresh after a pod creation fails
   "create",        \* a pod creation is refused
   "delete",        \* pod deletions fail, which is logged and ignored
   "timeout",       \* a pod creation raises although the pod was created
   "restart"}       \* the backend is restarted

ASSUME JobSchedulerAssumption ==
  /\ MaxJobs \in Nat
  /\ MaxBatch \in Nat
  /\ TrainingOf \in [JobId -> Training]
  /\ WorkspaceOf \in [Training -> Workspace]
  /\ Gpus \in [JobId -> Nat]
  /\ Want \in [JobId -> Seq(Node)]
  /\ \A j \in JobId : Gpus[j] = 0 => Want[j] = <<>>
  /\ Quota \in [Workspace -> Nat]
  /\ Guaranteed \subseteq Workspace /\ IsFiniteSet(Guaranteed)
  /\ Ops \subseteq OpKinds
  /\ MayExpire \subseteq Workspace
  /\ Faults \subseteq FaultKinds

VARIABLES
  trainings,   \* rows of table training
  jobs,        \* rows of table job
  group,       \* job.group_number, of every id handed out
  lastId,      \* the auto-increment counter of table job
  queue,       \* the jobs with a row in table pod_queue
  active,      \* the workspaces within their period
  pods,        \* the job pods in the cluster
  cache,       \* what the scheduler's kube_data.get_pod_list() returns
  pc,          \* where the scheduler is: idle, collect, scan, create
  podQueue,    \* res_check's pod_queue, the queue as read by this pass
  idx,         \* the index of its loop over pod_queue
  closed,      \* the modes whose flag no_more_mig or no_more_general is set
  blocked,     \* the nodes of no_more_gpu_model_dict
  gang,        \* the placements chosen for podQueue[idx]
  made,        \* how many of them have their pod
  req          \* the API request each web thread is serving

db == <<trainings, jobs, group, lastId, queue>>
pass == <<podQueue, idx, closed, blocked, gang, made>>
vars == <<db, active, pods, cache, pc, pass, req>>

Pod == [job : JobId, rank : Nat, node : Node, gpus : Nat, ended : BOOLEAN]

NoGroup == -1

(* What a web thread works on: nothing; the creation of a group of jobs; or *)
(* a request to end the jobs of one group, or of all groups, of a training, *)
(* with the job rows it has read and the jobs that had a pod when it listed *)
(* the pods.                                                                *)
NoRequest == [pc |-> "none"]

CreatePcs == {"insert", "read", "enqueue"}
EndPcs == {"stop_jobs", "stop_training", "remove_all", "stop_job", "delete_job",
           "check_stopped", "delete_training"}

RequestState ==
  LET State(pcs, groups) == [pc : pcs, training : Training, group : groups,
                             jobs : SUBSET JobId, running : SUBSET JobId]
  IN  {NoRequest} \cup State(CreatePcs, Nat) \cup State(EndPcs, Nat \cup {NoGroup})

cur == podQueue[idx]

JobsOf(t) == {j \in jobs : TrainingOf[j] = t}
PodsOf(S, t) == {p \in S : TrainingOf[p.job] = t}
OwnerOf(p) == WorkspaceOf[TrainingOf[p.job]]

(* Pods are deleted by name; a name is made of the job and the rank.       *)
SameName(p, q) == p.job = q.job /\ p.rank = q.rank
Named(S) == {p \in pods : \E q \in S : SameName(p, q)}

(* delete_pod_all_resource deletes pods one by one and swallows failures.  *)
DeletePods(S) ==
  \/ pods' = pods \ S
  \/ "delete" \in Faults /\ \E D \in SUBSET S : pods' = pods \ D

Init ==
  /\ trainings = Training
  /\ jobs = {}
  /\ group = [j \in JobId |-> 0]
  /\ lastId = 0
  /\ queue = {}
  /\ active = Workspace
  /\ pods = {}
  /\ cache = {}
  /\ pc = "idle"
  /\ podQueue = <<>>
  /\ idx = 1
  /\ closed = {}
  /\ blocked = {}
  /\ gang = <<>>
  /\ made = 0
  /\ req = [r \in Request |-> NoRequest]

------------------------------------------------------------------------------
(* Creating jobs: create_job and the run_training it calls, without a lock *)

Serving(at, t, g, js, running) ==
  [pc |-> at, training |-> t, group |-> g, jobs |-> js, running |-> running]
Become(r, q) == req' = [req EXCEPT ![r] = q]
Goto(r, at) ==
  Become(r, Serving(at, req[r].training, req[r].group, req[r].jobs, req[r].running))
Answer(r) == Become(r, NoRequest)

(* get_job_group_number: one more than the largest group of the training.  *)
Latest(t) == {j \in JobsOf(t) : \A k \in JobsOf(t) : group[k] <= group[j]}
NextGroup(t) == IF JobsOf(t) = {} THEN {0} ELSE {group[j] + 1 : j \in Latest(t)}

GetGroupNumber(r, t, g) ==
  /\ "create_job" \in Ops
  /\ req[r].pc = "none"
  /\ t \in trainings
  /\ g \in NextGroup(t)
  /\ lastId < MaxJobs
  /\ Become(r, Serving("insert", t, g, {}, {}))
  /\ UNCHANGED <<db, active, pods, cache, pc, pass>>

(* insert_jobs: all rows of the request or, when the insert fails (the     *)
(* training is gone, or the database is), none; the handler goes on.  Ids  *)
(* are handed out in increasing order, some burnt by other inserts.        *)
InsertJobs(r, batch) ==
  /\ req[r].pc = "insert"
  /\ Cardinality(batch) <= MaxBatch
  /\ \A j \in batch : j > lastId /\ TrainingOf[j] = req[r].training
  /\ batch # {} => req[r].training \in trainings
  /\ jobs' = jobs \cup batch
  /\ group' = [j \in JobId |-> IF j \in batch THEN req[r].group ELSE group[j]]
  /\ lastId' \in {j \in batch \cup {lastId} : \A k \in batch : k <= j}
  /\ Goto(r, "read")
  /\ UNCHANGED <<trainings, queue, active, pods, cache, pc, pass>>

(* training_job_into_queue reads the jobs of the group back...             *)
ReadGroup(r) ==
  /\ req[r].pc = "read"
  /\ IF req[r].training \in trainings
       THEN Become(r, Serving("enqueue", req[r].training, req[r].group,
                              {j \in JobsOf(req[r].training) :
                                 group[j] = req[r].group}, {}))
       ELSE Answer(r)
  /\ UNCHANGED <<db, active, pods, cache, pc, pass>>

(* Mutant: no foreign key.                                                 *)
EnqueueUnchecked(r) ==
  /\ req[r].pc = "enqueue"
  /\ queue' = queue \cup req[r].jobs
  /\ Answer(r)
  /\ UNCHANGED <<trainings, jobs, group, lastId, active, pods, cache, pc, pass>>

(* ... and inserts them into pod_queue in one transaction, which fails on  *)
(* its foreign keys when one of the jobs has been deleted meanwhile.       *)
Enqueue(r) ==
  /\ req[r].pc = "enqueue"
  /\ queue' = IF req[r].jobs \subseteq jobs THEN queue \cup req[r].jobs ELSE queue
  /\ Answer(r)
  /\ UNCHANGED <<trainings, jobs, group, lastId, active, pods, cache, pc, pass>>

------------------------------------------------------------------------------
(* Stopping and deleting.  Every handler lists the pods (and the jobs it   *)
(* is about) before it takes the lock.                                     *)

Open(r, op, at, t, g, js) ==
  /\ op \in Ops
  /\ req[r].pc = "none"
  /\ Become(r, Serving(at, t, g, js, {p.job : p \in pods}))
  /\ UNCHANGED <<db, active, pods, cache, pc, pass>>

OpenStopJobs(r, t) ==
  /\ t \in trainings
  /\ Open(r, "stop_jobs", "stop_jobs", t, NoGroup, JobsOf(t))

OpenStopGroup(r, t, g) ==
  /\ t \in trainings
  /\ g \in {group[j] : j \in JobsOf(t)}
  /\ Open(r, "stop_group", "stop_jobs", t, g, JobsOf(t))

OpenStopTraining(r, t) ==
  /\ t \in trainings
  /\ Open(r, "stop_training", "stop_training", t, NoGroup, JobsOf(t))

OpenStopJob(r, j) ==
  /\ j \in jobs
  /\ Open(r, "stop_job", "stop_job", TrainingOf[j], NoGroup, {j})

(* delete_job is given the ids of some jobs of one training, or all.       *)
OpenDeleteJob(r, js) ==
  /\ js # {} /\ js \subseteq jobs
  /\ \E t \in Training :
       /\ js \subseteq JobsOf(t)
       /\ js = JobsOf(t) \/ Cardinality(js) = 1
       /\ Open(r, "delete_job", "delete_job", t, NoGroup, js)

OpenDeleteTraining(r, t) ==
  /\ t \in trainings
  /\ Open(r, "delete_training", "check_stopped", t, NoGroup, {})

(* Mutant: the handler does not take jf_scheduler_lock.                    *)
LockNotTaken == TRUE
LockFree == pc = "idle"

(* stop_jobs: jobs pending by the listed pods and the queue of now are     *)
(* deleted; then the pods are removed, by a fresh list, of the group, or   *)
(* of the whole training if the group number is missing or 0.              *)
StopJobs(r) ==
  /\ req[r].pc \in {"stop_jobs", "stop_training"}
  /\ LockFree
  /\ LET t == req[r].training
         g == req[r].group
         pending == {j \in req[r].jobs : /\ g = NoGroup \/ group[j] = g
                                         /\ j \notin req[r].running
                                         /\ j \in queue}
     IN  /\ jobs' = jobs \ pending
         /\ queue' = queue \ pending
         /\ DeletePods({p \in PodsOf(pods, t) : g \in {NoGroup, 0} \/ group[p.job] = g})
  /\ IF req[r].pc = "stop_training" THEN Goto(r, "remove_all") ELSE Answer(r)
  /\ UNCHANGED <<trainings, group, lastId, active, cache, pc, pass>>

(* stop_training then removes every pod of the training without the lock.  *)
RemoveAll(r) ==
  /\ req[r].pc = "remove_all"
  /\ DeletePods(PodsOf(pods, req[r].training))
  /\ Answer(r)
  /\ UNCHANGED <<db, active, cache, pc, pass>>

(* stop_job: when the job ran as the pods were listed, the pods of all the *)
(* jobs of its training are removed.                                       *)
StopJob(r) ==
  /\ req[r].pc = "stop_job"
  /\ LockFree
  /\ IF req[r].jobs \cap req[r].running # {}
       THEN DeletePods(PodsOf(pods, req[r].training))
       ELSE UNCHANGED pods
  /\ Answer(r)
  /\ UNCHANGED <<db, active, cache, pc, pass>>

(* delete_job: pods are removed of the jobs that ran as the pods were      *)
(* listed; the rows of all go, and their queue rows by cascade.            *)
DeleteJob(r) ==
  /\ req[r].pc = "delete_job"
  /\ LockFree
  /\ DeletePods({p \in pods : p.job \in req[r].jobs \cap req[r].running})
  /\ jobs' = jobs \ req[r].jobs
  /\ queue' = queue \ req[r].jobs
  /\ Answer(r)
  /\ UNCHANGED <<trainings, group, lastId, active, cache, pc, pass>>

(* delete_training refuses a training with a listed pod or a queued job;   *)
(* otherwise it deletes the row, and all that hangs on it, without a lock. *)
CheckStopped(r) ==
  /\ req[r].pc = "check_stopped"
  /\ IF \E j \in req[r].running \cup queue : TrainingOf[j] = req[r].training
       THEN Answer(r)
       ELSE Goto(r, "delete_training")
  /\ UNCHANGED <<db, active, pods, cache, pc, pass>>

DeleteTraining(r) ==
  /\ req[r].pc = "delete_training"
  /\ LET t == req[r].training
     IN  /\ trainings' = trainings \ {t}
         /\ queue' = queue \ JobsOf(t)
         /\ jobs' = jobs \ JobsOf(t)
  /\ Answer(r)
  /\ UNCHANGED <<group, lastId, active, pods, cache, pc, pass>>

------------------------------------------------------------------------------
(* A scheduler pass (app.py scheduler_work, then res_check)                *)

(* The pass is over, and its local variables with it.                      *)
Idle ==
  /\ pc' = "idle"
  /\ podQueue' = <<>>
  /\ idx' = 1
  /\ closed' = {} /\ blocked' = {}
  /\ gang' = <<>>
  /\ made' = 0

(* The lock is taken and update_all_list lists the pods again; a failure   *)
(* is swallowed and leaves the list of before.                             *)
Refresh ==
  /\ pc = "idle"
  /\ \/ cache' = pods
     \/ "list" \in Faults /\ cache' = cache
  /\ pc' = "collect"
  /\ UNCHANGED <<db, active, pods, pass, req>>

(* resource_gpu_used_update: the listed pods that go are those of          *)
(* workspaces out of their period and those of jobs with an ended pod.     *)
(* Mutants: expired pods stay; finished pods stay.                         *)
ExpiredKept(view) == {}
Expired(view) == {p \in view : OwnerOf(p) \notin active}
FinishedKept(view) == {}
Finished(view) == {p \in view : \E q \in view : q.job = p.job /\ q.ended}

(* get_pod_queue sorts by creation time, which is the order of the ids.    *)
InIdOrder(S) ==
  {s \in [1 .. Cardinality(S) -> S] : \A i, k \in DOMAIN s : i < k => s[i] < s[k]}

(* The queue is read and expired and finished pods are removed; the pass   *)
(* goes on with the list as it was.                                        *)
Collect ==
  /\ pc = "collect"
  /\ DeletePods(Named(Expired(cache) \cup Finished(cache)))
  /\ IF queue = {}
       THEN Idle
       ELSE /\ pc' = "scan"
            /\ podQueue' \in InIdOrder(queue)
            /\ UNCHANGED <<idx, closed, blocked, gang, made>>
  /\ UNCHANGED <<db, active, cache, req>>

(* The nodes of a job's gpu_model that no earlier item of the pass waits   *)
(* for (check_is_no_more_gpu).                                             *)
Wanted(j) == ToSet(Want[j]) \ blocked

(* get_checkmode_list: the modes to try, and those still open.             *)
CheckModes(j) ==
  IF Gpus[j] > 1 THEN {"general"}
  ELSE IF Want[j] = <<>> THEN Modes
  ELSE {ModeOf(n) : n \in Wanted(j)}

OpenModes(j) == CheckModes(j) \ closed

NoMoreGpu(j) == (Want[j] # <<>> /\ Wanted(j) = {}) \/ closed = Modes

(* is_queue_item_running_training: a listed pod of the same training.      *)
(* Mutant: only a listed pod of the same job.                              *)
RunningTrainingIgnored(j) == \E p \in cache : p.job = j
RunningTraining(j) == \E p \in cache : TrainingOf[p.job] = TrainingOf[j]

Skipped(j) == NoMoreGpu(j) \/ RunningTraining(j) \/ OpenModes(j) = {}

UsedBy(w) == MapThenSumSet(LAMBDA p : p.gpus, {p \in cache : OwnerOf(p) = w})

(* check_workspace_resource: the quota of the workspace.                   *)
(* Mutant: one GPU more.                                                   *)
InQuotaOffByOne(j) ==
  LET w == WorkspaceOf[TrainingOf[j]] IN Quota[w] - UsedBy(w) + 1 >= Gpus[j]
InQuota(j) ==
  LET w == WorkspaceOf[TrainingOf[j]] IN Quota[w] - UsedBy(w) >= Gpus[j]

(* check_guarantee_resource: a workspace without a guarantee leaves the    *)
(* guaranteed workspaces what they have not used of their quota.           *)
(* Mutant: any free GPU will do.                                           *)
FreeGpus ==
  MapThenSumSet(LAMBDA n : NodeGpus[n], Node) - MapThenSumSet(LAMBDA p : p.gpus, cache)
StillGuaranteed ==
  MapThenSumSet(LAMBDA w : Quota[w], Guaranteed \cap active)
    - MapThenSumSet(UsedBy, Guaranteed)
GuaranteeAnyFree(j) ==
  \/ WorkspaceOf[TrainingOf[j]] \in Guaranteed
  \/ FreeGpus >= Gpus[j]
GuaranteeKept(j) ==
  \/ WorkspaceOf[TrainingOf[j]] \in Guaranteed
  \/ FreeGpus - StillGuaranteed >= Gpus[j]

Inactive(j) == Gpus[j] > 0 /\ WorkspaceOf[TrainingOf[j]] \notin active

(* check_workspace_and_node_resource; a job without GPUs passes at once.   *)
Admitted(j) == Gpus[j] = 0 \/ (~Inactive(j) /\ InQuota(j) /\ GuaranteeKept(j))

(* get_node_info_manager: the nodes of the mode and of the gpu_model that  *)
(* are not blocked.                                                        *)
Candidates(j, mode) ==
  {n \in Node \ blocked : /\ ModeOf(n) = mode
                          /\ Want[j] = <<>> \/ n \in Wanted(j)}

GangsIn(j, mode) ==
  IF Gpus[j] = 0 THEN CpuGangs(cache) ELSE GpuGangs(cache, Candidates(j, mode), Gpus[j])

(* The mode of the first node of the gpu_model whose mode is open.         *)
FirstMode(j) ==
  LET eligible == {i \in DOMAIN Want[j] : /\ Want[j][i] \in Wanted(j)
                                          /\ ModeOf(Want[j][i]) \in OpenModes(j)}
  IN  IF Gpus[j] > 1 THEN "general" ELSE ModeOf(Want[j][Min(eligible)])

(* A job with a gpu_model only has its first mode: failing in it blocks    *)
(* all of its nodes, for itself as well.  Others take a MIG slice, or else *)
(* general GPUs, in the modes that are open.                               *)
Gangs(j) ==
  LET In(mode) == IF mode \in OpenModes(j) THEN GangsIn(j, mode) ELSE {}
  IN  IF Want[j] # <<>> THEN GangsIn(j, FirstMode(j))
      ELSE IF In("mig") # {} THEN In("mig") ELSE In("general")

Skip ==
  /\ pc = "scan" /\ idx <= Len(podQueue)
  /\ Skipped(cur)
  /\ idx' = idx + 1
  /\ UNCHANGED <<db, active, pods, cache, pc, req,
                 podQueue, closed, blocked, gang, made>>

(* delete_expired_pod, once for each open mode: the first deletes the job  *)
(* and its queue row; both delete the entry at idx of the list the loop    *)
(* runs over, which moves the rest one down (the second raises an          *)
(* IndexError when nothing is left there, and the pass is over).           *)
Purge ==
  /\ pc = "scan" /\ idx <= Len(podQueue)
  /\ ~Skipped(cur)
  /\ Inactive(cur)
  /\ jobs' = jobs \ {cur}
  /\ queue' = queue \ {cur}
  /\ IF Cardinality(OpenModes(cur)) = 1
       THEN podQueue' = RemoveAt(podQueue, idx) /\ idx' = idx + 1
            /\ UNCHANGED <<pc, closed, blocked, gang, made>>
     ELSE IF idx < Len(podQueue)
       THEN podQueue' = RemoveAt(RemoveAt(podQueue, idx), idx) /\ idx' = idx + 1
            /\ UNCHANGED <<pc, closed, blocked, gang, made>>
     ELSE Idle
  /\ UNCHANGED <<trainings, group, lastId, active, pods, cache, req>>

(* An item that cannot be started keeps its modes, or the nodes of its     *)
(* gpu_model, from the items after it.                                     *)
(* Mutants: of its gpu_model, only the node it would have been given       *)
(* first; all modes, whatever the item could use.                          *)
ReserveFirstOnly ==
  /\ pc = "scan" /\ idx <= Len(podQueue)
  /\ ~Skipped(cur)
  /\ ~Inactive(cur)
  /\ ~Admitted(cur) \/ Gangs(cur) = {}
  /\ IF Want[cur] = <<>>
       THEN /\ closed' = closed \cup OpenModes(cur)
            /\ UNCHANGED blocked
       ELSE /\ LET first == Min({i \in DOMAIN Want[cur] : Want[cur][i] \in Wanted(cur)})
               IN  blocked' = blocked \cup {Want[cur][first]}
            /\ UNCHANGED closed
  /\ idx' = idx + 1
  /\ UNCHANGED <<db, active, pods, cache, pc, req, podQueue, gang, made>>
ReserveEverything ==
  /\ pc = "scan" /\ idx <= Len(podQueue)
  /\ ~Skipped(cur)
  /\ ~Inactive(cur)
  /\ ~Admitted(cur) \/ Gangs(cur) = {}
  /\ closed' = Modes
  /\ idx' = idx + 1
  /\ UNCHANGED <<db, active, pods, cache, pc, req, podQueue, blocked, gang, made>>
Reserve ==
  /\ pc = "scan" /\ idx <= Len(podQueue)
  /\ ~Skipped(cur)
  /\ ~Inactive(cur)
  /\ ~Admitted(cur) \/ Gangs(cur) = {}
  /\ IF Want[cur] = <<>>
       THEN /\ closed' = closed \cup OpenModes(cur)
            /\ UNCHANGED blocked
       ELSE /\ blocked' = blocked \cup Wanted(cur)
            /\ UNCHANGED closed
  /\ idx' = idx + 1
  /\ UNCHANGED <<db, active, pods, cache, pc, req, podQueue, gang, made>>

Choose ==
  /\ pc = "scan" /\ idx <= Len(podQueue)
  /\ ~Skipped(cur)
  /\ Admitted(cur)
  /\ gang' \in Gangs(cur)
  /\ made' = 0
  /\ pc' = "create"
  /\ UNCHANGED <<db, active, pods, cache, req,
                 podQueue, idx, closed, blocked>>

EndPass ==
  /\ pc = "scan" /\ idx > Len(podQueue)
  /\ Idle
  /\ UNCHANGED <<db, active, pods, cache, req>>

(* create_job_pod for the next node of the gang.                           *)
NextPod == [job |-> cur, rank |-> made, node |-> gang[made + 1].node,
            gpus |-> gang[made + 1].gpus, ended |-> FALSE]

NameTaken == \E p \in pods : SameName(p, NextPod)

CreatePod ==
  /\ pc = "create" /\ made < Len(gang)
  /\ ~NameTaken
  /\ pods' = pods \cup {NextPod}
  /\ \/ cache' = pods'
     \/ "create_list" \in Faults /\ cache' = cache
  /\ made' = made + 1
  /\ UNCHANGED <<db, active, pc, req,
                 podQueue, idx, closed, blocked, gang>>

(* When the creation raises, so does the clean-up (it deletes a service    *)
(* that a job does not have), and the exception ends the pass: pods made   *)
(* before stay, and so does the queue row.                                 *)
CreateRaises ==
  /\ pc = "create" /\ made < Len(gang)
  /\ \/ ("create" \in Faults \/ NameTaken) /\ UNCHANGED pods
     \/ "timeout" \in Faults /\ ~NameTaken /\ pods' = pods \cup {NextPod}
  /\ Idle
  /\ UNCHANGED <<db, active, cache, req>>

(* After the last pod the queue row is deleted and the pass is over.       *)
(* Mutant: the queue row stays.                                            *)
DequeueForgotten ==
  /\ pc = "create" /\ made = Len(gang)
  /\ UNCHANGED queue
  /\ Idle
  /\ UNCHANGED <<trainings, jobs, group, lastId, active, pods, cache, req>>
Dequeue ==
  /\ pc = "create" /\ made = Len(gang)
  /\ queue' = queue \ {cur}
  /\ Idle
  /\ UNCHANGED <<trainings, jobs, group, lastId, active, pods, cache, req>>

------------------------------------------------------------------------------
(* What happens to the cluster and to the clock                            *)

Ended(p) == [job |-> p.job, rank |-> p.rank, node |-> p.node, gpus |-> p.gpus,
             ended |-> TRUE]

(* The process of a pod ends (Succeeded or Failed).                        *)
PodEnds(p) ==
  /\ p \in pods /\ ~p.ended
  /\ pods' = (pods \ {p}) \cup {Ended(p)}
  /\ UNCHANGED <<db, active, cache, pc, pass, req>>

(* The period of a workspace ends; an administrator extends it.            *)
Expire(w) ==
  /\ w \in MayExpire \cap active
  /\ active' = active \ {w}
  /\ UNCHANGED <<db, pods, cache, pc, pass, req>>

Extend(w) ==
  /\ w \in MayExpire \ active
  /\ active' = active \cup {w}
  /\ UNCHANGED <<db, pods, cache, pc, pass, req>>

(* The backend is restarted: the database and the pods are all that stays; *)
(* the new process lists the pods.                                         *)
Restart ==
  /\ "restart" \in Faults
  /\ Idle
  /\ cache' = pods
  /\ req' = [r \in Request |-> NoRequest]
  /\ UNCHANGED <<db, active, pods>>

------------------------------------------------------------------------------

Scan == Skip \/ Purge \/ Reserve \/ Choose \/ EndPass

Scheduler == Refresh \/ Collect \/ Scan \/ CreatePod \/ CreateRaises \/ Dequeue

Handler(r) ==
  \/ \E t \in Training, g \in 0 .. MaxJobs : GetGroupNumber(r, t, g)
  \/ \E batch \in SUBSET JobId : InsertJobs(r, batch)
  \/ ReadGroup(r)
  \/ Enqueue(r)
  \/ \E t \in Training : OpenStopJobs(r, t)
  \/ \E t \in Training, g \in 0 .. MaxJobs : OpenStopGroup(r, t, g)
  \/ \E t \in Training : OpenStopTraining(r, t)
  \/ \E j \in JobId : OpenStopJob(r, j)
  \/ \E js \in SUBSET JobId : OpenDeleteJob(r, js)
  \/ \E t \in Training : OpenDeleteTraining(r, t)
  \/ StopJobs(r)
  \/ RemoveAll(r)
  \/ StopJob(r)
  \/ DeleteJob(r)
  \/ CheckStopped(r)
  \/ DeleteTraining(r)

Environment ==
  \/ \E p \in pods : PodEnds(p)
  \/ \E w \in Workspace : Expire(w) \/ Extend(w)
  \/ Restart

Next == Scheduler \/ (\E r \in Request : Handler(r)) \/ Environment

Spec == Init /\ [][Next]_vars

(* scheduler_work loops for ever; an exception of a pass is caught.        *)
FairSpec == Spec /\ WF_vars(Scheduler)

------------------------------------------------------------------------------
(* Properties                                                              *)

(* The type invariant, in two parts: the rows, the requests and the        *)
(* control of a pass; the pods and what a pass knows of the nodes.         *)
ControlTypeOK ==
  /\ trainings \subseteq Training
  /\ jobs \subseteq JobId
  /\ group \in [JobId -> Nat]
  /\ lastId \in 0 .. MaxJobs
  /\ queue \subseteq jobs
  /\ active \subseteq Workspace
  /\ pc \in {"idle", "collect", "scan", "create"}
  /\ podQueue \in Seq(JobId)
  /\ idx \in Nat \ {0}
  /\ pc = "create" => idx <= Len(podQueue)
  /\ made \in Nat
  /\ req \in [Request -> RequestState]
  /\ \A p \in pods \cup cache : p.job \in JobId

PodsTypeOK ==
  /\ pods \subseteq Pod
  /\ cache \subseteq Pod
  /\ closed \subseteq Modes
  /\ blocked \subseteq Node
  /\ gang \in Seq([node : Node, gpus : Nat])
  /\ made <= Len(gang)

TypeOK == ControlTypeOK /\ PodsTypeOK

(* "Only one item of a training can run": no two jobs of one training have *)
(* pods at the same time, however requests interleave with a pass (the     *)
(* check is_queue_item_running_training makes on the pass's pod list).     *)
OneItemPerTraining ==
  \A p, q \in pods : TrainingOf[p.job] = TrainingOf[q.job] => p.job = q.job

(* The pods of a workspace never hold more GPUs than its quota, although   *)
(* check_workspace_resource counts them in a list made before.             *)
WithinQuota ==
  \A w \in Workspace :
    MapThenSumSet(LAMBDA p : p.gpus, {p \in pods : OwnerOf(p) = w}) <= Quota[w]

(* The pods put on a node never hold more GPUs than it has: the greedy     *)
(* split of a gang over nodes adds up, and no pass gives a GPU out twice.  *)
NodeNotOversubscribed == \A n \in Node : Used(pods, n) <= NodeGpus[n]

(* Workspaces without a guarantee leave enough GPUs free for what the      *)
(* guaranteed ones have not used of their quota (check_guarantee_resource).*)
GuaranteeHeld ==
  MapThenSumSet(LAMBDA n : NodeGpus[n], Node)
    - MapThenSumSet(LAMBDA p : p.gpus, {p \in pods : OwnerOf(p) \notin Guaranteed})
    >= MapThenSumSet(LAMBDA w : Quota[w], Guaranteed)

(* A job that waits in the queue has no pod, except while the pass that    *)
(* starts it is creating its gang: so no job is started a second time.     *)
QueuedNotRunning ==
  \A p \in pods : p.job \in queue => pc = "create" /\ cur = p.job

(* Every pod belongs to a job that still has its row, although stop_jobs   *)
(* deletes the rows of pending jobs by a pod list made before the lock.    *)
NoOrphanPods == \A p \in pods : p.job \in jobs

(* When stop_jobs has run for a whole training, none of the jobs it was    *)
(* about waits in the queue and the training has no pod.                   *)
StopIsComplete ==
  [][\A r \in Request : StopJobs(r) /\ req[r].group = NoGroup =>
       /\ req[r].jobs \cap queue' = {}
       /\ PodsOf(pods', req[r].training) = {}]_vars

(* The nodes a job may be put on.                                          *)
UsableBy(j) ==
  {n \in Node : /\ Want[j] = <<>> \/ n \in ToSet(Want[j])
                /\ ModeOf(n) = "general" \/ Gpus[j] = 1}

(* A pass never gives a node to a job when an older one, which the pass    *)
(* has seen and could not start, waits for that node: the reservations of  *)
(* no_more_mig, no_more_general and no_more_gpu_model_dict are complete.   *)
NoOvertaking ==
  [][Choose => \A k \in 1 .. idx - 1 :
       \/ podQueue[k] \notin queue \/ RunningTraining(podQueue[k])
       \/ Gpus[podQueue[k]] = 0
       \/ \A i \in DOMAIN gang' : \/ gang'[i].gpus = 0
                                  \/ gang'[i].node \notin UsableBy(podQueue[k])]_vars

(* A job with an ended pod loses its pods: resource_gpu_used_update frees  *)
(* the GPUs and the training's turn.                                       *)
EndedCollected ==
  \A j \in JobId : (\E p \in pods : p.job = j /\ p.ended)
                     ~> ~(\E p \in pods : p.job = j /\ p.ended)

(* A workspace out of its period loses its pods, if it stays out of it.    *)
ExpiredStopped ==
  \A w \in Workspace :
    (w \notin active /\ \E p \in pods : OwnerOf(p) = w)
      ~> (w \in active \/ ~\E p \in pods : OwnerOf(p) = w)

(* What the items K of the queue reserve when none of them can start, and  *)
(* whether an empty cluster has room for a job beside that.                *)
ReservedModes(K) ==
  UNION {IF Gpus[k] > 1 THEN {"general"} ELSE Modes : k \in {i \in K : Want[i] = <<>>}}
ReservedNodes(K) == UNION {ToSet(Want[k]) : k \in K}

FitsBeside(j, K) ==
  LET open == Modes \ ReservedModes(K)
      left == {n \in UsableBy(j) \ ReservedNodes(K) : ModeOf(n) \in open}
  IN  IF Gpus[j] = 0 THEN open # {} /\ CpuGangs({}) # {}
                     ELSE GpuGangs({}, left, Gpus[j]) # {}

(* A job that asks for more than its quota, or than an empty cluster has   *)
(* beside the guarantees: create_job does not refuse it.                   *)
TooLarge(j) ==
  LET w == WorkspaceOf[TrainingOf[j]]
  IN  Gpus[j] > 0 /\ \/ Gpus[j] > Quota[w]
                     \/ /\ w \notin Guaranteed
                        /\ MapThenSumSet(LAMBDA n : NodeGpus[n], Node)
                             - MapThenSumSet(LAMBDA v : Quota[v], Guaranteed \cap active)
                             < Gpus[j]

(* The queued jobs that even an empty cluster does not start: those that   *)
(* are too large, and those that have no room beside what older jobs of    *)
(* the kind reserve.                                                       *)
Stuck ==
  LET stuck[j \in JobId] ==
        /\ j \in queue
        /\ TooLarge(j) \/ ~FitsBeside(j, {k \in 1 .. j - 1 : stuck[k]})
  IN  {j \in JobId : stuck[j]}

(* When the cluster is at rest again and again (all training processes     *)
(* have ended), a queued job leaves the queue, started or because its      *)
(* workspace has expired, unless it is stuck.  A stuck job may hold back   *)
(* those after it for ever, but only from the modes and nodes it could use *)
(* itself; jobs that need others, and pods still to be collected, pass.    *)
AtRest == \A p \in pods : p.ended
QueuedLeaves ==
  []<>AtRest => \A j \in JobId : j \in queue ~> (j \notin queue \/ j \in Stuck)

(* The queue of the database and the pods of the cluster are the waiting   *)
(* and the running jobs of TrainingTurns: what passes, requests, failures  *)
(* and restarts do to them is to submit, to start in turn, or to leave.    *)
(* Every operation but the deletion of a training keeps to it: that one    *)
(* takes no lock and removes the queue row of an item being started.       *)
Turns == INSTANCE TrainingTurns
           WITH Job <- JobId, waiting <- queue, running <- {p.job : p \in pods}
TakesTurns == Turns!Spec

------------------------------------------------------------------------------
(* What comments and docstrings say, and the code does not do              *)

(* "training_id + job_group_number: of the running and pending jobs, only  *)
(* the items of that group are ended" (stop_jobs).                         *)
GroupStopSparesOthers ==
  [][\A r \in Request : StopJobs(r) /\ req[r].group # NoGroup =>
       \A p \in pods \ pods' : group[p.job] = req[r].group]_vars

(* "Check training Status = Only Stop" (delete_training): a training is    *)
(* deleted while it has no pod.                                            *)
OnlyStoppedDeleted ==
  [][\A t \in trainings \ trainings' : PodsOf(pods, t) = {}]_vars
==============================================================================
