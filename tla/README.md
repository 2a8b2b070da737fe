# Verification of Jonathan-Flightbase

Jonathan-Flightbase is an MLOps platform: users of a *workspace* train models on
the GPUs of a Kubernetes cluster, work in tools (editors, Jupyter), and deploy
models.  The backend (`src/backend/jf-src/master`) is a Flask application with a
MySQL database, a scheduler thread and the Kubernetes API.  This directory holds
TLA+ models of the parts that decide who gets which GPU when, the TLC runs that
check them on small instances, and TLAPS proofs about them.

Paths below are relative to `src/backend/jf-src/master` unless they start with
`src/`.  `PROJECT.json` maps every definition to its lines.

## 1. The system

### Processes and shared state

- Four gunicorn workers with four threads each serve the API.  Every request is
  handled by one thread; handlers of different workers share only the database,
  the cluster and the multiprocessing locks of `lock.py`.
- `app.py` starts the background threads: `scheduler_work` (a pass a second), the
  install and the sync thread of images, log, GPU record, and other work.
- The database (`utils/db.py`, `utils/schema.py`) commits statement by
  statement.  Foreign keys with ON DELETE CASCADE tie rows together: a queue
  row cannot outlive its job, nor a job its training.
- The cluster (`utils/kube.py`) is the only record of what runs: whether a job
  runs is whether a pod with its label is listed.  `kube_data` caches the lists.
- `jf_scheduler_lock`, a `multiprocessing.Lock`, is held by the scheduler for
  its refresh and its whole pass, and by handlers that stop jobs or start items
  at once.
- Outside the database there are the images of the hosts' Docker and of the
  registry, the folders of the storage, and `/etc` of the backend's container with
  its copy `/etc_host`.  Each is changed by shell commands, one after the other.

### Components

| Component | State | Operations | What makes it correct |
|---|---|---|---|
| Job queue and scheduler pass (`utils/scheduler.py`, `training_job.py`, `training.py`, `app.py`) | tables training, job, pod_queue; job pods; the pass's list and reservations | create, stop (all, group, one, training), delete (jobs, training); refresh, collect, choose, create gang, dequeue | one item per training; quota and guarantee hold; no overtaking on reserved nodes; stopped means stopped; jobs do not wait for ever |
| Node selection (`utils/node_resource.py`) | none (pure) | one node, or several of one network group | a gang adds up and fits its nodes |
| Workspace reservation (`workspace.py`, `gpu.py`) | table workspace | create, update, split, delete; available GPUs, calendar | reservations fit the nodes at every instant |
| Training tools (`training_tool.py`), deployments and their workers (`deployment.py`, `deployment_worker.py`) | rows, pods and services | start at once, stop, delete | what starts at once keeps to nodes, quotas and guarantees; the stop of a worker spares the other workers and the services they need |
| Kubernetes cache (`utils/kube.py`) | the list and the version shared by the processes, a copy in each | refresh, read | who decides under the lock sees every pod |
| Docker images (`image.py`) | rows, install queue, Docker, registry | create, install, check, repair, delete | installed once, never stuck, ready means it can be pulled, deleted means gone |
| Datasets (`datasets.py`) | rows and folders | create, remove, move, list, sync of one and of all | a scan brings rows and folders together and forgets nothing that is there |
| User accounts (`user.py`) | rows, Linux accounts, the copy of `/etc` | create, delete, recover; restart | accounts survive a restart; a recovery puts every row right |
| Hyperparameter search (`training_hyperparam.py`) | — | none: no route calls `create_hps`, `stop_hps` or `delete_hps` | — |
| Pod records (`pod.py`, `records.py`, `utils/db_record.py`), login and limits (`login.py`, `logout.py`, `user_limit.py`), networks (`network.py`, `network_cni.py`) | rows of their own | see section 7 | not modelled |
| Storage, nodes, benchmarks, worker monitor, mfs, UI | — | shell commands, screens | not modelled, see section 7 |

How they meet.  Jobs, tools and workers take their GPUs from the same nodes and
wait for the same lock; they find out about each other only through the pod
list.  Images, datasets and users meet the rest by name: a pod is given the name
of an image, the path of a dataset, the uid of a user.  Workspaces bound
everything: a pod runs in the period of its workspace and within its quota.

### What is hard

1. *A list that is older than the lock.*  Every stop and delete handler lists the
   pods (and reads the job rows) first and then waits for `jf_scheduler_lock`.
   By the time it decides, a pass may have started what looked pending.
2. *No lock at all.*  Creating jobs, deleting trainings, stopping tools and
   workers, and everything in `workspace.py`, `datasets.py` and `user.py` is
   check-then-act on separate statements and shell commands.  The locks of
   `datasets.py` exclude the threads of one process of four, and are let go
   before the work begins.
3. *A cache shared in two writes.*  A refresh shares the pod list and, only when
   services, ingresses and nodes were listed too, its version; readers compare the
   version with that of their own copy.  Some refreshes run without the lock.
4. *Swallowed failures.*  A failed refresh leaves the old list (`update_all_list`),
   a failed deletion leaves the pod (`delete_pod`), and a pod creation that fails
   half way through a gang raises out of the pass.  `useradd` for a taken name
   fails unseen; a dataset whose insertion is refused stays without a row.  A creation that
   times out may have been accepted by the cluster; the refresh that makes the pod known
   is then left out.
5. *Restarts.*  Between the pods of a gang, and between the last pod and the
   deletion of the queue row; while an image is queued, tagged or pushed; between
   a change of `/etc` and its copy.
6. *Rows read before, statuses written after.*  The check of all images, a deletion
   that waits, a list of datasets and a sync write by what they read long ago.
7. *Reservations within a pass.*  Items that cannot start close modes or nodes to
   the items behind them, in an order with several early exits.
8. *Boundaries.*  Group 0, periods that touch, half-open and closed intervals, the
   last worker of a deployment.

`PROJECT.json` lists each hazard at its line with the properties that cover it.

## 2. The modules

### Placement

The search of `NodeInfoManager` as operators.  A `Node` is a *GPU pool* of a
host: its general GPUs, or the slices of one MIG profile.  `IntraGangs` is the
single-node search (least used first), `NetGangs` the search over the nodes of a
network group with the greedy `Split`, `GpuGangs` their order (one node, else the
fastest network group that suffices).  Where the sort leaves ties, the operators
return every choice.  CPU and memory only matter as `CpuRoom`, the CPU-only pods
a host has room for; the limits of cores and memory per pod are left out.

### JobScheduler

State: the rows (`trainings`, `jobs`, `group`, `lastId`, `queue`), the workspaces
in their period (`active`), the cluster (`pods`), the scheduler's list (`cache`),
the pass (`pc`, `podQueue`, `idx`, `closed`, `blocked`, `gang`, `made`: the
locals of `res_check`) and one request per web thread (`req`, with the rows and
the listed pods it carries from before the lock to under it).

Steps.  A handler is split where other processes can get in between: *create* is
`GetGroupNumber`, `InsertJobs`, `ReadGroup`, `Enqueue`; each *stop* and *delete* is
an `Open...` step that reads, then a step under the lock (`StopJobs`, `StopJob`,
`DeleteJob`), or `CheckStopped` and `DeleteTraining` without it.  `stop_training`
goes on to `RemoveAll` after the lock.  The scheduler holds the lock from
`Refresh` to the end of the pass, so a handler's locked part needs `pc = "idle"`
(`LockFree`); what handlers do without the lock happens in the middle of a pass.
`Collect` removes the pods of ended jobs and expired workspaces; `Skip`, `Purge`,
`Reserve`, `Choose` and `EndPass` are the exits of the loop over the queue;
`CreatePod`, `CreateRaises` and `Dequeue` create the gang.  Pods end, periods end
and are extended, and the backend restarts in steps of the environment.

Faults are a constant, so that each run says which it admits: a failed refresh at
the start of a pass or after a creation, a refused creation, a creation that times
out although the pod exists, failed deletions, restarts.

Abstractions: a deleted pod is gone at once (its grace period is 0); the insert
of a list of rows is one step (one transaction); deleting several trainings in one
request is a request each; a node serves every GPU it lists; the job rows of a
creation differ only in what the scheduler reads (training, GPUs, model).  Ids,
with their training, GPUs and model, are constants: a creation picks among the ids
not handed out.  Names, images, parameters, checkpoints and logs are left out, and
so are items other than jobs.

### TrainingTurns

What the queue promises, in two sets: `waiting` and `running`.  Jobs are submitted,
one that waits starts in its training's turn, jobs leave.  `JobScheduler` reads it
as `Turns`, with the rows of `pod_queue` for `waiting` and the jobs that have a pod
for `running`; `TakesTurns` says that it is implemented.  So a gang of several pods,
the order of creating pods and deleting the queue row, failures half way and
restarts all come down to starting in turn or to nothing.

### WorkspaceReservation

State: the table `rows` and one request per thread (between check and write).
`Allocated` is `get_allocated_gpu_count`, `Available` is `get_workspace_aval_gpu`,
`Timeline` the calendar of the form.  `CheckCreate`/`Insert`, `CheckUpdate`/`Update`,
`CheckSplit`/`WriteSplit` and `Delete` are the handlers; the check is made, as in
the code, for the period from the start to the start.  Dates are integers, ids are
interchangeable.  Users, storage and folders are left out; a request that omits
the guarantee flag is not made (the form always sends it).

### InstantStart

What starts at once or not at all: tools and deployment workers, with the list of
pods they decide by.  State: the rows (`deployments`, `workers`, `lastId`), the
cluster (`pods`, `services`, and `revision`, the resource version), the shared list
(`bytes`, `version`) and each process's copy (`memory`), the `lock`, the scheduler's
refresh (`tick`) and one request per process (`req`).  `missed` is history: a
creation that some list may lack.  So is `spared`, the other workers that ran when the
stop of a worker began.

Steps.  A start reads (`OpenStartTool`, `OpenAddWorker`), inserts the row of a worker
under the lock (`AddRow`), chooses the node and makes the services (`Choose`), creates
the pod (`CreatePod`) and refreshes the list (`Refresh`, `EndRefresh`) before it lets the
lock go.  A creation may be refused (`CreateFails`), or raise although the pod is there,
for the call timed out or the start time could not be written: then the pod stays and the
refresh is left out (`CreateTimesOut`).  A stop decides by its process's list whether the worker is
the last one, lists what has the label of its target (`ListTarget`), removes the pods
(`RemovePods`), then the services (`RemoveServices`), and for workers refreshes without
the lock.  `DeleteDeployment` takes the lock, `DeleteRow` does not.  A refresh asks for
the pods, writes the bytes and reads their version back, and shares the version, in
three steps; the scheduler does the same once a second.

Abstractions: one request at a time per process; the write of the list and the reading
back of its version are one step, and so are two reads of the list by one check.  The
split of GPUs between workers that share one cannot be reached: the check that would
allow it is `pass` (`utils/scheduler.py:172-179`).  Jobs, the end of periods and failed
deletions are in JobScheduler; the creation of deployments, restarts and the settings of
tools are left out.  `built_in_model.py` takes the lock as well, only to mark a model.

### ImageInstall

State: the rows (`status`, `workspaces`, `logs`, `used`), what Docker and the registry
have (`system`, `registry`), the queue and the work of the install thread (`installs`,
`inst`), where the sync thread is and what it has read (`sync`, `todo`), and one deletion
per web thread (`req`).

Steps.  `Create` inserts a pending row.  The install thread takes an entry (`Take`) and
makes, pushes and finishes the image, or fails.  The sync thread, after a start, repairs
rows (`Rollback`) and checks each row it has read (`CheckImage`; `CheckUnlisted` for a
repository whose tags cannot be read).  An exception ends the check: a list cannot be read
(`ListingFails`), or a push or the list made after it fails (`CheckRaises`); `skipped` is
the history of what this leaves unpushed.  The thread then for
ever it fills the queue (`AddImages`) and carries out deletions (`Clean`).  A deletion
reads the row (`OpenDelete`), may drop a workspace first, and writes (`Delete`).
`Restart` loses threads, queue and requests, and may or may not complete the command that
was running.

Abstractions: pulling, building, loading, committing and copying differ in the command
and are one step; every real name can be pushed.  The registry is looked up as each image is
checked; libraries and sizes only matter for what raises (`get_library_version_of_image`
catches everything, so it does not).  The change of the registry's address
(`check_registry_url_of_image`), updates of names, the deletion of an owner or workspace,
and a log file that is no JSON (`image.py:640`, outside the try) are left out.

### Datasets

State: `folders` (the inode at a path), `rows`, `lastId`, and what every request is doing
(`req`), with the handler and the thread of a sync told apart.  Every action is one
statement or one command: creation checks the name, makes the folder (again for every
chunk), checks again and inserts; removal deletes the row, then the folder; a move reads,
moves the folder and writes the row, with `mv` into a taken name putting the one into the
other.  `ReadRows`, `ListArea`, `StatFolder`, `RecordFolder` and `EndList` are the scan of
a workspace, in a list (which deletes the rows it met no folder for) or in a sync.
`SetEvent`, `ClearEvent` and `Wait` are the event between a handler and its thread.

Abstractions: sizes, counts and the files within a dataset; Google Drive; the scan in
cycles, which nothing starts; the deletion of workspaces.  Uploads by the built-in
datasets take the same steps.  Inode numbers are reused when free, as file systems do.
`jf_dataset_lock` is not there: it is held around the start of a thread only, and the
check that no thread of the name runs in this process is one step with that start.

### Accounts

State: `rows`, `lastId`, the accounts in `/etc` (`etc`) and its copy (`etcHost`), and one
request each (`req`).  Creation: `useradd` with a free uid, reading it, copying, insert,
joining workspaces, each of which can fail and is then rolled back by `UserDel` and
`Save`.  Deletion: the row, the account, the copy.  Recovery: an account for every row it
has read, all of them or those of the ids it was given (`Chosen`), one after the other,
then the copy, which is skipped when one raises.  `Restart` brings the copy back.

Abstractions: passwords, login counters, user groups, Superset and sessions; the check
and the command for one user of a recovery are one step, and so are two copies in a row;
the copy itself is not interrupted.

### The MC modules

`MCJobScheduler`, `MCWorkspaceReservation`, `MCInstantStart`, `MCImageInstall`,
`MCDatasets` and `MCAccounts` hold the values of the constants for TLC.

### The proof modules

`SumLemmas` and `PlacementProofs` hold lemmas: sums, minima and maxima of finite sets, and
what the search of `Placement` returns.  `JobSchedulerProofs`, `InstantStartProofs`,
`WorkspaceReservationProofs`, `ImageInstallProofs`, `DatasetsProofs` and `AccountsProofs`
hold the theorems of one module each: see section 5.

## 3. The runs

| Run | Checks | Instance | Shows |
|---|---|---|---|
| `clients` | `TypeOK`, `OneItemPerTraining` | 1 training, 2 jobs, 2 concurrent requests of all kinds but group stops, 5 faults; 0.9 million states | whatever races and fails, one job of a training has pods at a time |
| `gang` | `NodeNotOversubscribed`, `QueuedNotRunning`, `NoOrphanPods`, `StopIsComplete`, `TakesTurns` | 2 hosts, a 3-GPU gang over both, 1 request, no faults | the split adds up; a stop with an old list still leaves nothing behind; jobs take turns |
| `resources` | `WithinQuota`, `GuaranteeHeld`, `NoOvertaking` | a MIG pool, 2 hosts, 5 jobs with and without models, 2 workspaces, one guaranteed; failed lists, creations, deletions, restarts | quotas, guarantees and reservations hold against old lists |
| `liveness` | `ExpiredStopped`, `EndedCollected`, `QueuedLeaves` | 5 jobs on a MIG slice and a host of 2 GPUs, one of them above its quota and one too large beside the guarantee, 2 workspaces that expire and are extended; 0.1 million states | what has ended is collected; the queue moves beside what can never start |
| `group_zero` | `GroupStopSparesOthers` | violated | finding 1 |
| `delete_race` | `OnlyStoppedDeleted` | violated | finding 2 |
| `allocation` | `TypeOK`, `AllocatedIsPeak`, `CalendarKeepsPromise`, `StartIsCovered` | 3 workspaces, 4 dates, days of 2, 2 GPUs | both search algorithms agree with a count per instant |
| `overbooked` | `GuaranteesFit` | violated | finding 3 |
| `instant` | `TypeOK`, `EveryPodListed`, `NodeNotOversubscribed`, `QuotasHeld`, `GuaranteeHeld`, `StopSparesOthers` | 3 hosts of 1, 2 and 3 GPUs, tools of 1 and 2 GPUs, a guaranteed deployment with up to 3 workers of 2 GPUs and a quota for two, 2 processes, 4 requests, refused and timed-out creations, failed refreshes; 5.2 million states | the shared list hides no pod from the next start, so nodes, quotas and guarantees hold; the stop of a worker spares the others |
| `images` | `TypeOK`, `InstallingIsReal`, `InstallUndisturbed`, `ReadyInRegistry`, `StatusMoves`, `PendingSettles`, `DeletingGoes` | 3 images: 1 built in, 2 installed, 3 a copy of 2; a deleting request, 1 restart, failures of commands and lists; 0.24 million states | the life of an image through queue duplicates, stale writers and a restart |
| `scan` | `TypeOK`, `QuietListSettles`, `ListForgetsOnlyTouched`, `QuietSyncAligns`, `WorkspaceSyncEnds` | 2 workspaces, 4 places, 2 inode numbers, 2 processes with a request each, 4 in all; 1 million states | what scans promise, undisturbed and disturbed |
| `admins` | `TypeOK`, `SavedWhenIdle`, `QuietRecoveryRestores` | 2 names, 3 uids, 4 ids, 3 requests at a time, 5 in all, 1 restart, failing database and workspaces; 1.3 million states | no account is lost or brought back by a restart; a recovery puts right the rows it was asked for |

Why the bounds are enough.  `OneItemPerTraining` needs two jobs of one training
and a race of at most two requests with the pass: those are all there; more jobs
or trainings only add independent copies, and the theorem of section 5 covers them.
The gang needs a job that no host can serve alone (3 GPUs on hosts of 2 and 1), a
job of the same training and one without GPUs.  For the resources, five jobs on
three pools cover: an item that fits no node, no quota, not beside the guarantee,
one that names several models, and one behind each of them.  Peaks of intervals
are decided by triples: base, a workspace that overlaps its start and one that
overlaps its end; four dates let all three differ.  `QueuedLeaves` needs an item that
never starts (above its quota), one that starts only while a guarantee is off and names
its node, one behind them that needs what they reserve, and two that do not; each part of
its exception is needed, the run fails without any of them.  In `instant` each tool fits beside
the guarantee and both together do not; two workers fit their quota and a third does not,
although there are GPUs left for it; beside the larger tool, the second worker has to be
put on two hosts together.

Restrictions that matter, with what happens beyond them:

- `QueuedNotRunning` is checked with one request at a time.  Two creations on one
  training can share a group number (`training.py:2005`), and the second queues
  the first one's jobs again, also one that runs.  The job waits in the queue
  until its pods end and is then run a second time.
- `NoOrphanPods` and `StopIsComplete` are checked without faults: `delete_pod`
  swallows errors, and the rows go although the pod stays.
- `NoOrphanPods` is checked without `delete_job`: it lists the pods before the lock
  (`training.py:2132`), and a job started in between loses its row but not its pod.
- `NoOvertaking` is checked, and proved, while every workspace is in its period.  Otherwise
  `delete_expired_pod` deletes entries in front of the loop's index (`utils/scheduler.py:318`):
  the loop steps over the items that move up, they reserve nothing, and a later one may take
  their node in this pass.
- `GuaranteeHeld` is checked, and proved, while guaranteed workspaces are in their period.
  While one is not, its quota is not kept free; when its period is extended, others may have
  taken it.
- `TakesTurns` is checked, and proved, without deletions of trainings: these take no
  lock, and remove the queue row of an item that a pass is about to start.
- `QueuedNotRunning` is checked without refused creations and restarts: pods made before
  the refusal or the restart stay, with the queue row.
- `StartIsCovered` is checked with one administrator at a time: check and write
  are not atomic.
- `OneItemPerTraining`, and with it the sums of nodes, quotas and guarantees, are false when
  the refresh at the start of a pass and the one after a creation both fail (see section 5).
- `EveryPodListed`, `NodeNotOversubscribed`, `QuotasHeld` and `GuaranteeHeld` of
  `InstantStart` except what follows from `missed`: the creator's own refresh failed; the
  creation raised although the pod was made, so that its refresh was left out
  (`kube_create_func.py:1155-1162`); or a pod was created while the stop of a worker, which
  refreshes without the lock, had asked for the list and not yet shared it.  After any of
  the three, a node can be given out twice until a later refresh, and the properties say
  nothing more.
- `StopSparesOthers` is about the workers that ran, and that every list had, when the stop
  began.  A worker that starts later can lose its services, although the comment at
  `deployment_worker.py:943` keeps them until all workers have ended: the stop deletes pods
  first and then services, without the lock.  One whose start has
  not refreshed yet, or that is `missed`, can be taken along with its pods, because the
  stop of what looks like the last worker removes all pods of the deployment.
- `QueuedLeaves` excepts the jobs that are `Stuck`: those that ask for more than their quota,
  or than there is beside the guarantees (`create_job` refuses neither, `training.py:2041`),
  and those that need a mode or node such a job reserves.  They wait for ever, and so do
  jobs of *other* workspaces behind them; the TODO at `utils/scheduler.py:18` is about that.
- `ReadyInRegistry` excepts the ready images that only Docker has and that an exception
  kept the check of this start from pushing: all when the hosts, the registry or the rows
  cannot be listed, else the one the exception was about and those behind it.
- `QuietRecoveryRestores` is about the users a recovery was asked for; the route may name
  some (`user.py:583`), and the rows of others stay as they are.
- `SavedWhenIdle` excepts a recovery that raised (`unsaved`): `user.py:599` skips the
  copy.
- The `Quiet...` properties of `Datasets` and `Accounts` are about requests that nothing
  disturbs; what a disturbed list may not do is `ListForgetsOnlyTouched`.
- The sync of one dataset can wait for ever: its handler clears the event at once
  (`datasets.py:1322`), maybe before the thread looks.  `WorkspaceSyncEnds` is about the
  sync of a workspace, whose event stays set.

`CHECK_DEADLOCK FALSE` is given for `images`, `scan` and `admins`: the number of images
and requests is bounded, so that these systems may come to rest, and in `scan` also with
the thread that waits for ever.

## 4. Fairness

`FairSpec` assumes weak fairness of the scheduler thread as a whole.  The loop of
`scheduler_work` never ends and catches every exception of a pass, and each step
of a pass is bounded work, so a thread that can take a step takes one.  It waits
for the lock only while a handler's locked body runs, which is one step of the
model.  Nothing is assumed of clients, pods or administrators.  `QueuedLeaves`
is conditional for that reason: it says what holds when all processes that run have ended
again and again.
No fairness among the choices of a step is assumed.

`ImageInstall` assumes strong fairness of the install thread and of the sync thread.
Both loop for ever and catch the exceptions of a round.  Each waits for
`image_sync_lock`, which the other takes again and again, so that it is free again and
again but not continuously; the sync thread sleeps 30 s between its rounds and the
install thread blocks on an empty queue, so neither keeps the lock from the other.
Requests are not assumed to go on, nor restarts to happen.

`Datasets` assumes weak fairness of every request's handler and of its thread: both are
threads that run to their end, and wait only for the event.  `InstantStart`, `Accounts`
and `WorkspaceReservation` state no liveness and assume no fairness.

## 5. What is proved

Each module of proofs has an inductive invariant: it holds initially, every step keeps
it, and it implies the property.  There is a lemma for each group of actions.  Every safety
property that a run checks is stated by a theorem, some under hypotheses (below).

### Sums and placements

Most of what the platform promises is about sums over sets of pods or rows, which the
models write with `MapThenSumSet`.  `SumLemmas` unfolds that fold once (`SumUnique`,
`SumOverIsSum`) and shows what the proofs use: a sum over a set with one element more
(`SumAdd`), over two disjoint sets (`SumUnion`), over a set that is mapped one to one into
another (`SumInjection`), in groups (`SumGroups`).  These are inductions over finite sets.
The library's induction theorems take a predicate as a parameter, which the provers cannot
instantiate; `StrongInduction` and `AddInduction` take the *set* of the subsets for which
the claim holds instead, and rest on the well-foundedness of proper inclusion.

`PlacementProofs` states what the search of `Placement` promises for any nodes and any list of
pods.  `GpuGangPlaced`: a gang uses no node twice, each part fits what its node has free, and
the parts add up to the request (`SplitPlaced` for the greedy split over a network group,
`IntraGangPlaced` for one node, `CpuGangPlaced` for a pod without GPUs).  `GangFound`: there is
a gang exactly when one node has the whole request free, or the nodes of one network group
have it together: the search misses no place that is there.  It needs that any nodes can
be put in order (`OrderExists`) and that in whatever order they hold the same in all
(`OrderSum`).

### Theorems

`JobSchedulerProofs` proves, for every value of the constants that satisfies the
assumptions of `Placement` and `JobScheduler`:

- `ControlTyped`: `Spec => []ControlTypeOK`, the half of the type invariant that is
  about rows, requests and the control of a pass.  It contains the foreign key
  (`queue \subseteq jobs`) and that a gang is created for an item of the pass.
- `OneItem`: `Reliable => (Spec => []OneItemPerTraining)`.  `Reliable` says that
  either no refresh at the start of a pass fails, or no created pod is missed by
  the list after it (no failed refresh after a creation, no creation that times out
  after it was accepted).  Refused creations, failed deletions, restarts and any
  number of racing requests are allowed.

The argument for `OneItem`.  The invariant is not inductive by itself: a pass
decides by `cache`, so two facts are added.  `ViewCovers`: while a pass collects or
scans, every training with a pod has one in `cache` (and at all times, when
refreshes may fail).  Handlers only remove pods, so they keep it; a creation adds
to `cache` what it adds to `pods`.  `GangAlone`: while a gang is created its
training has no pods but its own, which follows from `ViewCovers` when `Choose` is
taken and is kept because only the pass creates pods.  `ControlTypeOK` is needed to
know that indexes and jobs are what they seem.  The lemmas are one per group of
actions (`HandlerKeeps`, `SchedulerKeeps`, `EnvironmentKeeps`), with
`NoNewPodKeeps` for every step that only removes or ends pods.

From the same invariant:

- `TurnsImplemented`: `Spec => TakesTurns`, for `Reliable` instances in which no
  training is deleted.  Two more facts are needed.  `PassQueued`: what is left of a
  pass's list still has its queue row, and is there once.  Handlers that delete
  queue rows keep it because they wait for the lock; `Purge` keeps it because it
  deletes the same job from the table and from the list (`RemoveAtLeft`).
  `NoneDeleting`: no thread is past the start of a training's deletion.  Every step
  is then one of `Grow`, `Shrink`, `Launch`, which `TurnsSteps` maps to steps of
  `TrainingTurns`.

With more facts added to that invariant:

- `PodsHaveRows`: `Spec => []NoOrphanPods`, for `Reliable` instances without
  `delete_job`, `delete_training` and failed deletions of pods.  The job at hand still
  waits in the queue (`CurQueued`), so it has its row when its pod is made; `Purge`
  only deletes the row of a job whose training has no pod (`PurgedIdle`, from
  `ViewCovers`); and `StopJobs` removes, by a fresh list, the pods of every job whose
  row it deletes, for a stop is about jobs of its own training (`StopsItsOwn`).
  The run has one request at a time, the theorem any number.
- `WaitingNotRunning`: `Spec => []QueuedNotRunning`, and `StopsComplete`:
  `Spec => StopIsComplete`, for `Reliable` instances that are `Orderly`: requests one
  after the other, no refused or timed out creations, no restarts and no deletions of
  trainings (and for the second no failed deletions of pods).  `FreshJobs` says that the
  jobs a creation goes on to queue are unknown to queue and cluster, which follows from
  group numbers and ids that grow; `RanksMade` that the pods of the gang at hand are
  those made so far, so that no name is taken and nothing raises; `SeenStarted` that of
  the jobs a stop has seen running none waits but the one a pass is starting, so that
  under the lock, when no pass is, all that wait are deleted.

About GPUs `JobSchedulerProofs` proves:

- `TypesKept`: `Spec => []TypeOK`, with the placements (`GangInMode`: whatever the mode, a
  gang consists of nodes the job may use, and adds up).
- `NodesNotOversubscribed` and `QuotasKept`: `Spec => []NodeNotOversubscribed` and
  `Spec => []WithinQuota`, for `Reliable` instances.  A pass decides by `cache`, which may
  list pods that have gone or miss that one has ended, but while it looks for work lists a
  *twin* of every pod (`Covered`: same job, rank, node and GPUs).  Names are given once
  (`NamesDistinct`), so the pods of any class hold no more GPUs than their twins
  (`ClassTwins`), and what the pass found free is free.  It is then used over several steps:
  `GangFits` says that what the gang *still gets* (`Left`) fits its nodes and its quota,
  beside all there is.  Each creation moves one part from `Left` to the pods; everybody else
  only removes pods, because nobody else creates any while the pass holds the lock.
- `GuaranteesHeld`: `Spec => []GuaranteeHeld`, for `Reliable` instances with
  `GuaranteesSound`: guaranteed workspaces do not leave their period, and the guaranteed
  quotas add up to no more than the nodes have (else the property fails before a job is
  there).  The invariant bounds the GPUs of pods without a guarantee plus what a gang
  without one still gets; the sum of the guaranteed workspaces is split off by `SumGroups`.
- `NobodyOvertaken`: `Spec => NoOvertaking`, for instances whose workspaces stay in their
  period, and any faults.  `OrderInv`: each item the pass has gone past runs already, wants
  no GPU, or has every node it may use closed or blocked.  `Choose` gives out open nodes
  only (`GangInMode`).

`InstantStartProofs` proves, for every instance:

- `ListInvariant` and `PodsListed`: `Spec => []EveryPodListed`.  The invariant says that
  there is a revision `c` of the pods, after the last creation, from which on every list
  in circulation (shared, in a process's memory, or asked for and not yet shared) has
  every pod (`ListsFit`); and that, unless `missed`, no older list is or will be shared
  (`ListsRecent`).  A creation makes the next revision the new `c`: no list is as young
  yet, and the creator, who holds the lock, shares one that is before anybody decides
  again.  A removal keeps `c`, because fewer pods are easier to list.  `Control` says who
  is where and that versions do not exceed `revision`.
- `StartTypes`: `Spec => []TypeOK`, with lists that are finite sets of pods and a place that
  is one node.
- `NodesHold` and `QuotasHold`: `Spec => []NodeNotOversubscribed`, `Spec => []QuotasHeld`;
  and `GuaranteesHold`: `Spec => []GuaranteeHeld` if the nodes have what is guaranteed
  (`Spare >= 0`).  The invariant `FitInv` is about the
  pods and about the pods with the one that a start has been admitted to create, which may be
  pending while others remove theirs.  That the check of a start counts every pod is
  `PodsListed`; so all three have the exception of `missed`.
- `OthersSpared`: `Spec => StopSparesOthers`.  The list by which a stop takes its worker for
  the last one has every pod that ran then (`ListsSeen`), so a stop with somebody to spare
  has the worker itself for its target (`NotLast`); it then removes the pods it has found,
  which are those of its worker, for a worker's pod is made once, its id being handed out
  once (`ItemInvariant`), and it has no services.

`ImageInstallProofs` proves, for every instance, the five safety properties of the run.
`LifeInv` strengthens `InstallUndisturbed` and `InstallingIsReal` by what makes stale
writers harmless: an image that a request goes on to delete (`DeletionsSafe`), or that is
left in the sync thread's list (`CheckedSafe`), neither waits for its installation nor is
being installed, and never will be again, because a row is pending once, when its id is
handed out.  `OnlyAllowedMoves` follows step by step from it.  `ReadyPullable` adds
`PushedOrChecked`: a ready image that the registry lacks is still to be checked, or
was left by an exception of the check (`skipped`).

`DatasetsProofs` proves, for every instance, the four safety properties of the run.
The invariant describes each scan under way by what it has dealt with and what it has
still to come to: the folder of a row that was read and not met is still to come, or was
touched (`UnmetToCome`, for `OnlyTouchedForgotten`); and while nothing disturbs it
(`Quiet`) the rows not met stand, every other row has a folder, and every folder dealt
with has a row, in a sync at its place (for `ListSettles` and `SyncAligns`).

`AccountsProofs` proves, for every instance, the three properties of the run.  `Saved`:
when `/etc_host` is behind, a request is on its way to copy `/etc`, or a recovery raised.
`Quiet`: what an undisturbed recovery, of whichever users, has dealt with is put right or blocked, and an
account in the way of a row has been dealt with, or was in the way from the start.

`WorkspaceReservationProofs` proves, for every number of web threads, any table, any dates
and any length of a day:

- `ReservationsTyped`: `Spec => []TypeOK`.  Whatever races between the check of a request
  and its write, every row has an id and the type of a row.
- `PeaksFound`: `Spec => []AllocatedIsPeak`.  What is counted at a start or an end is held in
  one instant of the period (`CountedIsHeld`: at the start, and just before the end), and
  what is held in an instant is counted at the last start before it (`HeldIsCounted`).  It
  needs that every period in the table has an instant (`Ordered`).
- `PromisesKept`: `Spec => []CalendarKeepsPromise`.  Of those who hold GPUs in an instant of
  a day, either one starts or ends at a date in the day, and at one of these dates all of
  them are counted, or no date is in the day and all of the day's workspaces are
  (`DayCovers`).
- `StartsCovered`: `Spec => StartIsCovered` with one web thread (`OneRequest`).  What the
  check finds free in the period from the start to the start is at most what is free in that
  instant (`FreeAtStart`), and stays free until the row is written, since only deletions
  come in between (`FewerTakeLess`).  With two threads the property is false: both checks
  may precede both writes.

Assumptions.  The theorems rest on the named ASSUMEs of the modules alone, which say
that the constants have their types, that sets such as the nodes are finite, and that
markers such as `NoLock` are no requests; what a theorem needs besides (`Reliable`,
`Orderly`, `GuaranteesSound`, `OneRequest`, operations that are not offered) is in its
statement, and the runs satisfy it.  Section 3 says what happens without it.  Bounds such as `MaxRequests` are natural numbers of any size.

Only model-checked.  The liveness properties (`EndedCollected`, `ExpiredStopped`,
`QueuedLeaves`, `PendingSettles`, `DeletingGoes`, `WorkspaceSyncEnds`), which need fairness
and ENABLED, and the three properties that the code violates.

## 6. Findings

1. **Stopping group 0 stops every group** (`training_job.py:195`).  The docstring at
   line 228 promises that only the items of the group are ended.
2. **A training can be deleted while it runs** (`training.py:1084-1132`).  The
   comment at line 1070 says that only stopped trainings are deleted; the check is
   not atomic with the deletion, and the pod it leaves belongs to no row.
3. **Only the first instant of a reservation is checked** (`workspace.py:378`, `441`:
   `end_datetime=start_datetime`).  The rules at `utils/scheduler.py:13-16` are broken
   by a single administrator who reserves a period that begins before one that
   was given away earlier.

## 7. What is not modelled, and why

- Storage, node administration, benchmarks, the worker's network monitor and mfs are
  shell commands and screens around external systems: their state is not the
  program's.  The deployment trigger's loop is empty.  The frontend is a client.
- Hyperparameter searches: `training_hyperparam.py` and the second queue of
  `res_check` are there, but no route creates, stops or deletes a search.
- Pod records are written beside the modelled steps and read by reports only.
- Login sessions and user limits: sessions are rows of their own, and the limits are
  shown to clients but bind nothing.
- Network groups and CNI: administration of what is a constant of `Placement`.
- The rest of `deployment.py`, `training.py` and `utils/db.py`: templates, logs,
  statistics, downloads and plain reads.
- Of the lock: a process that is killed while it holds `jf_scheduler_lock` would keep
  it for ever (`lock.py:7`); the models let a restart drop all processes at once, as a
  restart of the container does.
- Two administrators at once (`workspace.py:416`, `workspace.py:811`): the actions are
  those of `WorkspaceReservation`, which is checked with one request at a time because
  nothing the code says holds with two.

## 8. Plan

1. *Creation and update of deployments* in `InstantStart`: the row is made before the
   folder, and the clean-up of a failed creation leaves it (`deployment.py:1874`).
2. *Finished jobs* in `TrainingTurns`: that a job whose run is over does not run
   again, for which creations that share a group number have to be told apart.
3. *The registry's address*: `check_registry_url_of_image` in `ImageInstall`, and the
   deletion of images with their owner or workspace.
4. *Login sessions* (`login.py:108`), *ports* (`utils/kube.py:2617`) and *network
   ranges*: check-then-act on rows, one module each.
