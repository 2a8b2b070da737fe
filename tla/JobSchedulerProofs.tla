------------------------- MODULE JobSchedulerProofs -------------------------
(***************************************************************************)
(* Theorems about JobScheduler for any number of jobs, trainings,          *)
(* workspaces, requests and nodes.                                         *)
(*                                                                         *)
(* In order: trainings run one item at a time; JobScheduler implements     *)
(* TrainingTurns; the rows and the pods of jobs; the GPUs of nodes, quotas *)
(* and guarantees; the order of the queue.                                 *)
(***************************************************************************)
EXTENDS JobScheduler, PlacementProofs, FiniteSetTheorems, SequenceTheorems, TLAPS

(* Either the list of a pass is always fresh, or no pod is ever created    *)
(* that the scheduler's list misses.                                       *)
Reliable == "list" \notin Faults \/ Faults \cap {"create_list", "timeout"} = {}

Busy(S, t) == \E p \in S : TrainingOf[p.job] = t

(* A pass that looks for work knows of every busy training; so does every  *)
(* pass to come when lists are only refreshed unreliably.                  *)
ViewCovers ==
  pc \in {"collect", "scan"} \/ "list" \in Faults
    => \A t \in Training : Busy(pods, t) => Busy(cache, t)

(* While a gang is created its training runs nothing else.                 *)
GangAlone ==
  pc = "create" => \A p \in pods : TrainingOf[p.job] = TrainingOf[cur] => p.job = cur

OneItemInv == ControlTypeOK /\ ViewCovers /\ GangAlone /\ OneItemPerTraining

------------------------------------------------------------------------------

(* The jobs of the queue in the order of their ids are a sequence of jobs. *)
LEMMA InIdOrderType ==
  ASSUME NEW S \in SUBSET JobId, NEW s \in InIdOrder(S)
  PROVE  s \in Seq(JobId)
<1>1. IsFiniteSet(JobId)
  BY FS_Interval, JobSchedulerAssumption DEF JobId
<1>2. Cardinality(S) \in Nat
  BY <1>1, FS_Subset, FS_CardinalityType
<1> QED
  BY <1>2 DEF InIdOrder

(* Deleting the entry at an index (delete_expired_pod) leaves a sequence   *)
(* one shorter.                                                            *)
LEMMA RemoveAtType ==
  ASSUME NEW S, NEW s \in Seq(S), NEW i \in 1 .. Len(s)
  PROVE  RemoveAt(s, i) \in Seq(S) /\ Len(RemoveAt(s, i)) = Len(s) - 1
<1> DEFINE a == SubSeq(s, 1, i - 1)
           b == SubSeq(s, i + 1, Len(s))
<1>1. RemoveAt(s, i) = a \o b
  BY Zenon DEF RemoveAt
<1>2. a \in Seq(S) /\ Len(a) = i - 1
  OBVIOUS
<1>3. b \in Seq(S) /\ Len(b) = Len(s) - i
  OBVIOUS
<1> HIDE DEF a, b
<1>4. a \o b \in Seq(S) /\ Len(a \o b) = Len(a) + Len(b)
  BY <1>2, <1>3, ConcatProperties, Zenon
<1> QED
  BY <1>1, <1>2, <1>3, <1>4

(* An empty database and an idle scheduler have their types.               *)
LEMMA InitTypes == Init => ControlTypeOK
<1>1. NoRequest \in RequestState
  BY DEF RequestState
<1>2. Init => podQueue \in Seq(JobId)
  BY DEF Init
<1> QED
  BY <1>1, <1>2, JobSchedulerAssumption DEF Init, ControlTypeOK

(* Answering a request, or moving on with it, keeps the type of requests.  *)
LEMMA RequestTypes ==
  ASSUME req \in [Request -> RequestState], NEW r \in Request
  PROVE  /\ \A q \in RequestState : Become(r, q) => req' \in [Request -> RequestState]
         /\ Answer(r) => req' \in [Request -> RequestState]
         /\ \A at \in CreatePcs :
              req[r].pc \in CreatePcs /\ Goto(r, at) => req' \in [Request -> RequestState]
         /\ \A at \in EndPcs :
              req[r].pc \in EndPcs /\ Goto(r, at) => req' \in [Request -> RequestState]
<1>1. ASSUME NEW q \in RequestState, Become(r, q)
      PROVE  req' \in [Request -> RequestState]
  BY <1>1 DEF Become
<1>2. NoRequest \in RequestState
  BY DEF RequestState
<1> DEFINE At(at) ==
      Serving(at, req[r].training, req[r].group, req[r].jobs, req[r].running)
<1>3. ASSUME NEW at \in CreatePcs, req[r].pc \in CreatePcs
      PROVE  At(at) \in RequestState
  BY <1>3 DEF RequestState, Serving, NoRequest, CreatePcs, EndPcs
<1>4. ASSUME NEW at \in EndPcs, req[r].pc \in EndPcs
      PROVE  At(at) \in RequestState
  BY <1>4 DEF RequestState, Serving, NoRequest, CreatePcs, EndPcs
<1> QED
  BY <1>1, <1>2, <1>3, <1>4 DEF Answer, Goto

(* A step of a request keeps the type invariant.                           *)
LEMMA HandlerTypes ==
  ASSUME ControlTypeOK, NEW r \in Request, Handler(r)
  PROVE  ControlTypeOK'
<1> USE DEF ControlTypeOK, db, pass
<1>a. \A t : JobsOf(t) \in SUBSET JobId
  BY DEF JobsOf
<1>0. MaxJobs \in Nat /\ TrainingOf \in [JobId -> Training] /\ JobId \subseteq 1 .. MaxJobs
  BY JobSchedulerAssumption DEF JobId
<1>1. ASSUME NEW t \in Training, NEW g \in 0 .. MaxJobs, GetGroupNumber(r, t, g)
      PROVE  ControlTypeOK'
  <2>1. Serving("insert", t, g, {}, {}) \in RequestState
    BY <1>0 DEF RequestState, CreatePcs, Serving
  <2> QED
    BY <1>1, <2>1, RequestTypes DEF GetGroupNumber
<1>2. ASSUME NEW batch \in SUBSET JobId, InsertJobs(r, batch)
      PROVE  ControlTypeOK'
  <2>1. req' \in [Request -> RequestState]
    BY <1>2, RequestTypes DEF InsertJobs, CreatePcs
  <2>2. req[r].group \in Nat
    <3>1. req[r].pc = "insert" /\ req[r] \in RequestState
      BY <1>2 DEF InsertJobs
    <3> QED
      BY <3>1 DEF RequestState, NoRequest, CreatePcs, EndPcs
  <2>3. lastId' \in 0 .. MaxJobs
    BY <1>0, <1>2 DEF InsertJobs
  <2> QED
    BY <1>2, <2>1, <2>2, <2>3 DEF InsertJobs
<1>3. CASE ReadGroup(r)
  <2>1. req[r].pc = "read" /\ req[r] \in RequestState
    BY <1>3 DEF ReadGroup
  <2>2. \A js \in SUBSET JobId :
          Serving("enqueue", req[r].training, req[r].group, js, {}) \in RequestState
    BY <2>1 DEF RequestState, NoRequest, CreatePcs, EndPcs, Serving
  <2>3. {j \in JobsOf(req[r].training) : group[j] = req[r].group} \in SUBSET JobId
    BY <1>a
  <2>4. req' \in [Request -> RequestState]
    BY <1>3, <2>2, <2>3, RequestTypes DEF ReadGroup
  <2> QED
    BY <1>3, <2>4 DEF ReadGroup
<1>4. CASE Enqueue(r)
  BY <1>4, RequestTypes DEF Enqueue
<1>5. ASSUME NEW op, NEW at \in EndPcs, NEW t \in Training, NEW g \in Nat \cup {NoGroup},
             NEW js \in SUBSET JobId, Open(r, op, at, t, g, js)
      PROVE  ControlTypeOK'
  <2>1. Serving(at, t, g, js, {p.job : p \in pods}) \in RequestState
    BY DEF RequestState, Serving
  <2> QED
    BY <1>5, <2>1, RequestTypes DEF Open
<1>6. ASSUME NEW t \in Training, OpenStopJobs(r, t) \/ OpenStopTraining(r, t) \/ OpenDeleteTraining(r, t)
      PROVE  ControlTypeOK'
  <2>1. {"stop_jobs", "stop_training", "check_stopped"} \subseteq EndPcs
    BY DEF EndPcs
  <2>2. JobsOf(t) \in SUBSET JobId /\ {} \in SUBSET JobId
    BY <1>a
  <2> QED
    BY <1>5, <1>6, <2>1, <2>2 DEF OpenStopJobs, OpenStopTraining, OpenDeleteTraining
<1>7. ASSUME NEW t \in Training, NEW g \in 0 .. MaxJobs, OpenStopGroup(r, t, g)
      PROVE  ControlTypeOK'
  <2>1. "stop_jobs" \in EndPcs /\ g \in Nat
    BY <1>0 DEF EndPcs
  <2>2. JobsOf(t) \in SUBSET JobId
    BY <1>a
  <2> QED
    BY <1>5, <1>7, <2>1, <2>2 DEF OpenStopGroup
<1>8. ASSUME NEW j \in JobId, OpenStopJob(r, j)
      PROVE  ControlTypeOK'
  <2>1. "stop_job" \in EndPcs /\ TrainingOf[j] \in Training /\ {j} \in SUBSET JobId
    BY <1>0 DEF EndPcs
  <2> QED
    BY <1>5, <1>8, <2>1 DEF OpenStopJob
<1>9. ASSUME NEW js \in SUBSET JobId, OpenDeleteJob(r, js)
      PROVE  ControlTypeOK'
  <2>1. "delete_job" \in EndPcs
    BY DEF EndPcs
  <2> QED
    BY <1>5, <1>9, <2>1 DEF OpenDeleteJob
<1>10. CASE StopJobs(r)
  <2>1. req' \in [Request -> RequestState]
    BY <1>10, RequestTypes DEF StopJobs, EndPcs
  <2>2. jobs' \subseteq jobs /\ queue' \subseteq jobs' /\ pods' \subseteq pods
    BY <1>10 DEF StopJobs, DeletePods
  <2> QED
    BY <1>10, <2>1, <2>2 DEF StopJobs
<1>11. CASE RemoveAll(r) \/ StopJob(r) \/ CheckStopped(r)
  <2>1. req' \in [Request -> RequestState]
    BY <1>11, RequestTypes DEF RemoveAll, StopJob, CheckStopped, EndPcs
  <2>2. pods' \subseteq pods
    BY <1>11 DEF RemoveAll, StopJob, CheckStopped, DeletePods
  <2> QED
    BY <1>11, <2>1, <2>2 DEF RemoveAll, StopJob, CheckStopped
<1>12. CASE DeleteJob(r) \/ DeleteTraining(r)
  <2>1. pods' \subseteq pods
    BY <1>12 DEF DeleteJob, DeleteTraining, DeletePods
  <2> QED
    BY <1>12, <2>1, RequestTypes DEF DeleteJob, DeleteTraining
<1> QED
  BY <1>1, <1>2, <1>3, <1>4, <1>6, <1>7, <1>8, <1>9, <1>10, <1>11, <1>12 DEF Handler

(* So does a step of the scheduler.                                        *)
LEMMA SchedulerTypes ==
  ASSUME ControlTypeOK, Scheduler
  PROVE  ControlTypeOK'
<1> USE DEF ControlTypeOK, db, pass
<1>0. Idle => /\ pc' = "idle" /\ podQueue' \in Seq(JobId) /\ idx' \in Nat \ {0}
              /\ made' \in Nat
  BY DEF Idle
<1>1. CASE Refresh
  BY <1>1 DEF Refresh
<1>2. CASE Collect
  <2>1. pods' \subseteq pods
    BY <1>2 DEF Collect, DeletePods
  <2>2. CASE queue = {}
    BY <1>0, <1>2, <2>1, <2>2 DEF Collect
  <2>3. CASE queue # {}
    <3>1. podQueue' \in Seq(JobId)
      BY <1>2, <2>3, InIdOrderType DEF Collect
    <3> QED
      BY <1>2, <2>1, <2>3, <3>1 DEF Collect
  <2> QED
    BY <2>2, <2>3
<1>3. CASE Skip
  BY <1>3 DEF Skip
<1>4. CASE Purge
  <2>1. /\ idx \in 1 .. Len(podQueue) /\ podQueue[idx] \in JobId
        /\ RemoveAt(podQueue, idx) \in Seq(JobId)
        /\ Len(RemoveAt(podQueue, idx)) = Len(podQueue) - 1
    BY <1>4, RemoveAtType DEF Purge
  <2>2. idx < Len(podQueue) => RemoveAt(RemoveAt(podQueue, idx), idx) \in Seq(JobId)
    BY <2>1, RemoveAtType
  <2>3. /\ podQueue' \in Seq(JobId) /\ idx' \in Nat \ {0} /\ pc' \in {"idle", "scan"}
        /\ made' \in Nat
    BY <1>0, <1>4, <2>1, <2>2 DEF Purge
  <2> QED
    BY <1>4, <2>3 DEF Purge
<1>5. CASE Reserve
  BY <1>5 DEF Reserve
<1>6. CASE Choose
  BY <1>6 DEF Choose
<1>7. CASE EndPass
  BY <1>0, <1>7 DEF EndPass
<1>8. NextPod.job = cur /\ (pc = "create" => cur \in JobId)
  BY DEF NextPod, cur
<1>9. CASE CreatePod
  BY <1>8, <1>9 DEF CreatePod
<1>10. CASE CreateRaises
  BY <1>0, <1>8, <1>10 DEF CreateRaises
<1>11. CASE Dequeue
  BY <1>0, <1>11 DEF Dequeue
<1> QED
  BY <1>1, <1>2, <1>3, <1>4, <1>5, <1>6, <1>7, <1>9, <1>10, <1>11 DEF Scheduler, Scan

(* Pods that end, workspaces that expire and restarts keep the types.      *)
LEMMA EnvironmentTypes ==
  ASSUME ControlTypeOK, Environment
  PROVE  ControlTypeOK'
<1> USE DEF ControlTypeOK, db, pass
<1>1. ASSUME NEW p \in pods, PodEnds(p)
      PROVE  ControlTypeOK'
  <2>1. Ended(p).job = p.job
    BY DEF Ended
  <2> QED
    BY <1>1, <2>1 DEF PodEnds
<1>2. ASSUME NEW w \in Workspace, Expire(w) \/ Extend(w)
      PROVE  ControlTypeOK'
  BY <1>2, JobSchedulerAssumption DEF Expire, Extend
<1>3. CASE Restart
  <2>1. NoRequest \in RequestState
    BY DEF RequestState
  <2>2. /\ pc' = "idle" /\ podQueue' \in Seq(JobId) /\ idx' \in Nat \ {0}
        /\ made' \in Nat
    BY <1>3 DEF Restart, Idle
  <2> QED
    BY <1>3, <2>1, <2>2 DEF Restart
<1> QED
  BY <1>1, <1>2, <1>3 DEF Environment

(* So does a step that changes nothing.                                    *)
LEMMA StutterTypes ==
  ASSUME ControlTypeOK, UNCHANGED vars
  PROVE  ControlTypeOK'
  BY DEF ControlTypeOK, vars, db, pass

(* The rows, the requests and the control of a pass keep their types:      *)
(* whatever handlers do in the middle of a pass, a queue row has its job   *)
(* (the foreign key), and a gang is created for an item of the pass.       *)
THEOREM ControlTyped == Spec => []ControlTypeOK
<1>1. ControlTypeOK /\ [Next]_vars => ControlTypeOK'
  BY HandlerTypes, SchedulerTypes, EnvironmentTypes, StutterTypes DEF Next
<1> QED
  BY <1>1, InitTypes, PTL DEF Spec

------------------------------------------------------------------------------
(* One item per training                                                   *)

(* A step that creates no pod: every pod is, up to its ended flag, one     *)
(* that was there before.                                                  *)
NoNewPod == \A p \in pods' : \E q \in pods : q.job = p.job

(* What removes pods or ends them, and leaves the pass alone, keeps the    *)
(* invariant.                                                              *)
LEMMA NoNewPodKeeps ==
  ASSUME ViewCovers, GangAlone, OneItemPerTraining, NoNewPod,
         UNCHANGED <<pc, cache, podQueue, idx>>
  PROVE  ViewCovers' /\ GangAlone' /\ OneItemPerTraining'
<1>1. \A t \in Training : Busy(pods, t)' => Busy(pods, t)
  BY DEF NoNewPod, Busy
<1>2. \A t \in Training : Busy(cache, t)' = Busy(cache, t)
  BY DEF Busy
<1>3. ViewCovers'
  BY <1>1, <1>2 DEF ViewCovers
<1>4. GangAlone'
  BY DEF GangAlone, NoNewPod, cur
<1>5. OneItemPerTraining'
  BY DEF OneItemPerTraining, NoNewPod
<1> QED
  BY <1>3, <1>4, <1>5

(* Every request, and what happens outside, is such a step.                *)
LEMMA HandlerKeeps ==
  ASSUME NEW r \in Request, Handler(r)
  PROVE  NoNewPod /\ UNCHANGED <<pc, cache, podQueue, idx>>
<1> USE DEF NoNewPod, db, pass
<1>1. ASSUME NEW t \in Training, NEW g \in 0 .. MaxJobs, GetGroupNumber(r, t, g)
      PROVE  NoNewPod /\ UNCHANGED <<pc, cache, podQueue, idx>>
  BY <1>1 DEF GetGroupNumber
<1>2. ASSUME NEW batch \in SUBSET JobId, InsertJobs(r, batch)
      PROVE  NoNewPod /\ UNCHANGED <<pc, cache, podQueue, idx>>
  BY <1>2 DEF InsertJobs
<1>3. CASE ReadGroup(r) \/ Enqueue(r) \/ CheckStopped(r) \/ DeleteTraining(r)
  BY <1>3 DEF ReadGroup, Enqueue, CheckStopped, DeleteTraining
<1>4. ASSUME NEW op, NEW at, NEW t, NEW g, NEW js, Open(r, op, at, t, g, js)
      PROVE  NoNewPod /\ UNCHANGED <<pc, cache, podQueue, idx>>
  BY <1>4 DEF Open
<1>5. ASSUME NEW t \in Training,
             OpenStopJobs(r, t) \/ OpenStopTraining(r, t) \/ OpenDeleteTraining(r, t)
      PROVE  NoNewPod /\ UNCHANGED <<pc, cache, podQueue, idx>>
  BY <1>4, <1>5 DEF OpenStopJobs, OpenStopTraining, OpenDeleteTraining
<1>6. ASSUME NEW t \in Training, NEW g \in 0 .. MaxJobs, OpenStopGroup(r, t, g)
      PROVE  NoNewPod /\ UNCHANGED <<pc, cache, podQueue, idx>>
  BY <1>4, <1>6 DEF OpenStopGroup
<1>7. ASSUME NEW j \in JobId, OpenStopJob(r, j)
      PROVE  NoNewPod /\ UNCHANGED <<pc, cache, podQueue, idx>>
  BY <1>4, <1>7 DEF OpenStopJob
<1>8. ASSUME NEW js \in SUBSET JobId, OpenDeleteJob(r, js)
      PROVE  NoNewPod /\ UNCHANGED <<pc, cache, podQueue, idx>>
  BY <1>4, <1>8 DEF OpenDeleteJob
<1>9. CASE StopJobs(r) \/ RemoveAll(r) \/ StopJob(r) \/ DeleteJob(r)
  <2>1. pods' \subseteq pods
    BY <1>9 DEF StopJobs, RemoveAll, StopJob, DeleteJob, DeletePods
  <2> QED
    BY <1>9, <2>1 DEF StopJobs, RemoveAll, StopJob, DeleteJob
<1> QED
  BY <1>1, <1>2, <1>3, <1>5, <1>6, <1>7, <1>8, <1>9 DEF Handler

(* The list a pass works with is fresh, or nothing was created that it     *)
(* could miss; so an item is only chosen for a training without pods.      *)
LEMMA SchedulerKeeps ==
  ASSUME Reliable, OneItemInv, Scheduler
  PROVE  ViewCovers' /\ GangAlone' /\ OneItemPerTraining'
<1> USE DEF OneItemInv, ViewCovers, GangAlone, OneItemPerTraining, Busy, db, pass
<1>1. CASE Refresh
  BY <1>1 DEF Refresh
<1>2. CASE Collect
  <2>1. pods' \subseteq pods /\ cache' = cache /\ pc' \in {"idle", "scan"}
    BY <1>2 DEF Collect, DeletePods, Idle
  <2>2. pc = "collect"
    BY <1>2 DEF Collect
  <2> QED
    BY <2>1, <2>2
<1>3. CASE Skip \/ Reserve \/ EndPass \/ Purge
  <2>1. pods' = pods /\ cache' = cache /\ pc = "scan" /\ pc' \in {"scan", "idle"}
    BY <1>3 DEF Skip, Reserve, EndPass, Purge, Idle
  <2> QED
    BY <2>1
<1>4. CASE Choose
  <2>1. /\ pc = "scan" /\ pc' = "create"
        /\ pods' = pods /\ cache' = cache /\ cur' = cur
    BY <1>4 DEF Choose, cur
  <2>2. cur \in JobId /\ TrainingOf[cur] \in Training
    BY <1>4, JobSchedulerAssumption DEF Choose, cur, ControlTypeOK
  <2>3. ~Busy(cache, TrainingOf[cur])
    BY <1>4 DEF Choose, Skipped, RunningTraining
  <2>4. ~Busy(pods, TrainingOf[cur])
    BY <2>1, <2>2, <2>3
  <2> QED
    BY <2>1, <2>4
<1>5. NextPod.job = cur
  BY DEF NextPod
<1>6. CASE CreatePod
  <2>1. /\ pc = "create" /\ pc' = "create" /\ cur' = cur
        /\ pods' = pods \cup {NextPod}
        /\ cache' = pods' \/ ("create_list" \in Faults /\ cache' = cache)
    BY <1>6 DEF CreatePod, cur
  <2>2. ViewCovers'
    BY <2>1 DEF Reliable
  <2>3. GangAlone' /\ OneItemPerTraining'
    BY <1>5, <2>1
  <2> QED
    BY <2>2, <2>3
<1>7. CASE CreateRaises
  <2>1. /\ pc = "create" /\ pc' = "idle" /\ cache' = cache
        /\ \/ pods' = pods
           \/ "timeout" \in Faults /\ pods' = pods \cup {NextPod}
    BY <1>7 DEF CreateRaises, Idle
  <2>2. ViewCovers'
    BY <2>1 DEF Reliable
  <2>3. GangAlone' /\ OneItemPerTraining'
    BY <1>5, <2>1
  <2> QED
    BY <2>2, <2>3
<1>8. CASE Dequeue
  <2>1. pods' = pods /\ cache' = cache /\ pc = "create" /\ pc' = "idle"
    BY <1>8 DEF Dequeue, Idle
  <2> QED
    BY <2>1
<1> QED
  BY <1>1, <1>2, <1>3, <1>4, <1>6, <1>7, <1>8 DEF Scheduler, Scan

(* Neither a pod that ends, a period that ends, nor a restart (which lists *)
(* the pods anew and drops the pass) breaks the invariant.                 *)
LEMMA EnvironmentKeeps ==
  ASSUME OneItemInv, Environment
  PROVE  ViewCovers' /\ GangAlone' /\ OneItemPerTraining'
<1> USE DEF db, pass
<1>1. ASSUME NEW p \in pods, PodEnds(p)
      PROVE  ViewCovers' /\ GangAlone' /\ OneItemPerTraining'
  <2>1. Ended(p).job = p.job
    BY DEF Ended
  <2>2. NoNewPod /\ UNCHANGED <<pc, cache, podQueue, idx>>
    BY <1>1, <2>1 DEF PodEnds, NoNewPod
  <2> QED
    BY <2>2, NoNewPodKeeps DEF OneItemInv
<1>2. ASSUME NEW w \in Workspace, Expire(w) \/ Extend(w)
      PROVE  ViewCovers' /\ GangAlone' /\ OneItemPerTraining'
  <2>1. NoNewPod /\ UNCHANGED <<pc, cache, podQueue, idx>>
    BY <1>2 DEF Expire, Extend, NoNewPod
  <2> QED
    BY <2>1, NoNewPodKeeps DEF OneItemInv
<1>3. CASE Restart
  <2>1. pods' = pods /\ cache' = pods /\ pc' = "idle"
    BY <1>3 DEF Restart, Idle
  <2> QED
    BY <2>1 DEF OneItemInv, ViewCovers, GangAlone, OneItemPerTraining, Busy
<1> QED
  BY <1>1, <1>2, <1>3 DEF Environment

(* The invariant is inductive: it holds at the start, and every step keeps *)
(* it.                                                                     *)
LEMMA OneItemInit == Init => OneItemInv
<1> SUFFICES ASSUME Init PROVE OneItemInv
  OBVIOUS
<1>1. pods = {} /\ pc = "idle"
  BY DEF Init
<1> QED
  BY <1>1, InitTypes DEF OneItemInv, ViewCovers, GangAlone, OneItemPerTraining, Busy

(* Every step keeps the invariant.                                         *)
LEMMA OneItemNext ==
  ASSUME Reliable, OneItemInv, [Next]_vars
  PROVE  OneItemInv'
<1>1. ControlTypeOK'
  BY HandlerTypes, SchedulerTypes, EnvironmentTypes, StutterTypes DEF Next, OneItemInv
<1>2. ViewCovers' /\ GangAlone' /\ OneItemPerTraining'
  <2>1. CASE Scheduler
    BY <2>1, SchedulerKeeps
  <2>2. ASSUME NEW r \in Request, Handler(r)
        PROVE  ViewCovers' /\ GangAlone' /\ OneItemPerTraining'
    BY <2>2, HandlerKeeps, NoNewPodKeeps DEF OneItemInv
  <2>3. CASE Environment
    BY <2>3, EnvironmentKeeps
  <2>4. CASE UNCHANGED vars
    <3>1. NoNewPod /\ UNCHANGED <<pc, cache, podQueue, idx>>
      BY <2>4 DEF vars, pass, NoNewPod
    <3> QED
      BY <3>1, NoNewPodKeeps DEF OneItemInv
  <2> QED
    BY <2>1, <2>2, <2>3, <2>4 DEF Next
<1> QED
  BY <1>1, <1>2 DEF OneItemInv

(* Whatever requests, restarts and creation faults do, only one item of a  *)
(* training runs, as long as either a pass always gets a fresh list, or a  *)
(* created pod is always in the next list.                                 *)
THEOREM OneItem == ASSUME Reliable PROVE Spec => []OneItemPerTraining
<1>1. OneItemInv /\ [Next]_vars => OneItemInv'
  BY OneItemNext
<1>2. OneItemInv => OneItemPerTraining
  BY DEF OneItemInv
<1> QED
  BY <1>1, <1>2, OneItemInit, PTL DEF Spec

------------------------------------------------------------------------------
(* JobScheduler implements TrainingTurns, for any instance in which no     *)
(* training is deleted (and pod lists can be relied on).                   *)

RunningJobs == {p.job : p \in pods}

(* No web thread is deleting a training.                                   *)
NoneDeleting ==
  \A r \in Request : req[r].pc \notin {"check_stopped", "delete_training"}

(* What is left of a pass's list still waits in the database, each job once.*)
EachOnce(s) == \A i, k \in DOMAIN s : i < k => s[i] # s[k]
LeftIn(s, i, Q) == \A k \in i .. Len(s) : s[k] \in Q
PassQueued ==
  pc \in {"scan", "create"} => EachOnce(podQueue) /\ LeftIn(podQueue, idx, queue)

TurnsInv == OneItemInv /\ NoneDeleting /\ PassQueued

(* The steps of TrainingTurns, as seen from JobScheduler.                  *)
Grow == queue \subseteq queue' /\ RunningJobs' = RunningJobs
Shrink == queue' \subseteq queue /\ RunningJobs' \subseteq RunningJobs
Launch ==
  \E j \in queue : /\ \A p \in pods : TrainingOf[p.job] # TrainingOf[j]
                   /\ RunningJobs' = RunningJobs \cup {j}
                   /\ queue' = queue

------------------------------------------------------------------------------

(* Each of them is one.                                                    *)
LEMMA TurnsSteps ==
  ASSUME ControlTypeOK, ControlTypeOK', Grow \/ Shrink \/ Launch
  PROVE  Turns!Next
<1>1. queue \subseteq JobId /\ queue' \subseteq JobId
  BY DEF ControlTypeOK
<1>2. CASE Grow
  <2>1. queue' = queue \cup queue'
    BY <1>2 DEF Grow
  <2>2. Turns!Submit(queue')
    BY <1>2, <2>1 DEF Grow, RunningJobs, Turns!Submit
  <2> QED
    BY <1>1, <2>2 DEF Turns!Next
<1>3. CASE Shrink
  <2>1. Turns!Leave
    BY <1>3 DEF Shrink, RunningJobs, Turns!Leave
  <2> QED
    BY <2>1 DEF Turns!Next
<1>4. CASE Launch
  <2>1. PICK j \in queue : /\ \A p \in pods : TrainingOf[p.job] # TrainingOf[j]
                           /\ RunningJobs' = RunningJobs \cup {j}
                           /\ queue' = queue
    BY <1>4 DEF Launch
  <2>2. Turns!Start(j)
    BY <2>1 DEF RunningJobs, Turns!Start
  <2> QED
    BY <1>1, <2>2 DEF Turns!Next
<1> QED
  BY <1>2, <1>3, <1>4

(* The list of a pass has every waiting job once.                          *)
LEMMA InIdOrderLeft ==
  ASSUME NEW S \in SUBSET JobId, NEW s \in InIdOrder(S)
  PROVE  EachOnce(s) /\ \A k \in 1 .. Len(s) : s[k] \in S
<1>1. IsFiniteSet(JobId) /\ JobId \subseteq Int
  BY FS_Interval, JobSchedulerAssumption DEF JobId
<1>2. Cardinality(S) \in Nat
  BY <1>1, FS_Subset, FS_CardinalityType
<1>3. /\ s \in [1 .. Cardinality(S) -> S] /\ DOMAIN s = 1 .. Cardinality(S)
      /\ \A i, k \in DOMAIN s : i < k => s[i] < s[k]
  BY DEF InIdOrder
<1>4. s \in Seq(S) /\ Len(s) = Cardinality(S)
  BY <1>2, <1>3
<1>5. \A i, k \in DOMAIN s : i < k => s[i] # s[k]
  <2> SUFFICES ASSUME NEW i \in DOMAIN s, NEW k \in DOMAIN s, i < k
               PROVE  s[i] # s[k]
    OBVIOUS
  <2>1. s[i] \in Int /\ s[k] \in Int /\ s[i] < s[k]
    BY <1>1, <1>3
  <2> QED
    BY <2>1
<1> QED
  BY <1>3, <1>4, <1>5 DEF EachOnce

(* What is left after the entry at an index is deleted: it was behind it,  *)
(* and differs from it.                                                    *)
LEMMA RemoveAtLeft ==
  ASSUME NEW S, NEW s \in Seq(S), NEW i \in 1 .. Len(s), NEW Q,
         EachOnce(s), LeftIn(s, i, Q)
  PROVE  EachOnce(RemoveAt(s, i)) /\ LeftIn(RemoveAt(s, i), i, Q \ {s[i]})
<1> DEFINE t == RemoveAt(s, i)
           a == SubSeq(s, 1, i - 1)
           b == SubSeq(s, i + 1, Len(s))
<1>1. t \in Seq(S) /\ Len(t) = Len(s) - 1
  BY RemoveAtType
<1>2. t = a \o b
  BY Zenon DEF RemoveAt
<1>3. /\ a \in Seq(S) /\ Len(a) = i - 1
      /\ \A k \in 1 .. i - 1 : a[k] = s[k]
  OBVIOUS
<1>4. /\ b \in Seq(S) /\ Len(b) = Len(s) - i
      /\ \A k \in 1 .. Len(s) - i : b[k] = s[k + i]
  OBVIOUS
<1> HIDE DEF a, b
<1>5. \A k \in 1 .. Len(s) - 1 : t[k] = IF k < i THEN s[k] ELSE s[k + 1]
  BY <1>2, <1>3, <1>4
<1> HIDE DEF t
<1>6. EachOnce(t)
  <2> SUFFICES ASSUME NEW m \in DOMAIN t, NEW n \in DOMAIN t, m < n
               PROVE  t[m] # t[n]
    BY DEF EachOnce
  <2>1. m \in 1 .. Len(s) - 1 /\ n \in 1 .. Len(s) - 1 /\ DOMAIN s = 1 .. Len(s)
    BY <1>1
  <2> DEFINE x == IF m < i THEN m ELSE m + 1
             y == IF n < i THEN n ELSE n + 1
  <2>2. t[m] = s[x] /\ t[n] = s[y]
    BY <1>5, <2>1
  <2>3. x \in DOMAIN s /\ y \in DOMAIN s /\ x < y
    BY <2>1
  <2> QED
    BY <2>2, <2>3 DEF EachOnce
<1>7. LeftIn(t, i, Q \ {s[i]})
  <2> SUFFICES ASSUME NEW k \in i .. Len(t)
               PROVE  t[k] \in Q \ {s[i]}
    BY DEF LeftIn
  <2>1. t[k] = s[k + 1] /\ k + 1 \in i .. Len(s) /\ k + 1 \in DOMAIN s /\ i < k + 1
    BY <1>1, <1>5
  <2>2. s[k + 1] \in Q
    BY <2>1 DEF LeftIn
  <2>3. s[i] # s[k + 1]
    BY <2>1 DEF EachOnce
  <2> QED
    BY <2>1, <2>2, <2>3
<1> QED
  BY <1>6, <1>7 DEF t

(* A request submits jobs, or lets them leave; it only takes waiting jobs  *)
(* away while the scheduler is idle.                                       *)
LEMMA HandlerTurns ==
  ASSUME "delete_training" \notin Ops, ControlTypeOK, NoneDeleting,
         NEW r \in Request, Handler(r)
  PROVE  /\ Grow \/ Shrink
         /\ queue \subseteq queue' \/ pc = "idle"
         /\ NoneDeleting'
<1> USE DEF Grow, Shrink, RunningJobs, db, pass
<1>0. req \in [Request -> RequestState]
  BY DEF ControlTypeOK
<1>a. ASSUME NEW q, Become(r, q), q.pc \notin {"check_stopped", "delete_training"}
      PROVE  NoneDeleting'
  BY <1>0, <1>a DEF Become, NoneDeleting
<1>b. NoRequest.pc \notin {"check_stopped", "delete_training"}
  BY DEF NoRequest
<1>c. \A at, t, g, js, running : Serving(at, t, g, js, running).pc = at
  BY DEF Serving
<1>1. ASSUME NEW t \in Training, NEW g \in 0 .. MaxJobs, GetGroupNumber(r, t, g)
      PROVE  queue' = queue /\ pods' = pods /\ NoneDeleting'
  BY <1>1, <1>a, <1>c DEF GetGroupNumber
<1>2. ASSUME NEW batch \in SUBSET JobId, InsertJobs(r, batch)
      PROVE  queue' = queue /\ pods' = pods /\ NoneDeleting'
  BY <1>2, <1>a, <1>c DEF InsertJobs, Goto
<1>3. CASE ReadGroup(r)
  <2>1. NoneDeleting'
    BY <1>3, <1>a, <1>b, <1>c DEF ReadGroup, Answer
  <2> QED
    BY <1>3, <2>1 DEF ReadGroup
<1>4. CASE Enqueue(r)
  <2>1. NoneDeleting'
    BY <1>4, <1>a, <1>b DEF Enqueue, Answer
  <2>2. queue \subseteq queue' /\ pods' = pods
    BY <1>4 DEF Enqueue
  <2> QED
    BY <2>1, <2>2
<1>5. ASSUME NEW op, NEW at, NEW t, NEW g, NEW js, Open(r, op, at, t, g, js),
             at \in {"stop_jobs", "stop_training", "stop_job", "delete_job"}
      PROVE  queue' = queue /\ pods' = pods /\ NoneDeleting'
  BY <1>5, <1>a, <1>c DEF Open
<1>6. ASSUME NEW t \in Training, OpenStopJobs(r, t) \/ OpenStopTraining(r, t)
      PROVE  queue' = queue /\ pods' = pods /\ NoneDeleting'
  BY <1>5, <1>6 DEF OpenStopJobs, OpenStopTraining
<1>7. ASSUME NEW t \in Training, NEW g \in 0 .. MaxJobs, OpenStopGroup(r, t, g)
      PROVE  queue' = queue /\ pods' = pods /\ NoneDeleting'
  BY <1>5, <1>7 DEF OpenStopGroup
<1>8. ASSUME NEW j \in JobId, OpenStopJob(r, j)
      PROVE  queue' = queue /\ pods' = pods /\ NoneDeleting'
  BY <1>5, <1>8 DEF OpenStopJob
<1>9. ASSUME NEW js \in SUBSET JobId, OpenDeleteJob(r, js)
      PROVE  queue' = queue /\ pods' = pods /\ NoneDeleting'
  BY <1>5, <1>9 DEF OpenDeleteJob
<1>10. ASSUME NEW t \in Training, OpenDeleteTraining(r, t)
       PROVE  FALSE
  BY <1>10 DEF OpenDeleteTraining, Open
<1>11. CASE StopJobs(r)
  <2>1. pc = "idle" /\ queue' \subseteq queue /\ pods' \subseteq pods
    BY <1>11 DEF StopJobs, LockFree, DeletePods
  <2>2. NoneDeleting'
    BY <1>11, <1>a, <1>b, <1>c DEF StopJobs, Goto, Answer
  <2> QED
    BY <2>1, <2>2
<1>12. CASE RemoveAll(r) \/ StopJob(r) \/ DeleteJob(r)
  <2>1. queue' \subseteq queue /\ pods' \subseteq pods
    BY <1>12 DEF RemoveAll, StopJob, DeleteJob, DeletePods
  <2>2. queue' = queue \/ pc = "idle"
    BY <1>12 DEF RemoveAll, StopJob, DeleteJob, LockFree
  <2>3. NoneDeleting'
    BY <1>12, <1>a, <1>b DEF RemoveAll, StopJob, DeleteJob, Answer
  <2> QED
    BY <2>1, <2>2, <2>3
<1>13. ~CheckStopped(r) /\ ~DeleteTraining(r)
  BY DEF NoneDeleting, CheckStopped, DeleteTraining
<1> QED
  BY <1>1, <1>2, <1>3, <1>4, <1>6, <1>7, <1>8, <1>9, <1>10, <1>11, <1>12, <1>13
  DEF Handler

(* A pass drops jobs, or starts the job at hand, which still waits and     *)
(* whose training has no other pod.                                        *)
LEMMA SchedulerTurns ==
  ASSUME TurnsInv, Scheduler
  PROVE  (Grow \/ Shrink \/ Launch) /\ NoneDeleting' /\ PassQueued'
<1> USE DEF TurnsInv, OneItemInv, PassQueued, LeftIn, Grow, Shrink, RunningJobs, db, pass
<1>0. /\ queue \subseteq JobId /\ JobId \subseteq Int
      /\ podQueue \in Seq(JobId) /\ idx \in Nat \ {0}
      /\ pc = "create" => idx <= Len(podQueue)
  BY DEF ControlTypeOK, JobId
<1>a. req' = req => NoneDeleting'
  BY DEF NoneDeleting
<1>b. pc \in {"scan", "create"} /\ idx <= Len(podQueue) => cur \in queue
  BY <1>0 DEF cur
<1>1. CASE Refresh
  BY <1>1, <1>a DEF Refresh
<1>2. CASE Collect
  <2>1. queue' = queue /\ pods' \subseteq pods /\ req' = req
    BY <1>2 DEF Collect, DeletePods
  <2>2. PassQueued'
    <3>1. CASE pc' = "idle"
      BY <3>1
    <3>2. CASE queue # {}
      <4>1. podQueue' \in InIdOrder(queue) /\ idx' = idx
        BY <1>2, <3>2 DEF Collect
      <4>2. podQueue' \in Seq(JobId)
        BY <1>0, <4>1, InIdOrderType
      <4>3. EachOnce(podQueue') /\ \A k \in 1 .. Len(podQueue') : podQueue'[k] \in queue
        BY <1>0, <4>1, InIdOrderLeft
      <4>4. LeftIn(podQueue', idx', queue')
        BY <1>0, <2>1, <4>1, <4>2, <4>3
      <4> QED
        BY <4>3, <4>4
    <3> QED
      BY <1>2, <3>1, <3>2 DEF Collect, Idle
  <2> QED
    BY <1>a, <2>1, <2>2
<1>3. CASE Skip \/ Reserve
  <2>1. /\ queue' = queue /\ pods' = pods /\ req' = req /\ pc = "scan"
        /\ podQueue' = podQueue /\ idx' = idx + 1
    BY <1>3 DEF Skip, Reserve
  <2> QED
    BY <1>0, <1>a, <2>1
<1>4. CASE Purge
  <2>1. /\ pc = "scan" /\ idx \in 1 .. Len(podQueue) /\ req' = req /\ pods' = pods
        /\ queue' = queue \ {podQueue[idx]}
    BY <1>0, <1>4 DEF Purge, cur
  <2> DEFINE once == RemoveAt(podQueue, idx)
             twice == RemoveAt(once, idx)
  <2>2. once \in Seq(JobId) /\ Len(once) = Len(podQueue) - 1
    BY <1>0, <2>1, RemoveAtType
  <2>3. EachOnce(once) /\ LeftIn(once, idx, queue')
    BY <1>0, <2>1, RemoveAtLeft
  <2>4. idx < Len(podQueue) => EachOnce(twice) /\ LeftIn(twice, idx, queue')
    <3> HIDE DEF once
    <3> SUFFICES ASSUME idx < Len(podQueue)
                 PROVE  EachOnce(twice) /\ LeftIn(twice, idx, queue')
      OBVIOUS
    <3>1. idx \in 1 .. Len(once)
      BY <2>1, <2>2
    <3>2. EachOnce(twice) /\ LeftIn(twice, idx, queue' \ {once[idx]})
      BY <2>2, <2>3, <3>1, RemoveAtLeft
    <3> QED
      BY <3>2
  <2>5. \/ pc' = "idle"
        \/ podQueue' = once /\ idx' = idx + 1
        \/ podQueue' = twice /\ idx' = idx + 1 /\ idx < Len(podQueue)
    BY <1>4 DEF Purge, Idle
  <2> HIDE DEF once, twice
  <2>6. PassQueued'
    BY <1>0, <2>3, <2>4, <2>5
  <2> QED
    BY <1>a, <2>1, <2>6
<1>5. CASE Choose
  <2>1. /\ queue' = queue /\ pods' = pods /\ req' = req /\ pc = "scan"
        /\ podQueue' = podQueue /\ idx' = idx
    BY <1>5 DEF Choose
  <2> QED
    BY <1>a, <2>1
<1>6. CASE EndPass \/ Dequeue
  <2>1. /\ queue' \subseteq queue /\ pods' = pods /\ req' = req /\ pc' = "idle"
    BY <1>6 DEF EndPass, Dequeue, Idle
  <2> QED
    BY <1>a, <2>1
<1>7. ASSUME pc = "create", pods' = pods \cup {NextPod}, queue' = queue
      PROVE  Grow \/ Launch
  <2>0. NextPod.job = cur
    BY DEF NextPod
  <2>1. RunningJobs' = RunningJobs \cup {cur}
    BY <1>7, <2>0
  <2>2. CASE cur \in RunningJobs
    BY <1>7, <2>1, <2>2
  <2>3. CASE cur \notin RunningJobs
    <3>1. \A p \in pods : TrainingOf[p.job] # TrainingOf[cur]
      BY <1>7, <2>3 DEF GangAlone
    <3> QED
      BY <1>0, <1>7, <1>b, <2>1, <3>1 DEF Launch
  <2> QED
    BY <2>2, <2>3
<1>8. CASE CreatePod
  <2>1. /\ pc = "create" /\ pods' = pods \cup {NextPod} /\ queue' = queue
        /\ req' = req /\ podQueue' = podQueue /\ idx' = idx
    BY <1>8 DEF CreatePod
  <2> QED
    BY <1>7, <1>a, <2>1
<1>9. CASE CreateRaises
  <2>1. /\ pc = "create" /\ pc' = "idle" /\ queue' = queue /\ req' = req
        /\ pods' = pods \/ pods' = pods \cup {NextPod}
    BY <1>9 DEF CreateRaises, Idle
  <2> QED
    BY <1>7, <1>a, <2>1
<1> QED
  BY <1>1, <1>2, <1>3, <1>4, <1>5, <1>6, <1>8, <1>9 DEF Scheduler, Scan

(* A pod that ends still runs its job, and a restart drops only requests   *)
(* and the pass.                                                           *)
LEMMA EnvironmentTurns ==
  ASSUME TurnsInv, Environment
  PROVE  Grow /\ NoneDeleting' /\ PassQueued'
<1> USE DEF TurnsInv, PassQueued, NoneDeleting, Grow, RunningJobs, db, pass
<1>1. ASSUME NEW p \in pods, PodEnds(p)
      PROVE  Grow /\ NoneDeleting' /\ PassQueued'
  <2>1. Ended(p).job = p.job
    BY DEF Ended
  <2>2. RunningJobs' = RunningJobs
    BY <1>1, <2>1 DEF PodEnds
  <2> QED
    BY <1>1, <2>2 DEF PodEnds
<1>2. ASSUME NEW w \in Workspace, Expire(w) \/ Extend(w)
      PROVE  Grow /\ NoneDeleting' /\ PassQueued'
  BY <1>2 DEF Expire, Extend
<1>3. CASE Restart
  BY <1>3 DEF Restart, Idle, NoRequest
<1> QED
  BY <1>1, <1>2, <1>3 DEF Environment

(* The invariant holds at the start.                                       *)
LEMMA TurnsInit == Init => Turns!Init /\ TurnsInv
<1> SUFFICES ASSUME Init PROVE Turns!Init /\ TurnsInv
  OBVIOUS
<1>1. queue = {} /\ pods = {} /\ pc = "idle" /\ req = [r \in Request |-> NoRequest]
  BY DEF Init
<1>2. NoneDeleting
  BY <1>1 DEF NoneDeleting, NoRequest
<1> QED
  BY <1>1, <1>2, OneItemInit DEF Turns!Init, TurnsInv, PassQueued

(* It is inductive, and under it every step is one of TrainingTurns.       *)
LEMMA TurnsNext ==
  ASSUME Reliable, "delete_training" \notin Ops, TurnsInv, [Next]_vars
  PROVE  TurnsInv' /\ Turns!Next
<1>1. OneItemInv' /\ ControlTypeOK /\ ControlTypeOK'
  BY OneItemNext DEF TurnsInv, OneItemInv
<1>2. (Grow \/ Shrink \/ Launch) /\ NoneDeleting' /\ PassQueued'
  <2>1. CASE Scheduler
    BY <2>1, SchedulerTurns
  <2>2. ASSUME NEW r \in Request, Handler(r)
        PROVE  (Grow \/ Shrink) /\ NoneDeleting' /\ PassQueued'
    <3>1. /\ Grow \/ Shrink
          /\ queue \subseteq queue' \/ pc = "idle"
          /\ NoneDeleting'
      BY <1>1, <2>2, HandlerTurns DEF TurnsInv
    <3>2. UNCHANGED <<pc, podQueue, idx>>
      BY <2>2, HandlerKeeps
    <3> QED
      BY <3>1, <3>2 DEF TurnsInv, PassQueued, LeftIn
  <2>3. CASE Environment
    BY <2>3, EnvironmentTurns
  <2>4. CASE UNCHANGED vars
    BY <2>4 DEF vars, db, pass, TurnsInv, Grow, RunningJobs, NoneDeleting, PassQueued
  <2> QED
    BY <2>1, <2>2, <2>3, <2>4 DEF Next
<1>3. Turns!Next
  BY <1>1, <1>2, TurnsSteps
<1> QED
  BY <1>1, <1>2, <1>3 DEF TurnsInv

(* The queue of the database and the pods of the cluster behave like the   *)
(* waiting and running jobs of TrainingTurns: whatever fails, a job is     *)
(* only started while it waits and in its training's turn.                 *)
THEOREM TurnsImplemented ==
  ASSUME Reliable, "delete_training" \notin Ops
  PROVE  Spec => TakesTurns
<1>1. TurnsInv /\ [Next]_vars => TurnsInv' /\ [Turns!Next]_(Turns!turns)
  BY TurnsNext
<1> QED
  BY <1>1, TurnsInit, PTL DEF Spec, TakesTurns, Turns!Spec

------------------------------------------------------------------------------
(* The rows and the pods of jobs: when a pod keeps its row, when a waiting *)
(* job has no pod, and what a stop leaves behind.                          *)

StopPcs == {"stop_jobs", "stop_training"}

(* A stop is about jobs of its training, and no request deletes jobs.      *)
StopsItsOwn ==
  \A r \in Request :
    /\ req[r].pc # "delete_job"
    /\ req[r].pc \in StopPcs =>
         \A j \in req[r].jobs : TrainingOf[j] = req[r].training

RowInv == TurnsInv /\ StopsItsOwn /\ NoOrphanPods

------------------------------------------------------------------------------
(* Every pod has its row                                                   *)

(* The item at hand waits in the queue, so it has its row.                 *)
LEMMA CurQueued ==
  ASSUME TurnsInv, pc \in {"scan", "create"}, idx <= Len(podQueue)
  PROVE  cur \in queue /\ cur \in jobs /\ cur \in JobId
<1>1. idx \in idx .. Len(podQueue)
  BY DEF TurnsInv, OneItemInv, ControlTypeOK
<1> QED
  BY <1>1 DEF TurnsInv, OneItemInv, ControlTypeOK, PassQueued, LeftIn, cur

(* The item that a pass purges has no pod.                                 *)
LEMMA PurgedIdle ==
  ASSUME TurnsInv, Purge
  PROVE  \A p \in pods : p.job # cur
<1>1. pc = "scan" /\ cur \in JobId /\ ~RunningTraining(cur)
  BY CurQueued DEF Purge, Skipped
<1>2. TrainingOf[cur] \in Training
  BY <1>1, JobSchedulerAssumption
<1>3. ~Busy(pods, TrainingOf[cur])
  BY <1>1, <1>2 DEF TurnsInv, OneItemInv, ViewCovers, Busy, RunningTraining
<1> QED
  BY <1>3 DEF Busy

(* Rows only go with their pods: by StopJobs, for all pods of the jobs it  *)
(* deletes are of the training and the group it stops, or by Purge.        *)
LEMMA SchedulerRows ==
  ASSUME RowInv, Scheduler
  PROVE  StopsItsOwn' /\ NoOrphanPods'
<1> USE DEF RowInv, NoOrphanPods, db, pass
<1>0. req' = req => StopsItsOwn'
  BY DEF StopsItsOwn
<1>1. CASE Refresh \/ Skip \/ Reserve \/ Choose \/ EndPass \/ Dequeue
  <2>1. pods' = pods /\ jobs' = jobs /\ req' = req
    BY <1>1 DEF Refresh, Skip, Reserve, Choose, EndPass, Dequeue
  <2> QED
    BY <1>0, <2>1
<1>2. CASE Collect
  <2>1. pods' \subseteq pods /\ jobs' = jobs /\ req' = req
    BY <1>2 DEF Collect, DeletePods
  <2> QED
    BY <1>0, <2>1
<1>3. CASE Purge
  <2>1. pods' = pods /\ jobs' = jobs \ {cur} /\ req' = req
    BY <1>3 DEF Purge
  <2> QED
    BY <1>0, <1>3, <2>1, PurgedIdle
<1>4. CASE CreatePod \/ CreateRaises
  <2>1. /\ pc = "create" /\ jobs' = jobs /\ req' = req
        /\ pods' \subseteq pods \cup {NextPod}
    BY <1>4 DEF CreatePod, CreateRaises
  <2>2. cur \in jobs /\ NextPod.job = cur
    BY <2>1, CurQueued DEF TurnsInv, OneItemInv, ControlTypeOK, NextPod
  <2> QED
    BY <1>0, <2>1, <2>2
<1> QED
  BY <1>1, <1>2, <1>3, <1>4 DEF Scheduler, Scan

(* See above; a stop has to remove the pods it finds.                      *)
LEMMA StopRows ==
  ASSUME "delete" \notin Faults, RowInv, NEW r \in Request, StopJobs(r)
  PROVE  NoOrphanPods'
<1> DEFINE t == req[r].training
           g == req[r].group
           pending == {j \in req[r].jobs : /\ g = NoGroup \/ group[j] = g
                                           /\ j \notin req[r].running
                                           /\ j \in queue}
           gone == {p \in PodsOf(pods, t) : g \in {NoGroup, 0} \/ group[p.job] = g}
<1>1. jobs' = jobs \ pending /\ pods' = pods \ gone
  BY DEF StopJobs, DeletePods
<1>2. \A p \in pods : p.job \in pending => p \in gone
  <2>1. req[r].pc \in StopPcs
    BY DEF StopJobs, StopPcs
  <2>2. \A j \in req[r].jobs : TrainingOf[j] = t
    BY <2>1 DEF RowInv, StopsItsOwn
  <2> QED
    BY <2>2 DEF PodsOf
<1> HIDE DEF pending, gone
<1> QED
  BY <1>1, <1>2 DEF RowInv, NoOrphanPods

(* Requests open on the jobs of their training.                            *)
LEMMA HandlerScope ==
  ASSUME "delete_job" \notin Ops, ControlTypeOK, StopsItsOwn,
         NEW r \in Request, Handler(r)
  PROVE  StopsItsOwn'
<1> USE DEF StopPcs
<1>0. req \in [Request -> RequestState]
  BY DEF ControlTypeOK
<1>a. ASSUME NEW q, Become(r, q), q.pc \notin StopPcs \cup {"delete_job"}
      PROVE  StopsItsOwn'
  BY <1>0, <1>a DEF Become, StopsItsOwn
<1>b. ASSUME NEW q, Become(r, q), q.pc # "delete_job",
             \A j \in q.jobs : TrainingOf[j] = q.training
      PROVE  StopsItsOwn'
  BY <1>0, <1>b DEF Become, StopsItsOwn
<1>c. /\ NoRequest.pc = "none"
      /\ \A at, t, g, js, running :
           /\ Serving(at, t, g, js, running).pc = at
           /\ Serving(at, t, g, js, running).training = t
           /\ Serving(at, t, g, js, running).jobs = js
  BY DEF NoRequest, Serving
<1>d. \A t : \A j \in JobsOf(t) : TrainingOf[j] = t
  BY DEF JobsOf
<1>1. ASSUME NEW t \in Training, NEW g \in 0 .. MaxJobs, GetGroupNumber(r, t, g)
      PROVE  StopsItsOwn'
  BY <1>1, <1>a, <1>c DEF GetGroupNumber
<1>2. ASSUME NEW batch \in SUBSET JobId, InsertJobs(r, batch)
      PROVE  StopsItsOwn'
  BY <1>2, <1>a, <1>c DEF InsertJobs, Goto
<1>3. CASE ReadGroup(r)
  BY <1>3, <1>a, <1>c DEF ReadGroup, Answer
<1>4. CASE Enqueue(r) \/ RemoveAll(r) \/ StopJob(r) \/ DeleteJob(r) \/ DeleteTraining(r)
  BY <1>4, <1>a, <1>c DEF Enqueue, RemoveAll, StopJob, DeleteJob, DeleteTraining, Answer
<1>5. ASSUME NEW t \in Training,
             OpenStopJobs(r, t) \/ OpenStopTraining(r, t)
      PROVE  StopsItsOwn'
  BY <1>5, <1>b, <1>c, <1>d DEF OpenStopJobs, OpenStopTraining, Open
<1>6. ASSUME NEW t \in Training, NEW g \in 0 .. MaxJobs, OpenStopGroup(r, t, g)
      PROVE  StopsItsOwn'
  BY <1>6, <1>b, <1>c, <1>d DEF OpenStopGroup, Open
<1>7. ASSUME NEW j \in JobId, OpenStopJob(r, j)
      PROVE  StopsItsOwn'
  BY <1>7, <1>a, <1>c DEF OpenStopJob, Open
<1>8. ASSUME NEW js \in SUBSET JobId, OpenDeleteJob(r, js)
      PROVE  FALSE
  BY <1>8 DEF OpenDeleteJob, Open
<1>9. ASSUME NEW t \in Training, OpenDeleteTraining(r, t)
      PROVE  StopsItsOwn'
  BY <1>9, <1>a, <1>c DEF OpenDeleteTraining, Open
<1>10. CASE StopJobs(r)
  BY <1>10, <1>a, <1>c DEF StopJobs, Goto, Answer
<1>11. CASE CheckStopped(r)
  BY <1>11, <1>a, <1>c DEF CheckStopped, Goto, Answer
<1> QED
  BY <1>1, <1>2, <1>3, <1>4, <1>5, <1>6, <1>7, <1>8, <1>9, <1>10, <1>11 DEF Handler

(* No request but a stop takes a row away from a job.                      *)
LEMMA HandlerRows ==
  ASSUME "delete" \notin Faults, "delete_job" \notin Ops, RowInv,
         NEW r \in Request, Handler(r)
  PROVE  StopsItsOwn' /\ NoOrphanPods'
<1>1. StopsItsOwn'
  BY HandlerScope DEF RowInv, TurnsInv, OneItemInv
<1>2. NoNewPod
  BY HandlerKeeps
<1>3. StopJobs(r) \/ jobs \subseteq jobs'
  <2> USE DEF db, pass
  <2>1. ~DeleteJob(r) /\ ~DeleteTraining(r)
    BY DEF RowInv, StopsItsOwn, TurnsInv, NoneDeleting, DeleteJob, DeleteTraining
  <2>2. ASSUME NEW op, NEW at, NEW t, NEW g, NEW js, Open(r, op, at, t, g, js)
        PROVE  jobs' = jobs
    BY <2>2 DEF Open
  <2>3. ASSUME NEW t \in Training, NEW g \in 0 .. MaxJobs,
               GetGroupNumber(r, t, g) \/ OpenStopGroup(r, t, g)
        PROVE  jobs' = jobs
    BY <2>2, <2>3 DEF GetGroupNumber, OpenStopGroup
  <2>4. ASSUME NEW batch \in SUBSET JobId, InsertJobs(r, batch)
        PROVE  jobs \subseteq jobs'
    BY <2>4 DEF InsertJobs
  <2>5. ASSUME NEW t \in Training,
               OpenStopJobs(r, t) \/ OpenStopTraining(r, t) \/ OpenDeleteTraining(r, t)
        PROVE  jobs' = jobs
    BY <2>2, <2>5 DEF OpenStopJobs, OpenStopTraining, OpenDeleteTraining
  <2>6. ASSUME NEW j \in JobId, OpenStopJob(r, j)
        PROVE  jobs' = jobs
    BY <2>2, <2>6 DEF OpenStopJob
  <2>7. ASSUME NEW js \in SUBSET JobId, OpenDeleteJob(r, js)
        PROVE  jobs' = jobs
    BY <2>2, <2>7 DEF OpenDeleteJob
  <2>8. CASE ReadGroup(r) \/ Enqueue(r) \/ RemoveAll(r) \/ StopJob(r) \/ CheckStopped(r)
    BY <2>8 DEF ReadGroup, Enqueue, RemoveAll, StopJob, CheckStopped
  <2> QED
    BY <2>1, <2>3, <2>4, <2>5, <2>6, <2>7, <2>8 DEF Handler
<1> QED
  BY <1>1, <1>2, <1>3, StopRows DEF RowInv, NoOrphanPods, NoNewPod

(* Neither do pods that end, periods that end, and restarts.               *)
LEMMA EnvironmentRows ==
  ASSUME RowInv, Environment
  PROVE  StopsItsOwn' /\ NoOrphanPods'
<1> USE DEF RowInv, NoOrphanPods, db, pass
<1>1. ASSUME NEW p \in pods, PodEnds(p)
      PROVE  StopsItsOwn' /\ NoOrphanPods'
  <2>1. Ended(p).job = p.job
    BY DEF Ended
  <2> QED
    BY <1>1, <2>1 DEF PodEnds, StopsItsOwn
<1>2. ASSUME NEW w \in Workspace, Expire(w) \/ Extend(w)
      PROVE  StopsItsOwn' /\ NoOrphanPods'
  BY <1>2 DEF Expire, Extend, StopsItsOwn
<1>3. CASE Restart
  BY <1>3 DEF Restart, StopsItsOwn, NoRequest, StopPcs
<1> QED
  BY <1>1, <1>2, <1>3 DEF Environment

(* Every pod belongs to a job that still has its row, for any number of    *)
(* concurrent creations and stops, restarts and refused or timed out       *)
(* creations, provided that no request deletes jobs or trainings (their    *)
(* handlers decide by pods listed before the lock, or take none), that a   *)
(* pod that is deleted goes, and that lists can be relied on as in OneItem.*)
THEOREM PodsHaveRows ==
  ASSUME Reliable, "delete" \notin Faults,
         Ops \cap {"delete_job", "delete_training"} = {}
  PROVE  Spec => []NoOrphanPods
<1>1. Init => RowInv
  <2> SUFFICES ASSUME Init PROVE RowInv
    OBVIOUS
  <2>1. pods = {} /\ req = [r \in Request |-> NoRequest] /\ NoRequest.pc = "none"
    BY DEF Init, NoRequest
  <2> QED
    BY <2>1, TurnsInit DEF RowInv, StopsItsOwn, StopPcs, NoOrphanPods
<1>2. RowInv /\ [Next]_vars => RowInv'
  <2> SUFFICES ASSUME RowInv, [Next]_vars PROVE RowInv'
    OBVIOUS
  <2>1. TurnsInv'
    BY TurnsNext DEF RowInv
  <2>2. CASE Scheduler
    BY <2>1, <2>2, SchedulerRows DEF RowInv
  <2>3. ASSUME NEW r \in Request, Handler(r)
        PROVE  RowInv'
    BY <2>1, <2>3, HandlerRows DEF RowInv
  <2>4. CASE Environment
    BY <2>1, <2>4, EnvironmentRows DEF RowInv
  <2>5. CASE UNCHANGED vars
    BY <2>1, <2>5 DEF RowInv, StopsItsOwn, NoOrphanPods, vars, db
  <2> QED
    BY <2>2, <2>3, <2>4, <2>5 DEF Next
<1>3. RowInv => NoOrphanPods
  BY DEF RowInv
<1> QED
  BY <1>1, <1>2, <1>3, PTL DEF Spec

------------------------------------------------------------------------------
(* No waiting job runs, and a stop is complete                             *)

(* Requests come one at a time, nothing stops a gang half way, and         *)
(* trainings stay.                                                         *)
Orderly ==
  /\ \A r, s \in Request : r = s
  /\ Faults \cap {"create", "timeout", "restart"} = {}
  /\ "delete_training" \notin Ops

(* The jobs of a creation are new: before their rows are inserted the      *)
(* group number is larger than any of the training's, and until they are   *)
(* queued neither the queue nor the cluster knows them.                    *)
Untouched(j) == j \notin queue /\ \A p \in pods : p.job # j
FreshJobs ==
  /\ \A j \in jobs : j <= lastId
  /\ \A p \in pods : p.job <= lastId
  /\ \A r \in Request :
       LET t == req[r].training
           g == req[r].group
       IN  /\ req[r].pc = "insert" => \A j \in JobsOf(t) : group[j] < g
           /\ req[r].pc = "read" => \A j \in JobsOf(t) : group[j] = g => Untouched(j)
           /\ req[r].pc = "enqueue" => \A j \in req[r].jobs : Untouched(j)

(* The pods of the gang at hand are those made so far.                     *)
RanksMade == pc = "create" => \A p \in pods : p.job = cur => p.rank \in 0 .. made - 1

(* Of the jobs a stop has seen running, none waits but the one at hand.    *)
SeenStarted ==
  \A r \in Request : req[r].pc \in StopPcs =>
    \A j \in req[r].jobs \cap req[r].running \cap queue : pc = "create" /\ cur = j

StopInv == TurnsInv /\ FreshJobs /\ RanksMade /\ QueuedNotRunning /\ SeenStarted

(* No creation of a pod raises: no name is taken.                          *)
LEMMA NothingRaises ==
  ASSUME Orderly, StopInv
  PROVE  ~CreateRaises
<1>1. pc = "create" => \A p \in pods : p.job = cur => p.rank # made
  BY DEF StopInv, RanksMade, TurnsInv, OneItemInv, ControlTypeOK
<1> QED
  BY <1>1 DEF CreateRaises, NameTaken, SameName, NextPod, Orderly

(* A pass only takes items off the queue, and only starts what waits.      *)
LEMMA SchedulerStops ==
  ASSUME Orderly, StopInv, Scheduler
  PROVE  FreshJobs' /\ RanksMade' /\ QueuedNotRunning' /\ SeenStarted'
<1> USE DEF StopInv, db, pass
<1>0. ControlTypeOK /\ lastId \in Nat /\ JobId \subseteq Nat
  BY JobSchedulerAssumption DEF TurnsInv, OneItemInv, ControlTypeOK, JobId
<1>a. ASSUME jobs' \subseteq jobs, queue' \subseteq queue, UNCHANGED <<group, lastId, req>>,
             \A p \in pods' : p \in pods \/ p.job \in queue
      PROVE  FreshJobs'
  <2>1. \A p \in pods' : p.job <= lastId
    BY <1>a, <1>0 DEF FreshJobs, ControlTypeOK
  <2>2. \A j : Untouched(j) => Untouched(j)'
    BY <1>a DEF Untouched
  <2>3. \A t : JobsOf(t)' \subseteq JobsOf(t)
    BY <1>a DEF JobsOf
  <2> QED
    BY <1>a, <2>1, <2>2, <2>3 DEF FreshJobs
<1>b. ASSUME pc # "create", pods' \subseteq pods, queue' \subseteq queue, req' = req,
             pc' # "create"
      PROVE  RanksMade' /\ QueuedNotRunning' /\ SeenStarted'
  BY <1>b DEF RanksMade, QueuedNotRunning, SeenStarted
<1>1. CASE Refresh \/ Collect \/ Skip \/ Purge \/ Reserve \/ EndPass
  <2>1. /\ jobs' \subseteq jobs /\ queue' \subseteq queue /\ UNCHANGED <<group, lastId, req>>
        /\ pods' \subseteq pods
        /\ pc # "create" /\ pc' # "create"
    BY <1>1 DEF Refresh, Collect, Skip, Purge, Reserve, EndPass, DeletePods, Idle
  <2> QED
    BY <1>a, <1>b, <2>1
<1>2. CASE Choose
  <2>1. /\ pc = "scan" /\ pc' = "create" /\ pods' = pods /\ cur' = cur
        /\ UNCHANGED <<jobs, queue, group, lastId, req>>
    BY <1>2 DEF Choose, cur
  <2>2. cur \in JobId /\ ~RunningTraining(cur)
    BY <1>2, CurQueued DEF Choose, Skipped
  <2>3. TrainingOf[cur] \in Training
    BY <2>2, JobSchedulerAssumption
  <2>4. ~Busy(pods, TrainingOf[cur])
    BY <2>1, <2>2, <2>3 DEF TurnsInv, OneItemInv, ViewCovers, Busy, RunningTraining
  <2>5. RanksMade'
    BY <2>1, <2>4 DEF RanksMade, Busy
  <2>6. QueuedNotRunning' /\ SeenStarted'
    BY <2>1 DEF QueuedNotRunning, SeenStarted
  <2> QED
    BY <1>a, <2>1, <2>5, <2>6
<1>3. CASE CreatePod
  <2>1. /\ pc = "create" /\ pc' = "create" /\ cur' = cur /\ made' = made + 1
        /\ pods' = pods \cup {NextPod}
        /\ UNCHANGED <<jobs, queue, group, lastId, req>>
    BY <1>3 DEF CreatePod, cur
  <2>2. NextPod.job = cur /\ NextPod.rank = made /\ cur \in queue
    BY <1>0, <2>1, CurQueued DEF NextPod, ControlTypeOK
  <2>3. RanksMade'
    <3> SUFFICES ASSUME NEW p \in pods', p.job = cur
                 PROVE  p.rank \in 0 .. made
      <4>1. made \in Nat
        BY <1>0 DEF ControlTypeOK
      <4> QED
        BY <2>1, <4>1 DEF RanksMade
    <3>1. made \in Nat
      BY <1>0 DEF ControlTypeOK
    <3>2. CASE p = NextPod
      BY <2>2, <3>1, <3>2
    <3>3. CASE p \in pods
      <4>1. p.rank \in 0 .. made - 1
        BY <2>1, <3>3 DEF RanksMade
      <4> QED
        BY <3>1, <4>1
    <3> QED
      BY <2>1, <3>2, <3>3
  <2>4. QueuedNotRunning' /\ SeenStarted'
    BY <2>1, <2>2 DEF QueuedNotRunning, SeenStarted
  <2> QED
    BY <1>a, <2>1, <2>2, <2>3, <2>4
<1>4. CASE Dequeue
  <2>1. /\ pc = "create" /\ pc' = "idle" /\ pods' = pods /\ queue' = queue \ {cur}
        /\ UNCHANGED <<jobs, group, lastId, req>>
    BY <1>4 DEF Dequeue, Idle
  <2>2. RanksMade' /\ QueuedNotRunning' /\ SeenStarted'
    BY <2>1 DEF RanksMade, QueuedNotRunning, SeenStarted
  <2> QED
    BY <1>a, <2>1, <2>2
<1> QED
  BY <1>1, <1>2, <1>3, <1>4, NothingRaises DEF Scheduler, Scan

(* A pod that ends is still that of its job.                               *)
LEMMA EnvironmentStops ==
  ASSUME Orderly, StopInv, Environment
  PROVE  FreshJobs' /\ RanksMade' /\ QueuedNotRunning' /\ SeenStarted'
<1> USE DEF StopInv, FreshJobs, RanksMade, QueuedNotRunning, SeenStarted, Untouched,
            JobsOf, cur, db, pass
<1>1. ASSUME NEW p \in pods, PodEnds(p)
      PROVE  FreshJobs' /\ RanksMade' /\ QueuedNotRunning' /\ SeenStarted'
  <2>1. Ended(p).job = p.job /\ Ended(p).rank = p.rank
    BY DEF Ended
  <2>2. /\ \A q \in pods' : \E o \in pods : o.job = q.job /\ o.rank = q.rank
        /\ UNCHANGED <<jobs, queue, group, lastId, req, pc, podQueue, idx, made>>
    BY <1>1, <2>1 DEF PodEnds
  <2>3. FreshJobs'
    BY <2>2
  <2>4. RanksMade' /\ QueuedNotRunning' /\ SeenStarted'
    BY <2>2
  <2> QED
    BY <2>3, <2>4
<1>2. ASSUME NEW w \in Workspace, Expire(w) \/ Extend(w)
      PROVE  FreshJobs' /\ RanksMade' /\ QueuedNotRunning' /\ SeenStarted'
  BY <1>2 DEF Expire, Extend
<1>3. ~Restart
  BY DEF Restart, Orderly
<1> QED
  BY <1>1, <1>2, <1>3 DEF Environment

(* What a request of another kind than a creation does: it takes rows and  *)
(* pods away.                                                              *)
LEMMA RemovalStops ==
  ASSUME Orderly, StopInv, NEW r \in Request, NEW q,
         Become(r, q), q.pc \notin CreatePcs,
         jobs' \subseteq jobs, queue' \subseteq queue, pods' \subseteq pods,
         UNCHANGED <<group, lastId, pc, podQueue, idx, made>>,
         q.pc \in StopPcs =>
           q.running = {p.job : p \in pods} /\ queue' = queue
  PROVE  FreshJobs' /\ RanksMade' /\ QueuedNotRunning' /\ SeenStarted'
<1>0. req' = [req EXCEPT ![r] = q] /\ req'[r] = q /\ \A s \in Request : s = r
  BY DEF StopInv, TurnsInv, OneItemInv, ControlTypeOK, Become, Orderly
<1>1. FreshJobs'
  BY <1>0 DEF StopInv, FreshJobs, CreatePcs
<1>2. RanksMade' /\ QueuedNotRunning'
  BY DEF StopInv, RanksMade, QueuedNotRunning, cur
<1>3. SeenStarted'
  <2> SUFFICES ASSUME q.pc \in StopPcs,
                      NEW j \in q.jobs \cap q.running \cap queue
               PROVE  pc = "create" /\ cur = j
    BY <1>0 DEF SeenStarted, cur
  <2>1. PICK p \in pods : p.job = j
    OBVIOUS
  <2> QED
    BY <2>1 DEF StopInv, QueuedNotRunning
<1> QED
  BY <1>1, <1>2, <1>3

(* A creation brings new jobs, and queues them.                            *)
LEMMA CreationStops ==
  ASSUME Orderly, StopInv, NEW r \in Request,
         \/ \E t \in Training, g \in 0 .. MaxJobs : GetGroupNumber(r, t, g)
         \/ \E batch \in SUBSET JobId : InsertJobs(r, batch)
         \/ ReadGroup(r)
         \/ Enqueue(r)
  PROVE  FreshJobs' /\ RanksMade' /\ QueuedNotRunning' /\ SeenStarted'
<1> USE DEF db, pass
<1>0. /\ ControlTypeOK /\ req \in [Request -> RequestState]
      /\ \A s \in Request : s = r
      /\ MaxJobs \in Nat /\ lastId \in Nat /\ JobId \subseteq Nat
      /\ group \in [JobId -> Nat] /\ jobs \subseteq JobId /\ queue \subseteq jobs
  BY JobSchedulerAssumption
  DEF StopInv, TurnsInv, OneItemInv, ControlTypeOK, Orderly, JobId
<1>a. ASSUME NEW q, Become(r, q)
      PROVE  req'[r] = q
  BY <1>0, <1>a DEF Become
<1>b. /\ NoRequest.pc = "none"
      /\ \A at, t, g, js, running :
           /\ Serving(at, t, g, js, running).pc = at
           /\ Serving(at, t, g, js, running).training = t
           /\ Serving(at, t, g, js, running).group = g
           /\ Serving(at, t, g, js, running).jobs = js
  BY DEF NoRequest, Serving
<1>c. ASSUME queue' = queue, pods' = pods, UNCHANGED <<pc, podQueue, idx, made>>,
             req'[r].pc \notin StopPcs
      PROVE  RanksMade' /\ QueuedNotRunning' /\ SeenStarted'
  BY <1>0, <1>c DEF StopInv, RanksMade, QueuedNotRunning, SeenStarted, cur
<1>1. ASSUME NEW t \in Training, NEW g \in 0 .. MaxJobs, GetGroupNumber(r, t, g)
      PROVE  FreshJobs' /\ RanksMade' /\ QueuedNotRunning' /\ SeenStarted'
  <2>1. /\ UNCHANGED <<jobs, queue, group, lastId, pods, pc, podQueue, idx, made>>
        /\ req'[r].pc = "insert" /\ req'[r].training = t /\ req'[r].group = g
    BY <1>1, <1>a, <1>b DEF GetGroupNumber
  <2>2. \A j \in JobsOf(t) : group[j] < g
    <3>1. g \in NextGroup(t)
      BY <1>1 DEF GetGroupNumber
    <3>2. SUFFICES ASSUME NEW j \in JobsOf(t) PROVE group[j] < g
      OBVIOUS
    <3>3. PICK k \in Latest(t) : g = group[k] + 1
      BY <3>1, <3>2 DEF NextGroup
    <3>4. group[j] <= group[k] /\ group[j] \in Nat /\ group[k] \in Nat
      BY <1>0, <3>2, <3>3 DEF Latest, JobsOf
    <3> QED
      BY <3>3, <3>4
  <2>3. FreshJobs'
    BY <1>0, <2>1, <2>2 DEF StopInv, FreshJobs, JobsOf
  <2> QED
    BY <1>c, <2>1, <2>3 DEF StopPcs
<1>2. ASSUME NEW batch \in SUBSET JobId, InsertJobs(r, batch)
      PROVE  FreshJobs' /\ RanksMade' /\ QueuedNotRunning' /\ SeenStarted'
  <2> DEFINE t == req[r].training
             g == req[r].group
  <2>1. /\ UNCHANGED <<queue, pods, pc, podQueue, idx, made>>
        /\ req'[r].pc = "read" /\ req'[r].training = t /\ req'[r].group = g
    BY <1>2, <1>a, <1>b DEF InsertJobs, Goto
  <2>2. /\ req[r].pc = "insert"
        /\ \A j \in batch : j > lastId
        /\ jobs' = jobs \cup batch
        /\ group' = [j \in JobId |-> IF j \in batch THEN g ELSE group[j]]
        /\ lastId' \in batch \cup {lastId} /\ \A k \in batch : k <= lastId'
    BY <1>2 DEF InsertJobs
  <2>3. lastId' \in Nat /\ lastId <= lastId'
    BY <1>0, <2>2
  <2>4. /\ \A j \in jobs : j <= lastId
        /\ \A p \in pods : p.job <= lastId
        /\ \A j \in JobsOf(t) : group[j] < g
    BY <2>2 DEF StopInv, FreshJobs
  <2>5. \A p \in pods : p.job \in Nat
    BY <1>0 DEF ControlTypeOK
  <2>6. /\ \A j \in jobs' : j <= lastId'
        /\ \A p \in pods : p.job <= lastId'
    BY <1>0, <2>2, <2>3, <2>4, <2>5
  <2>7. ASSUME NEW j \in jobs', TrainingOf[j] = t, group'[j] = g
        PROVE  Untouched(j)
    <3>1. j \in jobs \cup batch /\ TrainingOf[j] = t /\ j \in JobId
      BY <1>0, <2>2, <2>7
    <3>2. j \in batch
      <4> SUFFICES ASSUME j \notin batch PROVE FALSE
        OBVIOUS
      <4>1. j \in JobsOf(t) /\ group[j] = g
        BY <2>2, <2>7, <3>1 DEF JobsOf
      <4>2. group[j] < g /\ group[j] \in Nat
        BY <1>0, <2>4, <3>1, <4>1
      <4> QED
        BY <4>1, <4>2
    <3>3. j > lastId /\ j \in Nat
      BY <1>0, <2>2, <3>1, <3>2
    <3>4. j \notin jobs /\ \A p \in pods : p.job # j
      BY <1>0, <2>4, <2>5, <3>3
    <3> QED
      BY <1>0, <3>4 DEF Untouched
  <2> HIDE DEF t, g
  <2>8. \A j : Untouched(j) => Untouched(j)'
    BY <2>1 DEF Untouched
  <2>9. FreshJobs'
    BY <1>0, <2>1, <2>6, <2>7, <2>8 DEF FreshJobs, JobsOf
  <2> QED
    BY <1>c, <2>1, <2>9 DEF StopPcs
<1>3. CASE ReadGroup(r)
  <2> DEFINE t == req[r].training
             g == req[r].group
             js == {j \in JobsOf(t) : group[j] = g}
  <2>1. /\ UNCHANGED <<jobs, queue, group, lastId, pods, pc, podQueue, idx, made>>
        /\ \/ req'[r].pc = "enqueue" /\ req'[r].jobs = js
           \/ req'[r].pc = "none"
    BY <1>3, <1>a, <1>b DEF ReadGroup, Answer
  <2>2. \A j \in js : Untouched(j)
    BY <1>3 DEF ReadGroup, StopInv, FreshJobs
  <2>3. \A j : Untouched(j) => Untouched(j)'
    BY <2>1 DEF Untouched
  <2> HIDE DEF js
  <2>4. FreshJobs'
    BY <1>0, <2>1, <2>2, <2>3 DEF StopInv, FreshJobs
  <2> QED
    BY <1>c, <2>1, <2>4 DEF StopPcs
<1>4. CASE Enqueue(r)
  <2>1. /\ UNCHANGED <<jobs, group, lastId, pods, pc, podQueue, idx, made>>
        /\ req'[r].pc = "none" /\ req[r].pc = "enqueue"
        /\ queue' \subseteq queue \cup req[r].jobs
    BY <1>4, <1>a, <1>b DEF Enqueue, Answer
  <2>2. \A j \in req[r].jobs, p \in pods : p.job # j
    BY <2>1 DEF StopInv, FreshJobs, Untouched
  <2>3. FreshJobs'
    BY <1>0, <2>1 DEF StopInv, FreshJobs
  <2>4. RanksMade' /\ QueuedNotRunning'
    BY <2>1, <2>2 DEF StopInv, RanksMade, QueuedNotRunning, cur
  <2>5. SeenStarted'
    BY <1>0, <2>1 DEF SeenStarted, StopPcs
  <2> QED
    BY <2>3, <2>4, <2>5
<1> QED
  BY <1>1, <1>2, <1>3, <1>4

(* So every request keeps the invariant.                                   *)
LEMMA HandlerStops ==
  ASSUME Orderly, StopInv, NEW r \in Request, Handler(r)
  PROVE  FreshJobs' /\ RanksMade' /\ QueuedNotRunning' /\ SeenStarted'
<1> DEFINE Goal == FreshJobs' /\ RanksMade' /\ QueuedNotRunning' /\ SeenStarted'
<1> USE DEF db, pass
<1>b. /\ NoRequest.pc = "none"
      /\ \A at, t, g, js, running :
           /\ Serving(at, t, g, js, running).pc = at
           /\ Serving(at, t, g, js, running).running = running
  BY DEF NoRequest, Serving
<1>c. StopPcs \cap CreatePcs = {} /\ EndPcs \cap CreatePcs = {} /\ "none" \notin CreatePcs \cup StopPcs
  BY DEF StopPcs, CreatePcs, EndPcs
<1>1. ASSUME NEW op, NEW at \in EndPcs, NEW t, NEW g, NEW js, Open(r, op, at, t, g, js)
      PROVE  Goal
  <2> DEFINE q == Serving(at, t, g, js, {p.job : p \in pods})
  <2>1. /\ Become(r, q) /\ q.pc \notin CreatePcs /\ q.running = {p.job : p \in pods}
        /\ UNCHANGED <<jobs, queue, group, lastId, pods, pc, podQueue, idx, made>>
    BY <1>1, <1>b, <1>c DEF Open
  <2> HIDE DEF q
  <2> QED
    BY <2>1, RemovalStops
<1>2. ASSUME NEW t \in Training,
             OpenStopJobs(r, t) \/ OpenStopTraining(r, t) \/ OpenDeleteTraining(r, t)
      PROVE  Goal
  BY <1>1, <1>2 DEF OpenStopJobs, OpenStopTraining, OpenDeleteTraining, EndPcs
<1>3. ASSUME NEW t \in Training, NEW g \in 0 .. MaxJobs, OpenStopGroup(r, t, g)
      PROVE  Goal
  BY <1>1, <1>3 DEF OpenStopGroup, EndPcs
<1>4. ASSUME NEW j \in JobId, OpenStopJob(r, j)
      PROVE  Goal
  BY <1>1, <1>4 DEF OpenStopJob, EndPcs
<1>5. ASSUME NEW js \in SUBSET JobId, OpenDeleteJob(r, js)
      PROVE  Goal
  BY <1>1, <1>5 DEF OpenDeleteJob, EndPcs
<1>6. CASE StopJobs(r) \/ RemoveAll(r) \/ StopJob(r) \/ DeleteJob(r)
  <2>1. PICK q : Become(r, q) /\ q.pc \in {"none", "remove_all"}
    BY <1>6, <1>b DEF StopJobs, RemoveAll, StopJob, DeleteJob, Goto, Answer
  <2>2. /\ jobs' \subseteq jobs /\ queue' \subseteq queue /\ pods' \subseteq pods
        /\ UNCHANGED <<group, lastId, pc, podQueue, idx, made>>
    BY <1>6 DEF StopJobs, RemoveAll, StopJob, DeleteJob, DeletePods
  <2> QED
    BY <2>1, <2>2, RemovalStops DEF CreatePcs, StopPcs
<1>7. ~CheckStopped(r) /\ ~DeleteTraining(r)
  BY DEF StopInv, TurnsInv, NoneDeleting, CheckStopped, DeleteTraining
<1> QED
  BY <1>2, <1>3, <1>4, <1>5, <1>6, <1>7, CreationStops DEF Handler

(* The invariant holds at the start and is kept by every step.             *)
LEMMA StopInit == Init => StopInv
<1> SUFFICES ASSUME Init PROVE StopInv
  OBVIOUS
<1>1. /\ pods = {} /\ jobs = {} /\ queue = {} /\ pc = "idle"
      /\ req = [r \in Request |-> NoRequest] /\ NoRequest.pc = "none"
  BY DEF Init, NoRequest
<1> QED
  BY <1>1, TurnsInit
  DEF StopInv, FreshJobs, RanksMade, QueuedNotRunning, SeenStarted, StopPcs

(* Every step keeps the invariant.                                         *)
LEMMA StopNext ==
  ASSUME Reliable, Orderly, StopInv, [Next]_vars
  PROVE  StopInv'
<1>1. TurnsInv'
  BY TurnsNext DEF StopInv, Orderly
<1>2. CASE Scheduler
  BY <1>1, <1>2, SchedulerStops DEF StopInv
<1>3. ASSUME NEW r \in Request, Handler(r)
      PROVE  StopInv'
  BY <1>1, <1>3, HandlerStops DEF StopInv
<1>4. CASE Environment
  BY <1>1, <1>4, EnvironmentStops DEF StopInv
<1>5. CASE UNCHANGED vars
  BY <1>1, <1>5 DEF StopInv, FreshJobs, RanksMade, QueuedNotRunning, SeenStarted,
     Untouched, JobsOf, cur, vars, db, pass
<1> QED
  BY <1>2, <1>3, <1>4, <1>5 DEF Next

(* A job that waits in the queue has no pod, but for the one at hand: no   *)
(* job is started a second time.  For any number of jobs, trainings and    *)
(* nodes, with requests one after the other: two creations at once may     *)
(* share a group number and queue each other's jobs.                       *)
THEOREM WaitingNotRunning ==
  ASSUME Reliable, Orderly PROVE Spec => []QueuedNotRunning
<1>1. StopInv /\ [Next]_vars => StopInv'
  BY StopNext
<1>2. StopInv => QueuedNotRunning
  BY DEF StopInv
<1> QED
  BY <1>1, <1>2, StopInit, PTL DEF Spec

(* A stop of a training leaves none of the jobs it was about in the queue  *)
(* and no pod, although the list it decides by is older than the lock it   *)
(* waits for, if the pods it deletes go.                                   *)
THEOREM StopsComplete ==
  ASSUME Reliable, Orderly, "delete" \notin Faults PROVE Spec => StopIsComplete
<1>1. StopInv /\ [Next]_vars => StopInv'
  BY StopNext
<1> DEFINE Complete ==
      \A r \in Request : StopJobs(r) /\ req[r].group = NoGroup =>
        /\ req[r].jobs \cap queue' = {}
        /\ PodsOf(pods', req[r].training) = {}
<1>2. StopInv => Complete
  <2> SUFFICES ASSUME StopInv, NEW r \in Request, StopJobs(r), req[r].group = NoGroup
               PROVE  /\ req[r].jobs \cap queue' = {}
                      /\ PodsOf(pods', req[r].training) = {}
    OBVIOUS
  <2>1. req[r].pc \in StopPcs /\ pc = "idle"
    BY DEF StopJobs, StopPcs, LockFree
  <2>2. req[r].jobs \cap req[r].running \cap queue = {}
    BY <2>1 DEF StopInv, SeenStarted
  <2>3. queue' = queue \ {j \in req[r].jobs : j \notin req[r].running /\ j \in queue}
    BY DEF StopJobs
  <2>4. pods' = pods \ {p \in PodsOf(pods, req[r].training) : TRUE}
    BY DEF StopJobs, DeletePods
  <2> QED
    BY <2>2, <2>3, <2>4 DEF PodsOf
<1>3. StopInv => [Complete]_vars
  BY <1>2
<1> HIDE DEF Complete
<1>4. Spec => [][Complete]_vars
  BY <1>1, <1>3, StopInit, PTL DEF Spec
<1> QED
  BY <1>4 DEF StopIsComplete, Complete

------------------------------------------------------------------------------
(* Where gangs are placed                                                  *)

(* A list of pods, as the scheduler holds it.                              *)
View(v) == v \subseteq Pod /\ IsFiniteSet(v)

(* Its pods can be counted.                                                *)
LEMMA ViewCounted ==
  ASSUME NEW v, View(v)
  PROVE  Counted(v)
  BY DEF View, Counted, Pod

(* The gang of a job, in whichever mode, has the GPUs the job asks for, on *)
(* nodes of the mode that are not blocked and that the job may use.        *)
LEMMA GangInMode ==
  ASSUME View(cache), NEW j \in JobId, NEW mode, NEW g \in GangsIn(j, mode)
  PROVE  /\ Placed(cache, Gpus[j], g)
         /\ Gpus[j] > 0 => \A i \in DOMAIN g : g[i].node \in Candidates(j, mode)
<1>1. Gpus[j] \in Nat /\ Candidates(j, mode) \in SUBSET Node
  BY JobSchedulerAssumption DEF Candidates
<1>2. CASE Gpus[j] = 0
  BY <1>2, CpuGangPlaced, ViewCounted DEF GangsIn
<1>3. CASE Gpus[j] # 0
  BY <1>1, <1>3, GpuGangPlaced, ViewCounted DEF GangsIn
<1> QED
  BY <1>2, <1>3

(* The mode of a gang that a pass chooses is open.                         *)
LEMMA GangPlaced ==
  ASSUME View(cache), NEW j \in JobId, ~Skipped(j), NEW g \in Gangs(j)
  PROVE  \E mode \in OpenModes(j) : g \in GangsIn(j, mode)
<1>1. CASE Want[j] = <<>>
  BY <1>1 DEF Gangs
<1>2. CASE Want[j] # <<>>
  <2>1. g \in GangsIn(j, FirstMode(j))
    BY <1>2 DEF Gangs
  <2>2. FirstMode(j) \in OpenModes(j)
    <3>1. OpenModes(j) # {}
      BY DEF Skipped
    <3>2. CASE Gpus[j] > 1
      BY <3>1, <3>2 DEF FirstMode, OpenModes, CheckModes
    <3>3. CASE ~(Gpus[j] > 1)
      <4> DEFINE eligible == {i \in DOMAIN Want[j] : /\ Want[j][i] \in Wanted(j)
                                                    /\ ModeOf(Want[j][i]) \in OpenModes(j)}
      <4>1. eligible # {}
        BY <1>2, <3>1, <3>3 DEF OpenModes, CheckModes, Wanted, ToSet
      <4>2. eligible \in SUBSET Int /\ IsFiniteSet(eligible)
        <5>1. Want[j] \in Seq(Node)
          BY JobSchedulerAssumption
        <5>2. DOMAIN Want[j] = 1 .. Len(Want[j]) /\ Len(Want[j]) \in Nat
          BY <5>1
        <5>3. IsFiniteSet(DOMAIN Want[j]) /\ DOMAIN Want[j] \in SUBSET Int
          BY <5>2, FS_Interval
        <5> QED
          BY <5>3, FS_Subset
      <4> HIDE DEF eligible
      <4>3. Min(eligible) \in eligible
        BY <4>1, <4>2, MinMaxExist
      <4>4. FirstMode(j) = ModeOf(Want[j][Min(eligible)])
        BY <3>3 DEF FirstMode, eligible
      <4> QED
        BY <4>3, <4>4 DEF eligible
    <3> QED
      BY <3>2, <3>3
  <2> QED
    BY <2>1, <2>2
<1> QED
  BY <1>1, <1>2

------------------------------------------------------------------------------
(* Type correctness                                                        *)

TypeInv == TypeOK /\ IsFiniteSet(pods) /\ IsFiniteSet(cache)

(* A request only takes pods away, and leaves the pass alone.              *)
LEMMA HandlerShrinks ==
  ASSUME NEW r \in Request, Handler(r)
  PROVE  pods' \subseteq pods /\ UNCHANGED <<active, pc, cache, pass>>
<1> USE DEF db
<1>1. ASSUME NEW t \in Training, NEW g \in 0 .. MaxJobs, GetGroupNumber(r, t, g)
      PROVE  pods' \subseteq pods /\ UNCHANGED <<active, pc, cache, pass>>
  BY <1>1 DEF GetGroupNumber
<1>2. ASSUME NEW batch \in SUBSET JobId, InsertJobs(r, batch)
      PROVE  pods' \subseteq pods /\ UNCHANGED <<active, pc, cache, pass>>
  BY <1>2 DEF InsertJobs
<1>3. CASE ReadGroup(r) \/ Enqueue(r) \/ CheckStopped(r) \/ DeleteTraining(r)
  BY <1>3 DEF ReadGroup, Enqueue, CheckStopped, DeleteTraining
<1>4. ASSUME NEW op, NEW at, NEW t, NEW g, NEW js, Open(r, op, at, t, g, js)
      PROVE  pods' \subseteq pods /\ UNCHANGED <<active, pc, cache, pass>>
  BY <1>4 DEF Open
<1>5. ASSUME NEW t \in Training,
             OpenStopJobs(r, t) \/ OpenStopTraining(r, t) \/ OpenDeleteTraining(r, t)
      PROVE  pods' \subseteq pods /\ UNCHANGED <<active, pc, cache, pass>>
  BY <1>4, <1>5 DEF OpenStopJobs, OpenStopTraining, OpenDeleteTraining
<1>6. ASSUME NEW t \in Training, NEW g \in 0 .. MaxJobs, OpenStopGroup(r, t, g)
      PROVE  pods' \subseteq pods /\ UNCHANGED <<active, pc, cache, pass>>
  BY <1>4, <1>6 DEF OpenStopGroup
<1>7. ASSUME NEW j \in JobId, OpenStopJob(r, j)
      PROVE  pods' \subseteq pods /\ UNCHANGED <<active, pc, cache, pass>>
  BY <1>4, <1>7 DEF OpenStopJob
<1>8. ASSUME NEW js \in SUBSET JobId, OpenDeleteJob(r, js)
      PROVE  pods' \subseteq pods /\ UNCHANGED <<active, pc, cache, pass>>
  BY <1>4, <1>8 DEF OpenDeleteJob
<1>9. CASE StopJobs(r) \/ RemoveAll(r) \/ StopJob(r) \/ DeleteJob(r)
  BY <1>9 DEF StopJobs, RemoveAll, StopJob, DeleteJob, DeletePods
<1> QED
  BY <1>1, <1>2, <1>3, <1>5, <1>6, <1>7, <1>8, <1>9 DEF Handler

(* At the start there are no pods.                                         *)
LEMMA TypesInit == Init => TypeInv
<1> SUFFICES ASSUME Init PROVE TypeInv
  OBVIOUS
<1>1. /\ pods = {} /\ cache = {} /\ closed = {} /\ blocked = {} /\ made = 0
      /\ gang = <<>>
  BY DEF Init
<1>2. gang \in Seq([node : Node, gpus : Nat]) /\ Len(gang) = 0
  BY <1>1
<1> QED
  BY <1>1, <1>2, InitTypes, FS_EmptySet DEF TypeInv, TypeOK, PodsTypeOK

(* The pass being over, its variables have their types.                    *)
LEMMA IdleTypes ==
  ASSUME Idle
  PROVE  /\ closed' \subseteq Modes /\ blocked' \subseteq Node
         /\ gang' \in Seq([node : Node, gpus : Nat]) /\ made' <= Len(gang')
<1>1. closed' = {} /\ blocked' = {} /\ made' = 0 /\ gang' = <<>>
  BY DEF Idle
<1>2. gang' \in Seq([node : Node, gpus : Nat]) /\ Len(gang') = 0
  BY <1>1
<1> QED
  BY <1>1, <1>2

(* The pod that is made next is one.                                       *)
LEMMA NextPodType ==
  ASSUME TypeInv, pc = "create", made < Len(gang)
  PROVE  /\ NextPod \in Pod /\ made + 1 \in DOMAIN gang /\ cur \in JobId
         /\ NextPod.node = gang[made + 1].node /\ NextPod.gpus = gang[made + 1].gpus
         /\ NextPod.job = cur /\ NextPod.rank = made
<1>0. gang \in Seq([node : Node, gpus : Nat]) /\ made \in Nat
  BY DEF TypeInv, TypeOK, ControlTypeOK, PodsTypeOK
<1>1. made + 1 \in 1 .. Len(gang) /\ DOMAIN gang = 1 .. Len(gang)
  BY <1>0
<1>2. gang[made + 1] \in [node : Node, gpus : Nat]
  <2> DEFINE P == [node : Node, gpus : Nat]
  <2>1. gang \in Seq(P)
    BY <1>0
  <2> HIDE DEF P
  <2>2. gang[made + 1] \in P
    BY <1>1, <2>1
  <2> QED
    BY <2>2 DEF P
<1>3. cur \in JobId
  BY DEF cur, TypeInv, TypeOK, ControlTypeOK
<1> QED
  BY <1>0, <1>1, <1>2, <1>3 DEF NextPod, Pod

(* Every step keeps the types.                                             *)
LEMMA TypesNext ==
  ASSUME TypeInv, [Next]_vars
  PROVE  TypeInv'
<1>1. ControlTypeOK'
  BY HandlerTypes, SchedulerTypes, EnvironmentTypes, StutterTypes DEF Next, TypeInv, TypeOK
<1> SUFFICES PodsTypeOK' /\ IsFiniteSet(pods') /\ IsFiniteSet(cache')
  BY <1>1 DEF TypeInv, TypeOK
<1>2. /\ PodsTypeOK /\ pods \subseteq Pod /\ cache \subseteq Pod
      /\ IsFiniteSet(pods) /\ IsFiniteSet(cache)
  BY DEF TypeInv, TypeOK, PodsTypeOK
<1>3. ASSUME pods' \subseteq pods, cache' = cache \/ cache' = pods
      PROVE  /\ pods' \subseteq Pod /\ cache' \subseteq Pod
             /\ IsFiniteSet(pods') /\ IsFiniteSet(cache')
  BY <1>2, <1>3, FS_Subset
<1>4. ASSUME pods' \subseteq pods, cache' = cache \/ cache' = pods, UNCHANGED pass \/ Idle
      PROVE  PodsTypeOK' /\ IsFiniteSet(pods') /\ IsFiniteSet(cache')
  BY <1>2, <1>3, <1>4, IdleTypes DEF PodsTypeOK, pass
<1>5. ASSUME NEW r \in Request, Handler(r)
      PROVE  PodsTypeOK' /\ IsFiniteSet(pods') /\ IsFiniteSet(cache')
  BY <1>4, <1>5, HandlerShrinks
<1>6. CASE Refresh \/ EndPass \/ Dequeue \/ Restart
  BY <1>4, <1>6 DEF Refresh, EndPass, Dequeue, Restart
<1>7. CASE Collect
  <2>1. pods' \subseteq pods /\ cache' = cache
    BY <1>7 DEF Collect, DeletePods
  <2>2. Idle \/ UNCHANGED <<closed, blocked, gang, made>>
    BY <1>7 DEF Collect
  <2> QED
    BY <1>2, <1>3, <2>1, <2>2, IdleTypes DEF PodsTypeOK
<1>8. CASE Skip
  BY <1>2, <1>8 DEF Skip, PodsTypeOK
<1>9. CASE Purge
  <2>1. Idle \/ UNCHANGED <<closed, blocked, gang, made>>
    BY <1>9 DEF Purge
  <2> QED
    BY <1>2, <1>9, <2>1, IdleTypes DEF Purge, PodsTypeOK
<1>10. CASE Reserve
  <2>1. idx \in DOMAIN podQueue /\ cur \in JobId
    BY <1>10 DEF Reserve, cur, TypeInv, TypeOK, ControlTypeOK
  <2>2. OpenModes(cur) \subseteq Modes
    BY DEF OpenModes, CheckModes, Modes, ModeOf
  <2>3. Wanted(cur) \subseteq Node
    <3>1. Want[cur] \in Seq(Node)
      BY <2>1, JobSchedulerAssumption
    <3> QED
      BY <3>1 DEF Wanted, ToSet
  <2> QED
    BY <1>2, <1>10, <2>2, <2>3 DEF Reserve, PodsTypeOK
<1>11. CASE Choose
  <2>1. idx \in DOMAIN podQueue /\ cur \in JobId
    BY <1>11 DEF Choose, cur, TypeInv, TypeOK, ControlTypeOK
  <2>2. View(cache)
    BY <1>2 DEF View
  <2>3. Placed(cache, Gpus[cur], gang')
    BY <1>11, <2>1, <2>2, GangPlaced, GangInMode DEF Choose
  <2>4. gang' \in Seq([node : Node, gpus : Nat]) /\ made' = 0
    BY <1>11, <2>3 DEF Choose, Placed
  <2>5. made' <= Len(gang')
    BY <2>4
  <2> QED
    BY <1>2, <1>11, <2>4, <2>5 DEF Choose, PodsTypeOK
<1>12. CASE CreatePod
  <2>1. NextPod \in Pod /\ IsFiniteSet(pods \cup {NextPod})
    BY <1>2, <1>12, NextPodType, FS_AddElement DEF CreatePod
  <2>2. made + 1 <= Len(gang)
    BY <1>12 DEF CreatePod, TypeInv, TypeOK, ControlTypeOK, PodsTypeOK
  <2> QED
    BY <1>2, <1>12, <2>1, <2>2 DEF CreatePod, PodsTypeOK
<1>13. CASE CreateRaises
  <2>1. NextPod \in Pod /\ IsFiniteSet(pods \cup {NextPod})
    BY <1>2, <1>13, NextPodType, FS_AddElement DEF CreateRaises
  <2> QED
    BY <1>2, <1>13, <2>1, IdleTypes DEF CreateRaises, PodsTypeOK
<1>14. ASSUME NEW p \in pods, PodEnds(p)
       PROVE  PodsTypeOK' /\ IsFiniteSet(pods') /\ IsFiniteSet(cache')
  <2>1. Ended(p) \in Pod
    BY <1>2 DEF Ended, Pod
  <2>2. IsFiniteSet((pods \ {p}) \cup {Ended(p)})
    BY <1>2, FS_RemoveElement, FS_AddElement
  <2> QED
    BY <1>2, <1>14, <2>1, <2>2 DEF PodEnds, PodsTypeOK, pass
<1>15. ASSUME NEW w \in Workspace, Expire(w) \/ Extend(w)
       PROVE  PodsTypeOK' /\ IsFiniteSet(pods') /\ IsFiniteSet(cache')
  BY <1>4, <1>15 DEF Expire, Extend
<1>16. CASE UNCHANGED vars
  BY <1>4, <1>16 DEF vars
<1> QED
  BY <1>5, <1>6, <1>7, <1>8, <1>9, <1>10, <1>11, <1>12, <1>13, <1>14, <1>15, <1>16
     DEF Next, Scheduler, Scan, Environment

(* All of the state keeps its type: also the placements of a gang, whose   *)
(* last part is what the greedy split has left of the request.             *)
THEOREM TypesKept == Spec => []TypeOK
<1>1. TypeInv /\ [Next]_vars => TypeInv'
  BY TypesNext
<1>2. TypeInv => TypeOK
  BY DEF TypeInv
<1> QED
  BY <1>1, <1>2, TypesInit, PTL DEF Spec

------------------------------------------------------------------------------
(* GPUs: no node, quota or guarantee is overdrawn                          *)

(* Two records of one pod: they differ at most in whether it has ended.    *)
Twin(p, q) == p.job = q.job /\ p.rank = q.rank /\ p.node = q.node /\ p.gpus = q.gpus

(* A class of pods that does not depend on whether they have ended.        *)
Class(K) == K \subseteq Pod /\ \A p \in K, q \in Pod : Twin(p, q) => q \in K

OnNode(n) == {p \in Pod : p.node = n}
Of(w) == {p \in Pod : OwnerOf(p) = w}
Loose == {p \in Pod : OwnerOf(p) \notin Guaranteed}

(* The names of pods in the cluster are taken once.                        *)
NamesDistinct == \A p, q \in pods : SameName(p, q) => p = q

(* While a pass looks for work (and always, when lists are refreshed       *)
(* unreliably) its list has every pod of the cluster.                      *)
Covered ==
  pc \in {"collect", "scan"} \/ "list" \in Faults
    => \A p \in pods : \E q \in cache : Twin(p, q)

(* What the gang still gets.                                               *)
Left == SumOver(GpusIn(gang), made + 1 .. Len(gang))

(* The workspace of the item of the pass.                                  *)
Owner == WorkspaceOf[TrainingOf[cur]]

(* The gang in the making uses no node twice, and what it still gets fits  *)
(* its nodes and its quota.                                                *)
GangFits ==
  pc = "create" =>
    /\ \A i, k \in DOMAIN gang : gang[i].node = gang[k].node => i = k
    /\ \A i \in DOMAIN gang : i > made /\ gang[i].gpus > 0 =>
         Held(pods \cap OnNode(gang[i].node)) + gang[i].gpus <= NodeGpus[gang[i].node]
    /\ Held(pods \cap Of(Owner)) + Left <= Quota[Owner]

NodesFit == \A n \in Node : Held(pods \cap OnNode(n)) <= NodeGpus[n]
QuotasFit == \A w \in Workspace : Held(pods \cap Of(w)) <= Quota[w]

GpuInv == TypeInv /\ NamesDistinct /\ Covered /\ GangFits /\ NodesFit /\ QuotasFit

(* Pods that are known by records in another list hold no more than those. *)
LEMMA TwinsHold ==
  ASSUME NEW A \in SUBSET Pod, IsFiniteSet(A), NEW B \in SUBSET Pod, IsFiniteSet(B),
         \A p \in A : \E q \in B : Twin(p, q),
         \A p, q \in A : SameName(p, q) => p = q
  PROVE  Held(A) <= Held(B)
<1> DEFINE h == [p \in A |-> CHOOSE q \in B : Twin(p, q)]
<1>1. \A p \in A : h[p] \in B /\ Twin(p, h[p])
  OBVIOUS
<1> HIDE DEF h
<1>2. \A p, q \in A : h[p] = h[q] => p = q
  BY <1>1 DEF Twin, SameName
<1>3. /\ \A p \in A \cup B : p.gpus \in Nat
      /\ \A p \in A : h[p] \in B /\ p.gpus = h[p].gpus
  BY <1>1 DEF Twin, Pod
<1> QED
  BY <1>2, <1>3, HeldInjection

(* The classes are classes, and the properties are about them.             *)
LEMMA Classes ==
  /\ \A n : Class(OnNode(n))
  /\ \A w : Class(Of(w))
  /\ Class(Loose)
  BY DEF Class, OnNode, Of, Loose, Twin, OwnerOf

(* A class of pods holds a number of GPUs.                                 *)
LEMMA ClassNat ==
  ASSUME NEW v, View(v), NEW K
  PROVE  IsFiniteSet(v \cap K) /\ v \cap K \in SUBSET Pod /\ Held(v \cap K) \in Nat
<1>1. v \cap K \in SUBSET Pod /\ IsFiniteSet(v \cap K)
  BY FS_Subset DEF View
<1>2. \A p \in v \cap K : p.gpus \in Nat
  BY <1>1 DEF Pod
<1> QED
  BY <1>1, <1>2, HeldNat

(* When each pod of one list has its twin in another and names are         *)
(* distinct, the first holds no more GPUs of any class.                    *)
LEMMA ClassTwins ==
  ASSUME NEW v, View(v), NEW u, View(u), NEW K, Class(K),
         \A p \in v : \E q \in u : Twin(p, q),
         \A p, q \in v : SameName(p, q) => p = q
  PROVE  Held(v \cap K) <= Held(u \cap K)
<1>1. \A p \in v \cap K : \E q \in u \cap K : Twin(p, q)
  BY DEF Class, View
<1>2. /\ IsFiniteSet(v \cap K) /\ v \cap K \in SUBSET Pod
      /\ IsFiniteSet(u \cap K) /\ u \cap K \in SUBSET Pod
  BY ClassNat
<1> QED
  BY <1>1, <1>2, TwinsHold

(* A new pod adds its GPUs to the classes it is of.                        *)
LEMMA ClassAdd ==
  ASSUME NEW v, View(v), NEW K, NEW q \in Pod, q \notin v
  PROVE  Held((v \cup {q}) \cap K) = Held(v \cap K) + (IF q \in K THEN q.gpus ELSE 0)
<1>1. Held(v \cap K) \in Nat /\ IsFiniteSet(v \cap K)
  BY ClassNat
<1>2. CASE q \in K
  <2>1. (v \cup {q}) \cap K = (v \cap K) \cup {q} /\ q \notin v \cap K
    BY <1>2
  <2>2. q.gpus \in Nat /\ \A p \in v \cap K : p.gpus \in Nat
    BY DEF Pod, View
  <2> QED
    BY <1>1, <1>2, <2>1, <2>2, HeldAdd
<1>3. CASE q \notin K
  <2>1. (v \cup {q}) \cap K = v \cap K
    BY <1>3
  <2> QED
    BY <1>1, <1>3, <2>1
<1> QED
  BY <1>2, <1>3

(* The views of the state.                                                 *)
LEMMA Views ==
  ASSUME TypeInv
  PROVE  View(pods) /\ View(cache)
  BY DEF TypeInv, TypeOK, PodsTypeOK, View

(* The sums the model speaks of.                                           *)
LEMMA UsedIsHeld ==
  ASSUME NEW v, View(v)
  PROVE  /\ \A n : Used(v, n) = Held(v \cap OnNode(n))
         /\ \A w : MapThenSumSet(LAMBDA p : p.gpus, {p \in v : OwnerOf(p) = w})
                    = Held(v \cap Of(w))
         /\ MapThenSumSet(LAMBDA p : p.gpus, {p \in v : OwnerOf(p) \notin Guaranteed})
              = Held(v \cap Loose)
<1>1. \A n : {p \in v : p.node = n} = v \cap OnNode(n)
  BY DEF View, OnNode
<1>2. \A w : {p \in v : OwnerOf(p) = w} = v \cap Of(w)
  BY DEF View, Of
<1>3. {p \in v : OwnerOf(p) \notin Guaranteed} = v \cap Loose
  BY DEF View, Loose
<1> QED
  BY <1>1, <1>2, <1>3 DEF Used, Held

(* The entries of a gang are placements.                                   *)
LEMMA GangEntries ==
  ASSUME TypeInv
  PROVE  /\ DOMAIN gang = 1 .. Len(gang) /\ Len(gang) \in Nat /\ made \in Nat
         /\ \A i \in DOMAIN gang : gang[i].gpus \in Nat /\ gang[i].node \in Node
<1>1. gang \in Seq([node : Node, gpus : Nat]) /\ made \in Nat
  BY DEF TypeInv, TypeOK, ControlTypeOK, PodsTypeOK
<1>2. DOMAIN gang = 1 .. Len(gang) /\ Len(gang) \in Nat
  BY <1>1
<1>3. \A i \in DOMAIN gang : gang[i] \in [node : Node, gpus : Nat]
  BY <1>1, <1>2, ElementOfSeq
<1> QED
  BY <1>1, <1>2, <1>3

(* What the gang still gets is a number, and shrinks by what a pod gets.   *)
LEMMA LeftNat ==
  ASSUME TypeInv
  PROVE  Left \in Nat
<1>1. gang \in Seq([node : Node, gpus : Nat]) /\ made \in Nat
  BY DEF TypeInv, TypeOK, ControlTypeOK, PodsTypeOK
<1> DEFINE S == made + 1 .. Len(gang)
<1>2. IsFiniteSet(S)
  BY <1>1, FS_Interval
<1>3. \A i \in S : GpusIn(gang)[i] \in Nat
  <2> SUFFICES ASSUME NEW i \in S PROVE GpusIn(gang)[i] \in Nat
    OBVIOUS
  <2>1. i \in 1 .. Len(gang) /\ DOMAIN gang = 1 .. Len(gang)
    BY <1>1
  <2>2. gang[i] \in [node : Node, gpus : Nat]
    BY <1>1, <2>1, ElementOfSeq
  <2> QED
    BY <2>1, <2>2 DEF GpusIn
<1> HIDE DEF S
<1>4. SumOver(GpusIn(gang), S) \in Nat
  BY <1>2, <1>3, SumNat
<1> QED
  BY <1>4 DEF Left, S

(* What is left of a gang is its next pod and the rest.                    *)
LEMMA LeftSplit ==
  ASSUME TypeInv, made < Len(gang)
  PROVE  /\ SumOver(GpusIn(gang), made + 2 .. Len(gang)) \in Nat
         /\ Left = gang[made + 1].gpus + SumOver(GpusIn(gang), made + 2 .. Len(gang))
         /\ Left \in Nat /\ gang[made + 1].gpus <= Left
<1>1. /\ DOMAIN gang = 1 .. Len(gang) /\ Len(gang) \in Nat /\ made \in Nat
      /\ \A i \in DOMAIN gang : gang[i].gpus \in Nat
  BY GangEntries
<1> DEFINE S == made + 1 .. Len(gang)
           R == made + 2 .. Len(gang)
<1>2. IsFiniteSet(S) /\ made + 1 \in S /\ S \ {made + 1} = R /\ IsFiniteSet(R)
  <2>1. made + 1 \in Int /\ made + 2 \in Int /\ Len(gang) \in Int
    BY <1>1
  <2>2. IsFiniteSet(S) /\ IsFiniteSet(R)
    BY <2>1, FS_Interval
  <2>3. made + 1 \in S /\ S \ {made + 1} = R
    BY <1>1, <2>1
  <2> QED
    BY <2>2, <2>3
<1>3. \A i \in S : GpusIn(gang)[i] \in Nat /\ GpusIn(gang)[i] = gang[i].gpus
  BY <1>1 DEF GpusIn
<1>4. R \subseteq S
  BY <1>2
<1> HIDE DEF S, R
<1>5. SumOver(GpusIn(gang), S) = GpusIn(gang)[made + 1] + SumOver(GpusIn(gang), R)
  <2>1. \A i \in S : GpusIn(gang)[i] \in Int
    BY <1>3
  <2> QED
    BY <1>2, <2>1, SumRemove
<1>6. SumOver(GpusIn(gang), R) \in Nat
  BY <1>2, <1>3, <1>4, SumNat
<1>7. Left = SumOver(GpusIn(gang), S)
  BY DEF Left, S
<1>8. GpusIn(gang)[made + 1] = gang[made + 1].gpus /\ gang[made + 1].gpus \in Nat
  BY <1>2, <1>3
<1>9. Left = gang[made + 1].gpus + SumOver(GpusIn(gang), R)
  BY <1>5, <1>7, <1>8
<1>10. Left \in Nat /\ gang[made + 1].gpus <= Left
  BY <1>6, <1>8, <1>9
<1> QED
  BY <1>6, <1>9, <1>10 DEF R

(* Making that pod leaves the rest.                                        *)
LEMMA LeftStep ==
  ASSUME TypeInv, made < Len(gang), gang' = gang, made' = made + 1
  PROVE  Left' \in Nat /\ Left = gang[made + 1].gpus + Left'
<1>1. made \in Nat
  BY GangEntries
<1>2. made + 1 + 1 = made + 2
  BY <1>1
<1>3. Left' = SumOver(GpusIn(gang), made + 1 + 1 .. Len(gang))
  BY DEF Left, GpusIn
<1> QED
  BY <1>2, <1>3, LeftSplit

(* Steps that make no pod: every pod is known by a record of before.       *)
NoNewTwin == (\A p \in pods' : \E q \in pods : Twin(p, q)) /\ NamesDistinct'

(* Pods that go or end free what they held.                                *)
LEMMA FitsShrink ==
  ASSUME GpuInv, TypeInv', NoNewTwin
  PROVE  /\ \A K : Class(K) => Held(pods' \cap K) <= Held(pods \cap K)
         /\ NodesFit' /\ QuotasFit'
<1>0. View(pods) /\ View(pods')
  BY Views DEF GpuInv, TypeInv, TypeOK, PodsTypeOK, View
<1>1. ASSUME NEW K, Class(K)
      PROVE  /\ Held(pods' \cap K) <= Held(pods \cap K)
             /\ Held(pods' \cap K) \in Nat /\ Held(pods \cap K) \in Nat
  <2>1. Held(pods' \cap K) \in Nat /\ Held(pods \cap K) \in Nat
    BY <1>0, ClassNat
  <2>2. /\ \A p \in pods' : \E q \in pods : Twin(p, q)
        /\ \A p, q \in pods' : SameName(p, q) => p = q
    BY DEF NoNewTwin, NamesDistinct
  <2>3. Held(pods' \cap K) <= Held(pods \cap K)
    BY <1>0, <1>1, <2>2, ClassTwins
  <2> QED
    BY <2>1, <2>3
<1>2. ASSUME NEW n \in Node
      PROVE  Held(pods' \cap OnNode(n)) <= NodeGpus[n]
  <2>1. Held(pods \cap OnNode(n)) <= NodeGpus[n] /\ NodeGpus[n] \in Nat
    BY PlacementAssumption DEF GpuInv, NodesFit
  <2>2. Class(OnNode(n))
    BY Classes
  <2> QED
    BY <1>1, <2>1, <2>2
<1>3. ASSUME NEW w \in Workspace
      PROVE  Held(pods' \cap Of(w)) <= Quota[w]
  <2>1. Held(pods \cap Of(w)) <= Quota[w] /\ Quota[w] \in Nat
    BY JobSchedulerAssumption DEF GpuInv, QuotasFit
  <2>2. Class(Of(w))
    BY Classes
  <2> QED
    BY <1>1, <2>1, <2>2
<1> QED
  BY <1>1, <1>2, <1>3 DEF NodesFit, QuotasFit

(* They leave the gang in the making its place.                            *)
LEMMA GangShrink ==
  ASSUME GpuInv, TypeInv', NoNewTwin, UNCHANGED <<pc, podQueue, idx, gang, made>>
  PROVE  GangFits'
<1> SUFFICES ASSUME pc = "create" PROVE GangFits'
  BY DEF GangFits
<1>0. View(pods) /\ View(pods')
  BY Views DEF GpuInv, TypeInv, TypeOK, PodsTypeOK, View
<1>1. ASSUME NEW K, Class(K)
      PROVE  /\ Held(pods' \cap K) <= Held(pods \cap K)
             /\ Held(pods' \cap K) \in Nat /\ Held(pods \cap K) \in Nat
  BY <1>0, <1>1, FitsShrink, ClassNat
<1>2. Left' = Left /\ Owner' = Owner /\ Left \in Nat
  BY LeftNat DEF Left, Owner, cur, GpuInv
<1>3. Owner \in Workspace /\ Quota[Owner] \in Nat
  <2>1. cur \in JobId
    BY DEF GpuInv, TypeInv, TypeOK, ControlTypeOK, cur
  <2> QED
    BY <2>1, JobSchedulerAssumption DEF Owner
<1>4. \A i \in DOMAIN gang : gang[i].gpus \in Nat /\ gang[i].node \in Node
  BY GangEntries DEF GpuInv
<1>5. ASSUME NEW i \in DOMAIN gang, i > made, gang[i].gpus > 0
      PROVE  Held(pods' \cap OnNode(gang[i].node)) + gang[i].gpus <= NodeGpus[gang[i].node]
  <2>1. Held(pods \cap OnNode(gang[i].node)) + gang[i].gpus <= NodeGpus[gang[i].node]
    BY <1>5 DEF GpuInv, GangFits
  <2>2. Class(OnNode(gang[i].node)) /\ NodeGpus[gang[i].node] \in Nat /\ gang[i].gpus \in Nat
    BY <1>4, Classes, PlacementAssumption
  <2> QED
    BY <1>1, <2>1, <2>2
<1>6. Held(pods' \cap Of(Owner)) + Left <= Quota[Owner]
  <2>1. Held(pods \cap Of(Owner)) + Left <= Quota[Owner]
    BY DEF GpuInv, GangFits
  <2>2. Class(Of(Owner))
    BY Classes
  <2> QED
    BY <1>1, <1>2, <1>3, <2>1, <2>2
<1> QED
  BY <1>2, <1>5, <1>6 DEF GpuInv, GangFits

(* A pod of the gang takes its part of what the gang still gets.           *)
LEMMA PodAdded ==
  ASSUME GpuInv, pc = "create", made < Len(gang), ~NameTaken,
         pods' = pods \cup {NextPod}
  PROVE  /\ NamesDistinct' /\ NodesFit' /\ QuotasFit'
         /\ \A K : Held(pods' \cap K)
                     = Held(pods \cap K) + (IF NextPod \in K THEN NextPod.gpus ELSE 0)
<1>1. /\ View(pods) /\ NextPod \in Pod /\ NextPod \notin pods /\ made + 1 \in DOMAIN gang
      /\ NextPod.node = gang[made + 1].node /\ NextPod.gpus = gang[made + 1].gpus
      /\ NextPod.job = cur
  BY Views, NextPodType DEF GpuInv, NameTaken, SameName
<1>2. NamesDistinct'
  BY DEF NamesDistinct, GpuInv, NameTaken, SameName
<1>3. ASSUME NEW K
      PROVE  /\ Held(pods' \cap K)
                  = Held(pods \cap K) + (IF NextPod \in K THEN NextPod.gpus ELSE 0)
             /\ Held(pods \cap K) \in Nat
  BY <1>1, ClassAdd, ClassNat
<1>4. NextPod.gpus \in Nat /\ NextPod.node \in Node /\ made \in Nat
  BY <1>1, GangEntries DEF GpuInv
<1>5. ASSUME NEW n \in Node
      PROVE  Held(pods' \cap OnNode(n)) <= NodeGpus[n]
  <2>1. Held(pods \cap OnNode(n)) <= NodeGpus[n] /\ NodeGpus[n] \in Nat
    BY PlacementAssumption DEF GpuInv, NodesFit
  <2>2. NextPod \in OnNode(n) <=> NextPod.node = n
    BY <1>1 DEF OnNode
  <2>3. CASE NextPod.node = n /\ NextPod.gpus > 0
    <3>1. Held(pods \cap OnNode(n)) + NextPod.gpus <= NodeGpus[n]
      <4>1. \A i \in DOMAIN gang : i > made /\ gang[i].gpus > 0 =>
              Held(pods \cap OnNode(gang[i].node)) + gang[i].gpus <= NodeGpus[gang[i].node]
        BY DEF GpuInv, GangFits
      <4>2. made + 1 > made
        BY <1>4
      <4> QED
        BY <1>1, <2>3, <4>1, <4>2
    <3> QED
      BY <1>3, <2>2, <2>3, <3>1
  <2>4. CASE ~(NextPod.node = n /\ NextPod.gpus > 0)
    BY <1>3, <1>4, <2>1, <2>2, <2>4
  <2> QED
    BY <2>3, <2>4
<1>6. ASSUME NEW w \in Workspace
      PROVE  Held(pods' \cap Of(w)) <= Quota[w]
  <2>1. Held(pods \cap Of(w)) <= Quota[w] /\ Quota[w] \in Nat
    BY JobSchedulerAssumption DEF GpuInv, QuotasFit
  <2>2. NextPod \in Of(w) <=> Owner = w
    BY <1>1 DEF Of, OwnerOf, Owner
  <2>3. CASE Owner = w
    <3>1. Held(pods \cap Of(w)) + Left <= Quota[w]
      BY <2>3 DEF GpuInv, GangFits
    <3>2. Left \in Nat /\ NextPod.gpus <= Left
      BY <1>1, LeftSplit DEF GpuInv
    <3> QED
      BY <1>3, <1>4, <2>1, <2>2, <2>3, <3>1, <3>2
  <2>4. CASE Owner # w
    BY <1>3, <2>1, <2>2, <2>4
  <2> QED
    BY <2>3, <2>4
<1> QED
  BY <1>2, <1>3, <1>5, <1>6 DEF NodesFit, QuotasFit

(* What is left of the gang still fits.                                    *)
LEMMA GangStep ==
  ASSUME GpuInv, CreatePod
  PROVE  GangFits'
<1>1. /\ pc = "create" /\ made < Len(gang) /\ ~NameTaken /\ pods' = pods \cup {NextPod}
      /\ gang' = gang /\ made' = made + 1 /\ Owner' = Owner
  BY DEF CreatePod, Owner, cur
<1>2. /\ NextPod \in Pod /\ made + 1 \in DOMAIN gang
      /\ NextPod.node = gang[made + 1].node /\ NextPod.gpus = gang[made + 1].gpus
      /\ NextPod.job = cur
  BY <1>1, NextPodType DEF GpuInv
<1>3. ASSUME NEW K
      PROVE  /\ Held(pods' \cap K)
                  = Held(pods \cap K) + (IF NextPod \in K THEN NextPod.gpus ELSE 0)
             /\ Held(pods \cap K) \in Nat
  BY <1>1, PodAdded, Views, ClassNat DEF GpuInv
<1>4. /\ DOMAIN gang = 1 .. Len(gang) /\ Len(gang) \in Nat /\ made \in Nat
      /\ \A i \in DOMAIN gang : gang[i].gpus \in Nat /\ gang[i].node \in Node
  BY GangEntries DEF GpuInv
<1>5. \A i, k \in DOMAIN gang : gang[i].node = gang[k].node => i = k
  BY <1>1 DEF GpuInv, GangFits
<1>6. ASSUME NEW i \in DOMAIN gang, i > made + 1, gang[i].gpus > 0
      PROVE  Held(pods' \cap OnNode(gang[i].node)) + gang[i].gpus <= NodeGpus[gang[i].node]
  <2>1. Held(pods \cap OnNode(gang[i].node)) + gang[i].gpus <= NodeGpus[gang[i].node]
    <3>1. i > made
      BY <1>4, <1>6
    <3> QED
      BY <1>1, <1>6, <3>1 DEF GpuInv, GangFits
  <2>2. NextPod \notin OnNode(gang[i].node)
    <3>1. i # made + 1
      BY <1>4, <1>6
    <3> QED
      BY <1>2, <1>5, <3>1 DEF OnNode
  <2>3. Held(pods' \cap OnNode(gang[i].node)) = Held(pods \cap OnNode(gang[i].node))
    BY <1>3, <2>2
  <2> QED
    BY <2>1, <2>3
<1>7. Held(pods' \cap Of(Owner)) + Left' <= Quota[Owner]
  <2>1. Held(pods \cap Of(Owner)) + Left <= Quota[Owner]
    BY <1>1 DEF GpuInv, GangFits
  <2>2. Left' \in Nat /\ Left = NextPod.gpus + Left'
    BY <1>1, <1>2, LeftStep DEF GpuInv
  <2>3. NextPod \in Of(Owner)
    BY <1>2 DEF Of, OwnerOf, Owner
  <2>4. Held(pods' \cap Of(Owner)) = Held(pods \cap Of(Owner)) + NextPod.gpus
    BY <1>3, <2>3
  <2>5. NextPod.gpus \in Nat /\ Held(pods \cap Of(Owner)) \in Nat
    BY <1>2, <1>3, <1>4
  <2>6. Held(pods' \cap Of(Owner)) + Left' = Held(pods \cap Of(Owner)) + Left
    BY <2>2, <2>4, <2>5
  <2> QED
    BY <2>1, <2>6
<1> QED
  BY <1>1, <1>5, <1>6, <1>7 DEF GangFits

(* A gang is chosen by a list that has every pod, so it fits the cluster   *)
(* and the quota of its workspace.                                         *)
LEMMA GangChosen ==
  ASSUME GpuInv, Choose
  PROVE  GangFits' /\ Left' = Gpus[cur] /\ gang' \in Seq([node : Node, gpus : Nat])
<1>1. /\ pc = "scan" /\ ~Skipped(cur) /\ Admitted(cur) /\ gang' \in Gangs(cur)
      /\ made' = 0 /\ pods' = pods /\ cur' = cur /\ Owner' = Owner
  BY DEF Choose, cur, Owner
<1>2. cur \in JobId
  <2>1. podQueue \in Seq(JobId) /\ idx \in 1 .. Len(podQueue)
    BY DEF Choose, GpuInv, TypeInv, TypeOK, ControlTypeOK
  <2> QED
    BY <2>1, ElementOfSeq DEF cur
<1>3. View(pods) /\ View(cache)
  BY Views DEF GpuInv
<1>4. Placed(cache, Gpus[cur], gang')
  BY <1>1, <1>2, <1>3, GangPlaced, GangInMode
<1>5. ASSUME NEW K, Class(K)
      PROVE  /\ Held(pods \cap K) <= Held(cache \cap K)
             /\ Held(pods \cap K) \in Nat /\ Held(cache \cap K) \in Nat
  <2>1. /\ \A p \in pods : \E q \in cache : Twin(p, q)
        /\ \A p, q \in pods : SameName(p, q) => p = q
    BY <1>1 DEF GpuInv, Covered, NamesDistinct
  <2> QED
    BY <1>3, <1>5, <2>1, ClassTwins, ClassNat
<1>6. /\ gang' \in Seq([node : Node, gpus : Nat])
      /\ \A i, k \in DOMAIN gang' : gang'[i].node = gang'[k].node => i = k
      /\ \A i \in DOMAIN gang' : gang'[i].gpus > 0 => gang'[i].gpus <= Free(cache, gang'[i].node)
      /\ SumOver(GpusIn(gang'), DOMAIN gang') = Gpus[cur]
  BY <1>4 DEF Placed
<1>7. DOMAIN gang' = 1 .. Len(gang') /\ Len(gang') \in Nat
  BY <1>6
<1>8. \A i \in DOMAIN gang' : gang'[i] \in [node : Node, gpus : Nat]
  BY <1>6, <1>7, ElementOfSeq
<1>9. Left' = Gpus[cur]
  <2>1. Left' = SumOver(GpusIn(gang'), 0 + 1 .. Len(gang'))
    BY <1>1 DEF Left, GpusIn
  <2>2. 0 + 1 = 1
    OBVIOUS
  <2> QED
    BY <1>6, <1>7, <2>1, <2>2
<1>10. ASSUME NEW i \in DOMAIN gang', gang'[i].gpus > 0
       PROVE  Held(pods \cap OnNode(gang'[i].node)) + gang'[i].gpus <= NodeGpus[gang'[i].node]
  <2>1. gang'[i].node \in Node /\ gang'[i].gpus \in Nat
    BY <1>8
  <2>2. gang'[i].gpus <= NodeGpus[gang'[i].node] - Held(cache \cap OnNode(gang'[i].node))
    BY <1>3, <1>6, <1>10, UsedIsHeld DEF Free
  <2>3. Class(OnNode(gang'[i].node)) /\ NodeGpus[gang'[i].node] \in Nat
    BY <2>1, Classes, PlacementAssumption
  <2> QED
    BY <1>5, <2>1, <2>2, <2>3
<1>11. Held(pods \cap Of(Owner)) + Gpus[cur] <= Quota[Owner]
  <2>0. Gpus[cur] \in Nat /\ Owner \in Workspace /\ Quota[Owner] \in Nat /\ Class(Of(Owner))
    BY <1>2, JobSchedulerAssumption, Classes DEF Owner
  <2> DEFINE now == Held(pods \cap Of(Owner))
             seen == Held(cache \cap Of(Owner))
  <2>a. now <= seen /\ now \in Nat /\ seen \in Nat
    BY <1>5, <2>0
  <2>1. CASE Gpus[cur] = 0
    <3>1. now <= Quota[Owner]
      BY <2>0 DEF GpuInv, QuotasFit
    <3> HIDE DEF now, seen
    <3>2. now + Gpus[cur] <= Quota[Owner]
      BY <2>0, <2>a, <2>1, <3>1
    <3> QED
      BY <3>2 DEF now
  <2>2. CASE Gpus[cur] # 0
    <3>1. Quota[Owner] - UsedBy(Owner) >= Gpus[cur]
      BY <1>1, <2>2 DEF Admitted, InQuota, Owner
    <3>2. UsedBy(Owner) = seen
      BY <1>3, UsedIsHeld DEF UsedBy
    <3> HIDE DEF now, seen
    <3>3. now + Gpus[cur] <= Quota[Owner]
      BY <2>0, <2>a, <3>1, <3>2
    <3> QED
      BY <3>3 DEF now
  <2> QED
    BY <2>1, <2>2
<1> QED
  BY <1>1, <1>6, <1>9, <1>10, <1>11 DEF GangFits

(* At the start there are no pods.                                         *)
LEMMA GpuInit == Init => GpuInv
<1> SUFFICES ASSUME Init PROVE GpuInv
  OBVIOUS
<1>1. pods = {} /\ pc = "idle"
  BY DEF Init
<1>2. \A K : Held(pods \cap K) = 0
  <2>1. \A K : pods \cap K = {}
    BY <1>1
  <2> QED
    BY <2>1, HeldEmpty
<1>3. NodesFit /\ QuotasFit
  <2>1. \A n \in Node : 0 <= NodeGpus[n]
    BY PlacementAssumption
  <2>2. \A w \in Workspace : 0 <= Quota[w]
    BY JobSchedulerAssumption
  <2> QED
    BY <1>2, <2>1, <2>2 DEF NodesFit, QuotasFit
<1> QED
  BY <1>1, <1>3, TypesInit DEF GpuInv, NamesDistinct, Covered, GangFits

(* A pod that ends is still known by its name and what it holds.           *)
LEMMA EndIsTwin ==
  ASSUME NamesDistinct, NEW p \in pods, PodEnds(p)
  PROVE  NoNewTwin
<1>1. /\ Ended(p).job = p.job /\ Ended(p).rank = p.rank /\ Ended(p).node = p.node
      /\ Ended(p).gpus = p.gpus
  BY DEF Ended
<1>2. pods' = (pods \ {p}) \cup {Ended(p)}
  BY DEF PodEnds
<1>3. \A a \in pods' : \E q \in pods : Twin(a, q)
  BY <1>1, <1>2 DEF Twin
<1>4. NamesDistinct'
  BY <1>1, <1>2 DEF NamesDistinct, SameName
<1> QED
  BY <1>3, <1>4 DEF NoNewTwin

(* Every step keeps the invariant.                                         *)
LEMMA GpuNext ==
  ASSUME Reliable, GpuInv, [Next]_vars
  PROVE  GpuInv'
<1>0. TypeInv /\ TypeInv'
  BY TypesNext DEF GpuInv
<1> USE DEF Twin
<1>1. ASSUME NoNewTwin, UNCHANGED <<pc, cache, podQueue, idx, gang, made>>
      PROVE  GpuInv'
  <2>1. Covered'
    <3>1. \A p \in pods' : \E q \in pods : Twin(p, q)
      BY <1>1 DEF NoNewTwin
    <3> QED
      BY <1>1, <3>1 DEF GpuInv, Covered
  <2> QED
    BY <1>0, <1>1, <2>1, FitsShrink, GangShrink DEF GpuInv, NoNewTwin
<1>2. ASSUME pods' \subseteq pods
      PROVE  NoNewTwin
  BY <1>2 DEF NoNewTwin, NamesDistinct, GpuInv
<1>3. ASSUME pods' \subseteq pods, Covered', pc' # "create"
      PROVE  GpuInv'
  BY <1>0, <1>2, <1>3, FitsShrink DEF GpuInv, GangFits, NoNewTwin
<1>4. ASSUME NEW r \in Request, Handler(r)
      PROVE  GpuInv'
  BY <1>1, <1>2, <1>4, HandlerShrinks DEF pass
<1>5. CASE Refresh
  <2>1. Covered'
    BY <1>5 DEF Refresh, Covered, GpuInv
  <2> QED
    BY <1>3, <1>5, <2>1 DEF Refresh
<1>6. CASE Collect
  <2>1. pods' \subseteq pods /\ cache' = cache /\ pc = "collect" /\ pc' \in {"idle", "scan"}
    BY <1>6 DEF Collect, DeletePods, Idle
  <2>2. Covered'
    BY <2>1 DEF Covered, GpuInv
  <2> QED
    BY <1>3, <2>1, <2>2
<1>7. CASE Skip \/ Purge \/ Reserve \/ EndPass
  <2>1. pods' = pods /\ cache' = cache /\ pc = "scan" /\ pc' \in {"idle", "scan"}
    BY <1>7 DEF Skip, Purge, Reserve, EndPass, Idle
  <2>2. Covered'
    BY <2>1 DEF Covered, GpuInv
  <2> QED
    BY <1>3, <2>1, <2>2
<1>8. CASE Choose
  <2>1. pods' = pods /\ cache' = cache /\ pc = "scan"
    BY <1>8 DEF Choose
  <2>2. Covered'
    BY <2>1 DEF Covered, GpuInv
  <2>3. NodesFit' /\ QuotasFit' /\ NamesDistinct'
    BY <1>0, <1>2, <2>1, FitsShrink DEF NoNewTwin
  <2> QED
    BY <1>0, <1>8, <2>2, <2>3, GangChosen DEF GpuInv
<1>9. CASE CreatePod
  <2>1. /\ pc = "create" /\ pc' = "create" /\ made < Len(gang) /\ ~NameTaken
        /\ pods' = pods \cup {NextPod}
        /\ cache' = pods' \/ ("create_list" \in Faults /\ cache' = cache)
    BY <1>9 DEF CreatePod
  <2>2. Covered'
    BY <2>1 DEF Reliable, Covered
  <2> QED
    BY <1>0, <1>9, <2>1, <2>2, PodAdded, GangStep DEF GpuInv
<1>10. CASE CreateRaises
  <2>1. /\ pc = "create" /\ pc' = "idle" /\ made < Len(gang) /\ cache' = cache
        /\ \/ pods' = pods
           \/ "timeout" \in Faults /\ ~NameTaken /\ pods' = pods \cup {NextPod}
    BY <1>10 DEF CreateRaises, Idle
  <2>2. CASE pods' = pods
    <3>1. Covered'
      BY <2>1, <2>2 DEF Covered, GpuInv
    <3> QED
      BY <1>3, <2>1, <2>2, <3>1
  <2>3. CASE "timeout" \in Faults /\ ~NameTaken /\ pods' = pods \cup {NextPod}
    <3>1. Covered'
      BY <2>1, <2>3 DEF Reliable, Covered
    <3>2. GangFits'
      BY <2>1 DEF GangFits
    <3> QED
      BY <1>0, <2>1, <2>3, <3>1, <3>2, PodAdded DEF GpuInv
  <2> QED
    BY <2>1, <2>2, <2>3
<1>11. CASE Dequeue
  <2>1. pods' = pods /\ cache' = cache /\ pc = "create" /\ pc' = "idle"
    BY <1>11 DEF Dequeue, Idle
  <2>2. Covered'
    BY <2>1 DEF Covered, GpuInv
  <2> QED
    BY <1>3, <2>1, <2>2
<1>12. ASSUME NEW p \in pods, PodEnds(p)
       PROVE  GpuInv'
  <2>1. NoNewTwin
    BY <1>12, EndIsTwin DEF GpuInv
  <2> QED
    BY <1>1, <1>12, <2>1 DEF PodEnds, pass
<1>13. ASSUME NEW w \in Workspace, Expire(w) \/ Extend(w)
       PROVE  GpuInv'
  BY <1>1, <1>2, <1>13 DEF Expire, Extend, pass
<1>14. CASE Restart
  <2>1. pods' = pods /\ cache' = pods /\ pc' = "idle"
    BY <1>14 DEF Restart, Idle
  <2>2. Covered'
    BY <2>1 DEF Covered
  <2> QED
    BY <1>3, <2>1, <2>2
<1>15. CASE UNCHANGED vars
  BY <1>1, <1>2, <1>15 DEF vars, pass
<1> QED
  BY <1>4, <1>5, <1>6, <1>7, <1>8, <1>9, <1>10, <1>11, <1>12, <1>13, <1>14, <1>15
     DEF Next, Scheduler, Scan, Environment

(* However requests, faults, restarts and pods that end interleave with    *)
(* passes, no pool of GPUs is given out beyond what it has...              *)
THEOREM NodesNotOversubscribed ==
  ASSUME Reliable PROVE Spec => []NodeNotOversubscribed
<1>1. GpuInv /\ [Next]_vars => GpuInv'
  BY GpuNext
<1>2. GpuInv => NodeNotOversubscribed
  <2> SUFFICES ASSUME GpuInv PROVE NodeNotOversubscribed
    OBVIOUS
  <2>1. \A n \in Node : Held(pods \cap OnNode(n)) <= NodeGpus[n]
    BY DEF GpuInv, NodesFit
  <2>2. \A n : Used(pods, n) = Held(pods \cap OnNode(n))
    BY Views, UsedIsHeld DEF GpuInv
  <2> QED
    BY <2>1, <2>2 DEF NodeNotOversubscribed
<1> QED
  BY <1>1, <1>2, GpuInit, PTL DEF Spec

(* ... and no workspace holds more than its quota.                         *)
THEOREM QuotasKept == ASSUME Reliable PROVE Spec => []WithinQuota
<1>1. GpuInv /\ [Next]_vars => GpuInv'
  BY GpuNext
<1>2. GpuInv => WithinQuota
  <2> SUFFICES ASSUME GpuInv PROVE WithinQuota
    OBVIOUS
  <2>1. \A w \in Workspace : Held(pods \cap Of(w)) <= Quota[w]
    BY DEF GpuInv, QuotasFit
  <2>2. \A w : MapThenSumSet(LAMBDA p : p.gpus, {p \in pods : OwnerOf(p) = w})
                  = Held(pods \cap Of(w))
    BY Views, UsedIsHeld DEF GpuInv
  <2> QED
    BY <2>1, <2>2 DEF WithinQuota
<1> QED
  BY <1>1, <1>2, GpuInit, PTL DEF Spec
------------------------------------------------------------------------------
(* What is guaranteed stays available                                      *)

(* What the guaranteed quotas leave of the GPUs of all nodes.              *)
Spare == MapThenSumSet(LAMBDA n : NodeGpus[n], Node)
           - MapThenSumSet(LAMBDA w : Quota[w], Guaranteed)

(* A guaranteed workspace stays in its period, and the guaranteed quotas   *)
(* add up to no more than there is.                                        *)
GuaranteesSound == Guaranteed \cap MayExpire = {} /\ Spare >= 0

(* What a gang without a guarantee still gets.                             *)
LooseLeft == IF pc = "create" /\ Owner \notin Guaranteed THEN Left ELSE 0

GuaranteeInv ==
  GpuInv /\ Guaranteed \subseteq active /\ Held(pods \cap Loose) + LooseLeft <= Spare

(* The sums of the check are numbers.                                      *)
LEMMA SpareParts ==
  /\ MapThenSumSet(LAMBDA n : NodeGpus[n], Node) \in Int
  /\ MapThenSumSet(LAMBDA w : Quota[w], Guaranteed) \in Int
<1>1. MapThenSumSet(LAMBDA n : NodeGpus[n], Node) = SumOver(NodeGpus, Node)
  BY DEF SumOver, SumFunctionOnSet, FoldFunctionOnSet, MapThenSumSet
<1>2. MapThenSumSet(LAMBDA w : Quota[w], Guaranteed) = SumOver(Quota, Guaranteed)
  BY DEF SumOver, SumFunctionOnSet, FoldFunctionOnSet, MapThenSumSet
<1>3. SumOver(NodeGpus, Node) \in Int
  <2>1. \A n \in Node : NodeGpus[n] \in Int
    BY PlacementAssumption
  <2> QED
    BY <2>1, PlacementAssumption, SumInt
<1>4. SumOver(Quota, Guaranteed) \in Int
  <2>1. \A w \in Guaranteed : Quota[w] \in Int
    BY JobSchedulerAssumption
  <2> QED
    BY <2>1, JobSchedulerAssumption, SumInt
<1> QED
  BY <1>1, <1>2, <1>3, <1>4

(* So what the guaranteed quotas leave is a number.                        *)
LEMMA SpareInt == Spare \in Int
  BY SpareParts DEF Spare

(* What the guaranteed workspaces use is what their pods hold.             *)
LEMMA UsedByIsSum ==
  ASSUME NEW W, IsFiniteSet(W), NEW f, \A w \in W : f[w] = UsedBy(w)
  PROVE  MapThenSumSet(UsedBy, W) = SumOver(f, W)
<1> DEFINE Rec(g) == g = [U \in SUBSET W |-> IF U = {} THEN 0
                            ELSE UsedBy(AnyOf(U)) + g[U \ {AnyOf(U)}]]
<1>1. MapThenSumSet(UsedBy, W) = (CHOOSE g : Rec(g))[W]
  BY DEF MapThenSumSet, MapThenFoldSet, AnyOf
<1>2. \A U \in SUBSET W : U # {} => f[AnyOf(U)] = UsedBy(AnyOf(U))
  BY DEF AnyOf
<1>3. \A g : Rec(g) <=> IsSum(g, f, W)
  BY <1>2 DEF IsSum
<1> HIDE DEF Rec
<1>4. IsSum([U \in SUBSET W |-> SumOver(f, U)], f, W)
  BY SumOverIsSum
<1>5. (CHOOSE g : Rec(g)) = [U \in SUBSET W |-> SumOver(f, U)]
  BY <1>3, <1>4, SumUnique
<1> QED
  BY <1>1, <1>5

(* The pods of a list belong to guaranteed workspaces or to the others.    *)
LEMMA GuaranteedUse ==
  ASSUME View(cache)
  PROVE  /\ MapThenSumSet(UsedBy, Guaranteed) = Held(cache \ Loose)
         /\ Held(cache) = Held(cache \ Loose) + Held(cache \cap Loose)
         /\ Held(cache \ Loose) \in Nat
<1> DEFINE g == [p \in cache |-> p.gpus]
           own == [p \in cache |-> OwnerOf(p)]
           used == [w \in Guaranteed |-> SumOver(g, {p \in cache : own[p] = w})]
<1>0. /\ IsFiniteSet(cache) /\ cache \subseteq Pod /\ IsFiniteSet(Guaranteed)
      /\ \A U \in SUBSET cache : IsFiniteSet(U)
  BY JobSchedulerAssumption, FS_Subset DEF View
<1>1. \A p \in cache : g[p] \in Nat /\ g[p] \in Int /\ g[p] = p.gpus /\ own[p] = OwnerOf(p)
  BY <1>0 DEF Pod
<1> HIDE DEF g, own
<1>2. \A U \in SUBSET cache : Held(U) = SumOver(g, U)
  BY <1>0, <1>1, HeldIsSum
<1>3. \A w \in Guaranteed : used[w] = UsedBy(w)
  <2> SUFFICES ASSUME NEW w \in Guaranteed PROVE used[w] = UsedBy(w)
    OBVIOUS
  <2>1. {p \in cache : OwnerOf(p) = w} = {p \in cache : own[p] = w}
    BY <1>1
  <2>2. UsedBy(w) = Held({p \in cache : OwnerOf(p) = w})
    BY DEF UsedBy, Held
  <2> QED
    BY <1>2, <2>1, <2>2
<1>4. MapThenSumSet(UsedBy, Guaranteed) = SumOver(used, Guaranteed)
  <2> HIDE DEF used
  <2> QED
    BY <1>0, <1>3, UsedByIsSum
<1>5. SumOver(used, Guaranteed) = SumOver(g, {p \in cache : own[p] \in Guaranteed})
  BY <1>0, <1>1, SumGroups
<1>6. {p \in cache : own[p] \in Guaranteed} = cache \ Loose
  BY <1>0, <1>1 DEF Loose
<1>7. MapThenSumSet(UsedBy, Guaranteed) = Held(cache \ Loose)
  BY <1>2, <1>4, <1>5, <1>6
<1>8. Held(cache) = Held(cache \ Loose) + Held(cache \cap Loose)
  <2>1. (cache \ Loose) \cup (cache \cap Loose) = cache
    OBVIOUS
  <2>2. (cache \ Loose) \cap (cache \cap Loose) = {}
    OBVIOUS
  <2>3. SumOver(g, (cache \ Loose) \cup (cache \cap Loose))
          = SumOver(g, cache \ Loose) + SumOver(g, cache \cap Loose)
    BY <1>0, <1>1, <2>1, <2>2, SumUnion
  <2> QED
    BY <1>2, <2>1, <2>3
<1>9. Held(cache \ Loose) \in Nat
  BY <1>0, <1>1, <1>2, SumNat
<1> QED
  BY <1>7, <1>8, <1>9

(* A step without new pods keeps what is spare, when the gang in the       *)
(* making stays or is dropped.                                             *)
LEMMA SpareShrink ==
  ASSUME GuaranteeInv, GpuInv', NoNewTwin,
         pc' # "create" \/ UNCHANGED <<pc, podQueue, idx, gang, made>>
  PROVE  Held(pods' \cap Loose) + LooseLeft' <= Spare
<1>1. /\ Held(pods' \cap Loose) <= Held(pods \cap Loose)
      /\ Held(pods' \cap Loose) \in Nat /\ Held(pods \cap Loose) \in Nat
  <2>1. View(pods) /\ View(pods') /\ TypeInv'
    BY Views DEF GuaranteeInv, GpuInv, TypeInv, TypeOK, PodsTypeOK, View
  <2> QED
    BY <2>1, FitsShrink, ClassNat, Classes DEF GuaranteeInv
<1>2. LooseLeft' = LooseLeft \/ LooseLeft' = 0
  BY DEF LooseLeft, Left, Owner, cur
<1>3. LooseLeft \in Nat
  BY LeftNat DEF LooseLeft, GuaranteeInv, GpuInv
<1>4. Held(pods \cap Loose) + LooseLeft <= Spare /\ Spare \in Int
  BY SpareInt DEF GuaranteeInv
<1> QED
  BY <1>1, <1>2, <1>3, <1>4

(* A pod takes its part of what the gang still gets.                       *)
LEMMA SparePod ==
  ASSUME GuaranteeInv, pc = "create", made < Len(gang), ~NameTaken,
         pods' = pods \cup {NextPod},
         pc' # "create" \/ (gang' = gang /\ made' = made + 1 /\ UNCHANGED <<podQueue, idx>>)
  PROVE  Held(pods' \cap Loose) + LooseLeft' <= Spare
<1>1. /\ NextPod \in Pod /\ NextPod.job = cur /\ NextPod.gpus = gang[made + 1].gpus
      /\ NextPod.gpus \in Nat
  <2>1. NextPod \in Pod /\ NextPod.job = cur /\ NextPod.gpus = gang[made + 1].gpus
    BY NextPodType DEF GuaranteeInv, GpuInv
  <2> QED
    BY <2>1 DEF Pod
<1>2. NextPod \in Loose <=> Owner \notin Guaranteed
  BY <1>1 DEF Loose, OwnerOf, Owner
<1>3. /\ Held(pods' \cap Loose)
           = Held(pods \cap Loose) + (IF NextPod \in Loose THEN NextPod.gpus ELSE 0)
      /\ Held(pods \cap Loose) \in Nat
  BY PodAdded, Views, ClassNat DEF GuaranteeInv, GpuInv
<1>4. Held(pods \cap Loose) + LooseLeft <= Spare /\ Spare \in Int
  BY SpareInt DEF GuaranteeInv
<1>5. Left \in Nat /\ NextPod.gpus <= Left
  BY <1>1, LeftSplit DEF GuaranteeInv, GpuInv
<1>6. CASE Owner \in Guaranteed
  <2>1. LooseLeft = 0
    BY <1>6 DEF LooseLeft
  <2>2. LooseLeft' = 0
    BY <1>6 DEF LooseLeft, Owner, cur
  <2> QED
    BY <1>2, <1>3, <1>4, <1>6, <2>1, <2>2
<1>7. CASE Owner \notin Guaranteed
  <2>1. LooseLeft = Left
    BY <1>7 DEF LooseLeft
  <2>2. CASE pc' # "create"
    <3>1. LooseLeft' = 0
      BY <2>2 DEF LooseLeft
    <3> QED
      BY <1>1, <1>2, <1>3, <1>4, <1>5, <1>7, <2>1, <3>1
  <2>3. CASE pc' = "create"
    <3>1. LooseLeft' = Left'
      BY <1>7, <2>3 DEF LooseLeft, Owner, cur
    <3>2. Left' \in Nat /\ Left = NextPod.gpus + Left'
      BY <1>1, <2>3, LeftStep DEF GuaranteeInv, GpuInv
    <3> QED
      BY <1>1, <1>2, <1>3, <1>4, <1>7, <2>1, <3>1, <3>2
  <2> QED
    BY <2>2, <2>3
<1> QED
  BY <1>6, <1>7

(* An item of a workspace without a guarantee is only chosen when what is  *)
(* spare has room for it.                                                  *)
LEMMA SpareChosen ==
  ASSUME GuaranteeInv, Choose
  PROVE  Held(pods' \cap Loose) + LooseLeft' <= Spare
<1>1. /\ pc = "scan" /\ pc' = "create" /\ Admitted(cur) /\ pods' = pods /\ Owner' = Owner
  BY DEF Choose, cur, Owner
<1>2. Left' = Gpus[cur]
  BY GangChosen DEF GuaranteeInv
<1>3. /\ View(pods) /\ View(cache)
  BY Views DEF GuaranteeInv, GpuInv
<1>4. Held(pods \cap Loose) <= Spare /\ Held(pods \cap Loose) \in Nat /\ Spare \in Int
  <2>1. LooseLeft = 0
    BY <1>1 DEF LooseLeft
  <2>2. Held(pods \cap Loose) \in Nat
    BY <1>3, ClassNat
  <2> QED
    BY <2>1, <2>2, SpareInt DEF GuaranteeInv
<1>5. CASE Owner \in Guaranteed \/ Gpus[cur] = 0
  <2>1. LooseLeft' = 0
    BY <1>1, <1>2, <1>5 DEF LooseLeft
  <2> QED
    BY <1>1, <1>4, <2>1
<1>6. CASE Owner \notin Guaranteed /\ Gpus[cur] # 0
  <2>1. LooseLeft' = Gpus[cur]
    BY <1>1, <1>2, <1>6 DEF LooseLeft
  <2>2. FreeGpus - StillGuaranteed >= Gpus[cur]
    BY <1>1, <1>6 DEF Admitted, GuaranteeKept, Owner
  <2> DEFINE total == MapThenSumSet(LAMBDA n : NodeGpus[n], Node)
             promised == MapThenSumSet(LAMBDA w : Quota[w], Guaranteed)
             theirs == Held(cache \ Loose)
             others == Held(cache \cap Loose)
             now == Held(pods \cap Loose)
  <2>3. FreeGpus = total - Held(cache)
    BY DEF FreeGpus, Held
  <2>4. StillGuaranteed = promised - MapThenSumSet(UsedBy, Guaranteed)
    <3>1. Guaranteed \cap active = Guaranteed
      BY DEF GuaranteeInv
    <3> QED
      BY <3>1 DEF StillGuaranteed
  <2>5. /\ MapThenSumSet(UsedBy, Guaranteed) = theirs /\ theirs \in Nat
        /\ Held(cache) = theirs + others
    BY <1>3, GuaranteedUse
  <2>6. now <= others /\ others \in Nat /\ now \in Nat
    <3>1. /\ \A p \in pods : \E q \in cache : Twin(p, q)
          /\ \A p, q \in pods : SameName(p, q) => p = q
      BY <1>1 DEF GuaranteeInv, GpuInv, Covered, NamesDistinct
    <3> QED
      BY <1>3, <3>1, ClassTwins, ClassNat, Classes
  <2>7. Spare = total - promised /\ total \in Int /\ promised \in Int
    BY SpareParts DEF Spare
  <2>8. Gpus[cur] \in Nat
    <3>1. podQueue \in Seq(JobId) /\ idx \in 1 .. Len(podQueue)
      BY DEF Choose, GuaranteeInv, GpuInv, TypeInv, TypeOK, ControlTypeOK
    <3> QED
      BY <3>1, ElementOfSeq, JobSchedulerAssumption DEF cur
  <2>9. Held(pods' \cap Loose) = now
    BY <1>1
  <2> HIDE DEF total, promised, theirs, others, now
  <2>10. now + Gpus[cur] <= Spare
    BY <2>2, <2>3, <2>4, <2>5, <2>6, <2>7, <2>8
  <2> QED
    BY <2>1, <2>9, <2>10
<1> QED
  BY <1>5, <1>6

(* The invariant holds at the start, and every step keeps it.              *)
LEMMA GuaranteeInit == ASSUME GuaranteesSound PROVE Init => GuaranteeInv
<1> SUFFICES ASSUME Init PROVE GuaranteeInv
  OBVIOUS
<1>1. pods = {} /\ pc = "idle" /\ active = Workspace
  BY DEF Init
<1>2. pods \cap Loose = {}
  BY <1>1
<1>3. Held(pods \cap Loose) = 0 /\ LooseLeft = 0
  BY <1>1, <1>2, HeldEmpty DEF LooseLeft
<1>4. Spare >= 0 /\ Spare \in Int
  BY SpareInt DEF GuaranteesSound
<1> QED
  BY <1>1, <1>3, <1>4, GpuInit, JobSchedulerAssumption DEF GuaranteeInv

(* Every step keeps the invariant.                                         *)
LEMMA GuaranteeNext ==
  ASSUME Reliable, GuaranteesSound, GuaranteeInv, [Next]_vars
  PROVE  GuaranteeInv'
<1>0. GpuInv /\ GpuInv'
  BY GpuNext DEF GuaranteeInv
<1>1. Guaranteed \subseteq active'
  <2>1. CASE active' = active
    BY <2>1 DEF GuaranteeInv
  <2>2. ASSUME NEW w \in Workspace, Expire(w) \/ Extend(w)
        PROVE  Guaranteed \subseteq active'
    BY <2>2 DEF Expire, Extend, GuaranteesSound, GuaranteeInv
  <2>3. ASSUME NEW r \in Request, Handler(r)
        PROVE  active' = active
    BY <2>3, HandlerShrinks
  <2>4. ASSUME Scheduler
        PROVE  active' = active
    BY <2>4 DEF Scheduler, Scan, Refresh, Collect, Skip, Purge, Reserve, Choose, EndPass,
                CreatePod, CreateRaises, Dequeue
  <2>5. ASSUME NEW p \in pods, PodEnds(p)
        PROVE  active' = active
    BY <2>5 DEF PodEnds
  <2>6. ASSUME Restart \/ UNCHANGED vars
        PROVE  active' = active
    BY <2>6 DEF Restart, vars
  <2> QED
    BY <2>1, <2>2, <2>3, <2>4, <2>5, <2>6 DEF Next, Environment
<1> SUFFICES Held(pods' \cap Loose) + LooseLeft' <= Spare
  BY <1>0, <1>1 DEF GuaranteeInv
<1>2. ASSUME pods' \subseteq pods,
             pc' # "create" \/ UNCHANGED <<pc, podQueue, idx, gang, made>>
      PROVE  Held(pods' \cap Loose) + LooseLeft' <= Spare
  <2>1. NoNewTwin
    BY <1>0, <1>2 DEF NoNewTwin, Twin, GpuInv
  <2> QED
    BY <1>0, <1>2, <2>1, SpareShrink
<1>3. ASSUME NEW r \in Request, Handler(r)
      PROVE  Held(pods' \cap Loose) + LooseLeft' <= Spare
  BY <1>2, <1>3, HandlerShrinks DEF pass
<1>4. CASE Refresh \/ Skip \/ Reserve \/ EndPass \/ Dequeue \/ Restart
  <2>1. pods' = pods /\ pc' # "create"
    BY <1>4 DEF Refresh, Skip, Reserve, EndPass, Dequeue, Restart, Idle
  <2> QED
    BY <1>2, <2>1
<1>5. CASE Collect \/ Purge
  <2>1. pods' \subseteq pods /\ pc' # "create"
    BY <1>5 DEF Collect, DeletePods, Purge, Idle
  <2> QED
    BY <1>2, <2>1
<1>6. CASE Choose
  BY <1>6, SpareChosen
<1>7. CASE CreatePod
  BY <1>7, SparePod DEF CreatePod
<1>8. CASE CreateRaises
  <2>1. pc' # "create" /\ pc = "create" /\ made < Len(gang)
    BY <1>8 DEF CreateRaises, Idle
  <2>2. \/ pods' = pods
        \/ ~NameTaken /\ pods' = pods \cup {NextPod}
    BY <1>8 DEF CreateRaises
  <2> QED
    BY <1>2, <2>1, <2>2, SparePod
<1>9. ASSUME NEW p \in pods, PodEnds(p)
      PROVE  Held(pods' \cap Loose) + LooseLeft' <= Spare
  <2>1. NoNewTwin
    BY <1>0, <1>9, EndIsTwin DEF GpuInv
  <2> QED
    BY <1>0, <1>9, <2>1, SpareShrink DEF PodEnds, pass
<1>10. ASSUME NEW w \in Workspace, Expire(w) \/ Extend(w)
       PROVE  Held(pods' \cap Loose) + LooseLeft' <= Spare
  BY <1>2, <1>10 DEF Expire, Extend, pass
<1>11. CASE UNCHANGED vars
  BY <1>2, <1>11 DEF vars, pass
<1> QED
  BY <1>3, <1>4, <1>5, <1>6, <1>7, <1>8, <1>9, <1>10, <1>11
     DEF Next, Scheduler, Scan, Environment

(* The pods of workspaces without a guarantee never take what guaranteed   *)
(* workspaces may still claim, as long as the guaranteed quotas fit the    *)
(* cluster together and their workspaces stay in their period.             *)
THEOREM GuaranteesHeld ==
  ASSUME Reliable, GuaranteesSound PROVE Spec => []GuaranteeHeld
<1>1. GuaranteeInv /\ [Next]_vars => GuaranteeInv'
  BY GuaranteeNext
<1>2. GuaranteeInv => GuaranteeHeld
  <2> SUFFICES ASSUME GuaranteeInv PROVE GuaranteeHeld
    OBVIOUS
  <2>1. Held(pods \cap Loose) + LooseLeft <= Spare /\ Spare \in Int
    BY SpareInt DEF GuaranteeInv
  <2>2. LooseLeft \in Nat
    BY LeftNat DEF LooseLeft, GuaranteeInv, GpuInv
  <2>3. /\ MapThenSumSet(LAMBDA p : p.gpus, {p \in pods : OwnerOf(p) \notin Guaranteed})
             = Held(pods \cap Loose)
        /\ Held(pods \cap Loose) \in Nat
    BY Views, UsedIsHeld, ClassNat DEF GuaranteeInv, GpuInv
  <2> DEFINE total == MapThenSumSet(LAMBDA n : NodeGpus[n], Node)
             promised == MapThenSumSet(LAMBDA w : Quota[w], Guaranteed)
             now == Held(pods \cap Loose)
  <2>4. Spare = total - promised /\ total \in Int /\ promised \in Int
    BY SpareParts DEF Spare
  <2>5. GuaranteeHeld <=> total - now >= promised
    BY <2>3 DEF GuaranteeHeld
  <2> HIDE DEF total, promised, now
  <2>6. now + LooseLeft <= Spare /\ now \in Nat
    BY <2>1, <2>3 DEF now
  <2> QED
    BY <2>1, <2>2, <2>4, <2>5, <2>6
<1> QED
  BY <1>1, <1>2, GuaranteeInit, PTL DEF Spec
------------------------------------------------------------------------------
(* No job overtakes an older one                                           *)

(* What a pass knows of an item it has gone past.                          *)
Reserved(j) ==
  \/ RunningTraining(j)
  \/ Gpus[j] = 0
  \/ \A n \in UsableBy(j) : n \in blocked \/ ModeOf(n) \in closed

(* With no workspace out of its period no entry is deleted from the list   *)
(* in front of the pass, so each one before idx has been looked at.        *)
OrderInv ==
  /\ TypeInv
  /\ active = Workspace
  /\ pc \in {"idle", "collect"} => idx = 1
  /\ pc = "scan" => \A k \in 1 .. idx - 1 : Reserved(podQueue[k])

(* An item that is skipped, or that reserves what it cannot have yet, has  *)
(* all the nodes it may use closed or blocked.                             *)
LEMMA PastReserved ==
  ASSUME NEW j \in JobId,
         \/ Skipped(j) /\ UNCHANGED <<closed, blocked>>
         \/ Want[j] = <<>> /\ closed' = closed \cup OpenModes(j) /\ UNCHANGED blocked
         \/ Want[j] # <<>> /\ blocked' = blocked \cup Wanted(j) /\ UNCHANGED closed,
         UNCHANGED cache
  PROVE  Reserved(j)'
<1> SUFFICES ASSUME ~RunningTraining(j), Gpus[j] # 0, NEW n \in UsableBy(j)
             PROVE  n \in blocked' \/ ModeOf(n) \in closed'
  BY DEF Reserved, RunningTraining, UsableBy
<1>1. Gpus[j] \in Nat
  BY JobSchedulerAssumption
<1>2. /\ Want[j] = <<>> \/ n \in ToSet(Want[j])
      /\ ModeOf(n) = "general" \/ Gpus[j] = 1
      /\ ModeOf(n) \in Modes
  BY DEF UsableBy, ModeOf, Modes
<1>3. n \notin blocked => ModeOf(n) \in CheckModes(j)
  BY <1>1, <1>2 DEF CheckModes, Wanted
<1>4. CASE Skipped(j) /\ UNCHANGED <<closed, blocked>>
  BY <1>2, <1>3, <1>4 DEF Skipped, NoMoreGpu, Wanted, OpenModes
<1>5. CASE Want[j] = <<>> /\ closed' = closed \cup OpenModes(j) /\ UNCHANGED blocked
  BY <1>3, <1>5 DEF OpenModes
<1>6. CASE Want[j] # <<>> /\ blocked' = blocked \cup Wanted(j) /\ UNCHANGED closed
  BY <1>2, <1>6 DEF Wanted
<1> QED
  BY <1>4, <1>5, <1>6

(* The items before stay reserved while the pass goes on.                  *)
LEMMA ScanGoesOn ==
  ASSUME OrderInv, pc = "scan", idx <= Len(podQueue), NEW j, j = cur, Reserved(j)',
         closed \subseteq closed', blocked \subseteq blocked',
         pc' = "scan", idx' = idx + 1, UNCHANGED <<podQueue, cache>>
  PROVE  \A k \in 1 .. idx' - 1 : Reserved(podQueue[k])'
<1>1. idx \in Nat \ {0}
  BY DEF OrderInv, TypeInv, TypeOK, ControlTypeOK
<1> SUFFICES ASSUME NEW k \in 1 .. idx PROVE Reserved(podQueue[k])'
  BY <1>1
<1>2. CASE k = idx
  <2>1. podQueue'[k] = j
    BY <1>2 DEF cur
  <2> QED
    BY <2>1 DEF Reserved, RunningTraining, UsableBy
<1>3. CASE k # idx
  <2>1. k \in 1 .. idx - 1
    BY <1>1, <1>3
  <2>2. Reserved(podQueue[k])
    BY <2>1 DEF OrderInv
  <2> QED
    BY <2>2 DEF Reserved, RunningTraining, UsableBy
<1> QED
  BY <1>2, <1>3

(* Every step keeps the invariant.                                         *)
LEMMA OrderNext ==
  ASSUME MayExpire = {}, OrderInv, [Next]_vars
  PROVE  OrderInv'
<1>0. TypeInv /\ TypeInv' /\ active = Workspace
  BY TypesNext DEF OrderInv
<1>a. ASSUME UNCHANGED <<active, pc, cache, pass>>
      PROVE  OrderInv'
  BY <1>0, <1>a DEF OrderInv, Reserved, RunningTraining, UsableBy, pass
<1>b. ASSUME active' = active, pc' \notin {"scan"}, pc' \in {"idle", "collect"} => idx' = 1
      PROVE  OrderInv'
  BY <1>0, <1>b DEF OrderInv
<1>c. ASSUME pc = "scan", idx <= Len(podQueue)
      PROVE  cur \in JobId /\ ~Inactive(cur)
  <2>1. podQueue \in Seq(JobId) /\ idx \in 1 .. Len(podQueue)
    BY <1>0, <1>c DEF TypeInv, TypeOK, ControlTypeOK
  <2>2. cur \in JobId
    BY <2>1, ElementOfSeq DEF cur
  <2> QED
    BY <1>0, <2>2, JobSchedulerAssumption DEF Inactive
<1>1. ASSUME NEW r \in Request, Handler(r)
      PROVE  OrderInv'
  BY <1>a, <1>1, HandlerShrinks
<1>2. CASE Refresh
  BY <1>b, <1>2 DEF Refresh, pass, OrderInv
<1>3. CASE Collect
  <2>1. CASE Idle
    BY <1>b, <1>3, <2>1 DEF Collect, Idle
  <2>2. CASE ~Idle
    <3>1. pc = "collect" /\ pc' = "scan" /\ idx' = idx /\ active' = active
      BY <1>3, <2>2 DEF Collect
    <3>2. idx' = 1
      BY <3>1 DEF OrderInv
    <3>3. 1 .. idx' - 1 = {}
      BY <3>2
    <3> QED
      BY <1>0, <3>1, <3>3 DEF OrderInv
  <2> QED
    BY <2>1, <2>2
<1>4. CASE Skip \/ Reserve
  <2>1. /\ pc = "scan" /\ idx <= Len(podQueue) /\ pc' = "scan" /\ idx' = idx + 1
        /\ active' = active /\ UNCHANGED <<podQueue, cache>>
    BY <1>4 DEF Skip, Reserve
  <2>2. /\ \/ Skipped(cur) /\ UNCHANGED <<closed, blocked>>
           \/ Want[cur] = <<>> /\ closed' = closed \cup OpenModes(cur) /\ UNCHANGED blocked
           \/ Want[cur] # <<>> /\ blocked' = blocked \cup Wanted(cur) /\ UNCHANGED closed
        /\ closed \subseteq closed' /\ blocked \subseteq blocked'
    BY <1>4 DEF Skip, Reserve
  <2>3. PICK j \in JobId : j = cur
    BY <1>c, <2>1
  <2>4. Reserved(j)'
    BY <2>1, <2>2, <2>3, PastReserved
  <2>5. \A k \in 1 .. idx' - 1 : Reserved(podQueue[k])'
    BY <2>1, <2>2, <2>3, <2>4, ScanGoesOn
  <2> QED
    BY <1>0, <2>1, <2>5 DEF OrderInv
<1>5. ~Purge
  BY <1>c DEF Purge
<1>6. CASE Choose \/ CreatePod
  BY <1>b, <1>6 DEF Choose, CreatePod
<1>7. CASE EndPass \/ CreateRaises \/ Dequeue \/ Restart
  BY <1>b, <1>7 DEF EndPass, CreateRaises, Dequeue, Restart, Idle
<1>8. ASSUME NEW p \in pods, PodEnds(p)
      PROVE  OrderInv'
  BY <1>a, <1>8 DEF PodEnds
<1>9. \A w \in Workspace : ~Expire(w) /\ ~Extend(w)
  BY DEF Expire, Extend
<1>10. CASE UNCHANGED vars
  BY <1>a, <1>10 DEF vars
<1> QED
  BY <1>1, <1>2, <1>3, <1>4, <1>5, <1>6, <1>7, <1>8, <1>9, <1>10
     DEF Next, Scheduler, Scan, Environment

(* An item is given no node that an older one of the pass waits for.       *)
LEMMA ChoiceIsFree ==
  ASSUME OrderInv, Choose, NEW k \in 1 .. idx - 1, ~RunningTraining(podQueue[k]),
         Gpus[podQueue[k]] # 0, NEW i \in DOMAIN gang'
  PROVE  gang'[i].gpus = 0 \/ gang'[i].node \notin UsableBy(podQueue[k])
<1>1. /\ pc = "scan" /\ idx <= Len(podQueue) /\ ~Skipped(cur) /\ gang' \in Gangs(cur)
  BY DEF Choose
<1>2. cur \in JobId
  <2>1. podQueue \in Seq(JobId) /\ idx \in 1 .. Len(podQueue)
    BY <1>1 DEF OrderInv, TypeInv, TypeOK, ControlTypeOK
  <2> QED
    BY <2>1, ElementOfSeq DEF cur
<1>3. View(cache)
  BY Views DEF OrderInv
<1>4. PICK mode \in OpenModes(cur) : gang' \in GangsIn(cur, mode)
  BY <1>1, <1>2, <1>3, GangPlaced
<1>5. Gpus[cur] \in Nat
  BY <1>2, JobSchedulerAssumption
<1>6. CASE Gpus[cur] = 0
  <2>1. PICK n \in Node : gang' = <<[node |-> n, gpus |-> 0]>>
    BY <1>4, <1>6 DEF GangsIn, CpuGangs
  <2>2. gang'[i].gpus = 0
    BY <2>1
  <2> QED
    BY <2>2
<1>7. CASE Gpus[cur] > 0
  <2>1. gang'[i].node \in Candidates(cur, mode)
    BY <1>2, <1>3, <1>4, <1>7, GangInMode
  <2>2. gang'[i].node \notin blocked /\ ModeOf(gang'[i].node) \notin closed
    BY <1>4, <2>1 DEF Candidates, OpenModes
  <2>3. \A n \in UsableBy(podQueue[k]) : n \in blocked \/ ModeOf(n) \in closed
    BY <1>1 DEF OrderInv, Reserved
  <2> QED
    BY <2>2, <2>3
<1> QED
  BY <1>5, <1>6, <1>7

(* While every workspace is within its period, a pass gives no item a node *)
(* that an older one, which it has gone past, waits for.                   *)
THEOREM NobodyOvertaken == ASSUME MayExpire = {} PROVE Spec => NoOvertaking
<1>1. Init => OrderInv
  BY TypesInit DEF Init, OrderInv
<1>2. OrderInv /\ [Next]_vars => OrderInv'
  BY OrderNext
<1>3. OrderInv /\ [Next]_vars =>
        [Choose => \A k \in 1 .. idx - 1 :
          \/ podQueue[k] \notin queue \/ RunningTraining(podQueue[k])
          \/ Gpus[podQueue[k]] = 0
          \/ \A i \in DOMAIN gang' : \/ gang'[i].gpus = 0
                                     \/ gang'[i].node \notin UsableBy(podQueue[k])]_vars
  BY ChoiceIsFree
<1> QED
  BY <1>1, <1>2, <1>3, PTL DEF Spec, NoOvertaking
==============================================================================
