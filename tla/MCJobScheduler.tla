--------------------------- MODULE MCJobScheduler ---------------------------
(* Small instances of JobScheduler for TLC: each cfg picks one.            *)
EXTENDS JobScheduler

CONSTANTS n1, n2, n3, t1, t2, t3, w1, w2

Room == [n \in Node |-> 1]
OneWorkspace == [t \in Training |-> w1]
AnyNode == [j \in JobId |-> <<>>]
NoNetwork == <<>>

(* Two hosts joined by one network; job 1 needs both, jobs 1 and 2 share a *)
(* training, job 3 uses no GPU.                                            *)
GangNodeGpus == n1 :> 2 @@ n2 :> 1
GangNetworks == <<{n1, n2}>>
GangTrainingOf == <<t1, t1, t2>>
GangGpus == <<3, 1, 0>>
GangQuota == [w \in Workspace |-> 3]

(* One host; a job too many for the quota and for the host.                *)
PairNodeGpus == n1 :> 2
PairTrainingOf == <<t1, t1, t2>>
PairGpus == <<1, 1, 1>>
PairQuota == [w \in Workspace |-> 1]

(* The smallest instance in which two requests can race: one training.     *)
DuoTrainingOf == <<t1, t1>>
DuoGpus == <<1, 1>>
DuoQuota == [w \in Workspace |-> 2]

(* A MIG pool and two general hosts; w1 is guaranteed two of the four GPUs, *)
(* w2 is not.  Jobs that name models, jobs that name none, and jobs that   *)
(* fit no single host, no quota or not beside the guarantee.               *)
ModelNodeGpus == n1 :> 1 @@ n2 :> 1 @@ n3 :> 2
ModelNetworks == <<{n2, n3}>>
ModelTrainingOf == <<t1, t2, t3, t2, t3>>
ModelWorkspaceOf == t1 :> w1 @@ t2 :> w1 @@ t3 :> w2
ModelGpus == <<1, 1, 3, 2, 1>>
ModelWant == <<<<>>, <<n1, n2>>, <<>>, <<>>, <<n3, n2>>>>
ModelQuota == w1 :> 2 @@ w2 :> 3

(* Two workspaces whose period may end, w1 guaranteed, one MIG slice and   *)
(* one host of two GPUs.  Job 1 is above its quota and never starts; job 2 *)
(* can run on the slice beside it; job 3, which names the host, fits only  *)
(* while the guarantee of w1 is off; job 4 needs the host, job 5 does not. *)
ExpiryNodeGpus == n1 :> 1 @@ n2 :> 2
ExpiryTrainingOf == <<t1, t2, t2, t3, t3>>
ExpiryWorkspaceOf == t1 :> w1 @@ t2 :> w2 @@ t3 :> w1
ExpiryGpus == <<3, 1, 2, 2, 1>>
ExpiryWant == <<<<>>, <<>>, <<n2>>, <<>>, <<>>>>
ExpiryQuota == [w \in Workspace |-> 2]
==============================================================================
