------------------------------ MODULE Placement ------------------------------
(***************************************************************************)
(* Where a queued training job is put: the node selection of               *)
(* NodeInfoManager (utils/node_resource.py) as res_check (scheduler.py)    *)
(* calls it.                                                               *)
(*                                                                         *)
(* A Node is one entry of the node info list: one GPU pool (all of the     *)
(* general GPUs, or the slices of one MIG profile) of one host.  A view    *)
(* is a set of pods as the Kubernetes API listed them; a pod has a node    *)
(* and a number of gpus.  A gang is the sequence of placements of one job, *)
(* one pod per node, in the order in which the pods are created.           *)
(***************************************************************************)
EXTENDS Integers, Sequences, FiniteSets, FiniteSetsExt

CONSTANTS
  Node,           \* GPU pools
  NodeGpus,       \* NodeGpus[n]: the GPUs of n
  MigNode,        \* the pools made of MIG slices
  NetworkGroups,  \* sequence of sets of nodes, the fastest network first
  CpuRoom         \* CpuRoom[n]: the CPU-only pods the host of n has room for

ASSUME PlacementAssumption ==
  /\ IsFiniteSet(Node)
  /\ NodeGpus \in [Node -> Nat]
  /\ MigNode \subseteq Node
  /\ NetworkGroups \in Seq(SUBSET Node)
  /\ CpuRoom \in [Node -> Nat]

Modes == {"mig", "general"}
ModeOf(n) == IF n \in MigNode THEN "mig" ELSE "general"

Used(view, n) == MapThenSumSet(LAMBDA p : p.gpus, {p \in view : p.node = n})

Free(view, n) == NodeGpus[n] - Used(view, n)

(* The sort key of both searches: the least used node first, among equals  *)
(* the one with the fewest free GPUs.  Ties may be broken either way.      *)
Before(view, a, b) ==
  \/ Used(view, a) < Used(view, b)
  \/ Used(view, a) = Used(view, b) /\ Free(view, a) <= Free(view, b)

(* One node that has the whole request free.                               *)
IntraGangs(view, S, request) ==
  LET fits == {n \in S : Free(view, n) >= request}
  IN  {<<[node |-> n, gpus |-> request]>> :
         n \in {m \in fits : \A o \in fits : Before(view, m, o)}}

(* The nodes of S in the order of the sort, and what the first k hold.     *)
InOrder(view, S) ==
  {s \in [1 .. Cardinality(S) -> S] :
     \A i, k \in DOMAIN s : i < k => s[i] # s[k] /\ Before(view, s[i], s[k])}

FirstFree(view, s, k) == MapThenSumSet(LAMBDA i : Free(view, s[i]), 1 .. k)

(* How many of the nodes s it takes to serve the request.                  *)
Needed(view, s, request) == {k \in DOMAIN s : FirstFree(view, s, k) >= request}

(* Mutant: the last node is asked for the whole request again.             *)
SplitAskTwice(view, s, request) ==
  LET last == Min(Needed(view, s, request))
  IN  [i \in 1 .. last |->
         [node |-> s[i],
          gpus |-> IF i < last THEN Free(view, s[i]) ELSE request]]

(* The gang on the first of the nodes s.                                   *)
Split(view, s, request) ==
  LET last == Min(Needed(view, s, request))
  IN  [i \in 1 .. last |->
         [node |-> s[i],
          gpus |-> IF i < last THEN Free(view, s[i])
                               ELSE request - FirstFree(view, s, last - 1)]]

(* Several nodes of one network group: each is emptied in turn and the     *)
(* last one serves the rest; no gang when the group has too few GPUs.  (A  *)
(* node that shows more GPUs in use than it has offers none.)              *)
NetGangs(view, S, request) ==
  {Split(view, s, request) :
     s \in {t \in InOrder(view, {n \in S : Free(view, n) > 0}) :
             Needed(view, t, request) # {}}}

(* A single node when one suffices, else the fastest network group whose   *)
(* nodes together suffice.                                                 *)
GpuGangs(view, S, request) ==
  LET enough == {g \in DOMAIN NetworkGroups :
                   NetGangs(view, S \cap NetworkGroups[g], request) # {}}
  IN  IF IntraGangs(view, S, request) # {}
        THEN IntraGangs(view, S, request)
      ELSE IF enough # {}
        THEN NetGangs(view, S \cap NetworkGroups[Min(enough)], request)
      ELSE {}

(* A job without GPUs takes any one host with room: the ratios of CPU and  *)
(* memory by which the code ranks the hosts are left out.                  *)
CpuGangs(view) ==
  {<<[node |-> n, gpus |-> 0]>> :
     n \in {m \in Node : Cardinality({p \in view : p.node = m /\ p.gpus = 0})
                           < CpuRoom[m]}}
==============================================================================
