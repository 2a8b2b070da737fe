--------------------------- MODULE TrainingTurns ---------------------------
(***************************************************************************)
(* What the training job queue promises its users, without a scheduler, a  *)
(* cluster or a lock: jobs wait until it is their training's turn, a job   *)
(* runs only after it has waited, and a training has one turn at a time.   *)
(***************************************************************************)
CONSTANTS Job, TrainingOf

VARIABLES
  waiting,   \* the jobs in the queue
  running    \* the jobs that have a pod

turns == <<waiting, running>>

Init == waiting = {} /\ running = {}

Submit(S) ==
  /\ waiting' = waiting \cup S
  /\ UNCHANGED running

(* A started job keeps its place in the queue until all its pods are made. *)
Start(j) ==
  /\ j \in waiting
  /\ \A k \in running : TrainingOf[k] # TrainingOf[j]
  /\ running' = running \cup {j}
  /\ UNCHANGED waiting

(* Jobs leave the queue (they are stopped, deleted, or run), others end.   *)
Leave ==
  /\ waiting' \in SUBSET waiting
  /\ running' \in SUBSET running

Next ==
  \/ \E S \in SUBSET Job : Submit(S)
  \/ \E j \in Job : Start(j)
  \/ Leave

Spec == Init /\ [][Next]_turns
=============================================================================
