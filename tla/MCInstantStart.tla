--------------------------- MODULE MCInstantStart ---------------------------
(* Small instances of InstantStart for TLC.                                *)
EXTENDS InstantStart, TLC

CONSTANTS n1, n2, n3, t1, t2, d1, w1, w2

(* Three hosts joined by one network.  Two tools of one workspace, which   *)
(* fit beside the guarantee each but not together, and the workers of a    *)
(* deployment of another workspace, which is guaranteed four of the six    *)
(* GPUs, its quota: enough for two workers and not for three.  Beside the  *)
(* larger tool the second worker only fits on two hosts together.          *)
Hosts == n1 :> 1 @@ n2 :> 2 @@ n3 :> 3
Networks == <<{n1, n2, n3}>>
Room == [n \in Node |-> 1]
WorkersOf == [w \in 1 .. MaxWorkers |-> d1]
Workspaces == t1 :> w1 @@ t2 :> w1 @@ d1 :> w2
Asks == t1 :> 1 @@ t2 :> 2 @@ d1 :> 2
Anywhere == [o \in {t1, t2, d1} |-> Node]
Training == w1 :> 3 @@ w2 :> 0
Deploying == w1 :> 0 @@ w2 :> 4

(* The processes are alike.                                                *)
Alike == Permutations(Request)
==============================================================================
