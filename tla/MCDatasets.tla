----------------------------- MODULE MCDatasets -----------------------------
(* Small instances of Datasets for TLC.                                    *)
EXTENDS Datasets, TLC

CONSTANTS w1, w2, a, b, r1, r2, p1, p2

(* Two accesses and two names in one workspace, and one place of another.  *)
At(w, x, n) == [ws |-> w, access |-> x, name |-> n]
Places == {At(w1, "0", a), At(w1, "1", a), At(w1, "1", b), At(w2, "0", a)}

(* Two processes: a sync does not see the thread of the other one, so that *)
(* two syncs of one workspace may run side by side.                        *)
TwoProcesses == r1 :> p1 @@ r2 :> p2
==============================================================================
