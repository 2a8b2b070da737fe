----------------------- MODULE MCWorkspaceReservation -----------------------
(* Small instances of WorkspaceReservation for TLC.                        *)
EXTENDS WorkspaceReservation, TLC

AnyId == Permutations(Id)

(* Two GPUs, or one in either of the ways it can be divided.               *)
SmallSizes == {[training |-> 1, deployment |-> 0], [training |-> 0, deployment |-> 1],
               [training |-> 1, deployment |-> 1]}
==============================================================================
