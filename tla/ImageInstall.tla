---------------------------- MODULE ImageInstall ----------------------------
(***************************************************************************)
(* Docker images (image.py): a request inserts a pending row; the install  *)
(* thread takes it from an in-memory queue and makes the image; the sync   *)
(* thread repairs the rows after a restart, refills the queue and carries  *)
(* out deletions; requests delete images.  The two threads exclude each    *)
(* other with image_sync_lock, except for the check of check_db_image; the *)
(* requests, which run in any worker process, take no lock.                *)
(*                                                                         *)
(* An image is a row and, under the row's real_name, what the hosts'       *)
(* Docker (system) and the registry hold.  Real names contain a random     *)
(* tag, so no two rows share one.                                          *)
(***************************************************************************)
EXTENDS Integers, FiniteSets, SequencesExt

CONSTANTS
  MaxImages,     \* bound on the ids ever handed out
  MaxQueue,      \* bound on the entries of the install queue
  MaxRestarts,   \* bound on the restarts of the backend
  Workspace, Request,
  BuiltIn,       \* images the platform came with, which have no install log
  Original,      \* the image a copy is made of; other images map to 0
  Faults         \* the faults that happen, a subset of FaultKinds

Image == 1 .. MaxImages

FaultKinds ==
  {"install",     \* a Docker command of an installation fails
   "check_push",  \* the push of check_db_image fails
   "check_list",  \* it cannot list the hosts' images, the registry or the rows
   "remove"}      \* Docker and registry deletions fail, which is ignored

ASSUME ImageInstallAssumption ==
  /\ MaxImages \in Nat /\ MaxQueue \in Nat /\ MaxRestarts \in Nat
  /\ BuiltIn \subseteq Image
  /\ Original \in [Image -> 0 .. MaxImages]
  /\ Faults \subseteq FaultKinds

VARIABLES
  status,      \* the status of each image's row; absent when there is none
  workspaces,  \* the rows of image_workspace of each image
  system,      \* the images Docker has on some host
  registry,    \* the images in the registry
  logs,        \* the images with an install log
  used,        \* the ids handed out
  installs,    \* images_to_install
  inst,        \* the image the install thread is making, and how far it is
  sync,        \* where the sync thread is
  todo,        \* the images left in its loop over the rows it has read
  skipped,     \* (history) ready images an exception kept it from pushing
  req,         \* the deletion each web thread is serving
  restarts

rows == <<status, workspaces, logs, used>>
docker == <<system, registry>>
making == <<installs, inst>>
work == <<sync, todo, skipped>>
vars == <<rows, docker, making, work, req, restarts>>

Pending == "pending"
Installing == "installing"
Ready == "ready"
Failed == "failed"
Deleting == "deleting"
Absent == "absent"
Status == {Pending, Installing, Ready, Failed, Deleting, Absent}

NoImage == 0
NoInstall == [pc |-> "idle", image |-> NoImage]
NoRequest == [pc |-> "none"]

Deletion == [pc : {"drop_workspace", "remaining", "delete"}, image : Image,
             seen : Status, workspace : Workspace]

Row(i) == status[i] # Absent
WithStatus(s) == {i \in Image : status[i] = s}

Init ==
  /\ status = [i \in Image |-> IF i \in BuiltIn THEN Ready ELSE Absent]
  /\ workspaces = [i \in Image |-> {}]
  /\ system = BuiltIn
  /\ registry = BuiltIn
  /\ logs = {}
  /\ used = BuiltIn
  /\ installs = <<>>
  /\ inst = NoInstall
  /\ sync = "rollback"
  /\ todo = {}
  /\ skipped = {}
  /\ req = [r \in Request |-> NoRequest]
  /\ restarts = 0

------------------------------------------------------------------------------
(* Writes to the row of an image.  An UPDATE names the row by its id and   *)
(* leaves a row that is being deleted as it is.                            *)
(* Mutant: without the condition status!=4.                                *)
UpdatedAlways(i, s) == [status EXCEPT ![i] = IF @ = Absent THEN @ ELSE s]
Updated(i, s) == [status EXCEPT ![i] = IF @ \in {Absent, Deleting} THEN @ ELSE s]

(* A deleted row takes its rows of image_workspace with it.                *)
(* Mutant: no cascade.                                                     *)
DeleteRowOnly(i) ==
  /\ status' = [status EXCEPT ![i] = Absent]
  /\ UNCHANGED workspaces
DeleteRow(i) ==
  /\ status' = [status EXCEPT ![i] = Absent]
  /\ workspaces' = [workspaces EXCEPT ![i] = {}]

------------------------------------------------------------------------------
(* Requests                                                                *)

(* post_image_by_type: a copy needs its original in the system.            *)
Create(i, ws) ==
  /\ i \in Image \ used
  /\ Original[i] # 0 => Original[i] \in system /\ Row(Original[i])
  /\ status' = [status EXCEPT ![i] = Pending]
  /\ workspaces' = [workspaces EXCEPT ![i] = ws]
  /\ used' = used \cup {i}
  /\ UNCHANGED <<logs, docker, making, work, req, restarts>>

Become(r, q) == req' = [req EXCEPT ![r] = q]
Answer(r) == Become(r, NoRequest)
Goto(r, at) == Become(r, [req[r] EXCEPT !.pc = at])

(* delete_image reads the row once and refuses an image that waits for its *)
(* installation or is being installed.                                     *)
(* Mutant: it does not look at the status.                                 *)
DeletableUnchecked(i) == Row(i)
Deletable(i) == Row(i) /\ status[i] \notin {Pending, Installing}

OpenDelete(r, i, w, at) ==
  /\ req[r] = NoRequest
  /\ Deletable(i)
  /\ at \in {"drop_workspace", "delete"}
  /\ Become(r, [pc |-> at, image |-> i, seen |-> status[i], workspace |-> w])
  /\ UNCHANGED <<rows, docker, making, work, restarts>>

(* Deleting an image from a workspace deletes it altogether when no        *)
(* workspace is left.                                                      *)
DropWorkspace(r) ==
  /\ req[r].pc = "drop_workspace"
  /\ workspaces' = [workspaces EXCEPT ![req[r].image] = @ \ {req[r].workspace}]
  /\ Goto(r, "remaining")
  /\ UNCHANGED <<status, logs, used, docker, making, work, restarts>>

ReadRemaining(r) ==
  /\ req[r].pc = "remaining"
  /\ IF workspaces[req[r].image] = {} THEN Goto(r, "delete") ELSE Answer(r)
  /\ UNCHANGED <<rows, docker, making, work, restarts>>

(* The status read at the start decides: the row of a failed image is      *)
(* deleted at once, another image is left to delete_image_all_place.       *)
Delete(r) ==
  /\ req[r].pc = "delete"
  /\ IF req[r].seen = Failed
       THEN DeleteRow(req[r].image)
       ELSE status' = Updated(req[r].image, Deleting) /\ UNCHANGED workspaces
  /\ Answer(r)
  /\ UNCHANGED <<logs, used, docker, making, work, restarts>>

------------------------------------------------------------------------------
(* The install thread, which holds image_sync_lock for a whole entry       *)

LockFree == inst.pc = "idle" /\ sync # "clean"
Started == sync # "rollback"

(* An entry whose image is not pending any more is dropped: the queue      *)
(* holds an image once for every round of the sync thread it waited for.   *)
(* Mutant: the entry is trusted.                                           *)
TakeUnchecked ==
  /\ Started /\ LockFree
  /\ installs # <<>>
  /\ installs' = Tail(installs)
  /\ logs' = logs \cup {Head(installs)}
  /\ status' = Updated(Head(installs), Installing)
  /\ IF Row(Head(installs)) THEN inst' = [pc |-> "tag", image |-> Head(installs)]
                            ELSE UNCHANGED inst
  /\ UNCHANGED <<workspaces, used, docker, work, req, restarts>>
Take ==
  /\ Started /\ LockFree
  /\ installs # <<>>
  /\ installs' = Tail(installs)
  /\ logs' = logs \cup {Head(installs)}
  /\ IF status[Head(installs)] = Pending
       THEN /\ status' = Updated(Head(installs), Installing)
            /\ inst' = [pc |-> "tag", image |-> Head(installs)]
       ELSE UNCHANGED <<status, inst>>
  /\ UNCHANGED <<workspaces, used, docker, work, req, restarts>>

(* The image is pulled, built, loaded, committed or copied and gets its    *)
(* real_name; a copy finds its original only while Docker has it.          *)
TagImage ==
  /\ inst.pc = "tag"
  /\ Original[inst.image] # 0 => Original[inst.image] \in system
  /\ system' = system \cup {inst.image}
  /\ inst' = [inst EXCEPT !.pc = "push"]
  /\ UNCHANGED <<rows, registry, installs, work, req, restarts>>

PushImage ==
  /\ inst.pc = "push"
  /\ registry' = registry \cup {inst.image}
  /\ inst' = [inst EXCEPT !.pc = "finish"]
  /\ UNCHANGED <<rows, system, installs, work, req, restarts>>

Finish ==
  /\ inst.pc = "finish"
  /\ status' = Updated(inst.image, Ready)
  /\ inst' = NoInstall
  /\ UNCHANGED <<workspaces, logs, used, docker, installs, work, req, restarts>>

(* A command that fails makes the image failed; what Docker has stays.     *)
InstallRaises ==
  /\ inst.pc # "idle"
  /\ \/ "install" \in Faults
     \/ inst.pc = "tag" /\ Original[inst.image] # 0
        /\ Original[inst.image] \notin system
  /\ status' = Updated(inst.image, Failed)
  /\ inst' = NoInstall
  /\ UNCHANGED <<workspaces, logs, used, docker, installs, work, req, restarts>>

Installer == Take \/ TagImage \/ PushImage \/ Finish \/ InstallRaises

------------------------------------------------------------------------------
(* The sync thread: once after a start Rollback and the check of           *)
(* check_db_image, then for ever AddImages and the deletions, every 30 s.  *)

(* check_installation_status_and_rollback_if_not_installed.                *)
(* Mutant: images being installed stay as they are.                        *)
RollbackForgotten ==
  /\ sync = "rollback"
  /\ sync' = "read"
  /\ UNCHANGED <<rows, docker, making, todo, skipped, req, restarts>>
Rollback ==
  /\ sync = "rollback"
  /\ status' = [i \in Image |->
                  IF status[i] # Installing THEN status[i]
                  ELSE IF i \in system THEN Ready ELSE Failed]
  /\ sync' = "read"
  /\ UNCHANGED <<workspaces, logs, used, docker, making, todo, skipped, req, restarts>>

ReadImages ==
  /\ sync = "read"
  /\ todo' = WithStatus(Ready) \cup WithStatus(Failed)
  /\ sync' = "check"
  /\ UNCHANGED <<rows, docker, making, skipped, req, restarts>>

(* An image that neither Docker nor the registry has is failed, another is *)
(* ready; one that only Docker has is pushed.                              *)
(* Mutant: it is not pushed.                                               *)
CheckImageUnpushed(i) ==
  /\ sync = "check" /\ i \in todo
  /\ status' = Updated(i, IF i \in system \cup registry THEN Ready ELSE Failed)
  /\ todo' = todo \ {i}
  /\ UNCHANGED <<workspaces, logs, used, docker, making, sync, skipped, req, restarts>>
CheckImage(i) ==
  /\ sync = "check" /\ i \in todo
  /\ status' = Updated(i, IF i \in system \cup registry THEN Ready ELSE Failed)
  /\ registry' = IF i \in system THEN registry \cup {i} ELSE registry
  /\ todo' = todo \ {i}
  /\ UNCHANGED <<workspaces, logs, used, system, making, sync, skipped, req, restarts>>

(* A repository whose tags cannot be read counts as one without images.    *)
CheckUnlisted(i) ==
  /\ "check_list" \in Faults
  /\ sync = "check" /\ i \in todo
  /\ status' = Updated(i, IF i \in system THEN Ready ELSE Failed)
  /\ registry' = IF i \in system THEN registry \cup {i} ELSE registry
  /\ todo' = todo \ {i}
  /\ UNCHANGED <<workspaces, logs, used, system, making, sync, skipped, req, restarts>>

(* An exception ends the check, for all images when a list cannot be read  *)
(* (a registry that does not answer raises at the first image), else for   *)
(* the image it concerns and those behind it: its push fails, or the hosts *)
(* cannot be listed again after a push, which raises at the first image    *)
(* whose size is not known, the pushed one or any later one.               *)
ListingFails ==
  /\ "check_list" \in Faults
  /\ sync = "read"
  /\ todo' = {}
  /\ skipped' = WithStatus(Ready) \ registry
  /\ sync' = "check"
  /\ UNCHANGED <<rows, docker, making, req, restarts>>

PushRaises(i) ==
  /\ "check_push" \in Faults
  /\ i \in system \ registry
  /\ UNCHANGED registry

RelistRaises(i) ==
  /\ "check_list" \in Faults
  /\ i \in system \cup registry
  /\ registry' = registry \cup {i}

CheckRaises(i) ==
  /\ sync = "check" /\ i \in todo
  /\ PushRaises(i) \/ RelistRaises(i)
  /\ todo' = {}
  /\ skipped' = (todo \cap WithStatus(Ready)) \ registry'
  /\ UNCHANGED <<rows, system, making, sync, req, restarts>>

EndCheck ==
  /\ sync = "check" /\ todo = {}
  /\ sync' = "add"
  /\ UNCHANGED <<rows, docker, making, todo, skipped, req, restarts>>

(* add_images_to_queue: every pending image, queued or not, in no          *)
(* particular order.                                                       *)
AddImages ==
  /\ sync = "add" /\ LockFree
  /\ Len(installs) + Cardinality(WithStatus(Pending)) <= MaxQueue
  /\ \E s \in SetToSeqs(WithStatus(Pending)) : installs' = installs \o s
  /\ sync' = "deletions"
  /\ UNCHANGED <<rows, docker, inst, todo, skipped, req, restarts>>

(* delete_image_all_place, under the lock from here to EndClean.           *)
ReadDeletions ==
  /\ sync = "deletions" /\ LockFree
  /\ todo' = WithStatus(Deleting)
  /\ sync' = "clean"
  /\ UNCHANGED <<rows, docker, making, skipped, req, restarts>>

(* Failures to delete the image itself are ignored.  The log goes last,    *)
(* and an image without one ends the round.                                *)
(* Mutant: the log goes before the row.                                    *)
RemoveImage(i) ==
  \/ system' = system \ {i} /\ registry' = registry \ {i}
  \/ "remove" \in Faults /\ UNCHANGED docker

CleanLogFirst(i) ==
  /\ sync = "clean" /\ i \in todo
  /\ RemoveImage(i)
  /\ IF i \in logs THEN DeleteRow(i) ELSE UNCHANGED <<status, workspaces>>
  /\ logs' = logs \ {i}
  /\ todo' = IF i \in logs THEN todo \ {i} ELSE {}
  /\ UNCHANGED <<used, making, sync, skipped, req, restarts>>
Clean(i) ==
  /\ sync = "clean" /\ i \in todo
  /\ RemoveImage(i)
  /\ DeleteRow(i)
  /\ logs' = logs \ {i}
  /\ todo' = IF i \in logs THEN todo \ {i} ELSE {}
  /\ UNCHANGED <<used, making, sync, skipped, req, restarts>>

EndClean ==
  /\ sync = "clean" /\ todo = {}
  /\ sync' = "add"
  /\ UNCHANGED <<rows, docker, making, todo, skipped, req, restarts>>

Syncer ==
  \/ Rollback \/ ReadImages \/ ListingFails \/ EndCheck
  \/ AddImages \/ ReadDeletions \/ EndClean
  \/ \E i \in Image : CheckImage(i) \/ CheckUnlisted(i) \/ CheckRaises(i) \/ Clean(i)

(* The backend is restarted: queue, threads and requests are lost.  The    *)
(* Docker command it was waiting for may complete all the same.            *)
Restart ==
  /\ restarts < MaxRestarts
  /\ restarts' = restarts + 1
  /\ \/ UNCHANGED docker
     \/ inst.pc = "tag" /\ system' = system \cup {inst.image} /\ UNCHANGED registry
     \/ inst.pc = "push" /\ registry' = registry \cup {inst.image} /\ UNCHANGED system
  /\ installs' = <<>>
  /\ inst' = NoInstall
  /\ sync' = "rollback"
  /\ todo' = {}
  /\ skipped' = {}
  /\ req' = [r \in Request |-> NoRequest]
  /\ UNCHANGED rows

Handler(r) ==
  \/ \E i \in Image, w \in Workspace, at \in {"drop_workspace", "delete"} :
       OpenDelete(r, i, w, at)
  \/ DropWorkspace(r) \/ ReadRemaining(r) \/ Delete(r)

Next ==
  \/ \E i \in Image, ws \in SUBSET Workspace : Create(i, ws)
  \/ \E r \in Request : Handler(r)
  \/ Installer \/ Syncer \/ Restart

Spec == Init /\ [][Next]_vars

(* Both threads loop for ever and catch the exceptions of a round.  Each    *)
(* takes the lock that the other one holds again and again, but the sync   *)
(* thread sleeps between rounds and the queue runs empty.                  *)
FairSpec == Spec /\ SF_vars(Installer) /\ SF_vars(Syncer)

------------------------------------------------------------------------------
(* Properties                                                              *)

TypeOK ==
  /\ status \in [Image -> Status]
  /\ workspaces \in [Image -> SUBSET Workspace]
  /\ \A i \in Image : workspaces[i] # {} => Row(i)
  /\ system \subseteq Image /\ registry \subseteq Image
  /\ logs \subseteq Image
  /\ WithStatus(Pending) \cup WithStatus(Installing) \subseteq used
  /\ used \subseteq Image
  /\ installs \in Seq(Image)
  /\ inst \in {NoInstall} \cup [pc : {"tag", "push", "finish"}, image : Image]
  /\ sync \in {"rollback", "read", "check", "add", "deletions", "clean"}
  /\ todo \cup skipped \subseteq Image
  /\ req \in [Request -> {NoRequest} \cup Deletion]
  /\ restarts \in 0 .. MaxRestarts

(* Once the rows are repaired after a restart, an image is shown as being  *)
(* installed only while the install thread works on it (and on no other):  *)
(* none stays installing for ever because the backend was killed.          *)
InstallingIsReal ==
  sync # "rollback" => \A i \in Image : status[i] = Installing => inst.image = i

(* While the install thread works on an image its row stays, as installing *)
(* whatever requests with an older status in hand and the sync thread do.  *)
InstallUndisturbed == inst.pc # "idle" => status[inst.image] = Installing

(* The life of an image: it is installed at most once although the queue   *)
(* names it many times, and a deletion is never revoked, although the      *)
(* check of check_db_image writes the status by rows read before.          *)
Moves ==
  {<<Absent, Pending>>, <<Pending, Installing>>, <<Installing, Ready>>,
   <<Installing, Failed>>, <<Ready, Failed>>, <<Failed, Ready>>,
   <<Ready, Deleting>>, <<Failed, Deleting>>, <<Ready, Absent>>,
   <<Failed, Absent>>, <<Deleting, Absent>>}
StatusMoves ==
  [][\A i \in Image : status'[i] # status[i] =>
       /\ <<status[i], status'[i]>> \in Moves
       /\ status'[i] = Pending => i \notin used]_vars

(* A ready image can be pulled by every node once check_db_image is over,  *)
(* also when the backend was killed between making and pushing it; except  *)
(* for those only Docker had and an exception kept the check from pushing: *)
(* all when a list failed, else the one it was about and those behind it.  *)
ReadyInRegistry ==
  sync \in {"add", "deletions", "clean"} =>
    WithStatus(Ready) \subseteq registry \cup skipped

(* An image does not wait for its installation for ever: it gets ready or  *)
(* fails, through restarts, duplicates in the queue and failed commands.   *)
PendingSettles ==
  \A i \in Image : status[i] = Pending ~> status[i] \notin {Pending, Installing}

(* An image that is being deleted goes, although an image without a log    *)
(* ends the round of deletions it is in.                                   *)
DeletingGoes == \A i \in Image : status[i] = Deleting ~> status[i] = Absent
==============================================================================
