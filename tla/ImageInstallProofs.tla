------------------------- MODULE ImageInstallProofs -------------------------
(***************************************************************************)
(* Theorems about ImageInstall for any number of images, workspaces,       *)
(* requests and restarts.                                                  *)
(***************************************************************************)
EXTENDS ImageInstall, SequenceTheorems, FiniteSetTheorems, TLAPS

(* An image that a request goes on to delete is neither waiting nor being  *)
(* installed, and never will be again: ids are handed out once.            *)
DeletionsSafe ==
  \A r \in Request : req[r] # NoRequest =>
    /\ req[r].image \in used
    /\ status[req[r].image] \notin {Pending, Installing}

(* So are the images the sync thread has left to check or to clean up.     *)
CheckedSafe ==
  sync \in {"check", "clean"} =>
    \A i \in todo : i \in used /\ status[i] \notin {Pending, Installing}

(* An image is made only after the repair of the rows.                     *)
MadeAfterRepair == inst.pc # "idle" => Started

(* The ids of the rows were handed out.                                    *)
RowsUsed == \A i \in Image : Row(i) => i \in used

LifeInv ==
  /\ TypeOK
  /\ RowsUsed
  /\ MadeAfterRepair
  /\ DeletionsSafe
  /\ CheckedSafe
  /\ InstallingIsReal
  /\ InstallUndisturbed

(* A ready image that is not in the registry is still to be checked, or    *)
(* the check gave up before it; one that is finished has been pushed.      *)
PushedOrChecked ==
  /\ sync \in {"rollback", "read"} => skipped = {}
  /\ sync = "check" =>
       /\ WithStatus(Ready) \subseteq registry \cup skipped \cup todo
       /\ todo # {} => skipped = {}
  /\ inst.pc = "finish" => inst.image \in registry
  /\ ReadyInRegistry

------------------------------------------------------------------------------

(* The values of the status differ from each other.                        *)
LEMMA StatusDistinct ==
  /\ Pending # Installing /\ Pending # Ready /\ Pending # Failed
  /\ Pending # Deleting /\ Pending # Absent
  /\ Installing # Ready /\ Installing # Failed /\ Installing # Deleting
  /\ Installing # Absent /\ Deleting # Absent /\ Ready # Absent
  /\ Failed # Absent /\ Ready # Deleting /\ Failed # Deleting /\ Ready # Failed
  /\ {Pending, Installing, Ready, Failed, Deleting, Absent} \subseteq Status
BY DEF Pending, Installing, Ready, Failed, Deleting, Absent, Status

(* A platform before its first step has its types.                         *)
LEMMA InitLife == Init => LifeInv
<1> SUFFICES ASSUME Init PROVE LifeInv
  OBVIOUS
<1>1. BuiltIn \subseteq Image /\ MaxRestarts \in Nat
  BY ImageInstallAssumption
<1>2. \A i \in Image : status[i] \in {Ready, Absent}
  BY DEF Init
<1>3. TypeOK
  <2>1. WithStatus(Pending) = {} /\ WithStatus(Installing) = {}
    BY <1>2, StatusDistinct DEF WithStatus
  <2>2. installs \in Seq(Image)
    BY DEF Init
  <2>3. status \in [Image -> Status] /\ workspaces \in [Image -> SUBSET Workspace]
    BY StatusDistinct DEF Init
  <2>4. \A i \in Image : workspaces[i] = {}
    BY DEF Init
  <2> QED
    BY <1>1, <2>1, <2>2, <2>3, <2>4 DEF Init, TypeOK
<1>4. RowsUsed
  BY StatusDistinct DEF Init, RowsUsed, Row
<1>5. MadeAfterRepair /\ InstallUndisturbed
  BY DEF Init, NoInstall, MadeAfterRepair, InstallUndisturbed
<1>6. DeletionsSafe /\ CheckedSafe /\ InstallingIsReal
  BY DEF Init, DeletionsSafe, CheckedSafe, InstallingIsReal
<1> QED
  BY <1>3, <1>4, <1>5, <1>6 DEF LifeInv

------------------------------------------------------------------------------

(* Writing a status keeps the rows there are, and touches no other image.  *)
LEMMA UpdatedKeeps ==
  ASSUME TypeOK, NEW i, NEW s \in Status \ {Absent}, status' = Updated(i, s)
  PROVE  /\ status' \in [Image -> Status]
         /\ \A k \in Image : status'[k] = Absent <=> status[k] = Absent
         /\ \A k \in Image : k # i => status'[k] = status[k]
         /\ i \in Image => status'[i] = IF status[i] \in {Absent, Deleting}
                                          THEN status[i] ELSE s
BY StatusDistinct DEF TypeOK, Updated

(* Deleting a row takes the rows of its workspaces with it.                *)
LEMMA DeleteRowKeeps ==
  ASSUME TypeOK, NEW i, DeleteRow(i)
  PROVE  /\ status' \in [Image -> Status]
         /\ workspaces' \in [Image -> SUBSET Workspace]
         /\ \A k \in Image : workspaces'[k] # {} => Row(k)'
         /\ \A k \in Image : status'[k] \in {status[k], Absent}
         /\ \A k \in Image : k # i => status'[k] = status[k]
BY StatusDistinct DEF TypeOK, DeleteRow, Row

(* Answering a request, or moving on with it, keeps the types.             *)
LEMMA RequestKeeps ==
  ASSUME TypeOK, NEW r \in Request
  PROVE  /\ Answer(r) =>
              /\ req' \in [Request -> {NoRequest} \cup Deletion]
              /\ \A x \in Request : req'[x] \in {req[x], NoRequest}
         /\ \A at \in {"remaining", "delete"} :
              req[r] # NoRequest /\ Goto(r, at) =>
                /\ req' \in [Request -> {NoRequest} \cup Deletion]
                /\ \A x \in Request : /\ req'[x] # NoRequest => req[x] # NoRequest
                                      /\ req'[x] # NoRequest => req'[x].image = req[x].image
<1>1. req \in [Request -> {NoRequest} \cup Deletion]
  BY DEF TypeOK
<1>2. Answer(r) => /\ req' \in [Request -> {NoRequest} \cup Deletion]
                   /\ \A x \in Request : req'[x] \in {req[x], NoRequest}
  BY <1>1 DEF Answer, Become
<1>3. ASSUME NEW at \in {"remaining", "delete"}, req[r] # NoRequest, Goto(r, at)
      PROVE  /\ req' \in [Request -> {NoRequest} \cup Deletion]
             /\ \A x \in Request : /\ req'[x] # NoRequest => req[x] # NoRequest
                                   /\ req'[x] # NoRequest => req'[x].image = req[x].image
  <2>1. req[r] \in Deletion
    BY <1>1, <1>3
  <2>2. [req[r] EXCEPT !.pc = at] \in Deletion
    BY <2>1 DEF Deletion
  <2>3. [req[r] EXCEPT !.pc = at].image = req[r].image
    BY <2>1 DEF Deletion
  <2> QED
    BY <1>1, <1>3, <2>2, <2>3 DEF Goto, Become
<1> QED
  BY <1>2, <1>3

(* Steps of requests.                                                      *)
LEMMA RequestLife ==
  ASSUME LifeInv,
         \/ \E i \in Image, ws \in SUBSET Workspace : Create(i, ws)
         \/ \E r \in Request : Handler(r)
  PROVE  LifeInv'
<1> USE DEF LifeInv
<1>1. ASSUME NEW i \in Image, NEW ws \in SUBSET Workspace, Create(i, ws)
      PROVE  LifeInv'
  <2>1. status[i] = Absent /\ i \notin used
    BY <1>1 DEF Create, RowsUsed, Row
  <2>2. TypeOK'
    BY <1>1, StatusDistinct DEF Create, TypeOK, Row, WithStatus, docker, making, work
  <2>3. RowsUsed' /\ MadeAfterRepair'
    BY <1>1, StatusDistinct DEF Create, TypeOK, RowsUsed, Row, MadeAfterRepair, Started, making, work
  <2>4. DeletionsSafe' /\ CheckedSafe'
    BY <1>1, <2>1 DEF Create, TypeOK, Deletion, DeletionsSafe, CheckedSafe, work
  <2>5. InstallingIsReal' /\ InstallUndisturbed'
    BY <1>1, <2>1, StatusDistinct DEF Create, TypeOK, InstallingIsReal, InstallUndisturbed, making, work
  <2> QED
    BY <2>2, <2>3, <2>4, <2>5
<1>2. ASSUME NEW r \in Request, NEW i \in Image, NEW w \in Workspace,
             NEW at \in {"drop_workspace", "delete"}, OpenDelete(r, i, w, at)
      PROVE  LifeInv'
  <2> DEFINE q == [pc |-> at, image |-> i, seen |-> status[i], workspace |-> w]
  <2>1. q \in Deletion /\ q.image = i /\ Row(i)
    BY <1>2 DEF OpenDelete, Deletable, TypeOK, Deletion
  <2>2. i \in used /\ status[i] \notin {Pending, Installing}
    BY <1>2 DEF OpenDelete, Deletable, RowsUsed
  <2>3. req' = [req EXCEPT ![r] = q]
    BY <1>2 DEF OpenDelete, Become
  <2> HIDE DEF q
  <2>4. TypeOK'
    BY <1>2, <2>1, <2>3 DEF OpenDelete, TypeOK, Row, WithStatus, rows, docker, making, work
  <2>5. DeletionsSafe'
    BY <1>2, <2>1, <2>2, <2>3 DEF OpenDelete, TypeOK, DeletionsSafe, rows
  <2> QED
    BY <1>2, <2>4, <2>5 DEF OpenDelete, RowsUsed, Row, MadeAfterRepair, Started, CheckedSafe,
         InstallingIsReal, InstallUndisturbed, rows, making, work
<1>3. ASSUME NEW r \in Request, DropWorkspace(r) \/ ReadRemaining(r)
      PROVE  LifeInv'
  <2>1. req[r] # NoRequest
    BY <1>3 DEF DropWorkspace, ReadRemaining, NoRequest
  <2>2. status' = status /\ logs' = logs /\ used' = used /\ UNCHANGED <<docker, making, work, restarts>>
    BY <1>3 DEF DropWorkspace, ReadRemaining, rows
  <2>3. /\ req' \in [Request -> {NoRequest} \cup Deletion]
        /\ \A x \in Request : req'[x] # NoRequest =>
             req[x] # NoRequest /\ req'[x].image = req[x].image
    BY <1>3, <2>1, RequestKeeps DEF DropWorkspace, ReadRemaining
  <2>4. workspaces' \in [Image -> SUBSET Workspace] /\ \A k \in Image : workspaces'[k] \subseteq workspaces[k]
    BY <1>3 DEF DropWorkspace, ReadRemaining, rows, TypeOK
  <2>5. TypeOK'
    BY <2>2, <2>3, <2>4 DEF TypeOK, Row, WithStatus, docker, making, work
  <2>6. DeletionsSafe'
    BY <2>2, <2>3 DEF DeletionsSafe
  <2> QED
    BY <2>2, <2>5, <2>6 DEF RowsUsed, Row, MadeAfterRepair, Started, CheckedSafe,
         InstallingIsReal, InstallUndisturbed, making, work
<1>4. ASSUME NEW r \in Request, Delete(r)
      PROVE  LifeInv'
  <2> DEFINE d == req[r].image
  <2>1. req[r] \in Deletion /\ d \in Image
    BY <1>4 DEF Delete, NoRequest, TypeOK, Deletion
  <2>2. status[d] \notin {Pending, Installing}
    BY <1>4 DEF Delete, NoRequest, DeletionsSafe
  <2>3. /\ status' \in [Image -> Status] /\ workspaces' \in [Image -> SUBSET Workspace]
        /\ \A k \in Image : workspaces'[k] # {} => Row(k)'
        /\ \A k \in Image : k # d => status'[k] = status[k]
        /\ status'[d] \in {status[d], Absent, Deleting}
        /\ status[d] = Absent => status'[d] = Absent
    <3>1. CASE req[r].seen = Failed
      BY <1>4, <2>1, <3>1, DeleteRowKeeps, StatusDistinct DEF Delete
    <3>2. CASE req[r].seen # Failed
      BY <1>4, <2>1, <3>2, UpdatedKeeps, StatusDistinct DEF Delete, TypeOK, Row
    <3> QED
      BY <3>1, <3>2
  <2>4. /\ req' \in [Request -> {NoRequest} \cup Deletion]
        /\ \A x \in Request : req'[x] \in {req[x], NoRequest}
    BY <1>4, RequestKeeps DEF Delete
  <2>5. logs' = logs /\ used' = used /\ UNCHANGED <<docker, making, work, restarts>>
    BY <1>4 DEF Delete
  <2>a. \A k \in Image : status'[k] \in {Pending, Installing} => status'[k] = status[k]
    BY <2>3, StatusDistinct
  <2> HIDE DEF d
  <2>6. TypeOK'
    BY <2>3, <2>4, <2>5, <2>a DEF TypeOK, WithStatus, docker, making, work
  <2>7. RowsUsed' /\ MadeAfterRepair'
    BY <2>3, <2>5 DEF RowsUsed, Row, MadeAfterRepair, Started, making, work
  <2>8. DeletionsSafe'
    BY <2>3, <2>4, <2>5, <2>a DEF DeletionsSafe, TypeOK, Deletion
  <2>9. CheckedSafe'
    BY <2>5, <2>a DEF CheckedSafe, TypeOK, work
  <2>10. InstallingIsReal'
    BY <2>5, <2>a DEF InstallingIsReal, making, work
  <2>11. InstallUndisturbed'
    BY <2>1, <2>2, <2>3, <2>5 DEF InstallUndisturbed, TypeOK, NoInstall, making
  <2> QED
    BY <2>6, <2>7, <2>8, <2>9, <2>10, <2>11
<1> QED
  BY <1>1, <1>2, <1>3, <1>4 DEF Handler

(* What the install thread works on, and that the lock keeps it alone.     *)
LEMMA InstallerTypes ==
  ASSUME LifeInv
  PROVE  /\ inst.pc # "idle" =>
              /\ inst.pc \in {"tag", "push", "finish"}
              /\ inst.image \in Image
              /\ status[inst.image] = Installing
              /\ inst.image \in used
              /\ Started
              /\ \A i \in Image : status[i] = Installing => i = inst.image
         /\ inst.pc = "idle" => inst = NoInstall
         /\ inst.pc = "idle" /\ Started => \A i \in Image : status[i] # Installing
<1>1. inst \in {NoInstall} \cup [pc : {"tag", "push", "finish"}, image : Image]
  BY DEF LifeInv, TypeOK
<1>2. inst.pc = "idle" => inst = NoInstall
  BY <1>1
<1>3. NoInstall.pc = "idle" /\ NoInstall.image \notin Image
  BY ImageInstallAssumption DEF NoInstall, NoImage, Image
<1>4. ASSUME inst.pc # "idle"
      PROVE  /\ inst.pc \in {"tag", "push", "finish"} /\ inst.image \in Image
             /\ status[inst.image] = Installing /\ Started
             /\ \A i \in Image : status[i] = Installing => i = inst.image
  BY <1>1, <1>3, <1>4 DEF LifeInv, InstallUndisturbed, InstallingIsReal, MadeAfterRepair, Started
<1>5. inst.pc # "idle" => inst.image \in used
  BY <1>4, StatusDistinct DEF LifeInv, RowsUsed, Row
<1> QED
  BY <1>2, <1>3, <1>4, <1>5 DEF LifeInv, InstallingIsReal, Started

(* Steps of the install thread.                                            *)
LEMMA InstallerLife ==
  ASSUME LifeInv, Installer
  PROVE  LifeInv'
<1> USE DEF LifeInv
<1>a. inst.pc # "idle" => inst.image \in Image /\ status[inst.image] = Installing
  BY InstallerTypes
<1>1. CASE Take
  <2> DEFINE i == Head(installs)
  <2>1. i \in Image /\ Tail(installs) \in Seq(Image)
    BY <1>1, HeadTailProperties DEF Take, TypeOK
  <2>2. inst = NoInstall /\ Started /\ \A k \in Image : status[k] # Installing
    BY <1>1, InstallerTypes DEF Take, LockFree
  <2>3. /\ installs' = Tail(installs) /\ logs' = logs \cup {i}
        /\ UNCHANGED <<workspaces, used, docker, work, req, restarts>>
    BY <1>1 DEF Take
  <2>4. CASE status[i] = Pending
    <3> DEFINE v == [pc |-> "tag", image |-> i]
    <3>1. status' = Updated(i, Installing) /\ inst' = v
      BY <1>1, <2>4 DEF Take
    <3>2. v \in [pc : {"tag", "push", "finish"}, image : Image] /\ v.image = i /\ v.pc = "tag"
      BY <2>1
    <3>3. /\ status' \in [Image -> Status]
          /\ \A k \in Image : status'[k] = Absent <=> status[k] = Absent
          /\ \A k \in Image : k # i => status'[k] = status[k]
          /\ status'[i] = Installing
      BY <2>1, <2>4, <3>1, UpdatedKeeps, StatusDistinct
    <3> HIDE DEF v, i
    <3>4. TypeOK'
      BY <2>1, <2>3, <2>4, <3>1, <3>2, <3>3 DEF TypeOK, Row, WithStatus, docker, work
    <3>5. RowsUsed' /\ MadeAfterRepair'
      BY <2>2, <2>3, <3>3 DEF RowsUsed, Row, MadeAfterRepair, Started, work
    <3>6. DeletionsSafe'
      BY <2>1, <2>3, <2>4, <3>3 DEF DeletionsSafe, TypeOK, Deletion
    <3>7. CheckedSafe'
      BY <2>1, <2>3, <2>4, <3>3 DEF CheckedSafe, TypeOK, work
    <3>8. InstallingIsReal' /\ InstallUndisturbed'
      BY <2>2, <3>1, <3>2, <3>3 DEF InstallingIsReal, InstallUndisturbed
    <3> QED
      BY <3>4, <3>5, <3>6, <3>7, <3>8
  <2>5. CASE status[i] # Pending
    <3>1. UNCHANGED <<status, inst>>
      BY <1>1, <2>5 DEF Take
    <3> HIDE DEF i
    <3> QED
      BY <2>1, <2>3, <3>1 DEF TypeOK, Row, WithStatus, RowsUsed, MadeAfterRepair, Started,
         DeletionsSafe, CheckedSafe, InstallingIsReal, InstallUndisturbed, docker, work
  <2> QED
    BY <2>4, <2>5
<1>2. CASE TagImage \/ PushImage
  <2>1. inst' \in [pc : {"tag", "push", "finish"}, image : Image] /\ inst'.image = inst.image
        /\ inst.pc # "idle"
    BY <1>2, InstallerTypes DEF TagImage, PushImage, TypeOK, NoInstall
  <2>2. UNCHANGED <<rows, installs, work, req, restarts>>
    BY <1>2 DEF TagImage, PushImage
  <2>3. system' \subseteq Image /\ registry' \subseteq Image
    BY <1>2, <1>a, <2>1 DEF TagImage, PushImage, TypeOK
  <2>4. TypeOK'
    BY <2>1, <2>2, <2>3 DEF TypeOK, Row, WithStatus, rows, work
  <2> QED
    BY <1>a, <2>1, <2>2, <2>4 DEF RowsUsed, Row, MadeAfterRepair, Started, DeletionsSafe,
       CheckedSafe, InstallingIsReal, InstallUndisturbed, rows, work
<1>3. CASE Finish \/ InstallRaises
  <2> DEFINE i == inst.image
  <2>1. inst.pc # "idle" /\ i \in Image /\ status[i] = Installing
    BY <1>3, <1>a DEF Finish, InstallRaises
  <2>2. /\ inst' = NoInstall
        /\ UNCHANGED <<workspaces, logs, used, docker, installs, work, req, restarts>>
    BY <1>3 DEF Finish, InstallRaises
  <2>3. /\ status' \in [Image -> Status]
        /\ \A k \in Image : status'[k] = Absent <=> status[k] = Absent
        /\ \A k \in Image : k # i => status'[k] = status[k]
        /\ status'[i] \in {Ready, Failed}
    BY <1>3, <2>1, UpdatedKeeps, StatusDistinct DEF Finish, InstallRaises
  <2>4. \A k \in Image : status'[k] # Installing
    BY <2>1, <2>3, InstallerTypes, StatusDistinct
  <2>5. \A k \in Image : status'[k] = Pending => status[k] = Pending
    BY <2>3, StatusDistinct
  <2> HIDE DEF i
  <2>6. TypeOK'
    BY <2>2, <2>3, <2>4, <2>5 DEF TypeOK, Row, WithStatus, docker, work
  <2>7. RowsUsed' /\ MadeAfterRepair' /\ InstallUndisturbed'
    BY <2>2, <2>3 DEF RowsUsed, Row, MadeAfterRepair, InstallUndisturbed, NoInstall
  <2>8. DeletionsSafe'
    BY <2>2, <2>4, <2>5 DEF DeletionsSafe, TypeOK, Deletion
  <2>9. CheckedSafe' /\ InstallingIsReal'
    BY <2>2, <2>4, <2>5 DEF CheckedSafe, InstallingIsReal, TypeOK, work
  <2> QED
    BY <2>6, <2>7, <2>8, <2>9
<1> QED
  BY <1>1, <1>2, <1>3 DEF Installer

(* Steps of the sync thread.                                               *)
LEMMA SyncerLife ==
  ASSUME LifeInv, Syncer
  PROVE  LifeInv'
<1> USE DEF LifeInv
<1>1. CASE Rollback
  <2>1. inst = NoInstall
    BY <1>1, InstallerTypes DEF Rollback, Started
  <2>2. /\ status' = [i \in Image |-> IF status[i] # Installing THEN status[i]
                                      ELSE IF i \in system THEN Ready ELSE Failed]
        /\ sync' = "read"
        /\ UNCHANGED <<workspaces, logs, used, docker, making, todo, skipped, req, restarts>>
    BY <1>1 DEF Rollback
  <2>3. /\ status' \in [Image -> Status]
        /\ \A k \in Image : status'[k] # Installing
        /\ \A k \in Image : status'[k] = Absent <=> status[k] = Absent
        /\ \A k \in Image : status'[k] = Pending => status[k] = Pending
    BY <2>2, StatusDistinct DEF TypeOK
  <2>4. TypeOK'
    BY <2>2, <2>3 DEF TypeOK, Row, WithStatus, docker, making
  <2>5. RowsUsed' /\ MadeAfterRepair' /\ InstallUndisturbed'
    BY <2>1, <2>2, <2>3 DEF RowsUsed, Row, MadeAfterRepair, InstallUndisturbed, NoInstall, making
  <2>6. DeletionsSafe'
    BY <2>2, <2>3 DEF DeletionsSafe, TypeOK, Deletion
  <2>7. CheckedSafe' /\ InstallingIsReal'
    BY <2>2, <2>3 DEF CheckedSafe, InstallingIsReal
  <2> QED
    BY <2>4, <2>5, <2>6, <2>7
<1>2. CASE \/ ReadImages \/ ListingFails \/ EndCheck \/ AddImages \/ ReadDeletions
           \/ EndClean \/ \E i \in Image : CheckRaises(i)
  <2>1. /\ UNCHANGED <<rows, system, inst, req, restarts>>
        /\ registry' \subseteq Image
    BY <1>2 DEF ReadImages, ListingFails, EndCheck, AddImages, ReadDeletions, EndClean,
       CheckRaises, PushRaises, RelistRaises, making, docker, TypeOK
  <2>2. installs' \in Seq(Image)
    <3>1. CASE AddImages
      <4>1. PICK s \in SetToSeqs(WithStatus(Pending)) : installs' = installs \o s
        BY <3>1 DEF AddImages
      <4>2. IsFiniteSet(WithStatus(Pending))
        BY ImageInstallAssumption, FS_Interval, FS_Subset DEF WithStatus, Image
      <4>3. s \in Seq(Image)
        BY <4>2, FS_CardinalityType DEF SetToSeqs, WithStatus
      <4> QED
        BY <4>1, <4>3, ConcatProperties DEF TypeOK
    <3>2. CASE ~AddImages
      BY <1>2, <3>2 DEF ReadImages, ListingFails, EndCheck, ReadDeletions, EndClean, CheckRaises,
         making, TypeOK
    <3> QED
      BY <3>1, <3>2
  <2>3. /\ sync' \in {"check", "add", "deletions", "clean"} /\ sync # "rollback"
        /\ todo' \subseteq Image /\ skipped' \subseteq Image
    BY <1>2, StatusDistinct DEF ReadImages, ListingFails, EndCheck, AddImages, ReadDeletions,
       EndClean, CheckRaises, TypeOK, WithStatus
  <2>5. sync' \in {"check", "clean"} =>
          \A i \in todo' : i \in used /\ status[i] \notin {Pending, Installing}
    <3>1. CASE ReadImages \/ ReadDeletions
      BY <3>1, StatusDistinct DEF ReadImages, ReadDeletions, WithStatus, RowsUsed, Row
    <3>2. CASE ListingFails \/ EndCheck \/ EndClean \/ \E i \in Image : CheckRaises(i)
      BY <3>2 DEF ListingFails, EndCheck, EndClean, CheckRaises
    <3>3. CASE AddImages
      BY <3>3 DEF AddImages
    <3> QED
      BY <1>2, <3>1, <3>2, <3>3
  <2>4. TypeOK'
    BY <2>1, <2>2, <2>3 DEF TypeOK, Row, WithStatus, rows
  <2> QED
    BY <2>1, <2>3, <2>4, <2>5 DEF RowsUsed, Row, MadeAfterRepair, Started, DeletionsSafe, CheckedSafe,
       InstallingIsReal, InstallUndisturbed, rows
<1>3. ASSUME NEW i \in Image, CheckImage(i) \/ CheckUnlisted(i) \/ Clean(i)
      PROVE  LifeInv'
  <2>1. sync \in {"check", "clean"} /\ i \in todo /\ status[i] \notin {Pending, Installing}
    BY <1>3 DEF CheckImage, CheckUnlisted, Clean, CheckedSafe
  <2>2. /\ status' \in [Image -> Status] /\ workspaces' \in [Image -> SUBSET Workspace]
        /\ \A k \in Image : workspaces'[k] # {} => Row(k)'
        /\ \A k \in Image : k # i => status'[k] = status[k]
        /\ status'[i] \in {status[i], Ready, Failed, Absent}
        /\ status[i] = Absent => status'[i] = Absent
    <3>1. CASE CheckImage(i) \/ CheckUnlisted(i)
      BY <3>1, UpdatedKeeps, StatusDistinct DEF CheckImage, CheckUnlisted, TypeOK, Row
    <3>2. CASE Clean(i)
      BY <3>2, DeleteRowKeeps, StatusDistinct DEF Clean
    <3> QED
      BY <1>3, <3>1, <3>2
  <2>3. /\ UNCHANGED <<used, making, sync, skipped, req, restarts>>
        /\ logs' \subseteq logs /\ todo' \subseteq todo
        /\ system' \subseteq Image /\ registry' \subseteq Image
    BY <1>3 DEF CheckImage, CheckUnlisted, Clean, RemoveImage, TypeOK, docker
  <2>4. \A k \in Image : status'[k] \in {Pending, Installing} => status'[k] = status[k]
    BY <2>1, <2>2, StatusDistinct
  <2>5. TypeOK'
    BY <2>2, <2>3, <2>4 DEF TypeOK, WithStatus, making
  <2>6. RowsUsed' /\ MadeAfterRepair'
    BY <2>2, <2>3 DEF RowsUsed, Row, MadeAfterRepair, Started, making
  <2>7. DeletionsSafe'
    BY <2>3, <2>4 DEF DeletionsSafe, TypeOK, Deletion
  <2>8. CheckedSafe' /\ InstallingIsReal'
    BY <2>3, <2>4 DEF CheckedSafe, InstallingIsReal, TypeOK, making
  <2>9. InstallUndisturbed'
    BY <2>1, <2>2, <2>3 DEF InstallUndisturbed, TypeOK, NoInstall, making
  <2> QED
    BY <2>5, <2>6, <2>7, <2>8, <2>9
<1> QED
  BY <1>1, <1>2, <1>3 DEF Syncer

(* A restart forgets what was under way.                                   *)
LEMMA RestartLife ==
  ASSUME LifeInv, Restart
  PROVE  LifeInv'
<1> USE DEF LifeInv
<1>1. system' \subseteq Image /\ registry' \subseteq Image
  BY InstallerTypes DEF Restart, TypeOK, docker
<1>2. /\ installs' = <<>> /\ inst' = NoInstall /\ sync' = "rollback" /\ todo' = {} /\ skipped' = {}
      /\ req' = [r \in Request |-> NoRequest] /\ UNCHANGED rows
      /\ restarts' \in 0 .. MaxRestarts
  BY ImageInstallAssumption DEF Restart, TypeOK
<1>3. TypeOK'
  <2>1. installs' \in Seq(Image)
    BY <1>2
  <2> QED
    BY <1>1, <1>2, <2>1 DEF TypeOK, Row, WithStatus, rows
<1> QED
  BY <1>2, <1>3 DEF RowsUsed, Row, MadeAfterRepair, Started, DeletionsSafe, CheckedSafe,
     InstallingIsReal, InstallUndisturbed, NoInstall, rows

(* A step that changes nothing.                                            *)
LEMMA StutterLife == ASSUME LifeInv, UNCHANGED vars PROVE LifeInv'
BY DEF LifeInv, TypeOK, Row, WithStatus, RowsUsed, MadeAfterRepair, Started, DeletionsSafe,
   CheckedSafe, InstallingIsReal, InstallUndisturbed, vars, rows, docker, making, work

(* The inductive invariant: whatever requests, the two threads, faults and *)
(* restarts do, no deletion under way and no check left to do is of an     *)
(* image that still has to be installed.                                   *)
THEOREM LifeInvariant == Spec => []LifeInv
<1>1. LifeInv /\ [Next]_vars => LifeInv'
  BY RequestLife, InstallerLife, SyncerLife, RestartLife, StutterLife DEF Next
<1> QED
  BY <1>1, InitLife, PTL DEF Spec

(* Rows, queue, threads and requests keep their types.                     *)
THEOREM TypesKept == Spec => []TypeOK
BY LifeInvariant, PTL DEF LifeInv

(* No image is shown as being installed unless the install thread works on *)
(* it, once the rows are repaired after a start.                           *)
THEOREM NoneLeftInstalling == Spec => []InstallingIsReal
BY LifeInvariant, PTL DEF LifeInv

(* The row of the image being installed stays while it is.                 *)
THEOREM Undisturbed == Spec => []InstallUndisturbed
BY LifeInvariant, PTL DEF LifeInv

------------------------------------------------------------------------------
(* The moves of the status                                                 *)

Moved ==
  \A i \in Image : status'[i] # status[i] =>
    /\ <<status[i], status'[i]>> \in Moves
    /\ status'[i] = Pending => i \notin used

(* One image moves, to a status that is allowed after the one it has.      *)
LEMMA OneMoves ==
  ASSUME NEW i \in Image, \A k \in Image : k # i => status'[k] = status[k],
         status'[i] = status[i] \/ <<status[i], status'[i]>> \in Moves,
         status'[i] = Pending => i \notin used \/ status'[i] = status[i]
  PROVE  Moved
BY DEF Moved

(* A request inserts rows under new ids and deletes settled images only.   *)
LEMMA RequestMoves ==
  ASSUME LifeInv,
         \/ \E i \in Image, ws \in SUBSET Workspace : Create(i, ws)
         \/ \E r \in Request : Handler(r)
  PROVE  Moved
<1>1. ASSUME NEW i \in Image, NEW ws \in SUBSET Workspace, Create(i, ws)
      PROVE  Moved
  <2>1. status[i] = Absent /\ i \notin used
    BY <1>1 DEF Create, LifeInv, RowsUsed, Row
  <2>2. status' = [status EXCEPT ![i] = Pending] /\ status \in [Image -> Status]
    BY <1>1 DEF Create, LifeInv, TypeOK
  <2> QED
    BY <2>1, <2>2, OneMoves DEF Moves
<1>2. ASSUME NEW r \in Request, Delete(r)
      PROVE  Moved
  <2> DEFINE d == req[r].image
  <2>1. req[r] \in Deletion /\ d \in Image
    BY <1>2 DEF Delete, NoRequest, LifeInv, TypeOK, Deletion
  <2>2. status[d] \in {Ready, Failed, Deleting, Absent}
    BY <1>2, <2>1 DEF Delete, NoRequest, LifeInv, DeletionsSafe, TypeOK, Status
  <2>3. /\ \A k \in Image : k # d => status'[k] = status[k]
        /\ \/ status'[d] = Absent
           \/ status'[d] = Deleting /\ status[d] \notin {Absent, Deleting}
           \/ status'[d] = status[d]
    <3>1. CASE req[r].seen = Failed
      BY <1>2, <2>1, <3>1 DEF Delete, DeleteRow, LifeInv, TypeOK
    <3>2. CASE req[r].seen # Failed
      BY <1>2, <2>1, <3>2 DEF Delete, Updated, LifeInv, TypeOK
    <3> QED
      BY <3>1, <3>2
  <2> HIDE DEF d
  <2>4. status'[d] = status[d] \/ <<status[d], status'[d]>> \in Moves
    BY <2>2, <2>3 DEF Moves
  <2>5. status'[d] = Pending => status'[d] = status[d]
    BY <2>3, StatusDistinct
  <2> QED
    BY <2>1, <2>3, <2>4, <2>5, OneMoves
<1>3. ASSUME NEW r \in Request,
             \/ \E i \in Image, w \in Workspace, at \in {"drop_workspace", "delete"} :
                  OpenDelete(r, i, w, at)
             \/ DropWorkspace(r) \/ ReadRemaining(r)
      PROVE  Moved
  BY <1>3 DEF Moved, OpenDelete, DropWorkspace, ReadRemaining, rows
<1> QED
  BY <1>1, <1>2, <1>3 DEF Handler

(* The install thread moves the image it works on.                         *)
LEMMA InstallerMoves ==
  ASSUME LifeInv, Installer
  PROVE  Moved
<1>0. status \in [Image -> Status]
  BY DEF LifeInv, TypeOK
<1>1. CASE Take
  <2> DEFINE i == Head(installs)
  <2>1. i \in Image
    BY <1>1, HeadTailProperties DEF Take, LifeInv, TypeOK
  <2>2. status' = status \/ (status[i] = Pending /\ status' = Updated(i, Installing))
    BY <1>1 DEF Take
  <2> HIDE DEF i
  <2> QED
    BY <1>0, <2>1, <2>2, StatusDistinct DEF Updated, Moved, Moves
<1>2. CASE Finish \/ InstallRaises
  <2> DEFINE i == inst.image
  <2>1. i \in Image /\ status[i] = Installing
    BY <1>2, InstallerTypes DEF Finish, InstallRaises
  <2>2. \E s \in {Ready, Failed} : status' = Updated(i, s)
    BY <1>2 DEF Finish, InstallRaises
  <2> HIDE DEF i
  <2> QED
    BY <1>0, <2>1, <2>2, StatusDistinct DEF Updated, Moved, Moves
<1>3. CASE TagImage \/ PushImage
  BY <1>3 DEF Moved, TagImage, PushImage, rows
<1> QED
  BY <1>1, <1>2, <1>3 DEF Installer

(* The sync thread settles, checks and removes images.                     *)
LEMMA SyncerMoves ==
  ASSUME LifeInv, Syncer
  PROVE  Moved
<1>0. status \in [Image -> Status]
  BY DEF LifeInv, TypeOK
<1>1. CASE Rollback
  BY <1>0, <1>1, StatusDistinct DEF Rollback, Moved, Moves
<1>2. ASSUME NEW i \in Image, CheckImage(i) \/ CheckUnlisted(i)
      PROVE  Moved
  <2>1. status[i] \in {Ready, Failed, Deleting, Absent}
    BY <1>0, <1>2 DEF CheckImage, CheckUnlisted, LifeInv, CheckedSafe, Status
  <2>2. \E s \in {Ready, Failed} : status' = Updated(i, s)
    BY <1>2 DEF CheckImage, CheckUnlisted
  <2> QED
    BY <1>0, <2>1, <2>2, StatusDistinct DEF Updated, Moved, Moves
<1>3. ASSUME NEW i \in Image, Clean(i)
      PROVE  Moved
  <2>1. status[i] \in {Ready, Failed, Deleting, Absent}
    BY <1>0, <1>3 DEF Clean, LifeInv, CheckedSafe, Status
  <2>2. status' = [status EXCEPT ![i] = Absent]
    BY <1>3 DEF Clean, DeleteRow
  <2> QED
    BY <1>0, <2>1, <2>2, StatusDistinct DEF Moved, Moves
<1>4. CASE \/ ReadImages \/ ListingFails \/ EndCheck \/ AddImages \/ ReadDeletions
           \/ EndClean \/ \E i \in Image : CheckRaises(i)
  BY <1>4 DEF Moved, ReadImages, ListingFails, EndCheck, AddImages, ReadDeletions, EndClean, CheckRaises, rows
<1> QED
  BY <1>1, <1>2, <1>3, <1>4 DEF Syncer

(* An image is installed once and a deletion is never revoked, although    *)
(* requests and the check write by what they read before.                  *)
THEOREM OnlyAllowedMoves == Spec => StatusMoves
<1>1. ASSUME LifeInv, [Next]_vars
      PROVE  Moved \/ UNCHANGED vars
  <2>1. CASE Restart
    BY <2>1 DEF Restart, rows, Moved
  <2>2. CASE Next
    BY <1>1, <2>1, <2>2, RequestMoves, InstallerMoves, SyncerMoves DEF Next
  <2> QED
    BY <1>1, <2>2
<1>2. LifeInv /\ [Next]_vars => [Moved]_vars
  BY <1>1
<1> QED
  BY <1>2, LifeInvariant, PTL DEF Spec, StatusMoves, Moved

------------------------------------------------------------------------------
(* Ready images are in the registry                                        *)

(* Steps of requests do not make an image ready.                           *)
LEMMA RequestPushed ==
  ASSUME LifeInv, PushedOrChecked,
         \/ \E i \in Image, ws \in SUBSET Workspace : Create(i, ws)
         \/ \E r \in Request : Handler(r)
  PROVE  PushedOrChecked'
<1>0. status \in [Image -> Status]
  BY DEF LifeInv, TypeOK
<1>1. UNCHANGED <<docker, making, work>>
  BY DEF Handler, Create, OpenDelete, DropWorkspace, ReadRemaining, Delete
<1>2. WithStatus(Ready)' \subseteq WithStatus(Ready)
  <2>1. ASSUME NEW i \in Image, NEW ws \in SUBSET Workspace, Create(i, ws)
        PROVE  WithStatus(Ready)' \subseteq WithStatus(Ready)
    BY <1>0, <2>1, StatusDistinct DEF Create, WithStatus
  <2>2. ASSUME NEW r \in Request, Delete(r)
        PROVE  WithStatus(Ready)' \subseteq WithStatus(Ready)
    BY <1>0, <2>2, StatusDistinct DEF Delete, DeleteRow, Updated, WithStatus
  <2>3. ASSUME UNCHANGED status
        PROVE  WithStatus(Ready)' \subseteq WithStatus(Ready)
    BY <2>3 DEF WithStatus
  <2> QED
    BY <2>1, <2>2, <2>3 DEF Handler, OpenDelete, DropWorkspace, ReadRemaining, rows
<1> QED
  BY <1>1, <1>2 DEF PushedOrChecked, ReadyInRegistry, docker, making, work

(* The install thread makes an image ready only after it pushed it.        *)
LEMMA InstallerPushed ==
  ASSUME LifeInv, PushedOrChecked, Installer
  PROVE  PushedOrChecked'
<1>0. status \in [Image -> Status]
  BY DEF LifeInv, TypeOK
<1>a. inst.pc # "idle" => inst.image \in Image
  BY InstallerTypes
<1>1. UNCHANGED work
  BY DEF Installer, Take, TagImage, PushImage, Finish, InstallRaises
<1>2. CASE Take
  <2>1. inst'.pc # "finish" /\ UNCHANGED docker
    BY <1>2, InstallerTypes DEF Take, LockFree, NoInstall
  <2>2. WithStatus(Ready)' \subseteq WithStatus(Ready)
    BY <1>0, <1>2, StatusDistinct DEF Take, Updated, WithStatus
  <2> QED
    BY <1>1, <2>1, <2>2 DEF PushedOrChecked, ReadyInRegistry, docker, work
<1>3. CASE TagImage
  <2>1. inst'.pc = "push" /\ UNCHANGED <<rows, registry>>
    BY <1>3, InstallerTypes DEF TagImage, LifeInv, TypeOK, NoInstall
  <2> QED
    BY <1>1, <2>1 DEF PushedOrChecked, ReadyInRegistry, WithStatus, rows, work
<1>4. CASE PushImage
  <2>1. inst'.image = inst.image /\ registry' = registry \cup {inst.image} /\ UNCHANGED rows
    BY <1>4, InstallerTypes DEF PushImage, LifeInv, TypeOK, NoInstall
  <2> QED
    BY <1>1, <2>1 DEF PushedOrChecked, ReadyInRegistry, WithStatus, rows, work
<1>5. CASE Finish \/ InstallRaises
  <2>1. inst'.pc # "finish" /\ UNCHANGED docker
    BY <1>5 DEF Finish, InstallRaises, NoInstall
  <2>2. WithStatus(Ready)' \subseteq WithStatus(Ready) \cup registry
    BY <1>0, <1>5, StatusDistinct DEF Finish, InstallRaises, Updated, WithStatus, PushedOrChecked
  <2> QED
    BY <1>1, <2>1, <2>2 DEF PushedOrChecked, ReadyInRegistry, docker, work
<1> QED
  BY <1>2, <1>3, <1>4, <1>5 DEF Installer

(* The sync thread reads every ready image, and pushes or fails each.      *)
LEMMA SyncerPushed ==
  ASSUME LifeInv, PushedOrChecked, Syncer
  PROVE  PushedOrChecked'
<1>0. status \in [Image -> Status]
  BY DEF LifeInv, TypeOK
<1>1. CASE Rollback
  <2>1. inst = NoInstall
    BY <1>1, InstallerTypes DEF Rollback, Started
  <2> QED
    BY <1>1, <2>1 DEF Rollback, PushedOrChecked, ReadyInRegistry, NoInstall, making
<1>2. CASE ReadImages \/ ListingFails
  <2>1. /\ UNCHANGED <<status, registry, inst>> /\ sync = "read" /\ sync' = "check"
        /\ \/ todo' = WithStatus(Ready) \cup WithStatus(Failed) /\ skipped' = skipped
           \/ todo' = {} /\ skipped' = WithStatus(Ready) \ registry
    BY <1>2 DEF ReadImages, ListingFails, rows, docker, making
  <2> QED
    BY <2>1 DEF PushedOrChecked, ReadyInRegistry, WithStatus
<1>3. CASE EndCheck \/ AddImages \/ ReadDeletions \/ EndClean
  BY <1>3 DEF EndCheck, AddImages, ReadDeletions, EndClean, PushedOrChecked, ReadyInRegistry,
     WithStatus, rows, docker, making
<1>4. ASSUME NEW i \in Image, CheckImage(i) \/ CheckUnlisted(i)
      PROVE  PushedOrChecked'
  <2>1. WithStatus(Ready)' \subseteq WithStatus(Ready) \cup {i}
    BY <1>0, <1>4, StatusDistinct DEF CheckImage, CheckUnlisted, Updated, WithStatus
  <2>2. i \in WithStatus(Ready)' => i \in registry'
    <3>1. CASE i \in system
      BY <1>4, <3>1 DEF CheckImage, CheckUnlisted
    <3>2. CASE i \notin system /\ i \in registry
      BY <1>4, <3>2 DEF CheckImage, CheckUnlisted
    <3>3. CASE i \notin system \cup registry
      <4>1. status' = Updated(i, Failed)
        BY <1>4, <3>3 DEF CheckImage, CheckUnlisted
      <4> QED
        BY <1>0, <4>1, StatusDistinct DEF Updated, WithStatus
    <3> QED
      BY <3>1, <3>2, <3>3
  <2>3. registry \subseteq registry' /\ sync = "check" /\ todo' = todo \ {i}
        /\ UNCHANGED <<making, sync, skipped>>
    BY <1>4 DEF CheckImage, CheckUnlisted
  <2> QED
    BY <2>1, <2>2, <2>3 DEF PushedOrChecked, ReadyInRegistry, making
<1>5. ASSUME NEW i \in Image, CheckRaises(i)
      PROVE  PushedOrChecked'
  <2>1. /\ registry \subseteq registry' /\ UNCHANGED <<status, inst, sync>>
        /\ sync = "check" /\ i \in todo /\ todo' = {}
        /\ skipped' = (todo \cap WithStatus(Ready)) \ registry'
    BY <1>5 DEF CheckRaises, PushRaises, RelistRaises, rows, making
  <2> QED
    BY <1>5, <2>1 DEF PushedOrChecked, ReadyInRegistry, WithStatus
<1>6. ASSUME NEW i \in Image, Clean(i)
      PROVE  PushedOrChecked'
  <2>1. status[i] # Installing
    BY <1>6 DEF Clean, LifeInv, CheckedSafe
  <2>2. WithStatus(Ready)' \subseteq WithStatus(Ready) \ {i}
    BY <1>0, <1>6, StatusDistinct DEF Clean, DeleteRow, WithStatus
  <2>3. registry \ {i} \subseteq registry' /\ sync = "clean" /\ UNCHANGED <<making, sync, skipped>>
    BY <1>6 DEF Clean, RemoveImage, docker
  <2>4. inst.pc = "finish" => inst.image # i
    BY <2>1 DEF LifeInv, InstallUndisturbed
  <2> QED
    BY <2>2, <2>3, <2>4 DEF PushedOrChecked, ReadyInRegistry, making
<1> QED
  BY <1>1, <1>2, <1>3, <1>4, <1>5, <1>6 DEF Syncer

(* After the check of a start, nodes can pull every ready image but those  *)
(* the check did not get to.                                               *)
THEOREM ReadyPullable == Spec => []ReadyInRegistry
<1>1. Init => PushedOrChecked
  BY DEF Init, PushedOrChecked, ReadyInRegistry, NoInstall
<1>2. ASSUME LifeInv, PushedOrChecked, [Next]_vars
      PROVE  PushedOrChecked'
  <2>1. CASE Restart
    BY <2>1 DEF Restart, PushedOrChecked, ReadyInRegistry, NoInstall
  <2>2. CASE UNCHANGED vars
    BY <1>2, <2>2 DEF PushedOrChecked, ReadyInRegistry, WithStatus, vars, rows, docker, making, work
  <2> QED
    BY <1>2, <2>1, <2>2, RequestPushed, InstallerPushed, SyncerPushed DEF Next
<1>3. PushedOrChecked => ReadyInRegistry
  BY DEF PushedOrChecked
<1> QED
  BY <1>1, <1>2, <1>3, LifeInvariant, PTL DEF Spec
==============================================================================
