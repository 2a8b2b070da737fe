------------------------------ MODULE Datasets ------------------------------
(* The datasets of the workspaces: folders on the storage, one row of the  *)
(* database for each, and the scans that bring the two together again      *)
(* (datasets.py).  The inode number ties a row to its folder.              *)
(*                                                                         *)
(* Requests run in threads of several processes and take no common lock:   *)
(* jf_dataset_lock is a lock of one process and is only held while a scan  *)
(* thread is started.  Every action is one database statement or one       *)
(* command on the storage, with the computation around it.                 *)
EXTENDS Integers, FiniteSets

CONSTANTS
  Workspace,    \* the workspaces
  Place,        \* the paths a dataset may have
  Inode,        \* the inode numbers of the storage, reused when free
  Process,      \* the processes of the server
  Request,      \* the requests that may be under way at once
  ProcessOf,    \* the process a request runs in
  MaxIds,       \* bound: rows ever inserted
  MaxRequests   \* bound: requests ever opened

Access == {"0", "1"}
Ids == 1 .. MaxIds
None == "none"

ASSUME PlaceAssumption ==
  /\ \A p \in Place : p.ws \in Workspace /\ p.access \in Access
  /\ None \notin Inode

ASSUME RequestAssumption ==
  /\ ProcessOf \in [Request -> Process]
  /\ MaxIds \in Nat
  /\ MaxRequests \in Nat

VARIABLES
  folders,      \* the inode of the folder at a path, or None
  rows,         \* the table dataset: id, place and inode number
  lastId,       \* AUTO_INCREMENT of the table
  req,          \* what every request is doing
  opened        \* how many requests were opened so far

vars == <<folders, rows, lastId, req, opened>>

(* A request's own data.  "step" is where its work stands and "hand" where *)
(* the handler of a sync stands with the event its thread waits for.  The  *)
(* last two fields are history: nothing reads them but the properties.     *)
Idle == [op |-> "none", step |-> "none", hand |-> "ok", ws |-> None,
         id |-> 0, from |-> None, to |-> None, inode |-> None,
         event |-> FALSE, seen |-> {}, areas |-> {}, names |-> {},
         calm |-> TRUE, touched |-> {}]

Init ==
  /\ folders = [p \in Place |-> None]
  /\ rows = {}
  /\ lastId = 0
  /\ req = [r \in Request |-> Idle]
  /\ opened = 0

-----------------------------------------------------------------------------
(* Helpers.                                                                *)

Standing(p) == folders[p] # None
Used == {folders[p] : p \in Place} \ {None}
RowsOf(w) == {row \in rows : row.place.ws = w}

(* Dataset names of a workspace, of either access.                         *)
NamesOf(w) == {row.place.name : row \in RowsOf(w)}

(* A request moves on without touching rows or folders.                    *)
Go(r, s) == req' = [req EXCEPT ![r] = s]

(* A request moves on after it changed rows or folders: no scan of another *)
(* request is undisturbed any more, and those see what inode was touched.  *)
Disturb(r, s, inodes) ==
  req' = [x \in Request |->
            IF x = r THEN s
            ELSE IF req[x].step \in {"scan", "record"}
            THEN [req[x] EXCEPT !.calm = FALSE, !.touched = @ \cup inodes]
            ELSE req[x]]

Open(r, s) ==
  /\ req[r] = Idle
  /\ opened < MaxRequests
  /\ opened' = opened + 1
  /\ Go(r, s)
  /\ UNCHANGED <<folders, rows, lastId>>

(* INSERT into dataset: refused, without a word, for an inode that has a   *)
(* row already.                                                            *)
(* Mutant: the table has no key on the inode number.                       *)
InsertAnyway(p, i) ==
  /\ lastId < MaxIds
  /\ lastId' = lastId + 1
  /\ rows' = rows \cup {[id |-> lastId + 1, place |-> p, inode |-> i]}
Insert(p, i) ==
  IF \E row \in rows : row.inode = i
  THEN UNCHANGED <<rows, lastId>>
  ELSE /\ lastId < MaxIds
       /\ lastId' = lastId + 1
       /\ rows' = rows \cup {[id |-> lastId + 1, place |-> p, inode |-> i]}

(* UPDATE dataset of the row with an id, if it is still there.             *)
(* Mutant: name and access are only written along with a new workspace.    *)
PlacedElsewhere(id, p) ==
  {IF row.id = id /\ row.place.ws # p.ws THEN [row EXCEPT !.place = p]
   ELSE row : row \in rows}
Placed(id, p) ==
  {IF row.id = id THEN [row EXCEPT !.place = p] ELSE row : row \in rows}

-----------------------------------------------------------------------------
(* Creating a dataset.  The name is checked against the rows, the folder   *)
(* is made, chunk after chunk is written by requests of their own, and the *)
(* last one inserts the row.                                               *)

OpenCreate(r, p) ==
  /\ p.name \notin NamesOf(p.ws)
  /\ Open(r, [Idle EXCEPT !.op = "create", !.step = "make", !.to = p])

(* A later chunk makes the folder again when it is gone.                   *)
MakeFolder(r) ==
  /\ req[r].step \in {"make", "chunk"}
  /\ \E next \in IF req[r].step = "make" THEN {"chunk", "register"}
                 ELSE {"register"} :
       LET s == [req[r] EXCEPT !.step = next]
       IN IF Standing(req[r].to)
          THEN Go(r, s) /\ UNCHANGED folders
          ELSE \E i \in Inode \ Used :
                 /\ folders' = [folders EXCEPT ![req[r].to] = i]
                 /\ Disturb(r, s, {i})
  /\ UNCHANGED <<rows, lastId, opened>>

(* The folder must still be there and the name still be free of a row.     *)
Register(r) ==
  /\ req[r].step = "register"
  /\ IF Standing(req[r].to) /\ req[r].to.name \notin NamesOf(req[r].to.ws)
     THEN Go(r, [req[r] EXCEPT !.step = "insert",
                               !.inode = folders[req[r].to]])
     ELSE Go(r, Idle)
  /\ UNCHANGED <<folders, rows, lastId, opened>>

InsertRow(r) ==
  /\ req[r].step = "insert"
  /\ Insert(req[r].to, req[r].inode)
  /\ Disturb(r, Idle, {})
  /\ UNCHANGED <<folders, opened>>

(* The folder vanished before it was counted: the handler removes what it  *)
(* finds at the path.                                                      *)
CountRaises(r) ==
  /\ req[r].step = "insert"
  /\ ~Standing(req[r].to)
  /\ Go(r, [req[r] EXCEPT !.step = "clean"])
  /\ UNCHANGED <<folders, rows, lastId, opened>>

Clean(r) ==
  /\ req[r].step = "clean"
  /\ folders' = [folders EXCEPT ![req[r].to] = None]
  /\ Disturb(r, Idle, {})
  /\ UNCHANGED <<rows, lastId, opened>>

-----------------------------------------------------------------------------
(* Removing a dataset: its place is read, its row deleted, then its folder *)
(* removed, which may fail.                                                *)

OpenRemove(r, row) ==
  Open(r, [Idle EXCEPT !.op = "remove", !.step = "delete",
                       !.id = row.id, !.from = row.place])

DeleteRow(r) ==
  /\ req[r].step = "delete"
  /\ rows' = {row \in rows : row.id # req[r].id}
  /\ Disturb(r, [req[r] EXCEPT !.step = "rmdir"], {})
  /\ UNCHANGED <<folders, lastId, opened>>

RemoveFolder(r) ==
  /\ req[r].step = "rmdir"
  /\ folders' = [folders EXCEPT ![req[r].from] = None]
  /\ Disturb(r, Idle, {})
  /\ UNCHANGED <<rows, lastId, opened>>

RemoveFails(r) ==
  /\ req[r].step = "rmdir"
  /\ Standing(req[r].from)
  /\ Go(r, Idle)
  /\ UNCHANGED <<folders, rows, lastId, opened>>

-----------------------------------------------------------------------------
(* Changing a dataset's name, access or workspace: the row is read, the    *)
(* folder moved, the row updated.  Nothing asks whether the new place is   *)
(* taken.                                                                  *)

OpenMove(r, row, p) ==
  Open(r, [Idle EXCEPT !.op = "move", !.step = "mv", !.id = row.id,
                       !.from = row.place, !.to = p])

(* mv into a folder that is there already puts the one inside the other.   *)
Moved(from, to) ==
  IF from = to \/ ~Standing(from) THEN folders
  ELSE IF Standing(to) THEN [folders EXCEPT ![from] = None]
  ELSE [folders EXCEPT ![from] = None, ![to] = folders[from]]

MoveFolder(r) ==
  /\ req[r].step = "mv"
  /\ folders' = Moved(req[r].from, req[r].to)
  /\ Disturb(r, [req[r] EXCEPT !.step = "rename"], {folders[req[r].from]})
  /\ UNCHANGED <<rows, lastId, opened>>

RenameRow(r) ==
  /\ req[r].step = "rename"
  /\ rows' = Placed(req[r].id, req[r].to)
  /\ Disturb(r, Idle, {})
  /\ UNCHANGED <<folders, lastId, opened>>

-----------------------------------------------------------------------------
(* The event between the handler of a sync and its thread.  The handler    *)
(* starts the thread and sets the event the thread waits for; the handler  *)
(* of one dataset's sync clears it at once.                                *)

(* A thread of that name is alive in the process of the request.           *)
Busy(r, op, key) ==
  \E x \in Request : /\ ProcessOf[x] = ProcessOf[r]
                     /\ req[x].op = op
                     /\ req[x].step # "end"
                     /\ IF op = "sync" THEN req[x].ws = key
                        ELSE req[x].id = key

OpenSync(r, w) ==
  /\ ~Busy(r, "sync", w)
  /\ Open(r, [Idle EXCEPT !.op = "sync", !.step = "new", !.hand = "set",
                          !.ws = w])

OpenSyncOne(r, row) ==
  /\ ~Busy(r, "one", row.id)
  /\ Open(r, [Idle EXCEPT !.op = "one", !.step = "new", !.hand = "set",
                          !.id = row.id, !.from = row.place])

(* Mutant: every handler clears its event.                                 *)
ClearsAnyEvent(r) == req[r].op \in {"one", "sync"}
ClearsEvent(r) == req[r].op = "one"

SetEvent(r) ==
  /\ req[r].hand = "set"
  /\ Go(r, [req[r] EXCEPT
              !.event = TRUE,
              !.hand = IF ClearsEvent(r) THEN "clear" ELSE "ok",
              !.step = IF @ = "waiting" THEN "woken" ELSE @])
  /\ UNCHANGED <<folders, rows, lastId, opened>>

ClearEvent(r) ==
  /\ req[r].hand = "clear"
  /\ Go(r, [req[r] EXCEPT !.event = FALSE, !.hand = "ok"])
  /\ UNCHANGED <<folders, rows, lastId, opened>>

Wait(r) ==
  /\ req[r].step = "new"
  /\ Go(r, [req[r] EXCEPT !.step = IF req[r].event THEN "woken"
                                   ELSE "waiting"])
  /\ UNCHANGED <<folders, rows, lastId, opened>>

(* The request is over when its handler and its thread are.                *)
EndRequest(r) ==
  /\ req[r].step = "end"
  /\ req[r].hand = "ok"
  /\ Go(r, Idle)
  /\ UNCHANGED <<folders, rows, lastId, opened>>

-----------------------------------------------------------------------------
(* The thread of one dataset's sync: the folder is counted at the place    *)
(* the handler read, and the row gets that place again with the counts.    *)

CountOne(r) ==
  /\ req[r].op = "one"
  /\ req[r].step = "woken"
  /\ Go(r, [req[r] EXCEPT !.step = IF Standing(req[r].from) THEN "write"
                                   ELSE "end"])
  /\ UNCHANGED <<folders, rows, lastId, opened>>

WriteOne(r) ==
  /\ req[r].step = "write"
  /\ rows' = Placed(req[r].id, req[r].from)
  /\ Disturb(r, [req[r] EXCEPT !.step = "end"], {})
  /\ UNCHANGED <<folders, lastId, opened>>

-----------------------------------------------------------------------------
(* The scan of a workspace.  A list of datasets runs it in its request     *)
(* before it answers, and deletes the rows it met no folder for; a sync    *)
(* runs it in a thread, counts every folder and writes its place.          *)

OpenList(r, w) ==
  Open(r, [Idle EXCEPT !.op = "list", !.step = "read", !.ws = w])

ReadRows(r) ==
  /\ \/ req[r].step = "read"
     \/ req[r].op = "sync" /\ req[r].step = "woken"
  /\ Go(r, [req[r] EXCEPT
              !.step = "scan",
              !.seen = {[id |-> row.id, inode |-> row.inode] :
                          row \in RowsOf(req[r].ws)},
              !.areas = Access,
              !.calm = TRUE,
              !.touched = {}])
  /\ UNCHANGED <<folders, rows, lastId, opened>>

(* The folders of access 0 are listed first, those of access 1 after them. *)
NextArea(r) == IF "0" \in req[r].areas THEN "0" ELSE "1"

ListArea(r) ==
  /\ req[r].step = "scan"
  /\ req[r].names = {}
  /\ req[r].areas # {}
  /\ Go(r, [req[r] EXCEPT
              !.areas = @ \ {NextArea(r)},
              !.names = {p \in Place : /\ p.ws = req[r].ws
                                       /\ p.access = NextArea(r)
                                       /\ Standing(p)}])
  /\ UNCHANGED <<folders, rows, lastId, opened>>

(* A name that is no folder any more is passed over.                       *)
StatFolder(r) ==
  /\ req[r].step = "scan"
  /\ \E p \in req[r].names :
       Go(r, IF Standing(p)
             THEN [req[r] EXCEPT !.names = @ \ {p}, !.step = "record",
                                 !.to = p, !.inode = folders[p]]
             ELSE [req[r] EXCEPT !.names = @ \ {p}])
  /\ UNCHANGED <<folders, rows, lastId, opened>>

(* The rows read at the start that have an inode.                          *)
Matches(r, i) == {d \in req[r].seen : d.inode = i}

(* What is left of the rows read, once those of an inode were met.         *)
(* Mutant: the rows met are not taken out.                                 *)
UnmetKept(r, i) == req[r].seen
Unmet(r, i) == req[r].seen \ Matches(r, i)

RecordFolder(r) ==
  /\ req[r].step = "record"
  /\ LET i == req[r].inode
         s == [req[r] EXCEPT !.step = "scan", !.seen = Unmet(r, i),
                             !.to = None, !.inode = None]
     IN IF Matches(r, i) = {}
        THEN /\ Insert(req[r].to, i)
             /\ Disturb(r, s, {})
        ELSE /\ UNCHANGED lastId
             /\ IF req[r].op = "list"
                THEN Go(r, s) /\ UNCHANGED rows
                ELSE \E d \in Matches(r, i) :
                       /\ rows' = Placed(d.id, req[r].to)
                       /\ Disturb(r, s, {})
  /\ UNCHANGED <<folders, opened>>

(* A folder that vanished before it was counted ends the whole scan.       *)
ScanRaises(r) ==
  /\ req[r].op = "sync"
  /\ req[r].step = "record"
  /\ Matches(r, req[r].inode) # {}
  /\ ~Standing(req[r].to)
  /\ Go(r, [req[r] EXCEPT !.step = "end"])
  /\ UNCHANGED <<folders, rows, lastId, opened>>

Scanned(r) ==
  req[r].step = "scan" /\ req[r].areas = {} /\ req[r].names = {}

(* The rows a finished list deletes.                                       *)
(* Mutant: the flag check is read the wrong way round.                     *)
ForgottenBySync(r) ==
  {row \in rows : req[r].op = "sync" /\ \E d \in req[r].seen : d.id = row.id}
Forgotten(r) == {row \in rows : \E d \in req[r].seen : d.id = row.id}

EndList(r) ==
  /\ req[r].op = "list"
  /\ Scanned(r)
  /\ rows' = rows \ Forgotten(r)
  /\ Disturb(r, Idle, {})
  /\ UNCHANGED <<folders, lastId, opened>>

EndSync(r) ==
  /\ req[r].op = "sync"
  /\ Scanned(r)
  /\ Go(r, [req[r] EXCEPT !.step = "end"])
  /\ UNCHANGED <<folders, rows, lastId, opened>>

-----------------------------------------------------------------------------
(* The steps of a request's handler and of its thread.                     *)
Handler(r) ==
  \/ MakeFolder(r) \/ Register(r) \/ InsertRow(r) \/ CountRaises(r)
  \/ Clean(r) \/ DeleteRow(r) \/ RemoveFolder(r) \/ RemoveFails(r)
  \/ MoveFolder(r) \/ RenameRow(r) \/ SetEvent(r) \/ ClearEvent(r)

Thread(r) ==
  \/ Wait(r) \/ CountOne(r) \/ WriteOne(r)
  \/ ReadRows(r) \/ ListArea(r) \/ StatFolder(r) \/ RecordFolder(r)
  \/ ScanRaises(r) \/ EndList(r) \/ EndSync(r) \/ EndRequest(r)

Opens(r) ==
  \/ \E p \in Place : OpenCreate(r, p)
  \/ \E row \in rows : \/ OpenRemove(r, row)
                       \/ OpenSyncOne(r, row)
                       \/ \E p \in Place : OpenMove(r, row, p)
  \/ \E w \in Workspace : OpenList(r, w) \/ OpenSync(r, w)

Next == \E r \in Request : Opens(r) \/ Handler(r) \/ Thread(r)

Spec == Init /\ [][Next]_vars

(* Threads that can run are run.                                           *)
FairSpec == Spec /\ \A r \in Request : WF_vars(Handler(r)) /\ WF_vars(Thread(r))

-----------------------------------------------------------------------------
(* Properties.                                                             *)

(* Every variable keeps its type; ids and inode numbers are unique among   *)
(* the rows, as the keys of the table dataset demand.                      *)
TypeOK ==
  /\ folders \in [Place -> Inode \cup {None}]
  /\ rows \subseteq [id : Ids, place : Place, inode : Inode]
  /\ \A a, b \in rows : a # b => a.id # b.id /\ a.inode # b.inode
  /\ \A p, q \in Place : Standing(p) /\ folders[p] = folders[q] => p = q
  /\ lastId \in 0 .. MaxIds
  /\ opened \in 0 .. MaxRequests
  /\ \A r \in Request : req[r] # Idle => req[r].step # "none"

(* A list of datasets that nothing disturbs between its first read and its *)
(* last statement leaves a row for every folder of the workspace and no    *)
(* row without one (scan_workspace with check=False): whatever a failed    *)
(* removal, a lost race or a swallowed folder left behind is put right.    *)
QuietListSettles ==
  [][\A r \in Request : EndList(r) /\ req[r].calm =>
       LET w == req[r].ws
           There == {folders[p] : p \in {q \in Place : q.ws = w}} \ {None}
       IN /\ There \subseteq {row.inode : row \in rows'}
          /\ \A row \in rows' : row.place.ws = w => row.inode \in There]_vars

(* A list that is disturbed never forgets a dataset whose folder stood     *)
(* untouched in the workspace while it ran, whatever the others did:       *)
(* only a folder that was made or moved meanwhile can lose its row.        *)
ListForgetsOnlyTouched ==
  [][\A r \in Request : EndList(r) =>
       \A row \in rows \ rows' : \A p \in Place :
         p.ws = req[r].ws /\ folders[p] = row.inode
           => row.inode \in req[r].touched]_vars

(* A sync of a workspace that nothing disturbs leaves every row of the     *)
(* workspace at the place of its folder (scan_workspace with check=True):  *)
(* a place that a stale writer put back does not survive it.               *)
QuietSyncAligns ==
  [][\A r \in Request : EndSync(r) /\ req[r].calm =>
       \A p \in Place : p.ws = req[r].ws /\ Standing(p) =>
         \E row \in rows : /\ row.inode = folders[p]
                            /\ row.place.ws = p.ws => row.place = p]_vars

(* A sync of a workspace ends: its thread does not wait for an event that  *)
(* was set before it looked (the event is set once and stays set).         *)
WorkspaceSyncEnds ==
  \A r \in Request : (req[r].op = "sync") ~> (req[r].op # "sync")
=============================================================================
