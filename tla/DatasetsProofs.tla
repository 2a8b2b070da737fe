--------------------------- MODULE DatasetsProofs ---------------------------
(***************************************************************************)
(* Theorems about Datasets for any number of workspaces, places, inode     *)
(* numbers, processes and requests.                                        *)
(***************************************************************************)
EXTENDS Datasets, TLAPS

(* What a request may be doing.                                            *)
Operations == {"none", "create", "remove", "move", "list", "sync", "one"}
Steps ==
  {"none", "make", "chunk", "register", "insert", "clean", "delete", "rmdir",
   "mv", "rename", "new", "waiting", "woken", "write", "read", "scan",
   "record", "end"}
RequestType ==
  [op : Operations, step : Steps, hand : {"ok", "set", "clear"},
   ws : Workspace \cup {None}, id : 0 .. MaxIds,
   from : Place \cup {None}, to : Place \cup {None}, inode : Inode \cup {None},
   event : BOOLEAN, seen : SUBSET [id : Ids, inode : Inode],
   areas : SUBSET Access, names : SUBSET Place,
   calm : BOOLEAN, touched : SUBSET (Inode \cup {None})]

HasTo(q) ==
  q.step \in {"make", "chunk", "register", "insert", "clean", "mv", "rename", "record"}
HasFrom(q) == q.step \in {"delete", "rmdir", "mv", "write"} \/ q.op = "one"
HasWorkspace(q) == q.step \in {"read", "scan", "record"} \/ q.op = "sync"
RequestOK(q) ==
  /\ q \in RequestType
  /\ HasTo(q) => q.to \in Place
  /\ HasFrom(q) => q.from \in Place
  /\ HasWorkspace(q) => q.ws \in Workspace
  /\ q.step \in {"insert", "record"} => q.inode \in Inode
  /\ q # Idle => q.step # "none"
Requests == req \in [Request -> RequestType] /\ \A r \in Request : RequestOK(req[r])

(* Ids are handed out in increasing order.                                 *)
FoldersOK ==
  /\ folders \in [Place -> Inode \cup {None}]
  /\ \A p, q \in Place : Standing(p) /\ folders[p] = folders[q] => p = q
RowsOK ==
  /\ rows \subseteq [id : Ids, place : Place, inode : Inode]
  /\ \A a, b \in rows : a # b => a.id # b.id /\ a.inode # b.inode
  /\ lastId \in 0 .. MaxIds
  /\ \A row \in rows : row.id <= lastId
World == FoldersOK /\ RowsOK /\ opened \in 0 .. MaxRequests

------------------------------------------------------------------------------
(* Scans                                                                   *)

Scanning(r) == req[r].step \in {"scan", "record"}

(* The scan has still to come to a place.                                  *)
Recording(r, p) == req[r].step = "record" /\ req[r].to = p
ToCome(r, p) == p.access \in req[r].areas \/ p \in req[r].names
Pending(r, p) == ToCome(r, p) \/ Recording(r, p)

(* The places of a scan, and the rows it has read.                         *)
ScanTyped(r) ==
  /\ \A p \in req[r].names : p.ws = req[r].ws /\ p.access \notin req[r].areas
  /\ req[r].step = "record" => req[r].to.ws = req[r].ws /\ ~ToCome(r, req[r].to)
  /\ \A d \in req[r].seen :
       d.id <= lastId /\ \A row \in rows : row.id = d.id => row.inode = d.inode

(* A folder of a row that was read and not met is still to come, or was    *)
(* touched by another request.                                             *)
UnmetToCome(r) ==
  \A d \in req[r].seen : \A p \in Place :
    p.ws = req[r].ws /\ folders[p] = d.inode =>
      \/ d.inode \in req[r].touched
      \/ ToCome(r, p)
      \/ Recording(r, p) /\ req[r].inode = d.inode

(* What an undisturbed scan has done so far: the rows it has not met       *)
(* stand, other rows of the workspace have a folder it has dealt with, and *)
(* every folder it has dealt with has a row, in a sync at its place.       *)
InPlace(r, p, row) ==
  req[r].op = "sync" => (row.place.ws = req[r].ws => row.place = p)
UnmetStand(r) ==
  \A d \in req[r].seen : \E row \in rows : row.id = d.id /\ row.inode = d.inode
RowsMet(r) ==
  \A row \in rows : row.place.ws = req[r].ws =>
    \/ \E d \in req[r].seen : d.id = row.id
    \/ \E p \in Place : /\ p.ws = req[r].ws /\ folders[p] = row.inode
                        /\ ~Pending(r, p)
FoldersMet(r) ==
  \A p \in Place : p.ws = req[r].ws /\ Standing(p) =>
    Pending(r, p) \/ \E row \in rows : row.inode = folders[p] /\ InPlace(r, p, row)
Quiet(r) ==
  /\ req[r].touched = {}
  /\ req[r].step = "record" => folders[req[r].to] = req[r].inode
  /\ UnmetStand(r)
  /\ RowsMet(r)
  /\ FoldersMet(r)

Early == {"read", "new", "waiting", "woken"}
Scan(r) ==
  /\ req[r].step \in Early => req[r].names = {}
  /\ Scanning(r) => /\ ScanTyped(r)
                    /\ UnmetToCome(r)
                    /\ req[r].calm => Quiet(r)

DatasetsInv == World /\ Requests /\ \A r \in Request : Scan(r)

------------------------------------------------------------------------------
(* A web thread without a request may be in that state.                    *)
LEMMA IdleOK == RequestOK(Idle) /\ Idle.step = "none" /\ Idle.op = "none"
<1>1. Idle \in RequestType
  BY RequestAssumption DEF RequestType, Idle, Operations, Steps, Access, Ids
<1> QED
  BY <1>1 DEF RequestOK, HasTo, HasFrom, HasWorkspace, Idle

(* A platform without datasets.                                            *)
LEMMA InitDatasets == Init => DatasetsInv
<1> SUFFICES ASSUME Init PROVE DatasetsInv
  OBVIOUS
<1>1. World
  BY RequestAssumption DEF Init, World, FoldersOK, RowsOK, Standing
<1>2. Requests
  BY IdleOK DEF Init, Requests, RequestOK
<1>3. \A r \in Request : Scan(r)
  BY IdleOK DEF Init, Scan, Scanning, Early
<1> QED
  BY <1>1, <1>2, <1>3 DEF DatasetsInv

(* Moving on                                                               *)

Step(r) == Opens(r) \/ Handler(r) \/ Thread(r)

(* A request moves on; if it changes rows or folders it disturbs scans.    *)
MovedOn(r, s, T) ==
  \/ Go(r, s) /\ UNCHANGED <<folders, rows, lastId>>
  \/ Disturb(r, s, T) /\ \A p \in Place : folders'[p] \in {folders[p], None} \cup T

(* A request that moves on is in the state it moves to, and every request  *)
(* keeps its type, whether the step disturbs scans or not.                 *)
LEMMA MovesOn ==
  ASSUME Requests, NEW r \in Request, NEW s, RequestOK(s),
         NEW T \in SUBSET (Inode \cup {None}), Go(r, s) \/ Disturb(r, s, T)
  PROVE  Requests' /\ req'[r] = s
<1>1. CASE Go(r, s)
  BY <1>1 DEF Go, Requests, RequestOK
<1>2. CASE Disturb(r, s, T)
  <2>1. ASSUME NEW x \in Request, req[x].step \in {"scan", "record"}
        PROVE  RequestOK([req[x] EXCEPT !.calm = FALSE, !.touched = @ \cup T])
    <3> DEFINE q == req[x]
    <3> DEFINE t == q.touched \cup T
    <3>1. RequestOK(q)
      BY DEF Requests
    <3>2. t \in SUBSET (Inode \cup {None})
      BY <3>1 DEF RequestOK, RequestType
    <3> HIDE DEF t
    <3>3. [q EXCEPT !.calm = FALSE, !.touched = t] \in RequestType
      BY <3>1, <3>2 DEF RequestOK, RequestType
    <3>4. /\ [q EXCEPT !.calm = FALSE, !.touched = t].step = q.step
          /\ [q EXCEPT !.calm = FALSE, !.touched = t].op = q.op
          /\ [q EXCEPT !.calm = FALSE, !.touched = t].to = q.to
          /\ [q EXCEPT !.calm = FALSE, !.touched = t].from = q.from
          /\ [q EXCEPT !.calm = FALSE, !.touched = t].ws = q.ws
          /\ [q EXCEPT !.calm = FALSE, !.touched = t].inode = q.inode
      BY <3>1 DEF RequestOK, RequestType
    <3>5. q.step # "none"
      BY <2>1
    <3>6. RequestOK([q EXCEPT !.calm = FALSE, !.touched = t])
      BY <3>1, <3>3, <3>4, <3>5 DEF RequestOK, HasTo, HasFrom, HasWorkspace
    <3> QED
      BY <3>6 DEF t
  <2>2. \A x \in Request : RequestOK(req'[x])
    BY <1>2, <2>1 DEF Disturb, Requests
  <2>3. req' \in [Request -> RequestType]
    BY <1>2, <2>2 DEF Disturb, RequestOK
  <2> QED
    BY <1>2, <2>2, <2>3 DEF Disturb, Requests
<1> QED
  BY <1>1, <1>2

(* A request goes on to another step of its work.                          *)
LEMMA NextStep ==
  ASSUME NEW q, RequestOK(q), NEW at \in Steps \ {"none"},
         at \in {"make", "chunk", "register", "insert", "clean", "mv", "rename", "record"}
           => q.to \in Place,
         at \in {"delete", "rmdir", "mv", "write"} => q.from \in Place,
         at \in {"read", "scan", "record"} => q.ws \in Workspace,
         at \in {"insert", "record"} => q.inode \in Inode
  PROVE  RequestOK([q EXCEPT !.step = at])
<1> DEFINE n == [q EXCEPT !.step = at]
<1>1. /\ n \in RequestType /\ n.step = at /\ n.op = q.op /\ n.to = q.to
      /\ n.from = q.from /\ n.ws = q.ws /\ n.inode = q.inode
  BY DEF RequestOK, RequestType
<1>2. n # Idle => n.step # "none"
  BY <1>1
<1> HIDE DEF n
<1>3. RequestOK(n)
  BY <1>1, <1>2 DEF RequestOK, HasTo, HasFrom, HasWorkspace
<1> QED
  BY <1>3 DEF n

(* What every step of a request leaves behind.                             *)
Leaves(r) ==
  \E s : \E T \in SUBSET (Inode \cup {None}) : RequestOK(s) /\ MovedOn(r, s, T)

(* Requests are opened with what they need.                                *)
LEMMA OpensLeaves ==
  ASSUME World, Requests, NEW r \in Request, Opens(r)
  PROVE  Leaves(r)
<1>1. Idle \in RequestType /\ Idle.step = "none" /\ Idle.op = "none"
  BY IdleOK DEF RequestOK
<1>2. \A s : RequestOK(s) /\ Open(r, s) => Leaves(r)
  BY DEF Open, Leaves, MovedOn
<1>3. \A row \in rows : row.place \in Place /\ row.id \in 0 .. MaxIds
  BY RequestAssumption DEF World, RowsOK, Ids
<1>4. ASSUME NEW p \in Place, OpenCreate(r, p)
      PROVE  Leaves(r)
  <2> DEFINE s == [Idle EXCEPT !.op = "create", !.step = "make", !.to = p]
  <2>1. s \in RequestType /\ s.op = "create" /\ s.step = "make" /\ s.to = p
    BY <1>1 DEF RequestType, Operations, Steps
  <2>2. Open(r, s) /\ (s # Idle => s.step # "none")
    BY <1>4, <2>1 DEF OpenCreate
  <2> HIDE DEF s
  <2>3. RequestOK(s)
    BY <2>1, <2>2 DEF RequestOK, HasTo, HasFrom, HasWorkspace
  <2> QED
    BY <1>2, <2>2, <2>3
<1>5. ASSUME NEW row \in rows, OpenRemove(r, row)
      PROVE  Leaves(r)
  <2> DEFINE s == [Idle EXCEPT !.op = "remove", !.step = "delete", !.id = row.id,
                               !.from = row.place]
  <2>1. s \in RequestType /\ s.op = "remove" /\ s.step = "delete" /\ s.from = row.place
    BY <1>1, <1>3 DEF RequestType, Operations, Steps
  <2>2. Open(r, s) /\ (s # Idle => s.step # "none")
    BY <1>5, <2>1 DEF OpenRemove
  <2> HIDE DEF s
  <2>3. RequestOK(s)
    BY <1>3, <2>1, <2>2 DEF RequestOK, HasTo, HasFrom, HasWorkspace
  <2> QED
    BY <1>2, <2>2, <2>3
<1>6. ASSUME NEW row \in rows, OpenSyncOne(r, row)
      PROVE  Leaves(r)
  <2> DEFINE s == [Idle EXCEPT !.op = "one", !.step = "new", !.hand = "set", !.id = row.id,
                               !.from = row.place]
  <2>1. s \in RequestType /\ s.op = "one" /\ s.step = "new" /\ s.from = row.place
    BY <1>1, <1>3 DEF RequestType, Operations, Steps
  <2>2. Open(r, s) /\ (s # Idle => s.step # "none")
    BY <1>6, <2>1 DEF OpenSyncOne
  <2> HIDE DEF s
  <2>3. RequestOK(s)
    BY <1>3, <2>1, <2>2 DEF RequestOK, HasTo, HasFrom, HasWorkspace
  <2> QED
    BY <1>2, <2>2, <2>3
<1>7. ASSUME NEW row \in rows, NEW p \in Place, OpenMove(r, row, p)
      PROVE  Leaves(r)
  <2> DEFINE s == [Idle EXCEPT !.op = "move", !.step = "mv", !.id = row.id,
                               !.from = row.place, !.to = p]
  <2>1. /\ s \in RequestType /\ s.op = "move" /\ s.step = "mv" /\ s.from = row.place
        /\ s.to = p
    BY <1>1, <1>3 DEF RequestType, Operations, Steps
  <2>2. Open(r, s) /\ (s # Idle => s.step # "none")
    BY <1>7, <2>1 DEF OpenMove
  <2> HIDE DEF s
  <2>3. RequestOK(s)
    BY <1>3, <2>1, <2>2 DEF RequestOK, HasTo, HasFrom, HasWorkspace
  <2> QED
    BY <1>2, <2>2, <2>3
<1>8. ASSUME NEW w \in Workspace, OpenList(r, w)
      PROVE  Leaves(r)
  <2> DEFINE s == [Idle EXCEPT !.op = "list", !.step = "read", !.ws = w]
  <2>1. s \in RequestType /\ s.op = "list" /\ s.step = "read" /\ s.ws = w
    BY <1>1 DEF RequestType, Operations, Steps
  <2>2. Open(r, s) /\ (s # Idle => s.step # "none")
    BY <1>8, <2>1 DEF OpenList
  <2> HIDE DEF s
  <2>3. RequestOK(s)
    BY <2>1, <2>2 DEF RequestOK, HasTo, HasFrom, HasWorkspace
  <2> QED
    BY <1>2, <2>2, <2>3
<1>9. ASSUME NEW w \in Workspace, OpenSync(r, w)
      PROVE  Leaves(r)
  <2> DEFINE s == [Idle EXCEPT !.op = "sync", !.step = "new", !.hand = "set", !.ws = w]
  <2>1. s \in RequestType /\ s.op = "sync" /\ s.step = "new" /\ s.ws = w
    BY <1>1 DEF RequestType, Operations, Steps
  <2>2. Open(r, s) /\ (s # Idle => s.step # "none")
    BY <1>9, <2>1 DEF OpenSync
  <2> HIDE DEF s
  <2>3. RequestOK(s)
    BY <2>1, <2>2 DEF RequestOK, HasTo, HasFrom, HasWorkspace
  <2> QED
    BY <1>2, <2>2, <2>3
<1> QED
  BY <1>4, <1>5, <1>6, <1>7, <1>8, <1>9 DEF Opens

(* Steps of handlers.                                                      *)
LEMMA HandlerLeaves ==
  ASSUME World, Requests, NEW r \in Request, Handler(r)
  PROVE  Leaves(r)
<1> DEFINE q == req[r]
<1>1. RequestOK(q) /\ q \in RequestType
  BY DEF Requests, RequestOK
<1>2. \A s : RequestOK(s) /\ Go(r, s) /\ UNCHANGED <<folders, rows, lastId>> => Leaves(r)
  BY DEF Leaves, MovedOn
<1>3. ASSUME NEW s, NEW T \in SUBSET (Inode \cup {None}), RequestOK(s), Disturb(r, s, T),
             \A p \in Place : folders'[p] \in {folders[p], None} \cup T
      PROVE  Leaves(r)
  BY <1>3 DEF Leaves, MovedOn
<1>4. CASE MakeFolder(r)
  <2>1. q.step \in {"make", "chunk"} /\ q.to \in Place
    BY <1>1, <1>4 DEF MakeFolder, RequestOK, HasTo
  <2>2. \A next \in {"chunk", "register"} : RequestOK([q EXCEPT !.step = next])
    BY <1>1, <2>1, NextStep DEF Steps
  <2>3. PICK next \in {"chunk", "register"} :
          LET s == [q EXCEPT !.step = next]
          IN IF Standing(q.to)
             THEN Go(r, s) /\ UNCHANGED folders
             ELSE \E i \in Inode \ Used :
                    /\ folders' = [folders EXCEPT ![q.to] = i]
                    /\ Disturb(r, s, {i})
    BY <1>4 DEF MakeFolder
  <2>4. UNCHANGED <<rows, lastId>>
    BY <1>4 DEF MakeFolder
  <2>5. CASE Standing(q.to)
    BY <1>2, <2>2, <2>3, <2>4, <2>5
  <2>6. CASE ~Standing(q.to)
    <3>1. PICK i \in Inode \ Used : /\ folders' = [folders EXCEPT ![q.to] = i]
                                    /\ Disturb(r, [q EXCEPT !.step = next], {i})
      BY <2>3, <2>6
    <3> QED
      BY <1>3, <2>2, <3>1 DEF World, FoldersOK
  <2> QED
    BY <2>5, <2>6
<1>5. CASE Register(r)
  <2>1. q.step = "register" /\ q.to \in Place
    BY <1>1, <1>5 DEF Register, RequestOK, HasTo
  <2>2. CASE Standing(q.to) /\ q.to.name \notin NamesOf(q.to.ws)
    <3> DEFINE i == folders[q.to]
    <3> DEFINE s == [q EXCEPT !.step = "insert", !.inode = i]
    <3>1. Go(r, s) /\ UNCHANGED <<folders, rows, lastId>>
      BY <1>5, <2>2 DEF Register
    <3>2. i \in Inode
      BY <2>1, <2>2 DEF World, FoldersOK, Standing
    <3> HIDE DEF i
    <3>3. /\ s \in RequestType /\ s.step = "insert" /\ s.op = q.op /\ s.to = q.to
          /\ s.from = q.from /\ s.ws = q.ws /\ s.inode = i
      BY <1>1, <3>2 DEF RequestType, Steps
    <3>4. s # Idle => s.step # "none"
      BY <3>3
    <3> HIDE DEF s
    <3>5. RequestOK(s)
      BY <1>1, <2>1, <3>2, <3>3, <3>4 DEF RequestOK, HasTo, HasFrom, HasWorkspace
    <3> QED
      BY <1>2, <3>1, <3>5
  <2>3. CASE ~(Standing(q.to) /\ q.to.name \notin NamesOf(q.to.ws))
    BY <1>2, <1>5, <2>3, IdleOK DEF Register
  <2> QED
    BY <2>2, <2>3
<1>6. CASE InsertRow(r)
  BY <1>3, <1>6, IdleOK DEF InsertRow
<1>7. CASE CountRaises(r)
  <2>1. RequestOK([q EXCEPT !.step = "clean"])
    BY <1>1, <1>7, NextStep DEF CountRaises, Steps, RequestOK, HasTo
  <2> QED
    BY <1>2, <1>7, <2>1 DEF CountRaises
<1>8. CASE Clean(r)
  BY <1>3, <1>8, IdleOK DEF Clean, World, FoldersOK
<1>9. CASE DeleteRow(r)
  <2>1. RequestOK([q EXCEPT !.step = "rmdir"])
    BY <1>1, <1>9, NextStep DEF DeleteRow, Steps, RequestOK, HasFrom
  <2> QED
    BY <1>3, <1>9, <2>1 DEF DeleteRow
<1>10. CASE RemoveFolder(r)
  BY <1>3, <1>10, IdleOK DEF RemoveFolder, World, FoldersOK
<1>11. CASE RemoveFails(r)
  BY <1>2, <1>11, IdleOK DEF RemoveFails
<1>12. CASE MoveFolder(r)
  <2>1. q.from \in Place /\ q.to \in Place
    BY <1>1, <1>12 DEF MoveFolder, RequestOK, HasFrom, HasTo
  <2>2. RequestOK([q EXCEPT !.step = "rename"])
    BY <1>1, <2>1, NextStep DEF Steps
  <2>3. {folders[q.from]} \in SUBSET (Inode \cup {None})
    BY <2>1 DEF World, FoldersOK
  <2>4. folders' = Moved(q.from, q.to) /\ Disturb(r, [q EXCEPT !.step = "rename"], {folders[q.from]})
    BY <1>12 DEF MoveFolder
  <2>5. \A p \in Place : folders'[p] \in {folders[p], None, folders[q.from]}
    BY <2>1, <2>4 DEF Moved, World, FoldersOK
  <2> QED
    BY <1>3, <2>2, <2>3, <2>4, <2>5
<1>13. CASE RenameRow(r)
  BY <1>3, <1>13, IdleOK DEF RenameRow
<1>14. CASE SetEvent(r) \/ ClearEvent(r)
  <2>1. PICK e \in BOOLEAN, h \in {"ok", "clear"}, at \in {q.step, "woken"} :
           /\ Go(r, [q EXCEPT !.event = e, !.hand = h, !.step = at])
           /\ at # q.step => q.step = "waiting"
    <3>1. CASE SetEvent(r)
      BY <3>1 DEF SetEvent
    <3>2. CASE ClearEvent(r)
      <4>1. Go(r, [q EXCEPT !.event = FALSE, !.hand = "ok"])
        BY <3>2 DEF ClearEvent
      <4>2. [q EXCEPT !.event = FALSE, !.hand = "ok"]
              = [q EXCEPT !.event = FALSE, !.hand = "ok", !.step = q.step]
        BY <1>1 DEF RequestType
      <4> HIDE DEF q
      <4>3. Go(r, [q EXCEPT !.event = FALSE, !.hand = "ok", !.step = q.step])
        BY <4>1, <4>2
      <4> QED
        BY <4>3
    <3> QED
      BY <1>14, <3>1, <3>2
  <2> DEFINE s == [q EXCEPT !.event = e, !.hand = h, !.step = at]
  <2>2. /\ s \in RequestType /\ s.step = at /\ s.op = q.op /\ s.to = q.to
        /\ s.from = q.from /\ s.ws = q.ws /\ s.inode = q.inode /\ s.hand = h
    BY <1>1 DEF RequestType, Steps
  <2>3. q.hand # "ok" /\ q # Idle
    BY <1>14 DEF SetEvent, ClearEvent, Idle
  <2>4. at # "none"
    BY <1>1, <2>3 DEF RequestOK
  <2>5. UNCHANGED <<folders, rows, lastId>> /\ Go(r, s)
    BY <1>14, <2>1 DEF SetEvent, ClearEvent
  <2> HIDE DEF s
  <2>6. RequestOK(s)
    BY <1>1, <2>2, <2>4 DEF RequestOK, HasTo, HasFrom, HasWorkspace
  <2> QED
    BY <1>2, <2>5, <2>6
<1> QED
  BY <1>4, <1>5, <1>6, <1>7, <1>8, <1>9, <1>10, <1>11, <1>12, <1>13, <1>14 DEF Handler

(* The state a recorded folder leaves the scan in.                         *)
Recorded(r) ==
  [req[r] EXCEPT !.step = "scan", !.seen = Unmet(r, req[r].inode),
                 !.to = None, !.inode = None]

(* A scan that has recorded a folder has the rows of that folder out of    *)
(* the unmet ones and the rest of its data as they were.                   *)
LEMMA RecordedOK ==
  ASSUME Requests, NEW r \in Request, req[r].step = "record"
  PROVE  /\ RequestOK(Recorded(r))
         /\ Recorded(r).step = "scan" /\ Recorded(r).seen = Unmet(r, req[r].inode)
         /\ Recorded(r).op = req[r].op /\ Recorded(r).ws = req[r].ws
         /\ Recorded(r).areas = req[r].areas /\ Recorded(r).names = req[r].names
         /\ Recorded(r).calm = req[r].calm /\ Recorded(r).touched = req[r].touched
<1> DEFINE q == req[r]
<1> DEFINE S == Unmet(r, q.inode)
<1> DEFINE n == [q EXCEPT !.step = "scan", !.seen = S, !.to = None, !.inode = None]
<1>1. RequestOK(q) /\ q \in RequestType
  BY DEF Requests, RequestOK
<1>2. S \subseteq [id : Ids, inode : Inode]
  BY <1>1 DEF RequestType, Unmet
<1>3. q.ws \in Workspace /\ (q.op = "one" => q.from \in Place)
  BY <1>1 DEF RequestOK, HasWorkspace, HasFrom
<1> HIDE DEF S
<1>4. /\ n \in RequestType /\ n.step = "scan" /\ n.seen = S /\ n.op = q.op
      /\ n.from = q.from /\ n.ws = q.ws /\ n.areas = q.areas /\ n.names = q.names
      /\ n.calm = q.calm /\ n.touched = q.touched
  BY <1>1, <1>2 DEF RequestType, Steps
<1>5. n # Idle => n.step # "none"
  BY <1>4
<1> HIDE DEF n
<1>6. RequestOK(n)
  BY <1>3, <1>4, <1>5 DEF RequestOK, HasTo, HasFrom, HasWorkspace
<1> QED
  BY <1>4, <1>6 DEF Recorded, n, S

(* The state in which a scan begins, goes on to the next area, and comes   *)
(* to a folder.                                                            *)
Begun(r) ==
  [req[r] EXCEPT !.step = "scan",
                 !.seen = {[id |-> row.id, inode |-> row.inode] : row \in RowsOf(req[r].ws)},
                 !.areas = Access, !.calm = TRUE, !.touched = {}]
AreaNames(r) ==
  {p \in Place : p.ws = req[r].ws /\ p.access = NextArea(r) /\ Standing(p)}
InArea(r) == [req[r] EXCEPT !.areas = @ \ {NextArea(r)}, !.names = AreaNames(r)]
AtFolder(r, p) ==
  [req[r] EXCEPT !.names = @ \ {p}, !.step = "record", !.to = p, !.inode = folders[p]]
PastFolder(r, p) == [req[r] EXCEPT !.names = @ \ {p}]

(* A scan begins with every area to come and the rows of its workspace.    *)
LEMMA BegunOK ==
  ASSUME World, Requests, NEW r \in Request, ReadRows(r)
  PROVE  /\ RequestOK(Begun(r)) /\ Begun(r).step = "scan" /\ Begun(r).areas = Access
         /\ Begun(r).seen = {[id |-> row.id, inode |-> row.inode] : row \in RowsOf(req[r].ws)}
         /\ Begun(r).touched = {} /\ Begun(r).names = req[r].names
         /\ Begun(r).ws = req[r].ws
<1> DEFINE q == req[r]
<1> DEFINE S == {[id |-> row.id, inode |-> row.inode] : row \in RowsOf(q.ws)}
<1> DEFINE n == [q EXCEPT !.step = "scan", !.seen = S, !.areas = Access, !.calm = TRUE,
                          !.touched = {}]
<1>1. RequestOK(q) /\ q \in RequestType
  BY DEF Requests, RequestOK
<1>2. S \subseteq [id : Ids, inode : Inode]
  BY DEF World, RowsOK, RowsOf
<1>3. q.ws \in Workspace /\ (q.op = "one" => q.from \in Place)
  BY <1>1 DEF ReadRows, RequestOK, HasWorkspace, HasFrom
<1> HIDE DEF S
<1>4. /\ n \in RequestType /\ n.step = "scan" /\ n.seen = S /\ n.op = q.op
      /\ n.from = q.from /\ n.ws = q.ws /\ n.areas = Access /\ n.names = q.names
      /\ n.touched = {}
  BY <1>1, <1>2 DEF RequestType, Steps
<1>5. n # Idle => n.step # "none"
  BY <1>4
<1> HIDE DEF n
<1>6. RequestOK(n)
  BY <1>3, <1>4, <1>5 DEF RequestOK, HasTo, HasFrom, HasWorkspace
<1> QED
  BY <1>4, <1>6 DEF Begun, n, S

(* A scan that lists an area has that area behind it and its folders as    *)
(* the names to come.                                                      *)
LEMMA InAreaOK ==
  ASSUME World, Requests, NEW r \in Request, ListArea(r)
  PROVE  /\ RequestOK(InArea(r)) /\ InArea(r).step = "scan"
         /\ InArea(r).areas = req[r].areas \ {NextArea(r)}
         /\ InArea(r).names = AreaNames(r)
         /\ InArea(r).seen = req[r].seen /\ InArea(r).op = req[r].op
         /\ InArea(r).ws = req[r].ws /\ InArea(r).calm = req[r].calm
         /\ InArea(r).touched = req[r].touched
<1> DEFINE q == req[r]
<1> DEFINE A == q.areas \ {NextArea(r)}
<1> DEFINE N == AreaNames(r)
<1> DEFINE n == [q EXCEPT !.areas = A, !.names = N]
<1>1. RequestOK(q) /\ q \in RequestType /\ q.step = "scan"
  BY DEF Requests, RequestOK, ListArea
<1>2. A \subseteq Access /\ N \subseteq Place
  BY <1>1 DEF RequestType, AreaNames
<1> HIDE DEF A, N
<1>3. /\ n \in RequestType /\ n.step = "scan" /\ n.seen = q.seen /\ n.op = q.op
      /\ n.from = q.from /\ n.ws = q.ws /\ n.areas = A /\ n.names = N
      /\ n.calm = q.calm /\ n.touched = q.touched
  BY <1>1, <1>2 DEF RequestType
<1>4. n # Idle => n.step # "none"
  BY <1>3
<1> HIDE DEF n
<1>5. RequestOK(n)
  BY <1>1, <1>3, <1>4 DEF RequestOK, HasTo, HasFrom, HasWorkspace
<1> QED
  BY <1>3, <1>5 DEF InArea, n, A, N

(* A scan that looks at a name has it behind it, and has the folder in     *)
(* hand when there is one.                                                 *)
LEMMA FolderOK ==
  ASSUME World, Requests, NEW r \in Request, req[r].step = "scan", NEW p \in req[r].names
  PROVE  /\ p \in Place
         /\ RequestOK(PastFolder(r, p)) /\ PastFolder(r, p).step = "scan"
         /\ Standing(p) => /\ RequestOK(AtFolder(r, p)) /\ AtFolder(r, p).step = "record"
                           /\ AtFolder(r, p).to = p /\ AtFolder(r, p).inode = folders[p]
         /\ \A n \in {PastFolder(r, p), AtFolder(r, p)} :
              /\ n.names = req[r].names \ {p} /\ n.areas = req[r].areas
              /\ n.seen = req[r].seen /\ n.op = req[r].op /\ n.ws = req[r].ws
              /\ n.calm = req[r].calm /\ n.touched = req[r].touched
<1> DEFINE q == req[r]
<1> DEFINE N == q.names \ {p}
<1> DEFINE past == [q EXCEPT !.names = N]
<1> DEFINE i == folders[p]
<1> DEFINE at == [q EXCEPT !.names = N, !.step = "record", !.to = p, !.inode = i]
<1>1. RequestOK(q) /\ q \in RequestType /\ q.step = "scan"
  BY DEF Requests, RequestOK
<1>2. N \subseteq Place /\ p \in Place /\ i \in Inode \cup {None}
  BY <1>1 DEF RequestType, World, FoldersOK
<1>3. q.ws \in Workspace /\ (q.op = "one" => q.from \in Place)
  BY <1>1 DEF RequestOK, HasWorkspace, HasFrom
<1>4. Standing(p) => i \in Inode
  BY <1>2 DEF Standing
<1> HIDE DEF N, i
<1>5. /\ past \in RequestType /\ past.step = "scan" /\ past.seen = q.seen
      /\ past.op = q.op /\ past.from = q.from /\ past.ws = q.ws /\ past.areas = q.areas
      /\ past.names = N /\ past.calm = q.calm /\ past.touched = q.touched
  BY <1>1, <1>2 DEF RequestType
<1>6. /\ at \in RequestType /\ at.step = "record" /\ at.seen = q.seen
      /\ at.op = q.op /\ at.from = q.from /\ at.ws = q.ws /\ at.areas = q.areas
      /\ at.names = N /\ at.calm = q.calm /\ at.touched = q.touched
      /\ at.to = p /\ at.inode = i
  BY <1>1, <1>2 DEF RequestType, Steps
<1>7. (past # Idle => past.step # "none") /\ (at # Idle => at.step # "none")
  BY <1>5, <1>6
<1> HIDE DEF past, at
<1>8. RequestOK(past)
  BY <1>3, <1>5, <1>7 DEF RequestOK, HasTo, HasFrom, HasWorkspace
<1>9. Standing(p) => RequestOK(at)
  BY <1>2, <1>3, <1>4, <1>6, <1>7 DEF RequestOK, HasTo, HasFrom, HasWorkspace
<1>10. past = PastFolder(r, p) /\ at = AtFolder(r, p)
  BY DEF past, at, PastFolder, AtFolder, N, i
<1> QED
  BY <1>2, <1>5, <1>6, <1>8, <1>9, <1>10 DEF N, i

(* Steps of threads.                                                       *)
LEMMA ThreadLeaves ==
  ASSUME World, Requests, NEW r \in Request, Thread(r)
  PROVE  Leaves(r)
<1> DEFINE q == req[r]
<1>1. RequestOK(q) /\ q \in RequestType
  BY DEF Requests, RequestOK
<1>2. \A s : RequestOK(s) /\ Go(r, s) /\ UNCHANGED <<folders, rows, lastId>> => Leaves(r)
  BY DEF Leaves, MovedOn
<1>3. \A s : RequestOK(s) /\ Disturb(r, s, {}) /\ UNCHANGED folders => Leaves(r)
  BY DEF Leaves, MovedOn
<1>4. \A at \in {"woken", "waiting", "end"} : q.step # "none" => RequestOK([q EXCEPT !.step = at])
  BY <1>1, NextStep DEF Steps
<1>5. CASE Wait(r) \/ ScanRaises(r) \/ EndSync(r)
  BY <1>2, <1>4, <1>5 DEF Wait, ScanRaises, EndSync, Scanned
<1>6. CASE EndRequest(r)
  BY <1>2, <1>6, IdleOK DEF EndRequest
<1>7. CASE EndList(r)
  BY <1>3, <1>7, IdleOK DEF EndList
<1>8. CASE CountOne(r)
  <2>1. RequestOK([q EXCEPT !.step = "write"])
    BY <1>1, <1>8, NextStep DEF CountOne, RequestOK, HasFrom, Steps
  <2> QED
    BY <1>2, <1>4, <1>8, <2>1 DEF CountOne
<1>9. CASE WriteOne(r)
  BY <1>3, <1>4, <1>9 DEF WriteOne
<1>10. CASE ReadRows(r)
  BY <1>2, <1>10, BegunOK DEF ReadRows, Begun
<1>11. CASE ListArea(r)
  BY <1>2, <1>11, InAreaOK DEF ListArea, InArea, AreaNames
<1>12. CASE StatFolder(r)
  <2>1. /\ q.step = "scan" /\ UNCHANGED <<folders, rows, lastId>>
        /\ \E p \in q.names : Go(r, IF Standing(p) THEN AtFolder(r, p) ELSE PastFolder(r, p))
    BY <1>12 DEF StatFolder, PastFolder, AtFolder
  <2>2. PICK p \in q.names : Go(r, IF Standing(p) THEN AtFolder(r, p) ELSE PastFolder(r, p))
    BY <2>1
  <2>3. RequestOK(IF Standing(p) THEN AtFolder(r, p) ELSE PastFolder(r, p))
    BY <2>1, FolderOK
  <2> QED
    BY <1>2, <2>1, <2>2, <2>3
<1>13. CASE RecordFolder(r)
  <2>1. req[r].step = "record" /\ UNCHANGED folders
    BY <1>13 DEF RecordFolder
  <2>2. \/ Disturb(r, Recorded(r), {})
        \/ Go(r, Recorded(r)) /\ UNCHANGED <<rows, lastId>>
    BY <1>13 DEF RecordFolder, Recorded
  <2> QED
    BY <1>2, <1>3, <2>1, <2>2, RecordedOK
<1> QED
  BY <1>5, <1>6, <1>7, <1>8, <1>9, <1>10, <1>11, <1>12, <1>13 DEF Thread

------------------------------------------------------------------------------
(* Rows and folders                                                        *)

(* Rows keep their inode numbers, and new ones have new ids.               *)
SameRows ==
  /\ lastId <= lastId'
  /\ \A row \in rows' :
       row.id > lastId \/ \E old \in rows : old.id = row.id /\ old.inode = row.inode

(* An inserted row gets an id and an inode number of its own; the rows      *)
(* there were stay as they are.                                            *)
LEMMA InsertKeeps ==
  ASSUME RowsOK, NEW p \in Place, NEW i \in Inode, Insert(p, i)
  PROVE  RowsOK' /\ SameRows
<1>1. lastId \in Nat /\ \A row \in rows : row.id \in Nat /\ row.id <= lastId
  BY RequestAssumption DEF RowsOK, Ids
<1>2. CASE \E row \in rows : row.inode = i
  BY <1>1, <1>2 DEF Insert, RowsOK, SameRows
<1>3. CASE \A row \in rows : row.inode # i
  <2> DEFINE new == [id |-> lastId + 1, place |-> p, inode |-> i]
  <2>1. lastId < MaxIds /\ lastId' = lastId + 1 /\ rows' = rows \cup {new}
    BY <1>3 DEF Insert
  <2>2. lastId + 1 \in Ids /\ lastId + 1 \in 0 .. MaxIds
    BY <1>1, <2>1, RequestAssumption DEF Ids
  <2>3. new \in [id : Ids, place : Place, inode : Inode] /\ new.id = lastId + 1 /\ new.inode = i
    BY <2>2
  <2> HIDE DEF new
  <2>4. \A a, b \in rows' : a # b => a.id # b.id /\ a.inode # b.inode
    <3>1. \A a \in rows : a.id # new.id /\ a.inode # new.inode
      BY <1>1, <1>3, <2>3
    <3> QED
      BY <2>1, <3>1 DEF RowsOK
  <2>5. \A row \in rows' : row.id <= lastId'
    BY <1>1, <2>1, <2>3
  <2>6. SameRows
    BY <1>1, <2>1, <2>3 DEF SameRows
  <2> QED
    BY <2>1, <2>2, <2>3, <2>4, <2>5, <2>6 DEF RowsOK
<1> QED
  BY <1>2, <1>3

(* A row that is given another place keeps its id and inode number.        *)
LEMMA PlacedKeeps ==
  ASSUME RowsOK, NEW id, NEW p \in Place, rows' = Placed(id, p), UNCHANGED lastId
  PROVE  RowsOK' /\ SameRows
<1> DEFINE f(row) == IF row.id = id THEN [row EXCEPT !.place = p] ELSE row
<1>1. rows' = {f(row) : row \in rows}
  BY DEF Placed
<1>2. \A row \in rows : /\ f(row) \in [id : Ids, place : Place, inode : Inode]
                       /\ f(row).id = row.id /\ f(row).inode = row.inode
  BY DEF RowsOK
<1> HIDE DEF f
<1>3. \A a \in rows' : \E o \in rows : a = f(o) /\ a.id = o.id /\ a.inode = o.inode
  BY <1>1, <1>2
<1>4. rows' \subseteq [id : Ids, place : Place, inode : Inode]
  BY <1>1, <1>2
<1>5. \A a, b \in rows' : a # b => a.id # b.id /\ a.inode # b.inode
  BY <1>3 DEF RowsOK
<1>6. lastId \in Nat /\ \A row \in rows' : row.id <= lastId'
  BY <1>3, RequestAssumption DEF RowsOK
<1> QED
  BY <1>3, <1>4, <1>5, <1>6 DEF RowsOK, SameRows

(* Deleting rows.                                                          *)
LEMMA FewerKeep ==
  ASSUME RowsOK, rows' \subseteq rows, UNCHANGED lastId
  PROVE  RowsOK' /\ SameRows
BY RequestAssumption DEF RowsOK, SameRows

(* Steps of requests keep types and keys.                                  *)
LEMMA WorldKept ==
  ASSUME World, Requests, NEW r \in Request, Step(r)
  PROVE  World' /\ SameRows
<1> DEFINE q == req[r]
<1>1. RequestOK(q) /\ q \in RequestType
  BY DEF Requests, RequestOK
<1>2. ASSUME UNCHANGED <<rows, lastId>>
      PROVE  RowsOK' /\ SameRows
  BY <1>2, FewerKeep DEF World
<1>3. ASSUME UNCHANGED folders
      PROVE  FoldersOK'
  BY <1>3 DEF World, FoldersOK, Standing
<1>4. CASE Opens(r)
  <2>1. UNCHANGED <<folders, rows, lastId>> /\ opened < MaxRequests /\ opened' = opened + 1
    BY <1>4 DEF Opens, OpenCreate, OpenRemove, OpenSyncOne, OpenMove, OpenList, OpenSync, Open
  <2>2. opened' \in 0 .. MaxRequests
    BY <2>1, RequestAssumption DEF World
  <2> QED
    BY <1>2, <1>3, <2>1, <2>2 DEF World
<1>5. CASE \/ Register(r) \/ CountRaises(r) \/ RemoveFails(r) \/ SetEvent(r) \/ ClearEvent(r)
           \/ Wait(r) \/ CountOne(r) \/ ReadRows(r) \/ ListArea(r) \/ StatFolder(r)
           \/ ScanRaises(r) \/ EndSync(r) \/ EndRequest(r)
  <2>1. UNCHANGED <<folders, rows, lastId, opened>>
    BY <1>5 DEF Register, CountRaises, RemoveFails, SetEvent, ClearEvent, Wait, CountOne,
       ReadRows, ListArea, StatFolder, ScanRaises, EndSync, EndRequest
  <2> QED
    BY <1>2, <1>3, <2>1 DEF World
<1>6. CASE InsertRow(r)
  <2>1. q.to \in Place /\ q.inode \in Inode
    BY <1>1, <1>6 DEF InsertRow, RequestOK, HasTo
  <2> QED
    BY <1>3, <1>6, <2>1, InsertKeeps DEF InsertRow, World
<1>7. CASE DeleteRow(r) \/ EndList(r)
  <2>1. rows' \subseteq rows /\ UNCHANGED <<folders, lastId, opened>>
    BY <1>7 DEF DeleteRow, EndList
  <2> QED
    BY <1>3, <2>1, FewerKeep DEF World
<1>8. CASE RenameRow(r) \/ WriteOne(r)
  <2>1. \E p \in Place : rows' = Placed(q.id, p)
    BY <1>1, <1>8 DEF RenameRow, WriteOne, RequestOK, HasTo, HasFrom
  <2>2. UNCHANGED <<folders, lastId, opened>>
    BY <1>8 DEF RenameRow, WriteOne
  <2> QED
    BY <1>3, <2>1, <2>2, PlacedKeeps DEF World
<1>9. CASE RecordFolder(r)
  <2>1. q.to \in Place /\ q.inode \in Inode /\ UNCHANGED <<folders, opened>>
    BY <1>1, <1>9 DEF RecordFolder, RequestOK, HasTo
  <2>2. \/ Insert(q.to, q.inode)
        \/ UNCHANGED lastId /\ (UNCHANGED rows \/ \E d \in Matches(r, q.inode) : rows' = Placed(d.id, q.to))
    BY <1>9 DEF RecordFolder
  <2> QED
    BY <1>2, <1>3, <2>1, <2>2, InsertKeeps, PlacedKeeps DEF World
<1>10. CASE MakeFolder(r) \/ Clean(r) \/ RemoveFolder(r) \/ MoveFolder(r)
  <2>1. UNCHANGED <<rows, lastId, opened>>
    BY <1>10 DEF MakeFolder, Clean, RemoveFolder, MoveFolder
  <2>2. FoldersOK'
    <3>1. CASE MakeFolder(r)
      <4>1. q.to \in Place
        BY <1>1, <3>1 DEF MakeFolder, RequestOK, HasTo
      <4>2. UNCHANGED folders \/ \E i \in Inode \ Used : folders' = [folders EXCEPT ![q.to] = i]
        BY <3>1 DEF MakeFolder
      <4>3. ASSUME NEW i \in Inode \ Used, folders' = [folders EXCEPT ![q.to] = i]
            PROVE  FoldersOK'
        <5>1. i # None /\ \A p \in Place : folders[p] # i
          BY PlaceAssumption DEF Used
        <5> QED
          BY <4>1, <4>3, <5>1 DEF World, FoldersOK, Standing
      <4> QED
        BY <1>3, <4>2, <4>3
    <3>2. CASE Clean(r) \/ RemoveFolder(r)
      BY <3>2 DEF Clean, RemoveFolder, World, FoldersOK, Standing
    <3>3. CASE MoveFolder(r)
      <4>1. q.from \in Place /\ q.to \in Place
        BY <1>1, <3>3 DEF MoveFolder, RequestOK, HasTo, HasFrom
      <4> QED
        BY <3>3, <4>1 DEF MoveFolder, Moved, World, FoldersOK, Standing
    <3> QED
      BY <1>10, <3>1, <3>2, <3>3
  <2> QED
    BY <1>2, <2>1, <2>2 DEF World
<1> QED
  BY <1>4, <1>5, <1>6, <1>7, <1>8, <1>9, <1>10 DEF Step, Handler, Thread

------------------------------------------------------------------------------
(* Scans                                                                   *)

(* Every step of a request leaves its data in order.                       *)
LEMMA StepLeaves ==
  ASSUME World, Requests, NEW r \in Request, Step(r)
  PROVE  Leaves(r)
BY OpensLeaves, HandlerLeaves, ThreadLeaves DEF Step

(* What other requests do to a scan.                                       *)
LEMMA OthersScan ==
  ASSUME DatasetsInv, NEW r \in Request, Step(r), NEW x \in Request \ {r}
  PROVE  Scan(x)'
<1>1. req \in [Request -> RequestType] /\ req[x] \in RequestType
  BY DEF DatasetsInv, Requests
<1>2. PICK s : \E T \in SUBSET (Inode \cup {None}) : MovedOn(r, s, T)
  BY StepLeaves DEF DatasetsInv, Leaves
<1>a. PICK T \in SUBSET (Inode \cup {None}) : MovedOn(r, s, T)
  BY <1>2
<1>3. SameRows
  BY WorldKept DEF DatasetsInv
<1>4. CASE Go(r, s) /\ UNCHANGED <<folders, rows, lastId>>
  <2>1. req'[x] = req[x]
    BY <1>1, <1>4 DEF Go
  <2> QED
    BY <1>4, <2>1 DEF DatasetsInv, Scan, Scanning, ScanTyped, UnmetToCome, Quiet, UnmetStand,
       RowsMet, FoldersMet, Recording, ToCome, Pending, InPlace, Standing
<1>5. CASE Disturb(r, s, T) /\ \A p \in Place : folders'[p] \in {folders[p], None} \cup T
  <2>1. CASE ~Scanning(x)
    <3>1. req'[x] = req[x]
      BY <1>5, <2>1 DEF Disturb, Scanning
    <3> QED
      BY <2>1, <3>1 DEF DatasetsInv, Scan, Scanning
  <2>2. CASE Scanning(x)
    <3> DEFINE t == req[x].touched \cup T
    <3>1. req'[x] = [req[x] EXCEPT !.calm = FALSE, !.touched = t]
      BY <1>5, <2>2 DEF Disturb, Scanning
    <3>2. t \subseteq Inode \cup {None}
      BY <1>1 DEF RequestType
    <3> HIDE DEF t
    <3>3. /\ req'[x].step = req[x].step /\ req'[x].names = req[x].names
          /\ req'[x].areas = req[x].areas /\ req'[x].ws = req[x].ws /\ req'[x].to = req[x].to
          /\ req'[x].inode = req[x].inode /\ req'[x].seen = req[x].seen
          /\ req'[x].calm = FALSE /\ req'[x].touched = t
      BY <1>1, <3>1 DEF RequestType
    <3>4. ScanTyped(x) /\ UnmetToCome(x)
      BY <2>2 DEF DatasetsInv, Scan
    <3>5. \A d \in req[x].seen : d.id \in Ids /\ d.inode \in Inode
      BY <1>1 DEF RequestType
    <3>6. ScanTyped(x)'
      <4>1. ASSUME NEW d \in req[x].seen
            PROVE  d.id <= lastId' /\ \A row \in rows' : row.id = d.id => row.inode = d.inode
        <5>1. d.id \in Nat /\ d.id <= lastId /\ lastId \in Nat /\ lastId' \in Nat
          BY <3>4, <3>5, WorldKept, RequestAssumption DEF ScanTyped, DatasetsInv, World, RowsOK, Ids
        <5>2. \A row \in rows' : row.id = d.id =>
                \E old \in rows : old.id = row.id /\ old.inode = row.inode
          BY <1>3, <5>1 DEF SameRows
        <5> QED
          BY <1>3, <3>4, <5>1, <5>2 DEF ScanTyped, SameRows
      <4> QED
        BY <3>3, <3>4, <4>1 DEF ScanTyped, ToCome
    <3>7. UnmetToCome(x)'
      <4> SUFFICES ASSUME NEW d \in req[x].seen, NEW p \in Place,
                          p.ws = req[x].ws, folders'[p] = d.inode, d.inode \notin t
                   PROVE  \/ ToCome(x, p)'
                          \/ Recording(x, p)' /\ req'[x].inode = d.inode
        BY <3>3 DEF UnmetToCome
      <4>1. folders[p] = d.inode /\ d.inode \notin req[x].touched
        BY <1>5, <3>5, PlaceAssumption DEF t
      <4> QED
        BY <3>3, <3>4, <4>1 DEF UnmetToCome, ToCome, Recording
    <3> QED
      BY <2>2, <3>3, <3>6, <3>7 DEF Scan, Scanning, Early
  <2> QED
    BY <2>1, <2>2
<1> QED
  BY <1>a, <1>4, <1>5 DEF MovedOn

(* A scan begins.                                                          *)
LEMMA BegunScan ==
  ASSUME DatasetsInv, NEW r \in Request, ReadRows(r)
  PROVE  Scan(r)'
<1> DEFINE q == req[r]
<1>1. /\ req'[r] = Begun(r) /\ UNCHANGED <<folders, rows, lastId>>
      /\ q.step \in Early
  BY DEF DatasetsInv, Requests, ReadRows, Go, Begun, Early
<1>2. /\ req'[r].step = "scan" /\ req'[r].areas = Access /\ req'[r].names = {}
      /\ req'[r].seen = {[id |-> row.id, inode |-> row.inode] : row \in RowsOf(q.ws)}
      /\ req'[r].touched = {} /\ req'[r].ws = q.ws
  BY <1>1, BegunOK DEF DatasetsInv, Scan
<1>3. \A d \in req'[r].seen : \E row \in rows :
        row.id = d.id /\ row.inode = d.inode
  BY <1>2 DEF RowsOf
<1>4. \A row \in rows : row.place.ws = q.ws => \E d \in req'[r].seen : d.id = row.id
  <2> SUFFICES ASSUME NEW row \in rows, row.place.ws = q.ws
               PROVE  \E d \in req'[r].seen : d.id = row.id
    OBVIOUS
  <2>1. [id |-> row.id, inode |-> row.inode] \in req'[r].seen
    BY <1>2 DEF RowsOf
  <2> QED
    BY <2>1
<1>5. \A p \in Place : ToCome(r, p)'
  BY <1>2, PlaceAssumption DEF ToCome
<1>6. ScanTyped(r)'
  BY <1>1, <1>2, <1>3 DEF ScanTyped, DatasetsInv, World, RowsOK
<1>7. UnmetToCome(r)'
  BY <1>5 DEF UnmetToCome
<1>8. Quiet(r)'
  BY <1>1, <1>2, <1>3, <1>4, <1>5 DEF Quiet, UnmetStand, RowsMet, FoldersMet, Pending
<1> QED
  BY <1>2, <1>6, <1>7, <1>8 DEF Scan, Early

(* A scan lists the folders of an area.                                    *)
LEMMA AreaScan ==
  ASSUME DatasetsInv, NEW r \in Request, ListArea(r)
  PROVE  Scan(r)'
<1> DEFINE q == req[r]
<1>1. /\ req'[r] = InArea(r) /\ UNCHANGED <<folders, rows, lastId>>
      /\ q.step = "scan" /\ q.names = {} /\ q.areas # {}
  BY DEF DatasetsInv, Requests, ListArea, Go, InArea, AreaNames
<1>2. /\ req'[r].step = "scan" /\ req'[r].areas = q.areas \ {NextArea(r)}
      /\ req'[r].names = AreaNames(r) /\ req'[r].seen = q.seen /\ req'[r].op = q.op
      /\ req'[r].ws = q.ws /\ req'[r].calm = q.calm /\ req'[r].touched = q.touched
  BY <1>1, InAreaOK DEF DatasetsInv
<1>3. ScanTyped(r) /\ UnmetToCome(r) /\ (q.calm => Quiet(r))
  BY <1>1 DEF DatasetsInv, Scan, Scanning
<1>4. q.areas \subseteq Access /\ \A d \in q.seen : d.inode \in Inode
  BY DEF DatasetsInv, Requests, RequestType
<1>5. NextArea(r) \in q.areas
  BY <1>1, <1>4 DEF NextArea, Access
<1>6. /\ \A p \in Place : ToCome(r, p) /\ p.ws = q.ws /\ Standing(p) => ToCome(r, p)'
      /\ \A p \in Place : ToCome(r, p)' => ToCome(r, p)
  BY <1>1, <1>2, <1>5 DEF ToCome, AreaNames
<1>7. \A p \in Place : ~Recording(r, p) /\ ~Recording(r, p)'
  BY <1>1, <1>2 DEF Recording
<1>8. ScanTyped(r)'
  BY <1>1, <1>2, <1>3 DEF ScanTyped, AreaNames
<1>9. UnmetToCome(r)'
  <2>1. \A d \in q.seen : \A p \in Place : folders[p] = d.inode => Standing(p)
    BY <1>4, PlaceAssumption DEF Standing
  <2> QED
    BY <1>1, <1>2, <1>3, <1>6, <1>7, <2>1 DEF UnmetToCome
<1>10. q.calm => Quiet(r)'
  BY <1>1, <1>2, <1>3, <1>6, <1>7 DEF Quiet, UnmetStand, RowsMet, FoldersMet, Pending, InPlace,
     Standing
<1> QED
  BY <1>2, <1>8, <1>9, <1>10 DEF Scan, Early

(* A scan comes to a folder, or passes over a name that is none any more.  *)
LEMMA FolderScan ==
  ASSUME DatasetsInv, NEW r \in Request, StatFolder(r)
  PROVE  Scan(r)'
<1> DEFINE q == req[r]
<1>1. q.step = "scan" /\ UNCHANGED <<folders, rows, lastId>>
  BY DEF StatFolder
<1>2. PICK p \in q.names : req'[r] = IF Standing(p) THEN AtFolder(r, p) ELSE PastFolder(r, p)
  BY DEF DatasetsInv, Requests, StatFolder, Go, AtFolder, PastFolder
<1>3. /\ p \in Place
      /\ req'[r].step = IF Standing(p) THEN "record" ELSE "scan"
      /\ Standing(p) => req'[r].to = p /\ req'[r].inode = folders[p]
      /\ req'[r].areas = q.areas
      /\ req'[r].names = q.names \ {p} /\ req'[r].seen = q.seen /\ req'[r].op = q.op
      /\ req'[r].ws = q.ws /\ req'[r].calm = q.calm /\ req'[r].touched = q.touched
  BY <1>1, <1>2, FolderOK DEF DatasetsInv
<1>4. ScanTyped(r) /\ UnmetToCome(r) /\ (q.calm => Quiet(r))
  BY <1>1 DEF DatasetsInv, Scan, Scanning
<1>5. \A d \in q.seen : d.inode \in Inode
  BY DEF DatasetsInv, Requests, RequestType
<1>6. /\ \A k \in Place : k # p => (ToCome(r, k)' <=> ToCome(r, k))
      /\ ToCome(r, p) /\ ~ToCome(r, p)'
  BY <1>3, <1>4 DEF ToCome, ScanTyped
<1>7. \A k \in Place : ~Recording(r, k) /\ (Recording(r, k)' <=> k = p /\ Standing(p))
  BY <1>1, <1>3 DEF Recording
<1>8. ScanTyped(r)'
  BY <1>1, <1>3, <1>4, <1>6 DEF ScanTyped
<1>9. UnmetToCome(r)'
  <2> SUFFICES ASSUME NEW d \in q.seen, NEW k \in Place, k.ws = q.ws, folders[k] = d.inode,
                      d.inode \notin q.touched
               PROVE  ToCome(r, k)' \/ (Recording(r, k)' /\ req'[r].inode = d.inode)
    BY <1>1, <1>3 DEF UnmetToCome
  <2>1. ToCome(r, k)
    BY <1>4, <1>7 DEF UnmetToCome
  <2>2. Standing(k)
    BY <1>5, PlaceAssumption DEF Standing
  <2>3. CASE k = p
    <3>1. Standing(p) /\ folders[p] = d.inode
      BY <2>2, <2>3 DEF Standing
    <3>2. req'[r].step = "record" /\ req'[r].to = p /\ req'[r].inode = d.inode
      BY <1>3, <3>1
    <3> QED
      BY <2>3, <3>2 DEF Recording
  <2>4. CASE k # p
    BY <1>6, <2>1, <2>4
  <2> QED
    BY <2>3, <2>4
<1>10. ASSUME q.calm
       PROVE  Quiet(r)'
  <2>1. \A k \in Place : Pending(r, k)' <=> Pending(r, k) /\ (k = p => Standing(p))
    BY <1>6, <1>7 DEF Pending
  <2>2. req'[r].touched = {} /\ UnmetStand(r)'
    BY <1>1, <1>3, <1>4, <1>10 DEF Quiet, UnmetStand
  <2>3. req'[r].step = "record" => folders'[req'[r].to] = req'[r].inode
    BY <1>1, <1>3
  <2>4. RowsMet(r)'
    BY <1>1, <1>3, <1>4, <1>10, <2>1 DEF Quiet, RowsMet
  <2>5. FoldersMet(r)'
    BY <1>1, <1>3, <1>4, <1>10, <2>1 DEF Quiet, FoldersMet, InPlace, Standing
  <2> QED
    BY <2>2, <2>3, <2>4, <2>5 DEF Quiet
<1> QED
  BY <1>3, <1>8, <1>9, <1>10 DEF Scan, Early

(* A scan deals with a folder: the rows that had its inode number have     *)
(* been met; a list gives it a row if none has, a sync its place, too.     *)
LEMMA RecordedScan ==
  ASSUME DatasetsInv, NEW r \in Request, RecordFolder(r)
  PROVE  Scan(r)'
<1> DEFINE q == req[r]
<1>1. /\ q.step = "record" /\ UNCHANGED folders
      /\ req'[r] = Recorded(r)
      /\ SameRows /\ World'
  <2>1. SameRows /\ World'
    BY WorldKept DEF DatasetsInv, Step, Thread
  <2> QED
    BY <2>1 DEF DatasetsInv, Requests, RecordFolder, Go, Disturb, Recorded
<1>2. /\ req'[r].step = "scan" /\ req'[r].seen = Unmet(r, q.inode) /\ req'[r].op = q.op
      /\ req'[r].ws = q.ws /\ req'[r].areas = q.areas /\ req'[r].names = q.names
      /\ req'[r].calm = q.calm /\ req'[r].touched = q.touched
  BY <1>1, RecordedOK DEF DatasetsInv
<1>3. /\ ScanTyped(r) /\ UnmetToCome(r) /\ (q.calm => Quiet(r))
      /\ q.to \in Place /\ q.inode \in Inode /\ q.to.ws = q.ws /\ ~ToCome(r, q.to)
  BY <1>1 DEF DatasetsInv, Scan, Scanning, ScanTyped, Requests, RequestOK, HasTo
<1>4. \A d \in req'[r].seen : d \in q.seen /\ d.inode # q.inode
  BY <1>2 DEF Unmet, Matches
<1>5. \A p \in Place : /\ ToCome(r, p)' <=> ToCome(r, p)
                       /\ Recording(r, p) <=> p = q.to
                       /\ ~Recording(r, p)'
  BY <1>1, <1>2 DEF ToCome, Recording
<1>6. ScanTyped(r)'
  <2>1. ASSUME NEW d \in q.seen
        PROVE  d.id <= lastId' /\ \A row \in rows' : row.id = d.id => row.inode = d.inode
    <3>1. d.id \in Nat /\ d.id <= lastId /\ lastId \in Nat /\ lastId' \in Nat
      BY <1>1, <1>3, RequestAssumption DEF ScanTyped, DatasetsInv, Requests, RequestType, World,
         RowsOK, Ids
    <3>2. \A row \in rows' : row.id = d.id =>
            \E old \in rows : old.id = row.id /\ old.inode = row.inode
      BY <1>1, <3>1 DEF SameRows
    <3> QED
      BY <1>1, <1>3, <3>1, <3>2 DEF ScanTyped, SameRows
  <2> QED
    BY <1>2, <1>3, <1>4, <2>1 DEF ScanTyped
<1>7. UnmetToCome(r)'
  <2> SUFFICES ASSUME NEW d \in req'[r].seen, NEW p \in Place, p.ws = q.ws,
                      folders[p] = d.inode, d.inode \notin q.touched
               PROVE  ToCome(r, p)'
    BY <1>1, <1>2 DEF UnmetToCome
  <2>1. ToCome(r, p) \/ q.inode = d.inode
    BY <1>3, <1>4 DEF UnmetToCome
  <2> QED
    BY <1>4, <1>5, <2>1
<1>8. ASSUME q.calm
      PROVE  Quiet(r)'
  <2>1. Quiet(r) /\ folders[q.to] = q.inode /\ Standing(q.to)
    BY <1>1, <1>3, <1>8, PlaceAssumption DEF Quiet, Standing
  <2>2. /\ rows \subseteq [id : Ids, place : Place, inode : Inode]
        /\ \A a, b \in rows : a.id = b.id => a = b
        /\ \A p \in Place : folders[p] = folders[q.to] => p = q.to
    BY <1>3, <2>1 DEF DatasetsInv, World, RowsOK, FoldersOK, Standing
  <2>3. \A p \in Place : Pending(r, p)' <=> Pending(r, p) /\ p # q.to
    BY <1>3, <1>5 DEF Pending
  <2>4. \A d \in q.seen : \A row \in rows : row.id = d.id => row.inode = d.inode
    BY <1>3 DEF ScanTyped
  <2>5. \A d \in q.seen : d \in req'[r].seen \/ d.inode = q.inode
    BY <1>2 DEF Unmet, Matches
  <2>6. /\ \A row \in rows : \E new \in rows' : new.id = row.id /\ new.inode = row.inode
        /\ \A row \in rows : row.inode # q.inode => row \in rows'
        /\ \A new \in rows' : new \in rows \/ new.inode = q.inode
        /\ \E new \in rows' : new.inode = q.inode /\ InPlace(r, q.to, new)
    <3>1. CASE Matches(r, q.inode) = {}
      <4>1. Insert(q.to, q.inode)
        BY <1>1, <3>1 DEF RecordFolder
      <4>2. rows \subseteq rows' /\ \A new \in rows' : new \in rows \/ new.inode = q.inode
        BY <4>1 DEF Insert
      <4>3. CASE \E row \in rows : row.inode = q.inode
        <5>1. PICK row \in rows : row.inode = q.inode
          BY <4>3
        <5>2. rows' = rows
          BY <4>1, <4>3 DEF Insert
        <5>3. row.place.ws # q.ws
          <6> SUFFICES ASSUME row.place.ws = q.ws PROVE FALSE
            OBVIOUS
          <6>1. ~\E d \in q.seen : d.id = row.id
            BY <2>4, <3>1, <5>1 DEF Matches
          <6>2. PICK p \in Place : folders[p] = row.inode /\ ~Pending(r, p)
            BY <2>1, <6>1 DEF Quiet, RowsMet
          <6>3. p = q.to
            BY <2>1, <2>2, <5>1, <6>2
          <6> QED
            BY <1>5, <6>2, <6>3 DEF Pending
        <5>4. InPlace(r, q.to, row)
          BY <5>3 DEF InPlace
        <5> QED
          BY <4>2, <5>1, <5>2, <5>4
      <4>4. CASE \A row \in rows : row.inode # q.inode
        <5> DEFINE new == [id |-> lastId + 1, place |-> q.to, inode |-> q.inode]
        <5>1. rows' = rows \cup {new}
          BY <4>1, <4>4 DEF Insert
        <5>2. new.place = q.to /\ new.inode = q.inode
          OBVIOUS
        <5> HIDE DEF new
        <5>3. InPlace(r, q.to, new)
          BY <5>2 DEF InPlace
        <5> QED
          BY <4>2, <5>1, <5>2, <5>3
      <4> QED
        BY <4>3, <4>4
    <3>2. CASE Matches(r, q.inode) # {} /\ q.op = "list"
      <4>1. rows' = rows
        BY <1>1, <3>2 DEF RecordFolder
      <4>2. PICK d \in q.seen : d.inode = q.inode
        BY <3>2 DEF Matches
      <4>3. PICK row \in rows : row.inode = q.inode
        BY <2>1, <4>2 DEF Quiet, UnmetStand
      <4>4. InPlace(r, q.to, row)
        BY <3>2 DEF InPlace
      <4> QED
        BY <4>1, <4>3, <4>4
    <3>3. CASE Matches(r, q.inode) # {} /\ q.op # "list"
      <4>1. PICK d \in Matches(r, q.inode) : rows' = Placed(d.id, q.to)
        BY <1>1, <3>3 DEF RecordFolder
      <4>2. d \in q.seen /\ d.inode = q.inode
        BY <4>1 DEF Matches
      <4>3. \A row \in rows : row.id # d.id => row \in rows'
        BY <4>1 DEF Placed
      <4>4. \A new \in rows' : \E row \in rows :
              new = row \/ (row.id = d.id /\ new = [row EXCEPT !.place = q.to])
        BY <4>1 DEF Placed
      <4>5. PICK row \in rows : row.id = d.id /\ row.inode = d.inode
        BY <2>1, <4>2 DEF Quiet, UnmetStand
      <4> DEFINE new == [row EXCEPT !.place = q.to]
      <4>6. new \in rows'
        BY <4>1, <4>5 DEF Placed
      <4>7. new.id = row.id /\ new.inode = row.inode /\ new.place = q.to
        BY <2>2
      <4> HIDE DEF new
      <4>8. InPlace(r, q.to, new)
        BY <4>7 DEF InPlace
      <4>9. \A o \in rows : \E n \in rows' : n.id = o.id /\ n.inode = o.inode
        BY <2>2, <4>3, <4>5, <4>6, <4>7
      <4>10. \A o \in rows : o.inode # q.inode => o \in rows'
        BY <2>4, <4>2, <4>3
      <4>11. \A n \in rows' : n \in rows \/ n.inode = q.inode
        BY <2>2, <2>4, <4>2, <4>4
      <4> QED
        BY <4>2, <4>5, <4>6, <4>7, <4>8, <4>9, <4>10, <4>11
    <3> QED
      BY <3>1, <3>2, <3>3
  <2>7. UnmetStand(r)'
    BY <1>4, <2>1, <2>6 DEF Quiet, UnmetStand
  <2>8. RowsMet(r)'
    <3> SUFFICES ASSUME NEW new \in rows', new.place.ws = q.ws
                 PROVE  \/ \E d \in req'[r].seen : d.id = new.id
                        \/ \E p \in Place : p.ws = q.ws /\ folders[p] = new.inode /\ ~Pending(r, p)'
      BY <1>1, <1>2 DEF RowsMet
    <3>1. CASE new.inode = q.inode
      BY <1>3, <2>1, <2>3, <3>1
    <3>2. CASE new.inode # q.inode
      <4>1. new \in rows
        BY <2>6, <3>2
      <4>2. CASE \E d \in q.seen : d.id = new.id
        BY <2>4, <2>5, <3>2, <4>1, <4>2
      <4>3. CASE \E p \in Place : p.ws = q.ws /\ folders[p] = new.inode /\ ~Pending(r, p)
        BY <2>3, <4>3
      <4> QED
        BY <2>1, <4>1, <4>2, <4>3 DEF Quiet, RowsMet
    <3> QED
      BY <3>1, <3>2
  <2>9. FoldersMet(r)'
    <3> SUFFICES ASSUME NEW p \in Place, p.ws = q.ws, Standing(p), ~Pending(r, p)'
                 PROVE  \E new \in rows' : new.inode = folders[p] /\ InPlace(r, p, new)
      BY <1>1, <1>2 DEF FoldersMet, InPlace, Standing
    <3>1. CASE p = q.to
      BY <2>1, <2>6, <3>1
    <3>2. CASE p # q.to
      <4>1. PICK row \in rows : row.inode = folders[p] /\ InPlace(r, p, row)
        BY <2>1, <2>3, <3>2 DEF Quiet, FoldersMet
      <4>2. row.inode # q.inode
        BY <2>1, <2>2, <3>2, <4>1
      <4>3. row \in rows'
        BY <2>6, <4>1, <4>2
      <4> QED
        BY <4>1, <4>3
    <3> QED
      BY <3>1, <3>2
  <2> QED
    BY <1>2, <2>1, <2>7, <2>8, <2>9 DEF Quiet
<1> QED
  BY <1>2, <1>6, <1>7, <1>8 DEF Scan, Early

(* A request that is not scanning after its step has no scan to account    *)
(* for.                                                                    *)
LEMMA OwnScan ==
  ASSUME DatasetsInv, NEW r \in Request, Step(r)
  PROVE  Scan(r)'
<1> DEFINE q == req[r]
<1>1. q \in RequestType /\ RequestOK(q) /\ Scan(r)
  BY DEF DatasetsInv, Requests
<1>2. \A s : \A T : Go(r, s) \/ Disturb(r, s, T) => req'[r] = s
  BY DEF DatasetsInv, Requests, Go, Disturb
<1>3. ASSUME req'[r].step \notin {"scan", "record"}, req'[r].step \in Early => req'[r].names = {}
      PROVE  Scan(r)'
  BY <1>3 DEF Scan, Scanning
<1>4. CASE Opens(r)
  <2> DEFINE Begins == {"make", "delete", "mv", "read", "new"}
  <2>1. ASSUME NEW p \in Place, OpenCreate(r, p)
        PROVE  req'[r].step \in Begins /\ req'[r].names = {}
    BY <1>2, <2>1 DEF OpenCreate, Open, Idle
  <2>2. ASSUME NEW row \in rows, OpenRemove(r, row) \/ OpenSyncOne(r, row)
        PROVE  req'[r].step \in Begins /\ req'[r].names = {}
    BY <1>2, <2>2 DEF OpenRemove, OpenSyncOne, Open, Idle
  <2>3. ASSUME NEW row \in rows, NEW p \in Place, OpenMove(r, row, p)
        PROVE  req'[r].step \in Begins /\ req'[r].names = {}
    BY <1>2, <2>3 DEF OpenMove, Open, Idle
  <2>4. ASSUME NEW w \in Workspace, OpenList(r, w) \/ OpenSync(r, w)
        PROVE  req'[r].step \in Begins /\ req'[r].names = {}
    BY <1>2, <2>4 DEF OpenList, OpenSync, Open, Idle
  <2>5. req'[r].step \in Begins /\ req'[r].names = {}
    BY <1>4, <2>1, <2>2, <2>3, <2>4 DEF Opens
  <2> QED
    BY <1>3, <2>5
<1>5. CASE \/ InsertRow(r) \/ Clean(r) \/ RemoveFolder(r) \/ RemoveFails(r) \/ RenameRow(r)
           \/ EndRequest(r) \/ EndList(r)
  <2>1. req'[r] = Idle
    BY <1>2, <1>5 DEF InsertRow, Clean, RemoveFolder, RemoveFails, RenameRow, EndRequest, EndList
  <2> QED
    BY <1>3, <2>1, IdleOK DEF Early
<1>6. CASE \/ MakeFolder(r) \/ CountRaises(r) \/ DeleteRow(r) \/ MoveFolder(r) \/ CountOne(r)
           \/ WriteOne(r) \/ ScanRaises(r) \/ EndSync(r)
  <2>1. PICK at \in {"chunk", "register", "clean", "rmdir", "rename", "write", "end"} :
           req'[r] = [q EXCEPT !.step = at]
    BY <1>2, <1>6 DEF MakeFolder, CountRaises, DeleteRow, MoveFolder, CountOne, WriteOne,
       ScanRaises, EndSync
  <2>2. req'[r].step = at
    BY <1>1, <2>1 DEF RequestType
  <2> QED
    BY <1>3, <2>2 DEF Early
<1>7. CASE Register(r)
  <2>1. req'[r] = Idle \/ req'[r] = [q EXCEPT !.step = "insert", !.inode = folders[q.to]]
    BY <1>2, <1>7 DEF Register
  <2>2. req'[r].step \in {"none", "insert"}
    BY <1>1, <2>1, IdleOK DEF RequestType
  <2> QED
    BY <1>3, <2>2 DEF Early
<1>8. CASE Wait(r)
  <2>1. PICK at \in {"woken", "waiting"} : req'[r] = [q EXCEPT !.step = at]
    BY <1>2, <1>8 DEF Wait
  <2>2. req'[r].step = at /\ req'[r].names = q.names
    BY <1>1, <2>1 DEF RequestType
  <2>3. q.names = {}
    BY <1>1, <1>8 DEF Wait, Scan, Early
  <2> QED
    BY <1>3, <2>2, <2>3
<1>9. CASE SetEvent(r) \/ ClearEvent(r)
  <2>1. /\ req'[r].names = q.names /\ req'[r].areas = q.areas /\ req'[r].seen = q.seen
        /\ req'[r].to = q.to /\ req'[r].inode = q.inode /\ req'[r].ws = q.ws
        /\ req'[r].op = q.op /\ req'[r].calm = q.calm /\ req'[r].touched = q.touched
        /\ req'[r].step = q.step \/ (q.step = "waiting" /\ req'[r].step = "woken")
    <3>1. CASE SetEvent(r)
      <4>1. \E h : req'[r] = [q EXCEPT !.event = TRUE, !.hand = h,
                                       !.step = IF @ = "waiting" THEN "woken" ELSE @]
        BY <1>2, <3>1 DEF SetEvent
      <4> QED
        BY <1>1, <4>1 DEF RequestType
    <3>2. CASE ClearEvent(r)
      <4>1. req'[r] = [q EXCEPT !.event = FALSE, !.hand = "ok"]
        BY <1>2, <3>2 DEF ClearEvent
      <4> QED
        BY <1>1, <4>1 DEF RequestType
    <3> QED
      BY <1>9, <3>1, <3>2
  <2>2. UNCHANGED <<folders, rows, lastId>>
    BY <1>9 DEF SetEvent, ClearEvent
  <2>3. CASE q.step = "waiting"
    <3>1. req'[r].names = {} /\ req'[r].step \notin {"scan", "record"}
      BY <1>1, <2>1, <2>3 DEF Scan, Early
    <3> QED
      BY <1>3, <3>1
  <2>4. CASE q.step # "waiting"
    <3>1. req'[r].step = q.step
      BY <2>1, <2>4
    <3> QED
      BY <1>1, <2>1, <2>2, <3>1 DEF Scan, Scanning, ScanTyped, UnmetToCome, Quiet, UnmetStand,
         RowsMet, FoldersMet, Recording, ToCome, Pending, InPlace, Standing
  <2> QED
    BY <2>3, <2>4
<1>10. CASE ReadRows(r) \/ ListArea(r) \/ StatFolder(r) \/ RecordFolder(r)
  BY <1>10, BegunScan, AreaScan, FolderScan, RecordedScan
<1> QED
  BY <1>4, <1>5, <1>6, <1>7, <1>8, <1>9, <1>10 DEF Step, Handler, Thread

------------------------------------------------------------------------------

(* The inductive invariant: types and keys, and of every scan what it has  *)
(* dealt with and what it has still to come to.                            *)
THEOREM DatasetsInvariant == Spec => []DatasetsInv
<1>1. ASSUME DatasetsInv, [Next]_vars
      PROVE  DatasetsInv'
  <2>1. ASSUME NEW r \in Request, Step(r)
        PROVE  DatasetsInv'
    <3>1. PICK s : \E T \in SUBSET (Inode \cup {None}) : RequestOK(s) /\ MovedOn(r, s, T)
      BY <1>1, <2>1, StepLeaves DEF DatasetsInv, Leaves
    <3>2. Requests'
      BY <1>1, <3>1, MovesOn DEF DatasetsInv, MovedOn
    <3> QED
      BY <1>1, <2>1, <3>2, WorldKept, OthersScan, OwnScan DEF DatasetsInv
  <2>2. CASE UNCHANGED vars
    BY <1>1, <2>2 DEF vars, DatasetsInv, World, FoldersOK, RowsOK, Requests, Scan, Scanning,
       ScanTyped, UnmetToCome, Quiet, UnmetStand, RowsMet, FoldersMet, Recording, ToCome,
       Pending, InPlace, Standing
  <2> QED
    BY <1>1, <2>1, <2>2 DEF Next, Step
<1> QED
  BY <1>1, InitDatasets, PTL DEF Spec

(* Rows and folders keep their types and their keys: whatever handlers and *)
(* scans race, no id and no inode number has two rows.                     *)
THEOREM DatasetsTyped == Spec => []TypeOK
<1>1. DatasetsInv => TypeOK
  BY DEF DatasetsInv, World, FoldersOK, RowsOK, Requests, RequestOK, TypeOK
<1> QED
  BY <1>1, DatasetsInvariant, PTL

(* A list forgets no dataset whose folder stands untouched.                *)
THEOREM OnlyTouchedForgotten == Spec => ListForgetsOnlyTouched
<1> DEFINE Forgets ==
      \A r \in Request : EndList(r) =>
        \A row \in rows \ rows' : \A p \in Place :
          p.ws = req[r].ws /\ folders[p] = row.inode
            => row.inode \in req[r].touched
<1>1. DatasetsInv => Forgets
  <2> SUFFICES ASSUME DatasetsInv, NEW r \in Request, EndList(r),
                      NEW row \in rows \ rows', NEW p \in Place,
                      p.ws = req[r].ws, folders[p] = row.inode
               PROVE  row.inode \in req[r].touched
    OBVIOUS
  <2>1. req[r].step = "scan" /\ req[r].areas = {} /\ req[r].names = {}
    BY DEF EndList, Scanned
  <2>2. PICK d \in req[r].seen : d.id = row.id
    BY DEF EndList, Forgotten
  <2>3. ScanTyped(r) /\ UnmetToCome(r)
    BY <2>1 DEF DatasetsInv, Scan, Scanning
  <2>4. d.inode = row.inode
    BY <2>2, <2>3 DEF ScanTyped
  <2> QED
    BY <2>1, <2>3, <2>4 DEF UnmetToCome, ToCome, Recording
<1> QED
  BY <1>1, DatasetsInvariant, PTL DEF ListForgetsOnlyTouched

(* A list nothing disturbs brings rows and folders of its workspace        *)
(* together.                                                               *)
THEOREM ListSettles == Spec => QuietListSettles
<1> DEFINE Settles ==
      \A r \in Request : EndList(r) /\ req[r].calm =>
        LET w == req[r].ws
            There == {folders[p] : p \in {q \in Place : q.ws = w}} \ {None}
        IN /\ There \subseteq {row.inode : row \in rows'}
           /\ \A row \in rows' : row.place.ws = w => row.inode \in There
<1>1. DatasetsInv => Settles
  <2> SUFFICES ASSUME DatasetsInv, NEW r \in Request, EndList(r), req[r].calm
               PROVE  /\ \A p \in Place : p.ws = req[r].ws /\ folders[p] # None =>
                           \E row \in rows' : row.inode = folders[p]
                      /\ \A row \in rows' : row.place.ws = req[r].ws =>
                           row.inode # None /\ \E p \in Place : p.ws = req[r].ws /\ folders[p] = row.inode
    OBVIOUS
  <2>1. req[r].step = "scan" /\ req[r].areas = {} /\ req[r].names = {}
    BY DEF EndList, Scanned
  <2>2. ScanTyped(r) /\ UnmetToCome(r) /\ Quiet(r)
    BY <2>1 DEF DatasetsInv, Scan, Scanning
  <2>3. \A p \in Place : ~Pending(r, p) /\ ~ToCome(r, p) /\ ~Recording(r, p)
    BY <2>1 DEF Pending, ToCome, Recording
  <2>4. rows' = {row \in rows : \A d \in req[r].seen : d.id # row.id}
    BY DEF EndList, Forgotten
  <2>5. ASSUME NEW p \in Place, p.ws = req[r].ws, folders[p] # None
        PROVE  \E row \in rows' : row.inode = folders[p]
    <3>1. PICK row \in rows : row.inode = folders[p]
      BY <2>2, <2>3, <2>5 DEF Quiet, FoldersMet, Standing
    <3>2. \A d \in req[r].seen : d.id # row.id
      BY <2>2, <2>3, <2>5, <3>1 DEF UnmetToCome, Quiet, ScanTyped
    <3> QED
      BY <2>4, <3>1, <3>2
  <2>6. ASSUME NEW row \in rows', row.place.ws = req[r].ws
        PROVE  row.inode # None /\ \E p \in Place : p.ws = req[r].ws /\ folders[p] = row.inode
    <3>1. row \in rows /\ row.inode \in Inode
      BY <2>4 DEF DatasetsInv, World, RowsOK
    <3> QED
      BY <2>2, <2>4, <2>6, <3>1, PlaceAssumption DEF Quiet, RowsMet
  <2> QED
    BY <2>5, <2>6
<1> QED
  BY <1>1, DatasetsInvariant, PTL DEF QuietListSettles

(* A sync nothing disturbs leaves every row of its workspace at the place  *)
(* of its folder.                                                          *)
THEOREM SyncAligns == Spec => QuietSyncAligns
<1> DEFINE Aligns ==
      \A r \in Request : EndSync(r) /\ req[r].calm =>
        \A p \in Place : p.ws = req[r].ws /\ Standing(p) =>
          \E row \in rows : /\ row.inode = folders[p]
                             /\ row.place.ws = p.ws => row.place = p
<1>1. DatasetsInv => Aligns
  <2> SUFFICES ASSUME DatasetsInv, NEW r \in Request, EndSync(r), req[r].calm,
                      NEW p \in Place, p.ws = req[r].ws, Standing(p)
               PROVE  \E row \in rows : /\ row.inode = folders[p]
                                        /\ row.place.ws = p.ws => row.place = p
    OBVIOUS
  <2>1. req[r].step = "scan" /\ req[r].areas = {} /\ req[r].names = {} /\ req[r].op = "sync"
    BY DEF EndSync, Scanned
  <2>2. Quiet(r) /\ ~Pending(r, p)
    BY <2>1 DEF DatasetsInv, Scan, Scanning, Pending, ToCome, Recording
  <2> QED
    BY <2>1, <2>2 DEF Quiet, FoldersMet, InPlace
<1> QED
  BY <1>1, DatasetsInvariant, PTL DEF QuietSyncAligns
==============================================================================
