------------------------- MODULE InstantStartProofs -------------------------
(***************************************************************************)
(* Theorems about InstantStart for any number of tools, deployments, nodes,*)
(* processes, requests and faults.                                         *)
(***************************************************************************)
EXTENDS InstantStart, PlacementProofs, TLAPS

------------------------------------------------------------------------------
(* The records of requests and lists, when the cluster is at revision n    *)

IsList(L, n) == \E v, S : v \in 0 .. n /\ L = [version |-> v, pods |-> S]

StartPcs == {"admit", "check", "create"}
StopPcs == {"list", "remove", "unserve", "delete_row", "delete"}
StartOps == {"start_tool", "add_worker"}

Starts(q) ==
  \E at, op, i, S : /\ at \in StartPcs /\ op \in StartOps
                    /\ q = [pc |-> at, op |-> op, item |-> i, place |-> S]
Refreshes(q, n) ==
  \E at, op, i, L : /\ at \in RefreshPcs \cup {"delete_row"} /\ IsList(L, n)
                    /\ q = [pc |-> at, op |-> op, item |-> i, list |-> L]
Stops(q) ==
  \E at, op, i, t, S, b, e :
    /\ at \in StopPcs
    /\ q = [pc |-> at, op |-> op, item |-> i, target |-> t, found |-> S, served |-> b,
            spared |-> e]
RequestOK(q, n) == q = NoRequest \/ Starts(q) \/ Refreshes(q, n) \/ Stops(q)

TickRefreshes(x, n) ==
  \E at, L : at \in RefreshPcs /\ IsList(L, n) /\ x = [pc |-> at, list |-> L]
TickOK(x, n) == x = NoTick \/ TickRefreshes(x, n)

(* Where the holder of the lock is.                                        *)
Holding(q) == q.pc \in {"check", "create"} \cup RefreshPcs

Control ==
  /\ revision \in Nat
  /\ version \in 0 .. revision
  /\ IsList(bytes, revision)
  /\ memory = [r \in Request |-> memory[r]]
  /\ \A r \in Request : IsList(memory[r], revision)
  /\ TickOK(tick, revision)
  /\ tick.pc # "none" <=> lock = Scheduler
  /\ req = [r \in Request |-> req[r]]
  /\ \A r \in Request : RequestOK(req[r], revision)
  /\ lock \in Request \cup {NoLock, Scheduler}
  /\ \A r \in Request : lock = r => Holding(req[r])
  /\ \A r \in Request : req[r].pc = "create" => lock = r
  /\ missed \in BOOLEAN

------------------------------------------------------------------------------
(* What the lists hold                                                     *)

Creating(pcs) == \E r \in Request : lock = r /\ req[r].pc \in pcs

(* Every list from revision c on has every pod.                            *)
Fits(L, c) == L.version >= c => pods \subseteq L.pods
ListsFit(c) ==
  /\ Fits(bytes, c)
  /\ \A r \in Request : Fits(memory[r], c)
  /\ tick.pc = "write" => Fits(tick.list, c)
  /\ \A r \in Request : req[r].pc = "write" => Fits(req[r].list, c)

(* No older list is shared any more, or will be.                           *)
ListsRecent(c) ==
  /\ tick.pc \in {"write", "publish"} => tick.list.version >= c
  /\ \A r \in Request :
       req[r].pc \in {"write", "publish"} => req[r].list.version >= c
  /\ ~Creating({"ask", "write"}) => bytes.version >= c
  /\ ~Creating(RefreshPcs) => version >= c

Covered(c) == c <= revision /\ ListsFit(c) /\ (~missed => ListsRecent(c))

ListInv == Control /\ \E c \in Nat : Covered(c)

------------------------------------------------------------------------------
(* A list of some revision is one of a later revision, too.                *)
LEMMA Later ==
  ASSUME NEW m \in Nat, NEW n \in Nat, m <= n
  PROVE  /\ \A L : IsList(L, m) => IsList(L, n)
         /\ \A q : RequestOK(q, m) => RequestOK(q, n)
         /\ \A x : TickOK(x, m) => TickOK(x, n)
<1>1. \A L : IsList(L, m) => IsList(L, n)
  BY DEF IsList
<1>2. \A q : Refreshes(q, m) => Refreshes(q, n)
  BY <1>1, Zenon DEF Refreshes
<1>3. \A x : TickRefreshes(x, m) => TickRefreshes(x, n)
  BY <1>1, Zenon DEF TickRefreshes
<1> QED
  BY <1>1, <1>2, <1>3 DEF RequestOK, TickOK

(* An empty cluster is listed by everybody.                                *)
LEMMA InitListed == Init => ListInv
<1> SUFFICES ASSUME Init PROVE ListInv
  OBVIOUS
<1>1. IsList(Empty, 0)
  <2>1. 0 \in 0 .. 0 /\ Empty = [version |-> 0, pods |-> {}]
    BY DEF Empty
  <2> QED
    BY <2>1, Zenon DEF IsList
<1>2. Control
  <2>1. \A r \in Request : req[r] = NoRequest /\ NoRequest.pc = "none"
    BY DEF Init, NoRequest
  <2>2. \A r \in Request : RequestOK(req[r], 0) /\ req[r].pc = "none"
    BY <2>1 DEF RequestOK
  <2>3. TickOK(tick, 0) /\ tick.pc = "none"
    BY DEF Init, TickOK, NoTick
  <2>4. lock = NoLock /\ lock # Scheduler /\ lock \notin Request /\ missed \in BOOLEAN
    BY InstantStartAssumption DEF Init, NoLock, Scheduler
  <2> QED
    BY <1>1, <2>2, <2>3, <2>4 DEF Init, Control
<1>3. Covered(0)
  BY DEF Init, Covered, ListsFit, ListsRecent, Fits, Empty, NoRequest, NoTick, Creating
<1> QED
  BY <1>2, <1>3 DEF ListInv

(* A step that makes no pod and does not refresh takes nothing out of any  *)
(* list that is there.                                                     *)
Plain(r, q) ==
  /\ req' = [req EXCEPT ![r] = q]
  /\ req[r].pc \notin RefreshPcs
  /\ q.pc \notin {"write", "publish"}
  /\ lock' = r => Holding(q) /\ q.pc \notin RefreshPcs
  /\ q.pc = "create" => lock' = r
  /\ \/ lock' = lock
     \/ lock \in {NoLock, r} /\ lock' \in {NoLock, r}
  /\ pods' \subseteq pods /\ revision' \in {revision, revision + 1}
  /\ Read(r) \/ UNCHANGED memory
  /\ UNCHANGED <<bytes, version, tick, missed>>

(* A step that changes no list keeps the invariant of the lists.           *)
LEMMA PlainKeeps ==
  ASSUME ListInv, NEW r \in Request, NEW q, RequestOK(q, revision), Plain(r, q)
  PROVE  ListInv'
<1>1. Control /\ revision' \in Nat /\ revision' >= revision
  BY DEF ListInv, Control, Plain
<1>2. /\ \A L : IsList(L, revision) => IsList(L, revision')
      /\ \A s : RequestOK(s, revision) => RequestOK(s, revision')
      /\ \A x : TickOK(x, revision) => TickOK(x, revision')
  BY <1>1, Later DEF Control
<1>3. /\ memory' = [x \in Request |-> memory'[x]]
      /\ \A x \in Request : memory'[x] \in {memory[x], bytes}
  BY <1>1 DEF Control, Plain, Read, View
<1>4. /\ req' = [x \in Request |-> req'[x]]
      /\ req'[r] = q /\ \A x \in Request : x # r => req'[x] = req[x]
  BY <1>1 DEF Control, Plain
<1>5. Control'
  <2>1. \A x \in Request : IsList(memory'[x], revision')
    BY <1>1, <1>2, <1>3 DEF Control
  <2>2. \A x \in Request : RequestOK(req'[x], revision')
    BY <1>1, <1>2, <1>4 DEF Control
  <2>3. IsList(bytes', revision') /\ TickOK(tick', revision') /\ version' \in 0 .. revision'
    BY <1>1, <1>2 DEF Control, Plain
  <2>4. /\ lock' \in Request \cup {NoLock, Scheduler}
        /\ lock' = Scheduler <=> lock = Scheduler
    BY <1>1, InstantStartAssumption DEF Control, Plain, NoLock, Scheduler
  <2>5. \A x \in Request : lock' = x => Holding(req'[x])
    BY <1>1, <1>4, InstantStartAssumption DEF Control, Plain, Holding, NoLock, Scheduler
  <2>6. \A x \in Request : req'[x].pc = "create" => lock' = x
    BY <1>1, <1>4, InstantStartAssumption DEF Control, Plain, NoLock, Scheduler
  <2> QED
    BY <1>1, <1>3, <1>4, <2>1, <2>2, <2>3, <2>4, <2>5, <2>6 DEF Control, Plain
<1>6. PICK c \in Nat : Covered(c)
  BY DEF ListInv
<1>7. ListsFit(c)'
  BY <1>3, <1>4, <1>6 DEF Plain, Covered, ListsFit, Fits
<1>8. \A S \in SUBSET RefreshPcs : Creating(S)' <=> Creating(S)
  <2>1. \A x \in Request : lock' = x /\ req'[x].pc \in RefreshPcs
                            <=> lock = x /\ req[x].pc \in RefreshPcs
    BY <1>4, InstantStartAssumption DEF Plain, NoLock
  <2>2. \A x \in Request : lock = x /\ req[x].pc \in RefreshPcs => x # r /\ req'[x] = req[x]
    BY <1>4 DEF Plain
  <2> QED
    BY <2>1, <2>2 DEF Creating
<1>9. ~missed' => ListsRecent(c)'
  BY <1>4, <1>6, <1>8 DEF Plain, Covered, ListsRecent, RefreshPcs
<1>10. Covered(c)'
  BY <1>1, <1>6, <1>7, <1>9 DEF Covered, Control
<1> QED
  BY <1>5, <1>6, <1>10 DEF ListInv

------------------------------------------------------------------------------
(* Refreshes                                                               *)

(* A refresh of a request x or of the scheduler: what was listed is what   *)
(* there is, and stays what it was until it is shared.                     *)
LEMMA AnsweredList == Control => IsList([version |-> revision, pods |-> pods], revision)
<1> SUFFICES ASSUME Control
             PROVE  IsList([version |-> revision, pods |-> pods], revision)
  OBVIOUS
<1>1. revision \in 0 .. revision
  BY DEF Control
<1> QED
  BY <1>1, Zenon DEF IsList

(* The list of a request in a refresh.                                     *)
LEMMA RefreshList ==
  ASSUME Control, NEW r \in Request, req[r].pc \in RefreshPcs
  PROVE  /\ IsList(req[r].list, revision)
         /\ req[r] = [pc |-> req[r].pc, op |-> req[r].op, item |-> req[r].item,
                      list |-> req[r].list]
BY DEF Control, RequestOK, Starts, Stops, Refreshes, NoRequest, RefreshPcs, StartPcs, StopPcs

(* The list of the scheduler's refresh.                                    *)
LEMMA TickList ==
  ASSUME Control, lock = Scheduler
  PROVE  /\ tick.pc \in RefreshPcs
         /\ IsList(tick.list, revision)
         /\ tick = [pc |-> tick.pc, list |-> tick.list]
BY DEF Control, TickOK, TickRefreshes, NoTick, RefreshPcs

(* A list that was shared keeps its version.                               *)
LEMMA WrittenList ==
  ASSUME NEW n \in Nat, NEW L, IsList(L, n)
  PROVE  /\ L.version \in 0 .. n
         /\ [L EXCEPT !.pods = {}].version = L.version
         /\ IsList([L EXCEPT !.pods = {}], n)
<1>1. PICK v, S : v \in 0 .. n /\ L = [version |-> v, pods |-> S]
  BY DEF IsList
<1>2. [L EXCEPT !.pods = {}] = [version |-> v, pods |-> {}]
  BY <1>1
<1>3. IsList([L EXCEPT !.pods = {}], n)
  BY <1>1, <1>2, Zenon DEF IsList
<1> QED
  BY <1>1, <1>2, <1>3

(* The scheduler's refresh, under the lock.                                *)
LEMMA TickKeeps ==
  ASSUME ListInv, Tick
  PROVE  ListInv'
<1>1. Control
  BY DEF ListInv
<1>2. PICK c \in Nat : Covered(c)
  BY DEF ListInv
<1>3. UNCHANGED <<pods, revision, memory, req, missed>>
  BY DEF Tick, TickStart, TickRefresh, TickEnd, cluster
<1>4. \A x \in Request : lock # x /\ lock' # x
  BY InstantStartAssumption DEF Tick, TickStart, TickRefresh, TickEnd, LockFree, NoLock, Scheduler
<1>5. \A S : ~Creating(S) /\ ~Creating(S)'
  BY <1>4 DEF Creating
<1>6. \A r \in Request : req[r].pc # "create"
  BY <1>1, <1>4 DEF Control
<1>7. c <= revision /\ revision \in Nat
  BY <1>1, <1>2 DEF Control, Covered
<1>8. CASE TickStart
  <2>1. tick' = [pc |-> "ask", list |-> Empty] /\ lock' = Scheduler
        /\ UNCHANGED <<bytes, version>>
    BY <1>8 DEF TickStart, Asked, share
  <2>2. IsList(Empty, revision)
    <3>1. 0 \in 0 .. revision /\ Empty = [version |-> 0, pods |-> {}]
      BY <1>7 DEF Empty
    <3> QED
      BY <3>1, Zenon DEF IsList
  <2>3. TickOK(tick', revision)
    BY <2>1, <2>2, Zenon DEF TickOK, TickRefreshes, RefreshPcs
  <2>4. Control'
    BY <1>1, <1>3, <1>4, <1>6, <2>1, <2>3 DEF Control
  <2>5. Covered(c)'
    BY <1>2, <1>3, <1>5, <2>1 DEF Covered, ListsFit, ListsRecent, Fits
  <2> QED
    BY <2>4, <2>5 DEF ListInv
<1>9. CASE TickRefresh
  <2>1. lock = Scheduler /\ lock' = Scheduler /\ version' = version
    BY <1>9 DEF TickRefresh
  <2>2. /\ IsList(tick.list, revision) /\ tick = [pc |-> tick.pc, list |-> tick.list]
    BY <1>1, <2>1, TickList
  <2>3. CASE tick.pc = "ask" /\ tick' = Answered(tick) /\ UNCHANGED bytes
    <3> DEFINE L == [version |-> revision, pods |-> pods]
    <3>1. tick' = [pc |-> "write", list |-> L]
      BY <2>2, <2>3 DEF Answered
    <3>2. IsList(L, revision)
      BY <1>1, AnsweredList
    <3>3. TickOK(tick', revision)
      BY <3>1, <3>2, Zenon DEF TickOK, TickRefreshes, RefreshPcs
    <3>4. Control'
      BY <1>1, <1>3, <1>4, <1>6, <2>1, <2>3, <3>1, <3>3 DEF Control
    <3>5. tick'.pc = "write" /\ tick'.list.version = revision /\ tick'.list.pods = pods
      BY <3>1
    <3>6. Covered(c)'
      BY <1>2, <1>3, <1>5, <1>7, <2>1, <2>3, <3>5 DEF Covered, ListsFit, ListsRecent, Fits
    <3> QED
      BY <3>4, <3>6 DEF ListInv
  <2>4. CASE tick.pc = "write" /\ tick' = Written(tick) /\ bytes' = tick.list
    <3> DEFINE L == [tick.list EXCEPT !.pods = {}]
    <3>1. tick' = [pc |-> "publish", list |-> L]
      BY <2>2, <2>4 DEF Written
    <3>2. IsList(L, revision) /\ L.version = tick.list.version
      BY <1>7, <2>2, WrittenList
    <3> HIDE DEF L
    <3>3. TickOK(tick', revision)
      BY <3>1, <3>2, Zenon DEF TickOK, TickRefreshes, RefreshPcs
    <3>4. Control'
      BY <1>1, <1>3, <1>4, <1>6, <2>1, <2>2, <2>4, <3>1, <3>3 DEF Control
    <3>5. tick'.pc = "publish" /\ tick'.list.version = bytes'.version
      BY <2>4, <3>1, <3>2
    <3>6. Covered(c)'
      BY <1>2, <1>3, <1>5, <2>1, <2>4, <3>5 DEF Covered, ListsFit, ListsRecent, Fits
    <3> QED
      BY <3>4, <3>6 DEF ListInv
  <2> QED
    BY <1>9, <2>3, <2>4 DEF TickRefresh
<1>10. CASE TickEnd
  <2>1. lock = Scheduler /\ lock' = NoLock /\ tick' = NoTick /\ UNCHANGED bytes
    BY <1>10 DEF TickEnd
  <2>2. \/ tick.pc = "publish" /\ version' = tick.list.version
        \/ UNCHANGED version
    BY <1>10 DEF TickEnd
  <2>3. tick.list.version \in 0 .. revision
    BY <1>1, <1>7, <2>1, TickList, WrittenList
  <2>4. Control'
    BY <1>1, <1>3, <1>4, <1>6, <2>1, <2>2, <2>3 DEF Control, TickOK, NoTick, NoLock, Scheduler
  <2>5. Covered(c)'
    BY <1>2, <1>3, <1>5, <2>1, <2>2
       DEF Covered, ListsFit, ListsRecent, Fits, NoTick
  <2> QED
    BY <2>4, <2>5 DEF ListInv
<1> QED
  BY <1>8, <1>9, <1>10 DEF Tick

(* The refresh of a request: of a creator, under the lock, or of a stop.   *)
LEMMA RefreshKeeps ==
  ASSUME ListInv, NEW r \in Request, Refresh(r)
  PROVE  ListInv'
<1>1. Control /\ req[r].pc \in RefreshPcs
  BY DEF ListInv, Refresh
<1>2. PICK c \in Nat : Covered(c)
  BY DEF ListInv
<1>3. UNCHANGED <<pods, revision, version, memory, lock, tick, missed>>
  BY DEF Refresh, cluster
<1>4. c <= revision /\ revision \in Nat
  BY <1>1, <1>2 DEF Control, Covered
<1>5. /\ IsList(req[r].list, revision)
      /\ req[r] = [pc |-> req[r].pc, op |-> req[r].op, item |-> req[r].item,
                   list |-> req[r].list]
  BY <1>1, RefreshList
<1>6. ASSUME NEW q, Become(r, q)
      PROVE  /\ req' = [x \in Request |-> req'[x]]
             /\ req'[r] = q /\ \A x \in Request : x # r => req'[x] = req[x]
  BY <1>1, <1>6 DEF Control, Become
<1>7. CASE req[r].pc = "ask" /\ Become(r, Answered(req[r])) /\ UNCHANGED bytes
  <2> DEFINE L == [version |-> revision, pods |-> pods]
             q == [pc |-> "write", op |-> req[r].op, item |-> req[r].item, list |-> L]
  <2>1. Become(r, q)
    <3>1. PICK at, op, i, K : req[r] = [pc |-> at, op |-> op, item |-> i, list |-> K]
      BY <1>5, Zenon
    <3>2. Answered(req[r]) = [pc |-> "write", op |-> op, item |-> i, list |-> L]
      <4>1. [req[r] EXCEPT !.pc = "write"] = [pc |-> "write", op |-> op, item |-> i, list |-> K]
        BY <3>1
      <4>2. K = req[r].list
        BY <3>1
      <4>3. Answered(req[r]) = [[pc |-> "write", op |-> op, item |-> i, list |-> K] EXCEPT !.list = L]
        BY <4>1, <4>2 DEF Answered
      <4> QED
        BY <4>3
    <3>3. req[r].op = op /\ req[r].item = i
      BY <3>1
    <3> QED
      BY <1>7, <3>2, <3>3
  <2>2. RequestOK(q, revision)
    <3>1. IsList(L, revision)
      BY <1>1, AnsweredList
    <3> QED
      BY <3>1, Zenon DEF RequestOK, Refreshes, RefreshPcs
  <2>3. q.pc = "write" /\ q.list.version = revision /\ q.list.pods = pods
    OBVIOUS
  <2> HIDE DEF L, q
  <2>4. /\ req' = [x \in Request |-> req'[x]]
        /\ req'[r] = q /\ \A x \in Request : x # r => req'[x] = req[x]
    BY <1>6, <2>1
  <2>5. Control'
    BY <1>1, <1>3, <1>7, <2>2, <2>3, <2>4 DEF Control, Holding, RefreshPcs
  <2>6. \A S \in {{"ask", "write"}, RefreshPcs} : Creating(S)' <=> Creating(S)
    BY <1>1, <1>3, <1>7, <2>3, <2>4 DEF Creating, RefreshPcs
  <2>7. ListsFit(c)'
    BY <1>2, <1>3, <1>7, <2>3, <2>4 DEF Covered, ListsFit, Fits
  <2>8. ~missed => ListsRecent(c)'
    BY <1>2, <1>3, <1>4, <1>7, <2>3, <2>4, <2>6 DEF Covered, ListsRecent
  <2> QED
    BY <1>3, <1>4, <2>5, <2>7, <2>8 DEF ListInv, Covered
<1>8. CASE req[r].pc = "write" /\ Become(r, Written(req[r])) /\ bytes' = req[r].list
  <2> DEFINE L == [req[r].list EXCEPT !.pods = {}]
             q == [pc |-> "publish", op |-> req[r].op, item |-> req[r].item, list |-> L]
  <2>1. Become(r, q)
    <3>1. PICK at, op, i, K : req[r] = [pc |-> at, op |-> op, item |-> i, list |-> K]
      BY <1>5, Zenon
    <3>2. Written(req[r]) = [pc |-> "publish", op |-> op, item |-> i, list |-> L]
      <4>1. [req[r] EXCEPT !.pc = "publish"] = [pc |-> "publish", op |-> op, item |-> i, list |-> K]
        BY <3>1
      <4>2. K = req[r].list
        BY <3>1
      <4>3. Written(req[r]) = [[pc |-> "publish", op |-> op, item |-> i, list |-> K] EXCEPT !.list = L]
        BY <4>1, <4>2 DEF Written
      <4> QED
        BY <4>3
    <3>3. req[r].op = op /\ req[r].item = i
      BY <3>1
    <3> QED
      BY <1>8, <3>2, <3>3
  <2>2. IsList(L, revision) /\ L.version = req[r].list.version
    BY <1>4, <1>5, WrittenList
  <2>3. RequestOK(q, revision)
    BY <2>2, Zenon DEF RequestOK, Refreshes, RefreshPcs
  <2>4. q.pc = "publish" /\ q.list = L
    OBVIOUS
  <2> HIDE DEF L, q
  <2>5. /\ req' = [x \in Request |-> req'[x]]
        /\ req'[r] = q /\ \A x \in Request : x # r => req'[x] = req[x]
    BY <1>6, <2>1
  <2>6. Control'
    BY <1>1, <1>3, <1>5, <1>8, <2>3, <2>4, <2>5 DEF Control, Holding, RefreshPcs
  <2>7. Creating(RefreshPcs)' <=> Creating(RefreshPcs)
    BY <1>1, <1>3, <1>8, <2>4, <2>5 DEF Creating, RefreshPcs
  <2>8. ListsFit(c)'
    BY <1>2, <1>3, <1>8, <2>4, <2>5 DEF Covered, ListsFit, Fits
  <2>9. ~missed => ListsRecent(c)'
    BY <1>2, <1>3, <1>8, <2>2, <2>4, <2>5, <2>7 DEF Covered, ListsRecent
  <2> QED
    BY <1>3, <1>4, <2>6, <2>8, <2>9 DEF ListInv, Covered
<1> QED
  BY <1>7, <1>8 DEF Refresh

(* A refresh of a request ends, and with it the request or its lock.       *)
LEMMA EndRefreshKeeps ==
  ASSUME ListInv, NEW r \in Request, EndRefresh(r)
  PROVE  ListInv'
<1>1. Control /\ req[r].pc \in RefreshPcs
  BY DEF ListInv, EndRefresh
<1>2. PICK c \in Nat : Covered(c)
  BY DEF ListInv
<1>3. UNCHANGED <<pods, revision, bytes, memory, tick>>
  BY DEF EndRefresh, cluster
<1>4. c <= revision /\ revision \in Nat
  BY <1>1, <1>2 DEF Control, Covered
<1>5. /\ IsList(req[r].list, revision)
      /\ req[r] = [pc |-> req[r].pc, op |-> req[r].op, item |-> req[r].item,
                   list |-> req[r].list]
  BY <1>1, RefreshList
<1>6. req[r].list.version \in 0 .. revision
  BY <1>4, <1>5, WrittenList
<1>7. PICK q : Become(r, q) /\ RequestOK(q, revision) /\ q.pc \in {"none", "delete_row"}
  <2> DEFINE row == [pc |-> "delete_row", op |-> req[r].op, item |-> req[r].item,
                     list |-> req[r].list]
  <2>1. RequestOK(row, revision) /\ row.pc = "delete_row"
    BY <1>5, Zenon DEF RequestOK, Refreshes, RefreshPcs
  <2>2. Goto(r, "delete_row") => Become(r, row)
    BY <1>5 DEF Goto
  <2>3. RequestOK(NoRequest, revision) /\ NoRequest.pc = "none"
    BY DEF RequestOK, NoRequest
  <2> HIDE DEF row
  <2> QED
    BY <2>1, <2>2, <2>3 DEF EndRefresh, Answer
<1>8. /\ req' = [x \in Request |-> req'[x]]
      /\ req'[r] = q /\ \A x \in Request : x # r => req'[x] = req[x]
  BY <1>1, <1>7 DEF Control, Become
<1>9. lock' = (IF lock = r THEN NoLock ELSE lock)
  BY DEF EndRefresh
<1>10. \/ req[r].pc = "publish" /\ version' = req[r].list.version /\ missed' = missed
       \/ version' = version /\ missed' = (missed \/ lock = r)
  BY DEF EndRefresh
<1>11. Control'
  BY <1>1, <1>3, <1>4, <1>6, <1>7, <1>8, <1>9, <1>10, InstantStartAssumption
     DEF Control, Holding, RefreshPcs, NoLock, Scheduler
<1>12. ListsFit(c)'
  BY <1>2, <1>3, <1>7, <1>8 DEF Covered, ListsFit, Fits
<1>13. ASSUME ~missed'
       PROVE  ListsRecent(c)'
  <2>1. ~missed /\ ListsRecent(c)
    BY <1>1, <1>2, <1>10, <1>13 DEF Covered, Control
  <2>2. lock = r => req[r].pc = "publish"
    BY <1>10, <1>13
  <2>3. \A S : Creating(S)' => Creating(S)
    BY <1>1, <1>8, <1>9, InstantStartAssumption DEF Creating, NoLock
  <2>4. ~Creating({"ask", "write"})' => ~Creating({"ask", "write"})
    BY <1>8, <1>9, <2>2 DEF Creating
  <2>5. ~Creating(RefreshPcs)' => version' >= c
    <3>1. CASE req[r].pc = "publish" /\ version' = req[r].list.version
      BY <2>1, <3>1 DEF ListsRecent
    <3>2. CASE version' = version /\ lock # r
      <4>1. ~Creating(RefreshPcs)' => ~Creating(RefreshPcs)
        BY <1>8, <1>9, <3>2 DEF Creating
      <4> QED
        BY <2>1, <3>2, <4>1 DEF ListsRecent
    <3> QED
      BY <1>10, <1>13, <3>1, <3>2
  <2> QED
    BY <1>3, <1>7, <1>8, <2>1, <2>4, <2>5 DEF ListsRecent
<1> QED
  BY <1>3, <1>4, <1>11, <1>12, <1>13 DEF ListInv, Covered

(* A pod is made: no list there is needs to have it, and those that come   *)
(* will, unless another refresh has asked before.                          *)
LEMMA CreateKeeps ==
  ASSUME ListInv, NEW r \in Request, CreatePod(r)
  PROVE  ListInv'
<1>1. Control
  BY DEF ListInv
<1>2. /\ req[r].pc = "create" /\ lock = r /\ revision' = revision + 1
      /\ UNCHANGED <<bytes, version, memory, lock, tick>>
  BY <1>1 DEF CreatePod, Control, share
<1>3. missed' = (missed \/ \E q \in Request : Underway(q))
  BY DEF CreatePod
<1> DEFINE q == [pc |-> "ask", op |-> req[r].op, item |-> req[r].item, list |-> Empty]
<1>4. revision \in Nat /\ revision' \in Nat
  BY <1>1, <1>2 DEF Control
<1> PICK n \in Nat : n = revision + 1
  BY <1>4
<1>5. /\ \A L : IsList(L, revision) => IsList(L, n)
      /\ \A s : RequestOK(s, revision) => RequestOK(s, n)
      /\ \A x : TickOK(x, revision) => TickOK(x, n)
  BY <1>4, Later
<1>6. RequestOK(q, n) /\ revision' = n
  <2>1. 0 \in 0 .. n /\ Empty = [version |-> 0, pods |-> {}]
    BY <1>4 DEF Empty
  <2>2. IsList(Empty, n)
    BY <2>1, Zenon DEF IsList
  <2> QED
    BY <1>2, <2>2, Zenon DEF RequestOK, Refreshes, RefreshPcs
<1>7. q.pc = "ask"
  OBVIOUS
<1>8. Become(r, q)
  BY DEF CreatePod, StartRefresh
<1> HIDE DEF q
<1>9. /\ req' = [x \in Request |-> req'[x]]
      /\ req'[r] = q /\ \A x \in Request : x # r => req'[x] = req[x]
  BY <1>1, <1>8 DEF Control, Become
<1>10. Control'
  <2>1. \A x \in Request : RequestOK(req'[x], n)
    BY <1>1, <1>5, <1>6, <1>9 DEF Control
  <2>2. missed' \in BOOLEAN
    BY <1>1, <1>3 DEF Control
  <2>3. \A x \in Request : /\ lock' = x => Holding(req'[x])
                           /\ req'[x].pc = "create" => lock' = x
    BY <1>1, <1>2, <1>7, <1>9 DEF Control, Holding, RefreshPcs
  <2>4. \A x \in Request : IsList(memory'[x], n)
    BY <1>1, <1>2, <1>5 DEF Control
  <2>5. IsList(bytes', n) /\ TickOK(tick', n) /\ version' \in 0 .. n
    BY <1>1, <1>2, <1>4, <1>5 DEF Control
  <2>6. /\ memory' = [x \in Request |-> memory'[x]]
        /\ tick'.pc # "none" <=> lock' = Scheduler
        /\ lock' \in Request \cup {NoLock, Scheduler}
    BY <1>1, <1>2 DEF Control
  <2>7. /\ revision' \in Nat /\ version' \in 0 .. revision'
        /\ IsList(bytes', revision') /\ TickOK(tick', revision')
        /\ \A x \in Request : /\ IsList(memory'[x], revision')
                             /\ RequestOK(req'[x], revision')
    BY <1>6, <2>1, <2>4, <2>5
  <2>8. req' = [x \in Request |-> req'[x]]
    BY <1>9
  <2> QED
    BY <2>2, <2>3, <2>6, <2>7, <2>8 DEF Control
<1>11. tick.pc = "none"
  BY <1>1, <1>2, InstantStartAssumption DEF Control
<1>12. \A L : IsList(L, revision) => ~(L.version >= n)
  <2>1. \A L : IsList(L, revision) => L.version \in 0 .. revision
    BY <1>4, WrittenList
  <2> QED
    BY <1>4, <2>1
<1>13. ListsFit(n)'
  <2>1. \A x \in Request : req'[x].pc = "write" => ~(req'[x].list.version >= n)
    BY <1>1, <1>7, <1>9, <1>12, RefreshList DEF RefreshPcs
  <2>2. ~(bytes.version >= n) /\ \A x \in Request : ~(memory[x].version >= n)
    BY <1>1, <1>12 DEF Control
  <2> QED
    BY <1>2, <1>11, <2>1, <2>2 DEF ListsFit, Fits
<1>14. ~missed' => ListsRecent(n)'
  <2>1. ~missed' => \A x \in Request : req'[x].pc \notin {"write", "publish"}
    BY <1>2, <1>3, <1>7, <1>9 DEF Underway, RefreshPcs
  <2>2. Creating({"ask", "write"})' /\ Creating(RefreshPcs)'
    BY <1>2, <1>7, <1>9 DEF Creating, RefreshPcs
  <2> QED
    BY <1>2, <1>11, <2>1, <2>2 DEF ListsRecent
<1> QED
  BY <1>6, <1>10, <1>13, <1>14 DEF ListInv, Covered

(* A pod is made and no refresh follows: no list there is needs to have it. *)
LEMMA TimesOutKeeps ==
  ASSUME ListInv, NEW r \in Request, CreateTimesOut(r)
  PROVE  ListInv'
<1>1. Control
  BY DEF ListInv
<1>2. /\ lock = r /\ lock' = NoLock /\ Become(r, NoRequest) /\ missed' = TRUE
      /\ revision' = revision + 1 /\ UNCHANGED <<bytes, version, memory, tick>>
  BY <1>1 DEF CreateTimesOut, Refuse, Answer, Control, share
<1>3. revision \in Nat
  BY <1>1 DEF Control
<1> PICK n \in Nat : n = revision + 1
  BY <1>3
<1>4. /\ \A L : IsList(L, revision) => IsList(L, n)
      /\ \A s : RequestOK(s, revision) => RequestOK(s, n)
      /\ \A x : TickOK(x, revision) => TickOK(x, n)
  BY <1>3, Later
<1>5. /\ req' = [x \in Request |-> req'[x]]
      /\ req'[r] = NoRequest /\ \A x \in Request : x # r => req'[x] = req[x]
  BY <1>1, <1>2 DEF Control, Become
<1>6. RequestOK(NoRequest, n) /\ NoRequest.pc = "none"
  BY DEF RequestOK, NoRequest
<1>7. Control'
  <2>1. \A x \in Request : RequestOK(req'[x], n)
    BY <1>1, <1>4, <1>5, <1>6 DEF Control
  <2>2. \A x \in Request : lock' # x /\ req'[x].pc # "create"
    BY <1>1, <1>2, <1>5, <1>6, InstantStartAssumption DEF Control
  <2>3. \A x \in Request : IsList(memory'[x], n)
    BY <1>1, <1>2, <1>4 DEF Control
  <2>4. IsList(bytes', n) /\ TickOK(tick', n) /\ version' \in 0 .. n
    BY <1>1, <1>2, <1>3, <1>4 DEF Control
  <2>5. /\ memory' = [x \in Request |-> memory'[x]]
        /\ tick'.pc # "none" <=> lock' = Scheduler
        /\ lock' \in Request \cup {NoLock, Scheduler}
    BY <1>1, <1>2, InstantStartAssumption DEF Control, NoLock, Scheduler
  <2>6. revision' = n
    BY <1>2
  <2>7. /\ revision' \in Nat /\ version' \in 0 .. revision'
        /\ IsList(bytes', revision') /\ TickOK(tick', revision')
        /\ \A x \in Request : /\ IsList(memory'[x], revision')
                             /\ RequestOK(req'[x], revision')
    BY <2>1, <2>3, <2>4, <2>6
  <2> QED
    BY <1>2, <1>5, <2>2, <2>5, <2>7 DEF Control
<1>8. \A L : IsList(L, revision) => ~(L.version >= n)
  <2>1. \A L : IsList(L, revision) => L.version \in 0 .. revision
    BY <1>3, WrittenList
  <2> QED
    BY <1>3, <2>1
<1>9. ListsFit(n)'
  <2>1. \A x \in Request : req'[x].pc = "write" => ~(req'[x].list.version >= n)
    BY <1>1, <1>5, <1>6, <1>8, RefreshList DEF RefreshPcs
  <2>2. ~(bytes.version >= n) /\ \A x \in Request : ~(memory[x].version >= n)
    BY <1>1, <1>8 DEF Control
  <2>3. tick.pc = "none"
    BY <1>1, <1>2, InstantStartAssumption DEF Control
  <2> QED
    BY <1>2, <2>1, <2>2, <2>3 DEF ListsFit, Fits
<1>10. Covered(n)'
  BY <1>2, <1>3, <1>9 DEF Covered
<1> QED
  BY <1>7, <1>10 DEF ListInv

------------------------------------------------------------------------------
(* Plain steps                                                             *)

(* The record of a request that starts something.                          *)
LEMMA StartRecord ==
  ASSUME Control, NEW r \in Request, req[r].pc \in StartPcs
  PROVE  /\ req[r].op \in StartOps
         /\ \E op, i, S : req[r] = [pc |-> req[r].pc, op |-> op, item |-> i, place |-> S]
<1>1. Starts(req[r])
  BY DEF Control, RequestOK, Stops, Refreshes, NoRequest, RefreshPcs, StartPcs, StopPcs
<1>2. PICK at, op, i, S : op \in StartOps /\ req[r] = [pc |-> at, op |-> op, item |-> i, place |-> S]
  BY <1>1, Zenon DEF Starts
<1>3. req[r].pc = at /\ req[r].op = op
  BY <1>2
<1> QED
  BY <1>2, <1>3, Zenon

(* The record of a request that stops something.                           *)
LEMMA StopRecord ==
  ASSUME Control, NEW r \in Request, req[r].pc \in {"list", "remove", "unserve", "delete"}
  PROVE  \E op, i, t, S, b, e :
           req[r] = [pc |-> req[r].pc, op |-> op, item |-> i, target |-> t, found |-> S,
                     served |-> b, spared |-> e]
<1>1. Stops(req[r])
  BY DEF Control, RequestOK, Starts, Refreshes, NoRequest, RefreshPcs, StartPcs, StopPcs
<1>2. PICK at, op, i, t, S, b, e :
        req[r] = [pc |-> at, op |-> op, item |-> i, target |-> t, found |-> S, served |-> b,
                  spared |-> e]
  BY <1>1, Zenon DEF Stops
<1>3. req[r].pc = at
  BY <1>2
<1> QED
  BY <1>2, <1>3, Zenon

(* Only a request that checks, creates or refreshes holds the lock.        *)
LEMMA NoHold ==
  ASSUME Control, NEW r \in Request,
         req[r].pc \notin {"check", "create"} \cup RefreshPcs
  PROVE  lock # r
BY DEF Control, Holding

(* What a request may become.                                              *)
LEMMA Becomes ==
  /\ RequestOK(NoRequest, revision) /\ NoRequest.pc = "none"
  /\ \A at, op, i, S : at \in StartPcs /\ op \in StartOps =>
       RequestOK([pc |-> at, op |-> op, item |-> i, place |-> S], revision)
  /\ \A at, op, i, t, S, b, e : at \in StopPcs =>
       RequestOK([pc |-> at, op |-> op, item |-> i, target |-> t, found |-> S, served |-> b,
                  spared |-> e], revision)
<1>1. RequestOK(NoRequest, revision) /\ NoRequest.pc = "none"
  BY DEF RequestOK, NoRequest
<1>2. \A at, op, i, S : at \in StartPcs /\ op \in StartOps =>
       RequestOK([pc |-> at, op |-> op, item |-> i, place |-> S], revision)
  BY Zenon DEF RequestOK, Starts
<1>3. \A at, op, i, t, S, b, e : at \in StopPcs =>
       RequestOK([pc |-> at, op |-> op, item |-> i, target |-> t, found |-> S, served |-> b,
                  spared |-> e], revision)
  <2> SUFFICES ASSUME NEW at \in StopPcs, NEW op, NEW i, NEW t, NEW S, NEW b, NEW e
               PROVE  Stops([pc |-> at, op |-> op, item |-> i, target |-> t, found |-> S,
                             served |-> b, spared |-> e])
    BY DEF RequestOK
  <2> QED
    BY Zenon DEF Stops
<1> QED
  BY <1>1, <1>2, <1>3

(* A step of a request that makes no pod and does not refresh.             *)
Steady == UNCHANGED <<bytes, version, tick, missed>>
Moves(r) == \E q : RequestOK(q, revision) /\ Plain(r, q)

(* Requests come in.                                                       *)
LEMMA ClientPlain ==
  ASSUME Control, NEW r \in Request, Client(r)
  PROVE  Moves(r)
<1>1. req[r].pc = "none" /\ lock' = lock /\ UNCHANGED <<pods, revision>> /\ Steady
      /\ (Read(r) \/ UNCHANGED memory)
  BY DEF Client, Open, OpenStartTool, OpenStopTool, OpenAddWorker, OpenStopDeployment,
     OpenDeleteDeployment, OpenDeleteStopped, OpenStopWorker, cluster, share, Steady
<1>2. lock # r
  BY <1>1, NoHold DEF RefreshPcs
<1>3. ASSUME NEW q, Become(r, q), RequestOK(q, revision),
             q.pc \in {"check", "admit", "list", "delete_row", "delete"}
      PROVE  Moves(r)
  <2>1. Plain(r, q)
    BY <1>1, <1>2, <1>3 DEF Plain, Become, RefreshPcs, Holding, Steady
  <2> QED
    BY <1>3, <2>1, Zenon DEF Moves
<1>4. ASSUME NEW at \in {"check", "admit"}, NEW op \in StartOps, NEW i, Starting(r, at, op, i)
      PROVE  Moves(r)
  <2> DEFINE q == [pc |-> at, op |-> op, item |-> i, place |-> {}]
  <2>1. Become(r, q) /\ q.pc = at
    BY <1>4 DEF Starting
  <2>2. RequestOK(q, revision)
    BY Becomes, Zenon DEF StartPcs
  <2> QED
    BY <1>3, <2>1, <2>2
<1>5. ASSUME NEW at \in {"list", "delete_row", "delete"}, NEW op, NEW i, NEW t, NEW S,
             Stopping(r, at, op, i, t, S)
      PROVE  Moves(r)
  <2> DEFINE q == [pc |-> at, op |-> op, item |-> i, target |-> t, found |-> S,
                   served |-> FALSE, spared |-> Besides(i)]
  <2>3. Become(r, q)
    BY <1>5 DEF Stopping
  <2>1. q.pc = at /\ at \in StopPcs
    BY DEF StopPcs
  <2>2. RequestOK(q, revision)
    BY <2>1, Becomes, Zenon
  <2> QED
    BY <1>3, <2>1, <2>2, <2>3
<1>6. ASSUME NEW t \in Tool, OpenStartTool(r, t) \/ OpenStopTool(r, t)
      PROVE  Moves(r)
  BY <1>4, <1>5, <1>6 DEF OpenStartTool, OpenStopTool, StartOps
<1>7. ASSUME NEW d \in Deployment,
             OpenAddWorker(r, d) \/ OpenStopDeployment(r, d) \/ OpenDeleteDeployment(r, d)
      PROVE  Moves(r)
  BY <1>4, <1>5, <1>7
     DEF OpenAddWorker, OpenStopDeployment, OpenDeleteDeployment, StartOps
<1>8. ASSUME NEW w \in Worker,
             OpenDeleteStopped(r, w) \/ \E op \in Ops : OpenStopWorker(r, w, op)
      PROVE  Moves(r)
  BY <1>5, <1>8 DEF OpenDeleteStopped, OpenStopWorker
<1> QED
  BY <1>6, <1>7, <1>8 DEF Client

(* Requests go on: those that start something.                             *)
LEMMA StartsPlain ==
  ASSUME Control, NEW r \in Request,
         \/ \E w \in Worker : AddRow(r, w)
         \/ AddRefused(r) \/ Choose(r) \/ NoPlace(r) \/ CreateFails(r)
  PROVE  Moves(r)
<1>1. req[r].pc \in StartPcs /\ Steady /\ UNCHANGED <<pods, revision>>
      /\ (Read(r) \/ UNCHANGED memory)
  BY DEF AddRow, AddRefused, Choose, NoPlace, CreateFails, StartPcs, Steady, cluster, share
<1>2. CASE \E w \in Worker : AddRow(r, w)
  <2>1. PICK w \in Worker : AddRow(r, w)
    BY <1>2
  <2> DEFINE q == [pc |-> "check", op |-> "add_worker", item |-> w, place |-> {}]
  <2>2. Become(r, q) /\ q.pc = "check" /\ lock = NoLock /\ lock' = r
    BY <2>1 DEF AddRow, Starting, LockFree
  <2>3. RequestOK(q, revision)
    BY Becomes, Zenon DEF StartPcs, StartOps
  <2> HIDE DEF q
  <2>4. Plain(r, q)
    BY <1>1, <2>2 DEF Plain, Become, Holding, RefreshPcs, StartPcs, Steady
  <2> QED
    BY <2>3, <2>4, Zenon DEF Moves
<1>3. CASE AddRefused(r) \/ NoPlace(r) \/ CreateFails(r)
  <2>1. Become(r, NoRequest) /\ (lock' = NoLock \/ lock' = lock)
    BY <1>3 DEF AddRefused, NoPlace, CreateFails, Refuse, Answer
  <2>2. lock \in {NoLock, r}
    BY <1>3 DEF AddRefused, NoPlace, CreateFails, HoldsOrTakes, LockFree, Control
  <2>3. lock' # r
    BY <1>3, <2>2, InstantStartAssumption
       DEF AddRefused, NoPlace, CreateFails, LockFree, Refuse, NoLock
  <2>4. Plain(r, NoRequest)
    BY <1>1, <2>1, <2>2, <2>3, Becomes
       DEF Plain, Become, Holding, RefreshPcs, StartPcs, Steady
  <2> QED
    BY <2>4, Becomes, Zenon DEF Moves
<1>4. CASE Choose(r)
  <2>1. PICK g : Become(r, [req[r] EXCEPT !.pc = "create", !.place = {g}])
    BY <1>4 DEF Choose
  <2>2. PICK op, i, S : req[r] = [pc |-> req[r].pc, op |-> op, item |-> i, place |-> S]
    BY <1>1, StartRecord
  <2> DEFINE q == [pc |-> "create", op |-> op, item |-> i, place |-> {g}]
  <2>3. Become(r, q)
    <3>1. [req[r] EXCEPT !.pc = "create"] = [pc |-> "create", op |-> op, item |-> i, place |-> S]
      BY <2>2
    <3>2. [req[r] EXCEPT !.pc = "create", !.place = {g}]
          = [[pc |-> "create", op |-> op, item |-> i, place |-> S] EXCEPT !.place = {g}]
      BY <3>1
    <3> QED
      BY <2>1, <3>2
  <2>4. op \in StartOps
    BY <1>1, <2>2, StartRecord
  <2>5. RequestOK(q, revision)
    BY <2>4, Becomes, Zenon DEF StartPcs
  <2>6. q.pc = "create"
    OBVIOUS
  <2> HIDE DEF q
  <2>7. lock \in {NoLock, r} /\ lock' = r
    BY <1>4 DEF Choose, HoldsOrTakes
  <2>8. Plain(r, q)
    BY <1>1, <2>3, <2>6, <2>7 DEF Plain, Become, Holding, RefreshPcs, StartPcs, Steady
  <2> QED
    BY <2>5, <2>8, Zenon DEF Moves
<1> QED
  BY <1>2, <1>3, <1>4

(* Requests go on: those that stop or delete something.                    *)
LEMMA StopsPlain ==
  ASSUME Control, NEW r \in Request,
         \/ ListTarget(r) \/ RemovePods(r) \/ RemoveServices(r) \/ DeleteRow(r)
         \/ DeleteDeployment(r)
  PROVE  Moves(r)
<1>1. /\ req[r].pc \in {"list", "remove", "unserve", "delete_row", "delete"}
      /\ Steady /\ UNCHANGED memory
      /\ pods' \subseteq pods /\ revision' \in {revision, revision + 1} /\ lock' = lock
  BY DEF ListTarget, RemovePods, RemoveServices, DeleteRow, DeleteDeployment, DeletePods,
         Steady, cluster, share
<1>2. lock # r
  BY <1>1, NoHold DEF RefreshPcs
<1>3. ASSUME NEW q, Become(r, q), RequestOK(q, revision),
             q.pc \in {"none", "remove", "unserve", "ask"}
      PROVE  Moves(r)
  <2>1. Plain(r, q)
    BY <1>1, <1>2, <1>3 DEF Plain, Become, RefreshPcs, Holding, Steady
  <2> QED
    BY <1>3, <2>1, Zenon DEF Moves
<1>4. CASE ListTarget(r)
  <2>1. PICK op, i, t, S, b, e :
          req[r] = [pc |-> req[r].pc, op |-> op, item |-> i, target |-> t, found |-> S,
                    served |-> b, spared |-> e]
    BY <1>4, StopRecord DEF ListTarget
  <2> DEFINE F == Labelled(pods, req[r].target)
             B == req[r].target \in services
             q == [pc |-> "remove", op |-> op, item |-> i, target |-> t, found |-> F,
                   served |-> B, spared |-> e]
  <2>2. Become(r, [req[r] EXCEPT !.pc = "remove", !.found = F, !.served = B])
    BY <1>4 DEF ListTarget
  <2> HIDE DEF F, B
  <2>3. Become(r, q)
    <3>1. [req[r] EXCEPT !.pc = "remove"]
          = [pc |-> "remove", op |-> op, item |-> i, target |-> t, found |-> S, served |-> b,
             spared |-> e]
      BY <2>1
    <3>2. [req[r] EXCEPT !.pc = "remove", !.found = F]
          = [[pc |-> "remove", op |-> op, item |-> i, target |-> t, found |-> S,
              served |-> b, spared |-> e] EXCEPT !.found = F]
      BY <3>1
    <3>3. [req[r] EXCEPT !.pc = "remove", !.found = F]
          = [pc |-> "remove", op |-> op, item |-> i, target |-> t, found |-> F, served |-> b,
             spared |-> e]
      BY <3>2
    <3>4. [req[r] EXCEPT !.pc = "remove", !.found = F, !.served = B]
          = [[pc |-> "remove", op |-> op, item |-> i, target |-> t, found |-> F,
              served |-> b, spared |-> e] EXCEPT !.served = B]
      BY <3>3
    <3> QED
      BY <2>2, <3>4
  <2>4. q.pc = "remove" /\ "remove" \in StopPcs
    BY DEF StopPcs
  <2>5. RequestOK(q, revision)
    BY <2>4, Becomes, Zenon
  <2> QED
    BY <1>3, <2>3, <2>4, <2>5
<1>5. CASE RemovePods(r)
  <2>1. PICK op, i, t, S, b, e :
          req[r] = [pc |-> req[r].pc, op |-> op, item |-> i, target |-> t, found |-> S,
                    served |-> b, spared |-> e]
    BY <1>5, StopRecord DEF RemovePods
  <2> DEFINE q == [pc |-> "unserve", op |-> op, item |-> i, target |-> t, found |-> S,
                   served |-> b, spared |-> e]
  <2>2. Become(r, q)
    BY <1>5, <2>1 DEF RemovePods, Goto
  <2>3. q.pc = "unserve" /\ "unserve" \in StopPcs
    BY DEF StopPcs
  <2>4. RequestOK(q, revision)
    BY <2>3, Becomes, Zenon
  <2> QED
    BY <1>3, <2>2, <2>3, <2>4
<1>6. CASE RemoveServices(r) \/ DeleteRow(r) \/ DeleteDeployment(r)
  <2> DEFINE q == [pc |-> "ask", op |-> req[r].op, item |-> req[r].item, list |-> Empty]
  <2>1. Become(r, q) \/ Become(r, NoRequest)
    BY <1>6 DEF RemoveServices, DeleteRow, DeleteDeployment, StartRefresh, Answer
  <2>2. RequestOK(q, revision)
    <3>1. 0 \in 0 .. revision /\ Empty = [version |-> 0, pods |-> {}]
      BY DEF Empty, Control
    <3>2. IsList(Empty, revision)
      BY <3>1, Zenon DEF IsList
    <3> QED
      BY <3>2, Zenon DEF RequestOK, Refreshes, RefreshPcs
  <2>3. q.pc = "ask"
    OBVIOUS
  <2> QED
    BY <1>3, <2>1, <2>2, <2>3, Becomes
<1> QED
  BY <1>4, <1>5, <1>6

(* The inductive invariant: there is a revision after the last creation    *)
(* from which on every list has every pod, and no older list is shared,    *)
(* unless a creator's refresh failed or another one was under way.         *)
THEOREM ListInvariant == Spec => []ListInv
<1>1. ListInv /\ [Next]_vars => ListInv'
  <2> SUFFICES ASSUME ListInv, [Next]_vars
               PROVE  ListInv'
    OBVIOUS
  <2>1. ASSUME NEW r \in Request, Moves(r)
        PROVE  ListInv'
    BY <2>1, PlainKeeps DEF Moves
  <2>2. CASE Tick
    BY <2>2, TickKeeps
  <2>3. ASSUME NEW r \in Request, Client(r)
        PROVE  ListInv'
    BY <2>1, <2>3, ClientPlain DEF ListInv
  <2>4. ASSUME NEW r \in Request, Serve(r)
        PROVE  ListInv'
    BY <2>1, <2>4, StartsPlain, StopsPlain, RefreshKeeps, EndRefreshKeeps, CreateKeeps,
       TimesOutKeeps DEF ListInv, Serve
  <2>5. CASE UNCHANGED vars
    BY <2>5 DEF vars, db, cluster, share, ListInv, Control, Covered, ListsFit, ListsRecent,
                Fits, Creating
  <2> QED
    BY <2>2, <2>3, <2>4, <2>5 DEF Next
<1> QED
  BY <1>1, InitListed, PTL DEF Spec

(* When no creator refreshes, every process reads a list with every pod.   *)
LEMMA ListsSeen ==
  ASSUME ListInv, ~missed, ~Creating(RefreshPcs), NEW r \in Request
  PROVE  pods \subseteq View(r).pods
<1>1. PICK c \in Nat : Covered(c)
  BY DEF ListInv
<1>2. ~Creating({"ask", "write"})
  BY DEF Creating, RefreshPcs
<1>3. bytes.version >= c /\ version >= c
  BY <1>1, <1>2 DEF Covered, ListsRecent
<1> QED
  BY <1>1, <1>3 DEF Covered, ListsFit, Fits, View

(* Whoever takes the lock next reads a list with every pod there is.       *)
THEOREM PodsListed == Spec => []EveryPodListed
<1>1. ListInv => EveryPodListed
  BY ListsSeen, InstantStartAssumption DEF EveryPodListed, Creating, NoLock
<1> QED
  BY <1>1, ListInvariant, PTL

------------------------------------------------------------------------------
(* Items                                                                   *)

(* What a request is about to make a pod for is a tool or a worker.        *)
Makes(r) == req[r].pc \in {"check", "create"}
Items == \A r \in Request : Makes(r) => req[r].item \in Item

(* A step of a request changes no other.                                   *)
LEMMA OthersStay ==
  ASSUME Control, NEW r \in Request, NEW q, Become(r, q)
  PROVE  req'[r] = q /\ \A x \in Request : x # r => req'[x] = req[x]
BY DEF Control, Become

(* A request goes on to something else, or to a tool or a worker.          *)
LEMMA ItemStays ==
  ASSUME Control, Items, NEW r \in Request, NEW q, Become(r, q),
         q.pc \in {"check", "create"} => q.item \in Item
  PROVE  Items'
<1>1. req'[r] = q /\ \A x \in Request : x # r => req'[x] = req[x]
  BY OthersStay
<1> QED
  BY <1>1 DEF Items, Makes

(* Requests come in.                                                       *)
LEMMA ClientItems ==
  ASSUME Control, Items, NEW r \in Request, Client(r)
  PROVE  Items'
<1>1. ASSUME NEW at, NEW op, NEW i, Starting(r, at, op, i), i \in Item \/ at = "admit"
      PROVE  Items'
  <2> DEFINE q == [pc |-> at, op |-> op, item |-> i, place |-> {}]
  <2>1. Become(r, q) /\ q.pc = at /\ q.item = i
    BY <1>1 DEF Starting
  <2> HIDE DEF q
  <2> QED
    BY <1>1, <2>1, ItemStays
<1>2. ASSUME NEW at \in StopPcs, NEW op, NEW i, NEW t, NEW S, Stopping(r, at, op, i, t, S)
      PROVE  Items'
  <2> DEFINE q == [pc |-> at, op |-> op, item |-> i, target |-> t, found |-> S,
                   served |-> FALSE, spared |-> Besides(i)]
  <2>1. Become(r, q) /\ q.pc = at
    BY <1>2 DEF Stopping
  <2> HIDE DEF q
  <2> QED
    BY <2>1, ItemStays DEF StopPcs
<1>3. ASSUME NEW t \in Tool, OpenStartTool(r, t) \/ OpenStopTool(r, t)
      PROVE  Items'
  BY <1>1, <1>2, <1>3 DEF OpenStartTool, OpenStopTool, Item, StopPcs
<1>4. ASSUME NEW d \in Deployment,
             OpenAddWorker(r, d) \/ OpenStopDeployment(r, d) \/ OpenDeleteDeployment(r, d)
      PROVE  Items'
  BY <1>1, <1>2, <1>4 DEF OpenAddWorker, OpenStopDeployment, OpenDeleteDeployment, StopPcs
<1>5. ASSUME NEW w \in Worker,
             OpenDeleteStopped(r, w) \/ \E op \in Ops : OpenStopWorker(r, w, op)
      PROVE  Items'
  BY <1>2, <1>5 DEF OpenDeleteStopped, OpenStopWorker, StopPcs
<1> QED
  BY <1>3, <1>4, <1>5 DEF Client

(* Requests go on.                                                         *)
LEMMA ServeItems ==
  ASSUME Control, Items, NEW r \in Request, Serve(r)
  PROVE  Items'
<1>1. ASSUME NEW q, Become(r, q), q.pc \notin {"check", "create"}
      PROVE  Items'
  BY <1>1, ItemStays
<1>2. NoRequest.pc = "none"
  BY DEF NoRequest
<1>3. CASE \E w \in Worker : AddRow(r, w)
  <2>1. PICK w \in Worker : AddRow(r, w)
    BY <1>3
  <2> DEFINE q == [pc |-> "check", op |-> "add_worker", item |-> w, place |-> {}]
  <2>2. Become(r, q) /\ q.item = w
    BY <2>1 DEF AddRow, Starting
  <2> HIDE DEF q
  <2> QED
    BY <2>2, ItemStays DEF Item
<1>4. CASE \/ AddRefused(r) \/ NoPlace(r) \/ CreateFails(r) \/ CreateTimesOut(r)
           \/ DeleteRow(r) \/ DeleteDeployment(r)
  BY <1>1, <1>2, <1>4 DEF AddRefused, NoPlace, CreateFails, CreateTimesOut, DeleteRow,
     DeleteDeployment, Refuse, Answer
<1>5. CASE Choose(r)
  <2>1. PICK g : Become(r, [req[r] EXCEPT !.pc = "create", !.place = {g}])
    BY <1>5 DEF Choose
  <2> DEFINE q == [req[r] EXCEPT !.pc = "create", !.place = {g}]
  <2>2. PICK op, i, S : req[r] = [pc |-> req[r].pc, op |-> op, item |-> i, place |-> S]
    BY <1>5, StartRecord DEF Choose, StartPcs
  <2>3. q.item = req[r].item
    BY <2>2
  <2>4. req[r].item \in Item
    BY <1>5 DEF Choose, Items, Makes
  <2>5. Become(r, q)
    BY <2>1
  <2> HIDE DEF q
  <2> QED
    BY <2>3, <2>4, <2>5, ItemStays
<1>6. ASSUME NEW op, NEW i, StartRefresh(r, op, i)
      PROVE  Items'
  BY <1>1, <1>6 DEF StartRefresh
<1>7. CASE CreatePod(r) \/ RemoveServices(r)
  BY <1>1, <1>2, <1>6, <1>7 DEF CreatePod, RemoveServices, Answer
<1>8. CASE Refresh(r) \/ EndRefresh(r)
  <2>1. req[r].pc \in RefreshPcs
    BY <1>8 DEF Refresh, EndRefresh
  <2>2. PICK op, i, K : req[r] = [pc |-> req[r].pc, op |-> op, item |-> i, list |-> K]
    BY <2>1, RefreshList, Zenon
  <2>3. Answered(req[r]).pc = "write" /\ Written(req[r]).pc = "publish"
    BY <2>2 DEF Answered, Written
  <2>4. [req[r] EXCEPT !.pc = "delete_row"].pc = "delete_row"
    BY <2>2
  <2>5. \E q : Become(r, q) /\ q.pc \in {"write", "publish", "delete_row", "none"}
    BY <1>2, <1>8, <2>3, <2>4 DEF Refresh, EndRefresh, Goto, Answer
  <2> QED
    BY <1>1, <2>5
<1>9. CASE ListTarget(r) \/ RemovePods(r)
  <2>1. PICK op, i, t, S, b, e :
          req[r] = [pc |-> req[r].pc, op |-> op, item |-> i, target |-> t, found |-> S,
                    served |-> b, spared |-> e]
    BY <1>9, StopRecord DEF ListTarget, RemovePods
  <2>2. [req[r] EXCEPT !.pc = "unserve"].pc = "unserve"
    BY <2>1
  <2>3. [req[r] EXCEPT !.pc = "remove", !.found = Labelled(pods, req[r].target),
                       !.served = req[r].target \in services].pc = "remove"
    BY <2>1
  <2> QED
    BY <1>1, <1>9, <2>2, <2>3 DEF ListTarget, RemovePods, Goto
<1> QED
  BY <1>3, <1>4, <1>5, <1>7, <1>8, <1>9 DEF Serve

(* A request makes pods for tools and workers only.                        *)
LEMMA ItemInvariant == Spec => [](ListInv /\ Items)
<1>1. ListInv /\ Items /\ [Next]_vars => Items'
  <2> SUFFICES ASSUME ListInv, Items, [Next]_vars
               PROVE  Items'
    OBVIOUS
  <2>1. Control
    BY DEF ListInv
  <2>2. CASE Tick \/ UNCHANGED vars
    BY <2>2 DEF Tick, TickStart, TickRefresh, TickEnd, vars, Items, Makes
  <2>3. ASSUME NEW r \in Request, Client(r) \/ Serve(r)
        PROVE  Items'
    BY <2>1, <2>3, ClientItems, ServeItems
  <2> QED
    BY <2>2, <2>3 DEF Next
<1>2. Init => Items
  BY DEF Init, Items, Makes, NoRequest
<1> QED
  BY <1>1, <1>2, ListInvariant, PTL DEF Spec

------------------------------------------------------------------------------
(* Types                                                                   *)

PodSet(S) == S \subseteq Pod /\ IsFiniteSet(S)

Rows ==
  /\ deployments \subseteq Deployment
  /\ workers \subseteq Worker /\ \A w \in workers : DeploymentOf[w] \in deployments
  /\ lastId \in 0 .. MaxWorkers
  /\ services \subseteq Owner
  /\ made \in 0 .. MaxRequests

(* The lists that are kept, and those that are about to be shared.         *)
Lists ==
  /\ PodSet(pods)
  /\ PodSet(bytes.pods)
  /\ \A r \in Request : PodSet(memory[r].pods)
  /\ tick.pc = "write" => PodSet(tick.list.pods)
  /\ \A r \in Request : req[r].pc = "write" => PodSet(req[r].list.pods)

(* The place that was chosen.                                              *)
PlaceOK ==
  \A r \in Request : req[r].pc = "create" =>
    \E g \in [node : Node, gpus : Nat] : req[r].place = {g}

TypeInv == Rows /\ Lists /\ PlaceOK

(* An item is a tool or a worker, and has an owner.                        *)
LEMMA ItemOwner ==
  ASSUME Items, NEW r \in Request, Makes(r)
  PROVE  req[r].item \in Item /\ OwnerOf(req[r].item) \in Owner
<1>1. req[r].item \in Tool \/ req[r].item \in Worker
  BY DEF Items, Item
<1> QED
  BY <1>1, InstantStartAssumption DEF Item, Owner, OwnerOf

(* An empty platform.                                                      *)
LEMMA TypesInit == Init => TypeInv
<1> SUFFICES ASSUME Init PROVE TypeInv
  OBVIOUS
<1>1. PodSet({})
  BY FS_EmptySet DEF PodSet
<1>2. bytes.pods = {} /\ \A r \in Request : memory[r].pods = {}
  BY DEF Init, Empty
<1>3. tick.pc = "none" /\ \A r \in Request : req[r].pc = "none"
  BY DEF Init, NoTick, NoRequest
<1>4. Rows
  BY InstantStartAssumption DEF Init, Rows, Owner, Worker
<1> QED
  BY <1>1, <1>2, <1>3, <1>4 DEF TypeInv, Lists, PlaceOK, Init

(* The rows keep their types.                                              *)
LEMMA RowsNext ==
  ASSUME Items, Rows, [Next]_vars
  PROVE  Rows'
<1> USE DEF Rows
<1>1. CASE Tick \/ UNCHANGED vars
  BY <1>1 DEF Tick, TickStart, TickRefresh, TickEnd, vars, db, cluster
<1>2. ASSUME NEW r \in Request, Client(r)
      PROVE  Rows'
  <2>1. made < MaxRequests /\ made' = made + 1 /\ UNCHANGED <<deployments, workers, lastId, services>>
    BY <1>2 DEF Client, Open, OpenStartTool, OpenStopTool, OpenAddWorker, OpenStopDeployment,
       OpenDeleteDeployment, OpenDeleteStopped, OpenStopWorker, db, cluster
  <2> QED
    BY <2>1, InstantStartAssumption
<1>3. ASSUME NEW r \in Request, NEW w \in Worker, AddRow(r, w)
      PROVE  Rows'
  <2>1. /\ DeploymentOf[w] \in deployments /\ workers' = workers \cup {w} /\ lastId' = w
        /\ UNCHANGED <<deployments, services, made>>
    BY <1>3 DEF AddRow, cluster
  <2>2. w \in 0 .. MaxWorkers
    BY InstantStartAssumption DEF Worker
  <2> QED
    BY <2>1, <2>2
<1>4. ASSUME NEW r \in Request, Choose(r)
      PROVE  Rows'
  <2>1. OwnerOf(req[r].item) \in Owner
    BY <1>4, ItemOwner DEF Choose, Makes
  <2> QED
    BY <1>4, <2>1 DEF Choose, db
<1>5. ASSUME NEW r \in Request,
             AddRefused(r) \/ NoPlace(r) \/ CreatePod(r) \/ CreateFails(r)
               \/ CreateTimesOut(r) \/ Refresh(r) \/ EndRefresh(r) \/ ListTarget(r) \/ RemovePods(r)
      PROVE  Rows'
  BY <1>5 DEF AddRefused, NoPlace, CreatePod, CreateFails, CreateTimesOut, Refresh,
     EndRefresh, ListTarget, RemovePods, db, cluster
<1>6. ASSUME NEW r \in Request, RemoveServices(r) \/ DeleteRow(r)
      PROVE  Rows'
  BY <1>6 DEF RemoveServices, DeleteRow, db, cluster
<1>7. ASSUME NEW r \in Request, DeleteDeployment(r)
      PROVE  Rows'
  <2>1. /\ services' \subseteq services /\ UNCHANGED <<lastId, made>>
        /\ \/ /\ deployments' = deployments \ {req[r].item}
              /\ workers' = workers \ RowsOf(req[r].item)
           \/ UNCHANGED <<deployments, workers>>
    BY <1>7 DEF DeleteDeployment
  <2> QED
    BY <2>1 DEF RowsOf
<1> QED
  BY <1>1, <1>2, <1>3, <1>4, <1>5, <1>6, <1>7 DEF Next, Serve

(* A step that makes no pod, and shares or keeps no other list than those  *)
(* there are.                                                              *)
LEMMA ListsPlain ==
  ASSUME Control, Lists, NEW r \in Request, Moves(r)
  PROVE  Lists'
<1>1. PICK q : Plain(r, q)
  BY DEF Moves
<1>2. req'[r] = q /\ q.pc # "write" /\ \A x \in Request : x # r => req'[x] = req[x]
  BY <1>1, OthersStay DEF Plain, Become
<1>3. \A x \in Request : memory'[x] \in {memory[x], bytes}
  BY <1>1 DEF Control, Plain, Read, View
<1>4. pods' \subseteq pods /\ UNCHANGED <<bytes, tick>>
  BY <1>1 DEF Plain
<1>5. PodSet(pods')
  BY <1>4, FS_Subset DEF Lists, PodSet
<1> QED
  BY <1>2, <1>3, <1>4, <1>5 DEF Lists

(* The scheduler's refresh.                                                *)
LEMMA ListsTick ==
  ASSUME Control, Lists, Tick
  PROVE  Lists'
<1>1. UNCHANGED <<pods, memory, req>>
  BY DEF Tick, TickStart, TickRefresh, TickEnd, cluster
<1>2. CASE TickStart \/ TickEnd
  <2>1. tick'.pc # "write" /\ UNCHANGED bytes
    BY <1>2 DEF TickStart, TickEnd, Asked, NoTick, share
  <2> QED
    BY <1>1, <2>1 DEF Lists
<1>3. CASE TickRefresh
  <2>1. tick = [pc |-> tick.pc, list |-> tick.list]
    BY <1>3, TickList DEF TickRefresh
  <2>2. CASE tick' = Answered(tick) /\ UNCHANGED bytes
    <3>1. tick' = [pc |-> "write", list |-> [version |-> revision, pods |-> pods]]
      BY <2>1, <2>2 DEF Answered
    <3>2. tick'.list.pods = pods
      BY <3>1
    <3> QED
      BY <1>1, <2>2, <3>2 DEF Lists
  <2>3. CASE tick.pc = "write" /\ tick' = Written(tick) /\ bytes' = tick.list
    <3>1. tick'.pc = "publish"
      BY <2>1, <2>3 DEF Written
    <3> QED
      BY <1>1, <2>3, <3>1 DEF Lists
  <2> QED
    BY <1>3, <2>2, <2>3 DEF TickRefresh
<1> QED
  BY <1>2, <1>3 DEF Tick

(* The refresh of a request.                                               *)
LEMMA ListsRefresh ==
  ASSUME Control, Lists, NEW r \in Request, Refresh(r) \/ EndRefresh(r)
  PROVE  Lists' /\ req'[r].pc # "create"
<1>1. req[r].pc \in RefreshPcs /\ UNCHANGED <<pods, memory, tick>>
  BY DEF Refresh, EndRefresh, cluster
<1>2. PICK op, i, K : req[r] = [pc |-> req[r].pc, op |-> op, item |-> i, list |-> K]
  BY <1>1, RefreshList, Zenon
<1>3. ASSUME NEW q, Become(r, q), q.pc # "write", q.pc # "create",
             bytes' = bytes \/ (req[r].pc = "write" /\ bytes' = req[r].list)
      PROVE  Lists' /\ req'[r].pc # "create"
  <2>1. req'[r] = q /\ \A x \in Request : x # r => req'[x] = req[x]
    BY <1>3, OthersStay
  <2> QED
    BY <1>1, <1>3, <2>1 DEF Lists
<1>4. CASE Become(r, Answered(req[r])) /\ UNCHANGED bytes
  <2> DEFINE L == [version |-> revision, pods |-> pods]
  <2>1. Answered(req[r]) = [pc |-> "write", op |-> op, item |-> i, list |-> L]
    <3>1. [req[r] EXCEPT !.pc = "write"] = [pc |-> "write", op |-> op, item |-> i, list |-> K]
      BY <1>2
    <3>2. Answered(req[r]) = [[pc |-> "write", op |-> op, item |-> i, list |-> K] EXCEPT !.list = L]
      BY <3>1 DEF Answered
    <3> QED
      BY <3>2
  <2>2. Answered(req[r]).pc = "write" /\ Answered(req[r]).list.pods = pods
    BY <2>1
  <2>3. req'[r] = Answered(req[r]) /\ \A x \in Request : x # r => req'[x] = req[x]
    BY <1>4, OthersStay
  <2> QED
    BY <1>1, <1>4, <2>2, <2>3 DEF Lists
<1>5. CASE req[r].pc = "write" /\ Become(r, Written(req[r])) /\ bytes' = req[r].list
  <2>1. Written(req[r]).pc = "publish"
    BY <1>2 DEF Written
  <2> QED
    BY <1>3, <1>5, <2>1
<1>6. CASE EndRefresh(r)
  <2>1. [req[r] EXCEPT !.pc = "delete_row"].pc = "delete_row" /\ NoRequest.pc = "none"
    BY <1>2 DEF NoRequest
  <2>2. PICK q : Become(r, q) /\ q.pc \in {"delete_row", "none"}
    BY <1>6, <2>1 DEF EndRefresh, Goto, Answer
  <2>3. UNCHANGED bytes
    BY <1>6 DEF EndRefresh
  <2>4. q.pc # "write" /\ q.pc # "create"
    BY <2>2
  <2>5. req'[r] = q /\ \A x \in Request : x # r => req'[x] = req[x]
    BY <2>2, OthersStay
  <2> QED
    BY <1>1, <2>3, <2>4, <2>5 DEF Lists
<1> QED
  BY <1>4, <1>5, <1>6 DEF Refresh

(* The pod that a request is about to make.                                *)
Pending(r) == {[item |-> req[r].item, node |-> g.node, gpus |-> g.gpus] : g \in req[r].place}

(* A start about to create its pod creates exactly one.                    *)
LEMMA PendingPod ==
  ASSUME Items, PlaceOK, NEW r \in Request, req[r].pc = "create"
  PROVE  \E p \in Pod : Pending(r) = {p}
<1>1. PICK g \in [node : Node, gpus : Nat] : req[r].place = {g}
  BY DEF PlaceOK
<1>2. req[r].item \in Item
  BY ItemOwner DEF Makes
<1> DEFINE p == [item |-> req[r].item, node |-> g.node, gpus |-> g.gpus]
<1>3. p \in Pod /\ Pending(r) = {p}
  BY <1>1, <1>2 DEF Pod, Pending
<1> QED
  BY <1>3

(* A pod is made, whether its refresh follows or not.                      *)
Created(r) == CreatePod(r) \/ CreateTimesOut(r)

(* The creator goes on to its refresh or is done.                          *)
LEMMA CreatedNext ==
  ASSUME Control, NEW r \in Request, Created(r)
  PROVE  /\ req[r].pc = "create" /\ pods' = pods \cup Pending(r)
         /\ req'[r].pc \in {"ask", "none"}
         /\ \A x \in Request : x # r => req'[x] = req[x]
         /\ UNCHANGED <<bytes, memory, tick>>
<1>1. /\ req[r].pc = "create" /\ pods' = pods \cup Pending(r)
      /\ UNCHANGED <<bytes, memory, tick>>
  BY DEF Created, CreatePod, CreateTimesOut, Pending, share
<1> DEFINE q == [pc |-> "ask", op |-> req[r].op, item |-> req[r].item, list |-> Empty]
<1>2. q.pc = "ask" /\ NoRequest.pc = "none"
  BY DEF NoRequest
<1>3. Become(r, q) \/ Become(r, NoRequest)
  BY DEF Created, CreatePod, CreateTimesOut, StartRefresh, Refuse, Answer
<1> HIDE DEF q
<1> QED
  BY <1>1, <1>2, <1>3, OthersStay

(* The lists that are kept stay typed.                                     *)
LEMMA ListsCreate ==
  ASSUME Control, Items, Lists, PlaceOK, NEW r \in Request, Created(r)
  PROVE  Lists'
<1>1. PICK p \in Pod : Pending(r) = {p}
  BY CreatedNext, PendingPod
<1>2. PodSet(pods')
  <2>1. pods' = pods \cup {p}
    BY <1>1, CreatedNext
  <2> QED
    BY <2>1, FS_AddElement DEF Lists, PodSet
<1> QED
  BY <1>2, CreatedNext DEF Lists

------------------------------------------------------------------------------
(* A step of a request that makes no pod and does not refresh.             *)
LEMMA MovesQuiet ==
  ASSUME Control, NEW r \in Request, Moves(r)
  PROVE  /\ pods' \subseteq pods /\ missed' = missed
         /\ \A x \in Request : x # r => req'[x] = req[x]
<1>1. PICK q : Plain(r, q)
  BY DEF Moves
<1> QED
  BY <1>1, OthersStay DEF Plain, Become

(* A request that comes in, and one that goes on to anything but its       *)
(* choice, is not about to make a pod.                                     *)
LEMMA NotCreating ==
  ASSUME Control, NEW r \in Request,
         \/ Client(r) \/ \E w \in Worker : AddRow(r, w)
         \/ AddRefused(r) \/ NoPlace(r) \/ CreateFails(r) \/ ListTarget(r) \/ RemovePods(r)
         \/ RemoveServices(r) \/ DeleteRow(r) \/ DeleteDeployment(r)
  PROVE  req'[r].pc # "create"
<1>1. ASSUME NEW q, Become(r, q), q.pc # "create"
      PROVE  req'[r].pc # "create"
  BY <1>1, OthersStay
<1>2. NoRequest.pc = "none"
  BY DEF NoRequest
<1>3. ASSUME NEW at, NEW op, NEW i, at # "create", Starting(r, at, op, i)
      PROVE  req'[r].pc # "create"
  BY <1>1, <1>3 DEF Starting
<1>4. ASSUME NEW at, NEW op, NEW i, NEW t, NEW S, at # "create",
             Stopping(r, at, op, i, t, S)
      PROVE  req'[r].pc # "create"
  BY <1>1, <1>4 DEF Stopping
<1>5. ASSUME NEW op, NEW i, StartRefresh(r, op, i)
      PROVE  req'[r].pc # "create"
  BY <1>1, <1>5 DEF StartRefresh
<1>6. CASE Client(r)
  <2>1. ASSUME NEW t \in Tool, OpenStartTool(r, t) \/ OpenStopTool(r, t)
        PROVE  req'[r].pc # "create"
    BY <1>3, <1>4, <2>1 DEF OpenStartTool, OpenStopTool
  <2>2. ASSUME NEW d \in Deployment, OpenAddWorker(r, d) \/ OpenStopDeployment(r, d)
        PROVE  req'[r].pc # "create"
    BY <1>3, <1>4, <2>2 DEF OpenAddWorker, OpenStopDeployment
  <2>3. ASSUME NEW d \in Deployment, OpenDeleteDeployment(r, d)
        PROVE  req'[r].pc # "create"
    BY <1>4, <2>3 DEF OpenDeleteDeployment
  <2>4. ASSUME NEW w \in Worker, OpenDeleteStopped(r, w) \/ \E op \in Ops : OpenStopWorker(r, w, op)
        PROVE  req'[r].pc # "create"
    BY <1>4, <2>4 DEF OpenDeleteStopped, OpenStopWorker
  <2> QED
    BY <1>6, <2>1, <2>2, <2>3, <2>4 DEF Client
<1>7. ASSUME NEW w \in Worker, AddRow(r, w)
      PROVE  req'[r].pc # "create"
  BY <1>3, <1>7 DEF AddRow
<1>8. CASE AddRefused(r) \/ NoPlace(r) \/ CreateFails(r) \/ DeleteRow(r) \/ DeleteDeployment(r)
  BY <1>1, <1>2, <1>8
     DEF AddRefused, NoPlace, CreateFails, DeleteRow, DeleteDeployment, Refuse, Answer
<1>9. CASE ListTarget(r) \/ RemovePods(r)
  <2>1. PICK op, i, t, S, b, e :
          req[r] = [pc |-> req[r].pc, op |-> op, item |-> i, target |-> t, found |-> S,
                    served |-> b, spared |-> e]
    BY <1>9, StopRecord DEF ListTarget, RemovePods
  <2>2. [req[r] EXCEPT !.pc = "unserve"].pc = "unserve"
    BY <2>1
  <2>3. [req[r] EXCEPT !.pc = "remove", !.found = Labelled(pods, req[r].target),
                       !.served = req[r].target \in services].pc = "remove"
    BY <2>1
  <2> QED
    BY <1>1, <1>9, <2>2, <2>3 DEF ListTarget, RemovePods, Goto
<1>10. CASE RemoveServices(r)
  BY <1>1, <1>2, <1>5, <1>10 DEF RemoveServices, Answer
<1> QED
  BY <1>6, <1>7, <1>8, <1>9, <1>10

------------------------------------------------------------------------------
(* GPUs: no node, quota or guarantee is overdrawn                          *)

OnNode(n) == {p \in Pod : p.node = n}

(* The pods that count towards the same quota as those of o.               *)
Like(o) == {p \in Pod : /\ WorkspaceOf[OwnerOf(p.item)] = WorkspaceOf[o]
                        /\ SameUsage(o, p.item)}

(* The pods without a guarantee, and what the guarantees leave for them.   *)
Loose == {p \in Pod : WorkspaceOf[OwnerOf(p.item)] \notin Guaranteed}
Spare == MapThenSumSet(LAMBDA n : NodeGpus[n], Node)
           - MapThenSumSet(LAMBDA w : TrainingQuota[w] + DeploymentQuota[w], Guaranteed)

Fitting(S) ==
  /\ \A n \in Node : Held(S \cap OnNode(n)) <= NodeGpus[n]
  /\ \A o \in Owner : Held(S \cap Like(o)) <= QuotaOf(o)
  /\ Spare >= 0 => Held(S \cap Loose) <= Spare

(* Unless a pod is unseen, the pods fit, and so does the pod a request has *)
(* found a place for: nobody else makes one before it.                     *)
FitInv ==
  ~missed => /\ Fitting(pods)
             /\ \A r \in Request : req[r].pc = "create" => Fitting(pods \cup Pending(r))

(* The quotas are numbers.                                                 *)
LEMMA QuotaNat ==
  ASSUME NEW o \in Owner
  PROVE  QuotaOf(o) \in Nat /\ Gpus[o] \in Nat
  BY InstantStartAssumption DEF QuotaOf, Owner

(* The sums of the check are numbers.                                      *)
LEMMA SpareParts ==
  /\ MapThenSumSet(LAMBDA n : NodeGpus[n], Node) \in Int
  /\ MapThenSumSet(LAMBDA w : TrainingQuota[w] + DeploymentQuota[w], Guaranteed) \in Int
<1> DEFINE f == [w \in Guaranteed |-> TrainingQuota[w] + DeploymentQuota[w]]
<1>1. MapThenSumSet(LAMBDA n : NodeGpus[n], Node) = SumOver(NodeGpus, Node)
  BY DEF SumOver, SumFunctionOnSet, FoldFunctionOnSet, MapThenSumSet
<1>2. MapThenSumSet(LAMBDA w : TrainingQuota[w] + DeploymentQuota[w], Guaranteed)
        = SumOver(f, Guaranteed)
  <2> DEFINE S == Guaranteed
             Rec(g) == g = [U \in SUBSET S |-> IF U = {} THEN 0
                              ELSE (TrainingQuota[AnyOf(U)] + DeploymentQuota[AnyOf(U)])
                                     + g[U \ {AnyOf(U)}]]
  <2>1. MapThenSumSet(LAMBDA w : TrainingQuota[w] + DeploymentQuota[w], S)
          = (CHOOSE g : Rec(g))[S]
    BY DEF MapThenSumSet, MapThenFoldSet, AnyOf
  <2>2. \A U \in SUBSET S : U # {} =>
          f[AnyOf(U)] = TrainingQuota[AnyOf(U)] + DeploymentQuota[AnyOf(U)]
    BY DEF AnyOf
  <2> HIDE DEF f
  <2>3. \A g : Rec(g) <=> IsSum(g, f, S)
    <3> HIDE DEF S
    <3> QED
      BY <2>2 DEF IsSum
  <2> HIDE DEF Rec
  <2>4. IsSum([U \in SUBSET S |-> SumOver(f, U)], f, S)
    BY InstantStartAssumption, SumOverIsSum
  <2>5. (CHOOSE g : Rec(g)) = [U \in SUBSET S |-> SumOver(f, U)]
    BY <2>3, <2>4, InstantStartAssumption, SumUnique
  <2> QED
    BY <2>1, <2>5
<1>3. SumOver(NodeGpus, Node) \in Int
  <2>1. \A n \in Node : NodeGpus[n] \in Int
    BY PlacementAssumption
  <2> QED
    BY <2>1, PlacementAssumption, SumInt
<1>4. SumOver(f, Guaranteed) \in Int
  <2>1. \A w \in Guaranteed : f[w] \in Int
    BY InstantStartAssumption
  <2> HIDE DEF f
  <2> QED
    BY <2>1, InstantStartAssumption, SumInt
<1> QED
  BY <1>1, <1>2, <1>3, <1>4

(* What is left when all that is guaranteed is set aside is a number.      *)
LEMMA SpareInt == Spare \in Int
<1> DEFINE A == MapThenSumSet(LAMBDA n : NodeGpus[n], Node)
           B == MapThenSumSet(LAMBDA w : TrainingQuota[w] + DeploymentQuota[w], Guaranteed)
<1>1. A \in Int /\ B \in Int
  BY SpareParts
<1>2. Spare = A - B
  BY DEF Spare
<1> HIDE DEF A, B
<1> QED
  BY <1>1, <1>2

(* The sums that the checks compute.                                       *)
LEMMA ChecksSum ==
  ASSUME NEW v, PodSet(v)
  PROVE  /\ Counted(v)
         /\ \A n : Used(v, n) = Held(v \cap OnNode(n))
         /\ \A o : UsedOfQuota(v, o) = Held(v \cap Like(o))
         /\ FreeGpus(v) - StillGuaranteed(v) = Spare - Held(v \cap Loose)
         /\ FreeGpus(v) \in Int /\ StillGuaranteed(v) \in Int
<1>1. Counted(v)
  BY DEF PodSet, Counted, Pod
<1>2. \A n : {p \in v : p.node = n} = v \cap OnNode(n)
  BY DEF PodSet, OnNode
<1>3. \A o : {p \in v : /\ WorkspaceOf[OwnerOf(p.item)] = WorkspaceOf[o]
                        /\ SameUsage(o, p.item)} = v \cap Like(o)
  BY DEF PodSet, Like
<1> DEFINE bound == {p \in v : WorkspaceOf[OwnerOf(p.item)] \in Guaranteed}
           A == MapThenSumSet(LAMBDA n : NodeGpus[n], Node)
           B == MapThenSumSet(LAMBDA w : TrainingQuota[w] + DeploymentQuota[w], Guaranteed)
<1>4. v \ Loose = bound
  BY DEF PodSet, Loose
<1>5. Held(v) = Held(v \ Loose) + Held(v \cap Loose) /\ Held(v \ Loose) \in Nat
  BY <1>1, HeldSplit DEF Counted
<1>6. Held(v) \in Nat
  BY <1>1, HeldNat DEF Counted
<1>7. Held(v \cap Loose) \in Nat
  <2>1. IsFiniteSet(v \cap Loose) /\ \A p \in v \cap Loose : p.gpus \in Nat
    BY <1>1, FS_Subset DEF Counted
  <2> QED
    BY <2>1, HeldNat
<1>8. /\ FreeGpus(v) = A - Held(v) /\ StillGuaranteed(v) = B - Held(bound)
      /\ Spare = A - B
  BY DEF FreeGpus, StillGuaranteed, GpusOf, Held, Spare
<1>9. A \in Int /\ B \in Int
  BY SpareParts
<1> HIDE DEF A, B, bound
<1>10. FreeGpus(v) - StillGuaranteed(v) = Spare - Held(v \cap Loose)
       /\ FreeGpus(v) \in Int /\ StillGuaranteed(v) \in Int
  <2> DEFINE h == Held(v)
             x == Held(v \ Loose)
             y == Held(v \cap Loose)
  <2>1. h \in Int /\ x \in Int /\ y \in Int /\ h = x + y
    BY <1>5, <1>6, <1>7
  <2>2. FreeGpus(v) = A - h /\ StillGuaranteed(v) = B - x /\ Spare = A - B
    BY <1>4, <1>8
  <2> HIDE DEF h, x
  <2>3. (A - h) - (B - x) = (A - B) - y /\ A - h \in Int /\ B - x \in Int
    <3> HIDE DEF y
    <3> QED
      BY <1>9, <2>1
  <2> QED
    BY <2>2, <2>3
<1> QED
  BY <1>1, <1>2, <1>3, <1>10 DEF Used, UsedOfQuota, GpusOf, Held

(* Fewer pods hold less, and one more pod adds its GPUs to its classes.    *)
LEMMA ClassNat ==
  ASSUME NEW v, PodSet(v), NEW K
  PROVE  Held(v \cap K) \in Nat /\ \A S \in SUBSET v : Held(S \cap K) <= Held(v \cap K)
<1>1. IsFiniteSet(v \cap K) /\ \A p \in v \cap K : p.gpus \in Nat
  BY FS_Subset DEF PodSet, Pod
<1>2. \A S \in SUBSET v : S \cap K \in SUBSET (v \cap K)
  OBVIOUS
<1> QED
  BY <1>1, <1>2, HeldNat, HeldSubset

(* One pod more in some class of pods.                                     *)
LEMMA ClassAdd ==
  ASSUME NEW v, PodSet(v), NEW S \in SUBSET v, NEW K, NEW q \in Pod
  PROVE  Held((S \cup {q}) \cap K) <= Held(v \cap K) + (IF q \in K THEN q.gpus ELSE 0)
<1>1. Held(v \cap K) \in Nat /\ Held(S \cap K) <= Held(v \cap K) /\ q.gpus \in Nat
  BY ClassNat DEF Pod
<1>2. PodSet(S)
  BY FS_Subset DEF PodSet
<1>3. Held(S \cap K) \in Nat
  BY <1>2, ClassNat
<1>4. CASE q \in K /\ q \notin S
  <2>1. (S \cup {q}) \cap K = (S \cap K) \cup {q} /\ q \notin S \cap K
    BY <1>4
  <2>2. IsFiniteSet(S \cap K) /\ \A p \in S \cap K : p.gpus \in Nat
    BY <1>2, FS_Subset DEF PodSet, Pod
  <2> QED
    BY <1>1, <1>3, <1>4, <2>1, <2>2, HeldAdd
<1>5. CASE ~(q \in K /\ q \notin S)
  <2>1. (S \cup {q}) \cap K = S \cap K
    BY <1>5
  <2> QED
    BY <1>1, <1>3, <2>1
<1> QED
  BY <1>4, <1>5

(* Part of what fits, fits.                                                *)
LEMMA FittingPart ==
  ASSUME NEW v, PodSet(v), Fitting(v), NEW S \in SUBSET v
  PROVE  Fitting(S)
<1>1. \A K : Held(v \cap K) \in Nat /\ Held(S \cap K) <= Held(v \cap K)
  BY ClassNat
<1>2. PodSet(S)
  BY FS_Subset DEF PodSet
<1>3. \A K : Held(S \cap K) \in Nat
  BY <1>2, ClassNat
<1>4. ASSUME NEW K, NEW m \in Int, Held(v \cap K) <= m
      PROVE  Held(S \cap K) <= m
  <2>1. Held(v \cap K) \in Nat /\ Held(S \cap K) <= Held(v \cap K) /\ Held(S \cap K) \in Nat
    BY <1>1, <1>3
  <2> QED
    BY <1>4, <2>1
<1>5. ASSUME NEW n \in Node PROVE Held(S \cap OnNode(n)) <= NodeGpus[n]
  <2>1. NodeGpus[n] \in Int
    BY PlacementAssumption
  <2> QED
    BY <1>4, <2>1 DEF Fitting
<1>6. ASSUME NEW o \in Owner PROVE Held(S \cap Like(o)) <= QuotaOf(o)
  <2>1. QuotaOf(o) \in Int
    BY QuotaNat
  <2> QED
    BY <1>4, <2>1 DEF Fitting
<1>7. ASSUME Spare >= 0 PROVE Held(S \cap Loose) <= Spare
  BY <1>4, <1>7, SpareInt DEF Fitting
<1> QED
  BY <1>5, <1>6, <1>7 DEF Fitting

(* The first of a gang that a list admits.                                 *)
LEMMA PlaceFits ==
  ASSUME NEW v, PodSet(v), NEW o \in Owner, NEW g \in Places(v, o)
  PROVE  /\ g \in [node : Node, gpus : Nat] /\ g.gpus <= Gpus[o]
         /\ g.gpus > 0 => g.gpus <= Free(v, g.node)
         /\ Admitted(v, o)
<1>1. PICK h \in Found(v, o) : g = h[1]
  BY DEF Places
<1>2. Admitted(v, o) /\ h \in Gangs(v, o)
  BY <1>1 DEF Found
<1>3. Counted(v) /\ Gpus[o] \in Nat /\ Allowed[o] \in SUBSET Node
  BY ChecksSum, InstantStartAssumption DEF Owner
<1>4. Placed(v, Gpus[o], h)
  <2>1. CASE Gpus[o] = 0
    BY <1>2, <1>3, <2>1, CpuGangPlaced DEF Gangs
  <2>2. CASE Gpus[o] # 0 /\ h \in GpuGangs(v, Allowed[o] \ MigNode, Gpus[o])
    BY <1>3, <2>2, GpuGangPlaced
  <2>3. CASE Gpus[o] = 1 /\ h \in IntraGangs(v, Allowed[o] \cap MigNode, 1)
    BY <1>3, <2>3, IntraGangPlaced
  <2> QED
    BY <1>2, <2>1, <2>2, <2>3 DEF Gangs
<1> QED
  BY <1>1, <1>2, <1>3, <1>4, FirstPlaced

(* A pod put where a list with all pods admits it fits in.                 *)
LEMMA AdmittedFits ==
  ASSUME NEW v, PodSet(v), NEW S \in SUBSET v, Fitting(S),
         NEW i \in Item, NEW g \in Places(v, OwnerOf(i))
  PROVE  Fitting(S \cup {[item |-> i, node |-> g.node, gpus |-> g.gpus]})
<1> DEFINE o == OwnerOf(i)
           p == [item |-> i, node |-> g.node, gpus |-> g.gpus]
<1>1. o \in Owner
  BY InstantStartAssumption DEF OwnerOf, Item, Owner
<1>2. /\ g \in [node : Node, gpus : Nat] /\ g.gpus <= Gpus[o]
      /\ g.gpus > 0 => g.gpus <= Free(v, g.node)
      /\ Admitted(v, o)
  BY <1>1, PlaceFits
<1>3. p \in Pod /\ p.item = i /\ p.node = g.node /\ p.gpus = g.gpus /\ g.gpus \in Nat
      /\ g.node \in Node
  BY <1>2 DEF Pod
<1>4. Gpus[o] \in Nat /\ QuotaOf(o) \in Nat /\ Spare \in Int
      /\ \A n \in Node : NodeGpus[n] \in Nat
  BY <1>1, QuotaNat, SpareInt, PlacementAssumption
<1>5. PodSet(S)
  BY FS_Subset DEF PodSet
<1> HIDE DEF p, o
<1>6. ASSUME NEW K, NEW m \in Int, Held(S \cap K) <= m,
             p \in K /\ p.gpus > 0 => p.gpus <= m - Held(v \cap K)
      PROVE  Held((S \cup {p}) \cap K) <= m
  <2>1. /\ Held((S \cup {p}) \cap K) <= Held(v \cap K) + (IF p \in K THEN p.gpus ELSE 0)
        /\ Held((S \cup {p}) \cap K) <= Held(S \cap K) + (IF p \in K THEN p.gpus ELSE 0)
    BY <1>3, <1>5, ClassAdd
  <2>2. Held(v \cap K) \in Nat /\ Held(S \cap K) \in Nat
    BY <1>5, ClassNat
  <2>3. PodSet(S \cup {p})
    BY <1>3, <1>5, FS_AddElement DEF PodSet
  <2>4. Held((S \cup {p}) \cap K) \in Nat
    BY <2>3, ClassNat
  <2> QED
    BY <1>3, <1>6, <2>1, <2>2, <2>4
<1>10. ASSUME NEW n \in Node
       PROVE  Held((S \cup {p}) \cap OnNode(n)) <= NodeGpus[n]
  <2>1. Held(S \cap OnNode(n)) <= NodeGpus[n] /\ NodeGpus[n] \in Int
    BY <1>4 DEF Fitting
  <2>2. ASSUME p \in OnNode(n), p.gpus > 0
        PROVE  p.gpus <= NodeGpus[n] - Held(v \cap OnNode(n))
    <3>1. n = g.node
      BY <1>3, <2>2 DEF OnNode
    <3>2. Used(v, n) = Held(v \cap OnNode(n))
      BY ChecksSum
    <3> QED
      BY <1>2, <1>3, <2>2, <3>1, <3>2 DEF Free
  <2> QED
    BY <1>6, <2>1, <2>2
<1>11. ASSUME NEW u \in Owner
       PROVE  Held((S \cup {p}) \cap Like(u)) <= QuotaOf(u)
  <2>1. Held(S \cap Like(u)) <= QuotaOf(u) /\ QuotaOf(u) \in Int
    BY QuotaNat DEF Fitting
  <2>2. ASSUME p \in Like(u), p.gpus > 0
        PROVE  p.gpus <= QuotaOf(u) - Held(v \cap Like(u))
    <3>1. WorkspaceOf[o] = WorkspaceOf[u] /\ ((o \in Tool) = (u \in Tool))
      <4>1. WorkspaceOf[o] = WorkspaceOf[u] /\ SameUsage(u, i)
        BY <1>3, <2>2 DEF Like, o
      <4>2. i \in Tool <=> o \in Tool
        BY InstantStartAssumption DEF o, OwnerOf, Item
      <4> QED
        BY <4>1, <4>2 DEF SameUsage
    <3>2. QuotaOf(o) = QuotaOf(u) /\ Like(o) = Like(u)
      BY <3>1 DEF QuotaOf, Like, SameUsage
    <3>3. Gpus[o] # 0
      BY <1>2, <1>3, <1>4, <2>2
    <3>4. UsedOfQuota(v, o) = Held(v \cap Like(u))
      BY <3>2, ChecksSum
    <3>5. QuotaOf(u) - Held(v \cap Like(u)) >= Gpus[o]
      BY <1>2, <3>2, <3>3, <3>4 DEF Admitted, InQuota
    <3>6. Held(v \cap Like(u)) \in Nat
      BY ClassNat
    <3> QED
      BY <1>2, <1>3, <1>4, <2>1, <3>5, <3>6
  <2> QED
    BY <1>6, <2>1, <2>2
<1>12. ASSUME Spare >= 0
       PROVE  Held((S \cup {p}) \cap Loose) <= Spare
  <2>1. Held(S \cap Loose) <= Spare
    BY <1>12 DEF Fitting
  <2>2. ASSUME p \in Loose, p.gpus > 0
        PROVE  p.gpus <= Spare - Held(v \cap Loose)
    <3>1. WorkspaceOf[o] \notin Guaranteed
      BY <1>3, <2>2 DEF Loose, o
    <3>2. Gpus[o] # 0
      BY <1>2, <1>3, <1>4, <2>2
    <3>3. FreeGpus(v) - StillGuaranteed(v) >= Gpus[o]
      BY <1>2, <3>1, <3>2 DEF Admitted, GuaranteeKept
    <3>4. Held(v \cap Loose) \in Nat
      BY ClassNat
    <3>5. Spare - Held(v \cap Loose) >= Gpus[o]
      BY <3>3, ChecksSum
    <3> QED
      BY <1>2, <1>3, <1>4, <3>4, <3>5
  <2> QED
    BY <1>4, <1>6, <2>1, <2>2
<1>13. Fitting(S \cup {p})
  BY <1>10, <1>11, <1>12 DEF Fitting
<1> QED
  BY <1>13 DEF p

(* An empty cluster fits.                                                  *)
LEMMA FitInit == Init => FitInv
<1> SUFFICES ASSUME Init PROVE FitInv
  OBVIOUS
<1>1. \A K : Held(pods \cap K) = 0
  <2>1. \A K : pods \cap K = {}
    BY DEF Init
  <2> QED
    BY <2>1, HeldEmpty
<1>2. ASSUME NEW n \in Node PROVE Held(pods \cap OnNode(n)) <= NodeGpus[n]
  <2>1. Held(pods \cap OnNode(n)) = 0 /\ NodeGpus[n] \in Nat
    BY <1>1, PlacementAssumption
  <2> QED
    BY <2>1
<1>3. ASSUME NEW o \in Owner PROVE Held(pods \cap Like(o)) <= QuotaOf(o)
  <2>1. Held(pods \cap Like(o)) = 0 /\ QuotaOf(o) \in Nat
    BY <1>1, QuotaNat
  <2> QED
    BY <2>1
<1>4. Fitting(pods)
  <2>1. Held(pods \cap Loose) = 0
    BY <1>1
  <2> QED
    BY <1>2, <1>3, <2>1, SpareInt DEF Fitting
<1>5. \A r \in Request : req[r].pc # "create"
  BY DEF Init, NoRequest
<1> QED
  BY <1>4, <1>5 DEF FitInv

(* Pods go away, and requests that found a place wait.                     *)
LEMMA FitStays ==
  ASSUME Lists, Items, PlaceOK, FitInv, pods' \subseteq pods, missed => missed',
         \A x \in Request : req'[x].pc = "create" => req'[x] = req[x]
  PROVE  PlaceOK' /\ FitInv'
<1>1. PlaceOK'
  BY DEF PlaceOK
<1> SUFFICES ASSUME ~missed' PROVE FitInv'
  BY <1>1 DEF FitInv
<1>2. Fitting(pods) /\ \A r \in Request : req[r].pc = "create" => Fitting(pods \cup Pending(r))
  BY DEF FitInv
<1>3. Fitting(pods')
  BY <1>2, FittingPart DEF Lists
<1>4. ASSUME NEW r \in Request, req'[r].pc = "create"
      PROVE  Fitting(pods' \cup Pending(r)')
  <2>1. req[r].pc = "create" /\ Pending(r)' = Pending(r)
    BY <1>4 DEF Pending
  <2>2. PICK p \in Pod : Pending(r) = {p}
    BY <2>1, PendingPod
  <2>3. PodSet(pods \cup Pending(r))
    BY <2>2, FS_AddElement DEF Lists, PodSet
  <2>4. pods' \cup Pending(r) \in SUBSET (pods \cup Pending(r))
    OBVIOUS
  <2> QED
    BY <1>2, <2>1, <2>3, <2>4, FittingPart
<1>5. Fitting(pods)'
  BY <1>3 DEF Fitting
<1>6. \A r \in Request : req'[r].pc = "create" => Fitting(pods \cup Pending(r))'
  BY <1>4 DEF Fitting
<1> QED
  BY <1>5, <1>6 DEF FitInv

(* A request that holds or takes the lock to check reads every pod.        *)
LEMMA CheckSees ==
  ASSUME ListInv, ~missed, NEW r \in Request, req[r].pc = "check", lock \in {NoLock, r}
  PROVE  pods \subseteq View(r).pods
<1>1. ~Creating(RefreshPcs)
  BY InstantStartAssumption DEF Creating, NoLock, RefreshPcs
<1> QED
  BY <1>1, ListsSeen

(* A place is chosen.                                                      *)
LEMMA FitChosen ==
  ASSUME ListInv, Lists, Items, PlaceOK, FitInv, NEW r \in Request, Choose(r)
  PROVE  PlaceOK' /\ FitInv'
<1>1. Control
  BY DEF ListInv
<1>2. req[r].pc = "check" /\ lock \in {NoLock, r} /\ UNCHANGED <<pods, missed>>
  BY DEF Choose, HoldsOrTakes
<1>3. PICK g \in Places(Listed(r), OwnerOf(req[r].item)) :
        Become(r, [req[r] EXCEPT !.pc = "create", !.place = {g}])
  BY DEF Choose
<1>4. PICK op, i, S : req[r] = [pc |-> req[r].pc, op |-> op, item |-> i, place |-> S]
  BY <1>1, <1>2, StartRecord DEF StartPcs
<1> DEFINE q == [req[r] EXCEPT !.pc = "create", !.place = {g}]
<1>5. q.place = {g} /\ q.item = req[r].item
  BY <1>4
<1> HIDE DEF q
<1>6. req'[r] = q /\ \A x \in Request : x # r => req'[x] = req[x]
  BY <1>1, <1>3, OthersStay DEF q
<1>7. PodSet(View(r).pods)
  BY DEF View, Lists
<1>8. req[r].item \in Item /\ OwnerOf(req[r].item) \in Owner
  BY <1>2, ItemOwner DEF Makes
<1>9. g \in [node : Node, gpus : Nat]
  BY <1>3, <1>7, <1>8, PlaceFits DEF Listed
<1>10. PlaceOK'
  BY <1>5, <1>6, <1>9 DEF PlaceOK
<1>11. ASSUME NEW x \in Request, x # r
       PROVE  req'[x].pc # "create"
  BY <1>1, <1>2, <1>6, <1>11, InstantStartAssumption DEF Control, NoLock
<1> DEFINE p == [item |-> req[r].item, node |-> g.node, gpus |-> g.gpus]
<1>12. Pending(r)' = {p}
  BY <1>5, <1>6 DEF Pending
<1>13. ASSUME ~missed
       PROVE  Fitting(pods) /\ Fitting(pods \cup {p})
  <2>1. Fitting(pods)
    BY <1>13 DEF FitInv
  <2>2. pods \in SUBSET View(r).pods
    BY <1>2, <1>13, CheckSees
  <2> QED
    BY <1>3, <1>7, <1>8, <2>1, <2>2, AdmittedFits DEF Listed
<1> HIDE DEF p
<1>14. ~missed => Fitting(pods)' /\ Fitting(pods \cup Pending(r))'
  BY <1>2, <1>12, <1>13 DEF Fitting
<1>15. FitInv'
  BY <1>2, <1>11, <1>14 DEF FitInv
<1> QED
  BY <1>10, <1>15

(* A pod is made: where it was to be.                                      *)
LEMMA FitMade ==
  ASSUME ListInv, Items, Lists, PlaceOK, FitInv, NEW r \in Request, Created(r)
  PROVE  PlaceOK' /\ FitInv'
<1>1. Control /\ (missed => missed')
  BY DEF ListInv, Created, CreatePod, CreateTimesOut
<1>2. req[r].pc = "create" /\ pods' = pods \cup Pending(r)
  BY <1>1, CreatedNext
<1>3. \A x \in Request : req'[x].pc # "create"
  BY <1>1, CreatedNext DEF Control
<1>4. ~missed' => Fitting(pods)'
  BY <1>1, <1>2 DEF FitInv, Fitting
<1> QED
  BY <1>3, <1>4 DEF PlaceOK, FitInv

(* The inductive invariant with the types and what fits.                   *)
StartInv == ListInv /\ Items /\ TypeInv /\ FitInv

(* Every step keeps the types and the sums.                                *)
LEMMA FitNext ==
  ASSUME StartInv, [Next]_vars
  PROVE  TypeInv' /\ FitInv'
<1>1. ListInv /\ Items /\ Control /\ Rows /\ Lists /\ PlaceOK /\ FitInv
  BY DEF StartInv, ListInv, TypeInv
<1>2. Rows'
  BY <1>1, RowsNext
<1> SUFFICES Lists' /\ PlaceOK' /\ FitInv'
  BY <1>2 DEF TypeInv
<1>3. CASE Tick
  <2>1. UNCHANGED <<pods, req, missed>>
    BY <1>3 DEF Tick, TickStart, TickRefresh, TickEnd, cluster
  <2> QED
    BY <1>1, <1>3, <2>1, ListsTick, FitStays
<1>4. ASSUME NEW r \in Request, Moves(r), req'[r].pc # "create"
      PROVE  Lists' /\ PlaceOK' /\ FitInv'
  BY <1>1, <1>4, MovesQuiet, ListsPlain, FitStays
<1>5. ASSUME NEW r \in Request, Client(r)
      PROVE  Lists' /\ PlaceOK' /\ FitInv'
  BY <1>1, <1>4, <1>5, ClientPlain, NotCreating
<1>6. ASSUME NEW r \in Request,
             \/ \E w \in Worker : AddRow(r, w)
             \/ AddRefused(r) \/ NoPlace(r) \/ CreateFails(r)
      PROVE  Lists' /\ PlaceOK' /\ FitInv'
  BY <1>1, <1>4, <1>6, StartsPlain, NotCreating
<1>7. ASSUME NEW r \in Request,
             \/ ListTarget(r) \/ RemovePods(r) \/ RemoveServices(r) \/ DeleteRow(r)
             \/ DeleteDeployment(r)
      PROVE  Lists' /\ PlaceOK' /\ FitInv'
  BY <1>1, <1>4, <1>7, StopsPlain, NotCreating
<1>8. ASSUME NEW r \in Request, Choose(r)
      PROVE  Lists' /\ PlaceOK' /\ FitInv'
  BY <1>1, <1>8, StartsPlain, ListsPlain, FitChosen
<1>9. ASSUME NEW r \in Request, Created(r)
      PROVE  Lists' /\ PlaceOK' /\ FitInv'
  BY <1>1, <1>9, ListsCreate, FitMade
<1>10. ASSUME NEW r \in Request, Refresh(r) \/ EndRefresh(r)
       PROVE  Lists' /\ PlaceOK' /\ FitInv'
  <2>1. Lists' /\ req'[r].pc # "create"
    BY <1>1, <1>10, ListsRefresh
  <2>2. pods' = pods /\ (missed => missed')
    <3>1. CASE Refresh(r)
      BY <3>1 DEF Refresh, cluster
    <3>2. CASE EndRefresh(r)
      <4>1. pods' = pods /\ (missed' = missed \/ missed' = (missed \/ lock = r))
        BY <3>2 DEF EndRefresh, cluster
      <4> QED
        BY <1>1, <4>1 DEF Control
    <3> QED
      BY <1>10, <3>1, <3>2
  <2>3. \A x \in Request : x # r => req'[x] = req[x]
    <3>1. \E q : Become(r, q)
      BY <1>10 DEF Refresh, EndRefresh, Goto, Answer
    <3> QED
      BY <1>1, <3>1, OthersStay
  <2> QED
    BY <1>1, <2>1, <2>2, <2>3, FitStays
<1>11. CASE UNCHANGED vars
  <2>1. UNCHANGED <<pods, bytes, memory, tick, req, missed>>
    BY <1>11 DEF vars, cluster, share
  <2> QED
    BY <1>1, <2>1, FitStays DEF Lists
<1> QED
  BY <1>3, <1>5, <1>6, <1>7, <1>8, <1>9, <1>10, <1>11
     DEF Next, Serve, Created

(* All parts of the invariant together.                                    *)
LEMMA StartInvariant == Spec => []StartInv
<1>1. ListInv /\ Items /\ TypeInv /\ FitInv /\ [Next]_vars => TypeInv' /\ FitInv'
  BY FitNext DEF StartInv
<1>2. StartInv <=> ListInv /\ Items /\ TypeInv /\ FitInv
  BY DEF StartInv
<1> QED
  BY <1>1, <1>2, TypesInit, FitInit, ItemInvariant, PTL DEF Spec

(* All of the state keeps its type, and the holder of the lock is a        *)
(* request between its check and its refresh, or the scheduler.            *)
THEOREM StartTypes == Spec => []TypeOK
<1>1. StartInv => TypeOK
  <2> SUFFICES ASSUME StartInv PROVE TypeOK
    OBVIOUS
  <2>1. Control /\ Rows /\ Lists
    BY DEF StartInv, ListInv, TypeInv
  <2>2. \A L, n : n \in Nat /\ IsList(L, n) /\ PodSet(L.pods) => L \in List
    <3> SUFFICES ASSUME NEW L, NEW n \in Nat, NEW v \in 0 .. n, NEW S,
                        L = [version |-> v, pods |-> S], PodSet(L.pods)
                 PROVE  L \in List
      BY DEF IsList
    <3>1. v \in Nat /\ S \in SUBSET Pod
      BY DEF PodSet
    <3> QED
      BY <3>1 DEF List
  <2>3. bytes \in List /\ memory \in [Request -> List]
    BY <2>1, <2>2 DEF Control, Lists
  <2> QED
    BY <2>1, <2>3 DEF TypeOK, Control, Rows, Lists, PodSet
<1> QED
  BY <1>1, StartInvariant, PTL

(* No node has more GPUs given away than it has, unless a pod is unseen.   *)
THEOREM NodesHold == Spec => []NodeNotOversubscribed
<1>1. StartInv => NodeNotOversubscribed
  BY ChecksSum DEF StartInv, TypeInv, Lists, FitInv, Fitting, NodeNotOversubscribed
<1> QED
  BY <1>1, StartInvariant, PTL

(* Tools and workers stay within their quotas, unless a pod is unseen.     *)
THEOREM QuotasHold == Spec => []QuotasHeld
<1>1. StartInv => QuotasHeld
  BY ChecksSum DEF StartInv, TypeInv, Lists, FitInv, Fitting, QuotasHeld
<1> QED
  BY <1>1, StartInvariant, PTL

(* What is guaranteed and not used stays free, unless a pod is unseen, if  *)
(* the nodes have what is guaranteed at all.                               *)
THEOREM GuaranteesHold == ASSUME Spare >= 0 PROVE Spec => []GuaranteeHeld
<1>1. StartInv => GuaranteeHeld
  <2> SUFFICES ASSUME StartInv, ~missed
               PROVE  FreeGpus(pods) >= StillGuaranteed(pods)
    BY DEF GuaranteeHeld
  <2>1. PodSet(pods) /\ Fitting(pods)
    BY DEF StartInv, TypeInv, Lists, FitInv
  <2>2. /\ Held(pods \cap Loose) <= Spare /\ Held(pods \cap Loose) \in Nat /\ Spare \in Int
        /\ FreeGpus(pods) - StillGuaranteed(pods) = Spare - Held(pods \cap Loose)
        /\ FreeGpus(pods) \in Int /\ StillGuaranteed(pods) \in Int
    BY <2>1, ChecksSum, ClassNat, SpareInt DEF Fitting
  <2> QED
    BY <2>2
<1> QED
  BY <1>1, StartInvariant, PTL

------------------------------------------------------------------------------
(* The stop of a worker                                                    *)

(* A stop with other workers to spare is about the one worker only.        *)
Spares(q) ==
  /\ q.target \in Worker
  /\ \A p \in q.spared : p.item # q.target
  /\ q.pc # "list" => ~q.served /\ \A p \in q.found : p.item = q.target
SparedInv ==
  \A r \in Request :
    req[r].pc \in {"list", "remove", "unserve"} /\ req[r].spared # {} => Spares(req[r])

(* A request goes on to something else, or to a stop that spares others.   *)
LEMMA SparedStays ==
  ASSUME Control, SparedInv, NEW r \in Request, NEW q, Become(r, q),
         q.pc \in {"list", "remove", "unserve"} /\ q.spared # {} => Spares(q)
  PROVE  SparedInv'
<1>1. req'[r] = q /\ \A x \in Request : x # r => req'[x] = req[x]
  BY OthersStay
<1> QED
  BY <1>1 DEF SparedInv, Spares

(* A list with another worker's pod besides its own: not the last worker.  *)
LEMMA NotLast ==
  ASSUME StartInv, NEW r \in Request, NEW w \in Worker, Besides(w) # {},
         PodsFor(Listed(r), w) # {}
  PROVE  ~Last(r, w)
<1> DEFINE D == PodsOf(Listed(r), DeploymentOf[w])
<1>1. pods \subseteq Listed(r)
  <2>1. ~missed /\ ~Creating(RefreshPcs)
    BY DEF Besides, Refreshing, Creating
  <2> QED
    BY <2>1, ListsSeen DEF StartInv, Listed
<1>2. PodSet(Listed(r))
  BY DEF StartInv, TypeInv, Lists, Listed, View
<1>3. PICK p \in pods : OwnerOf(p.item) = DeploymentOf[w] /\ p.item # w
  BY DEF Besides, PodsOf, PodsFor
<1>4. PICK q \in Listed(r) : q.item = w
  BY DEF PodsFor
<1>5. OwnerOf(w) = DeploymentOf[w]
  BY InstantStartAssumption DEF OwnerOf
<1>6. p \in D /\ q \in D /\ p # q
  BY <1>1, <1>3, <1>4, <1>5 DEF PodsOf
<1>7. IsFiniteSet(D)
  BY <1>2, FS_Subset DEF PodSet, PodsOf
<1>8. Cardinality({p, q}) <= Cardinality(D) /\ Cardinality(D) \in Nat
  BY <1>6, <1>7, FS_Subset, FS_CardinalityType
<1>9. Cardinality({p, q}) = 2
  <2>1. IsFiniteSet({p}) /\ Cardinality({p}) = 1
    BY FS_Singleton
  <2>2. Cardinality({p} \cup {q}) = Cardinality({p}) + 1
    BY <1>6, <2>1, FS_AddElement
  <2>3. {p, q} = {p} \cup {q}
    OBVIOUS
  <2> QED
    BY <2>1, <2>2, <2>3
<1> QED
  BY <1>8, <1>9 DEF Last

(* Requests come in.                                                       *)
LEMMA SparedClient ==
  ASSUME StartInv, SparedInv, NEW r \in Request, Client(r)
  PROVE  SparedInv'
<1>1. Control
  BY DEF StartInv, ListInv
<1>2. ASSUME NEW at, NEW op, NEW i, Starting(r, at, op, i), at \in {"check", "admit"}
      PROVE  SparedInv'
  <2> DEFINE q == [pc |-> at, op |-> op, item |-> i, place |-> {}]
  <2>1. Become(r, q) /\ q.pc = at
    BY <1>2 DEF Starting
  <2> HIDE DEF q
  <2> QED
    BY <1>1, <1>2, <2>1, SparedStays
<1>3. ASSUME NEW at, NEW op, NEW i, NEW t, NEW S, Stopping(r, at, op, i, t, S),
             \/ at \in {"delete_row", "delete"} \/ Besides(i) = {}
             \/ at = "list" /\ i \in Worker /\ t = i
      PROVE  SparedInv'
  <2> DEFINE q == [pc |-> at, op |-> op, item |-> i, target |-> t, found |-> S,
                   served |-> FALSE, spared |-> Besides(i)]
  <2>1. Become(r, q) /\ q.pc = at /\ q.spared = Besides(i) /\ q.target = t
    BY <1>3 DEF Stopping
  <2>2. \A p \in Besides(i) : p.item # i
    <3>1. \A p \in Besides(i) : p \notin PodsFor(pods, i) /\ p \in pods
      BY DEF Besides, PodsOf
    <3> QED
      BY <3>1 DEF PodsFor
  <2> HIDE DEF q
  <2> QED
    BY <1>1, <1>3, <2>1, <2>2, SparedStays DEF Spares
<1>4. ASSUME NEW t \in Tool, OpenStartTool(r, t) \/ OpenStopTool(r, t)
      PROVE  SparedInv'
  <2>1. Besides(t) = {}
    BY InstantStartAssumption DEF Besides
  <2> QED
    BY <1>2, <1>3, <1>4, <2>1 DEF OpenStartTool, OpenStopTool
<1>5. ASSUME NEW d \in Deployment,
             OpenAddWorker(r, d) \/ OpenStopDeployment(r, d) \/ OpenDeleteDeployment(r, d)
      PROVE  SparedInv'
  <2>1. Besides(d) = {}
    BY InstantStartAssumption DEF Besides
  <2> QED
    BY <1>2, <1>3, <1>5, <2>1 DEF OpenAddWorker, OpenStopDeployment, OpenDeleteDeployment
<1>6. ASSUME NEW w \in Worker, OpenDeleteStopped(r, w)
      PROVE  SparedInv'
  BY <1>3, <1>6 DEF OpenDeleteStopped
<1>7. ASSUME NEW w \in Worker, NEW op \in Ops, OpenStopWorker(r, w, op)
      PROVE  SparedInv'
  <2>1. /\ PodsFor(Listed(r), w) # {}
        /\ Stopping(r, "list", op, w, IF Last(r, w) THEN DeploymentOf[w] ELSE w, {})
    BY <1>7 DEF OpenStopWorker
  <2>2. CASE Besides(w) = {}
    BY <1>3, <2>1, <2>2
  <2>3. CASE Besides(w) # {}
    <3>1. ~Last(r, w)
      BY <2>1, <2>3, NotLast
    <3>2. Stopping(r, "list", op, w, w, {})
      BY <2>1, <3>1
    <3> QED
      BY <1>3, <3>2
  <2> QED
    BY <2>2, <2>3
<1> QED
  BY <1>4, <1>5, <1>6, <1>7 DEF Client

(* A stop lists the objects of its target: of a worker, pods only.         *)
LEMMA SparedListed ==
  ASSUME StartInv, SparedInv, NEW r \in Request, ListTarget(r)
  PROVE  SparedInv'
<1>1. Control /\ Rows /\ PodSet(pods)
  BY DEF StartInv, ListInv, TypeInv, Lists
<1> DEFINE x == req[r].target
           q == [req[r] EXCEPT !.pc = "remove", !.found = Labelled(pods, x),
                               !.served = x \in services]
<1>2. Become(r, q)
  BY DEF ListTarget
<1>3. /\ q.target = x /\ q.spared = req[r].spared
      /\ q.found = Labelled(pods, x) /\ q.served = (x \in services)
  <2>1. PICK op, i, t, S, b, e :
          req[r] = [pc |-> req[r].pc, op |-> op, item |-> i, target |-> t, found |-> S,
                    served |-> b, spared |-> e]
    BY <1>1, StopRecord DEF ListTarget
  <2> QED
    BY <2>1
<1> HIDE DEF q
<1>4. ASSUME req[r].spared # {}
      PROVE  Spares(q)
  <2>1. x \in Worker /\ \A p \in req[r].spared : p.item # x
    BY <1>4 DEF ListTarget, SparedInv, Spares
  <2>2. x \notin Owner
    BY <2>1, InstantStartAssumption DEF Owner
  <2>3. x \notin services
    BY <1>1, <2>2 DEF Rows
  <2>4. \A p \in pods : OwnerOf(p.item) # x
    BY <1>1, <2>2, InstantStartAssumption DEF PodSet, Pod, Item, Owner, OwnerOf
  <2>5. \A p \in Labelled(pods, x) : p.item = x
    BY <2>4 DEF Labelled
  <2> QED
    BY <1>3, <2>1, <2>3, <2>5 DEF Spares
<1> QED
  BY <1>1, <1>2, <1>3, <1>4, SparedStays

(* A stop removes the pods it has found.                                   *)
LEMMA SparedRemoved ==
  ASSUME Control, SparedInv, NEW r \in Request, RemovePods(r)
  PROVE  SparedInv'
<1> DEFINE q == [req[r] EXCEPT !.pc = "unserve"]
<1>1. Become(r, q) /\ req[r].pc = "remove"
  BY DEF RemovePods, Goto
<1>2. /\ q.target = req[r].target /\ q.spared = req[r].spared
      /\ q.found = req[r].found /\ q.served = req[r].served
  <2>1. PICK op, i, t, S, b, e :
          req[r] = [pc |-> req[r].pc, op |-> op, item |-> i, target |-> t, found |-> S,
                    served |-> b, spared |-> e]
    BY <1>1, StopRecord
  <2> QED
    BY <2>1
<1> HIDE DEF q
<1>3. req[r].spared # {} => Spares(q)
  BY <1>1, <1>2 DEF SparedInv, Spares
<1> QED
  BY <1>1, <1>2, <1>3, SparedStays

(* Requests go on.                                                         *)
LEMMA SparedServe ==
  ASSUME StartInv, SparedInv, NEW r \in Request, Serve(r)
  PROVE  SparedInv'
<1>1. Control
  BY DEF StartInv, ListInv
<1>2. ASSUME NEW q, Become(r, q), q.pc \notin {"list", "remove", "unserve"}
      PROVE  SparedInv'
  BY <1>1, <1>2, SparedStays
<1>3. NoRequest.pc = "none"
  BY DEF NoRequest
<1>4. CASE \E w \in Worker : AddRow(r, w)
  BY <1>2, <1>4 DEF AddRow, Starting
<1>5. CASE \/ AddRefused(r) \/ NoPlace(r) \/ CreateFails(r) \/ CreateTimesOut(r)
           \/ DeleteRow(r) \/ DeleteDeployment(r)
  BY <1>2, <1>3, <1>5 DEF AddRefused, NoPlace, CreateFails, CreateTimesOut, DeleteRow,
     DeleteDeployment, Refuse, Answer
<1>6. CASE Choose(r)
  <2>1. PICK g : Become(r, [req[r] EXCEPT !.pc = "create", !.place = {g}])
    BY <1>6 DEF Choose
  <2>2. PICK op, i, S : req[r] = [pc |-> req[r].pc, op |-> op, item |-> i, place |-> S]
    BY <1>1, <1>6, StartRecord DEF Choose, StartPcs
  <2>3. [req[r] EXCEPT !.pc = "create", !.place = {g}].pc = "create"
    BY <2>2
  <2> QED
    BY <1>2, <2>1, <2>3
<1>7. ASSUME NEW op, NEW i, StartRefresh(r, op, i)
      PROVE  SparedInv'
  BY <1>2, <1>7 DEF StartRefresh
<1>8. CASE CreatePod(r) \/ RemoveServices(r)
  BY <1>2, <1>3, <1>7, <1>8 DEF CreatePod, RemoveServices, Answer
<1>9. CASE Refresh(r) \/ EndRefresh(r)
  <2>1. req[r].pc \in RefreshPcs
    BY <1>9 DEF Refresh, EndRefresh
  <2>2. PICK op, i, K : req[r] = [pc |-> req[r].pc, op |-> op, item |-> i, list |-> K]
    BY <1>1, <2>1, RefreshList, Zenon
  <2>3. Answered(req[r]).pc = "write" /\ Written(req[r]).pc = "publish"
    BY <2>2 DEF Answered, Written
  <2>4. [req[r] EXCEPT !.pc = "delete_row"].pc = "delete_row"
    BY <2>2
  <2>5. \E q : Become(r, q) /\ q.pc \in {"write", "publish", "delete_row", "none"}
    BY <1>3, <1>9, <2>3, <2>4 DEF Refresh, EndRefresh, Goto, Answer
  <2> QED
    BY <1>2, <2>5
<1> QED
  BY <1>1, <1>4, <1>5, <1>6, <1>8, <1>9, SparedListed, SparedRemoved DEF Serve

(* Whoever stops a worker while others run knows it.                       *)
LEMMA SparedInvariant == Spec => [](StartInv /\ SparedInv)
<1>1. StartInv /\ SparedInv /\ [Next]_vars => SparedInv'
  <2> SUFFICES ASSUME StartInv, SparedInv, [Next]_vars
               PROVE  SparedInv'
    OBVIOUS
  <2>1. CASE Tick \/ UNCHANGED vars
    BY <2>1 DEF Tick, TickStart, TickRefresh, TickEnd, vars, SparedInv, Spares
  <2> QED
    BY <2>1, SparedClient, SparedServe DEF Next
<1>2. Init => SparedInv
  BY DEF Init, SparedInv, NoRequest
<1> QED
  BY <1>1, <1>2, StartInvariant, PTL DEF Spec

(* The stop of a worker leaves the workers that ran besides it their pods  *)
(* and services.                                                           *)
THEOREM OthersSpared == Spec => StopSparesOthers
<1> DEFINE Left ==
      \A r \in Request :
        req[r].pc \in {"remove", "unserve"} /\ req'[r] # req[r] /\ req[r].spared # {} =>
          /\ pods \cap req[r].spared \subseteq pods'
          /\ UNCHANGED services
<1>1. StartInv /\ SparedInv /\ [Next]_vars => Left
  <2> SUFFICES ASSUME StartInv, SparedInv, [Next]_vars, NEW r \in Request,
                      req[r].pc \in {"remove", "unserve"}, req'[r] # req[r],
                      req[r].spared # {}
               PROVE  pods \cap req[r].spared \subseteq pods' /\ UNCHANGED services
    OBVIOUS
  <2>1. Control /\ Spares(req[r])
    BY DEF StartInv, ListInv, SparedInv
  <2>2. RemovePods(r) \/ RemoveServices(r)
    <3>1. PICK x \in Request : Client(x) \/ Serve(x)
      BY DEF Next, Tick, TickStart, TickRefresh, TickEnd, vars
    <3>2. \E q : Become(x, q)
      BY <3>1 DEF Client, OpenStartTool, OpenStopTool, OpenAddWorker, OpenStopDeployment,
         OpenDeleteDeployment, OpenDeleteStopped, OpenStopWorker, Stopping, Starting, Serve,
         AddRow, AddRefused, Choose, NoPlace, CreatePod, CreateFails, CreateTimesOut, Refuse,
         Refresh, EndRefresh, ListTarget, RemovePods, RemoveServices, DeleteRow,
         DeleteDeployment, StartRefresh, Goto, Answer
    <3>3. x = r
      BY <2>1, <3>2, OthersStay
    <3> QED
      BY <3>1, <3>3 DEF Client, Open, OpenStartTool, OpenStopTool, OpenAddWorker,
         OpenStopDeployment, OpenDeleteDeployment, OpenDeleteStopped, OpenStopWorker, Serve,
         AddRow, AddRefused, Choose, NoPlace, CreatePod, CreateFails, CreateTimesOut,
         Refresh, EndRefresh, ListTarget, DeleteRow, DeleteDeployment, RefreshPcs
  <2>3. CASE RemovePods(r)
    <3>1. /\ pods' = pods \ {p \in pods : \E q \in req[r].found : q.item = p.item}
          /\ UNCHANGED services /\ req[r].pc = "remove"
      BY <2>3 DEF RemovePods, DeletePods
    <3>2. \A q \in req[r].found, p \in req[r].spared : q.item # p.item
      BY <2>1, <3>1 DEF Spares
    <3> QED
      BY <3>1, <3>2
  <2>4. CASE RemoveServices(r)
    BY <2>1, <2>4 DEF RemoveServices, Spares
  <2> QED
    BY <2>2, <2>3, <2>4
<1>2. StartInv /\ SparedInv /\ [Next]_vars => [Left]_vars
  BY <1>1
<1> QED
  BY <1>2, SparedInvariant, PTL DEF Spec, StopSparesOthers
==============================================================================
