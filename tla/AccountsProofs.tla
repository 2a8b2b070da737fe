--------------------------- MODULE AccountsProofs ---------------------------
(***************************************************************************)
(* Theorems about Accounts for any number of names, uids, requests and     *)
(* restarts.                                                               *)
(***************************************************************************)
EXTENDS Accounts, TLAPS

(* What a request may be doing.                                            *)
Steps == {"none", "useradd", "getuid", "backup", "insert", "join", "drop",
          "userdel", "save", "recover"}
RequestType ==
  [op : {"none", "create", "delete", "recover"}, step : Steps, id : 0 .. MaxIds,
   name : Name \cup {None}, uid : Uid \cup {None},
   todo : SUBSET [name : Name, uid : Uid], asked : SUBSET Name, calm : BOOLEAN,
   blocked : SUBSET Name]

RequestOK(q) ==
  /\ q \in RequestType
  /\ q.step \notin {"none", "save", "recover"} => q.name \in Name
  /\ q.step \in {"backup", "insert"} => q.uid \in Uid
  /\ q.op = "recover" => /\ q.step \in {"recover", "save"}
                         /\ q.step = "save" => q.todo = {}
  /\ q.step = "recover" => q.op = "recover"
Requests == req \in [Request -> RequestType] /\ \A r \in Request : RequestOK(req[r])

(* The accounts of /etc_host have different uids too, and ids increase.    *)
Typed ==
  /\ TypeOK
  /\ \A m, n \in Name : etcHost[m] # None /\ etcHost[m] = etcHost[n] => m = n
  /\ \A row \in rows : row.id <= lastId

(* Whenever /etc_host is behind, a request is on its way to copy /etc.     *)
WillSave == {"getuid", "backup", "userdel", "save", "recover"}
Saved == etcHost = etc \/ unsaved \/ \E r \in Request : req[r].step \in WillSave

(* The work of a recovery nobody disturbed: what it has dealt with is put  *)
(* right or cannot be, and an account in the way of a row has been dealt   *)
(* with, too, or was in the way from the start.                            *)
Dealt(r, n) == \A d \in req[r].todo : d.name # n
Quiet(r) ==
  req[r].op = "recover" /\ req[r].calm =>
    /\ req[r].todo \subseteq {[name |-> row.name, uid |-> row.uid] : row \in rows}
    /\ \A row \in rows : row.name \in req[r].asked /\ Dealt(r, row.name) =>
         etc[row.name] = row.uid \/ Blocked(row) \/ row.name \in req[r].blocked
    /\ \A row \in rows : \A m \in Name \ {row.name} :
         etc[m] = row.uid => row.name \in req[r].blocked \/ Dealt(r, m)

AccountsInv ==
  /\ Typed
  /\ Requests
  /\ Saved
  /\ \A r \in Request : Quiet(r)

------------------------------------------------------------------------------

(* A web thread without a request may be in that state.                    *)
LEMMA IdleOK == RequestOK(Idle) /\ Idle.op = "none" /\ Idle.step = "none"
BY BoundsAssumption DEF RequestOK, RequestType, Idle, Steps, Ids

(* A platform without users has an empty /etc and nothing to copy.         *)
LEMMA InitAccounts == Init => AccountsInv
<1> SUFFICES ASSUME Init PROVE AccountsInv
  OBVIOUS
<1>1. Typed
  <2>1. rows = {} /\ lastId \in 0 .. MaxIds /\ opened \in 0 .. MaxRequests
        /\ restarts \in 0 .. MaxRestarts
    BY BoundsAssumption DEF Init
  <2>2. /\ etc \in [Name -> Uid \cup {None}] /\ etcHost = etc
        /\ \A n \in Name : etc[n] = None
    BY DEF Init
  <2>3. unsaved \in BOOLEAN
    BY DEF Init
  <2> QED
    BY <2>1, <2>2, <2>3 DEF Typed, TypeOK, HasAccount
<1>2. Requests /\ Saved
  BY IdleOK DEF Init, Requests, RequestOK, Saved
<1>3. \A r \in Request : Quiet(r)
  BY IdleOK DEF Init, Quiet
<1> QED
  BY <1>1, <1>2, <1>3 DEF AccountsInv

------------------------------------------------------------------------------
(* Requests                                                                *)

(* A request moves on, and disturbs recoveries or does not.                *)
LEMMA MovesOn ==
  ASSUME Requests, NEW r \in Request, NEW s, RequestOK(s), Go(r, s) \/ Disturb(r, s)
  PROVE  /\ Requests'
         /\ req'[r] = s
         /\ \A x \in Request \ {r} : req'[x].step = req[x].step
<1>1. CASE Go(r, s)
  BY <1>1 DEF Go, Requests, RequestOK
<1>2. CASE Disturb(r, s)
  <2>1. \A x \in Request : /\ RequestOK([req[x] EXCEPT !.calm = FALSE])
                           /\ [req[x] EXCEPT !.calm = FALSE].step = req[x].step
    BY DEF Requests, RequestOK, RequestType
  <2>2. \A x \in Request : RequestOK(req'[x])
    BY <1>2, <2>1 DEF Disturb, Requests
  <2>3. req' \in [Request -> RequestType]
    BY <1>2, <2>2 DEF Disturb, RequestOK
  <2> QED
    BY <1>2, <2>1, <2>2, <2>3 DEF Disturb, Requests, RequestOK
<1> QED
  BY <1>1, <1>2

(* The steps of requests.                                                  *)
Step(r) ==
  \/ \E n \in Name : OpenCreate(r, n)
  \/ \E row \in rows : OpenDelete(r, row)
  \/ \E ids \in SUBSET Ids : OpenRecover(r, ids)
  \/ UserAdd(r) \/ GetUid(r) \/ Backup(r) \/ InsertUser(r)
  \/ InsertFails(r) \/ Join(r) \/ JoinFails(r)
  \/ DropRow(r) \/ DropFails(r) \/ UserDel(r) \/ Save(r)
  \/ RecoverUser(r) \/ RecoverRaises(r) \/ RecoverNobody(r)

(* Each of them leaves the request in a state that it may be in.           *)
LEMMA StepMovesOn ==
  ASSUME AccountsInv, NEW r \in Request, Step(r)
  PROVE  /\ \E s : RequestOK(s) /\ (Go(r, s) \/ Disturb(r, s))
         /\ UNCHANGED restarts
<1> USE DEF AccountsInv
<1>0. UNCHANGED restarts
  BY DEF Step, OpenCreate, OpenDelete, OpenRecover, Open, UserAdd, GetUid, Backup,
     InsertUser, InsertFails, Join, JoinFails, DropRow, DropFails, UserDel, Save,
     RecoverUser, RecoverRaises, RecoverNobody
<1>1. RequestOK(req[r]) /\ req[r] \in RequestType
  BY DEF Requests, RequestOK
<1>2. ASSUME NEW n \in Name, OpenCreate(r, n)
      PROVE  \E s : RequestOK(s) /\ Go(r, s)
  <2> DEFINE s == [Idle EXCEPT !.op = "create", !.step = "useradd", !.name = n]
  <2>1. RequestOK(s)
    BY <1>2, IdleOK DEF RequestOK, RequestType, Steps
  <2>2. Go(r, s)
    BY <1>2 DEF OpenCreate, Open
  <2> QED
    BY <2>1, <2>2
<1>3. ASSUME NEW row \in rows, OpenDelete(r, row)
      PROVE  \E s : RequestOK(s) /\ Go(r, s)
  <2> DEFINE s == [Idle EXCEPT !.op = "delete", !.step = "drop", !.id = row.id,
                               !.name = row.name]
  <2>1. row.id \in 0 .. MaxIds /\ row.name \in Name
    BY <1>3, BoundsAssumption DEF Typed, TypeOK, Ids
  <2>2. RequestOK(s)
    BY <2>1, IdleOK DEF RequestOK, RequestType, Steps
  <2>3. Go(r, s)
    BY <1>3 DEF OpenDelete, Open
  <2> QED
    BY <2>2, <2>3
<1>4. CASE \E ids \in SUBSET Ids : OpenRecover(r, ids)
  <2> PICK ids \in SUBSET Ids : OpenRecover(r, ids)
    BY <1>4
  <2> DEFINE t == {[name |-> row.name, uid |-> row.uid] : row \in Chosen(ids)}
  <2> DEFINE a == {row.name : row \in Chosen(ids)}
  <2> DEFINE b == {row.name : row \in {x \in rows : Blocked(x)}}
  <2>1. t \subseteq [name : Name, uid : Uid] /\ a \subseteq Name /\ b \subseteq Name
    BY DEF Typed, TypeOK, Chosen
  <2> DEFINE s == [Idle EXCEPT !.op = "recover", !.step = "recover", !.todo = t,
                               !.asked = a, !.blocked = b]
  <2>2. Go(r, s)
    BY DEF OpenRecover, Open
  <2> HIDE DEF t, a, b
  <2>3. RequestOK(s)
    BY <2>1, IdleOK DEF RequestOK, RequestType, Steps
  <2> QED
    BY <1>0, <2>2, <2>3
<1>5. CASE UserAdd(r)
  <2>1. RequestOK([req[r] EXCEPT !.step = "getuid"])
    BY <1>1, <1>5 DEF UserAdd, RequestOK, RequestType, Steps
  <2> QED
    BY <1>5, <2>1 DEF UserAdd
<1>6. CASE GetUid(r)
  <2>1. req[r].name \in Name /\ etc[req[r].name] \in Uid \cup {None}
    BY <1>1, <1>6 DEF GetUid, RequestOK, Typed, TypeOK
  <2> QED
    BY <1>1, <1>6, <2>1 DEF GetUid, RequestOK, RequestType, Steps, HasAccount
<1>7. CASE Backup(r) \/ InsertUser(r) \/ InsertFails(r) \/ JoinFails(r)
  <2>1. \A at \in {"insert", "join", "userdel"} :
          /\ req[r].op # "recover"
          /\ req[r].step \in {"backup", "insert"} => RequestOK([req[r] EXCEPT !.step = at])
          /\ req[r].step = "join" /\ at = "userdel" => RequestOK([req[r] EXCEPT !.step = at])
    BY <1>1, <1>7 DEF Backup, InsertUser, InsertFails, JoinFails, RequestOK, RequestType, Steps
  <2> QED
    BY <1>7, <2>1 DEF Backup, InsertUser, InsertFails, JoinFails
<1>8. CASE Join(r) \/ DropFails(r) \/ Save(r) \/ RecoverRaises(r)
  BY <1>8, IdleOK DEF Join, DropFails, Save, RecoverRaises
<1>9. CASE DropRow(r) \/ UserDel(r)
  <2>1. \A at \in {"userdel", "save"} :
          req[r].step \in {"drop", "userdel"} => RequestOK([req[r] EXCEPT !.step = at])
    BY <1>1 DEF RequestOK, RequestType, Steps
  <2> QED
    BY <1>9, <2>1 DEF DropRow, UserDel
<1>10. CASE RecoverUser(r)
  <2>1. PICK d \in req[r].todo :
          Disturb(r, [req[r] EXCEPT !.todo = @ \ {d},
                                    !.step = IF req[r].todo = {d} THEN "save" ELSE @])
    BY <1>10 DEF RecoverUser
  <2>2. req[r].step = "recover" /\ req[r].op = "recover"
    BY <1>1, <1>10 DEF RecoverUser, RequestOK
  <2>3. CASE req[r].todo = {d}
    <3> DEFINE s == [req[r] EXCEPT !.todo = {}, !.step = "save"]
    <3>1. RequestOK(s)
      BY <1>1, <2>2 DEF RequestOK, RequestType, Steps
    <3>2. req[r].todo \ {d} = {}
      BY <2>3
    <3> QED
      BY <1>0, <2>1, <2>3, <3>1, <3>2
  <2>4. CASE req[r].todo # {d}
    <3> DEFINE t == req[r].todo \ {d}
    <3> DEFINE s == [req[r] EXCEPT !.todo = t, !.step = "recover"]
    <3>1. t \subseteq [name : Name, uid : Uid]
      BY <1>1 DEF RequestType
    <3>2. Disturb(r, s)
      BY <1>1, <2>1, <2>2, <2>4 DEF RequestType
    <3> HIDE DEF t
    <3>3. RequestOK(s)
      BY <1>1, <2>2, <3>1 DEF RequestOK, RequestType, Steps
    <3> QED
      BY <1>0, <3>2, <3>3
  <2> QED
    BY <2>3, <2>4
<1>11. CASE RecoverNobody(r)
  BY <1>1, <1>11 DEF RecoverNobody, RequestOK, RequestType, Steps
<1> QED
  BY <1>0, <1>2, <1>3, <1>4, <1>5, <1>6, <1>7, <1>8, <1>9, <1>10, <1>11 DEF Step

------------------------------------------------------------------------------
(* Types                                                                   *)

(* An account that gets a uid no account has keeps the uids different.     *)
LEMMA FreeUidIsNew ==
  ASSUME Typed, NEW n \in Name, NEW u \in FreeUid, etc' = [etc EXCEPT ![n] = u]
  PROVE  /\ etc' \in [Name -> Uid \cup {None}]
         /\ \A k, m \in Name : HasAccount(k)' /\ etc'[k] = etc'[m] => k = m
<1>1. u \in Uid /\ \A k \in Name : etc[k] # u
  BY DEF FreeUid
<1> QED
  BY <1>1 DEF Typed, TypeOK, HasAccount

(* Steps of requests keep the types, the keys of the rows and different    *)
(* uids of the accounts.                                                   *)
LEMMA StepTyped ==
  ASSUME AccountsInv, NEW r \in Request, Step(r)
  PROVE  Typed'
<1> USE DEF AccountsInv
<1>1. RequestOK(req[r]) /\ req[r] \in RequestType
  BY DEF Requests, RequestOK
<1>2. ASSUME UNCHANGED <<rows, lastId, etc, etcHost, restarts>>,
             opened' \in 0 .. MaxRequests, unsaved' \in BOOLEAN
      PROVE  Typed'
  BY <1>2 DEF Typed, TypeOK, HasAccount
<1>3. ASSUME \/ \E n \in Name : OpenCreate(r, n)
             \/ \E row \in rows : OpenDelete(r, row)
             \/ \E ids \in SUBSET Ids : OpenRecover(r, ids)
      PROVE  Typed'
  <2>1. opened' = opened + 1 /\ opened < MaxRequests
        /\ UNCHANGED <<rows, lastId, etc, etcHost, restarts, unsaved>>
    BY <1>3 DEF OpenCreate, OpenDelete, OpenRecover, Open
  <2>2. opened' \in 0 .. MaxRequests
    BY <2>1, BoundsAssumption DEF Typed, TypeOK
  <2>3. unsaved' \in BOOLEAN
    BY <2>1 DEF Typed, TypeOK
  <2> QED
    BY <1>2, <2>1, <2>2, <2>3
<1>4. ASSUME \/ GetUid(r) \/ InsertFails(r) \/ Join(r) \/ JoinFails(r)
             \/ DropFails(r) \/ RecoverRaises(r) \/ RecoverNobody(r)
      PROVE  Typed'
  <2>1. UNCHANGED <<rows, lastId, etc, etcHost, restarts, opened>>
        /\ (unsaved' = unsaved \/ unsaved' = TRUE)
    BY <1>4 DEF GetUid, InsertFails, Join, JoinFails, DropFails, RecoverRaises, RecoverNobody
  <2>2. unsaved' \in BOOLEAN /\ opened' \in 0 .. MaxRequests
    BY <2>1 DEF Typed, TypeOK
  <2> QED
    BY <1>2, <2>1, <2>2
<1>5. ASSUME UserAdd(r) \/ UserDel(r) \/ RecoverUser(r)
      PROVE  Typed'
  <2>1. UNCHANGED <<rows, lastId, etcHost, opened, restarts, unsaved>>
    BY <1>5 DEF UserAdd, UserDel, RecoverUser
  <2>2. /\ etc' \in [Name -> Uid \cup {None}]
        /\ \A k, m \in Name : HasAccount(k)' /\ etc'[k] = etc'[m] => k = m
    <3>1. CASE UserAdd(r)
      <4>1. req[r].name \in Name
        BY <1>1, <3>1 DEF UserAdd, RequestOK
      <4>2. etc' = etc \/ \E u \in FreeUid : etc' = [etc EXCEPT ![req[r].name] = u]
        BY <3>1 DEF UserAdd
      <4> QED
        BY <4>1, <4>2, FreeUidIsNew DEF Typed, TypeOK, HasAccount
    <3>2. CASE UserDel(r)
      BY <3>2 DEF UserDel, Typed, TypeOK, HasAccount
    <3>3. CASE RecoverUser(r)
      <4>1. PICK d \in req[r].todo : etc' = Recovered(d)
        BY <3>3 DEF RecoverUser
      <4>2. d.name \in Name
        BY <1>1, <4>1 DEF RequestType
      <4> QED
        BY <4>1, <4>2, FreeUidIsNew DEF Recovered, Typed, TypeOK, HasAccount
    <3> QED
      BY <1>5, <3>1, <3>2, <3>3
  <2> QED
    BY <2>1, <2>2 DEF Typed, TypeOK
<1>6. ASSUME Backup(r) \/ Save(r)
      PROVE  Typed'
  <2>1. etcHost' = etc /\ unsaved' = FALSE /\ UNCHANGED <<rows, lastId, etc, opened, restarts>>
    BY <1>6 DEF Backup, Save
  <2>2. unsaved' \in BOOLEAN
    BY <2>1
  <2> QED
    BY <2>1, <2>2 DEF Typed, TypeOK, HasAccount
<1>7. ASSUME InsertUser(r)
      PROVE  Typed'
  <2> DEFINE new == [id |-> lastId + 1, name |-> req[r].name, uid |-> req[r].uid]
  <2>1. /\ rows' = rows \cup {new} /\ lastId' = lastId + 1 /\ lastId < MaxIds
        /\ \A row \in rows : row.name # req[r].name
        /\ UNCHANGED <<etc, etcHost, opened, restarts, unsaved>>
    BY <1>7 DEF InsertUser, NameFree, HasRow
  <2>2. lastId + 1 \in 1 .. MaxIds /\ lastId + 1 \in 0 .. MaxIds
    BY <2>1, BoundsAssumption DEF Typed, TypeOK
  <2>3. req[r].name \in Name /\ req[r].uid \in Uid
    BY <1>1, <1>7 DEF InsertUser, RequestOK
  <2>4. /\ new \in [id : Ids, name : Name, uid : Uid]
        /\ new.id = lastId + 1 /\ new.name = req[r].name
    BY <2>2, <2>3 DEF Ids
  <2> HIDE DEF new
  <2>5. \A row \in rows : row.id \in Nat /\ row.id < lastId + 1 /\ row.id <= lastId + 1
    BY BoundsAssumption DEF Typed, TypeOK, Ids
  <2>6. \A a, b \in rows' : a # b => a.id # b.id /\ a.name # b.name
    BY <2>1, <2>4, <2>5, BoundsAssumption DEF Typed, TypeOK
  <2>7. \A row \in rows' : row.id <= lastId'
    BY <2>1, <2>2, <2>4, <2>5
  <2> QED
    BY <2>1, <2>2, <2>4, <2>6, <2>7 DEF Typed, TypeOK, HasAccount
<1>8. ASSUME DropRow(r)
      PROVE  Typed'
  <2>1. rows' \subseteq rows /\ UNCHANGED <<lastId, etc, etcHost, opened, restarts, unsaved>>
    BY <1>8 DEF DropRow
  <2> QED
    BY <2>1 DEF Typed, TypeOK, HasAccount
<1> QED
  BY <1>3, <1>4, <1>5, <1>6, <1>7, <1>8 DEF Step

------------------------------------------------------------------------------
(* Copies of /etc                                                          *)

(* A request that changes /etc is then on its way to copy it.              *)
LEMMA StepSaved ==
  ASSUME AccountsInv, NEW r \in Request, Step(r)
  PROVE  Saved'
<1> USE DEF AccountsInv
<1>1. /\ \A x \in Request \ {r} : req'[x].step = req[x].step
      /\ req \in [Request -> RequestType]
  BY StepMovesOn, MovesOn DEF Requests
<1>2. \A s : Go(r, s) \/ Disturb(r, s) => req'[r] = s
  BY <1>1 DEF Go, Disturb
<1>3. CASE etcHost' = etc' \/ unsaved'
  BY <1>3 DEF Saved
<1>4. CASE req'[r].step \in WillSave
  BY <1>4 DEF Saved
<1>5. ASSUME UNCHANGED <<etc, etcHost, unsaved>>, req[r].step \notin WillSave
      PROVE  Saved'
  BY <1>1, <1>5 DEF Saved
<1>6. CASE \/ \E n \in Name : OpenCreate(r, n)
           \/ \E row \in rows : OpenDelete(r, row)
           \/ \E ids \in SUBSET Ids : OpenRecover(r, ids)
  BY <1>5, <1>6, IdleOK DEF OpenCreate, OpenDelete, OpenRecover, Open, WillSave
<1>7. CASE \/ InsertUser(r) \/ InsertFails(r) \/ Join(r) \/ JoinFails(r)
           \/ DropRow(r) \/ DropFails(r)
  BY <1>5, <1>7 DEF InsertUser, InsertFails, Join, JoinFails, DropRow, DropFails, WillSave
<1>8. CASE Backup(r) \/ Save(r) \/ RecoverRaises(r)
  BY <1>3, <1>8 DEF Backup, Save, RecoverRaises
<1>9. CASE UserAdd(r) \/ GetUid(r) \/ UserDel(r) \/ RecoverNobody(r)
  <2>1. \E at \in WillSave : req'[r] = [req[r] EXCEPT !.step = at]
                            \/ \E u : req'[r] = [req[r] EXCEPT !.uid = u, !.step = at]
    BY <1>2, <1>9 DEF UserAdd, GetUid, UserDel, RecoverNobody, WillSave
  <2>2. req'[r].step \in WillSave
    BY <1>1, <2>1 DEF RequestType
  <2> QED
    BY <1>4, <2>2
<1>10. CASE RecoverUser(r)
  <2>1. \E t : \E at \in {"save", req[r].step} :
           req'[r] = [req[r] EXCEPT !.todo = t, !.step = at]
    BY <1>2, <1>10 DEF RecoverUser
  <2>2. req'[r].step \in {"save", "recover"}
    BY <1>1, <1>10, <2>1 DEF RequestType, RecoverUser
  <2> QED
    BY <1>4, <2>2 DEF WillSave
<1> QED
  BY <1>6, <1>7, <1>8, <1>9, <1>10 DEF Step

------------------------------------------------------------------------------
(* Recoveries                                                              *)

(* A step that changes rows or accounts disturbs the recoveries of others. *)
LEMMA StepDisturbs ==
  ASSUME NEW r \in Request, Step(r)
  PROVE  \/ \E s : Disturb(r, s)
         \/ (\E s : Go(r, s)) /\ UNCHANGED <<rows, etc>>
BY DEF Step, OpenCreate, OpenDelete, OpenRecover, Open, UserAdd, GetUid, Backup, InsertUser,
   InsertFails, Join, JoinFails, DropRow, DropFails, UserDel, Save, RecoverUser,
   RecoverRaises, RecoverNobody

(* What a request does leaves other recoveries right, or disturbs them.    *)
LEMMA OthersQuiet ==
  ASSUME AccountsInv, NEW r \in Request, Step(r), NEW x \in Request \ {r}
  PROVE  Quiet(x)'
<1>1. req \in [Request -> RequestType]
  BY DEF AccountsInv, Requests
<1>2. CASE \E s : Disturb(r, s)
  <2>1. req'[x] = IF req[x].op = "recover" THEN [req[x] EXCEPT !.calm = FALSE] ELSE req[x]
    BY <1>2 DEF Disturb
  <2>2. req'[x].op = "recover" => req'[x].calm = FALSE
    BY <1>1, <2>1 DEF RequestType
  <2> QED
    BY <2>2 DEF Quiet
<1>3. CASE (\E s : Go(r, s)) /\ UNCHANGED <<rows, etc>>
  <2>1. req'[x] = req[x]
    BY <1>1, <1>3 DEF Go
  <2> QED
    BY <1>3, <2>1 DEF AccountsInv, Quiet, Dealt, Blocked
<1> QED
  BY <1>2, <1>3, StepDisturbs

(* The recovery itself.                                                    *)
LEMMA RecoveryQuiet ==
  ASSUME AccountsInv, NEW r \in Request, RecoverUser(r)
  PROVE  Quiet(r)'
<1> SUFFICES ASSUME req'[r].op = "recover", req'[r].calm PROVE Quiet(r)'
  BY DEF Quiet
<1>1. req \in [Request -> RequestType] /\ req[r].op = "recover"
  BY DEF AccountsInv, Requests, RequestOK, RecoverUser
<1>2. PICK d \in req[r].todo :
        /\ ~Raises(d)
        /\ etc' = Recovered(d)
        /\ req'[r] = [req[r] EXCEPT !.todo = @ \ {d},
                                    !.step = IF req[r].todo = {d} THEN "save" ELSE @]
  BY <1>1 DEF RecoverUser, Disturb
<1>3. /\ req'[r].todo = req[r].todo \ {d} /\ req'[r].calm = req[r].calm
      /\ req'[r].blocked = req[r].blocked /\ req'[r].asked = req[r].asked
      /\ rows' = rows
  <2>1. rows' = rows
    BY DEF RecoverUser
  <2>2. PICK at : req'[r] = [req[r] EXCEPT !.todo = @ \ {d}, !.step = at]
    BY <1>2
  <2>3. req[r] \in RequestType
    BY <1>1
  <2> QED
    BY <2>1, <2>2, <2>3 DEF RequestType
<1>4. /\ req[r].todo \subseteq {[name |-> row.name, uid |-> row.uid] : row \in rows}
      /\ \A row \in rows : row.name \in req[r].asked /\ Dealt(r, row.name) =>
           etc[row.name] = row.uid \/ Blocked(row) \/ row.name \in req[r].blocked
      /\ \A row \in rows : \A m \in Name \ {row.name} :
           etc[m] = row.uid => row.name \in req[r].blocked \/ Dealt(r, m)
  BY <1>1, <1>3 DEF AccountsInv, Quiet
<1>5. \A a, b \in rows : a.name = b.name => a = b
  BY DEF AccountsInv, Typed, TypeOK
<1>6. PICK own \in rows : d = [name |-> own.name, uid |-> own.uid]
  BY <1>4
<1>7. /\ own.name \in Name /\ own.uid \in Uid /\ d.name = own.name /\ d.uid = own.uid
      /\ etc \in [Name -> Uid \cup {None}]
  BY <1>6 DEF AccountsInv, Typed, TypeOK
<1>8. \A e \in req[r].todo : e.name = own.name => e = d
  BY <1>4, <1>5, <1>6, <1>7
<1>9. Dealt(r, own.name)' /\ \A n : Dealt(r, n)' <=> (Dealt(r, n) \/ n = own.name)
  BY <1>2, <1>3, <1>7, <1>8 DEF Dealt
<1>10. \A m \in Name : m # own.name => etc'[m] = etc[m]
  BY <1>2, <1>7 DEF Recovered
<1>11. etc'[own.name] = own.uid \/ \E m \in Name \ {own.name} : etc'[m] = own.uid
  <2>1. CASE own.uid \in FreeUid
    BY <1>2, <1>7, <2>1 DEF Recovered
  <2>2. CASE own.uid \notin FreeUid
    <3>1. etc' = etc /\ etc[own.name] \in {None, own.uid}
      BY <1>2, <1>7, <2>2 DEF Recovered, Raises
    <3>2. \E m \in Name : etc[m] = own.uid
      BY <1>7, <2>2 DEF FreeUid
    <3> QED
      BY <3>1, <3>2
  <2> QED
    BY <2>1, <2>2
<1>12. \A row \in rows : row.name \in req[r].asked /\ Dealt(r, row.name)' =>
         etc'[row.name] = row.uid \/ Blocked(row)' \/ row.name \in req[r].blocked
  <2> SUFFICES ASSUME NEW row \in rows, row.name \in req[r].asked, Dealt(r, row.name)',
                      row.name \notin req[r].blocked
               PROVE  \/ etc'[row.name] = row.uid
                      \/ \E m \in Name \ {row.name} : etc'[m] = row.uid
    BY DEF Blocked
  <2>1. CASE row.name = own.name
    BY <1>5, <1>11, <2>1
  <2>2. CASE row.name # own.name
    <3>1. row.name \in Name /\ Dealt(r, row.name)
      BY <1>9, <2>2 DEF AccountsInv, Typed, TypeOK
    <3>2. CASE etc[row.name] = row.uid
      BY <1>10, <2>2, <3>1, <3>2
    <3>3. ASSUME NEW m \in Name \ {row.name}, etc[m] = row.uid
          PROVE  etc'[m] = row.uid
      <4>1. Dealt(r, m)
        BY <1>4, <3>3
      <4>2. m # own.name
        BY <1>2, <1>7, <4>1 DEF Dealt
      <4> QED
        BY <1>10, <3>3, <4>2
    <3> QED
      BY <1>4, <3>1, <3>2, <3>3 DEF Blocked
  <2> QED
    BY <2>1, <2>2
<1>13. \A row \in rows : \A m \in Name \ {row.name} :
         etc'[m] = row.uid => row.name \in req[r].blocked \/ Dealt(r, m)'
  BY <1>4, <1>9, <1>10
<1> QED
  BY <1>3, <1>4, <1>12, <1>13 DEF Quiet

(* A request leaves its own recovery right.                                *)
LEMMA StepQuiet ==
  ASSUME AccountsInv, NEW r \in Request, Step(r)
  PROVE  Quiet(r)'
<1>1. req \in [Request -> RequestType] /\ RequestOK(req[r])
  BY DEF AccountsInv, Requests
<1>2. \A s : Go(r, s) \/ Disturb(r, s) => req'[r] = s
  BY <1>1 DEF Go, Disturb
<1>3. ASSUME req'[r].op # "recover"
      PROVE  Quiet(r)'
  BY <1>3 DEF Quiet
<1>4. CASE \/ \E n \in Name : OpenCreate(r, n)
           \/ \E row \in rows : OpenDelete(r, row)
  <2>1. req'[r].op \in {"create", "delete"}
    BY <1>2, <1>4, IdleOK DEF OpenCreate, OpenDelete, Open, RequestOK, RequestType
  <2> QED
    BY <1>3, <2>1
<1>5. CASE \E ids \in SUBSET Ids : OpenRecover(r, ids)
  <2> PICK ids \in SUBSET Ids : OpenRecover(r, ids)
    BY <1>5
  <2> DEFINE t == {[name |-> row.name, uid |-> row.uid] : row \in Chosen(ids)}
  <2> DEFINE a == {row.name : row \in Chosen(ids)}
  <2> DEFINE b == {row.name : row \in {x \in rows : Blocked(x)}}
  <2>1. req'[r] = [Idle EXCEPT !.op = "recover", !.step = "recover", !.todo = t, !.asked = a,
                               !.blocked = b]
        /\ UNCHANGED <<rows, etc>>
    BY <1>2 DEF OpenRecover, Open
  <2>2. req'[r].todo = t /\ req'[r].asked = a /\ req'[r].blocked = b
    BY <2>1 DEF Idle
  <2>3. ASSUME NEW n \in a
        PROVE  ~Dealt(r, n)'
    <3>1. PICK row \in Chosen(ids) : n = row.name
      OBVIOUS
    <3>2. [name |-> row.name, uid |-> row.uid] \in req'[r].todo
      BY <2>2
    <3> QED
      BY <3>1, <3>2 DEF Dealt
  <2>4. \A row \in rows : \A m \in Name \ {row.name} : etc[m] = row.uid => row.name \in b
    BY DEF Blocked
  <2>5. t \subseteq {[name |-> row.name, uid |-> row.uid] : row \in rows}
    BY DEF Chosen
  <2> QED
    BY <2>1, <2>2, <2>3, <2>4, <2>5 DEF Quiet
<1>6. CASE RecoverUser(r)
  BY <1>6, RecoveryQuiet
<1>7. CASE RecoverNobody(r)
  <2>1. /\ req'[r].op = req[r].op /\ req'[r].calm = req[r].calm
        /\ req'[r].todo = req[r].todo /\ req'[r].blocked = req[r].blocked
        /\ req'[r].asked = req[r].asked
        /\ UNCHANGED <<rows, etc>>
    BY <1>1, <1>2, <1>7 DEF RecoverNobody, RequestType
  <2> QED
    BY <2>1 DEF AccountsInv, Quiet, Dealt, Blocked
<1>8. CASE Join(r) \/ DropFails(r) \/ Save(r) \/ RecoverRaises(r)
  BY <1>2, <1>3, <1>8, IdleOK DEF Join, DropFails, Save, RecoverRaises
<1>9. CASE \/ UserAdd(r) \/ GetUid(r) \/ Backup(r) \/ InsertUser(r) \/ InsertFails(r)
           \/ JoinFails(r) \/ DropRow(r) \/ UserDel(r)
  <2>1. req[r].op # "recover"
    BY <1>1, <1>9 DEF RequestOK, UserAdd, GetUid, Backup, InsertUser, InsertFails, JoinFails,
       DropRow, UserDel
  <2>2. req'[r].op = req[r].op
    BY <1>1, <1>2, <1>9 DEF RequestType, UserAdd, GetUid, Backup, InsertUser, InsertFails,
       JoinFails, DropRow, UserDel
  <2> QED
    BY <1>3, <2>1, <2>2
<1> QED
  BY <1>4, <1>5, <1>6, <1>7, <1>8, <1>9 DEF Step

------------------------------------------------------------------------------

(* The server starts with what /etc_host has.                              *)
LEMMA RestartAccounts ==
  ASSUME AccountsInv, Restart
  PROVE  AccountsInv'
<1>1. /\ req' = [r \in Request |-> Idle] /\ etc' = etcHost /\ unsaved' = FALSE
      /\ restarts' = restarts + 1 /\ restarts < MaxRestarts
      /\ UNCHANGED <<rows, lastId, etcHost, opened>>
  BY DEF Restart
<1>2. Typed'
  <2>1. restarts' \in 0 .. MaxRestarts
    BY <1>1, BoundsAssumption DEF AccountsInv, Typed, TypeOK
  <2>2. unsaved' \in BOOLEAN
    BY <1>1
  <2> QED
    BY <1>1, <2>1, <2>2 DEF AccountsInv, Typed, TypeOK, HasAccount
<1>3. Requests' /\ Saved'
  BY <1>1, IdleOK DEF Requests, RequestOK, Saved
<1>4. \A r \in Request : Quiet(r)'
  BY <1>1, IdleOK DEF Quiet
<1> QED
  BY <1>2, <1>3, <1>4 DEF AccountsInv

(* The inductive invariant: types, that whoever changed /etc still has to  *)
(* copy it, and what a recovery has done so far.                           *)
THEOREM AccountsInvariant == Spec => []AccountsInv
<1>1. ASSUME AccountsInv, [Next]_vars
      PROVE  AccountsInv'
  <2>1. CASE Restart
    BY <1>1, <2>1, RestartAccounts
  <2>2. ASSUME NEW r \in Request, Step(r)
        PROVE  AccountsInv'
    <3>1. Requests'
      BY <1>1, <2>2, StepMovesOn, MovesOn DEF AccountsInv
    <3> QED
      BY <1>1, <2>2, <3>1, StepTyped, StepSaved, OthersQuiet, StepQuiet DEF AccountsInv
  <2>3. CASE UNCHANGED vars
    <3>1. Typed'
      BY <1>1, <2>3 DEF AccountsInv, Typed, TypeOK, HasAccount, vars
    <3>2. Requests' /\ Saved'
      BY <1>1, <2>3 DEF AccountsInv, Requests, Saved, vars
    <3>3. \A r \in Request : Quiet(r)'
      BY <1>1, <2>3 DEF AccountsInv, Quiet, Dealt, Blocked, vars
    <3> QED
      BY <3>1, <3>2, <3>3 DEF AccountsInv
  <2> QED
    BY <1>1, <2>1, <2>2, <2>3 DEF Next, Step
<1> QED
  BY <1>1, InitAccounts, PTL DEF Spec

(* Rows and accounts keep their types and their keys, whoever races whom.  *)
THEOREM AccountsTyped == Spec => []TypeOK
BY AccountsInvariant, PTL DEF AccountsInv, Typed

(* Nothing is lost or brought back by a start of the server that happens   *)
(* while no request is under way.                                          *)
THEOREM NothingUnsaved == Spec => []SavedWhenIdle
<1>1. AccountsInv => SavedWhenIdle
  BY IdleOK DEF AccountsInv, Saved, SavedWhenIdle, WillSave
<1> QED
  BY <1>1, AccountsInvariant, PTL

(* A recovery nobody disturbed has given every user it was asked for their *)
(* account, if no other account is or was in the way.                      *)
THEOREM RecoveryRestores == Spec => QuietRecoveryRestores
<1> DEFINE Restored ==
      \A r \in Request :
        Save(r) /\ req[r].op = "recover" /\ req[r].calm =>
          \A row \in rows :
            row.name \in req[r].asked =>
              \/ etc[row.name] = row.uid
              \/ Blocked(row)
              \/ row.name \in req[r].blocked
<1>1. AccountsInv => Restored
  <2> SUFFICES ASSUME AccountsInv, NEW r \in Request, Save(r), req[r].op = "recover", req[r].calm
               PROVE  \A row \in rows :
                        row.name \in req[r].asked =>
                          \/ etc[row.name] = row.uid
                          \/ Blocked(row)
                          \/ row.name \in req[r].blocked
    OBVIOUS
  <2>1. req[r].todo = {}
    BY DEF Save, AccountsInv, Requests, RequestOK
  <2> QED
    BY <2>1 DEF AccountsInv, Quiet, Dealt
<1> QED
  BY <1>1, AccountsInvariant, PTL DEF QuietRecoveryRestores
==============================================================================
