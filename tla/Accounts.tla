------------------------------ MODULE Accounts ------------------------------
(* The users of the platform (user.py): a row of the table user for each,  *)
(* which has the uid, and a Linux account of the server's container, which *)
(* has the password.  The container's /etc is lost with it, so that every  *)
(* change is copied to /etc_host, and the server starts by copying it      *)
(* back.  The requests of several administrators take no lock.             *)
(*                                                                         *)
(* Every action is one database statement or one command.  Passwords,      *)
(* login counters, user groups and Superset are left out.                  *)
EXTENDS Integers, FiniteSets

CONSTANTS
  Name,         \* user names
  Uid,          \* uids of the container
  Request,      \* the requests that may be under way at once
  MaxIds,       \* bound: rows ever inserted
  MaxRequests,  \* bound: requests ever opened
  MaxRestarts,  \* bound: starts of the server after the first
  Faults        \* what may fail: "database", "workspace"

Ids == 1 .. MaxIds
None == "none"

ASSUME BoundsAssumption ==
  /\ MaxIds \in Nat
  /\ MaxRequests \in Nat
  /\ MaxRestarts \in Nat

ASSUME NoneAssumption == None \notin Uid

VARIABLES
  rows,         \* the table user: id, name and uid
  lastId,       \* AUTO_INCREMENT of the table
  etc,          \* the uid of a name's account in /etc, or None
  etcHost,      \* the same in /etc_host
  req,          \* what every request is doing
  opened,       \* how many requests were opened so far
  restarts,     \* how often the server was started again
  unsaved       \* history: a recovery raised, and nothing was copied since

vars == <<rows, lastId, etc, etcHost, req, opened, restarts, unsaved>>

(* The last three fields are history of a recovery: the users it was asked *)
(* to recover, whether nobody changed rows or accounts since it read the   *)
(* rows, and the users whose uid was another account's then.               *)
Idle == [op |-> "none", step |-> "none", id |-> 0, name |-> None, uid |-> None,
         todo |-> {}, asked |-> {}, calm |-> TRUE, blocked |-> {}]

Init ==
  /\ rows = {}
  /\ lastId = 0
  /\ etc = [n \in Name |-> None]
  /\ etcHost = etc
  /\ req = [r \in Request |-> Idle]
  /\ opened = 0
  /\ restarts = 0
  /\ unsaved = FALSE

-----------------------------------------------------------------------------
(* Helpers.                                                                *)

HasAccount(n) == etc[n] # None
HasRow(n) == \E row \in rows : row.name = n
FreeUid == Uid \ {etc[n] : n \in Name}

(* The uid of a row is another name's in /etc.                             *)
Blocked(row) == \E m \in Name \ {row.name} : etc[m] = row.uid

Go(r, s) == req' = [req EXCEPT ![r] = s]

(* A request moves on after it changed rows or accounts.                   *)
Disturb(r, s) ==
  req' = [x \in Request |->
            IF x = r THEN s
            ELSE IF req[x].op = "recover" THEN [req[x] EXCEPT !.calm = FALSE]
            ELSE req[x]]

Open(r, s) ==
  /\ req[r] = Idle
  /\ opened < MaxRequests
  /\ opened' = opened + 1
  /\ Go(r, s)
  /\ UNCHANGED <<rows, lastId, etc, etcHost, restarts, unsaved>>

-----------------------------------------------------------------------------
(* Creating a user: the name must be free in Linux and in the database;    *)
(* then the account is added, its uid read, /etc copied, the row inserted, *)
(* and the user put into their workspaces.                                 *)

OpenCreate(r, n) ==
  /\ ~HasAccount(n)
  /\ ~HasRow(n)
  /\ Open(r, [Idle EXCEPT !.op = "create", !.step = "useradd", !.name = n])

(* useradd picks a uid no account has, whatever the rows say; for a name   *)
(* that is taken it fails, and nobody looks.                               *)
UserAdd(r) ==
  /\ req[r].step = "useradd"
  /\ LET n == req[r].name
         s == [req[r] EXCEPT !.step = "getuid"]
     IN IF HasAccount(n) \/ FreeUid = {}
        THEN Go(r, s) /\ UNCHANGED etc
        ELSE \E u \in FreeUid : /\ etc' = [etc EXCEPT ![n] = u]
                                /\ Disturb(r, s)
  /\ UNCHANGED <<rows, lastId, etcHost, opened, restarts, unsaved>>

(* The uid of the account there is; none, and the creation is rolled back. *)
GetUid(r) ==
  /\ req[r].step = "getuid"
  /\ Go(r, [req[r] EXCEPT
              !.uid = etc[req[r].name],
              !.step = IF HasAccount(req[r].name) THEN "backup" ELSE "userdel"])
  /\ UNCHANGED <<rows, lastId, etc, etcHost, opened, restarts, unsaved>>

Backup(r) ==
  /\ req[r].step = "backup"
  /\ etcHost' = etc
  /\ unsaved' = FALSE
  /\ Go(r, [req[r] EXCEPT !.step = "insert"])
  /\ UNCHANGED <<rows, lastId, etc, opened, restarts>>

(* The name is a key of the table.                                         *)
(* Mutant: it is not.                                                      *)
NameFreeAnyway(n) == n \in Name
NameFree(n) == ~HasRow(n)

InsertUser(r) ==
  /\ req[r].step = "insert"
  /\ NameFree(req[r].name)
  /\ lastId < MaxIds
  /\ lastId' = lastId + 1
  /\ rows' = rows \cup {[id |-> lastId + 1, name |-> req[r].name,
                         uid |-> req[r].uid]}
  /\ Disturb(r, [req[r] EXCEPT !.step = "join"])
  /\ UNCHANGED <<etc, etcHost, opened, restarts, unsaved>>

InsertFails(r) ==
  /\ req[r].step = "insert"
  /\ ~NameFree(req[r].name) \/ "database" \in Faults
  /\ Go(r, [req[r] EXCEPT !.step = "userdel"])
  /\ UNCHANGED <<rows, lastId, etc, etcHost, opened, restarts, unsaved>>

(* Into the workspaces, which fails when one of them is gone, or the row.  *)
Join(r) ==
  /\ req[r].step = "join"
  /\ HasRow(req[r].name)
  /\ Go(r, Idle)
  /\ UNCHANGED <<rows, lastId, etc, etcHost, opened, restarts, unsaved>>

(* The rollback takes the account away and leaves the row.                 *)
JoinFails(r) ==
  /\ req[r].step = "join"
  /\ ~HasRow(req[r].name) \/ "workspace" \in Faults
  /\ Go(r, [req[r] EXCEPT !.step = "userdel"])
  /\ UNCHANGED <<rows, lastId, etc, etcHost, opened, restarts, unsaved>>

-----------------------------------------------------------------------------
(* Deleting a user, and what it has in common with the rollback.           *)

OpenDelete(r, row) ==
  Open(r, [Idle EXCEPT !.op = "delete", !.step = "drop", !.id = row.id,
                       !.name = row.name])

DropRow(r) ==
  /\ req[r].step = "drop"
  /\ rows' = {row \in rows : row.id # req[r].id}
  /\ Disturb(r, [req[r] EXCEPT !.step = "userdel"])
  /\ UNCHANGED <<lastId, etc, etcHost, opened, restarts, unsaved>>

DropFails(r) ==
  /\ req[r].step = "drop"
  /\ "database" \in Faults
  /\ Go(r, Idle)
  /\ UNCHANGED <<rows, lastId, etc, etcHost, opened, restarts, unsaved>>

(* The account of the name, whoever made it, is gone; /etc is copied next. *)
(* Mutant: a rollback does not copy it.                                    *)
UserDelUnsaved(r) ==
  /\ req[r].step = "userdel"
  /\ etc' = [etc EXCEPT ![req[r].name] = None]
  /\ Disturb(r, IF req[r].op = "create" THEN Idle
                ELSE [req[r] EXCEPT !.step = "save"])
  /\ UNCHANGED <<rows, lastId, etcHost, opened, restarts, unsaved>>
UserDel(r) ==
  /\ req[r].step = "userdel"
  /\ etc' = [etc EXCEPT ![req[r].name] = None]
  /\ Disturb(r, [req[r] EXCEPT !.step = "save"])
  /\ UNCHANGED <<rows, lastId, etcHost, opened, restarts, unsaved>>

Save(r) ==
  /\ req[r].step = "save"
  /\ etcHost' = etc
  /\ unsaved' = FALSE
  /\ Go(r, Idle)
  /\ UNCHANGED <<rows, lastId, etc, opened, restarts>>

-----------------------------------------------------------------------------
(* Recovering accounts: for every row with one of the given ids, or every  *)
(* row if none is given, an account that is missing is added with the uid  *)
(* of the row, one that has another uid is given that of the row.  Then    *)
(* /etc is copied.                                                         *)

Chosen(ids) == IF ids = {} THEN rows ELSE {row \in rows : row.id \in ids}

OpenRecover(r, ids) ==
  Open(r, [Idle EXCEPT !.op = "recover", !.step = "recover",
                       !.todo = {[name |-> row.name, uid |-> row.uid] :
                                   row \in Chosen(ids)},
                       !.asked = {row.name : row \in Chosen(ids)},
                       !.blocked = {row.name : row \in {x \in rows : Blocked(x)}}])

(* useradd -u for a uid that another account has fails without a word,     *)
(* usermod -u for one raises.                                              *)
Raises(d) ==
  /\ etc[d.name] \notin {None, d.uid}
  /\ d.uid \notin FreeUid

(* Mutant: an account that is there is left as it is.                      *)
RecoveredMissing(d) ==
  IF d.uid \in FreeUid /\ ~HasAccount(d.name)
  THEN [etc EXCEPT ![d.name] = d.uid] ELSE etc
Recovered(d) ==
  IF d.uid \in FreeUid THEN [etc EXCEPT ![d.name] = d.uid] ELSE etc

RecoverUser(r) ==
  /\ req[r].step = "recover"
  /\ \E d \in req[r].todo :
       LET s == [req[r] EXCEPT !.todo = @ \ {d},
                               !.step = IF req[r].todo = {d} THEN "save" ELSE @]
       IN /\ ~Raises(d)
          /\ etc' = Recovered(d)
          /\ Disturb(r, s)
  /\ UNCHANGED <<rows, lastId, etcHost, opened, restarts, unsaved>>

RecoverRaises(r) ==
  /\ req[r].step = "recover"
  /\ \E d \in req[r].todo : Raises(d)
  /\ Go(r, Idle)
  /\ unsaved' = TRUE
  /\ UNCHANGED <<rows, lastId, etc, etcHost, opened, restarts>>

RecoverNobody(r) ==
  /\ req[r].step = "recover"
  /\ req[r].todo = {}
  /\ Go(r, [req[r] EXCEPT !.step = "save"])
  /\ UNCHANGED <<rows, lastId, etc, etcHost, opened, restarts, unsaved>>

-----------------------------------------------------------------------------
(* The server stops in the middle of anything and starts again.            *)
Restart ==
  /\ restarts < MaxRestarts
  /\ restarts' = restarts + 1
  /\ req' = [r \in Request |-> Idle]
  /\ etc' = etcHost
  /\ unsaved' = FALSE
  /\ UNCHANGED <<rows, lastId, etcHost, opened>>

Next ==
  \/ \E r \in Request :
       \/ \E n \in Name : OpenCreate(r, n)
       \/ \E row \in rows : OpenDelete(r, row)
       \/ \E ids \in SUBSET Ids : OpenRecover(r, ids)
       \/ UserAdd(r) \/ GetUid(r) \/ Backup(r) \/ InsertUser(r)
       \/ InsertFails(r) \/ Join(r) \/ JoinFails(r)
       \/ DropRow(r) \/ DropFails(r) \/ UserDel(r) \/ Save(r)
       \/ RecoverUser(r) \/ RecoverRaises(r) \/ RecoverNobody(r)
  \/ Restart

Spec == Init /\ [][Next]_vars

-----------------------------------------------------------------------------
(* Properties.                                                             *)

(* Every variable keeps its type; ids and names are unique among the rows, *)
(* uids among the accounts.                                                *)
TypeOK ==
  /\ rows \subseteq [id : Ids, name : Name, uid : Uid]
  /\ \A a, b \in rows : a # b => a.id # b.id /\ a.name # b.name
  /\ lastId \in 0 .. MaxIds
  /\ etc \in [Name -> Uid \cup {None}]
  /\ etcHost \in [Name -> Uid \cup {None}]
  /\ \A m, n \in Name : HasAccount(m) /\ etc[m] = etc[n] => m = n
  /\ opened \in 0 .. MaxRequests
  /\ restarts \in 0 .. MaxRestarts
  /\ unsaved \in BOOLEAN

(* When no request is under way, /etc_host has exactly the accounts of     *)
(* /etc, so that a start of the server neither loses an account nor brings *)
(* one back: every path through creation, rollback and deletion copies     *)
(* what it changed, in whatever order the requests ran, and after a crash. *)
(* The one exception is a recovery that raised halfway (user.py:599-600).  *)
SavedWhenIdle ==
  (\A r \in Request : req[r] = Idle) /\ ~unsaved => etcHost = etc

(* A recovery nobody disturbed leaves every user it was asked for with an  *)
(* account of the row's uid, unless another account has that uid or had it *)
(* when the recovery began: rows a rolled back creation left without       *)
(* account, and accounts that got another uid, are put right, one at a     *)
(* time and in any order, though one may hold the uid of another.          *)
QuietRecoveryRestores ==
  [][\A r \in Request :
       Save(r) /\ req[r].op = "recover" /\ req[r].calm =>
         \A row \in rows :
           row.name \in req[r].asked =>
             \/ etc[row.name] = row.uid
             \/ Blocked(row)
             \/ row.name \in req[r].blocked]_vars
=============================================================================
