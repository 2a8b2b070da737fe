------------------------ MODULE WorkspaceReservation ------------------------
(***************************************************************************)
(* The GPUs and the period of every workspace (workspace.py), and how the  *)
(* backend finds out what is left to give away (gpu.py,                    *)
(* get_allocated_gpu_count of utils/kube.py).                              *)
(*                                                                         *)
(* A guaranteed workspace reserves its GPUs from its start to its end; the *)
(* others share what is not reserved.  Time is discrete: a workspace with  *)
(* start s and end e holds its GPUs in the instants s .. e - 1.            *)
(***************************************************************************)
EXTENDS Integers, FiniteSets, FiniteSetsExt, Functions

CONSTANTS
  Id,          \* the ids of workspaces; bounds how many there are at once
  MaxTime,     \* the last date there is
  Day,         \* the length of a day of the timeline
  Total,       \* the GPUs of the ready nodes (get_gpu_total_count)
  Sizes,       \* the pairs of training and deployment GPUs requests ask for
  Request      \* the web threads

Time == 1 .. MaxTime

ASSUME ReservationAssumption ==
  /\ IsFiniteSet(Id) /\ "new" \notin Id
  /\ MaxTime \in Nat /\ Total \in Nat
  /\ Day \in Nat \ {0}
  /\ Sizes \subseteq [training : Nat, deployment : Nat]

VARIABLES
  rows,     \* table workspace: a function of the ids in use
  req       \* the request each web thread is serving

vars == <<rows, req>>

Row == [start : Time, end : Time, size : [training : Nat, deployment : Nat],
        guaranteed : BOOLEAN]

Gpus(w) == w.size.training + w.size.deployment

NoRequest == [pc |-> "none"]
New == "new"

(* What the form lets an administrator ask for: a period that is not empty. *)
Wanted == {w \in [start : Time, end : Time, size : Sizes, guaranteed : BOOLEAN] :
             w.start < w.end}

------------------------------------------------------------------------------
(* What is allocated in a period                                           *)

SumOf(S) == MapThenSumSet(LAMBDA i : Gpus(rows[i]), S)
Largest(S) == Max({0} \cup S)

Others(me, guaranteed) ==
  {i \in DOMAIN rows : i # me /\ rows[i].guaranteed = guaranteed}

(* within_rage_check: the workspace has an instant in common with the      *)
(* period, or touches a period of no length.                               *)
Within(w, from, to) ==
  \/ w.start <= from /\ from < w.end
  \/ w.start < to /\ to <= w.end
  \/ w.start <= from /\ to <= w.end
  \/ w.start >= from /\ to >= w.end

Meeting(me, guaranteed, from, to) ==
  {i \in Others(me, guaranteed) : Within(rows[i], from, to)}

(* Mutant: only the ends of the workspaces are looked at.                  *)
AllocatedAtEnds(me, from, to) ==
  LET near == Meeting(me, TRUE, from, to)
      AtEnd(i) == LET e == Min({to, rows[i].end})
                  IN  SumOf({i} \cup {k \in near : rows[k].start < e /\ e < rows[k].end})
  IN  Largest({AtEnd(i) : i \in near})

(* get_allocated_gpu_count: the most GPUs reserved at once in a period,    *)
(* looked for where the workspaces that meet the period start and end.     *)
Allocated(me, from, to) ==
  LET near == Meeting(me, TRUE, from, to)
      AtStart(i) == LET s == Max({from, rows[i].start})
                    IN  SumOf({i} \cup {k \in near : rows[k].start <= s /\ s < rows[k].end})
      AtEnd(i) == LET e == Min({to, rows[i].end})
                  IN  SumOf({i} \cup {k \in near : rows[k].start < e /\ e <= rows[k].end})
  IN  Largest({AtStart(i) : i \in near} \cup {AtEnd(i) : i \in near})

(* get_not_guaranteed_max_gpu_from_workspace_list                          *)
LargestFree(me, from, to) ==
  Largest({Gpus(rows[i]) : i \in Meeting(me, FALSE, from, to)})

(* get_workspace_aval_gpu                                                  *)
(* Mutant: what workspaces without a guarantee may use is not deducted.    *)
AvailableIgnoringFree(me, from, to, guaranteed) == Total - Allocated(me, from, to)
Available(me, from, to, guaranteed) ==
  Total - Allocated(me, from, to)
        - (IF guaranteed THEN LargestFree(me, from, to) ELSE 0)

------------------------------------------------------------------------------
(* The calendar of the form (get_workspace_aval_gpu_timeline)              *)

Overlaps(w, from, to) == from < w.end /\ to > w.start

(* The workspaces the calendar of a period is made from.                   *)
Listed(me, guaranteed, from, to) ==
  {i \in Others(me, guaranteed) : from <= rows[i].end /\ to >= rows[i].start}

(* Mutant: a day counts the largest workspace only.                        *)
DayPeakLargest(S, from, to) ==
  Largest({Gpus(rows[i]) : i \in {k \in S : Overlaps(rows[k], from, to)}})

(* find_max_allocated_gpu_in_time_range: the most reserved at a date in    *)
(* the day at which a workspace starts or ends; without one, all there is. *)
DayPeak(S, from, to) ==
  LET oneDay == {i \in S : Overlaps(rows[i], from, to)}
      dates == {d \in UNION {{rows[i].start, rows[i].end} : i \in oneDay} :
                  from <= d /\ d <= to}
  IN  IF dates = {}
        THEN SumOf(oneDay)
        ELSE Largest({SumOf({i \in oneDay : rows[i].start <= d /\ d <= rows[i].end}) :
                        d \in dates})

Days(from, to) == 0 .. (to - from) \div Day

Timeline(me, from, to, guaranteed) ==
  [n \in Days(from, to) |->
     LET first == from + Day * n
         last == first + Day
     IN  Total
           - DayPeak(Listed(me, TRUE, from, to), first, last)
           - (IF guaranteed
                THEN Largest({Gpus(rows[i]) : i \in {k \in Listed(me, FALSE, from, to) :
                                                       Overlaps(rows[k], first, last)}})
                ELSE 0)]

------------------------------------------------------------------------------

Init ==
  /\ rows = [i \in {} |-> 0]
  /\ req = [r \in Request |-> NoRequest]

Serve(r, at, id, w) == req' = [req EXCEPT ![r] = [pc |-> at, id |-> id, row |-> w]]
Answer(r) == req' = [req EXCEPT ![r] = NoRequest]

(* create_workspace asks what is available, but in the period from the     *)
(* start to the start, and refuses more than that.                         *)
CheckCreate(r, w) ==
  /\ req[r].pc = "none"
  /\ Gpus(w) <= Available(New, w.start, w.start, w.guaranteed)
  /\ Serve(r, "insert", New, w)
  /\ UNCHANGED rows

(* Mutant: the row is stored under the id the request carries, which a     *)
(* creation does not have.                                                 *)
InsertUnnumbered(r, id) ==
  /\ req[r].pc = "insert"
  /\ id \notin DOMAIN rows
  /\ rows' = [i \in DOMAIN rows \cup {req[r].id} |->
                IF i = req[r].id THEN req[r].row ELSE rows[i]]
  /\ Answer(r)

(* The row is inserted under an id that no row and no request has, unless  *)
(* the directory or the insert fails.                                      *)
Insert(r, id) ==
  /\ req[r].pc = "insert"
  /\ id \notin DOMAIN rows
  /\ \A o \in Request : req[o].pc \in {"update", "split"} => req[o].id # id
  /\ rows' = [i \in DOMAIN rows \cup {id} |-> IF i = id THEN req[r].row ELSE rows[i]]
  /\ Answer(r)

InsertFails(r) ==
  /\ req[r].pc = "insert"
  /\ Answer(r)
  /\ UNCHANGED rows

(* update_workspace does the same, leaving out the workspace itself.       *)
CheckUpdate(r, id, w) ==
  /\ req[r].pc = "none"
  /\ id \in DOMAIN rows
  /\ Gpus(w) <= Available(id, w.start, w.start, w.guaranteed)
  /\ Serve(r, "update", id, w)
  /\ UNCHANGED rows

(* Whatever it finds out about the users, it updates the resources; an     *)
(* UPDATE of a row that has gone changes nothing.                          *)
Update(r) ==
  /\ req[r].pc = "update"
  /\ rows' = [i \in DOMAIN rows |-> IF i = req[r].id THEN req[r].row ELSE rows[i]]
  /\ Answer(r)

(* update_workspace_gpu, for the manager of a workspace: the GPUs may be   *)
(* divided anew between training and deployment, but not their number.     *)
CheckSplit(r, id, size) ==
  /\ req[r].pc = "none"
  /\ id \in DOMAIN rows
  /\ size.training + size.deployment = Gpus(rows[id])
  /\ Serve(r, "split", id, [rows[id] EXCEPT !.size = size])
  /\ UNCHANGED rows

WriteSplit(r) ==
  /\ req[r].pc = "split"
  /\ rows' = [i \in DOMAIN rows |->
                IF i = req[r].id THEN [rows[i] EXCEPT !.size = req[r].row.size]
                                 ELSE rows[i]]
  /\ Answer(r)

(* delete_workspace, of a workspace in which nothing runs.                 *)
Delete(id) ==
  /\ id \in DOMAIN rows
  /\ rows' = [i \in DOMAIN rows \ {id} |-> rows[i]]
  /\ UNCHANGED req

Next ==
  \/ \E r \in Request :
       \/ \E w \in Wanted : CheckCreate(r, w) \/ \E id \in Id : CheckUpdate(r, id, w)
       \/ \E id \in Id, size \in Sizes : CheckSplit(r, id, size)
       \/ \E id \in Id : Insert(r, id)
       \/ InsertFails(r) \/ Update(r) \/ WriteSplit(r)
  \/ \E id \in Id : Delete(id)

Spec == Init /\ [][Next]_vars

------------------------------------------------------------------------------
(* Properties                                                              *)

TypeOK ==
  /\ DOMAIN rows \subseteq Id
  /\ \A i \in DOMAIN rows : rows[i] \in Row
  /\ \A r \in Request :
       req[r] = NoRequest \/ req[r] \in [pc : {"insert", "update", "split"},
                                         id : Id \cup {New}, row : Row]

(* The reference: what is held in one instant.                             *)
HeldAt(t, me, guaranteed) ==
  {i \in Others(me, guaranteed) : rows[i].start <= t /\ t < rows[i].end}
ReservedAt(t, me) == SumOf(HeldAt(t, me, TRUE))
LargestFreeAt(t, me) == Largest({Gpus(rows[i]) : i \in HeldAt(t, me, FALSE)})

Period == {p \in Time \X Time : p[1] < p[2]}

(* Both invariants are about the table alone, and every table there is is  *)
(* also there when no request is being served.                             *)
Quiet == \A r \in Request : req[r] = NoRequest

(* Looking at the starts and the ends finds the peak: for every period and *)
(* every set of workspaces, get_allocated_gpu_count returns exactly the    *)
(* most GPUs that are reserved in one instant of the period.               *)
AllocatedIsPeak ==
  Quiet => \A me \in DOMAIN rows \cup {New} : \A p \in Period :
    Allocated(me, p[1], p[2]) = Largest({ReservedAt(t, me) : t \in p[1] .. p[2] - 1})

(* The calendar never promises what is not there: in no instant of the     *)
(* period are there fewer GPUs than the calendar shows for its day.        *)
CalendarKeepsPromise ==
  Quiet => \A me \in DOMAIN rows \cup {New}, guaranteed \in BOOLEAN : \A p \in Period :
    \A n \in Days(p[1], p[2]) :
      \A t \in (p[1] + Day * n .. p[1] + Day * (n + 1) - 1) \cap (p[1] .. p[2] - 1) :
        Timeline(me, p[1], p[2], guaranteed)[n]
          <= Total - ReservedAt(t, me) - (IF guaranteed THEN LargestFreeAt(t, me) ELSE 0)

(* A workspace a single administrator creates or moves has its GPUs in the *)
(* first instant of its period: with what others have reserved and, when   *)
(* it is guaranteed, what one of the others uses, it is within the nodes.  *)
StartIsCovered ==
  [][\A r \in Request : (\E id \in Id : Insert(r, id)) \/ Update(r) =>
       \A i \in DOMAIN rows' :
         (i \notin DOMAIN rows \/ rows'[i] # rows[i]) =>
            LET w == rows'[i]
            IN  Gpus(w) + ReservedAt(w.start, i)
                  + (IF w.guaranteed THEN LargestFreeAt(w.start, i) ELSE 0) <= Total]_vars

------------------------------------------------------------------------------
(* What a comment says, and the code does not do                           *)

(* "What a guaranteed workspace can be given = total - guaranteed GPUs -   *)
(* the largest workspace without a guarantee; what one without can be      *)
(* given = total - guaranteed GPUs" (utils/scheduler.py): so the GPUs      *)
(* guaranteed in one instant never exceed those of the nodes.              *)
GuaranteesFit == \A t \in Time : ReservedAt(t, New) + LargestFreeAt(t, New) <= Total
==============================================================================
