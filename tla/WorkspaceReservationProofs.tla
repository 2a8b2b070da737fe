--------------------- MODULE WorkspaceReservationProofs ---------------------
(***************************************************************************)
(* Theorems about WorkspaceReservation for any workspaces, GPUs, periods   *)
(* and calendar: the table keeps its types, get_allocated_gpu_count finds  *)
(* the peak of every period, the calendar promises nothing that is not     *)
(* there, and, with one administrator at a time, what is stored has its    *)
(* GPUs when it starts.                                                    *)
(***************************************************************************)
EXTENDS WorkspaceReservation, SumLemmas, TLAPS

Served == [pc : {"insert", "update", "split"}, id : Id \cup {New}, row : Row]

(* The requests ask for rows of the table's type.                          *)
LEMMA WantedIsRow == Wanted \subseteq Row
  BY ReservationAssumption DEF Wanted, Row

(* Serving a request, or answering it, leaves the other requests alone.    *)
LEMMA ServeTyped ==
  ASSUME TypeOK, NEW r \in Request, NEW at \in {"insert", "update", "split"},
         NEW id \in Id \cup {New}, NEW w \in Row, Serve(r, at, id, w),
         req = [o \in Request |-> req[o]]
  PROVE  \A o \in Request : req'[o] = NoRequest \/ req'[o] \in Served
  BY DEF TypeOK, Serve, Served

(* The same for a request that is answered.                                *)
LEMMA AnswerTyped ==
  ASSUME TypeOK, NEW r \in Request, Answer(r), req = [o \in Request |-> req[o]]
  PROVE  \A o \in Request : req'[o] = NoRequest \/ req'[o] \in Served
  BY DEF TypeOK, Answer, Served

(* The invariant: TypeOK, and every web thread has a place in req.         *)
TypeInv == req = [o \in Request |-> req[o]] /\ TypeOK

(* The invariant holds at the start...                                     *)
LEMMA TypeInit == Init => TypeInv
  BY DEF Init, TypeInv, TypeOK

(* ... and every step keeps it.                                            *)
LEMMA TypeNext == TypeInv /\ [Next]_vars => TypeInv'
<1> SUFFICES ASSUME TypeInv, [Next]_vars PROVE TypeInv'
  OBVIOUS
<1> USE DEF TypeInv
<1>a. ASSUME NEW r \in Request, NEW w \in Wanted, CheckCreate(r, w)
      PROVE  TypeInv'
  <2>1. \A o \in Request : req'[o] = NoRequest \/ req'[o] \in Served
    BY <1>a, ServeTyped, WantedIsRow DEF CheckCreate
  <2> QED BY <1>a, <2>1 DEF CheckCreate, TypeOK, Serve, Served
<1>b. ASSUME NEW r \in Request, NEW w \in Wanted, NEW id \in Id, CheckUpdate(r, id, w)
      PROVE  TypeInv'
  <2>1. \A o \in Request : req'[o] = NoRequest \/ req'[o] \in Served
    BY <1>b, ServeTyped, WantedIsRow DEF CheckUpdate
  <2> QED BY <1>b, <2>1 DEF CheckUpdate, TypeOK, Serve, Served
<1>c. ASSUME NEW r \in Request, NEW id \in Id, NEW size \in Sizes, CheckSplit(r, id, size)
      PROVE  TypeInv'
  <2>1. [rows[id] EXCEPT !.size = size] \in Row
    BY <1>c, ReservationAssumption DEF CheckSplit, TypeOK, Row
  <2>2. \A o \in Request : req'[o] = NoRequest \/ req'[o] \in Served
    BY <1>c, <2>1, ServeTyped DEF CheckSplit
  <2> QED BY <1>c, <2>2 DEF CheckSplit, TypeOK, Serve, Served
<1>d. ASSUME NEW r \in Request, NEW id \in Id, Insert(r, id)
      PROVE  TypeInv'
  <2>1. req[r].row \in Row
    BY <1>d DEF Insert, TypeOK, NoRequest
  <2>2. \A o \in Request : req'[o] = NoRequest \/ req'[o] \in Served
    BY <1>d, AnswerTyped DEF Insert
  <2>3. DOMAIN rows' = DOMAIN rows \cup {id} /\ \A i \in DOMAIN rows' : rows'[i] \in Row
    BY <1>d, <2>1 DEF Insert, TypeOK
  <2> QED BY <1>d, <2>2, <2>3 DEF Insert, TypeOK, Answer, Served
<1>e. ASSUME NEW r \in Request, InsertFails(r)
      PROVE  TypeInv'
  <2>1. \A o \in Request : req'[o] = NoRequest \/ req'[o] \in Served
    BY <1>e, AnswerTyped DEF InsertFails
  <2> QED BY <1>e, <2>1 DEF InsertFails, TypeOK, Answer, Served
<1>f. ASSUME NEW r \in Request, Update(r)
      PROVE  TypeInv'
  <2>1. req[r].row \in Row
    BY <1>f DEF Update, TypeOK, NoRequest
  <2>2. \A o \in Request : req'[o] = NoRequest \/ req'[o] \in Served
    BY <1>f, AnswerTyped DEF Update
  <2>3. DOMAIN rows' = DOMAIN rows /\ \A i \in DOMAIN rows' : rows'[i] \in Row
    BY <1>f, <2>1 DEF Update, TypeOK
  <2> QED BY <1>f, <2>2, <2>3 DEF Update, TypeOK, Answer, Served
<1>g. ASSUME NEW r \in Request, WriteSplit(r)
      PROVE  TypeInv'
  <2>1. req[r].row \in Row
    BY <1>g DEF WriteSplit, TypeOK, NoRequest
  <2>2. \A o \in Request : req'[o] = NoRequest \/ req'[o] \in Served
    BY <1>g, AnswerTyped DEF WriteSplit
  <2>3. \A i \in DOMAIN rows : [rows[i] EXCEPT !.size = req[r].row.size] \in Row
    BY <2>1 DEF TypeOK, Row
  <2>4. DOMAIN rows' = DOMAIN rows /\ \A i \in DOMAIN rows' : rows'[i] \in Row
    BY <1>g, <2>3 DEF WriteSplit, TypeOK
  <2> QED BY <1>g, <2>2, <2>4 DEF WriteSplit, TypeOK, Answer, Served
<1>h. ASSUME NEW id \in Id, Delete(id)
      PROVE  TypeInv'
  BY <1>h DEF Delete, TypeOK
<1>i. CASE UNCHANGED vars
  BY <1>i DEF vars, TypeOK
<1> QED BY <1>a, <1>b, <1>c, <1>d, <1>e, <1>f, <1>g, <1>h, <1>i DEF Next

(* Every row keeps its type and a real id: what is inserted, updated and   *)
(* divided anew (workspace.py) are rows, whoever runs in between.          *)
THEOREM ReservationsTyped == Spec => []TypeOK
<1>1. Init => TypeInv BY TypeInit
<1>2. TypeInv /\ [Next]_vars => TypeInv' BY TypeNext
<1>3. TypeInv => TypeOK BY DEF TypeInv
<1> QED BY <1>1, <1>2, <1>3, PTL DEF Spec

------------------------------------------------------------------------------
(* The sums and the maxima of the calculations                             *)

(* A table: finitely many periods that are not empty.                      *)
Table(R) ==
  /\ DOMAIN R \subseteq Id
  /\ \A i \in DOMAIN R : R[i] \in Row /\ R[i].start < R[i].end

(* The GPUs of its workspaces, and the sum of those of some.               *)
GpusOf(R) == [i \in DOMAIN R |-> Gpus(R[i])]
SumIn(R, S) == MapThenSumSet(LAMBDA i : Gpus(R[i]), S)

(* The parts of a row.                                                     *)
LEMMA RowFacts ==
  ASSUME NEW R, Table(R), NEW i \in DOMAIN R
  PROVE  /\ R[i].start \in Int /\ R[i].end \in Int /\ R[i].start < R[i].end
         /\ R[i].guaranteed \in BOOLEAN /\ Gpus(R[i]) \in Nat
<1>1. R[i] \in Row /\ R[i].start < R[i].end
  BY DEF Table
<1> QED
  BY <1>1, ReservationAssumption DEF Row, Time, Gpus

(* The sums of the model are the sums the lemmas are about.                *)
LEMMA SumInIsSum ==
  ASSUME NEW R, Table(R), NEW S \in SUBSET DOMAIN R
  PROVE  IsFiniteSet(S) /\ SumIn(R, S) = SumOver(GpusOf(R), S)
<1>0. IsFiniteSet(S)
  BY ReservationAssumption, FS_Subset DEF Table
<1> DEFINE f == GpusOf(R)
           Rec(g) == g = [U \in SUBSET S |-> IF U = {} THEN 0
                            ELSE Gpus(R[AnyOf(U)]) + g[U \ {AnyOf(U)}]]
<1>1. SumIn(R, S) = (CHOOSE g : Rec(g))[S]
  BY DEF SumIn, MapThenSumSet, MapThenFoldSet, AnyOf
<1>2. \A U \in SUBSET S : U # {} => f[AnyOf(U)] = Gpus(R[AnyOf(U)])
  BY DEF AnyOf, GpusOf
<1> HIDE DEF f
<1>3. \A g : Rec(g) <=> IsSum(g, f, S)
  BY <1>2 DEF IsSum
<1> HIDE DEF Rec
<1>4. IsSum([U \in SUBSET S |-> SumOver(f, U)], f, S)
  BY <1>0, SumOverIsSum
<1>5. (CHOOSE g : Rec(g)) = [U \in SUBSET S |-> SumOver(f, U)]
  BY <1>0, <1>3, <1>4, SumUnique
<1> QED
  BY <1>0, <1>1, <1>5 DEF f

(* More workspaces have more GPUs.                                         *)
LEMMA SumInGrows ==
  ASSUME NEW R, Table(R), NEW S \in SUBSET DOMAIN R
  PROVE  SumIn(R, S) \in Nat /\ \A U \in SUBSET S : SumIn(R, U) <= SumIn(R, S)
<1>1. IsFiniteSet(S) /\ \A i \in S : GpusOf(R)[i] \in Nat
  BY SumInIsSum, RowFacts DEF GpusOf
<1>2. \A U \in SUBSET S : SumIn(R, U) = SumOver(GpusOf(R), U)
  BY SumInIsSum
<1> QED
  BY <1>1, <1>2, SumSubset, SumNat

(* The largest of a set of numbers, or nothing.                            *)
LEMMA LargestIs ==
  ASSUME NEW S \in SUBSET Nat, IsFiniteSet(S)
  PROVE  /\ Largest(S) \in Nat /\ Largest(S) \in {0} \cup S
         /\ \A x \in S : x <= Largest(S)
<1>1. {0} \cup S = S \cup {0}
  OBVIOUS
<1>2. IsFiniteSet({0} \cup S)
  BY <1>1, FS_AddElement
<1>3. {0} \cup S \in SUBSET Int /\ {0} \cup S # {}
  OBVIOUS
<1>4. Max({0} \cup S) \in {0} \cup S /\ \A x \in {0} \cup S : x <= Max({0} \cup S)
  BY <1>2, <1>3, MinMaxExist
<1>5. Largest(S) = Max({0} \cup S)
  BY DEF Largest
<1>6. Largest(S) \in {0} \cup S /\ \A x \in {0} \cup S : x <= Largest(S)
  BY <1>4, <1>5
<1>7. {0} \cup S \in SUBSET Nat /\ \A x \in S : x \in {0} \cup S
  OBVIOUS
<1>8. Largest(S) \in Nat
  BY <1>6, <1>7
<1> QED
  BY <1>6, <1>7, <1>8

(* The largest grows with the set.                                         *)
LEMMA LargestLeq ==
  ASSUME NEW S \in SUBSET Nat, IsFiniteSet(S), NEW T \in SUBSET Nat, IsFiniteSet(T),
         \A x \in S : x = 0 \/ \E y \in T : x <= y
  PROVE  Largest(S) <= Largest(T)
<1>1. /\ Largest(S) \in Nat /\ Largest(S) \in {0} \cup S
      /\ Largest(T) \in Nat /\ \A y \in T : y <= Largest(T)
  BY LargestIs
<1>2. CASE Largest(S) = 0
  BY <1>1, <1>2
<1>3. CASE Largest(S) \in S /\ Largest(S) # 0
  <2>1. PICK y \in T : Largest(S) <= y
    BY <1>3
  <2> QED
    BY <1>1, <2>1
<1> QED
  BY <1>1, <1>2, <1>3

------------------------------------------------------------------------------
(* The peak                                                                *)

(* The sums that get_allocated_gpu_count compares: at the start and at the *)
(* end of each workspace that meets the period.                            *)
AtStarts(me, from, to) ==
  [i \in Meeting(me, TRUE, from, to) |->
     SumIn(rows, {i} \cup {k \in Meeting(me, TRUE, from, to) :
                             /\ rows[k].start <= Max({from, rows[i].start})
                             /\ Max({from, rows[i].start}) < rows[k].end})]
AtEnds(me, from, to) ==
  [i \in Meeting(me, TRUE, from, to) |->
     SumIn(rows, {i} \cup {k \in Meeting(me, TRUE, from, to) :
                             /\ rows[k].start < Min({to, rows[i].end})
                             /\ Min({to, rows[i].end}) <= rows[k].end})]
Sums(f) == {f[i] : i \in DOMAIN f}

(* What get_allocated_gpu_count returns is the largest of them.            *)
LEMMA AllocatedSums ==
  ASSUME NEW me, NEW from, NEW to
  PROVE  Allocated(me, from, to)
           = Largest(Sums(AtStarts(me, from, to)) \cup Sums(AtEnds(me, from, to)))
<1>1. Sums(AtStarts(me, from, to))
        = {SumIn(rows, {i} \cup {k \in Meeting(me, TRUE, from, to) :
                             /\ rows[k].start <= Max({from, rows[i].start})
                             /\ Max({from, rows[i].start}) < rows[k].end}) :
             i \in Meeting(me, TRUE, from, to)}
  BY DEF Sums, AtStarts
<1>2. Sums(AtEnds(me, from, to))
        = {SumIn(rows, {i} \cup {k \in Meeting(me, TRUE, from, to) :
                             /\ rows[k].start < Min({to, rows[i].end})
                             /\ Min({to, rows[i].end}) <= rows[k].end}) :
             i \in Meeting(me, TRUE, from, to)}
  BY DEF Sums, AtEnds
<1> QED
  BY <1>1, <1>2 DEF Allocated, SumIn, SumOf

(* All of these sums are numbers.                                          *)
LEMMA SumsNat ==
  ASSUME Table(rows), NEW me, NEW from, NEW to
  PROVE  /\ Sums(AtStarts(me, from, to)) \cup Sums(AtEnds(me, from, to)) \in SUBSET Nat
         /\ IsFiniteSet(Sums(AtStarts(me, from, to)) \cup Sums(AtEnds(me, from, to)))
<1> DEFINE near == Meeting(me, TRUE, from, to)
           a == AtStarts(me, from, to)
           b == AtEnds(me, from, to)
<1>1. near \in SUBSET DOMAIN rows /\ DOMAIN a = near /\ DOMAIN b = near
  BY DEF Meeting, Others, AtStarts, AtEnds
<1>2. IsFiniteSet(near)
  BY <1>1, SumInIsSum
<1>3. \A i \in near : a[i] \in Nat /\ b[i] \in Nat
  <2> SUFFICES ASSUME NEW i \in near PROVE a[i] \in Nat /\ b[i] \in Nat
    OBVIOUS
  <2> DEFINE A == {i} \cup {k \in near : /\ rows[k].start <= Max({from, rows[i].start})
                                         /\ Max({from, rows[i].start}) < rows[k].end}
             B == {i} \cup {k \in near : /\ rows[k].start < Min({to, rows[i].end})
                                         /\ Min({to, rows[i].end}) <= rows[k].end}
  <2>1. a[i] = SumIn(rows, A) /\ b[i] = SumIn(rows, B)
    BY DEF AtStarts, AtEnds
  <2>2. A \in SUBSET DOMAIN rows /\ B \in SUBSET DOMAIN rows
    BY <1>1
  <2> HIDE DEF A, B, a, b
  <2> QED
    BY <2>1, <2>2, SumInGrows
<1> HIDE DEF a, b, near
<1>4. Sums(a) \in SUBSET Nat /\ Sums(b) \in SUBSET Nat
  BY <1>1, <1>3 DEF Sums
<1>5. IsFiniteSet(Sums(a)) /\ IsFiniteSet(Sums(b))
  BY <1>1, <1>2, ImageFinite DEF Sums
<1>6. IsFiniteSet(Sums(a) \cup Sums(b)) /\ Sums(a) \cup Sums(b) \in SUBSET Nat
  BY <1>4, <1>5, FS_Union
<1> QED
  BY <1>6 DEF a, b

(* What is held at one time.                                               *)
LEMMA HeldFacts ==
  ASSUME Table(rows), NEW t, NEW me, NEW g
  PROVE  /\ HeldAt(t, me, g) \in SUBSET DOMAIN rows /\ IsFiniteSet(HeldAt(t, me, g))
         /\ ReservedAt(t, me) = SumIn(rows, HeldAt(t, me, TRUE)) /\ ReservedAt(t, me) \in Nat
<1>1. \A h : HeldAt(t, me, h) \in SUBSET DOMAIN rows
  BY DEF HeldAt, Others
<1>2. ReservedAt(t, me) = SumIn(rows, HeldAt(t, me, TRUE))
  BY DEF ReservedAt, SumOf, SumIn
<1>3. IsFiniteSet(HeldAt(t, me, g)) /\ SumIn(rows, HeldAt(t, me, TRUE)) \in Nat
  BY <1>1, SumInIsSum, SumInGrows
<1> QED
  BY <1>1, <1>2, <1>3

(* Among the workspaces that hold GPUs at one time, one started last and   *)
(* one will end first.                                                     *)
LEMMA LastAndFirst ==
  ASSUME Table(rows), NEW H \in SUBSET DOMAIN rows, H # {}
  PROVE  /\ \E i \in H : \A k \in H : rows[k].start <= rows[i].start
         /\ \E i \in H : \A k \in H : rows[i].end <= rows[k].end
<1> DEFINE s == [i \in H |-> rows[i].start]
           e == [i \in H |-> rows[i].end]
<1>1. \A i \in H : s[i] = rows[i].start /\ s[i] \in Int /\ e[i] = rows[i].end /\ e[i] \in Int
  BY RowFacts
<1>2. IsFiniteSet(H)
  BY SumInIsSum
<1> HIDE DEF s, e
<1>3. (\E i \in H : \A k \in H : s[k] <= s[i]) /\ (\E i \in H : \A k \in H : e[i] <= e[k])
  BY <1>1, <1>2, Extremes
<1> QED
  BY <1>1, <1>3

(* What is counted at the start and at the end of one workspace is held in *)
(* an instant of the period...                                             *)
LEMMA CountedIsHeld ==
  ASSUME Table(rows), NEW me, NEW from \in Int, NEW to \in Int, from < to,
         NEW i \in Meeting(me, TRUE, from, to)
  PROVE  /\ \E t \in from .. to - 1 : AtStarts(me, from, to)[i] <= ReservedAt(t, me)
         /\ \E t \in from .. to - 1 : AtEnds(me, from, to)[i] <= ReservedAt(t, me)
<1> DEFINE near == Meeting(me, TRUE, from, to)
           s == Max({from, rows[i].start})
           e == Min({to, rows[i].end})
           A == {i} \cup {k \in near : rows[k].start <= s /\ s < rows[k].end}
           B == {i} \cup {k \in near : rows[k].start < e /\ e <= rows[k].end}
<1>1. near \in SUBSET Others(me, TRUE) /\ Others(me, TRUE) \in SUBSET DOMAIN rows
  BY DEF Meeting, Others
<1>2. AtStarts(me, from, to)[i] = SumIn(rows, A) /\ AtEnds(me, from, to)[i] = SumIn(rows, B)
  BY DEF AtStarts, AtEnds
<1>3. \A k \in near : rows[k].start \in Int /\ rows[k].end \in Int /\ rows[k].start < rows[k].end
  BY <1>1, RowFacts
<1>4. rows[i].start < to /\ from < rows[i].end
  <2>1. rows[i].start \in Int /\ rows[i].end \in Int /\ rows[i].start < rows[i].end
    BY <1>3
  <2>2. Within(rows[i], from, to)
    BY DEF Meeting
  <2> HIDE DEF near, s, e, A, B
  <2> QED
    BY <2>1, <2>2 DEF Within
<1>5. /\ s \in Int /\ from <= s /\ s < to /\ rows[i].start <= s /\ s < rows[i].end
      /\ e \in Int /\ from < e /\ e <= to /\ rows[i].start < e /\ e <= rows[i].end
  <2>1. /\ s \in {from, rows[i].start} /\ from <= s /\ rows[i].start <= s
        /\ e \in {to, rows[i].end} /\ e <= to /\ e <= rows[i].end
    BY <1>3, TwoMinMax
  <2> HIDE DEF s, e
  <2> QED
    BY <1>3, <1>4, <2>1
<1> HIDE DEF s, e
<1>6. A \in SUBSET HeldAt(s, me, TRUE)
  BY <1>1, <1>5 DEF HeldAt
<1>7. B \in SUBSET HeldAt(e - 1, me, TRUE)
  <2> SUFFICES ASSUME NEW k \in B PROVE k \in HeldAt(e - 1, me, TRUE)
    OBVIOUS
  <2>1. k \in near /\ rows[k].start < e /\ e <= rows[k].end
    BY <1>5
  <2>2. rows[k].start \in Int /\ rows[k].end \in Int
    BY <1>3, <2>1
  <2>3. rows[k].start <= e - 1 /\ e - 1 < rows[k].end
    BY <1>5, <2>1, <2>2
  <2> QED
    BY <1>1, <2>1, <2>3 DEF HeldAt
<1>8. s \in from .. to - 1 /\ e - 1 \in from .. to - 1
  BY <1>5
<1> HIDE DEF A, B
<1>9. SumIn(rows, A) <= ReservedAt(s, me) /\ SumIn(rows, B) <= ReservedAt(e - 1, me)
  BY <1>6, <1>7, HeldFacts, SumInGrows
<1> QED
  BY <1>2, <1>8, <1>9

(* ... and what is held in an instant of the period is counted at the last *)
(* start before it.                                                        *)
LEMMA HeldIsCounted ==
  ASSUME Table(rows), NEW me, NEW from \in Int, NEW to \in Int,
         NEW t \in Int, from <= t, t < to \/ (t = from /\ from = to),
         HeldAt(t, me, TRUE) # {}
  PROVE  \E i \in Meeting(me, TRUE, from, to) :
           ReservedAt(t, me) <= AtStarts(me, from, to)[i]
<1> DEFINE near == Meeting(me, TRUE, from, to)
           H == HeldAt(t, me, TRUE)
<1>1. H \in SUBSET DOMAIN rows
  BY HeldFacts
<1>2. PICK i \in H : \A k \in H : rows[k].start <= rows[i].start
  BY <1>1, LastAndFirst
<1>3. \A k \in H : /\ rows[k].start \in Int /\ rows[k].end \in Int
                   /\ rows[k].start <= t /\ t < rows[k].end
  BY <1>1, RowFacts DEF HeldAt
<1>4. H \in SUBSET near
  <2> SUFFICES ASSUME NEW k \in H PROVE k \in near
    OBVIOUS
  <2>1. k \in Others(me, TRUE)
    BY DEF HeldAt
  <2>2. Within(rows[k], from, to)
    <3>1. /\ rows[k].start \in Int /\ rows[k].end \in Int
          /\ rows[k].start <= t /\ t < rows[k].end
      BY <1>3
    <3> HIDE DEF H, near
    <3> QED
      BY <3>1 DEF Within
  <2> QED
    BY <2>1, <2>2 DEF Meeting
<1> DEFINE s == Max({from, rows[i].start})
           A == {i} \cup {k \in near : rows[k].start <= s /\ s < rows[k].end}
<1>5. s \in Int /\ rows[i].start <= s /\ s <= t
  BY <1>3, TwoMinMax
<1>6. AtStarts(me, from, to)[i] = SumIn(rows, A)
  BY <1>4 DEF AtStarts
<1> HIDE DEF s, H
<1>7. H \in SUBSET A
  <2> SUFFICES ASSUME NEW k \in H PROVE k \in A
    OBVIOUS
  <2>1. /\ rows[k].start \in Int /\ rows[k].end \in Int /\ rows[i].start \in Int
        /\ t < rows[k].end /\ rows[k].start <= rows[i].start
    BY <1>2, <1>3
  <2>2. rows[k].start <= s /\ s < rows[k].end
    BY <1>5, <2>1
  <2> QED
    BY <1>4, <2>2
<1>8. A \in SUBSET DOMAIN rows
  BY <1>1, <1>4 DEF Meeting, Others
<1> HIDE DEF A, near
<1>9. SumIn(rows, H) <= SumIn(rows, A)
  BY <1>7, <1>8, SumInGrows
<1> QED
  BY <1>4, <1>6, <1>9, HeldFacts DEF H, near

(* The peak of a period is found.                                          *)
LEMMA PeakFound ==
  ASSUME Table(rows), NEW me, NEW from \in Int, NEW to \in Int, from < to
  PROVE  Allocated(me, from, to) = Largest({ReservedAt(t, me) : t \in from .. to - 1})
<1> DEFINE a == AtStarts(me, from, to)
           b == AtEnds(me, from, to)
           L == Sums(a) \cup Sums(b)
           r == [t \in from .. to - 1 |-> ReservedAt(t, me)]
           M == {r[t] : t \in from .. to - 1}
<1>1. L \in SUBSET Nat /\ IsFiniteSet(L)
  BY SumsNat
<1>2. DOMAIN a = Meeting(me, TRUE, from, to) /\ DOMAIN b = Meeting(me, TRUE, from, to)
  BY DEF AtStarts, AtEnds
<1> HIDE DEF a, b
<1>3. \A t \in from .. to - 1 : r[t] = ReservedAt(t, me) /\ r[t] \in Nat
  BY HeldFacts
<1>4. M = {ReservedAt(t, me) : t \in from .. to - 1}
  BY <1>3
<1> HIDE DEF r
<1>5. M \in SUBSET Nat /\ IsFiniteSet(M)
  <2>1. IsFiniteSet(from .. to - 1)
    BY FS_Interval
  <2> QED
    BY <1>3, <2>1, ImageFinite
<1>6. \A x \in L : \E y \in M : x <= y
  <2> SUFFICES ASSUME NEW i \in Meeting(me, TRUE, from, to)
               PROVE  (\E y \in M : a[i] <= y) /\ (\E y \in M : b[i] <= y)
    BY <1>2 DEF Sums
  <2>1. PICK t \in from .. to - 1 : a[i] <= ReservedAt(t, me)
    BY CountedIsHeld DEF a
  <2>2. PICK u \in from .. to - 1 : b[i] <= ReservedAt(u, me)
    BY CountedIsHeld DEF b
  <2> QED
    BY <1>3, <2>1, <2>2
<1>7. \A y \in M : y = 0 \/ \E x \in L : y <= x
  <2> SUFFICES ASSUME NEW t \in from .. to - 1, ReservedAt(t, me) # 0
               PROVE  \E x \in L : ReservedAt(t, me) <= x
    BY <1>3
  <2>1. HeldAt(t, me, TRUE) # {}
    <3>1. SumIn(rows, {}) = 0
      BY SumInIsSum, SumEmpty
    <3> QED
      BY <3>1, HeldFacts
  <2>2. PICK i \in Meeting(me, TRUE, from, to) : ReservedAt(t, me) <= a[i]
    <3> HIDE DEF L, M
    <3>1. t \in Int /\ from <= t /\ (t < to \/ (t = from /\ from = to))
      <4>1. t \in Int /\ from <= t /\ t <= to - 1
        OBVIOUS
      <4> QED
        BY <4>1
    <3> QED
      BY <2>1, <3>1, HeldIsCounted, Zenon DEF a
  <2>3. a[i] \in L
    BY <1>2 DEF Sums
  <2> QED
    BY <2>2, <2>3
<1>8. Largest(L) <= Largest(M) /\ Largest(M) <= Largest(L)
  <2> HIDE DEF L, M
  <2> QED
    BY <1>1, <1>5, <1>6, <1>7, LargestLeq
<1>9. Largest(L) \in Nat /\ Largest(M) \in Nat
  <2> HIDE DEF L, M
  <2> QED
    BY <1>1, <1>5, LargestIs
<1>10. Allocated(me, from, to) = Largest(L)
  BY AllocatedSums DEF a, b
<1>11. Largest(L) = Largest(M)
  <2> HIDE DEF L, M
  <2> QED
    BY <1>8, <1>9
<1> QED
  BY <1>4, <1>10, <1>11

------------------------------------------------------------------------------
(* The largest workspace without a guarantee                               *)

(* The sizes of some workspaces are numbers, and more have a larger one.   *)
LEMMA SizesGrow ==
  ASSUME NEW R, Table(R), NEW S \in SUBSET DOMAIN R, NEW U \in SUBSET S
  PROVE  /\ Largest({Gpus(R[i]) : i \in S}) \in Nat
         /\ Largest({Gpus(R[i]) : i \in U}) \in Nat
         /\ Largest({Gpus(R[i]) : i \in U}) <= Largest({Gpus(R[i]) : i \in S})
<1> DEFINE A(V) == {GpusOf(R)[i] : i \in V}
<1>1. ASSUME NEW V \in SUBSET DOMAIN R
      PROVE  /\ A(V) = {Gpus(R[i]) : i \in V} /\ A(V) \in SUBSET Nat /\ IsFiniteSet(A(V))
  <2>1. \A i \in V : GpusOf(R)[i] = Gpus(R[i]) /\ Gpus(R[i]) \in Nat
    BY RowFacts DEF GpusOf
  <2>2. IsFiniteSet(V)
    BY SumInIsSum
  <2>3. IsFiniteSet(A(V))
    BY <2>2, ImageFinite
  <2> QED
    BY <2>1, <2>3
<1>2. U \in SUBSET DOMAIN R
  OBVIOUS
<1>3. A(S) \in SUBSET Nat /\ IsFiniteSet(A(S)) /\ A(U) \in SUBSET Nat /\ IsFiniteSet(A(U))
  BY <1>1, <1>2
<1>4. \A x \in A(U) : x \in A(S)
  OBVIOUS
<1>5. \A x \in A(U) : \E y \in A(S) : x <= y
  <2> SUFFICES ASSUME NEW x \in A(U) PROVE \E y \in A(S) : x <= y
    OBVIOUS
  <2>1. x \in A(S) /\ x \in Nat
    BY <1>3, <1>4
  <2>2. x <= x
    BY <2>1
  <2> QED
    BY <2>1, <2>2
<1>6. A(S) = {Gpus(R[i]) : i \in S} /\ A(U) = {Gpus(R[i]) : i \in U}
  BY <1>1, <1>2
<1> HIDE DEF A
<1>7. Largest(A(U)) <= Largest(A(S)) /\ Largest(A(U)) \in Nat /\ Largest(A(S)) \in Nat
  BY <1>3, <1>5, LargestLeq, LargestIs
<1> QED
  BY <1>6, <1>7

------------------------------------------------------------------------------
(* The calendar                                                            *)

(* What is held at an instant of a day is counted at one of the dates of   *)
(* the day: the last start before the instant, else the first end after    *)
(* it, else any date; and, if the day has none, in what the day has.       *)
LEMMA DayCovers ==
  ASSUME Table(rows), NEW S \in SUBSET DOMAIN rows, NEW from \in Int, NEW to \in Int,
         NEW t \in Int, from <= t, t < to,
         NEW H \in SUBSET S, \A k \in H : rows[k].start <= t /\ t < rows[k].end
  PROVE  SumIn(rows, H) <= DayPeak(S, from, to) /\ DayPeak(S, from, to) \in Nat
<1> DEFINE oneDay == {i \in S : Overlaps(rows[i], from, to)}
           dates == {d \in UNION {{rows[i].start, rows[i].end} : i \in oneDay} :
                       from <= d /\ d <= to}
           At(d) == {i \in oneDay : rows[i].start <= d /\ d <= rows[i].end}
           f == [d \in dates |-> SumIn(rows, At(d))]
           F == {f[d] : d \in dates}
<1>1. oneDay \in SUBSET DOMAIN rows /\ \A d : At(d) \in SUBSET DOMAIN rows
  OBVIOUS
<1>2. ASSUME NEW k \in H
      PROVE  /\ k \in oneDay /\ rows[k].start \in Int /\ rows[k].end \in Int
             /\ rows[k].start <= t /\ t < rows[k].end
  <2>1. rows[k].start \in Int /\ rows[k].end \in Int
    BY RowFacts
  <2> QED
    BY <2>1 DEF Overlaps
<1>3. DayPeak(S, from, to) = IF dates = {} THEN SumIn(rows, oneDay) ELSE Largest(F)
  BY DEF DayPeak, SumOf, SumIn
<1>4. H \in SUBSET oneDay
  BY <1>2
<1>5. \A d \in dates : f[d] = SumIn(rows, At(d)) /\ f[d] \in Nat
  BY <1>1, SumInGrows
<1>6. IsFiniteSet(dates)
  <2>1. dates \in SUBSET (from .. to)
    <3> SUFFICES ASSUME NEW d \in dates PROVE d \in from .. to
      OBVIOUS
    <3>1. PICK i \in oneDay : d \in {rows[i].start, rows[i].end}
      OBVIOUS
    <3>2. d \in Int /\ from <= d /\ d <= to
      BY <3>1, RowFacts
    <3> QED
      BY <3>2
  <2>2. IsFiniteSet(from .. to)
    BY FS_Interval
  <2> QED
    BY <2>1, <2>2, FS_Subset
<1>7. \A i \in oneDay : /\ from <= rows[i].start /\ rows[i].start <= to => rows[i].start \in dates
                        /\ from <= rows[i].end /\ rows[i].end <= to => rows[i].end \in dates
  OBVIOUS
<1>8. \A d \in dates : d \in Int /\ from <= d /\ d <= to
  <2> SUFFICES ASSUME NEW d \in dates PROVE d \in Int /\ from <= d /\ d <= to
    OBVIOUS
  <2>1. PICK i \in oneDay : d \in {rows[i].start, rows[i].end}
    OBVIOUS
  <2> QED
    BY <2>1, RowFacts
<1> HIDE DEF dates, f
<1>9. F \in SUBSET Nat /\ IsFiniteSet(F)
  BY <1>5, <1>6, ImageFinite
<1>10. SumIn(rows, oneDay) \in Nat /\ SumIn(rows, H) \in Nat /\ SumIn(rows, H) <= SumIn(rows, oneDay)
  BY <1>1, <1>4, SumInGrows
<1>11. CASE dates = {}
  BY <1>3, <1>10, <1>11
<1>12. CASE H = {} /\ dates # {}
  <2>1. SumIn(rows, H) = 0
    BY <1>12, SumInIsSum, SumEmpty
  <2>2. Largest(F) \in Nat
    <3> HIDE DEF F
    <3> QED
      BY <1>9, LargestIs
  <2>3. DayPeak(S, from, to) = Largest(F)
    BY <1>3, <1>12
  <2> HIDE DEF F
  <2> QED
    BY <2>1, <2>2, <2>3
<1>13. CASE H # {} /\ dates # {}
  <2>1. \E d \in dates : H \in SUBSET At(d)
    <3>1. H \in SUBSET DOMAIN rows
      BY <1>1, <1>4
    <3>2. PICK i \in H : \A k \in H : rows[k].start <= rows[i].start
      BY <1>13, <3>1, LastAndFirst
    <3>3. PICK e \in H : \A k \in H : rows[e].end <= rows[k].end
      BY <1>13, <3>1, LastAndFirst
    <3>4. ASSUME NEW d \in Int, d \in dates,
                 \A k \in H : rows[k].start <= d /\ d <= rows[k].end
          PROVE  \E x \in dates : H \in SUBSET At(x)
      <4>1. H \in SUBSET At(d)
        BY <1>4, <3>4
      <4> QED
        BY <3>4, <4>1
    <3> HIDE DEF At, oneDay
    <3>5. CASE rows[i].start >= from
      <4>1. rows[i].start \in Int /\ rows[i].start <= t
        BY <1>2
      <4>2. rows[i].start \in dates
        <5>1. from <= rows[i].start /\ rows[i].start <= to /\ i \in oneDay
          BY <1>2, <3>5, <4>1
        <5> QED
          BY <1>7, <5>1
      <4>3. ASSUME NEW k \in H
            PROVE  rows[k].start <= rows[i].start /\ rows[i].start <= rows[k].end
        <5>1. t < rows[k].end /\ rows[k].end \in Int
          BY <1>2
        <5> QED
          BY <3>2, <4>1, <5>1
      <4> QED
        BY <3>4, <4>1, <4>2, <4>3
    <3>6. CASE ~(rows[i].start >= from) /\ rows[e].end <= to
      <4>1. /\ rows[i].start \in Int /\ rows[i].start < from
            /\ rows[e].end \in Int /\ t < rows[e].end /\ e \in oneDay
        BY <1>2, <3>6
      <4>2. rows[e].end \in dates
        <5>1. from <= rows[e].end
          BY <4>1
        <5> QED
          BY <1>7, <3>6, <4>1, <5>1
      <4>3. ASSUME NEW k \in H
            PROVE  rows[k].start <= rows[e].end /\ rows[e].end <= rows[k].end
        <5>1. rows[k].start <= t /\ rows[k].start \in Int
          BY <1>2
        <5> QED
          BY <3>3, <4>1, <5>1
      <4> QED
        BY <3>4, <4>1, <4>2, <4>3
    <3>7. CASE ~(rows[i].start >= from) /\ ~(rows[e].end <= to)
      <4>1. PICK d \in dates : d \in Int /\ from <= d /\ d <= to
        BY <1>8, <1>13
      <4>2. ASSUME NEW k \in H
            PROVE  rows[k].start <= d /\ d <= rows[k].end
        <5>1. /\ rows[k].start \in Int /\ rows[k].end \in Int /\ rows[i].start \in Int
              /\ rows[e].end \in Int
              /\ rows[k].start <= rows[i].start /\ rows[e].end <= rows[k].end
          BY <1>2, <3>2, <3>3
        <5> QED
          BY <3>7, <4>1, <5>1
      <4> QED
        BY <3>4, <4>1, <4>2
    <3> QED
      BY <3>5, <3>6, <3>7
  <2>2. PICK d \in dates : H \in SUBSET At(d)
    BY <2>1
  <2>3. SumIn(rows, H) <= SumIn(rows, At(d))
    BY <1>1, <2>2, SumInGrows
  <2>4. f[d] = SumIn(rows, At(d)) /\ f[d] \in F
    BY <1>5
  <2>5. f[d] <= Largest(F) /\ Largest(F) \in Nat
    <3> HIDE DEF F
    <3> QED
      BY <1>9, <2>4, LargestIs
  <2>6. DayPeak(S, from, to) = Largest(F)
    BY <1>3, <1>13
  <2>7. f[d] \in Nat
    BY <1>5
  <2> HIDE DEF F, At
  <2> QED
    BY <1>10, <2>3, <2>4, <2>5, <2>6, <2>7
<1> QED
  BY <1>11, <1>12, <1>13

(* For each of its days the calendar of a period deducts what is held.     *)
LEMMA PromiseKept ==
  ASSUME Table(rows), NEW me, NEW guaranteed \in BOOLEAN, NEW from \in Int, NEW to \in Int,
         NEW n \in Days(from, to), NEW t \in Int, from <= t, t < to,
         from + Day * n <= t, t < from + Day * n + Day
  PROVE  Timeline(me, from, to, guaranteed)[n]
           <= Total - ReservedAt(t, me) - (IF guaranteed THEN LargestFreeAt(t, me) ELSE 0)
<1> DEFINE first == from + Day * n
           last == first + Day
           S == Listed(me, TRUE, from, to)
           peak == DayPeak(S, first, last)
           V == {k \in Listed(me, FALSE, from, to) : Overlaps(rows[k], first, last)}
           free == Largest({Gpus(rows[i]) : i \in V})
           U == HeldAt(t, me, FALSE)
<1>1. Timeline(me, from, to, guaranteed)[n] = Total - peak - (IF guaranteed THEN free ELSE 0)
  BY DEF Timeline
<1>2. first \in Int /\ last \in Int /\ first <= t /\ t < last
  BY ReservationAssumption DEF Days
<1>3. ASSUME NEW g, NEW k \in HeldAt(t, me, g)
      PROVE  /\ k \in DOMAIN rows /\ k \in Listed(me, g, from, to)
             /\ rows[k].start <= t /\ t < rows[k].end
             /\ rows[k].start \in Int /\ rows[k].end \in Int
  <2>1. /\ k \in Others(me, g) /\ k \in DOMAIN rows
        /\ rows[k].start <= t /\ t < rows[k].end
    BY DEF HeldAt, Others
  <2>2. rows[k].start \in Int /\ rows[k].end \in Int
    BY <2>1, RowFacts
  <2>3. from <= rows[k].end /\ to >= rows[k].start
    BY <2>1, <2>2
  <2> QED
    BY <2>1, <2>2, <2>3 DEF Listed
<1>4. ReservedAt(t, me) <= peak /\ peak \in Nat
  <2>1. S \in SUBSET DOMAIN rows /\ HeldAt(t, me, TRUE) \in SUBSET S
    BY <1>3 DEF Listed, Others
  <2>2. \A k \in HeldAt(t, me, TRUE) : rows[k].start <= t /\ t < rows[k].end
    BY <1>3
  <2>3. SumIn(rows, HeldAt(t, me, TRUE)) <= peak /\ peak \in Nat
    <3> HIDE DEF first, last, S
    <3> QED
      BY <1>2, <2>1, <2>2, DayCovers
  <2> QED
    BY <2>3, HeldFacts
<1>5. LargestFreeAt(t, me) <= free /\ free \in Nat /\ LargestFreeAt(t, me) \in Nat
  <2>1. V \in SUBSET DOMAIN rows
    BY DEF Listed, Others
  <2>2. U \in SUBSET V
    <3> HIDE DEF first, last
    <3> SUFFICES ASSUME NEW k \in U PROVE k \in V
      OBVIOUS
    <3>1. /\ k \in Listed(me, FALSE, from, to)
          /\ rows[k].start <= t /\ t < rows[k].end
          /\ rows[k].start \in Int /\ rows[k].end \in Int
      BY <1>3
    <3>2. Overlaps(rows[k], first, last)
      <4> HIDE DEF U, V
      <4> QED
        BY <1>2, <3>1 DEF Overlaps
    <3> QED
      BY <3>1, <3>2
  <2>3. LargestFreeAt(t, me) = Largest({Gpus(rows[i]) : i \in U})
    BY DEF LargestFreeAt
  <2> HIDE DEF U, V
  <2> QED
    BY <2>1, <2>2, <2>3, SizesGrow
<1>6. ReservedAt(t, me) \in Nat /\ Total \in Nat
  BY HeldFacts, ReservationAssumption
<1> HIDE DEF peak, free
<1> QED
  BY <1>1, <1>4, <1>5, <1>6

------------------------------------------------------------------------------
(* The tables there are                                                    *)

(* Every period in the table, or about to be stored, has an instant.       *)
Ordered ==
  /\ \A i \in DOMAIN rows : rows[i].start < rows[i].end
  /\ \A r \in Request : req[r].pc # "none" =>
       /\ req[r].row.start < req[r].row.end
       /\ req[r].pc = "insert" => req[r].id = New

TableInv == TypeInv /\ Ordered

(* The tables there are have the form the lemmas ask for.                  *)
LEMMA TablesTyped ==
  ASSUME TableInv
  PROVE  Table(rows) /\ New \notin DOMAIN rows
  BY ReservationAssumption DEF TableInv, TypeInv, TypeOK, Ordered, Table, New

(* A request is served: the record it leaves.                              *)
LEMMA OthersWait ==
  ASSUME TypeInv, NEW r \in Request
  PROVE  /\ \A at, id, w : Serve(r, at, id, w) =>
              /\ req'[r].pc = at /\ req'[r].id = id /\ req'[r].row = w
              /\ \A o \in Request : o # r => req'[o] = req[o]
         /\ Answer(r) => /\ req'[r].pc = "none"
                         /\ \A o \in Request : o # r => req'[o] = req[o]
<1>1. req = [o \in Request |-> req[o]]
  BY DEF TypeInv
<1>2. ASSUME NEW at, NEW id, NEW w, Serve(r, at, id, w)
      PROVE  /\ req'[r].pc = at /\ req'[r].id = id /\ req'[r].row = w
             /\ \A o \in Request : o # r => req'[o] = req[o]
  BY <1>1, <1>2 DEF Serve
<1>3. ASSUME Answer(r)
      PROVE  req'[r].pc = "none" /\ \A o \in Request : o # r => req'[o] = req[o]
  BY <1>1, <1>3 DEF Answer, NoRequest
<1> QED
  BY <1>2, <1>3

(* Every step keeps the periods in order...                                *)
LEMMA OrderedNext ==
  ASSUME TableInv, [Next]_vars
  PROVE  Ordered'
<1>0. TypeInv /\ Ordered
  BY DEF TableInv
<1>1. ASSUME NEW r \in Request, NEW at, NEW id, NEW w, Serve(r, at, id, w), UNCHANGED rows,
             w.start < w.end, at = "insert" => id = New
      PROVE  Ordered'
  BY <1>0, <1>1, OthersWait DEF Ordered
<1>2. ASSUME NEW r \in Request, Answer(r),
             \A i \in DOMAIN rows' : rows'[i].start < rows'[i].end
      PROVE  Ordered'
  BY <1>0, <1>2, OthersWait DEF Ordered
<1>3. ASSUME NEW r \in Request, NEW w \in Wanted, CheckCreate(r, w)
      PROVE  Ordered'
  BY <1>1, <1>3 DEF CheckCreate, Wanted
<1>4. ASSUME NEW r \in Request, NEW w \in Wanted, NEW id \in Id, CheckUpdate(r, id, w)
      PROVE  Ordered'
  BY <1>1, <1>4 DEF CheckUpdate, Wanted
<1>5. ASSUME NEW r \in Request, NEW id \in Id, NEW size \in Sizes, CheckSplit(r, id, size)
      PROVE  Ordered'
  <2> DEFINE w == [rows[id] EXCEPT !.size = size]
  <2>1. id \in DOMAIN rows /\ rows[id] \in Row /\ rows[id].start < rows[id].end
    BY <1>0, <1>5 DEF CheckSplit, TypeInv, TypeOK, Ordered
  <2>2. w.start < w.end
    BY <2>1 DEF Row
  <2>3. Serve(r, "split", id, w) /\ UNCHANGED rows
    BY <1>5 DEF CheckSplit
  <2> HIDE DEF w
  <2> QED
    BY <1>1, <2>2, <2>3
<1>6. ASSUME NEW r \in Request, NEW id \in Id, Insert(r, id)
      PROVE  Ordered'
  <2>1. req[r].row.start < req[r].row.end
    BY <1>0, <1>6 DEF Insert, Ordered
  <2>2. \A i \in DOMAIN rows' : rows'[i].start < rows'[i].end
    BY <1>0, <1>6, <2>1 DEF Insert, Ordered
  <2> QED
    BY <1>2, <1>6, <2>2 DEF Insert
<1>7. ASSUME NEW r \in Request, InsertFails(r)
      PROVE  Ordered'
  BY <1>0, <1>2, <1>7 DEF InsertFails, Ordered
<1>8. ASSUME NEW r \in Request, Update(r)
      PROVE  Ordered'
  <2>1. req[r].row.start < req[r].row.end
    BY <1>0, <1>8 DEF Update, Ordered
  <2>2. \A i \in DOMAIN rows' : rows'[i].start < rows'[i].end
    BY <1>0, <1>8, <2>1 DEF Update, Ordered
  <2> QED
    BY <1>2, <1>8, <2>2 DEF Update
<1>9. ASSUME NEW r \in Request, WriteSplit(r)
      PROVE  Ordered'
  <2>1. ASSUME NEW i \in DOMAIN rows
        PROVE  LET w == [rows[i] EXCEPT !.size = req[r].row.size] IN w.start < w.end
    <3>1. rows[i] \in Row /\ rows[i].start < rows[i].end
      BY <1>0 DEF TypeInv, TypeOK, Ordered
    <3> QED
      BY <3>1 DEF Row
  <2>2. \A i \in DOMAIN rows' : rows'[i].start < rows'[i].end
    BY <1>0, <1>9, <2>1 DEF WriteSplit, Ordered
  <2> QED
    BY <1>2, <1>9, <2>2 DEF WriteSplit
<1>10. ASSUME NEW id \in Id, Delete(id)
       PROVE  Ordered'
  BY <1>0, <1>10 DEF Delete, Ordered
<1>11. CASE UNCHANGED vars
  BY <1>0, <1>11 DEF vars, Ordered
<1> QED
  BY <1>3, <1>4, <1>5, <1>6, <1>7, <1>8, <1>9, <1>10, <1>11 DEF Next

(* ... so there are no other tables.                                       *)
LEMMA TableInvariant == Spec => []TableInv
<1>1. Init => TableInv
  BY TypeInit DEF TableInv, Init, Ordered, NoRequest
<1>2. TableInv /\ [Next]_vars => TableInv'
  BY TypeNext, OrderedNext DEF TableInv
<1> QED
  BY <1>1, <1>2, PTL DEF Spec

(* get_allocated_gpu_count finds the peak of every period.                 *)
THEOREM PeaksFound == Spec => []AllocatedIsPeak
<1>1. TableInv => AllocatedIsPeak
  <2> SUFFICES ASSUME TableInv, NEW me, NEW p \in Period
               PROVE  Allocated(me, p[1], p[2])
                        = Largest({ReservedAt(t, me) : t \in p[1] .. p[2] - 1})
    BY DEF AllocatedIsPeak
  <2>1. Table(rows)
    BY TablesTyped
  <2>2. p[1] \in Int /\ p[2] \in Int /\ p[1] < p[2]
    BY ReservationAssumption DEF Period, Time
  <2> QED
    BY <2>1, <2>2, PeakFound
<1> QED
  BY <1>1, TableInvariant, PTL

(* The calendar never promises what is not there.                          *)
THEOREM PromisesKept == Spec => []CalendarKeepsPromise
<1>1. TableInv => CalendarKeepsPromise
  <2> SUFFICES ASSUME TableInv, NEW me, NEW guaranteed \in BOOLEAN, NEW p \in Period,
                      NEW n \in Days(p[1], p[2]),
                      NEW t \in (p[1] + Day * n .. p[1] + Day * (n + 1) - 1)
                                   \cap (p[1] .. p[2] - 1)
               PROVE  Timeline(me, p[1], p[2], guaranteed)[n]
                        <= Total - ReservedAt(t, me)
                             - (IF guaranteed THEN LargestFreeAt(t, me) ELSE 0)
    BY DEF CalendarKeepsPromise
  <2>1. Table(rows)
    BY TablesTyped
  <2>2. p[1] \in Int /\ p[2] \in Int /\ Day \in Int /\ n \in Int
    BY ReservationAssumption DEF Period, Time, Days
  <2>3. /\ t \in Int /\ p[1] <= t /\ t < p[2]
        /\ p[1] + Day * n <= t /\ t < p[1] + Day * n + Day
    BY <2>2
  <2> QED
    BY <2>1, <2>2, <2>3, PromiseKept
<1> QED
  BY <1>1, TableInvariant, PTL

------------------------------------------------------------------------------
(* What is found free when a workspace is asked for                        *)

(* The reference again, of any table.                                      *)
HeldIn(R, t, me, g) ==
  {i \in DOMAIN R : i # me /\ R[i].guaranteed = g /\ R[i].start <= t /\ t < R[i].end}
FreeIn(R, t, me) == Largest({Gpus(R[i]) : i \in HeldIn(R, t, me, FALSE)})
Taken(R, t, me, guaranteed) ==
  SumIn(R, HeldIn(R, t, me, TRUE)) + (IF guaranteed THEN FreeIn(R, t, me) ELSE 0)

(* It is what the property speaks of, for the table there is.              *)
LEMMA TakenNow ==
  ASSUME NEW t, NEW me, NEW g
  PROVE  Taken(rows, t, me, g)
           = ReservedAt(t, me) + (IF g THEN LargestFreeAt(t, me) ELSE 0)
<1>1. \A h : HeldAt(t, me, h) = HeldIn(rows, t, me, h)
  BY DEF HeldAt, HeldIn, Others
<1>2. ReservedAt(t, me) = SumIn(rows, HeldIn(rows, t, me, TRUE))
  BY <1>1 DEF ReservedAt, SumOf, SumIn
<1>3. LargestFreeAt(t, me) = FreeIn(rows, t, me)
  BY <1>1 DEF LargestFreeAt, FreeIn
<1> QED
  BY <1>2, <1>3 DEF Taken

(* The numbers of GPUs of some workspaces are finitely many numbers.       *)
LEMMA SizesNat ==
  ASSUME NEW R, Table(R), NEW S \in SUBSET DOMAIN R
  PROVE  {Gpus(R[i]) : i \in S} \in SUBSET Nat /\ IsFiniteSet({Gpus(R[i]) : i \in S})
<1> DEFINE f == [i \in S |-> Gpus(R[i])]
<1>1. \A i \in S : f[i] \in Nat
  BY RowFacts
<1>2. IsFiniteSet(S)
  BY SumInIsSum
<1>3. {Gpus(R[i]) : i \in S} = {f[i] : i \in S}
  OBVIOUS
<1> HIDE DEF f
<1>4. IsFiniteSet({f[i] : i \in S}) /\ {f[i] : i \in S} \in SUBSET Nat
  BY <1>1, <1>2, ImageFinite
<1> QED
  BY <1>3, <1>4

(* Nothing is taken by a workspace that is deleted.                        *)
LEMMA FewerTakeLess ==
  ASSUME NEW R, Table(R), NEW Q, DOMAIN Q \subseteq DOMAIN R,
         \A i \in DOMAIN Q : Q[i] = R[i], NEW t, NEW me, NEW g \in BOOLEAN
  PROVE  /\ Taken(Q, t, me, g) \in Nat /\ Taken(R, t, me, g) \in Nat
         /\ Taken(Q, t, me, g) <= Taken(R, t, me, g)
<1>1. Table(Q)
  BY DEF Table
<1>2. ASSUME NEW h \in BOOLEAN
      PROVE  /\ HeldIn(Q, t, me, h) \in SUBSET HeldIn(R, t, me, h)
             /\ HeldIn(Q, t, me, h) \in SUBSET DOMAIN Q
             /\ HeldIn(R, t, me, h) \in SUBSET DOMAIN R
  BY DEF HeldIn
<1> DEFINE A == HeldIn(Q, t, me, TRUE)
           B == HeldIn(R, t, me, TRUE)
           C == HeldIn(Q, t, me, FALSE)
           D == HeldIn(R, t, me, FALSE)
<1>3. /\ A \in SUBSET B /\ A \in SUBSET DOMAIN Q /\ B \in SUBSET DOMAIN R
      /\ C \in SUBSET D /\ C \in SUBSET DOMAIN Q /\ D \in SUBSET DOMAIN R
  BY <1>2
<1> DEFINE x == FreeIn(Q, t, me)
           y == FreeIn(R, t, me)
           a == SumIn(Q, A)
           b == SumIn(R, B)
<1>4. Taken(Q, t, me, g) = a + (IF g THEN x ELSE 0)
      /\ Taken(R, t, me, g) = b + (IF g THEN y ELSE 0)
  BY DEF Taken
<1>5. x = Largest({Gpus(Q[i]) : i \in C}) /\ y = Largest({Gpus(R[i]) : i \in D})
  BY DEF FreeIn
<1> HIDE DEF A, B, C, D, x, y
<1>6. a \in Nat /\ b \in Nat /\ a <= b
  <2>1. a \in Nat /\ b \in Nat /\ SumIn(R, A) <= b
    BY <1>1, <1>3, SumInGrows
  <2>2. a = SumOver(GpusOf(Q), A) /\ SumIn(R, A) = SumOver(GpusOf(R), A) /\ IsFiniteSet(A)
    BY <1>1, <1>3, SumInIsSum
  <2>3. \A i \in A : GpusOf(Q)[i] = GpusOf(R)[i]
    BY <1>3 DEF GpusOf
  <2>4. SumOver(GpusOf(Q), A) = SumOver(GpusOf(R), A)
    BY <2>2, <2>3, SumEqual
  <2> QED
    BY <2>1, <2>2, <2>4
<1>7. x \in Nat /\ y \in Nat /\ x <= y
  <2> DEFINE X == {Gpus(Q[i]) : i \in C}
             Y == {Gpus(R[i]) : i \in D}
  <2>1. X \in SUBSET Nat /\ IsFiniteSet(X) /\ Y \in SUBSET Nat /\ IsFiniteSet(Y)
    BY <1>1, <1>3, SizesNat
  <2>2. X \subseteq Y
    BY <1>3
  <2> HIDE DEF X, Y
  <2>3. \A v \in X : v = 0 \/ \E w \in Y : v <= w
    BY <2>1, <2>2
  <2>4. Largest(X) \in Nat /\ Largest(Y) \in Nat /\ Largest(X) <= Largest(Y)
    BY <2>1, <2>3, LargestIs, LargestLeq
  <2> QED
    BY <1>5, <2>4 DEF X, Y
<1> HIDE DEF a, b
<1> QED
  BY <1>4, <1>6, <1>7

(* What get_workspace_aval_gpu finds free in the period from a date to the *)
(* same date is no more than what is free at that date.                    *)
LEMMA FreeAtStart ==
  ASSUME Table(rows), NEW me, NEW t \in Int, NEW g \in BOOLEAN
  PROVE  Available(me, t, t, g) + Taken(rows, t, me, g) <= Total
         /\ Available(me, t, t, g) \in Int
<1> DEFINE a == Allocated(me, t, t)
           f == LargestFree(me, t, t)
           r == ReservedAt(t, me)
           u == LargestFreeAt(t, me)
           L == Sums(AtStarts(me, t, t)) \cup Sums(AtEnds(me, t, t))
<1>1. Available(me, t, t, g) = Total - a - (IF g THEN f ELSE 0)
  BY DEF Available
<1>2. a \in Nat /\ r \in Nat /\ r <= a
  <2>1. L \in SUBSET Nat /\ IsFiniteSet(L) /\ a = Largest(L)
    BY SumsNat, AllocatedSums
  <2>2. a \in Nat /\ \A x \in L : x <= a
    BY <2>1, LargestIs
  <2>3. r \in Nat
    BY HeldFacts
  <2>4. CASE HeldAt(t, me, TRUE) = {}
    <3>1. r = SumIn(rows, {})
      BY <2>4, HeldFacts
    <3>2. SumIn(rows, {}) = SumOver(GpusOf(rows), {})
      BY SumInIsSum
    <3>3. SumOver(GpusOf(rows), {}) = 0
      BY SumEmpty
    <3> QED
      BY <2>2, <3>1, <3>2, <3>3
  <2>5. CASE HeldAt(t, me, TRUE) # {}
    <3>0. t <= t
      OBVIOUS
    <3>1. PICK i \in Meeting(me, TRUE, t, t) : r <= AtStarts(me, t, t)[i]
      BY <2>5, <3>0, HeldIsCounted
    <3>2. AtStarts(me, t, t)[i] \in L
      BY <3>1 DEF AtStarts, Sums
    <3>3. AtStarts(me, t, t)[i] \in Nat /\ AtStarts(me, t, t)[i] <= a
      BY <2>1, <2>2, <3>2
    <3> HIDE DEF L, a, r
    <3> QED
      BY <2>2, <2>3, <3>1, <3>3
  <2> QED
    BY <2>2, <2>3, <2>4, <2>5
<1>3. f \in Nat /\ u \in Nat /\ u <= f
  <2> DEFINE X == {Gpus(rows[i]) : i \in HeldAt(t, me, FALSE)}
             Y == {Gpus(rows[i]) : i \in Meeting(me, FALSE, t, t)}
  <2>1. HeldAt(t, me, FALSE) \in SUBSET Meeting(me, FALSE, t, t)
    <3> SUFFICES ASSUME NEW k \in HeldAt(t, me, FALSE)
                 PROVE  k \in Meeting(me, FALSE, t, t)
      OBVIOUS
    <3>1. k \in Others(me, FALSE) /\ rows[k].start <= t /\ t < rows[k].end
      BY DEF HeldAt
    <3> QED
      BY <3>1 DEF Meeting, Within
  <2>2. Meeting(me, FALSE, t, t) \in SUBSET DOMAIN rows
    BY DEF Meeting, Others
  <2>3. X \in SUBSET Nat /\ IsFiniteSet(X) /\ Y \in SUBSET Nat /\ IsFiniteSet(Y)
    BY <2>1, <2>2, SizesNat
  <2>4. X \subseteq Y
    BY <2>1
  <2>5. u = Largest(X) /\ f = Largest(Y)
    BY DEF LargestFreeAt, LargestFree
  <2> HIDE DEF X, Y, u, f
  <2>6. \A v \in X : v = 0 \/ \E w \in Y : v <= w
    BY <2>3, <2>4
  <2> QED
    BY <2>3, <2>5, <2>6, LargestIs, LargestLeq
<1>4. Taken(rows, t, me, g) = r + (IF g THEN u ELSE 0)
  BY TakenNow
<1>5. Total \in Nat
  BY ReservationAssumption
<1> HIDE DEF a, f, r, u
<1> QED
  BY <1>1, <1>2, <1>3, <1>4, <1>5

------------------------------------------------------------------------------
(* One administrator at a time                                             *)

(* With one web thread, what was found free is still free.                 *)
OneRequest == \A a, b \in Request : a = b

Covered(R, id, w) == Gpus(w) + Taken(R, w.start, id, w.guaranteed) <= Total

CoverInv ==
  \A r \in Request : req[r].pc \in {"insert", "update"} =>
    Covered(rows, req[r].id, req[r].row)

(* A request that passes its check is covered.                             *)
LEMMA CheckCovers ==
  ASSUME TableInv, NEW id, NEW w \in Wanted,
         Gpus(w) <= Available(id, w.start, w.start, w.guaranteed)
  PROVE  Covered(rows, id, w)
<1>1. Table(rows)
  BY TablesTyped
<1>2. w.start \in Int /\ w.guaranteed \in BOOLEAN /\ Gpus(w) \in Nat
  BY ReservationAssumption DEF Wanted, Time, Gpus
<1> DEFINE a == Available(id, w.start, w.start, w.guaranteed)
           k == Taken(rows, w.start, id, w.guaranteed)
<1>3. a + k <= Total /\ a \in Int
  BY <1>1, <1>2, FreeAtStart
<1>4. k \in Nat
  BY <1>1, <1>2, FewerTakeLess
<1>5. Total \in Nat
  BY ReservationAssumption
<1> HIDE DEF a, k
<1>6. Gpus(w) + k <= Total
  BY <1>2, <1>3, <1>4, <1>5 DEF a
<1> QED
  BY <1>6 DEF Covered, k

(* The check holds until the row is written: only a deletion can come in   *)
(* between.                                                                *)
LEMMA CoverNext ==
  ASSUME OneRequest, TableInv, CoverInv, [Next]_vars
  PROVE  CoverInv'
<1>0. TypeInv
  BY DEF TableInv
<1>1. ASSUME NEW r \in Request, NEW at, NEW id, NEW w, Serve(r, at, id, w), UNCHANGED rows,
             at \in {"insert", "update"} => Covered(rows, id, w)
      PROVE  CoverInv'
  <2>1. req'[r].pc = at /\ req'[r].id = id /\ req'[r].row = w
    BY <1>0, <1>1, OthersWait
  <2> SUFFICES ASSUME NEW o \in Request, req'[o].pc \in {"insert", "update"}
               PROVE  Covered(rows', req'[o].id, req'[o].row)
    BY DEF CoverInv
  <2>2. o = r
    BY DEF OneRequest
  <2> QED
    BY <1>1, <2>1, <2>2
<1>2. ASSUME NEW r \in Request, Answer(r)
      PROVE  CoverInv'
  <2>1. req'[r].pc = "none"
    BY <1>0, <1>2, OthersWait
  <2> QED
    BY <2>1 DEF CoverInv, OneRequest
<1>3. ASSUME NEW r \in Request, NEW w \in Wanted, CheckCreate(r, w)
      PROVE  CoverInv'
  <2>1. Covered(rows, New, w)
    BY <1>3, CheckCovers DEF CheckCreate
  <2> QED
    BY <1>1, <1>3, <2>1 DEF CheckCreate
<1>4. ASSUME NEW r \in Request, NEW w \in Wanted, NEW id \in Id, CheckUpdate(r, id, w)
      PROVE  CoverInv'
  <2>1. Covered(rows, id, w)
    BY <1>4, CheckCovers DEF CheckUpdate
  <2> QED
    BY <1>1, <1>4, <2>1 DEF CheckUpdate
<1>5. ASSUME NEW r \in Request, NEW id \in Id, NEW size \in Sizes, CheckSplit(r, id, size)
      PROVE  CoverInv'
  <2>1. Serve(r, "split", id, [rows[id] EXCEPT !.size = size]) /\ UNCHANGED rows
    BY <1>5 DEF CheckSplit
  <2>2. "split" \notin {"insert", "update"}
    OBVIOUS
  <2> QED
    BY <1>1, <2>1, <2>2
<1>6. ASSUME NEW r \in Request, NEW id \in Id, Insert(r, id) PROVE CoverInv'
  BY <1>2, <1>6 DEF Insert
<1>7. ASSUME NEW r \in Request, InsertFails(r) PROVE CoverInv'
  BY <1>2, <1>7 DEF InsertFails
<1>8. ASSUME NEW r \in Request, Update(r) PROVE CoverInv'
  BY <1>2, <1>8 DEF Update
<1>9. ASSUME NEW r \in Request, WriteSplit(r) PROVE CoverInv'
  BY <1>2, <1>9 DEF WriteSplit
<1>10. ASSUME NEW id \in Id, Delete(id) PROVE CoverInv'
  <2>1. Table(rows) /\ DOMAIN rows' \subseteq DOMAIN rows /\ req' = req
        /\ \A i \in DOMAIN rows' : rows'[i] = rows[i]
    BY <1>10, TablesTyped DEF Delete
  <2> SUFFICES ASSUME NEW o \in Request, req[o].pc \in {"insert", "update"}
               PROVE  Covered(rows', req[o].id, req[o].row)
    BY <2>1 DEF CoverInv
  <2> DEFINE w == req[o].row
             k == Taken(rows, w.start, req[o].id, w.guaranteed)
             l == Taken(rows', w.start, req[o].id, w.guaranteed)
  <2>2. w \in Row
    BY <1>0 DEF TypeInv, TypeOK, NoRequest
  <2>3. Gpus(w) \in Nat /\ w.guaranteed \in BOOLEAN
    BY <2>2, ReservationAssumption DEF Row, Gpus
  <2>4. Gpus(w) + k <= Total
    BY DEF CoverInv, Covered
  <2>5. k \in Nat /\ l \in Nat /\ l <= k
    BY <2>1, <2>3, FewerTakeLess
  <2>6. Total \in Nat
    BY ReservationAssumption
  <2> HIDE DEF k, l
  <2>7. Gpus(w) + l <= Total
    BY <2>3, <2>4, <2>5, <2>6
  <2> QED
    BY <2>7 DEF Covered, l
<1>11. CASE UNCHANGED vars
  BY <1>11 DEF vars, CoverInv
<1> QED
  BY <1>3, <1>4, <1>5, <1>6, <1>7, <1>8, <1>9, <1>10, <1>11 DEF Next

(* The row that is written is covered, whichever id it gets.               *)
LEMMA WrittenCovered ==
  ASSUME TableInv, CoverInv, NEW r \in Request, (\E id \in Id : Insert(r, id)) \/ Update(r),
         NEW i \in DOMAIN rows', i \notin DOMAIN rows \/ rows'[i] # rows[i]
  PROVE  Gpus(rows'[i]) + ReservedAt(rows'[i].start, i)
           + (IF rows'[i].guaranteed THEN LargestFreeAt(rows'[i].start, i) ELSE 0) <= Total
<1> DEFINE w == req[r].row
<1>1. TypeInv /\ Ordered /\ Table(rows) /\ New \notin DOMAIN rows
  BY TablesTyped DEF TableInv
<1>2. rows'[i] = w /\ Covered(rows, i, w) /\ req[r].pc \in {"insert", "update"}
  <2>1. CASE Update(r)
    <3>1. rows'[i] = w /\ i = req[r].id /\ req[r].pc = "update"
      BY <2>1 DEF Update
    <3> QED
      BY <3>1 DEF CoverInv
  <2>2. CASE \E id \in Id : Insert(r, id)
    <3>1. /\ rows'[i] = w /\ i \notin DOMAIN rows /\ req[r].pc = "insert"
      BY <2>2 DEF Insert
    <3>2. Covered(rows, New, w)
      BY <1>1, <3>1 DEF CoverInv, Ordered
    <3>3. \A t, g : HeldIn(rows, t, i, g) = HeldIn(rows, t, New, g)
      BY <1>1, <3>1 DEF HeldIn
    <3>4. Taken(rows, w.start, i, w.guaranteed) = Taken(rows, w.start, New, w.guaranteed)
      BY <3>3 DEF Taken, FreeIn
    <3> QED
      BY <3>1, <3>2, <3>4 DEF Covered
  <2> QED
    BY <2>1, <2>2
<1>3. w \in Row
  BY <1>1, <1>2 DEF TypeInv, TypeOK, NoRequest
<1>4. w.guaranteed \in BOOLEAN /\ Gpus(w) \in Nat
  BY <1>3, ReservationAssumption DEF Row, Gpus
<1>5. Taken(rows, w.start, i, w.guaranteed)
        = ReservedAt(w.start, i) + (IF w.guaranteed THEN LargestFreeAt(w.start, i) ELSE 0)
  BY TakenNow
<1>6. ReservedAt(w.start, i) \in Nat
  BY <1>1, HeldFacts
<1>7. LargestFreeAt(w.start, i) \in Nat
  <2>1. HeldAt(w.start, i, FALSE) \in SUBSET DOMAIN rows
    BY <1>1, HeldFacts
  <2> QED
    BY <1>1, <2>1, SizesNat, LargestIs DEF LargestFreeAt
<1> DEFINE x == ReservedAt(w.start, i)
           y == LargestFreeAt(w.start, i)
           k == Taken(rows, w.start, i, w.guaranteed)
<1>8. Gpus(w) + k <= Total
  BY <1>2 DEF Covered
<1>9. Total \in Nat
  BY ReservationAssumption
<1> HIDE DEF x, y, k, w
<1>10. Gpus(w) + x + (IF w.guaranteed THEN y ELSE 0) <= Total
  BY <1>4, <1>5, <1>6, <1>7, <1>8, <1>9 DEF x, y, k
<1> QED
  BY <1>2, <1>10 DEF x, y

(* When workspaces are created and changed by one administrator at a time, *)
(* as in the run, the one that is stored has its GPUs when it starts.      *)
THEOREM StartsCovered == OneRequest /\ Spec => StartIsCovered
<1> SUFFICES ASSUME OneRequest PROVE Spec => StartIsCovered
  OBVIOUS
<1>1. Init => CoverInv
  BY DEF Init, CoverInv, NoRequest
<1>2. TableInv /\ CoverInv /\ [Next]_vars => CoverInv'
  BY CoverNext
<1>3. TableInv /\ CoverInv =>
        [\A r \in Request : (\E id \in Id : Insert(r, id)) \/ Update(r) =>
           \A i \in DOMAIN rows' :
             (i \notin DOMAIN rows \/ rows'[i] # rows[i]) =>
                LET w == rows'[i]
                IN  Gpus(w) + ReservedAt(w.start, i)
                      + (IF w.guaranteed THEN LargestFreeAt(w.start, i) ELSE 0) <= Total]_vars
  BY WrittenCovered
<1> QED
  BY <1>1, <1>2, <1>3, TableInvariant, PTL DEF Spec, StartIsCovered
==============================================================================
