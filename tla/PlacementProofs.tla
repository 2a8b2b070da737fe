--------------------------- MODULE PlacementProofs ---------------------------
(***************************************************************************)
(* What the node selection of Placement promises, for any nodes and any    *)
(* list of pods: a gang uses no node twice, takes of no node more than it  *)
(* has free, and adds up to the request; and one is found whenever there   *)
(* is a place for it (NodeInfoManager, utils/node_resource.py).            *)
(***************************************************************************)
EXTENDS Placement, SumLemmas, SequenceTheorems

------------------------------------------------------------------------------

(* A list of pods: finitely many, each with its GPUs.                      *)
Counted(v) == IsFiniteSet(v) /\ \A p \in v : p.gpus \in Nat

(* What is in use on a node, and in all, is a number.                      *)
LEMMA UsedNat ==
  ASSUME NEW v, Counted(v), NEW n \in Node
  PROVE  Used(v, n) = Held({p \in v : p.node = n}) /\ Used(v, n) \in Nat /\ Free(v, n) \in Int
<1> DEFINE S == {p \in v : p.node = n}
<1>1. Used(v, n) = Held(S)
  BY DEF Used, Held
<1>2. IsFiniteSet(S) /\ \A p \in S : p.gpus \in Nat
  BY FS_Subset DEF Counted
<1> HIDE DEF S
<1>3. Held(S) \in Nat
  BY <1>2, HeldNat
<1> QED
  BY <1>1, <1>3, PlacementAssumption DEF Free, S

GpusIn(g) == [i \in DOMAIN g |-> g[i].gpus]

(* What a gang must be: not empty, no node twice, no more GPUs of a node   *)
(* than are free by the list, and as many as the job asks for in all.      *)
Placed(v, request, g) ==
  /\ g \in Seq([node : Node, gpus : Nat]) /\ 1 \in DOMAIN g
  /\ \A i, k \in DOMAIN g : g[i].node = g[k].node => i = k
  /\ \A i \in DOMAIN g : g[i].gpus > 0 => g[i].gpus <= Free(v, g[i].node)
  /\ SumOver(GpusIn(g), DOMAIN g) = request

(* A gang of one pod.                                                      *)
LEMMA OnePlaced ==
  ASSUME NEW v, NEW n \in Node, NEW request \in Nat,
         request > 0 => Free(v, n) >= request, Counted(v)
  PROVE  Placed(v, request, <<[node |-> n, gpus |-> request]>>)
<1> DEFINE g == <<[node |-> n, gpus |-> request]>>
<1>1. /\ g \in Seq([node : Node, gpus : Nat]) /\ DOMAIN g = {1}
      /\ g[1].node = n /\ g[1].gpus = request /\ GpusIn(g)[1] = request
  BY DEF GpusIn
<1> HIDE DEF g
<1>2. SumOver(GpusIn(g), {1}) = request
  <2>1. SumOver(GpusIn(g), {} \cup {1}) = SumOver(GpusIn(g), {}) + GpusIn(g)[1]
    <3>1. \A y \in {} \cup {1} : GpusIn(g)[y] \in Int
      BY <1>1
    <3>2. 1 \notin {} /\ IsFiniteSet({})
      BY FS_EmptySet
    <3> QED
      BY <3>1, <3>2, SumAdd
  <2>2. {} \cup {1} = {1}
    OBVIOUS
  <2> QED
    BY <1>1, <2>1, <2>2, SumEmpty
<1>3. Free(v, n) \in Int
  BY UsedNat
<1>4. Placed(v, request, g)
  BY <1>1, <1>2, <1>3 DEF Placed
<1> QED
  BY <1>4 DEF g

(* What the first nodes have free is a sum.                                *)
LEMMA FirstFreeIsSum ==
  ASSUME NEW v, NEW s, NEW k \in Nat, NEW f, \A i \in 1 .. k : f[i] = Free(v, s[i])
  PROVE  FirstFree(v, s, k) = SumOver(f, 1 .. k)
<1> DEFINE S == 1 .. k
           Rec(g) == g = [U \in SUBSET S |-> IF U = {} THEN 0
                            ELSE Free(v, s[AnyOf(U)]) + g[U \ {AnyOf(U)}]]
<1>0. IsFiniteSet(S)
  BY FS_Interval
<1>1. FirstFree(v, s, k) = (CHOOSE g : Rec(g))[S]
  BY DEF FirstFree, MapThenSumSet, MapThenFoldSet, AnyOf
<1>2. \A U \in SUBSET S : U # {} => f[AnyOf(U)] = Free(v, s[AnyOf(U)])
  BY DEF AnyOf
<1>3. \A g : Rec(g) <=> IsSum(g, f, S)
  <2> HIDE DEF S
  <2> QED BY <1>2 DEF IsSum
<1> HIDE DEF Rec, S
<1>4. IsSum([U \in SUBSET S |-> SumOver(f, U)], f, S)
  BY <1>0, SumOverIsSum
<1>5. (CHOOSE g : Rec(g)) = [U \in SUBSET S |-> SumOver(f, U)]
  BY <1>0, <1>3, <1>4, SumUnique
<1>6. FirstFree(v, s, k) = SumOver(f, S)
  BY <1>1, <1>5
<1> QED
  BY <1>6 DEF S

(* The greedy split: all but the last node are emptied, and the last one   *)
(* has what is left of the request.                                        *)
LEMMA SplitPlaced ==
  ASSUME NEW v, Counted(v), NEW S \in SUBSET Node, \A n \in S : Free(v, n) > 0,
         NEW s \in InOrder(v, S), NEW request \in Nat, Needed(v, s, request) # {}
  PROVE  /\ Placed(v, request, Split(v, s, request))
         /\ \A i \in DOMAIN Split(v, s, request) : Split(v, s, request)[i].node \in S
<1> DEFINE last == Min(Needed(v, s, request))
           g == Split(v, s, request)
           f == [i \in DOMAIN s |-> Free(v, s[i])]
<1>1. IsFiniteSet(S) /\ Cardinality(S) \in Nat
  BY PlacementAssumption, FS_Subset, FS_CardinalityType
<1>2. /\ DOMAIN s = 1 .. Cardinality(S)
      /\ \A i \in DOMAIN s : s[i] \in S
      /\ \A i, k \in DOMAIN s : i < k => s[i] # s[k]
  BY DEF InOrder
<1>a. \A i \in 1 .. Cardinality(S) :
        /\ i \in DOMAIN s /\ i \in Nat /\ s[i] \in Node
        /\ f[i] = Free(v, s[i]) /\ f[i] \in Nat
  <2> SUFFICES ASSUME NEW i \in 1 .. Cardinality(S)
               PROVE  /\ i \in DOMAIN s /\ i \in Nat /\ s[i] \in Node
                      /\ f[i] = Free(v, s[i]) /\ f[i] \in Nat
    OBVIOUS
  <2>1. i \in DOMAIN s /\ s[i] \in S /\ s[i] \in Node /\ i \in Nat
    BY <1>1, <1>2
  <2>2. Free(v, s[i]) \in Int /\ Free(v, s[i]) > 0
    BY <2>1, UsedNat
  <2> QED
    BY <2>1, <2>2
<1> HIDE DEF f
<1>3. /\ last \in Needed(v, s, request)
      /\ \A k \in Needed(v, s, request) : last <= k
  <2>1. Needed(v, s, request) \in SUBSET (1 .. Cardinality(S))
    BY <1>2 DEF Needed
  <2>2. IsFiniteSet(1 .. Cardinality(S)) /\ 1 .. Cardinality(S) \in SUBSET Int
    BY <1>1, FS_Interval
  <2>3. IsFiniteSet(Needed(v, s, request)) /\ Needed(v, s, request) \in SUBSET Int
    BY <2>1, <2>2, FS_Subset
  <2> QED
    BY <2>3, MinMaxExist
<1>4. /\ last \in 1 .. Cardinality(S) /\ last - 1 \in 0 .. Cardinality(S)
      /\ FirstFree(v, s, last) >= request
      /\ last - 1 \in DOMAIN s => ~(FirstFree(v, s, last - 1) >= request)
  <2>1. last \in DOMAIN s /\ FirstFree(v, s, last) >= request
    BY <1>3 DEF Needed
  <2>2. last - 1 \notin Needed(v, s, request)
    BY <1>1, <1>2, <1>3, <2>1
  <2> QED
    BY <1>1, <1>2, <2>1, <2>2 DEF Needed
<1>5. \A k \in 0 .. Cardinality(S) :
        FirstFree(v, s, k) = SumOver(f, 1 .. k) /\ FirstFree(v, s, k) \in Nat
  <2> SUFFICES ASSUME NEW k \in 0 .. Cardinality(S)
               PROVE  FirstFree(v, s, k) = SumOver(f, 1 .. k) /\ FirstFree(v, s, k) \in Nat
    OBVIOUS
  <2>1. /\ k \in Nat /\ IsFiniteSet(1 .. k)
        /\ \A i \in 1 .. k : f[i] = Free(v, s[i]) /\ f[i] \in Nat
    <3>1. k \in Nat /\ \A i \in 1 .. k : i \in 1 .. Cardinality(S)
      BY <1>1
    <3>2. IsFiniteSet(1 .. k)
      BY <3>1, FS_Interval
    <3> QED
      BY <1>a, <3>1, <3>2
  <2>2. SumOver(f, 1 .. k) \in Nat
    BY <2>1, SumNat
  <2> QED
    BY <2>1, <2>2, FirstFreeIsSum
<1> HIDE DEF last
<1>6. f[last] = Free(v, s[last]) /\ f[last] \in Nat /\ s[last] \in Node
  BY <1>4, <1>a
<1>7. FirstFree(v, s, last) = FirstFree(v, s, last - 1) + f[last]
  <2>1. 1 .. last = (1 .. last - 1) \cup {last} /\ last \notin 1 .. last - 1
    BY <1>1, <1>4
  <2>2. \A i \in (1 .. last - 1) \cup {last} : f[i] \in Int
    BY <1>1, <1>4, <1>a, <2>1
  <2>3. IsFiniteSet(1 .. last - 1)
    BY <1>1, <1>4, FS_Interval
  <2>4. SumOver(f, (1 .. last - 1) \cup {last}) = SumOver(f, 1 .. last - 1) + f[last]
    BY <2>1, <2>2, <2>3, SumAdd
  <2>5. last \in 0 .. Cardinality(S)
    BY <1>1, <1>4
  <2> QED
    BY <1>4, <1>5, <2>1, <2>4, <2>5
<1> DEFINE rest == request - FirstFree(v, s, last - 1)
<1>8. rest \in Nat /\ rest <= f[last]
  <2>1. FirstFree(v, s, last - 1) \in Nat
    BY <1>4, <1>5
  <2>2. CASE last - 1 \in DOMAIN s
    BY <1>4, <1>6, <1>7, <2>1, <2>2
  <2>3. CASE last - 1 \notin DOMAIN s
    <3>1. 1 .. last - 1 = {}
      BY <1>1, <1>2, <1>4, <2>3
    <3>2. FirstFree(v, s, last - 1) = 0
      BY <1>4, <1>5, <3>1, SumEmpty
    <3> QED
      BY <1>4, <1>6, <1>7, <3>2
  <2> QED
    BY <2>2, <2>3
<1>9. /\ DOMAIN g = 1 .. last /\ Len(g) = last
      /\ \A i \in 1 .. last : g[i] = [node |-> s[i], gpus |-> IF i < last THEN f[i] ELSE rest]
      /\ g \in Seq([node : Node, gpus : Nat])
  <2>1. g = [i \in 1 .. last |-> [node |-> s[i], gpus |-> IF i < last THEN Free(v, s[i]) ELSE rest]]
    BY DEF Split, last
  <2>2. \A i \in 1 .. last : i \in DOMAIN s /\ s[i] \in Node /\ f[i] = Free(v, s[i]) /\ f[i] \in Nat
    BY <1>1, <1>4, <1>a
  <2> HIDE DEF rest, g
  <2>3. g = [i \in 1 .. last |-> [node |-> s[i], gpus |-> IF i < last THEN f[i] ELSE rest]]
    BY <2>1, <2>2
  <2>4. last \in Nat
    BY <1>1, <1>4
  <2>5. \A i \in 1 .. last : [node |-> s[i], gpus |-> IF i < last THEN f[i] ELSE rest] \in [node : Node, gpus : Nat]
    BY <1>8, <2>2
  <2>6. g \in [1 .. last -> [node : Node, gpus : Nat]]
    BY <2>3, <2>5
  <2>7. g \in Seq([node : Node, gpus : Nat]) /\ DOMAIN g = 1 .. last
    <3>1. DOMAIN g = 1 .. last
      BY <2>6
    <3>2. g \in UNION {[1 .. n -> [node : Node, gpus : Nat]] : n \in Nat}
      BY <2>4, <2>6
    <3> HIDE DEF g
    <3>3. g \in Seq([node : Node, gpus : Nat])
      BY <3>2, SeqDef, Zenon
    <3> QED
      BY <3>1, <3>3
  <2>8. Len(g) = last
    BY <2>4, <2>7
  <2> QED
    BY <2>3, <2>7, <2>8
<1>10. SumOver(GpusIn(g), DOMAIN g) = request
  <2> DEFINE h == GpusIn(g)
             before == 1 .. last - 1
  <2>1. /\ \A i \in before : h[i] = f[i] /\ f[i] \in Int
        /\ h[last] = rest
    <3> HIDE DEF g, rest
    <3>1. \A i \in 1 .. last : h[i] = IF i < last THEN f[i] ELSE rest
      BY <1>9 DEF GpusIn
    <3>2. \A i \in 1 .. last : f[i] \in Int
      BY <1>1, <1>4, <1>a
    <3> QED
      BY <1>1, <1>4, <3>1, <3>2
  <2>2. 1 .. last = before \cup {last} /\ last \notin before /\ IsFiniteSet(before)
    <3>1. last \in Nat /\ last > 0
      BY <1>1, <1>4
    <3> QED
      BY <3>1, FS_Interval
  <2> HIDE DEF h, before, g, rest
  <2>3. SumOver(h, before) = SumOver(f, before)
    BY <2>1, <2>2, SumEqual
  <2>4. SumOver(h, before \cup {last}) = SumOver(h, before) + h[last]
    BY <1>8, <2>1, <2>2, SumAdd
  <2>5. SumOver(f, before) = FirstFree(v, s, last - 1) /\ FirstFree(v, s, last - 1) \in Nat
    BY <1>4, <1>5 DEF before
  <2>6. SumOver(h, before \cup {last}) = request
    BY <2>1, <2>3, <2>4, <2>5 DEF rest
  <2>7. DOMAIN g = before \cup {last}
    BY <1>9, <2>2
  <2> QED
    BY <2>6, <2>7 DEF h
<1>11. \A i \in DOMAIN g : g[i].gpus <= Free(v, g[i].node)
  <2> SUFFICES ASSUME NEW i \in 1 .. last PROVE g[i].gpus <= Free(v, g[i].node)
    BY <1>9
  <2>1. i \in DOMAIN s /\ f[i] = Free(v, s[i]) /\ f[i] \in Int
    BY <1>1, <1>4, <1>a
  <2> HIDE DEF rest, g
  <2>2. g[i].node = s[i] /\ g[i].gpus = IF i < last THEN f[i] ELSE rest
    BY <1>9
  <2> QED
    BY <1>1, <1>4, <1>8, <2>1, <2>2
<1>12. \A i, k \in DOMAIN g : g[i].node = g[k].node => i = k
  <2> HIDE DEF rest, g
  <2>1. \A i \in DOMAIN g : i \in DOMAIN s /\ i \in Int /\ g[i].node = s[i]
    BY <1>1, <1>4, <1>9, <1>a
  <2> QED
    BY <1>2, <2>1
<1>13. \A i \in DOMAIN g : g[i].node \in S
  <2> HIDE DEF rest, g
  <2> QED
    BY <1>1, <1>2, <1>4, <1>9
<1>14. 1 \in DOMAIN g
  <2> HIDE DEF g
  <2> QED
    BY <1>1, <1>4, <1>9
<1> QED
  BY <1>9, <1>10, <1>11, <1>12, <1>13, <1>14 DEF Placed

(* A gang on a single node of S is placed on it.                           *)
LEMMA IntraGangPlaced ==
  ASSUME NEW v, Counted(v), NEW S \in SUBSET Node, NEW request \in Nat,
         NEW g \in IntraGangs(v, S, request)
  PROVE  Placed(v, request, g) /\ \A i \in DOMAIN g : g[i].node \in S
<1>1. PICK n \in S : Free(v, n) >= request /\ g = <<[node |-> n, gpus |-> request]>>
  BY DEF IntraGangs
<1>2. Placed(v, request, g)
  BY <1>1, OnePlaced
<1> QED
  BY <1>1, <1>2

(* Every gang that the search finds among the nodes S is placed on them:   *)
(* no node twice, none beyond what it has free, the request in all.        *)
THEOREM GpuGangPlaced ==
  ASSUME NEW v, Counted(v), NEW S \in SUBSET Node, NEW request \in Nat,
         NEW g \in GpuGangs(v, S, request)
  PROVE  Placed(v, request, g) /\ \A i \in DOMAIN g : g[i].node \in S
<1>1. CASE g \in IntraGangs(v, S, request)
  BY <1>1, IntraGangPlaced
<1>2. ASSUME NEW k, g \in NetGangs(v, S \cap NetworkGroups[k], request)
      PROVE  Placed(v, request, g) /\ \A i \in DOMAIN g : g[i].node \in S
  <2> DEFINE R == {n \in S \cap NetworkGroups[k] : Free(v, n) > 0}
  <2>1. PICK s \in InOrder(v, R) : Needed(v, s, request) # {} /\ g = Split(v, s, request)
    BY <1>2 DEF NetGangs
  <2>2. R \in SUBSET Node /\ R \subseteq S /\ \A n \in R : Free(v, n) > 0
    OBVIOUS
  <2> HIDE DEF R
  <2> QED
    BY <2>1, <2>2, SplitPlaced
<1> QED
  BY <1>1, <1>2 DEF GpuGangs

(* So is the pod of a job without GPUs.                                    *)
LEMMA CpuGangPlaced ==
  ASSUME NEW v, Counted(v), NEW g \in CpuGangs(v)
  PROVE  Placed(v, 0, g)
<1>1. PICK n \in Node : g = <<[node |-> n, gpus |-> 0]>>
  BY DEF CpuGangs
<1> QED
  BY <1>1, OnePlaced

(* The first pod of a gang gets no more than the gang.                     *)
LEMMA FirstPlaced ==
  ASSUME NEW v, Counted(v), NEW request \in Nat, NEW g, Placed(v, request, g)
  PROVE  /\ g[1] \in [node : Node, gpus : Nat] /\ g[1].gpus <= request
         /\ g[1].gpus > 0 => g[1].gpus <= Free(v, g[1].node)
<1>1. /\ g \in Seq([node : Node, gpus : Nat]) /\ 1 \in DOMAIN g
      /\ SumOver(GpusIn(g), DOMAIN g) = request
      /\ g[1].gpus > 0 => g[1].gpus <= Free(v, g[1].node)
  BY DEF Placed
<1>2. DOMAIN g = 1 .. Len(g) /\ Len(g) \in Nat
  BY <1>1
<1>3. \A i \in DOMAIN g : g[i] \in [node : Node, gpus : Nat]
  BY <1>1, <1>2, ElementOfSeq
<1>4. IsFiniteSet(DOMAIN g) /\ \A i \in DOMAIN g : GpusIn(g)[i] \in Nat /\ GpusIn(g)[i] = g[i].gpus
  BY <1>2, <1>3, FS_Interval DEF GpusIn
<1>5. /\ SumOver(GpusIn(g), DOMAIN g) = GpusIn(g)[1] + SumOver(GpusIn(g), DOMAIN g \ {1})
      /\ SumOver(GpusIn(g), DOMAIN g \ {1}) \in Nat
  <2>1. \A i \in DOMAIN g : GpusIn(g)[i] \in Int
    BY <1>4
  <2>2. IsFiniteSet(DOMAIN g \ {1})
    BY <1>4, FS_Subset
  <2> QED
    BY <1>1, <1>4, <2>1, <2>2, SumRemove, SumNat
<1>6. g[1].gpus <= request
  BY <1>1, <1>4, <1>5
<1> QED
  BY <1>1, <1>3, <1>6

------------------------------------------------------------------------------
(* The search misses nothing                                               *)

FreeOf(v) == [n \in Node |-> Free(v, n)]
Offering(v, S) == {n \in S : Free(v, n) > 0}

(* Among some nodes one is first in the order, and one is last.            *)
LEMMA FirstAndLast ==
  ASSUME NEW v, Counted(v), NEW S \in SUBSET Node, S # {}
  PROVE  /\ \E m \in S : \A o \in S : Before(v, m, o)
         /\ \E m \in S : \A o \in S : Before(v, o, m)
<1> DEFINE u == [n \in S |-> Used(v, n)]
           f == [n \in S |-> Free(v, n)]
<1>1. \A n \in S : u[n] = Used(v, n) /\ u[n] \in Int /\ f[n] = Free(v, n) /\ f[n] \in Int
  <2>1. ASSUME NEW n \in S PROVE Used(v, n) \in Nat /\ Free(v, n) \in Int
    <3>1. n \in Node
      OBVIOUS
    <3> HIDE DEF u, f
    <3> QED
      BY <3>1, UsedNat, Zenon
  <2> QED
    BY <2>1
<1>2. IsFiniteSet(S)
  BY PlacementAssumption, FS_Subset
<1> HIDE DEF u, f
<1>3. \E m \in S : \A o \in S : Before(v, m, o)
  <2>1. PICK a \in S : \A o \in S : u[a] <= u[o]
    BY <1>1, <1>2, Extremes
  <2> DEFINE R == {n \in S : u[n] = u[a]}
  <2>2. R # {} /\ R \in SUBSET S /\ IsFiniteSet(R) /\ \A n \in R : f[n] \in Int
    BY <1>1, <1>2, FS_Subset
  <2> HIDE DEF R
  <2>3. PICK m \in R : \A o \in R : f[m] <= f[o]
    BY <2>2, Extremes
  <2>4. \A o \in S : Before(v, m, o)
    <3> SUFFICES ASSUME NEW o \in S PROVE Before(v, m, o)
      OBVIOUS
    <3>1. /\ m \in S /\ u[m] \in Int /\ u[o] \in Int /\ u[m] = u[a] /\ u[a] <= u[o]
          /\ u[m] = Used(v, m) /\ u[o] = Used(v, o) /\ f[m] = Free(v, m) /\ f[o] = Free(v, o)
      BY <1>1, <2>1, <2>2 DEF R
    <3>2. u[o] = u[a] => f[m] <= f[o]
      BY <2>3 DEF R
    <3> QED
      BY <3>1, <3>2 DEF Before
  <2> QED
    BY <2>2, <2>4
<1>4. \E m \in S : \A o \in S : Before(v, o, m)
  <2>1. PICK a \in S : \A o \in S : u[o] <= u[a]
    BY <1>1, <1>2, Extremes
  <2> DEFINE R == {n \in S : u[n] = u[a]}
  <2>2. R # {} /\ R \in SUBSET S /\ IsFiniteSet(R) /\ \A n \in R : f[n] \in Int
    BY <1>1, <1>2, FS_Subset
  <2> HIDE DEF R
  <2>3. PICK m \in R : \A o \in R : f[o] <= f[m]
    BY <2>2, Extremes
  <2>4. \A o \in S : Before(v, o, m)
    <3> SUFFICES ASSUME NEW o \in S PROVE Before(v, o, m)
      OBVIOUS
    <3>1. /\ m \in S /\ u[m] \in Int /\ u[o] \in Int /\ u[m] = u[a] /\ u[o] <= u[a]
          /\ u[m] = Used(v, m) /\ u[o] = Used(v, o) /\ f[m] = Free(v, m) /\ f[o] = Free(v, o)
      BY <1>1, <2>1, <2>2 DEF R
    <3>2. u[o] = u[a] => f[o] <= f[m]
      BY <2>3 DEF R
    <3> QED
      BY <3>1, <3>2 DEF Before
  <2> QED
    BY <2>2, <2>4
<1> QED
  BY <1>3, <1>4

(* Any nodes can be put in order: the last one comes after the others.     *)
LEMMA OrderExists ==
  ASSUME NEW v, Counted(v), NEW S \in SUBSET Node
  PROVE  InOrder(v, S) # {}
<1> DEFINE T == {U \in SUBSET S : InOrder(v, U) # {}}
<1>0. IsFiniteSet(S)
  BY PlacementAssumption, FS_Subset
<1>1. ASSUME NEW U \in SUBSET S, \A V \in SUBSET U : V # U => V \in T
      PROVE  U \in T
  <2>0. IsFiniteSet(U)
    BY <1>0, FS_Subset
  <2>1. CASE U = {}
    <3>1. Cardinality(U) = 0
      BY <2>1, FS_EmptySet
    <3> DEFINE s == [i \in 1 .. 0 |-> 0]
    <3>2. s \in InOrder(v, U)
      BY <3>1 DEF InOrder
    <3> QED
      BY <3>2
  <2>2. CASE U # {}
    <3>1. PICK m \in U : \A o \in U : Before(v, o, m)
      BY <2>2, FirstAndLast
    <3> DEFINE n == Cardinality(U)
               V == U \ {m}
    <3>2. n \in Nat /\ n >= 1 /\ Cardinality(V) = n - 1
      <4>1. n \in Nat /\ Cardinality(V) \in Nat /\ Cardinality(V) = n - 1
        BY <2>0, FS_RemoveElement, FS_CardinalityType
      <4> HIDE DEF n
      <4> QED
        BY <4>1
    <3>3. PICK s : s \in InOrder(v, V)
      BY <1>1
    <3>4. /\ s \in [1 .. n - 1 -> V]
          /\ \A i, k \in 1 .. n - 1 : i < k => s[i] # s[k] /\ Before(v, s[i], s[k])
      BY <3>2, <3>3 DEF InOrder
    <3> DEFINE t == [i \in 1 .. n |-> IF i = n THEN m ELSE s[i]]
    <3>5. \A i \in 1 .. n : i # n => i \in 1 .. n - 1 /\ t[i] = s[i] /\ s[i] \in U /\ s[i] # m
      <4> SUFFICES ASSUME NEW i \in 1 .. n, i # n
                   PROVE  i \in 1 .. n - 1 /\ t[i] = s[i] /\ s[i] \in V
        OBVIOUS
      <4>1. i \in 1 .. n - 1
        <5> HIDE DEF n
        <5> QED BY <3>2
      <4> QED
        BY <3>4, <4>1
    <3>6. n \in 1 .. n /\ t[n] = m
      <4>1. n \in 1 .. n
        BY <3>2
      <4> QED
        BY <4>1
    <3>7. t \in [1 .. n -> U]
      BY <3>5
    <3>8. ASSUME NEW i \in 1 .. n, NEW k \in 1 .. n, i < k
          PROVE  t[i] # t[k] /\ Before(v, t[i], t[k])
      <4> HIDE DEF t, n, V
      <4>1. i # n
        BY <3>2, <3>8
      <4>2. CASE k = n
        BY <3>1, <3>5, <3>6, <4>1, <4>2
      <4>3. CASE k # n
        BY <3>4, <3>5, <3>8, <4>1, <4>3
      <4> QED
        BY <4>2, <4>3
    <3>9. t \in InOrder(v, U)
      BY <3>7, <3>8 DEF InOrder
    <3> QED
      BY <3>9
  <2> QED
    BY <2>1, <2>2
<1> HIDE DEF T
<1>2. S \in T
  BY <1>0, <1>1, StrongInduction
<1> QED
  BY <1>2 DEF T

(* In whatever order, all nodes together have what they have.              *)
LEMMA OrderSum ==
  ASSUME NEW v, Counted(v), NEW S \in SUBSET Node, \A n \in S : Free(v, n) > 0,
         NEW s \in InOrder(v, S)
  PROVE  /\ SumOver(FreeOf(v), S) \in Nat
         /\ FirstFree(v, s, Cardinality(S)) = SumOver(FreeOf(v), S)
         /\ \A k \in 1 .. Cardinality(S) :
              FirstFree(v, s, k) \in Nat /\ FirstFree(v, s, k) <= SumOver(FreeOf(v), S)
<1> DEFINE n == Cardinality(S)
           D == 1 .. n
           f == [i \in D |-> Free(v, s[i])]
           F == FreeOf(v)
<1>1. IsFiniteSet(S) /\ n \in Nat /\ IsFiniteSet(D) /\ Cardinality(D) = n
  <2>1. IsFiniteSet(S) /\ n \in Nat
    BY PlacementAssumption, FS_Subset, FS_CardinalityType
  <2>2. IsFiniteSet(D) /\ Cardinality(D) = IF 1 > n THEN 0 ELSE n - 1 + 1
    BY <2>1, FS_Interval
  <2> HIDE DEF n
  <2> QED
    BY <2>1, <2>2
<1>2. /\ s \in [D -> S]
      /\ \A i, k \in D : i < k => s[i] # s[k]
  BY DEF InOrder
<1>3. \A i, k \in D : s[i] = s[k] => i = k
  <2> SUFFICES ASSUME NEW i \in D, NEW k \in D, s[i] = s[k] PROVE i = k
    OBVIOUS
  <2>1. i \in Int /\ k \in Int
    OBVIOUS
  <2>2. ~(i < k) /\ ~(k < i)
    BY <1>2
  <2> HIDE DEF D
  <2> QED
    BY <2>1, <2>2
<1>4. \A y \in S : \E i \in D : s[i] = y
  <2>1. s \in Injection(D, S)
    BY <1>2, <1>3 DEF Injection, IsInjective
  <2>2. s \in Surjection(D, S)
    BY <1>1, <2>1, FS_Injection
  <2> QED
    BY <2>2 DEF Surjection
<1>5. \A y \in S : F[y] = Free(v, y) /\ F[y] \in Nat
  <2> SUFFICES ASSUME NEW y \in S PROVE F[y] = Free(v, y) /\ F[y] \in Nat
    OBVIOUS
  <2>1. Free(v, y) \in Int /\ Free(v, y) > 0 /\ F[y] = Free(v, y)
    BY UsedNat DEF FreeOf
  <2> QED
    BY <2>1
<1>6. \A i \in D : f[i] = Free(v, s[i]) /\ f[i] = F[s[i]] /\ f[i] \in Nat /\ s[i] \in S
  BY <1>2, <1>5
<1> HIDE DEF F
<1>7. SumOver(F, S) \in Nat
  BY <1>1, <1>5, SumNat
<1> HIDE DEF f, D
<1>8. SumOver(f, D) \in Nat
  BY <1>1, <1>6, SumNat
<1>9. SumOver(f, D) <= SumOver(F, S)
  <2>1. \A i \in D : f[i] \in Int /\ s[i] \in S /\ f[i] <= F[s[i]]
    BY <1>5, <1>6
  <2> QED
    BY <1>1, <1>3, <1>5, <2>1, SumInjection
<1>10. SumOver(F, S) <= SumOver(f, D)
  <2> DEFINE h == [y \in S |-> CHOOSE i \in D : s[i] = y]
  <2>1. \A y \in S : h[y] \in D /\ s[h[y]] = y
    BY <1>4
  <2> HIDE DEF h
  <2>2. \A y \in S : F[y] \in Int /\ h[y] \in D /\ F[y] <= f[h[y]]
    BY <1>5, <1>6, <2>1
  <2>3. \A x, y \in S : h[x] = h[y] => x = y
    BY <2>1
  <2> QED
    BY <1>1, <1>6, <2>2, <2>3, SumInjection
<1>11. ASSUME NEW k \in Nat, k <= n
       PROVE  /\ FirstFree(v, s, k) = SumOver(f, 1 .. k)
              /\ SumOver(f, 1 .. k) \in Nat /\ SumOver(f, 1 .. k) <= SumOver(f, D)
  <2>1. 1 .. k \in SUBSET D
    BY <1>1, <1>11 DEF D
  <2>2. \A i \in 1 .. k : f[i] = Free(v, s[i]) /\ f[i] \in Nat
    BY <1>6, <2>1
  <2>3. IsFiniteSet(1 .. k)
    BY FS_Interval
  <2> QED
    BY <1>1, <1>6, <2>1, <2>2, <2>3, FirstFreeIsSum, SumSubset, SumNat
<1>12. FirstFree(v, s, n) = SumOver(f, D)
  BY <1>1, <1>11 DEF D
<1>13. \A k \in 1 .. n : FirstFree(v, s, k) \in Nat /\ FirstFree(v, s, k) <= SumOver(F, S)
  <2> SUFFICES ASSUME NEW k \in 1 .. n
               PROVE  FirstFree(v, s, k) \in Nat /\ FirstFree(v, s, k) <= SumOver(F, S)
    OBVIOUS
  <2>1. k \in Nat /\ k <= n
    BY <1>1
  <2>2. /\ FirstFree(v, s, k) = SumOver(f, 1 .. k)
        /\ SumOver(f, 1 .. k) \in Nat /\ SumOver(f, 1 .. k) <= SumOver(f, D)
    BY <1>11, <2>1
  <2> QED
    BY <1>7, <1>8, <1>9, <2>2
<1> HIDE DEF n
<1> QED
  BY <1>7, <1>8, <1>9, <1>10, <1>12, <1>13 DEF F, n

(* Several nodes are found exactly when what they have free suffices.      *)
LEMMA NetFound ==
  ASSUME NEW v, Counted(v), NEW S \in SUBSET Node, NEW request \in Nat \ {0}
  PROVE  NetGangs(v, S, request) # {}
           <=> SumOver(FreeOf(v), Offering(v, S)) >= request
<1> DEFINE R == Offering(v, S)
           n == Cardinality(R)
           total == SumOver(FreeOf(v), R)
<1>1. R \in SUBSET Node /\ \A m \in R : Free(v, m) > 0
  BY DEF Offering
<1>2. R = {m \in S : Free(v, m) > 0}
  BY DEF Offering
<1>3. IsFiniteSet(R) /\ n \in Nat
  BY <1>1, PlacementAssumption, FS_Subset, FS_CardinalityType
<1> HIDE DEF R
<1>4. ASSUME NEW s \in InOrder(v, R)
      PROVE  Needed(v, s, request) # {} <=> total >= request
  <2>1. DOMAIN s = 1 .. n
    BY DEF InOrder
  <2>2. /\ total \in Nat /\ FirstFree(v, s, n) = total
        /\ \A k \in 1 .. n : FirstFree(v, s, k) \in Nat /\ FirstFree(v, s, k) <= total
    BY <1>1, OrderSum
  <2>3. ASSUME NEW k \in Needed(v, s, request) PROVE total >= request
    <3>1. k \in 1 .. n /\ FirstFree(v, s, k) >= request
      BY <2>1 DEF Needed
    <3>2. FirstFree(v, s, k) \in Nat /\ FirstFree(v, s, k) <= total
      BY <2>2, <3>1
    <3> HIDE DEF total
    <3> QED
      BY <2>2, <3>1, <3>2
  <2>4. ASSUME total >= request PROVE Needed(v, s, request) # {}
    <3>1. CASE n = 0
      <4>1. R = {}
        BY <1>3, <3>1, FS_EmptySet
      <4>2. total = 0
        BY <4>1, SumEmpty
      <4> HIDE DEF total
      <4> QED
        BY <2>4, <4>2
    <3>2. CASE n # 0
      <4>1. n \in 1 .. n
        BY <1>3, <3>2
      <4>2. n \in Needed(v, s, request)
        BY <2>1, <2>2, <2>4, <4>1 DEF Needed
      <4> QED
        BY <4>2
    <3> QED
      BY <3>1, <3>2
  <2> QED
    BY <2>3, <2>4
<1>5. InOrder(v, R) # {}
  BY <1>1, OrderExists
<1>6. NetGangs(v, S, request)
        = {Split(v, s, request) : s \in {t \in InOrder(v, R) : Needed(v, t, request) # {}}}
  BY <1>2 DEF NetGangs
<1> HIDE DEF total
<1>7. NetGangs(v, S, request) # {} <=> total >= request
  BY <1>4, <1>5, <1>6
<1> QED
  BY <1>7 DEF total, R

(* The search for nodes among S finds a gang exactly when one node has the *)
(* whole request free, or the nodes of one network group together have: it *)
(* misses no place that is there, whatever the order in which it tries and *)
(* empties nodes (NodeInfoManager).                                        *)
THEOREM GangFound ==
  ASSUME NEW v, Counted(v), NEW S \in SUBSET Node, NEW request \in Nat \ {0}
  PROVE  GpuGangs(v, S, request) # {}
           <=> \/ \E n \in S : Free(v, n) >= request
               \/ \E k \in DOMAIN NetworkGroups :
                    SumOver(FreeOf(v), Offering(v, S \cap NetworkGroups[k])) >= request
<1> DEFINE fits == {n \in S : Free(v, n) >= request}
           enough == {k \in DOMAIN NetworkGroups :
                        NetGangs(v, S \cap NetworkGroups[k], request) # {}}
<1>1. IntraGangs(v, S, request) # {} <=> fits # {}
  <2>1. ASSUME fits # {} PROVE \E n \in fits : \A o \in fits : Before(v, n, o)
    <3>1. fits \in SUBSET Node
      OBVIOUS
    <3> HIDE DEF fits
    <3> QED
      BY <2>1, <3>1, FirstAndLast
  <2>2. IntraGangs(v, S, request)
          = {<<[node |-> n, gpus |-> request]>> :
               n \in {m \in fits : \A o \in fits : Before(v, m, o)}}
    BY DEF IntraGangs
  <2> HIDE DEF fits
  <2> QED
    BY <2>1, <2>2
<1>2. \A k \in DOMAIN NetworkGroups :
        k \in enough
          <=> SumOver(FreeOf(v), Offering(v, S \cap NetworkGroups[k])) >= request
  <2> SUFFICES ASSUME NEW k \in DOMAIN NetworkGroups
               PROVE  NetGangs(v, S \cap NetworkGroups[k], request) # {}
                        <=> SumOver(FreeOf(v), Offering(v, S \cap NetworkGroups[k])) >= request
    OBVIOUS
  <2>1. S \cap NetworkGroups[k] \in SUBSET Node
    OBVIOUS
  <2> QED
    BY <2>1, NetFound
<1>3. enough # {} => Min(enough) \in enough
  <2>1. enough \in SUBSET Int /\ IsFiniteSet(enough)
    <3>1. DOMAIN NetworkGroups = 1 .. Len(NetworkGroups) /\ Len(NetworkGroups) \in Nat
      BY PlacementAssumption
    <3>2. IsFiniteSet(1 .. Len(NetworkGroups)) /\ 1 .. Len(NetworkGroups) \in SUBSET Int
      BY <3>1, FS_Interval
    <3>3. enough \in SUBSET (1 .. Len(NetworkGroups))
      BY <3>1
    <3> HIDE DEF enough
    <3> QED
      BY <3>2, <3>3, FS_Subset
  <2> HIDE DEF enough
  <2> QED
    BY <2>1, MinMaxExist
<1>4. GpuGangs(v, S, request)
        = IF IntraGangs(v, S, request) # {} THEN IntraGangs(v, S, request)
          ELSE IF enough # {} THEN NetGangs(v, S \cap NetworkGroups[Min(enough)], request)
          ELSE {}
  BY DEF GpuGangs
<1>5. \A k \in enough : NetGangs(v, S \cap NetworkGroups[k], request) # {}
  OBVIOUS
<1>6. enough \subseteq DOMAIN NetworkGroups
  OBVIOUS
<1> HIDE DEF enough
<1>7. GpuGangs(v, S, request) # {} <=> fits # {} \/ enough # {}
  BY <1>1, <1>3, <1>4, <1>5
<1> QED
  BY <1>2, <1>6, <1>7
==============================================================================
