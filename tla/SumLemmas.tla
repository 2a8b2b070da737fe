------------------------------ MODULE SumLemmas ------------------------------
(***************************************************************************)
(* Sums over finite sets, and minima and maxima, for the proofs about      *)
(* GPUs.  The models write MapThenSumSet(LAMBDA x : e(x), S); here the sum *)
(* of a function f over a set S is SumOver(f, S), which can be reasoned    *)
(* about by induction on S: induction is stated with a set of subsets in   *)
(* the place of a predicate, so that a prover can instantiate it.          *)
(***************************************************************************)
EXTENDS Integers, Functions, FiniteSetsExt, FiniteSetTheorems,
        WellFoundedInduction, TLAPS

SumOver(f, S) == SumFunctionOnSet(f, S)

(* Induction on the subsets of a finite set, from smaller to larger ones.  *)
LEMMA StrongInduction ==
  ASSUME NEW S, IsFiniteSet(S), NEW T,
         \A U \in SUBSET S :
           (\A V \in SUBSET U : V # U => V \in T) => U \in T
  PROVE  \A U \in SUBSET S : U \in T
<1> DEFINE Bad == {U \in SUBSET S : U \notin T}
<1> SUFFICES ASSUME Bad # {} PROVE FALSE
  OBVIOUS
<1>1. IsWellFoundedOn(StrictSubsetOrdering(S), SUBSET S)
  <2>1. FiniteSubsetsOf(S) = SUBSET S
    BY FS_FiniteSubsetsOfFinite
  <2>2. IsWellFoundedOn(StrictSubsetOrdering(S), FiniteSubsetsOf(S))
    BY FS_StrictSubsetOrderingWellFounded
  <2> QED BY <2>1, <2>2, Zenon
<1>2. PICK U \in Bad : \A V \in Bad : <<V, U>> \notin StrictSubsetOrdering(S)
  <2>1. Bad \subseteq SUBSET S
    OBVIOUS
  <2> HIDE DEF Bad
  <2> QED BY <1>1, <2>1, WFMin
<1>3. \A V \in SUBSET U : V # U => V \in T
  BY <1>2 DEF StrictSubsetOrdering
<1> QED
  BY <1>3

(* Induction by adding one element.                                        *)
LEMMA AddInduction ==
  ASSUME NEW S, IsFiniteSet(S), NEW T, {} \in T,
         \A U \in SUBSET S : \A x \in S \ U : U \in T => U \cup {x} \in T
  PROVE  S \in T
<1>1. ASSUME NEW U \in SUBSET S, \A V \in SUBSET U : V # U => V \in T
      PROVE  U \in T
  <2>1. CASE U = {}
    BY <2>1
  <2>2. CASE U # {}
    <3>1. PICK x \in U : TRUE
      BY <2>2
    <3>2. U \ {x} \in T /\ (U \ {x}) \cup {x} = U
      BY <1>1, <3>1
    <3> QED
      BY <3>1, <3>2
  <2> QED
    BY <2>1, <2>2
<1> QED
  BY <1>1, StrongInduction

------------------------------------------------------------------------------
(* The recursion of MapThenFoldSet                                         *)

AnyOf(S) == CHOOSE x \in S : TRUE
IsSum(g, f, S) ==
  g = [U \in SUBSET S |-> IF U = {} THEN 0 ELSE f[AnyOf(U)] + g[U \ {AnyOf(U)}]]

(* There is at most one function that obeys it...                          *)
LEMMA SumUnique ==
  ASSUME NEW S, IsFiniteSet(S), NEW f, NEW g, NEW h, IsSum(g, f, S), IsSum(h, f, S)
  PROVE  g = h
<1> DEFINE T == {U \in SUBSET S : g[U] = h[U]}
<1>1. ASSUME NEW U \in SUBSET S, \A V \in SUBSET U : V # U => V \in T
      PROVE  U \in T
  <2>1. CASE U = {}
    BY <2>1 DEF IsSum
  <2>2. CASE U # {}
    <3>1. AnyOf(U) \in U
      BY <2>2 DEF AnyOf
    <3>2. U \ {AnyOf(U)} \in T
      BY <1>1, <3>1
    <3> QED
      BY <2>2, <3>2 DEF IsSum
  <2> QED
    BY <2>1, <2>2
<1>2. \A U \in SUBSET S : g[U] = h[U]
  <2> HIDE DEF T
  <2>1. \A U \in SUBSET S : U \in T
    BY <1>1, StrongInduction
  <2> QED
    BY <2>1 DEF T
<1> QED
  BY <1>2 DEF IsSum

(* ... and SumOver is its value.                                             *)
LEMMA SumOverOfSum ==
  ASSUME NEW f, NEW S
  PROVE  SumOver(f, S) = (CHOOSE g : IsSum(g, f, S))[S]
  BY DEF SumOver, SumFunctionOnSet, FoldFunctionOnSet, MapThenFoldSet, IsSum, AnyOf

(* The function of the sums of all subsets satisfies the equation.         *)
LEMMA SumOverIsSum ==
  ASSUME NEW S, IsFiniteSet(S), NEW f
  PROVE  IsSum([U \in SUBSET S |-> SumOver(f, U)], f, S)
<1> DEFINE Rec(U) == IF U = {} THEN 0 ELSE f[AnyOf(U)] + SumOver(f, U \ {AnyOf(U)})
           T == {U \in SUBSET S : SumOver(f, U) = Rec(U)}
<1>1. ASSUME NEW U \in SUBSET S, \A V \in SUBSET U : V # U => V \in T
      PROVE  U \in T
  <2> DEFINE g == [V \in SUBSET U |-> Rec(V)]
  <2>1. \A V \in SUBSET U : V # {} => AnyOf(V) \in V
    BY DEF AnyOf
  <2>2. \A V \in SUBSET U : V # U => g[V] = SumOver(f, V)
    BY <1>1
  <2>3. IsSum(g, f, U)
    <3>1. \A V \in SUBSET U : V # {} => g[V \ {AnyOf(V)}] = SumOver(f, V \ {AnyOf(V)})
      BY <2>1, <2>2
    <3>2. \A V \in SUBSET U :
            Rec(V) = IF V = {} THEN 0 ELSE f[AnyOf(V)] + g[V \ {AnyOf(V)}]
      BY <3>1
    <3> QED
      BY <3>2, Zenon DEF IsSum
  <2>4. \A h : IsSum(h, f, U) => h = g
    BY <2>3, SumUnique, FS_Subset
  <2>5. (CHOOSE h : IsSum(h, f, U)) = g
    BY <2>3, <2>4
  <2>6. SumOver(f, U) = g[U]
    BY <2>5, SumOverOfSum
  <2> QED
    BY <2>6
<1>2. \A U \in SUBSET S : U \in T
  <2> HIDE DEF T
  <2> QED
    BY <1>1, StrongInduction
<1> QED
  <2>1. \A U \in SUBSET S : U # {} => AnyOf(U) \in U
    BY DEF AnyOf
  <2> QED
    BY <1>2, <2>1 DEF IsSum

(* A sum over nothing, and over a set from which one element is taken.     *)
LEMMA SumEmpty ==
  ASSUME NEW f
  PROVE  SumOver(f, {}) = 0
  BY SumOverIsSum, FS_EmptySet DEF IsSum

(* The sum over a set is what one of its elements adds to the others'.     *)
LEMMA SumAny ==
  ASSUME NEW S, IsFiniteSet(S), S # {}, NEW f
  PROVE  AnyOf(S) \in S /\ SumOver(f, S) = f[AnyOf(S)] + SumOver(f, S \ {AnyOf(S)})
<1>1. AnyOf(S) \in S
  BY DEF AnyOf
<1> DEFINE g == [U \in SUBSET S |-> SumOver(f, U)]
<1>2. g[S] = IF S = {} THEN 0 ELSE f[AnyOf(S)] + g[S \ {AnyOf(S)}]
  <2>1. IsSum(g, f, S)
    BY SumOverIsSum
  <2> HIDE DEF g
  <2> QED
    BY <2>1 DEF IsSum
<1> QED
  BY <1>1, <1>2

(* A sum of integers is one.                                               *)
LEMMA SumInt ==
  ASSUME NEW S, IsFiniteSet(S), NEW f, \A x \in S : f[x] \in Int
  PROVE  SumOver(f, S) \in Int
<1> DEFINE T == {U \in SUBSET S : SumOver(f, U) \in Int}
<1>1. ASSUME NEW U \in SUBSET S, \A V \in SUBSET U : V # U => V \in T
      PROVE  U \in T
  <2>1. CASE U = {}
    BY <2>1, SumEmpty
  <2>2. CASE U # {}
    <3>1. AnyOf(U) \in U /\ SumOver(f, U) = f[AnyOf(U)] + SumOver(f, U \ {AnyOf(U)})
      BY <2>2, SumAny, FS_Subset
    <3>2. U \ {AnyOf(U)} \in T
      BY <1>1, <3>1
    <3> QED
      BY <3>1, <3>2
  <2> QED
    BY <2>1, <2>2
<1> HIDE DEF T
<1>2. S \in T
  BY <1>1, StrongInduction
<1> QED
  BY <1>2 DEF T

(* AnyOf element may be taken: addition is commutative.                      *)
LEMMA SumRemove ==
  ASSUME NEW S, IsFiniteSet(S), NEW f, \A x \in S : f[x] \in Int, NEW x \in S
  PROVE  SumOver(f, S) = f[x] + SumOver(f, S \ {x})
<1> DEFINE T == {U \in SUBSET S : \A y \in U : SumOver(f, U) = f[y] + SumOver(f, U \ {y})}
<1>0. \A U \in SUBSET S : IsFiniteSet(U) /\ SumOver(f, U) \in Int
  BY FS_Subset, SumInt
<1>1. ASSUME NEW U \in SUBSET S, \A V \in SUBSET U : V # U => V \in T
      PROVE  U \in T
  <2> SUFFICES ASSUME NEW y \in U PROVE SumOver(f, U) = f[y] + SumOver(f, U \ {y})
    OBVIOUS
  <2> DEFINE a == AnyOf(U)
  <2>1. a \in U /\ SumOver(f, U) = f[a] + SumOver(f, U \ {a})
    BY <1>0, SumAny
  <2> HIDE DEF a
  <2>2. CASE y = a
    BY <2>1, <2>2
  <2>3. CASE y # a
    <3>1. SumOver(f, U \ {a}) = f[y] + SumOver(f, (U \ {a}) \ {y})
      BY <1>1, <2>1, <2>3
    <3>2. SumOver(f, U \ {y}) = f[a] + SumOver(f, (U \ {y}) \ {a})
      BY <1>1, <2>1, <2>3
    <3>3. (U \ {a}) \ {y} = (U \ {y}) \ {a}
      OBVIOUS
    <3>4. f[a] \in Int /\ f[y] \in Int /\ SumOver(f, (U \ {y}) \ {a}) \in Int
      BY <1>0, <2>1
    <3> DEFINE rest == SumOver(f, (U \ {y}) \ {a})
    <3>5. SumOver(f, U) = f[a] + (f[y] + rest)
      BY <2>1, <3>1, <3>3
    <3>6. SumOver(f, U \ {y}) = f[a] + rest
      BY <3>2
    <3> HIDE DEF rest
    <3> QED
      BY <3>4, <3>5, <3>6 DEF rest
  <2> QED
    BY <2>2, <2>3
<1> HIDE DEF T
<1>2. S \in T
  BY <1>1, StrongInduction
<1> QED
  BY <1>2 DEF T

(* One element more.                                                       *)
LEMMA SumAdd ==
  ASSUME NEW S, IsFiniteSet(S), NEW x, x \notin S, NEW f,
         \A y \in S \cup {x} : f[y] \in Int
  PROVE  SumOver(f, S \cup {x}) = SumOver(f, S) + f[x]
<1>1. IsFiniteSet(S \cup {x}) /\ (S \cup {x}) \ {x} = S
  BY FS_AddElement
<1>2. SumOver(f, S \cup {x}) = f[x] + SumOver(f, S)
  BY <1>1, SumRemove
<1> QED
  BY <1>2, SumInt

(* Functions that agree on a set have the same sum over it.                *)
LEMMA SumEqual ==
  ASSUME NEW S, IsFiniteSet(S), NEW f, NEW g, \A x \in S : f[x] = g[x]
  PROVE  SumOver(f, S) = SumOver(g, S)
<1> DEFINE T == {U \in SUBSET S : SumOver(f, U) = SumOver(g, U)}
<1>1. ASSUME NEW U \in SUBSET S, \A V \in SUBSET U : V # U => V \in T
      PROVE  U \in T
  <2>1. CASE U = {}
    BY <2>1, SumEmpty
  <2>2. CASE U # {}
    <3>1. /\ AnyOf(U) \in U
          /\ SumOver(f, U) = f[AnyOf(U)] + SumOver(f, U \ {AnyOf(U)})
          /\ SumOver(g, U) = g[AnyOf(U)] + SumOver(g, U \ {AnyOf(U)})
      BY <2>2, SumAny, FS_Subset
    <3>2. U \ {AnyOf(U)} \in T
      BY <1>1, <3>1
    <3> QED
      BY <3>1, <3>2
  <2> QED
    BY <2>1, <2>2
<1> HIDE DEF T
<1>2. S \in T
  BY <1>1, StrongInduction
<1> QED
  BY <1>2 DEF T

(* The sum over two sets without a common element.                         *)
LEMMA SumUnion ==
  ASSUME NEW A, IsFiniteSet(A), NEW B, IsFiniteSet(B), A \cap B = {},
         NEW f, \A x \in A \cup B : f[x] \in Int
  PROVE  SumOver(f, A \cup B) = SumOver(f, A) + SumOver(f, B)
<1> DEFINE T == {U \in SUBSET B : SumOver(f, A \cup U) = SumOver(f, A) + SumOver(f, U)}
<1>0. SumOver(f, A) \in Int
  BY SumInt
<1>1. {} \in T
  <2>1. A \cup {} = A
    OBVIOUS
  <2> QED
    BY <1>0, <2>1, SumEmpty
<1>2. ASSUME NEW U \in SUBSET B, NEW x \in B \ U, U \in T
      PROVE  U \cup {x} \in T
  <2>1. IsFiniteSet(U) /\ IsFiniteSet(A \cup U) /\ x \notin A \cup U
    BY FS_Subset, FS_Union
  <2>2. SumOver(f, U \cup {x}) = SumOver(f, U) + f[x]
    BY <2>1, SumAdd
  <2>3. SumOver(f, (A \cup U) \cup {x}) = SumOver(f, A \cup U) + f[x]
    BY <2>1, SumAdd
  <2>4. A \cup (U \cup {x}) = (A \cup U) \cup {x}
    OBVIOUS
  <2>5. SumOver(f, U) \in Int /\ f[x] \in Int
    BY <2>1, SumInt
  <2> DEFINE a == SumOver(f, A)
             u == SumOver(f, U)
             all == SumOver(f, A \cup (U \cup {x}))
             more == SumOver(f, U \cup {x})
  <2>6. all = (a + u) + f[x] /\ more = u + f[x] /\ a \in Int /\ u \in Int
    BY <1>0, <1>2, <2>2, <2>3, <2>4, <2>5
  <2>7. all = a + more
    <3> HIDE DEF a, u, all, more
    <3> QED BY <2>5, <2>6
  <2> QED
    BY <2>7
<1> HIDE DEF T
<1>3. B \in T
  BY <1>1, <1>2, AddInduction
<1> QED
  BY <1>3 DEF T

(* The numbers of a set, each at most another number of another set, with  *)
(* no two at most the same one, add up to at most as much.                 *)
LEMMA SumInjection ==
  ASSUME NEW A, IsFiniteSet(A), NEW B, IsFiniteSet(B),
         NEW f, \A x \in A : f[x] \in Int,
         NEW g, \A y \in B : g[y] \in Nat,
         NEW h, \A x \in A : h[x] \in B /\ f[x] <= g[h[x]],
         \A x, y \in A : h[x] = h[y] => x = y
  PROVE  SumOver(f, A) <= SumOver(g, B)
<1> DEFINE T == {U \in SUBSET A :
                   \A V \in SUBSET B : (\A x \in U : h[x] \in V) => SumOver(f, U) <= SumOver(g, V)}
<1>0. /\ \A U \in SUBSET A : IsFiniteSet(U) /\ SumOver(f, U) \in Int
      /\ \A V \in SUBSET B : IsFiniteSet(V) /\ SumOver(g, V) \in Int
  <2>1. \A x \in B : g[x] \in Int
    OBVIOUS
  <2>2. \A V \in SUBSET B : IsFiniteSet(V) /\ SumOver(g, V) \in Int
    BY <2>1, FS_Subset, SumInt
  <2> QED
    BY <2>2, FS_Subset, SumInt
<1>a. \A V \in SUBSET B : SumOver(g, V) >= 0
  <2> DEFINE P == {V \in SUBSET B : SumOver(g, V) >= 0}
  <2>1. {} \in P
    BY SumEmpty
  <2>2. ASSUME NEW U \in SUBSET B, NEW x \in B \ U, U \in P
        PROVE  U \cup {x} \in P
    <3>1. SumOver(g, U \cup {x}) = SumOver(g, U) + g[x]
      <4>1. \A y \in U \cup {x} : g[y] \in Int
        OBVIOUS
      <4>2. IsFiniteSet(U) /\ x \notin U
        BY <1>0
      <4> QED
        BY <4>1, <4>2, SumAdd
    <3> QED
      BY <1>0, <2>2, <3>1
  <2>3. ASSUME NEW V \in SUBSET B, \A U \in SUBSET V : U # V => U \in P
        PROVE  V \in P
    <3>1. CASE V = {}
      BY <2>1, <3>1
    <3>2. CASE V # {}
      <4>1. PICK x \in V : TRUE
        BY <3>2
      <4>2. V \ {x} \in P /\ (V \ {x}) \cup {x} = V
        BY <2>3, <4>1
      <4> QED
        BY <2>2, <4>1, <4>2
    <3> QED
      BY <3>1, <3>2
  <2> HIDE DEF P
  <2>4. \A V \in SUBSET B : V \in P
    BY <2>3, StrongInduction
  <2> QED
    BY <2>4 DEF P
<1>1. {} \in T
  BY <1>a, SumEmpty
<1>2. ASSUME NEW U \in SUBSET A, NEW x \in A \ U, U \in T
      PROVE  U \cup {x} \in T
  <2> SUFFICES ASSUME NEW V \in SUBSET B, \A y \in U \cup {x} : h[y] \in V
               PROVE  SumOver(f, U \cup {x}) <= SumOver(g, V)
    OBVIOUS
  <2>1. SumOver(f, U \cup {x}) = SumOver(f, U) + f[x]
    BY <1>0, SumAdd
  <2>2. SumOver(g, V) = g[h[x]] + SumOver(g, V \ {h[x]})
    BY <1>0, SumRemove
  <2>3. SumOver(f, U) <= SumOver(g, V \ {h[x]})
    <3>1. \A y \in U : h[y] \in V \ {h[x]}
      OBVIOUS
    <3> QED
      BY <1>2, <3>1
  <2>4. /\ f[x] \in Int /\ g[h[x]] \in Int /\ f[x] <= g[h[x]]
        /\ SumOver(f, U) \in Int /\ SumOver(g, V \ {h[x]}) \in Int
    BY <1>0
  <2> DEFINE u == SumOver(f, U)
             v == SumOver(g, V \ {h[x]})
  <2>5. SumOver(f, U \cup {x}) = u + f[x] /\ SumOver(g, V) = g[h[x]] + v /\ u <= v
        /\ u \in Int /\ v \in Int
    BY <2>1, <2>2, <2>3, <2>4
  <2> HIDE DEF u, v
  <2> QED
    BY <2>4, <2>5
<1> HIDE DEF T
<1>3. A \in T
  BY <1>1, <1>2, AddInduction
<1> QED
  BY <1>3 DEF T

(* A sum of naturals is one, and grows with the set.                       *)
LEMMA SumNat ==
  ASSUME NEW S, IsFiniteSet(S), NEW f, \A x \in S : f[x] \in Nat
  PROVE  SumOver(f, S) \in Nat
<1>1. SumOver(f, {}) <= SumOver(f, S)
  BY FS_EmptySet, SumInjection
<1> QED
  BY <1>1, SumEmpty, SumInt

(* What adds numbers only grows.                                           *)
LEMMA SumSubset ==
  ASSUME NEW S, IsFiniteSet(S), NEW f, \A x \in S : f[x] \in Nat, NEW U \in SUBSET S
  PROVE  SumOver(f, U) <= SumOver(f, S)
<1> DEFINE h == [x \in U |-> x]
<1>1. /\ \A x \in U : h[x] \in S /\ f[x] \in Int /\ f[x] <= f[h[x]]
      /\ \A x, y \in U : h[x] = h[y] => x = y
  OBVIOUS
<1>2. IsFiniteSet(U)
  BY FS_Subset
<1> HIDE DEF h
<1> QED
  BY <1>1, <1>2, SumInjection

(* Numbers grouped by an owner: the sum of the sums of the groups.         *)
LEMMA SumGroups ==
  ASSUME NEW S, IsFiniteSet(S), NEW f, \A x \in S : f[x] \in Int, NEW own,
         NEW W, IsFiniteSet(W)
  PROVE  SumOver([w \in W |-> SumOver(f, {x \in S : own[x] = w})], W)
           = SumOver(f, {x \in S : own[x] \in W})
<1> DEFINE s == [w \in W |-> SumOver(f, {x \in S : own[x] = w})]
           T == {U \in SUBSET W : SumOver(s, U) = SumOver(f, {x \in S : own[x] \in U})}
<1>0. /\ \A U \in SUBSET S : IsFiniteSet(U) /\ SumOver(f, U) \in Int
      /\ \A U \in SUBSET W : IsFiniteSet(U)
  BY FS_Subset, SumInt
<1>1. {} \in T
  <2>1. {x \in S : own[x] \in {}} = {}
    OBVIOUS
  <2> QED
    BY <2>1, SumEmpty
<1>2. ASSUME NEW U \in SUBSET W, NEW w \in W \ U, U \in T
      PROVE  U \cup {w} \in T
  <2> DEFINE A == {x \in S : own[x] \in U}
             B == {x \in S : own[x] = w}
  <2>1. SumOver(s, U \cup {w}) = SumOver(s, U) + s[w]
    <3>1. \A y \in U \cup {w} : s[y] \in Int
      BY <1>0
    <3> HIDE DEF s
    <3> QED
      BY <1>0, <3>1, SumAdd
  <2>2. SumOver(f, A \cup B) = SumOver(f, A) + SumOver(f, B)
    <3>1. A \cap B = {} /\ A \in SUBSET S /\ B \in SUBSET S
      OBVIOUS
    <3> HIDE DEF A, B
    <3> QED
      BY <1>0, <3>1, SumUnion
  <2>3. {x \in S : own[x] \in U \cup {w}} = A \cup B
    OBVIOUS
  <2>4. s[w] = SumOver(f, B) /\ SumOver(s, U) = SumOver(f, A)
    BY <1>2
  <2> HIDE DEF s, A, B
  <2>5. SumOver(s, U \cup {w}) = SumOver(f, {x \in S : own[x] \in U \cup {w}})
    BY <2>1, <2>2, <2>3, <2>4
  <2> QED
    BY <2>5
<1>3. W \in T
  <2> HIDE DEF T
  <2> QED
    BY <1>1, <1>2, AddInduction
<1> QED
  BY <1>3

------------------------------------------------------------------------------
(* The GPUs that a set of pods holds                                       *)

Held(S) == MapThenSumSet(LAMBDA p : p.gpus, S)

(* It is the sum of a function.                                            *)
LEMMA HeldIsSum ==
  ASSUME NEW S, IsFiniteSet(S), NEW f, \A p \in S : f[p] = p.gpus
  PROVE  Held(S) = SumOver(f, S)
<1> DEFINE Rec(g) == g = [U \in SUBSET S |-> IF U = {} THEN 0 ELSE AnyOf(U).gpus + g[U \ {AnyOf(U)}]]
<1>1. Held(S) = (CHOOSE g : Rec(g))[S]
  BY DEF Held, MapThenSumSet, MapThenFoldSet, AnyOf
<1>2. \A U \in SUBSET S : U # {} => f[AnyOf(U)] = AnyOf(U).gpus
  BY DEF AnyOf
<1>3. \A g : Rec(g) <=> IsSum(g, f, S)
  BY <1>2 DEF IsSum
<1> HIDE DEF Rec
<1>4. IsSum([U \in SUBSET S |-> SumOver(f, U)], f, S)
  BY SumOverIsSum
<1>5. (CHOOSE g : Rec(g)) = [U \in SUBSET S |-> SumOver(f, U)]
  BY <1>3, <1>4, SumUnique
<1> QED
  BY <1>1, <1>5

(* It is a natural number, and an integer for views of the cluster.        *)
LEMMA HeldNat ==
  ASSUME NEW S, IsFiniteSet(S), \A p \in S : p.gpus \in Nat
  PROVE  Held(S) \in Nat
<1> DEFINE f == [p \in S |-> p.gpus]
<1>1. \A p \in S : f[p] = p.gpus
  OBVIOUS
<1> HIDE DEF f
<1> QED
  BY <1>1, HeldIsSum, SumNat

(* No pods hold nothing.                                                   *)
LEMMA HeldEmpty == Held({}) = 0
  BY HeldIsSum, SumEmpty, FS_EmptySet

(* One pod more.                                                           *)
LEMMA HeldAdd ==
  ASSUME NEW S, IsFiniteSet(S), NEW q, q \notin S, q.gpus \in Nat,
         \A p \in S : p.gpus \in Nat
  PROVE  Held(S \cup {q}) = Held(S) + q.gpus
<1> DEFINE f == [p \in S \cup {q} |-> p.gpus]
<1>1. /\ \A p \in S \cup {q} : f[p] = p.gpus /\ f[p] \in Int
      /\ f[q] = q.gpus
  OBVIOUS
<1>2. IsFiniteSet(S \cup {q})
  BY FS_AddElement
<1> HIDE DEF f
<1>3. Held(S \cup {q}) = SumOver(f, S \cup {q}) /\ Held(S) = SumOver(f, S)
  BY <1>1, <1>2, HeldIsSum
<1>4. SumOver(f, S \cup {q}) = SumOver(f, S) + f[q]
  BY <1>1, SumAdd
<1> QED
  BY <1>1, <1>3, <1>4

(* Pods that each have a pod of their own in another set, with as many     *)
(* GPUs, hold at most as many.                                             *)
LEMMA HeldInjection ==
  ASSUME NEW A, IsFiniteSet(A), NEW B, IsFiniteSet(B),
         \A p \in A \cup B : p.gpus \in Nat,
         NEW h, \A p \in A : h[p] \in B /\ p.gpus = h[p].gpus,
         \A p, q \in A : h[p] = h[q] => p = q
  PROVE  Held(A) <= Held(B)
<1> DEFINE f == [p \in A \cup B |-> p.gpus]
<1>1. \A p \in A \cup B : f[p] = p.gpus
  OBVIOUS
<1> HIDE DEF f
<1>2. Held(A) = SumOver(f, A) /\ Held(B) = SumOver(f, B)
  BY <1>1, HeldIsSum
<1>3. /\ \A p \in A : f[p] \in Int /\ h[p] \in B /\ f[p] <= f[h[p]]
      /\ \A p \in B : f[p] \in Nat
  BY <1>1
<1>4. SumOver(f, A) <= SumOver(f, B)
  BY <1>3, SumInjection
<1> QED
  BY <1>2, <1>4

(* A part of the pods.                                                     *)
LEMMA HeldSubset ==
  ASSUME NEW S, IsFiniteSet(S), \A p \in S : p.gpus \in Nat, NEW U \in SUBSET S
  PROVE  Held(U) <= Held(S)
<1> DEFINE f == [p \in S |-> p.gpus]
<1>1. \A p \in S : f[p] = p.gpus
  OBVIOUS
<1> HIDE DEF f
<1>2. Held(S) = SumOver(f, S) /\ Held(U) = SumOver(f, U)
  BY <1>1, HeldIsSum, FS_Subset
<1> QED
  BY <1>1, <1>2, SumSubset

------------------------------------------------------------------------------
(* Pods belong to a class or do not.                                       *)
LEMMA HeldSplit ==
  ASSUME NEW S, IsFiniteSet(S), \A p \in S : p.gpus \in Nat, NEW K
  PROVE  Held(S) = Held(S \ K) + Held(S \cap K) /\ Held(S \ K) \in Nat
<1> DEFINE g == [p \in S |-> p.gpus]
<1>1. \A p \in S : g[p] \in Nat /\ g[p] \in Int /\ g[p] = p.gpus
  OBVIOUS
<1> HIDE DEF g
<1>2. \A U \in SUBSET S : IsFiniteSet(U)
  BY FS_Subset
<1>3. \A U \in SUBSET S : Held(U) = SumOver(g, U)
  BY <1>1, <1>2, HeldIsSum
<1>4. (S \ K) \cup (S \cap K) = S /\ (S \ K) \cap (S \cap K) = {}
  OBVIOUS
<1>5. SumOver(g, (S \ K) \cup (S \cap K)) = SumOver(g, S \ K) + SumOver(g, S \cap K)
  BY <1>1, <1>2, <1>4, SumUnion
<1>6. S \ K \in SUBSET S /\ S \cap K \in SUBSET S
  OBVIOUS
<1>7. Held(S) = SumOver(g, S)
  BY <1>3
<1>8. Held(S \ K) = SumOver(g, S \ K) /\ Held(S \cap K) = SumOver(g, S \cap K)
  BY <1>3, <1>6
<1>9. SumOver(g, S) = SumOver(g, S \ K) + SumOver(g, S \cap K)
  BY <1>4, <1>5
<1>10. SumOver(g, S \ K) \in Nat
  BY <1>1, <1>2, <1>6, SumNat
<1> QED
  BY <1>7, <1>8, <1>9, <1>10

------------------------------------------------------------------------------
(* Minima and maxima                                                       *)

(* A finite set of numbers has a least and a greatest member.              *)

(* Finitely many integers have a least and a greatest one.                 *)
LEMMA MinMaxExist ==
  ASSUME NEW S \in SUBSET Int, IsFiniteSet(S), S # {}
  PROVE  /\ Min(S) \in S /\ \A x \in S : Min(S) <= x
         /\ Max(S) \in S /\ \A x \in S : x <= Max(S)
<1> DEFINE Least(U, m) == m \in U /\ \A x \in U : m <= x
           Most(U, m) == m \in U /\ \A x \in U : x <= m
           T == {U \in SUBSET S : U # {} => (\E m \in U : Least(U, m))
                                            /\ (\E m \in U : Most(U, m))}
<1>1. {} \in T
  OBVIOUS
<1>2. ASSUME NEW U \in SUBSET S, NEW y \in S \ U, U \in T
      PROVE  U \cup {y} \in T
  <2>1. CASE U = {}
    <3>1. U \cup {y} = {y} /\ y \in Int
      BY <2>1
    <3>2. Least({y}, y) /\ Most({y}, y)
      BY <3>1
    <3> QED
      BY <3>1, <3>2
  <2>2. CASE U # {}
    <3>1. PICK a \in U, b \in U : Least(U, a) /\ Most(U, b)
      BY <1>2, <2>2
    <3>2. Least(U \cup {y}, a) \/ Least(U \cup {y}, y)
      BY <3>1
    <3>3. Most(U \cup {y}, b) \/ Most(U \cup {y}, y)
      BY <3>1
    <3> QED
      BY <3>2, <3>3
  <2> QED
    BY <2>1, <2>2
<1>3. S \in T
  <2> HIDE DEF T
  <2> QED
    BY <1>1, <1>2, AddInduction
<1>4. (\E m \in S : Least(S, m)) /\ (\E m \in S : Most(S, m))
  BY <1>3
<1> QED
  BY <1>4 DEF Min, Max

(* The image of a finite set is finite.                                    *)
LEMMA ImageFinite ==
  ASSUME NEW S, IsFiniteSet(S), NEW f
  PROVE  IsFiniteSet({f[x] : x \in S})
<1> DEFINE T == {f[x] : x \in S}
           g == [x \in S |-> f[x]]
<1>1. g \in Surjection(S, T)
  BY DEF Surjection
<1> HIDE DEF g, T
<1>2. IsFiniteSet(T)
  BY <1>1, FS_Surjection
<1> QED
  BY <1>2 DEF T

(* A function on a finite set is greatest and least somewhere.             *)
LEMMA Extremes ==
  ASSUME NEW S, IsFiniteSet(S), S # {}, NEW f, \A x \in S : f[x] \in Int
  PROVE  /\ \E x \in S : \A y \in S : f[y] <= f[x]
         /\ \E x \in S : \A y \in S : f[x] <= f[y]
<1> DEFINE T == {f[x] : x \in S}
<1>1. IsFiniteSet(T) /\ T \in SUBSET Int /\ T # {}
  BY ImageFinite
<1>2. /\ Min(T) \in T /\ \A z \in T : Min(T) <= z
      /\ Max(T) \in T /\ \A z \in T : z <= Max(T)
  BY <1>1, MinMaxExist
<1>3. PICK x \in S : f[x] = Max(T)
  BY <1>2
<1>4. PICK y \in S : f[y] = Min(T)
  BY <1>2
<1>5. \A z \in S : f[z] \in T
  OBVIOUS
<1> HIDE DEF T
<1>6. \A z \in S : f[z] <= f[x] /\ f[y] <= f[z]
  BY <1>2, <1>3, <1>4, <1>5
<1> QED
  BY <1>6

(* The greater and the smaller of two numbers.                             *)
LEMMA TwoMinMax ==
  ASSUME NEW a \in Int, NEW b \in Int
  PROVE  /\ Max({a, b}) \in {a, b} /\ a <= Max({a, b}) /\ b <= Max({a, b})
         /\ Min({a, b}) \in {a, b} /\ Min({a, b}) <= a /\ Min({a, b}) <= b
<1>1. IsFiniteSet({a, b})
  <2>1. {a, b} = {a} \cup {b}
    OBVIOUS
  <2>2. IsFiniteSet({a})
    BY FS_Singleton
  <2>3. IsFiniteSet({a} \cup {b})
    BY <2>2, FS_AddElement
  <2> QED
    BY <2>1, <2>3
<1>2. {a, b} \in SUBSET Int /\ {a, b} # {}
  OBVIOUS
<1> QED
  BY <1>1, <1>2, MinMaxExist
==============================================================================
