---------------------------- MODULE PartsProofs ----------------------------
(***************************************************************************)
(* Lemmas about the operators the axes share: sums over finite sets, and   *)
(* the greatest and the least of a set of numbers, steps and ranks.        *)
(***************************************************************************)
EXTENDS Parts, FiniteSetTheorems, WellFoundedInduction, TLAPS

-----------------------------------------------------------------------------
(* Sums.                                                                   *)

\* Induction: of some subsets of a finite set one has none of the others in it.
LEMMA SmallestSet ==
    ASSUME NEW S, IsFiniteSet(S), NEW B \in SUBSET SUBSET S, B # {}
    PROVE  \E T \in B : \A U \in B : U \subseteq T => U = T
<1>1. IsWellFoundedOn(StrictSubsetOrdering(S), SUBSET S)
    BY FS_StrictSubsetOrderingWellFounded, FS_FiniteSubsetsOfFinite
<1>2. PICK T \in B : \A U \in B : <<U, T>> \notin StrictSubsetOrdering(S)
    BY <1>1, WFMin
<1>3. ASSUME NEW U \in B, U \subseteq T PROVE U = T
    BY <1>2, <1>3 DEF StrictSubsetOrdering
<1> QED
    BY <1>3

Pick(s) == CHOOSE x \in s : TRUE
Rest(s) == s \ {Pick(s)}

LEMMA PickedOne == ASSUME NEW s, s # {} PROVE Pick(s) \in s /\ Rest(s) \subseteq s /\ Rest(s) # s
    BY DEF Pick, Rest

IsSum(g, w, S) ==
    g = [s \in SUBSET S |-> IF s = {} THEN 0 ELSE w[Pick(s)] + g[s \ {Pick(s)}]]

\* What the fold of the library is.
LEMMA SumIs == ASSUME NEW w, NEW S PROVE SumFunctionOnSet(w, S) = (CHOOSE g : IsSum(g, w, S))[S]
    BY DEF SumFunctionOnSet, FoldFunctionOnSet, MapThenFoldSet, IsSum, Pick, Rest

LEMMA SumEquation ==
    ASSUME NEW w, NEW S, NEW g, IsSum(g, w, S), NEW T \in SUBSET S
    PROVE  g[T] = IF T = {} THEN 0 ELSE w[Pick(T)] + g[Rest(T)]
    BY DEF IsSum, Rest

\* Two sums agree on the sets both are for.
LEMMA SumUnique ==
    ASSUME NEW w, NEW S, IsFiniteSet(S), NEW R, NEW g, NEW h, IsSum(g, w, S), IsSum(h, w, R),
           NEW T0 \in SUBSET S, T0 \subseteq R
    PROVE  g[T0] = h[T0]
<1> DEFINE B == {T \in SUBSET S : T \subseteq R /\ g[T] # h[T]}
<1> SUFFICES ASSUME B # {} PROVE FALSE
    OBVIOUS
<1>0. B \in SUBSET SUBSET S
    OBVIOUS
<1>1. PICK T \in B : \A U \in B : U \subseteq T => U = T
  <2> HIDE DEF B
  <2> QED
      BY <1>0, SmallestSet
<1>2. /\ g[T] = IF T = {} THEN 0 ELSE w[Pick(T)] + g[Rest(T)]
      /\ h[T] = IF T = {} THEN 0 ELSE w[Pick(T)] + h[Rest(T)]
    BY SumEquation
<1>3. T # {}
    BY <1>2
<1>4. Rest(T) \in SUBSET S /\ Rest(T) \subseteq R /\ Rest(T) # T /\ Rest(T) \subseteq T
    BY <1>3, PickedOne
<1>5. g[Rest(T)] = h[Rest(T)]
    BY <1>1, <1>4
<1> QED
    BY <1>2, <1>3, <1>5

LEMMA SumExists ==
    ASSUME NEW w, NEW S0, IsFiniteSet(S0)
    PROVE  \E g : IsSum(g, w, S0)
<1> DEFINE B == {S \in SUBSET S0 : ~\E g : IsSum(g, w, S)}
<1> SUFFICES ASSUME B # {} PROVE FALSE
    OBVIOUS
<1>0. B \in SUBSET SUBSET S0
    OBVIOUS
<1>1. PICK S \in B : \A U \in B : U \subseteq S => U = S
  <2> HIDE DEF B
  <2> QED
      BY <1>0, SmallestSet
<1> DEFINE G(s) == CHOOSE g : IsSum(g, w, s)
           val(s) == IF s = {} THEN 0 ELSE w[Pick(s)] + G(Rest(s))[Rest(s)]
           f == [s \in SUBSET S |-> val(s)]
<1>2. \A s \in SUBSET S : s # S => IsSum(G(s), w, s)
  <2> TAKE s \in SUBSET S
  <2> HAVE s # S
  <2>1. \E g : IsSum(g, w, s)
      BY <1>1
  <2> QED
      BY <2>1
<1> HIDE DEF G
<1>3. ASSUME NEW s \in SUBSET S, s # S PROVE G(s)[s] = val(s)
  <2>1. G(s)[s] = IF s = {} THEN 0 ELSE w[Pick(s)] + G(s)[Rest(s)]
      BY <1>2, <1>3, SumEquation
  <2>2. ASSUME s # {} PROVE G(s)[Rest(s)] = G(Rest(s))[Rest(s)]
    <3>1. Rest(s) \in SUBSET S /\ Rest(s) # S /\ Rest(s) \subseteq s
        BY <1>3, <2>2, PickedOne
    <3>2. IsSum(G(s), w, s) /\ IsSum(G(Rest(s)), w, Rest(s)) /\ IsFiniteSet(s)
        BY <1>2, <1>3, <3>1, FS_Subset
    <3> QED
        BY <3>1, <3>2, SumUnique
  <2> QED
      BY <2>1, <2>2
<1>4. \A s \in SUBSET S : s # {} => Rest(s) \in SUBSET S /\ Rest(s) # S
    BY PickedOne
<1>5. \A s \in SUBSET S : val(s) = IF s = {} THEN 0 ELSE w[Pick(s)] + f[Rest(s)]
    BY <1>3, <1>4
<1>6. IsSum(f, w, S)
  <2> DEFINE e == [s \in SUBSET S |-> IF s = {} THEN 0 ELSE w[Pick(s)] + f[s \ {Pick(s)}]]
  <2>1. f = e
      BY <1>5, Zenon DEF Rest
  <2> QED
      BY <2>1 DEF IsSum
<1> QED
    BY <1>1, <1>6

\* One element after the other.
LEMMA SumStep ==
    ASSUME NEW w, NEW S, IsFiniteSet(S)
    PROVE  SumFunctionOnSet(w, S) =
              IF S = {} THEN 0 ELSE w[Pick(S)] + SumFunctionOnSet(w, Rest(S))
<1> DEFINE G(s) == CHOOSE g : IsSum(g, w, s)
<1>1. IsSum(G(S), w, S)
    BY SumExists
<1> HIDE DEF G
<1>2. G(S)[S] = IF S = {} THEN 0 ELSE w[Pick(S)] + G(S)[Rest(S)]
    BY <1>1, SumEquation
<1>3. ASSUME S # {} PROVE G(S)[Rest(S)] = G(Rest(S))[Rest(S)]
  <2>1. Rest(S) \in SUBSET S /\ IsFiniteSet(Rest(S))
      BY <1>3, PickedOne, FS_Subset
  <2>2. IsSum(G(Rest(S)), w, Rest(S))
      BY <2>1, SumExists DEF G
  <2> QED
      BY <1>1, <2>1, <2>2, SumUnique
<1> QED
    BY <1>2, <1>3, SumIs DEF G

LEMMA SumOfNone == ASSUME NEW w PROVE SumFunctionOnSet(w, {}) = 0
    BY SumStep, FS_EmptySet

\* The sum of whole numbers is one.
LEMMA SumInt ==
    ASSUME NEW w, NEW S0, IsFiniteSet(S0), \A x \in S0 : w[x] \in Int
    PROVE  SumFunctionOnSet(w, S0) \in Int
<1> DEFINE B == {S \in SUBSET S0 : SumFunctionOnSet(w, S) \notin Int}
<1> SUFFICES ASSUME B # {} PROVE FALSE
    OBVIOUS
<1>0. B \in SUBSET SUBSET S0
    OBVIOUS
<1>1. PICK S \in B : \A U \in B : U \subseteq S => U = S
  <2> HIDE DEF B
  <2> QED
      BY <1>0, SmallestSet
<1>2. SumFunctionOnSet(w, S) = IF S = {} THEN 0 ELSE w[Pick(S)] + SumFunctionOnSet(w, Rest(S))
    BY FS_Subset, SumStep
<1>3. S # {} => Pick(S) \in S /\ Rest(S) \in (SUBSET S0) \ B
    BY <1>1, PickedOne
<1> QED
    BY <1>2, <1>3

\* Any element may be the first.
LEMMA SumRemove ==
    ASSUME NEW w, NEW S0, IsFiniteSet(S0), \A x \in S0 : w[x] \in Int, NEW a \in S0
    PROVE  SumFunctionOnSet(w, S0) = w[a] + SumFunctionOnSet(w, S0 \ {a})
<1> DEFINE sum(S) == SumFunctionOnSet(w, S)
           B == {S \in SUBSET S0 : \E x \in S : sum(S) # w[x] + sum(S \ {x})}
<1> SUFFICES ASSUME B # {} PROVE FALSE
    OBVIOUS
<1>0. B \in SUBSET SUBSET S0
    OBVIOUS
<1>1. PICK S \in B : \A U \in B : U \subseteq S => U = S
  <2> HIDE DEF B
  <2> QED
      BY <1>0, SmallestSet
<1>2. PICK x \in S : sum(S) # w[x] + sum(S \ {x})
    OBVIOUS
<1>3. /\ \A T \in SUBSET S0 : IsFiniteSet(T) /\ sum(T) \in Int
      /\ \A T \in SUBSET S0 : T # {} => sum(T) = w[Pick(T)] + sum(Rest(T))
    BY FS_Subset, SumInt, SumStep
<1> HIDE DEF sum
<1>4. S # {} /\ sum(S) = w[Pick(S)] + sum(Rest(S)) /\ Pick(S) \in S
    BY <1>3, PickedOne
<1>5. x # Pick(S)
    BY <1>2, <1>4 DEF Rest
<1>6. x \in Rest(S) /\ Rest(S) \in SUBSET S0 /\ Rest(S) \notin B
    BY <1>1, <1>4, <1>5, PickedOne DEF Rest
<1>7. sum(Rest(S)) = w[x] + sum(Rest(S) \ {x})
    BY <1>6
<1>8. Pick(S) \in S \ {x} /\ Rest(S) \ {x} = (S \ {x}) \ {Pick(S)}
    BY <1>4, <1>5 DEF Rest
<1>9. sum(S \ {x}) = w[Pick(S)] + sum(Rest(S) \ {x})
  <2>1. S \ {x} \in SUBSET S0 /\ S \ {x} \subseteq S /\ S \ {x} # S
      BY <1>2
  <2>2. S \ {x} \notin B
      BY <1>1, <2>1
  <2> QED
      BY <1>8, <2>1, <2>2
<1>10. w[x] \in Int /\ w[Pick(S)] \in Int /\ sum(Rest(S) \ {x}) \in Int
    BY <1>2, <1>3, <1>4, <1>6
<1> QED
    BY <1>2, <1>4, <1>7, <1>9, <1>10

\* Sums of sets that have nothing in common add up.
LEMMA SumUnion ==
    ASSUME NEW w, NEW S0, IsFiniteSet(S0), NEW R, IsFiniteSet(R), S0 \cap R = {},
           \A x \in S0 \cup R : w[x] \in Int
    PROVE  SumFunctionOnSet(w, S0 \cup R) = SumFunctionOnSet(w, S0) + SumFunctionOnSet(w, R)
<1> DEFINE sum(S) == SumFunctionOnSet(w, S)
           B == {S \in SUBSET S0 : sum(S \cup R) # sum(S) + sum(R)}
<1> SUFFICES ASSUME B # {} PROVE FALSE
    OBVIOUS
<1>0. B \in SUBSET SUBSET S0
    OBVIOUS
<1>1. PICK S \in B : \A U \in B : U \subseteq S => U = S
  <2> HIDE DEF B
  <2> QED
      BY <1>0, SmallestSet
<1>2. \A T \in SUBSET S0 : /\ IsFiniteSet(T) /\ IsFiniteSet(T \cup R)
                           /\ sum(T) \in Int /\ sum(T \cup R) \in Int
    BY FS_Subset, FS_Union, SumInt
<1>3. S # {}
  <2> SUFFICES ASSUME S = {} PROVE FALSE
      OBVIOUS
  <2>1. S \cup R = R /\ sum(S) = 0
      BY SumOfNone
  <2>2. sum(R) \in Int
      BY SumInt
  <2>3. sum(S \cup R) # sum(S) + sum(R)
      OBVIOUS
  <2> QED
      BY <2>1, <2>2, <2>3
<1>4. PICK a \in S : TRUE
    BY <1>3
<1>5. sum(S) = w[a] + sum(S \ {a}) /\ sum(S \cup R) = w[a] + sum((S \ {a}) \cup R)
  <2>1. (S \cup R) \ {a} = (S \ {a}) \cup R
      BY <1>4
  <2>2. IsFiniteSet(S) /\ IsFiniteSet(S \cup R)
      BY <1>2
  <2> HIDE DEF B
  <2>3. \A x \in S \cup R : w[x] \in Int
      BY DEF B
  <2>4. sum(S) = w[a] + sum(S \ {a})
      BY <2>2, <2>3, SumRemove
  <2>5. sum(S \cup R) = w[a] + sum((S \cup R) \ {a})
      BY <2>2, <2>3, SumRemove
  <2> QED
      BY <2>1, <2>4, <2>5
<1>6. S \ {a} \in (SUBSET S0) \ B
    BY <1>1, <1>4
<1>7. sum((S \ {a}) \cup R) = sum(S \ {a}) + sum(R)
    BY <1>6
<1>8. w[a] \in Int /\ sum(S \ {a}) \in Int /\ sum(R) \in Int
  <2>1. sum(R) \in Int
      BY SumInt DEF sum
  <2> QED
      BY <1>2, <1>4, <1>6, <2>1
<1> QED
    BY <1>5, <1>7, <1>8

\* A sum looks at nothing else.
LEMMA SumOfSame ==
    ASSUME NEW v, NEW w, NEW S0, IsFiniteSet(S0), \A x \in S0 : v[x] = w[x]
    PROVE  SumFunctionOnSet(v, S0) = SumFunctionOnSet(w, S0)
<1> DEFINE B == {S \in SUBSET S0 : SumFunctionOnSet(v, S) # SumFunctionOnSet(w, S)}
<1> SUFFICES ASSUME B # {} PROVE FALSE
    OBVIOUS
<1>0. B \in SUBSET SUBSET S0
    OBVIOUS
<1>1. PICK S \in B : \A U \in B : U \subseteq S => U = S
  <2> HIDE DEF B
  <2> QED
      BY <1>0, SmallestSet
<1>2. /\ SumFunctionOnSet(v, S) = IF S = {} THEN 0 ELSE v[Pick(S)] + SumFunctionOnSet(v, Rest(S))
      /\ SumFunctionOnSet(w, S) = IF S = {} THEN 0 ELSE w[Pick(S)] + SumFunctionOnSet(w, Rest(S))
    BY FS_Subset, SumStep
<1>3. S # {} => Pick(S) \in S /\ Rest(S) \in (SUBSET S0) \ B
    BY <1>1, PickedOne
<1> QED
    BY <1>2, <1>3

\* More of what is not below 0 is not less.
LEMMA SumOfMore ==
    ASSUME NEW w, NEW S, IsFiniteSet(S), \A x \in S : w[x] \in Int, NEW R \in SUBSET S,
           \A x \in S \ R : w[x] >= 0
    PROVE  SumFunctionOnSet(w, R) <= SumFunctionOnSet(w, S)
<1> DEFINE sum(T) == SumFunctionOnSet(w, T)
           B == {T \in SUBSET (S \ R) : sum(T) < 0}
<1>1. IsFiniteSet(R) /\ IsFiniteSet(S \ R)
    BY FS_Subset
<1>2. \A T \in SUBSET S : IsFiniteSet(T) /\ sum(T) \in Int
    BY FS_Subset, SumInt
<1>3. sum(S \ R) >= 0
  <2> SUFFICES ASSUME B # {} PROVE FALSE
      BY <1>2
  <2>0. B \in SUBSET SUBSET (S \ R)
      OBVIOUS
  <2>1. PICK T \in B : \A U \in B : U \subseteq T => U = T
    <3> HIDE DEF B
    <3> QED
        BY <1>1, <2>0, SmallestSet
  <2>2. T # {}
      BY SumOfNone
  <2>3. PICK a \in T : TRUE
      BY <2>2
  <2>4. sum(T) = w[a] + sum(T \ {a})
      BY <1>2, SumRemove
  <2>5. T \ {a} \in (SUBSET (S \ R)) \ B
      BY <2>1, <2>3
  <2> QED
      BY <1>2, <2>4, <2>5
<1>4. sum(S) = sum(R) + sum(S \ R)
  <2>1. S = R \cup (S \ R)
      OBVIOUS
  <2> QED
      BY <1>1, <2>1, SumUnion
<1> QED
    BY <1>2, <1>3, <1>4

\* Of what is above 0, only the whole has the sum of the whole.
LEMMA SumOfAll ==
    ASSUME NEW w, NEW S, IsFiniteSet(S), \A x \in S : w[x] \in Int /\ w[x] > 0, NEW R \in SUBSET S,
           SumFunctionOnSet(w, R) = SumFunctionOnSet(w, S)
    PROVE  R = S
<1> SUFFICES ASSUME NEW a \in S \ R PROVE FALSE
    OBVIOUS
<1>1. SumFunctionOnSet(w, S) = w[a] + SumFunctionOnSet(w, S \ {a})
    BY SumRemove
<1>2. IsFiniteSet(S \ {a}) /\ R \in SUBSET (S \ {a})
    BY FS_RemoveElement
<1>3. SumFunctionOnSet(w, R) <= SumFunctionOnSet(w, S \ {a})
    BY <1>2, SumOfMore
<1>4. SumFunctionOnSet(w, S \ {a}) \in Int
    BY <1>2, SumInt
<1> QED
    BY <1>1, <1>3, <1>4

\* A sum of more is not less.
LEMMA SumOfGreater ==
    ASSUME NEW v, NEW w, NEW S0, IsFiniteSet(S0),
           \A x \in S0 : v[x] \in Int /\ w[x] \in Int /\ v[x] <= w[x]
    PROVE  SumFunctionOnSet(v, S0) <= SumFunctionOnSet(w, S0)
<1> DEFINE B == {S \in SUBSET S0 : ~(SumFunctionOnSet(v, S) <= SumFunctionOnSet(w, S))}
<1> SUFFICES ASSUME B # {} PROVE FALSE
    OBVIOUS
<1>0. B \in SUBSET SUBSET S0
    OBVIOUS
<1>1. PICK S \in B : \A U \in B : U \subseteq S => U = S
  <2> HIDE DEF B
  <2> QED
      BY <1>0, SmallestSet
<1>2. /\ SumFunctionOnSet(v, S) = IF S = {} THEN 0 ELSE v[Pick(S)] + SumFunctionOnSet(v, Rest(S))
      /\ SumFunctionOnSet(w, S) = IF S = {} THEN 0 ELSE w[Pick(S)] + SumFunctionOnSet(w, Rest(S))
    BY FS_Subset, SumStep
<1>3. S # {} => Pick(S) \in S /\ Rest(S) \in (SUBSET S0) \ B
    BY <1>1, PickedOne
<1>4. S # {} => SumFunctionOnSet(v, Rest(S)) \in Int /\ SumFunctionOnSet(w, Rest(S)) \in Int
  <2> SUFFICES ASSUME S # {}
               PROVE  SumFunctionOnSet(v, Rest(S)) \in Int /\ SumFunctionOnSet(w, Rest(S)) \in Int
      OBVIOUS
  <2>1. Rest(S) \in SUBSET S0
      BY <1>3
  <2>2. IsFiniteSet(Rest(S)) /\ \A x \in Rest(S) : v[x] \in Int /\ w[x] \in Int
      BY <2>1, FS_Subset
  <2> QED
      BY <2>2, SumInt
<1> QED
    BY <1>2, <1>3, <1>4

-----------------------------------------------------------------------------
(* The greatest, the least and the newest of a set of numbers.            *)

\* A bounded set of numbers has a greatest one, and a larger set none that is smaller.
LEMMA Greatest ==
    ASSUME NEW N \in Nat, NEW S \in SUBSET (0..N), S # {}
    PROVE  Max(S) \in S /\ \A k \in S : k <= Max(S)
<1> DEFINE T == {n \in Nat : \E k \in S : n = N - k}
<1>1. T \subseteq Nat /\ T # {}
  <2>1. PICK k \in S : k \in 0..N
      OBVIOUS
  <2>2. N - k \in T
      BY <2>1
  <2> QED
      BY <2>2
<1> HIDE DEF T
<1>2. PICK n \in T : \A m \in T : <<m, n>> \notin OpToRel(<, Nat)
    BY <1>1, WFMin, NatLessThanWellFounded, Zenon
<1>3. \A m \in T : ~(m < n)
    BY <1>1, <1>2, Zenon DEF OpToRel
<1>4. PICK k \in S : n = N - k
    BY DEF T
<1>5. \A j \in S : k >= j
  <2> TAKE j \in S
  <2>1. N - j \in T
      BY DEF T
  <2> QED
      BY <1>3, <1>4, <2>1
<1> QED
    BY <1>5 DEF Max

LEMMA GreatestOfMore ==
    ASSUME NEW N \in Nat, NEW S \in SUBSET (0..N), NEW R \in SUBSET S, R # {}
    PROVE  Max(S) >= Max(R)
<1>1. Max(R) \in R /\ \A k \in S : k <= Max(S)
    BY Greatest
<1> QED
    BY <1>1

\* A set of numbers has a first one.
LEMMA First ==
    ASSUME NEW S \in SUBSET Nat, S # {}
    PROVE  \E n \in S : \A m \in S : n <= m
<1>1. PICK n \in S : \A m \in S : <<m, n>> \notin OpToRel(<, Nat)
    BY WFMin, NatLessThanWellFounded, Zenon
<1>2. \A m \in S : ~(m < n)
    BY <1>1, Zenon DEF OpToRel
<1> QED
    BY <1>2

\* The least is what Min gives.
LEMMA Least ==
    ASSUME NEW S \in SUBSET Nat, S # {}
    PROVE  Min(S) \in S /\ \A k \in S : Min(S) <= k
<1>1. PICK n \in S : \A m \in S : n <= m
    BY First
<1> QED
    BY <1>1 DEF Min

\* A set in which all are the same has one element at most.
LEMMA AllTheSame ==
    ASSUME NEW S, \A m, n \in S : m = n
    PROVE  Cardinality(S) <= 1
<1>1. CASE S = {}
    BY <1>1, FS_EmptySet
<1>2. ASSUME NEW n \in S PROVE Cardinality(S) <= 1
  <2>1. S = {n}
      OBVIOUS
  <2>2. Cardinality({n}) = 1
      BY FS_Singleton, Zenon
  <2> QED
      BY <2>1, <2>2
<1> QED
    BY <1>1, <1>2

\* What is among the newest of a set is among the newest of any part it is in.
LEMMA NewestReach ==
    ASSUME NEW R \in SUBSET Nat, NEW S \in SUBSET R, IsFiniteSet(R), NEW n \in Nat,
           NEW a \in NewestOf(R, n), a \in S
    PROVE  a \in NewestOf(S, n)
<1>1. {b \in S : b > a} \subseteq {b \in R : b > a} /\ IsFiniteSet({b \in R : b > a})
    BY FS_Subset
<1>2. /\ Cardinality({b \in S : b > a}) <= Cardinality({b \in R : b > a})
      /\ Cardinality({b \in S : b > a}) \in Nat /\ Cardinality({b \in R : b > a}) \in Nat
    BY <1>1, FS_Subset, FS_CardinalityType
<1> QED
    BY <1>2 DEF NewestOf

\* There is a newest, if there is any.
LEMMA SomeNewest ==
    ASSUME NEW N \in Nat, NEW S \in SUBSET (0..N), S # {}, NEW n \in Nat \ {0}
    PROVE  NewestOf(S, n) # {}
<1> DEFINE m == Max(S)
<1>1. m \in S /\ \A k \in S : k <= m
    BY Greatest
<1> HIDE DEF m
<1>2. m \in Int /\ \A k \in S : k \in Int /\ ~(k > m)
    BY <1>1
<1>3. {b \in S : b > m} = {}
    BY <1>2
<1> QED
    BY <1>1, <1>3, FS_EmptySet DEF NewestOf

-----------------------------------------------------------------------------
(* Steps of points, and ranks.                                             *)

\* Who meets all the steps another one meets has no fewer points, if the better steps come first.
LEMMA MoreMet ==
    ASSUME NEW t, DOMAIN t \in SUBSET Nat, NEW u, DOMAIN u = DOMAIN t, NEW a, NEW b,
           \A i \in DOMAIN t : t[i].points \in Nat /\ u[i].points = t[i].points,
           \A i, j \in DOMAIN t : i <= j => t[i].points >= t[j].points,
           \A i \in DOMAIN t : Meets(a, t[i]) => Meets(b, u[i])
    PROVE  /\ TierPoints(a, t) \in Nat /\ TierPoints(b, u) \in Nat
           /\ TierPoints(b, u) >= TierPoints(a, t)
<1> DEFINE A == {i \in DOMAIN t : Meets(a, t[i])}
           B == {i \in DOMAIN u : Meets(b, u[i])}
<1>1. A \in SUBSET Nat /\ B \in SUBSET Nat /\ A \subseteq B /\ B \subseteq DOMAIN t
    OBVIOUS
<1>2. /\ TierPoints(a, t) = IF A = {} THEN 0 ELSE t[Min(A)].points
      /\ TierPoints(b, u) = IF B = {} THEN 0 ELSE u[Min(B)].points
    BY DEF TierPoints
<1> HIDE DEF A, B
<1>3. /\ A # {} => Min(A) \in A /\ \A k \in A : Min(A) <= k
      /\ B # {} => Min(B) \in B /\ \A k \in B : Min(B) <= k
    BY <1>1, Least
<1>4. /\ A # {} => Min(A) \in DOMAIN t /\ B # {} /\ Min(B) <= Min(A)
      /\ B # {} => Min(B) \in DOMAIN t
    BY <1>1, <1>3
<1> QED
    BY <1>2, <1>4

\* In a finite set in order, each rank is the rank of one.
LEMMA EachRankOnce ==
    ASSUME NEW S, IsFiniteSet(S), NEW before \in [S -> SUBSET S],
           \A s \in S : s \notin before[s],
           \A r, s \in S : r \in before[s] => before[r] \subseteq before[s],
           \A r, s \in S : r # s => r \in before[s] \/ s \in before[r],
           NEW i \in 0..Cardinality(S) - 1
    PROVE  \E s \in S : /\ Cardinality(before[s]) = i
                        /\ \A r \in S : Cardinality(before[r]) = i => r = s
<1> DEFINE N == Cardinality(S)
           rank == [s \in S |-> Cardinality(before[s])]
<1>1. N \in Nat
    BY FS_CardinalityType
<1>2. ASSUME NEW s \in S PROVE IsFiniteSet(before[s]) /\ rank[s] \in 0..N - 1
  <2>1. before[s] \in SUBSET (S \ {s})
      OBVIOUS
  <2>2. IsFiniteSet(S \ {s}) /\ Cardinality(S \ {s}) = N - 1
      BY FS_RemoveElement
  <2>3. /\ IsFiniteSet(before[s]) /\ Cardinality(before[s]) <= N - 1
        /\ Cardinality(before[s]) \in Nat
    <3> HIDE DEF N
    <3> QED
        BY <2>1, <2>2, FS_Subset, FS_CardinalityType
  <2> QED
      BY <1>1, <2>3
<1>3. ASSUME NEW r \in S, NEW s \in S, r \in before[s] PROVE rank[r] # rank[s]
  <2>1. before[r] \in SUBSET before[s] /\ before[r] # before[s]
      BY <1>3
  <2> QED
      BY <1>2, <2>1, FS_Subset
<1>4. \A r, s \in S : rank[r] = rank[s] => r = s
    BY <1>3
<1>5. rank \in Injection(S, 0..N - 1)
    BY <1>2, <1>4 DEF Injection, IsInjective
<1>6. IsFiniteSet(0..N - 1) /\ Cardinality(0..N - 1) = N
  <2> HIDE DEF N
  <2>1. 0 \in Int /\ N - 1 \in Int
      BY <1>1
  <2>2. Cardinality(0..N - 1) = IF 0 > N - 1 THEN 0 ELSE (N - 1) - 0 + 1
      BY <2>1, FS_Interval, Zenon
  <2> QED
      BY <1>1, <2>1, <2>2, FS_Interval
<1>7. rank \in Surjection(S, 0..N - 1)
  <2> HIDE DEF rank
  <2> QED
      BY <1>5, <1>6, FS_Injection
<1>8. PICK s \in S : rank[s] = i
    BY <1>7 DEF Surjection
<1> QED
    BY <1>4, <1>8

\* When one of a set is exchanged and none becomes less, the one at each rank is not less.
Exchanged(O, x, y, w, v) ==
    /\ IsFiniteSet(O) /\ x \notin O /\ y \notin O
    /\ w \in [O \cup {x} -> Int] /\ v \in [O \cup {y} -> Int]
    /\ \A o \in O : w[o] <= v[o]
    /\ w[x] <= v[y]

LEMMA RanksGrow ==
    ASSUME NEW O, NEW x, NEW y, NEW w, NEW v, Exchanged(O, x, y, w, v),
           NEW j \in O \cup {x}, NEW k \in O \cup {y},
           NEW B \in SUBSET (O \cup {x}), NEW C \in SUBSET (O \cup {y}),
           Cardinality(B) = Cardinality(C),
           \A s \in O \cup {x} : w[s] < w[j] => s \in B,
           k \notin C, \A r \in C : v[r] <= v[k]
    PROVE  w[j] <= v[k]
<1>0. /\ IsFiniteSet(O) /\ x \notin O /\ y \notin O
      /\ w \in [O \cup {x} -> Int] /\ v \in [O \cup {y} -> Int]
      /\ \A o \in O : w[o] <= v[o]
      /\ w[x] <= v[y]
    BY DEF Exchanged
<1> SUFFICES ASSUME v[k] < w[j] PROVE FALSE
    BY <1>0
<1> DEFINE A == C \cup {k}
<1>1. A \in SUBSET (O \cup {y}) /\ \A r \in A : v[r] < w[j]
    BY <1>0
<1>2. /\ IsFiniteSet(B) /\ IsFiniteSet(C) /\ IsFiniteSet(A)
      /\ Cardinality(B) \in Nat /\ Cardinality(A) = Cardinality(B) + 1
  <2>1. IsFiniteSet(O \cup {x}) /\ IsFiniteSet(O \cup {y})
      BY <1>0, FS_AddElement
  <2>2. IsFiniteSet(B) /\ IsFiniteSet(C)
      BY <2>1, FS_Subset
  <2> QED
      BY <2>2, FS_AddElement, FS_CardinalityType
<1> HIDE DEF A
<1>3. A \ {y} \in SUBSET (B \ {x})
    BY <1>0, <1>1
<1>4. y \in A => x \in B
    BY <1>0, <1>1
<1>5. /\ IsFiniteSet(A \ {y}) /\ Cardinality(A \ {y}) = IF y \in A THEN Cardinality(A) - 1 ELSE Cardinality(A)
      /\ IsFiniteSet(B \ {x}) /\ Cardinality(B \ {x}) = IF x \in B THEN Cardinality(B) - 1 ELSE Cardinality(B)
    BY <1>2, FS_RemoveElement
<1>6. Cardinality(A \ {y}) <= Cardinality(B \ {x})
    BY <1>3, <1>5, FS_Subset
<1> QED
    BY <1>2, <1>4, <1>5, <1>6

=============================================================================
