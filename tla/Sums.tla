-------------------------------- MODULE Sums --------------------------------
(***************************************************************************)
(* Sums of natural numbers over a finite set: a sum is the size of a set,  *)
(* which has a pair for every unit of every number.                        *)
(***************************************************************************)
EXTENDS Integers, Functions, FiniteSetTheorems, WellFoundedInduction, TLAPS

Units(f, S) == {u \in S \X Nat : u[2] < f[u[1]]}

\* What SumFunctionOnSet looks for.
Adds(f, S, h) ==
    h = [s \in SUBSET S |-> IF s = {} THEN 0
                            ELSE f[CHOOSE x \in s : TRUE] + h[s \ {CHOOSE x \in s : TRUE}]]

LEMMA SumUnfolds ==
    ASSUME NEW f, NEW S
    PROVE  SumFunctionOnSet(f, S) = (CHOOSE h : Adds(f, S, h))[S]
BY DEF SumFunctionOnSet, FoldFunctionOnSet, MapThenFoldSet, Adds

LEMMA UnitsFinite ==
    ASSUME NEW S, IsFiniteSet(S), NEW x \in S, NEW f, NEW n \in Nat, f[x] = n
    PROVE  /\ IsFiniteSet(Units(f, {x}))
           /\ Cardinality(Units(f, {x})) = n
<1> DEFINE g == [k \in 0..(n - 1) |-> <<x, k>>]
<1>1. IsFiniteSet(0..(n - 1)) /\ Cardinality(0..(n - 1)) = n
    BY FS_Interval
<1>2. g \in Bijection(0..(n - 1), Units(f, {x}))
  <2>1. \A k \in 0..(n - 1) : g[k] \in Units(f, {x})
    BY DEF Units
  <2>2. \A u \in Units(f, {x}) : u[2] \in 0..(n - 1) /\ g[u[2]] = u
    BY DEF Units
  <2>3. \A j, k \in 0..(n - 1) : g[j] = g[k] => j = k
    OBVIOUS
  <2> QED
    BY <2>1, <2>2, <2>3 DEF Bijection, Injection, Surjection, IsInjective
<1> QED
  BY <1>1, <1>2, FS_Bijection DEF ExistsBijection

\* A set of subsets that is not empty has one that is not in it without an element.
LEMMA SmallestSubset ==
    ASSUME NEW S, IsFiniteSet(S), NEW T \in SUBSET SUBSET S, T # {}
    PROVE  \E m \in T : \A x \in m : m \ {x} \notin T
<1>1. IsWellFoundedOn(StrictSubsetOrdering(S), SUBSET S)
    BY FS_StrictSubsetOrderingWellFounded, FS_FiniteSubsetsOfFinite
<1>2. PICK m \in T : \A y \in T : <<y, m>> \notin StrictSubsetOrdering(S)
    BY <1>1, WFMin
<1>3. \A x \in m : <<m \ {x}, m>> \in StrictSubsetOrdering(S)
    BY <1>2 DEF StrictSubsetOrdering
<1> QED
  BY <1>2, <1>3

LEMMA UnitsSplit ==
    ASSUME NEW f, NEW s, NEW x \in s
    PROVE  /\ Units(f, s) = Units(f, s \ {x}) \cup Units(f, {x})
           /\ Units(f, s \ {x}) \cap Units(f, {x}) = {}
BY DEF Units

LEMMA UnitsFiniteAll ==
    ASSUME NEW S, IsFiniteSet(S), NEW f, \A x \in S : f[x] \in Nat
    PROVE  \A s \in SUBSET S : IsFiniteSet(Units(f, s))
<1> DEFINE T == {s \in SUBSET S : ~IsFiniteSet(Units(f, s))}
<1>1. SUFFICES ASSUME T # {} PROVE FALSE
    OBVIOUS
<1>2. PICK m \in T : \A x \in m : m \ {x} \notin T
    BY <1>1, SmallestSubset
<1>3. CASE m = {}
  <2>1. Units(f, {}) = {}
    BY DEF Units
  <2> QED
    BY <1>2, <1>3, <2>1, FS_EmptySet
<1>4. ASSUME NEW x \in m PROVE FALSE
  <2>1. IsFiniteSet(Units(f, m \ {x}))
    BY <1>2
  <2>2. IsFiniteSet(Units(f, {x}))
    BY UnitsFinite
  <2>3. Units(f, m) = Units(f, m \ {x}) \cup Units(f, {x})
    BY UnitsSplit
  <2>4. IsFiniteSet(Units(f, m))
    BY <2>1, <2>2, <2>3, FS_Union
  <2> QED
    BY <1>2, <2>4
<1> QED
  BY <1>3, <1>4

LEMMA UnitsAdd ==
    ASSUME NEW S, IsFiniteSet(S), NEW f, \A x \in S : f[x] \in Nat,
           NEW s \in SUBSET S, NEW x \in s
    PROVE  /\ Cardinality(Units(f, s)) \in Nat
           /\ Cardinality(Units(f, s)) = f[x] + Cardinality(Units(f, s \ {x}))
<1>1. f[x] \in Nat
    OBVIOUS
<1>2. IsFiniteSet(Units(f, {x})) /\ Cardinality(Units(f, {x})) = f[x]
    BY <1>1, UnitsFinite
<1>3. IsFiniteSet(Units(f, s \ {x})) /\ IsFiniteSet(Units(f, s))
    BY UnitsFiniteAll
<1>4. Cardinality(Units(f, s)) = Cardinality(Units(f, s \ {x})) + Cardinality(Units(f, {x})) - 0
    BY <1>2, <1>3, UnitsSplit, FS_Union, FS_EmptySet
<1>5. Cardinality(Units(f, s \ {x})) \in Nat
    BY <1>3, FS_CardinalityType
<1> QED
  BY <1>1, <1>2, <1>4, <1>5

Sizes(f, S) == [s \in SUBSET S |-> Cardinality(Units(f, s))]

LEMMA SizesAdd ==
    ASSUME NEW S, IsFiniteSet(S), NEW f, \A x \in S : f[x] \in Nat
    PROVE  Adds(f, S, Sizes(f, S))
<1> DEFINE c(s) == CHOOSE x \in s : TRUE
<1>1. ASSUME NEW s \in SUBSET S
      PROVE  Sizes(f, S)[s] = IF s = {} THEN 0 ELSE f[c(s)] + Sizes(f, S)[s \ {c(s)}]
  <2>1. CASE s = {}
    <3>1. Units(f, {}) = {}
      BY DEF Units
    <3> QED
      BY <2>1, <3>1, FS_EmptySet DEF Sizes
  <2>2. CASE s # {}
    <3>1. c(s) \in s
      BY <2>2
    <3> HIDE DEF c
    <3>2. Cardinality(Units(f, s)) = f[c(s)] + Cardinality(Units(f, s \ {c(s)}))
      BY <3>1, UnitsAdd
    <3> QED
      BY <2>2, <3>2 DEF Sizes
  <2> QED
    BY <2>1, <2>2
<1> QED
  BY <1>1 DEF Adds, Sizes

LEMMA AddsOnce ==
    ASSUME NEW S, IsFiniteSet(S), NEW f, \A x \in S : f[x] \in Nat, NEW h, Adds(f, S, h)
    PROVE  h = Sizes(f, S)
<1> DEFINE c(s) == CHOOSE x \in s : TRUE
           g == Sizes(f, S)
           T == {s \in SUBSET S : h[s] # g[s]}
<1>1. Adds(f, S, g)
    BY SizesAdd
<1>2. \A s \in SUBSET S : h[s] = IF s = {} THEN 0 ELSE f[c(s)] + h[s \ {c(s)}]
    BY DEF Adds
<1>3. \A s \in SUBSET S : g[s] = IF s = {} THEN 0 ELSE f[c(s)] + g[s \ {c(s)}]
    BY <1>1 DEF Adds
<1>4. T = {}
  <2>1. SUFFICES ASSUME T # {} PROVE FALSE
    OBVIOUS
  <2>2. PICK m \in T : \A x \in m : m \ {x} \notin T
    BY <2>1, SmallestSubset
  <2>3. CASE m = {}
    BY <1>2, <1>3, <2>2, <2>3
  <2>4. CASE m # {}
    <3>1. c(m) \in m
      BY <2>4
    <3> HIDE DEF c, g
    <3>2. h[m \ {c(m)}] = g[m \ {c(m)}]
      BY <2>2, <3>1
    <3> QED
      BY <1>2, <1>3, <2>2, <2>4, <3>2
  <2> QED
    BY <2>3, <2>4
<1>5. h = [s \in SUBSET S |-> h[s]]
    BY DEF Adds
<1>6. g = [s \in SUBSET S |-> g[s]]
    BY DEF Sizes
<1>7. \A s \in SUBSET S : h[s] = g[s]
    BY <1>4
<1> HIDE DEF g
<1>8. h = g
    BY <1>5, <1>6, <1>7
<1> QED
  BY <1>8 DEF g

LEMMA SumIsSize ==
    ASSUME NEW S, IsFiniteSet(S), NEW f, \A x \in S : f[x] \in Nat
    PROVE  SumFunctionOnSet(f, S) = Cardinality(Units(f, S))
<1>1. (CHOOSE h : Adds(f, S, h)) = Sizes(f, S)
  <2>1. \E h : Adds(f, S, h)
    BY SizesAdd
  <2>2. Adds(f, S, CHOOSE h : Adds(f, S, h))
    BY <2>1
  <2> QED
    BY <2>2, AddsOnce
<1> QED
  BY <1>1, SumUnfolds DEF Sizes

-----------------------------------------------------------------------------
(* What the sums of the modules are used for. *)

LEMMA SumType ==
    ASSUME NEW S, IsFiniteSet(S), NEW f, \A x \in S : f[x] \in Nat
    PROVE  SumFunctionOnSet(f, S) \in Nat
BY SumIsSize, UnitsFiniteAll, FS_CardinalityType

LEMMA SumEmpty ==
    ASSUME NEW f
    PROVE  SumFunctionOnSet(f, {}) = 0
<1>1. Units(f, {}) = {}
    BY DEF Units
<1> QED
  BY <1>1, SumIsSize, FS_EmptySet

\* A number of the set, and the sum of the others.
LEMMA SumSplit ==
    ASSUME NEW S, IsFiniteSet(S), NEW f, \A x \in S : f[x] \in Nat, NEW x \in S
    PROVE  SumFunctionOnSet(f, S) = f[x] + SumFunctionOnSet(f, S \ {x})
<1>1. IsFiniteSet(S \ {x})
    BY FS_RemoveElement
<1> QED
  BY <1>1, SumIsSize, UnitsAdd

LEMMA SumSame ==
    ASSUME NEW S, IsFiniteSet(S), NEW f, NEW g, \A x \in S : f[x] \in Nat /\ g[x] = f[x]
    PROVE  SumFunctionOnSet(g, S) = SumFunctionOnSet(f, S)
<1>1. Units(g, S) = Units(f, S)
    BY DEF Units
<1> QED
  BY <1>1, SumIsSize

LEMMA SumAtMost ==
    ASSUME NEW S, IsFiniteSet(S), NEW f, NEW g,
           \A x \in S : f[x] \in Nat /\ g[x] \in Nat /\ g[x] <= f[x]
    PROVE  SumFunctionOnSet(g, S) <= SumFunctionOnSet(f, S)
<1>1. Units(g, S) \subseteq Units(f, S)
  <2>1. \A k \in Nat, x \in S : k < g[x] => k < f[x]
    OBVIOUS
  <2> QED
    BY <2>1 DEF Units
<1>2. IsFiniteSet(Units(f, S))
    BY UnitsFiniteAll
<1> QED
  BY <1>1, <1>2, SumIsSize, FS_Subset

\* One number changes.
LEMMA SumChanges ==
    ASSUME NEW S, IsFiniteSet(S), NEW x \in S, NEW f, NEW g,
           \A y \in S : f[y] \in Nat /\ g[y] \in Nat,
           \A y \in S \ {x} : g[y] = f[y]
    PROVE  SumFunctionOnSet(g, S) = SumFunctionOnSet(f, S) + g[x] - f[x]
<1>1. IsFiniteSet(S \ {x})
    BY FS_RemoveElement
<1>2. SumFunctionOnSet(g, S \ {x}) = SumFunctionOnSet(f, S \ {x})
    BY <1>1, SumSame
<1>3. SumFunctionOnSet(f, S) = f[x] + SumFunctionOnSet(f, S \ {x})
    BY SumSplit
<1>4. SumFunctionOnSet(g, S) = g[x] + SumFunctionOnSet(g, S \ {x})
    BY SumSplit
<1>5. SumFunctionOnSet(f, S \ {x}) \in Nat
    BY <1>1, SumType
<1>6. f[x] \in Nat /\ g[x] \in Nat
    OBVIOUS
<1> QED
  BY <1>2, <1>3, <1>4, <1>5, <1>6

\* No number is above a bound.
LEMMA SumBounded ==
    ASSUME NEW S, IsFiniteSet(S), NEW n \in Nat, NEW f, \A x \in S : f[x] \in 0..n
    PROVE  SumFunctionOnSet(f, S) <= n * Cardinality(S)
<1>1. Units(f, S) \subseteq S \X (0..(n - 1))
  <2>1. \A k \in Nat, x \in S : k < f[x] => k \in 0..(n - 1)
    OBVIOUS
  <2> QED
    BY <2>1 DEF Units
<1>2. IsFiniteSet(0..(n - 1)) /\ Cardinality(0..(n - 1)) = n
    BY FS_Interval
<1>3. IsFiniteSet(S \X (0..(n - 1))) /\ Cardinality(S \X (0..(n - 1))) = Cardinality(S) * n
    BY <1>2, FS_Product
<1>4. Cardinality(Units(f, S)) <= Cardinality(S) * n
    BY <1>1, <1>3, FS_Subset
<1>5. SumFunctionOnSet(f, S) = Cardinality(Units(f, S))
    BY SumIsSize
<1>6. Cardinality(S) \in Nat
    BY FS_CardinalityType
<1> QED
  BY <1>4, <1>5, <1>6
=============================================================================
