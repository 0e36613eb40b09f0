---------------------------- MODULE SumTheorems ----------------------------
(***************************************************************************)
(* Sums over finite sets.  MapThenSumSet adds the values of a set one by   *)
(* one, in an order that CHOOSE settles, and is defined by recursion over  *)
(* subsets.  The laws below say that the order does not matter, that one   *)
(* summand can be taken out, changed, or left out when it is zero.         *)
(*                                                                         *)
(* Each is proved by looking at a smallest subset that breaks it.          *)
(***************************************************************************)
EXTENDS Integers, FiniteSets, FiniteSetsExt, FiniteSetTheorems,
        WellFoundedInduction, TLAPS

Sum(g, S) == MapThenSumSet(LAMBDA x : g[x], S)

\* The element that is added next.
First(S) == CHOOSE x \in S : TRUE

\* f adds up g on every subset of S.
Adds(f, g, S) ==
    f = [T \in SUBSET S |->
            IF T = {} THEN 0 ELSE g[First(T)] + f[T \ {First(T)}]]

-----------------------------------------------------------------------------
\* Of some subsets of a finite set, one contains no other.
LEMMA SmallestSubset ==
    ASSUME NEW S, IsFiniteSet(S), NEW B, B \subseteq SUBSET S, B # {}
    PROVE  \E T \in B : \A U \in B : U \subseteq T => U = T
<1> DEFINE R == StrictSubsetOrdering(S)
<1>1. FiniteSubsetsOf(S) = SUBSET S
  BY FS_FiniteSubsetsOfFinite
<1>2. IsWellFoundedOn(R, SUBSET S)
  BY <1>1, FS_StrictSubsetOrderingWellFounded
<1>3. PICK T \in B : \A U \in B : ~ (<<U, T>> \in R)
  <2> HIDE DEF R
  <2> QED  BY <1>2, WFMin
<1> QED  BY <1>3 DEF StrictSubsetOrdering

LEMMA FirstIsElement ==
    ASSUME NEW S, S # {}
    PROVE  First(S) \in S
  BY DEF First

\* What is added up is settled: two functions that add up g agree where both do.
LEMMA AddsIsUnique ==
    ASSUME NEW S, IsFiniteSet(S), NEW g, NEW A, NEW f, NEW h,
           Adds(f, g, S), Adds(h, g, A), NEW T, T \subseteq S, T \subseteq A
    PROVE  f[T] = h[T]
<1> DEFINE B == {U \in SUBSET S : U \subseteq A /\ f[U] # h[U]}
<1> SUFFICES ASSUME B # {} PROVE FALSE
  OBVIOUS
<1>1. PICK U \in B : \A W \in B : W \subseteq U => W = U
  <2> B \subseteq SUBSET S
    OBVIOUS
  <2> HIDE DEF B
  <2> QED  BY SmallestSubset
<1>2. f[U] = IF U = {} THEN 0 ELSE g[First(U)] + f[U \ {First(U)}]
  BY <1>1 DEF Adds
<1>3. h[U] = IF U = {} THEN 0 ELSE g[First(U)] + h[U \ {First(U)}]
  BY <1>1 DEF Adds
<1>4. U # {}
  BY <1>1, <1>2, <1>3
<1>5. U \ {First(U)} \notin B
  BY <1>1, <1>4, FirstIsElement
<1>6. f[U \ {First(U)}] = h[U \ {First(U)}]
  BY <1>1, <1>5
<1> QED  BY <1>1, <1>2, <1>3, <1>4, <1>6

\* ... and there is one.
LEMMA AddsExists ==
    ASSUME NEW S, IsFiniteSet(S), NEW g
    PROVE  \E f : Adds(f, g, S)
<1> DEFINE B == {U \in SUBSET S : ~ \E f : Adds(f, g, U)}
<1> SUFFICES ASSUME B # {} PROVE FALSE
  OBVIOUS
<1>1. PICK T \in B : \A W \in B : W \subseteq T => W = T
  <2> B \subseteq SUBSET S
    OBVIOUS
  <2> HIDE DEF B
  <2> QED  BY SmallestSubset
<1> DEFINE partial(U) == CHOOSE f : Adds(f, g, U)
<1>2. ASSUME NEW U \in SUBSET T, U # T
      PROVE  Adds(partial(U), g, U)
  <2>1. \E f : Adds(f, g, U)
    BY <1>1, <1>2
  <2> QED  BY <2>1
<1> DEFINE worth(U) == partial(U)[U]
           next(U) == IF U = {} THEN 0 ELSE g[First(U)] + worth(U \ {First(U)})
           F == [U \in SUBSET T |-> next(U)]
<1>3. ASSUME NEW U \in SUBSET T, U # T
      PROVE  worth(U) = next(U)
  <2>1. CASE U = {}
    <3> HIDE DEF partial
    <3> QED  BY <1>2, <2>1 DEF Adds
  <2>2. CASE U # {}
    <3> DEFINE W == U \ {First(U)}
    <3>1. W \in SUBSET T /\ W # T /\ W \subseteq U
      BY <1>3, <2>2
    <3>2. Adds(partial(U), g, U) /\ Adds(partial(W), g, W)
      <4> HIDE DEF partial, W
      <4> QED  BY <1>2, <1>3, <3>1
    <3>3. IsFiniteSet(U)
      BY <1>1, FS_Subset
    <3>4. partial(U)[W] = partial(W)[W]
      <4> HIDE DEF partial, W
      <4> QED  BY <3>1, <3>2, <3>3, AddsIsUnique
    <3>5. partial(U)[U] = g[First(U)] + partial(U)[W]
      <4> HIDE DEF partial
      <4> QED  BY <2>2, <3>2 DEF Adds
    <3> QED  BY <2>2, <3>4, <3>5
  <2> QED  BY <2>1, <2>2
<1>4. ASSUME NEW U \in SUBSET T
      PROVE  F[U] = IF U = {} THEN 0 ELSE g[First(U)] + F[U \ {First(U)}]
  <2>1. CASE U = {}
    BY <2>1
  <2>2. CASE U # {}
    <3> DEFINE W == U \ {First(U)}
    <3>1. W \in SUBSET T /\ W # T
      BY <1>4, <2>2, FirstIsElement
    <3>2. F[W] = worth(W)
      <4> HIDE DEF partial, worth, next, W
      <4> QED  BY <1>3, <3>1
    <3>3. F[U] = g[First(U)] + worth(W)
      <4> HIDE DEF partial, worth
      <4> QED  BY <2>2
    <3> QED  BY <2>2, <3>2, <3>3
  <2> QED  BY <2>1, <2>2
<1>5. Adds(F, g, T)
  <2> HIDE DEF next
  <2>1. F = [U \in SUBSET T |-> IF U = {} THEN 0 ELSE g[First(U)] + F[U \ {First(U)}]]
    <3>1. \A U \in SUBSET T : F[U] = IF U = {} THEN 0 ELSE g[First(U)] + F[U \ {First(U)}]
      BY <1>4
    <3>2. F = [U \in SUBSET T |-> F[U]]
      OBVIOUS
    <3> HIDE DEF F
    <3> QED  BY <3>1, <3>2
  <2> QED  BY <2>1 DEF Adds
<1> QED  BY <1>1, <1>5

\* A sum is what such a function says.
LEMMA SumIsWhatAdds ==
    ASSUME NEW S, IsFiniteSet(S), NEW g, NEW A, NEW f, Adds(f, g, A), S \subseteq A
    PROVE  Sum(g, S) = f[S]
<1> DEFINE h == CHOOSE f1 : Adds(f1, g, S)
<1>1. Adds(h, g, S)
  BY AddsExists
<1>2. Sum(g, S) = h[S]
  BY DEF Sum, MapThenSumSet, MapThenFoldSet, Adds, First
<1> QED
  <2> HIDE DEF h
  <2> QED  BY <1>1, <1>2, AddsIsUnique

-----------------------------------------------------------------------------
LEMMA SumOfEmpty == \A g : Sum(g, {}) = 0
<1> SUFFICES ASSUME NEW g PROVE Sum(g, {}) = 0
  OBVIOUS
<1>1. IsFiniteSet({})
  BY FS_EmptySet
<1>2. PICK f : Adds(f, g, {})
  BY <1>1, AddsExists
<1>3. f[{}] = 0
  BY <1>2 DEF Adds
<1> QED  BY <1>1, <1>2, <1>3, SumIsWhatAdds

LEMMA SumFirst ==
    ASSUME NEW S, IsFiniteSet(S), S # {}, NEW g
    PROVE  Sum(g, S) = g[First(S)] + Sum(g, S \ {First(S)})
<1> DEFINE T == S \ {First(S)}
<1>1. IsFiniteSet(T) /\ T \subseteq S
  BY FS_Subset
<1>2. PICK f : Adds(f, g, S)
  BY AddsExists
<1>3. f[S] = g[First(S)] + f[T]
  BY <1>2 DEF Adds
<1>4. Sum(g, S) = f[S] /\ Sum(g, T) = f[T]
  <2> HIDE DEF T
  <2> QED  BY <1>1, <1>2, SumIsWhatAdds
<1> QED  BY <1>3, <1>4

\* A sum of integers is an integer.
LEMMA SumIsInteger ==
    ASSUME NEW S, IsFiniteSet(S), NEW g, \A x \in S : g[x] \in Int
    PROVE  Sum(g, S) \in Int
<1> DEFINE B == {U \in SUBSET S : Sum(g, U) \notin Int}
<1> SUFFICES ASSUME B # {} PROVE FALSE
  OBVIOUS
<1>1. PICK U \in B : \A W \in B : W \subseteq U => W = U
  <2> B \subseteq SUBSET S
    OBVIOUS
  <2> HIDE DEF B
  <2> QED  BY SmallestSubset
<1>2. IsFiniteSet(U) /\ U \subseteq S
  BY <1>1, FS_Subset
<1>3. U # {}
  <2>1. Sum(g, {}) = 0
    BY SumOfEmpty
  <2>2. {} \notin B
    BY <2>1
  <2> QED  BY <1>1, <2>2
<1>4. First(U) \in U
  BY <1>3, FirstIsElement
<1>5. Sum(g, U \ {First(U)}) \in Int
  BY <1>1, <1>4
<1> QED  BY <1>1, <1>2, <1>3, <1>4, <1>5, SumFirst

\* Only the values on the set matter.
LEMMA SumOfSame ==
    ASSUME NEW S, IsFiniteSet(S), NEW g, NEW h, \A x \in S : g[x] = h[x]
    PROVE  Sum(g, S) = Sum(h, S)
<1> DEFINE B == {U \in SUBSET S : Sum(g, U) # Sum(h, U)}
<1> SUFFICES ASSUME B # {} PROVE FALSE
  OBVIOUS
<1>1. PICK U \in B : \A W \in B : W \subseteq U => W = U
  <2> B \subseteq SUBSET S
    OBVIOUS
  <2> HIDE DEF B
  <2> QED  BY SmallestSubset
<1>2. IsFiniteSet(U) /\ U \subseteq S
  BY <1>1, FS_Subset
<1>3. U # {}
  <2>1. Sum(g, {}) = 0 /\ Sum(h, {}) = 0
    BY SumOfEmpty
  <2> QED  BY <1>1, <2>1
<1>4. First(U) \in U
  BY <1>3, FirstIsElement
<1>5. Sum(g, U \ {First(U)}) = Sum(h, U \ {First(U)})
  BY <1>1, <1>4
<1>6. Sum(g, U) = g[First(U)] + Sum(g, U \ {First(U)})
  BY <1>2, <1>3, SumFirst
<1>7. Sum(h, U) = h[First(U)] + Sum(h, U \ {First(U)})
  BY <1>2, <1>3, SumFirst
<1> QED  BY <1>1, <1>2, <1>4, <1>5, <1>6, <1>7

\* Any summand may be the one that is added last.
LEMMA SumTakeOut ==
    ASSUME NEW S, IsFiniteSet(S), NEW g, \A y \in S : g[y] \in Int, NEW x \in S
    PROVE  Sum(g, S) = g[x] + Sum(g, S \ {x})
<1> DEFINE B == {U \in SUBSET S : \E y \in U : Sum(g, U) # g[y] + Sum(g, U \ {y})}
<1> SUFFICES ASSUME B # {} PROVE FALSE
  OBVIOUS
<1>1. PICK U \in B : \A W \in B : W \subseteq U => W = U
  <2> B \subseteq SUBSET S
    OBVIOUS
  <2> HIDE DEF B
  <2> QED  BY SmallestSubset
<1>2. IsFiniteSet(U) /\ U \subseteq S
  BY <1>1, FS_Subset
<1>3. PICK y \in U : Sum(g, U) # g[y] + Sum(g, U \ {y})
  BY <1>1
<1> DEFINE z == First(U)
<1>4. z \in U /\ Sum(g, U) = g[z] + Sum(g, U \ {z})
  BY <1>2, <1>3, FirstIsElement, SumFirst
<1>5. y # z
  BY <1>3, <1>4
<1> HIDE DEF z
<1>6. Sum(g, U \ {z}) = g[y] + Sum(g, (U \ {z}) \ {y})
  <2>1. U \ {z} \notin B /\ y \in U \ {z}
    BY <1>1, <1>4, <1>5
  <2> QED  BY <1>2, <2>1
<1>7. Sum(g, U \ {y}) = g[z] + Sum(g, (U \ {y}) \ {z})
  <2>1. U \ {y} \notin B /\ z \in U \ {y}
    BY <1>1, <1>3, <1>4, <1>5
  <2> QED  BY <1>2, <2>1
<1>8. (U \ {z}) \ {y} = (U \ {y}) \ {z}
  OBVIOUS
<1>9. /\ IsFiniteSet((U \ {y}) \ {z})
      /\ \A v \in (U \ {y}) \ {z} : g[v] \in Int
  BY <1>2, FS_Subset
<1>10. Sum(g, (U \ {y}) \ {z}) \in Int
  BY <1>9, SumIsInteger
<1>11. g[y] \in Int /\ g[z] \in Int
  BY <1>2, <1>3, <1>4
<1>12. Sum(g, U) = g[z] + (g[y] + Sum(g, (U \ {y}) \ {z}))
  BY <1>4, <1>6, <1>8
<1>13. g[y] + Sum(g, U \ {y}) = g[y] + (g[z] + Sum(g, (U \ {y}) \ {z}))
  BY <1>7
<1> QED  BY <1>3, <1>10, <1>11, <1>12, <1>13

\* A summand that changes changes the sum by as much.
LEMMA SumUpdate ==
    ASSUME NEW S, IsFiniteSet(S), NEW g, NEW h, NEW x \in S,
           \A y \in S : g[y] \in Int /\ h[y] \in Int,
           \A y \in S \ {x} : g[y] = h[y]
    PROVE  Sum(h, S) = Sum(g, S) - g[x] + h[x]
<1>1. IsFiniteSet(S \ {x})
  BY FS_Subset
<1>2. Sum(g, S) = g[x] + Sum(g, S \ {x})
  BY SumTakeOut
<1>3. Sum(h, S) = h[x] + Sum(h, S \ {x})
  BY SumTakeOut
<1>4. Sum(g, S \ {x}) = Sum(h, S \ {x})
  BY <1>1, SumOfSame
<1>5. Sum(g, S \ {x}) \in Int
  BY <1>1, SumIsInteger
<1> QED  BY <1>2, <1>3, <1>4, <1>5

\* A sum of zeros is zero.
LEMMA SumOfZeros ==
    ASSUME NEW S, IsFiniteSet(S), NEW g, \A x \in S : g[x] = 0
    PROVE  Sum(g, S) = 0
<1> DEFINE B == {U \in SUBSET S : Sum(g, U) # 0}
<1> SUFFICES ASSUME B # {} PROVE FALSE
  OBVIOUS
<1>1. PICK U \in B : \A W \in B : W \subseteq U => W = U
  <2> B \subseteq SUBSET S
    OBVIOUS
  <2> HIDE DEF B
  <2> QED  BY SmallestSubset
<1>2. IsFiniteSet(U) /\ U \subseteq S
  BY <1>1, FS_Subset
<1>3. U # {}
  <2>1. Sum(g, {}) = 0
    BY SumOfEmpty
  <2> QED  BY <1>1, <2>1
<1>4. First(U) \in U
  BY <1>3, FirstIsElement
<1>5. Sum(g, U \ {First(U)}) = 0
  BY <1>1, <1>4
<1> QED  BY <1>1, <1>2, <1>3, <1>4, <1>5, SumFirst

\* Zeros may be left out.
LEMMA SumWithoutZeros ==
    ASSUME NEW S, IsFiniteSet(S), NEW g, \A x \in S : g[x] \in Int,
           NEW T, T \subseteq S, \A x \in S \ T : g[x] = 0
    PROVE  Sum(g, T) = Sum(g, S)
<1> DEFINE B == {U \in SUBSET S : Sum(g, U \cap T) # Sum(g, U)}
<1> SUFFICES ASSUME B # {} PROVE FALSE
  OBVIOUS
<1>1. PICK U \in B : \A W \in B : W \subseteq U => W = U
  <2> B \subseteq SUBSET S
    OBVIOUS
  <2> HIDE DEF B
  <2> QED  BY SmallestSubset
<1>2. IsFiniteSet(U) /\ U \subseteq S
  BY <1>1, FS_Subset
<1>3. U # {}
  <2>1. Sum(g, {}) = 0
    BY SumOfEmpty
  <2> QED  BY <1>1, <2>1
<1>4. PICK x \in U : TRUE
  BY <1>3
<1>5. Sum(g, (U \ {x}) \cap T) = Sum(g, U \ {x})
  BY <1>1
<1>6. Sum(g, U) = g[x] + Sum(g, U \ {x})
  BY <1>2, SumTakeOut
<1>7. /\ IsFiniteSet(U \cap T) /\ IsFiniteSet(U \ {x})
      /\ \A y \in U \cap T : g[y] \in Int
      /\ \A y \in U \ {x} : g[y] \in Int
  BY <1>2, FS_Subset
<1>8. Sum(g, U \ {x}) \in Int
  BY <1>7, SumIsInteger
<1>9. CASE x \in T
  <2>1. Sum(g, U \cap T) = g[x] + Sum(g, (U \cap T) \ {x})
    BY <1>7, <1>9, SumTakeOut
  <2>2. (U \cap T) \ {x} = (U \ {x}) \cap T
    OBVIOUS
  <2> QED  BY <1>1, <1>5, <1>6, <2>1, <2>2
<1>10. CASE x \notin T
  <2>1. (U \ {x}) \cap T = U \cap T /\ g[x] = 0
    BY <1>2, <1>10
  <2> QED  BY <1>1, <1>5, <1>6, <1>8, <2>1
<1>11. Sum(g, U \cap T) = Sum(g, U)
  BY <1>9, <1>10
<1> QED  BY <1>1, <1>11

\* Larger summands, larger sum.
LEMMA SumIsMonotonic ==
    ASSUME NEW S, IsFiniteSet(S), NEW g, NEW h,
           \A x \in S : g[x] \in Int /\ h[x] \in Int /\ g[x] <= h[x]
    PROVE  Sum(g, S) <= Sum(h, S)
<1> DEFINE B == {U \in SUBSET S : ~ (Sum(g, U) <= Sum(h, U))}
<1> SUFFICES ASSUME B # {} PROVE FALSE
  OBVIOUS
<1>1. PICK U \in B : \A W \in B : W \subseteq U => W = U
  <2> B \subseteq SUBSET S
    OBVIOUS
  <2> HIDE DEF B
  <2> QED  BY SmallestSubset
<1>2. IsFiniteSet(U) /\ U \subseteq S
  BY <1>1, FS_Subset
<1>3. U # {}
  <2>1. Sum(g, {}) = 0 /\ Sum(h, {}) = 0
    BY SumOfEmpty
  <2>2. {} \notin B
    BY <2>1
  <2> QED  BY <1>1, <2>2
<1>4. First(U) \in U
  BY <1>3, FirstIsElement
<1>5. Sum(g, U \ {First(U)}) <= Sum(h, U \ {First(U)})
  BY <1>1, <1>4
<1>6. /\ IsFiniteSet(U \ {First(U)})
      /\ \A x \in U \ {First(U)} : g[x] \in Int /\ h[x] \in Int
  BY <1>2, FS_Subset
<1>7. Sum(g, U \ {First(U)}) \in Int /\ Sum(h, U \ {First(U)}) \in Int
  BY <1>6, SumIsInteger
<1>8. Sum(g, U) = g[First(U)] + Sum(g, U \ {First(U)})
  BY <1>2, <1>3, SumFirst
<1>9. Sum(h, U) = h[First(U)] + Sum(h, U \ {First(U)})
  BY <1>2, <1>3, SumFirst
<1>10. g[First(U)] \in Int /\ h[First(U)] \in Int /\ g[First(U)] <= h[First(U)]
  BY <1>2, <1>4
<1>11. Sum(g, U) <= Sum(h, U)
  BY <1>5, <1>7, <1>8, <1>9, <1>10
<1> QED  BY <1>1, <1>11

\* A sum is at most its largest summand, as often as there are summands.
LEMMA SumIsBounded ==
    ASSUME NEW S, IsFiniteSet(S), NEW g, NEW m \in Int,
           \A x \in S : g[x] \in Int /\ g[x] <= m
    PROVE  Sum(g, S) <= Cardinality(S) * m
<1> DEFINE B == {U \in SUBSET S : ~ (Sum(g, U) <= Cardinality(U) * m)}
<1> SUFFICES ASSUME B # {} PROVE FALSE
  OBVIOUS
<1>1. PICK U \in B : \A W \in B : W \subseteq U => W = U
  <2> B \subseteq SUBSET S
    OBVIOUS
  <2> HIDE DEF B
  <2> QED  BY SmallestSubset
<1>2. IsFiniteSet(U) /\ U \subseteq S
  BY <1>1, FS_Subset
<1>3. U # {}
  <2>1. Sum(g, {}) = 0 /\ Cardinality({}) = 0
    BY SumOfEmpty, FS_EmptySet
  <2>2. {} \notin B
    BY <2>1
  <2> QED  BY <1>1, <2>2
<1> DEFINE x == First(U)
           W == U \ {x}
<1>4. x \in U
  BY <1>3, FirstIsElement
<1>5. Sum(g, W) <= Cardinality(W) * m
  BY <1>1, <1>4
<1>6. /\ IsFiniteSet(W) /\ Cardinality(W) = Cardinality(U) - 1
      /\ Cardinality(U) \in Nat
  BY <1>2, <1>4, FS_RemoveElement, FS_CardinalityType
<1>7. Sum(g, W) \in Int
  <2>1. \A y \in W : g[y] \in Int
    BY <1>2
  <2> HIDE DEF W
  <2> QED  BY <1>6, <2>1, SumIsInteger
<1>8. Sum(g, U) = g[x] + Sum(g, W)
  BY <1>2, <1>3, SumFirst
<1>9. g[x] \in Int /\ g[x] <= m
  BY <1>2, <1>4
<1> HIDE DEF x, W
<1> DEFINE k == Cardinality(W)
<1>10. k \in Int /\ Cardinality(U) = k + 1
  BY <1>6
<1> HIDE DEF k
<1>11. (k + 1) * m = k * m + m
  BY <1>10
<1>12. k * m \in Int
  BY <1>10
<1>13. Sum(g, W) <= k * m
  BY <1>5 DEF k
<1>14. Sum(g, U) <= k * m + m
  BY <1>7, <1>8, <1>9, <1>12, <1>13
<1>15. Sum(g, U) <= Cardinality(U) * m
  BY <1>10, <1>11, <1>14
<1> QED  BY <1>1, <1>15

\* Among finitely many numbers one is the largest.
LEMMA LargestExists ==
    ASSUME NEW S, IsFiniteSet(S)
    PROVE  S # {} /\ S \subseteq Int => \E m \in S : \A x \in S : x <= m
<1> DEFINE HasLargest(U) == \E m \in U : \A x \in U : x <= m
           B == {U \in SUBSET S : U # {} /\ U \subseteq Int /\ ~ HasLargest(U)}
<1> SUFFICES ASSUME B # {} PROVE FALSE
  OBVIOUS
<1>1. PICK U \in B : \A W \in B : W \subseteq U => W = U
  <2> B \subseteq SUBSET S
    OBVIOUS
  <2> HIDE DEF B
  <2> QED  BY SmallestSubset
<1>2. U # {} /\ U \subseteq Int /\ ~ HasLargest(U)
  BY <1>1
<1>3. PICK x \in U : TRUE
  <2> HIDE DEF HasLargest, B
  <2> QED  BY <1>2
<1>4. CASE U \ {x} = {}
  <2>1. \A y \in U : y <= x
    BY <1>2, <1>3, <1>4
  <2>2. HasLargest(U)
    BY <2>1
  <2> QED  BY <1>2, <2>2
<1>5. CASE U \ {x} # {}
  <2>1. HasLargest(U \ {x})
    <3> HIDE DEF HasLargest
    <3> QED  BY <1>1, <1>2, <1>3, <1>5
  <2>2. PICK m \in U \ {x} : \A y \in U \ {x} : y <= m
    BY <2>1
  <2>3. x \in Int /\ m \in Int /\ \A y \in U : y \in Int
    BY <1>2, <2>2
  <2>4. (\A y \in U : y <= m) \/ (\A y \in U : y <= x)
    BY <2>2, <2>3
  <2>5. HasLargest(U)
    BY <2>2, <2>4
  <2> QED  BY <1>2, <2>5
<1> QED  BY <1>4, <1>5

LEMMA FiniteHasMax ==
    ASSUME NEW S, IsFiniteSet(S), S \subseteq Int, S # {}
    PROVE  Max(S) \in S /\ \A x \in S : x <= Max(S)
<1>1. \E m \in S : \A x \in S : x <= m
  BY LargestExists
<1>2. \E m \in S : \A x \in S : m >= x
  BY <1>1
<1> QED  BY <1>2 DEF Max

\* A function takes finitely many values on a finite set.
LEMMA FiniteImage ==
    ASSUME NEW S, IsFiniteSet(S), NEW f
    PROVE  IsFiniteSet({f[x] : x \in S})
<1> DEFINE T == {f[x] : x \in S}
           h == [x \in S |-> f[x]]
<1>1. h \in Surjection(S, T)
  BY DEF Surjection
<1> HIDE DEF h, T
<1> QED  BY <1>1, FS_Surjection DEF T

\* ... and no more of them than the set has elements.
LEMMA ImageIsNoLarger ==
    ASSUME NEW S, IsFiniteSet(S), NEW f
    PROVE  Cardinality({f[x] : x \in S}) <= Cardinality(S)
<1> DEFINE T == {f[x] : x \in S}
           h == [x \in S |-> f[x]]
<1>1. h \in Surjection(S, T)
  BY DEF Surjection
<1> HIDE DEF h, T
<1> QED  BY <1>1, FS_Surjection DEF T

\* The sum of sums is the sum of both.
LEMMA SumOfSums ==
    ASSUME NEW S, IsFiniteSet(S), NEW f, NEW g, NEW h,
           \A x \in S : g[x] \in Int /\ h[x] \in Int /\ f[x] = g[x] + h[x]
    PROVE  Sum(f, S) = Sum(g, S) + Sum(h, S)
<1> DEFINE B == {U \in SUBSET S : Sum(f, U) # Sum(g, U) + Sum(h, U)}
<1> SUFFICES ASSUME B # {} PROVE FALSE
  OBVIOUS
<1>1. PICK U \in B : \A W \in B : W \subseteq U => W = U
  <2> B \subseteq SUBSET S
    OBVIOUS
  <2> HIDE DEF B
  <2> QED  BY SmallestSubset
<1>2. IsFiniteSet(U) /\ U \subseteq S
  BY <1>1, FS_Subset
<1>3. U # {}
  <2>1. Sum(f, {}) = 0 /\ Sum(g, {}) = 0 /\ Sum(h, {}) = 0
    BY SumOfEmpty
  <2>2. {} \notin B
    BY <2>1
  <2> QED  BY <1>1, <2>2
<1>4. First(U) \in U
  BY <1>3, FirstIsElement
<1> DEFINE V == U \ {First(U)}
<1>5. Sum(f, V) = Sum(g, V) + Sum(h, V)
  BY <1>1, <1>4
<1>6. IsFiniteSet(V) /\ \A x \in V : g[x] \in Int /\ h[x] \in Int
  BY <1>2, FS_Subset
<1>7. Sum(g, V) \in Int /\ Sum(h, V) \in Int
  <2> HIDE DEF V
  <2> QED  BY <1>6, SumIsInteger
<1>8. /\ Sum(f, U) = f[First(U)] + Sum(f, V)
      /\ Sum(g, U) = g[First(U)] + Sum(g, V)
      /\ Sum(h, U) = h[First(U)] + Sum(h, V)
  BY <1>2, <1>3, SumFirst
<1>9. g[First(U)] \in Int /\ h[First(U)] \in Int /\ f[First(U)] = g[First(U)] + h[First(U)]
  BY <1>2, <1>4
<1>10. Sum(f, U) = Sum(g, U) + Sum(h, U)
  <2> HIDE DEF V
  <2> QED  BY <1>5, <1>7, <1>8, <1>9
<1> QED  BY <1>1, <1>10

\* A sum over part of a set: as many elements as that part has, each at most m.
LEMMA SumOfPart ==
    ASSUME NEW S, IsFiniteSet(S), NEW T, T \subseteq S, NEW m \in Int,
           NEW g, \A x \in S : g[x] = IF x \in T THEN m ELSE 0
    PROVE  Sum(g, S) <= Cardinality(T) * m
<1>1. IsFiniteSet(T)
  BY FS_Subset
<1>2. /\ \A x \in S : g[x] \in Int
      /\ \A x \in S \ T : g[x] = 0
      /\ \A x \in T : g[x] \in Int /\ g[x] <= m
  OBVIOUS
<1>3. Sum(g, T) = Sum(g, S)
  BY <1>2, SumWithoutZeros
<1>4. Sum(g, T) <= Cardinality(T) * m
  BY <1>1, <1>2, SumIsBounded
<1> QED  BY <1>3, <1>4
=============================================================================
