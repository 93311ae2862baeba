----------------------------- MODULE SumTheorems -----------------------------
(***************************************************************************)
(* Facts about sums over finite sets, used by the proofs about money: the  *)
(* sum of f over S, SumFunctionOnSet(f, S), for integer-valued f.          *)
(***************************************************************************)
EXTENDS Integers, FiniteSets, Functions, FiniteSetTheorems, TLAPS

-----------------------------------------------------------------------------
(* Induction on the subsets of a finite set.                               *)

\* A collection that holds a set whenever it holds its proper subsets holds
\* every subset of a finite set.
LEMMA SubsetInduction ==
    ASSUME NEW S, IsFiniteSet(S), NEW G,
           \A T \in SUBSET S : (\A x \in T : T \ {x} \in G) => T \in G
    PROVE  \A T \in SUBSET S : T \in G
<1> DEFINE Bad == {T \in SUBSET S : T \notin G}
<1> SUFFICES ASSUME Bad # {} PROVE FALSE
  OBVIOUS
<1>1. IsWellFoundedOn(StrictSubsetOrdering(S), SUBSET S)
  <2>1. FiniteSubsetsOf(S) = SUBSET S
    BY FS_FiniteSubsetsOfFinite
  <2>2. IsWellFoundedOn(StrictSubsetOrdering(S), FiniteSubsetsOf(S))
    BY FS_StrictSubsetOrderingWellFounded
  <2> QED BY <2>1, <2>2
<1>2. \E T \in Bad : \A U \in Bad : <<U, T>> \notin StrictSubsetOrdering(S)
  <2>1. Bad \subseteq SUBSET S
    OBVIOUS
  <2> HIDE DEF Bad
  <2> QED BY <1>1, <2>1, WFMin
<1>3. PICK T \in Bad : \A U \in Bad : <<U, T>> \notin StrictSubsetOrdering(S)
  BY <1>2
<1>4. ASSUME NEW x \in T PROVE T \ {x} \in G
  <2>1. T \ {x} \in SUBSET S /\ T \ {x} # T
    OBVIOUS
  <2>2. <<T \ {x}, T>> \in StrictSubsetOrdering(S)
    BY <2>1 DEF StrictSubsetOrdering
  <2> QED BY <2>1, <2>2, <1>3
<1> QED BY <1>4

-----------------------------------------------------------------------------
(* The recursion.                                                          *)

\* One unfolding of the sum: the element CHOOSE gives, then the others.
Unfold(f, g, T) ==
    IF T = {} THEN 0
    ELSE LET x == CHOOSE x \in T : TRUE IN f[x] + g[T \ {x}]

\* The recursive function behind the sum over S.
Rec(f, S) == CHOOSE g : g = [T \in SUBSET S |-> Unfold(f, g, T)]

LEMMA SumIsRec == \A f, S : SumFunctionOnSet(f, S) = Rec(f, S)[S]
BY DEF SumFunctionOnSet, FoldFunctionOnSet, MapThenFoldSet, Unfold, Rec

\* The recursive function of the sum exists on the subsets of a finite set:
\* G collects the sets up to which some g satisfies the equation.
LEMMA RecursionExists ==
    ASSUME NEW f, NEW S, IsFiniteSet(S)
    PROVE  \E g : g = [T \in SUBSET S |-> Unfold(f, g, T)]
<1> DEFINE Solves(g, n) == \A T \in SUBSET S : Cardinality(T) <= n => g[T] = Unfold(f, g, T)
           G == {U \in SUBSET S : \E g : Solves(g, Cardinality(U))}
<1>card. \A T \in SUBSET S : Cardinality(T) \in Nat /\ IsFiniteSet(T)
  BY FS_Subset, FS_CardinalityType
<1>less. \A T \in SUBSET S : \A x \in T : Cardinality(T \ {x}) = Cardinality(T) - 1
  BY <1>card, FS_RemoveElement
<1>zero. \A T \in SUBSET S : Cardinality(T) = 0 <=> T = {}
  BY <1>card, FS_EmptySet
<1>choose. \A T : T # {} => (CHOOSE x \in T : TRUE) \in T
  OBVIOUS
<1>1. ASSUME NEW U \in SUBSET S, \A x \in U : U \ {x} \in G PROVE U \in G
  <2>1. CASE U = {}
    <3>1. Solves([T \in SUBSET S |-> 0], 0)
      BY <1>card, <1>zero DEF Unfold
    <3> QED BY <3>1, <2>1, <1>zero
  <2>2. CASE U # {}
    <3> DEFINE n == Cardinality(U)
    <3>1. PICK x \in U : TRUE
      BY <2>2
    <3>2. n \in Nat /\ Cardinality(U \ {x}) = n - 1
      BY <1>card, <1>less
    <3>3. PICK g : Solves(g, n - 1)
      BY <1>1, <3>2
    <3> DEFINE h == [T \in SUBSET S |-> IF Cardinality(T) <= n - 1 THEN g[T] ELSE Unfold(f, g, T)]
    <3> HIDE DEF n
    <3>4. ASSUME NEW T \in SUBSET S, Cardinality(T) <= n PROVE h[T] = Unfold(f, h, T)
      <4>1. CASE T = {}
        BY <4>1, <3>2, <3>3, <1>zero DEF Unfold
      <4>2. CASE T # {}
        <5> DEFINE y == CHOOSE y \in T : TRUE
        <5>1. y \in T /\ Cardinality(T \ {y}) <= n - 1 /\ T \ {y} \in SUBSET S
          <6>1. y \in T
            BY <4>2, <1>choose
          <6>2. Cardinality(T \ {y}) = Cardinality(T) - 1
            BY <6>1, <1>less
          <6> QED BY <6>1, <6>2, <3>2, <3>4, <1>card
        <5>2. h[T \ {y}] = g[T \ {y}]
          BY <5>1
        <5>3. h[T] = Unfold(f, g, T)
          BY <3>3
        <5> QED BY <4>2, <5>2, <5>3 DEF Unfold
      <4> QED BY <4>1, <4>2
    <3>5. Solves(h, n)
      BY <3>4
    <3> QED BY <3>5 DEF n
  <2> QED BY <2>1, <2>2
<1>2. S \in G
  <2> HIDE DEF G
  <2> QED BY <1>1, SubsetInduction
<1>3. PICK g : Solves(g, Cardinality(S))
  BY <1>2
<1> DEFINE h == [T \in SUBSET S |-> g[T]]
<1>4. ASSUME NEW T \in SUBSET S PROVE h[T] = Unfold(f, h, T)
  <2>1. Cardinality(T) <= Cardinality(S)
    BY FS_Subset
  <2>2. g[T] = Unfold(f, g, T)
    BY <1>3, <2>1
  <2>3. CASE T = {}
    BY <2>2, <2>3 DEF Unfold
  <2>4. CASE T # {}
    <3>1. h[T \ {CHOOSE y \in T : TRUE}] = g[T \ {CHOOSE y \in T : TRUE}]
      OBVIOUS
    <3> QED BY <2>2, <2>4, <3>1 DEF Unfold
  <2> QED BY <2>3, <2>4
<1>5. h = [T \in SUBSET S |-> Unfold(f, h, T)]
  <2> HIDE DEF h
  <2>1. h = [T \in SUBSET S |-> h[T]]
    BY DEF h
  <2> QED BY <2>1, <1>4
<1> QED BY <1>5

LEMMA RecEquation ==
    ASSUME NEW f, NEW S, IsFiniteSet(S), NEW T \in SUBSET S
    PROVE  Rec(f, S)[T] = Unfold(f, Rec(f, S), T)
<1>1. Rec(f, S) = [U \in SUBSET S |-> Unfold(f, Rec(f, S), U)]
  BY RecursionExists DEF Rec
<1> QED BY <1>1

\* The sum over a subset does not depend on the set it is a subset of.
LEMMA RecLocal ==
    ASSUME NEW f, NEW S, IsFiniteSet(S)
    PROVE  \A T, V \in SUBSET S : T \subseteq V => Rec(f, V)[T] = Rec(f, T)[T]
<1> DEFINE G == {T \in SUBSET S : \A V \in SUBSET S : T \subseteq V => Rec(f, V)[T] = Rec(f, T)[T]}
<1>1. ASSUME NEW T \in SUBSET S, \A x \in T : T \ {x} \in G PROVE T \in G
  <2> SUFFICES ASSUME NEW V \in SUBSET S, T \subseteq V PROVE Rec(f, V)[T] = Rec(f, T)[T]
    OBVIOUS
  <2>1. IsFiniteSet(T) /\ IsFiniteSet(V)
    BY FS_Subset
  <2>2. Rec(f, V)[T] = Unfold(f, Rec(f, V), T) /\ Rec(f, T)[T] = Unfold(f, Rec(f, T), T)
    BY <2>1, RecEquation
  <2>3. CASE T = {}
    BY <2>2, <2>3 DEF Unfold
  <2>4. CASE T # {}
    <3>1. PICK y \in T : y = CHOOSE x \in T : TRUE
      BY <2>4
    <3>2. Rec(f, V)[T \ {y}] = Rec(f, T)[T \ {y}]
      BY <1>1
    <3> QED BY <2>2, <2>4, <3>1, <3>2 DEF Unfold
  <2> QED BY <2>3, <2>4
<1>2. \A T \in SUBSET S : T \in G
  <2> HIDE DEF G
  <2> QED BY <1>1, SubsetInduction
<1> QED BY <1>2

-----------------------------------------------------------------------------
(* Sums.                                                                   *)

LEMMA SumEmpty == \A f : SumFunctionOnSet(f, {}) = 0
BY SumIsRec, RecEquation, FS_EmptySet DEF Unfold

LEMMA SumFirst ==
    ASSUME NEW f, NEW S, IsFiniteSet(S), S # {}
    PROVE  \E x \in S : SumFunctionOnSet(f, S) = f[x] + SumFunctionOnSet(f, S \ {x})
<1>1. PICK y \in S : y = CHOOSE x \in S : TRUE
  OBVIOUS
<1>2. Rec(f, S)[S] = f[y] + Rec(f, S)[S \ {y}]
  <2>1. Rec(f, S)[S] = Unfold(f, Rec(f, S), S)
    BY RecEquation
  <2> QED BY <1>1, <2>1 DEF Unfold
<1>3. Rec(f, S)[S \ {y}] = Rec(f, S \ {y})[S \ {y}]
  BY RecLocal
<1> QED BY <1>2, <1>3, SumIsRec

LEMMA SumInt ==
    ASSUME NEW f, NEW S, IsFiniteSet(S), \A x \in S : f[x] \in Int
    PROVE  SumFunctionOnSet(f, S) \in Int
<1> DEFINE G == {T \in SUBSET S : SumFunctionOnSet(f, T) \in Int}
<1>1. ASSUME NEW T \in SUBSET S, \A x \in T : T \ {x} \in G PROVE T \in G
  <2>1. IsFiniteSet(T)
    BY FS_Subset
  <2>2. CASE T = {}
    BY <2>2, SumEmpty
  <2>3. CASE T # {}
    <3>1. PICK x \in T : SumFunctionOnSet(f, T) = f[x] + SumFunctionOnSet(f, T \ {x})
      BY <2>1, <2>3, SumFirst
    <3> QED BY <1>1, <3>1
  <2> QED BY <2>2, <2>3
<1>2. \A T \in SUBSET S : T \in G
  <2> HIDE DEF G
  <2> QED BY <1>1, SubsetInduction
<1> QED BY <1>2

\* Any element may be taken out of a sum.
LEMMA SumRemove ==
    ASSUME NEW f, NEW S, IsFiniteSet(S), \A x \in S : f[x] \in Int, NEW y \in S
    PROVE  SumFunctionOnSet(f, S) = f[y] + SumFunctionOnSet(f, S \ {y})
<1> DEFINE Sum(T) == SumFunctionOnSet(f, T)
           G == {T \in SUBSET S : \A z \in T : Sum(T) = f[z] + Sum(T \ {z})}
<1>1. ASSUME NEW T \in SUBSET S, \A x \in T : T \ {x} \in G PROVE T \in G
  <2> SUFFICES ASSUME NEW z \in T PROVE Sum(T) = f[z] + Sum(T \ {z})
    OBVIOUS
  <2>1. IsFiniteSet(T)
    BY FS_Subset
  <2>2. PICK x \in T : Sum(T) = f[x] + Sum(T \ {x})
    BY <2>1, SumFirst
  <2>3. CASE x = z
    BY <2>2, <2>3
  <2>4. CASE x # z
    <3>1. Sum(T \ {x}) = f[z] + Sum((T \ {x}) \ {z})
      BY <1>1, <2>4
    <3>2. Sum(T \ {z}) = f[x] + Sum((T \ {z}) \ {x})
      BY <1>1, <2>4
    <3>3. (T \ {x}) \ {z} = (T \ {z}) \ {x}
      OBVIOUS
    <3>4. PICK r \in Int : r = Sum((T \ {x}) \ {z})
      <4>1. IsFiniteSet((T \ {x}) \ {z})
        BY <2>1, FS_Subset
      <4> QED BY <4>1, SumInt
    <3>5. PICK m, n \in Int : m = f[x] /\ n = f[z]
      OBVIOUS
    <3>6. Sum(T) = m + (n + r) /\ Sum(T \ {z}) = m + r
      BY <2>2, <3>1, <3>2, <3>3, <3>4, <3>5
    <3> QED BY <3>5, <3>6
  <2> QED BY <2>3, <2>4
<1>2. \A T \in SUBSET S : T \in G
  <2> HIDE DEF G
  <2> QED BY <1>1, SubsetInduction
<1> QED BY <1>2

LEMMA SumAdd ==
    ASSUME NEW f, NEW S, IsFiniteSet(S), NEW y, y \notin S,
           \A x \in S \union {y} : f[x] \in Int
    PROVE  SumFunctionOnSet(f, S \union {y}) = f[y] + SumFunctionOnSet(f, S)
<1>1. IsFiniteSet(S \union {y}) /\ (S \union {y}) \ {y} = S
  BY FS_AddElement
<1>2. SumFunctionOnSet(f, S \union {y}) = f[y] + SumFunctionOnSet(f, (S \union {y}) \ {y})
  BY <1>1, SumRemove
<1> QED BY <1>1, <1>2

\* The sum of h = f + g, element by element, is the sum of the sums.
LEMMA SumOfSums ==
    ASSUME NEW f, NEW g, NEW h, NEW S, IsFiniteSet(S),
           \A x \in S : f[x] \in Int /\ g[x] \in Int /\ h[x] = f[x] + g[x]
    PROVE  SumFunctionOnSet(h, S) = SumFunctionOnSet(f, S) + SumFunctionOnSet(g, S)
<1> DEFINE G == {T \in SUBSET S :
                    SumFunctionOnSet(h, T) = SumFunctionOnSet(f, T) + SumFunctionOnSet(g, T)}
<1>1. ASSUME NEW T \in SUBSET S, \A x \in T : T \ {x} \in G PROVE T \in G
  <2>1. CASE T = {}
    BY <2>1, SumEmpty
  <2>2. CASE T # {}
    <3>1. PICK y \in T : TRUE
      BY <2>2
    <3>2. IsFiniteSet(T) /\ IsFiniteSet(T \ {y})
      BY FS_Subset
    <3>3. PICK a, b \in Int : a = SumFunctionOnSet(f, T \ {y}) /\ b = SumFunctionOnSet(g, T \ {y})
      BY <3>2, SumInt
    <3>4. PICK m, n \in Int : m = f[y] /\ n = g[y] /\ h[y] = m + n
      OBVIOUS
    <3>5. SumFunctionOnSet(f, T) = m + a /\ SumFunctionOnSet(g, T) = n + b
      BY <3>2, <3>3, <3>4, SumRemove
    <3>6. SumFunctionOnSet(h, T) = (m + n) + (a + b)
      <4>1. SumFunctionOnSet(h, T) = h[y] + SumFunctionOnSet(h, T \ {y})
        BY <3>2, SumRemove
      <4> QED BY <4>1, <1>1, <3>3, <3>4
    <3> QED BY <3>5, <3>6
  <2> QED BY <2>1, <2>2
<1>2. \A T \in SUBSET S : T \in G
  <2> HIDE DEF G
  <2> QED BY <1>1, SubsetInduction
<1> QED BY <1>2

\* A sum is monotonic in the summands.
LEMMA SumMonotone ==
    ASSUME NEW f, NEW g, NEW S, IsFiniteSet(S),
           \A x \in S : f[x] \in Int /\ g[x] \in Int /\ f[x] <= g[x]
    PROVE  SumFunctionOnSet(f, S) <= SumFunctionOnSet(g, S)
<1> DEFINE G == {T \in SUBSET S : SumFunctionOnSet(f, T) <= SumFunctionOnSet(g, T)}
<1>1. ASSUME NEW T \in SUBSET S, \A x \in T : T \ {x} \in G PROVE T \in G
  <2>1. CASE T = {}
    BY <2>1, SumEmpty
  <2>2. CASE T # {}
    <3>1. PICK y \in T : TRUE
      BY <2>2
    <3>2. IsFiniteSet(T) /\ IsFiniteSet(T \ {y})
      BY FS_Subset
    <3>3. PICK a, b \in Int : a = SumFunctionOnSet(f, T \ {y}) /\ b = SumFunctionOnSet(g, T \ {y})
      BY <3>2, SumInt
    <3>4. SumFunctionOnSet(f, T) = f[y] + a /\ SumFunctionOnSet(g, T) = g[y] + b
      BY <3>2, <3>3, SumRemove
    <3>5. a <= b
      BY <1>1, <3>3
    <3> QED BY <3>3, <3>4, <3>5
  <2> QED BY <2>1, <2>2
<1>2. \A T \in SUBSET S : T \in G
  <2> HIDE DEF G
  <2> QED BY <1>1, SubsetInduction
<1> QED BY <1>2

LEMMA SumSame ==
    ASSUME NEW f, NEW g, NEW S, IsFiniteSet(S), \A x \in S : f[x] \in Int /\ f[x] = g[x]
    PROVE  SumFunctionOnSet(f, S) = SumFunctionOnSet(g, S)
<1>1. SumFunctionOnSet(f, S) <= SumFunctionOnSet(g, S)
  BY SumMonotone
<1>2. SumFunctionOnSet(g, S) <= SumFunctionOnSet(f, S)
  BY SumMonotone
<1>3. SumFunctionOnSet(f, S) \in Int /\ SumFunctionOnSet(g, S) \in Int
  BY SumInt
<1> QED BY <1>1, <1>2, <1>3

\* Sums over disjoint sets add up.
LEMMA SumUnion ==
    ASSUME NEW f, NEW S, NEW U, IsFiniteSet(S), IsFiniteSet(U), S \intersect U = {},
           \A x \in S \union U : f[x] \in Int
    PROVE  SumFunctionOnSet(f, S \union U) = SumFunctionOnSet(f, S) + SumFunctionOnSet(f, U)
<1> DEFINE G == {T \in SUBSET S :
                    SumFunctionOnSet(f, T \union U) = SumFunctionOnSet(f, T) + SumFunctionOnSet(f, U)}
<1>1. ASSUME NEW T \in SUBSET S, \A x \in T : T \ {x} \in G PROVE T \in G
  <2>1. CASE T = {}
    <3>1. SumFunctionOnSet(f, U) \in Int /\ T \union U = U
      BY <2>1, SumInt
    <3> QED BY <2>1, <3>1, SumEmpty
  <2>2. CASE T # {}
    <3>1. PICK y \in T : TRUE
      BY <2>2
    <3>2. IsFiniteSet(T) /\ IsFiniteSet(T \ {y}) /\ IsFiniteSet(T \union U)
      BY FS_Subset, FS_Union
    <3>3. PICK a, b \in Int : a = SumFunctionOnSet(f, T \ {y}) /\ b = SumFunctionOnSet(f, U)
      BY <3>2, SumInt
    <3>4. PICK m \in Int : m = f[y]
      OBVIOUS
    <3>5. SumFunctionOnSet(f, T) = m + a
      BY <3>2, <3>3, <3>4, SumRemove
    <3>6. SumFunctionOnSet(f, T \union U) = m + (a + b)
      <4>1. (T \union U) \ {y} = (T \ {y}) \union U
        OBVIOUS
      <4>2. SumFunctionOnSet(f, T \union U) = f[y] + SumFunctionOnSet(f, (T \union U) \ {y})
        BY <3>2, SumRemove
      <4> QED BY <4>1, <4>2, <1>1, <3>3, <3>4
    <3> QED BY <3>3, <3>5, <3>6
  <2> QED BY <2>1, <2>2
<1>2. \A T \in SUBSET S : T \in G
  <2> HIDE DEF G
  <2> QED BY <1>1, SubsetInduction
<1> QED BY <1>2

LEMMA SumNat ==
    ASSUME NEW f, NEW S, IsFiniteSet(S), \A x \in S : f[x] \in Nat
    PROVE  SumFunctionOnSet(f, S) \in Nat
<1> DEFINE G == {T \in SUBSET S : SumFunctionOnSet(f, T) \in Nat}
<1>1. ASSUME NEW T \in SUBSET S, \A x \in T : T \ {x} \in G PROVE T \in G
  <2>1. IsFiniteSet(T)
    BY FS_Subset
  <2>2. CASE T = {}
    BY <2>2, SumEmpty
  <2>3. CASE T # {}
    <3>1. PICK x \in T : SumFunctionOnSet(f, T) = f[x] + SumFunctionOnSet(f, T \ {x})
      BY <2>1, <2>3, SumFirst
    <3> QED BY <1>1, <3>1
  <2> QED BY <2>2, <2>3
<1>2. \A T \in SUBSET S : T \in G
  <2> HIDE DEF G
  <2> QED BY <1>1, SubsetInduction
<1> QED BY <1>2

\* Changing one summand changes the sum by as much.
LEMMA SumChange ==
    ASSUME NEW S, IsFiniteSet(S), NEW f, NEW h, \A x \in S : f[x] \in Int /\ h[x] \in Int,
           NEW y \in S, \A x \in S \ {y} : h[x] = f[x]
    PROVE  SumFunctionOnSet(h, S) = SumFunctionOnSet(f, S) + (h[y] - f[y])
<1>1. IsFiniteSet(S \ {y})
  BY FS_Subset
<1>2. PICK r \in Int : r = SumFunctionOnSet(f, S \ {y}) /\ r = SumFunctionOnSet(h, S \ {y})
  BY <1>1, SumInt, SumSame
<1>3. SumFunctionOnSet(h, S) = h[y] + SumFunctionOnSet(h, S \ {y})
  BY SumRemove
<1>4. SumFunctionOnSet(f, S) = f[y] + SumFunctionOnSet(f, S \ {y})
  BY SumRemove
<1> QED BY <1>2, <1>3, <1>4
=============================================================================
