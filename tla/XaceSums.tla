------------------------------ MODULE XaceSums ------------------------------
(***************************************************************************)
(* Facts about finite sets and the sums of SumFunctionOnSet, for the       *)
(* weights and the counts of XaceDirectory.  Each induction takes the set  *)
(* of the cases that hold: a theorem with a predicate as its parameter     *)
(* could not be instantiated.                                              *)
(***************************************************************************)
EXTENDS Integers, FiniteSets, Functions, WellFoundedInduction, FiniteSetTheorems, TLAPS

-----------------------------------------------------------------------------
(* Induction *)

\* A set of natural numbers that is not empty has a least element.
LEMMA LeastElement ==
  ASSUME NEW S \in SUBSET Nat, S # {}
  PROVE  \E n \in S : \A m \in S : n <= m
<1> DEFINE R == {ss \in Nat \X Nat : ss[1] < ss[2]}
<1>1. IsWellFoundedOn(R, Nat)
  BY NatLessThanWellFounded DEF OpToRel
<1>2. \A x, y \in Nat : x < y => <<x, y>> \in R
  OBVIOUS
<1> HIDE DEF R
<1>3. PICK n \in S : \A m \in S : ~ (<<m, n>> \in R)
  BY <1>1, WFMin
<1>4. ASSUME NEW m \in S PROVE n <= m
  <2>1. n \in Nat /\ m \in Nat
    OBVIOUS
  <2>2. ~(m < n)
    BY <1>2, <1>3, <2>1
  <2> QED
    BY <2>1, <2>2
<1> QED
  BY <1>4

\* What holds of 0 and of the successor of each number holds of all.
LEMMA NumbersInduction ==
  ASSUME NEW G, 0 \in G, \A n \in Nat : n \in G => n + 1 \in G
  PROVE  \A n \in Nat : n \in G
<1> DEFINE Bad == {n \in Nat : n \notin G}
<1>1. SUFFICES ASSUME Bad # {} PROVE FALSE
  OBVIOUS
<1>2. PICK n \in Bad : \A m \in Bad : n <= m
  BY <1>1, LeastElement
<1>3. n # 0 /\ n - 1 \in Nat /\ n - 1 \notin Bad
  BY <1>2
<1> QED
  BY <1>2, <1>3

\* G holds the empty set, and each subset of S from which any element can be taken away
\* within G.
Inductive(S, G) ==
  /\ {} \in G
  /\ \A U \in SUBSET S : U # {} /\ (\A x \in U : U \ {x} \in G) => U \in G

\* Then it holds every subset, if S is finite.
LEMMA SubsetsInduction ==
  ASSUME NEW S, IsFiniteSet(S), NEW G, Inductive(S, G)
  PROVE  \A U \in SUBSET S : U \in G
<1> DEFINE Bad == {U \in SUBSET S : U \notin G}
           Sizes == {Cardinality(U) : U \in Bad}
<1>1. SUFFICES ASSUME Bad # {} PROVE FALSE
  OBVIOUS
<1>2. \A U \in SUBSET S : IsFiniteSet(U) /\ Cardinality(U) \in Nat
  BY FS_Subset, FS_CardinalityType
<1>3. PICK n \in Sizes : \A m \in Sizes : n <= m
  <2>1. Sizes \in SUBSET Nat /\ Sizes # {}
    BY <1>1, <1>2
  <2> HIDE DEF Sizes
  <2> QED
    BY <2>1, LeastElement
<1>4. PICK U \in Bad : Cardinality(U) = n
  BY <1>3
<1>5. PICK x \in U : U \ {x} \notin G
  BY <1>4 DEF Inductive
<1>6. Cardinality(U \ {x}) = Cardinality(U) - 1 /\ U \ {x} \in Bad
  BY <1>2, <1>4, <1>5, FS_RemoveElement
<1>7. n <= Cardinality(U \ {x})
  BY <1>3, <1>6
<1>8. Cardinality(U) \in Nat
  BY <1>2
<1> QED
  BY <1>4, <1>6, <1>7, <1>8

\* A function on a finite set that is not empty has a greatest value.
LEMMA GreatestValue ==
  ASSUME NEW S, IsFiniteSet(S), S # {}, NEW f, \A x \in S : f[x] \in Int
  PROVE  \E x \in S : \A y \in S : f[y] <= f[x]
<1> DEFINE G == {U \in SUBSET S : U # {} => \E x \in U : \A y \in U : f[y] <= f[x]}
<1>1. {} \in G
  OBVIOUS
<1>2. ASSUME NEW U \in SUBSET S, U # {}, \A x \in U : U \ {x} \in G
      PROVE  U \in G
  <2>1. PICK x \in U : TRUE
    BY <1>2
  <2>2. CASE U = {x}
    BY <2>1, <2>2
  <2>3. CASE U # {x}
    <3>1. PICK z \in U \ {x} : \A y \in U \ {x} : f[y] <= f[z]
      BY <1>2, <2>1, <2>3
    <3>2. f[x] \in Int /\ f[z] \in Int /\ \A y \in U : f[y] \in Int
      BY <2>1, <3>1
    <3>3. CASE f[x] <= f[z]
      BY <2>1, <3>1, <3>3
    <3>4. CASE ~(f[x] <= f[z])
      <4>1. \A y \in U : f[y] <= f[x]
        BY <3>1, <3>2, <3>4
      <4> QED
        BY <2>1, <4>1
    <3> QED
      BY <3>3, <3>4
  <2> QED
    BY <2>2, <2>3
<1>3. Inductive(S, G)
  BY <1>1, <1>2 DEF Inductive
<1> HIDE DEF G
<1>4. S \in G
  BY <1>3, SubsetsInduction
<1> QED
  BY <1>4 DEF G

-----------------------------------------------------------------------------
(* Sums *)

\* The element SumFunctionOnSet adds first, and what it adds.
Some(s) == CHOOSE x \in s : TRUE
Term(f, g, s) == IF s = {} THEN 0 ELSE f[Some(s)] + g[s \ {Some(s)}]

\* g is the fold by which SumFunctionOnSet adds the values of f over S.
Adds(f, S, g) == g = [s \in SUBSET S |-> Term(f, g, s)]

\* The same for the subsets of at most n elements.
Small(S, n) == {s \in SUBSET S : Cardinality(s) <= n}
AddsSmall(f, S, n, g) == g = [s \in Small(S, n) |-> Term(f, g, s)]

LEMMA SomeIn ==
  ASSUME NEW s, s # {}
  PROVE  Some(s) \in s
  BY DEF Some

LEMMA SubsetSizes ==
  ASSUME NEW S, IsFiniteSet(S)
  PROVE  \A s \in SUBSET S :
           /\ IsFiniteSet(s) /\ Cardinality(s) \in Nat
           /\ \A x \in s : Cardinality(s \ {x}) = Cardinality(s) - 1
<1> SUFFICES ASSUME NEW s \in SUBSET S
             PROVE  /\ IsFiniteSet(s) /\ Cardinality(s) \in Nat
                    /\ \A x \in s : Cardinality(s \ {x}) = Cardinality(s) - 1
  OBVIOUS
<1>1. IsFiniteSet(s)
  BY FS_Subset
<1> QED
  BY <1>1, FS_CardinalityType, FS_RemoveElement

\* One more element.
LEMMA AddsMore ==
  ASSUME NEW S, IsFiniteSet(S), NEW f, NEW n \in Nat, NEW g, AddsSmall(f, S, n, g)
  PROVE  \E h : AddsSmall(f, S, n + 1, h)
<1> DEFINE h == [s \in Small(S, n + 1) |-> Term(f, g, s)]
<1>1. \A s \in Small(S, n) : s \in Small(S, n + 1)
  BY SubsetSizes DEF Small
<1>2. \A s \in Small(S, n) : h[s] = g[s]
  BY <1>1 DEF AddsSmall
<1>3. ASSUME NEW s \in Small(S, n + 1), NEW x \in s
      PROVE  s \ {x} \in Small(S, n)
  BY SubsetSizes DEF Small
<1>4. \A s \in Small(S, n + 1) : h[s] = Term(f, g, s)
  OBVIOUS
<1>5. h = [s \in Small(S, n + 1) |-> h[s]]
  OBVIOUS
<1> HIDE DEF h
<1>6. \A s \in Small(S, n + 1) : Term(f, g, s) = Term(f, h, s)
  BY <1>2, <1>3, SomeIn DEF Term
<1>7. h = [s \in Small(S, n + 1) |-> Term(f, h, s)]
  BY <1>4, <1>5, <1>6
<1> QED
  BY <1>7 DEF AddsSmall

\* The fold exists.
LEMMA AddsExists ==
  ASSUME NEW S, IsFiniteSet(S), NEW f
  PROVE  \E g : Adds(f, S, g)
<1> DEFINE G == {n \in Nat : \E g : AddsSmall(f, S, n, g)}
<1>1. 0 \in G
  <2>1. \A s \in Small(S, 0) : s = {}
    BY SubsetSizes, FS_EmptySet DEF Small
  <2>2. AddsSmall(f, S, 0, [s \in Small(S, 0) |-> 0])
    BY <2>1 DEF AddsSmall, Term
  <2> QED
    BY <2>2
<1>2. \A n \in Nat : n \in G => n + 1 \in G
  BY AddsMore
<1> HIDE DEF G
<1>3. Cardinality(S) \in G
  BY <1>1, <1>2, NumbersInduction, FS_CardinalityType
<1>4. Small(S, Cardinality(S)) = SUBSET S
  BY FS_Subset DEF Small
<1> QED
  BY <1>3, <1>4 DEF G, Adds, AddsSmall

\* All folds agree on the sets they have in common.
LEMMA AddsAgree ==
  ASSUME NEW S, IsFiniteSet(S), NEW U \in SUBSET S, NEW f, NEW g, NEW h,
         Adds(f, S, g), Adds(f, U, h)
  PROVE  g[U] = h[U]
<1> DEFINE G == {V \in SUBSET U : g[V] = h[V]}
<1>1. {} \in G
  BY DEF Adds, Term
<1>2. ASSUME NEW V \in SUBSET U, V # {}, \A x \in V : V \ {x} \in G
      PROVE  V \in G
  <2>1. V \in SUBSET S
    OBVIOUS
  <2>2. g[V] = f[Some(V)] + g[V \ {Some(V)}]
    BY <1>2, <2>1 DEF Adds, Term
  <2>3. h[V] = f[Some(V)] + h[V \ {Some(V)}]
    BY <1>2 DEF Adds, Term
  <2>4. g[V \ {Some(V)}] = h[V \ {Some(V)}]
    BY <1>2, SomeIn
  <2> QED
    BY <2>2, <2>3, <2>4
<1>3. Inductive(U, G)
  BY <1>1, <1>2 DEF Inductive
<1>4. IsFiniteSet(U)
  BY FS_Subset
<1> HIDE DEF G
<1>5. U \in G
  BY <1>3, <1>4, SubsetsInduction
<1> QED
  BY <1>5 DEF G

LEMMA SumIsFold ==
  ASSUME NEW S, IsFiniteSet(S), NEW f
  PROVE  \E g : Adds(f, S, g) /\ SumFunctionOnSet(f, S) = g[S]
<1> DEFINE h == CHOOSE g : Adds(f, S, g)
<1>1. Adds(f, S, h)
  BY AddsExists
<1>2. SumFunctionOnSet(f, S) = h[S]
  BY DEF Adds, Term, Some, SumFunctionOnSet, FoldFunctionOnSet, MapThenFoldSet
<1> QED
  BY <1>1, <1>2

\* The fold gives the sum over each subset.
LEMMA FoldIsSum ==
  ASSUME NEW S, IsFiniteSet(S), NEW U \in SUBSET S, NEW f, NEW g, Adds(f, S, g)
  PROVE  g[U] = SumFunctionOnSet(f, U)
<1>1. PICK h : Adds(f, U, h) /\ SumFunctionOnSet(f, U) = h[U]
  BY SumIsFold, FS_Subset
<1> QED
  BY <1>1, AddsAgree

LEMMA SumOfNone ==
  ASSUME NEW f
  PROVE  SumFunctionOnSet(f, {}) = 0
<1>1. PICK g : Adds(f, {}, g) /\ SumFunctionOnSet(f, {}) = g[{}]
  BY SumIsFold, FS_EmptySet
<1> QED
  BY <1>1 DEF Adds, Term

LEMMA SumOfSome ==
  ASSUME NEW S, IsFiniteSet(S), S # {}, NEW f
  PROVE  SumFunctionOnSet(f, S) = f[Some(S)] + SumFunctionOnSet(f, S \ {Some(S)})
<1>1. PICK g : Adds(f, S, g) /\ SumFunctionOnSet(f, S) = g[S]
  BY SumIsFold
<1>2. S \ {Some(S)} \in SUBSET S
  OBVIOUS
<1>3. g[S \ {Some(S)}] = SumFunctionOnSet(f, S \ {Some(S)})
  BY <1>1, <1>2, FoldIsSum
<1>4. g[S] = f[Some(S)] + g[S \ {Some(S)}]
  BY <1>1 DEF Adds, Term
<1> QED
  BY <1>1, <1>3, <1>4

\* A sum of integers is an integer.
LEMMA SumType ==
  ASSUME NEW S, IsFiniteSet(S), NEW f, \A x \in S : f[x] \in Int
  PROVE  SumFunctionOnSet(f, S) \in Int
<1> DEFINE G == {U \in SUBSET S : SumFunctionOnSet(f, U) \in Int}
<1>1. {} \in G
  BY SumOfNone
<1>2. ASSUME NEW U \in SUBSET S, U # {}, \A x \in U : U \ {x} \in G
      PROVE  U \in G
  <2>1. IsFiniteSet(U) /\ Some(U) \in U
    BY <1>2, FS_Subset, SomeIn
  <2>2. SumFunctionOnSet(f, U) = f[Some(U)] + SumFunctionOnSet(f, U \ {Some(U)})
    BY <1>2, <2>1, SumOfSome
  <2>3. SumFunctionOnSet(f, U \ {Some(U)}) \in Int /\ f[Some(U)] \in Int
    BY <1>2, <2>1
  <2> QED
    BY <2>2, <2>3
<1>3. Inductive(S, G)
  BY <1>1, <1>2 DEF Inductive
<1> HIDE DEF G
<1>4. S \in G
  BY <1>3, SubsetsInduction
<1> QED
  BY <1>4 DEF G

\* Any element may be added last.
LEMMA SumOfAny ==
  ASSUME NEW S, IsFiniteSet(S), NEW f, \A x \in S : f[x] \in Int, NEW k \in S
  PROVE  SumFunctionOnSet(f, S) = f[k] + SumFunctionOnSet(f, S \ {k})
<1> DEFINE Sum(U) == SumFunctionOnSet(f, U)
           G == {U \in SUBSET S : \A x \in U : Sum(U) = f[x] + Sum(U \ {x})}
<1>1. {} \in G
  OBVIOUS
<1>2. ASSUME NEW U \in SUBSET S, U # {}, \A x \in U : U \ {x} \in G
      PROVE  U \in G
  <2>1. SUFFICES ASSUME NEW x \in U PROVE Sum(U) = f[x] + Sum(U \ {x})
    OBVIOUS
  <2>2. PICK y \in U : Sum(U) = f[y] + Sum(U \ {y})
    <3>1. IsFiniteSet(U) /\ Some(U) \in U
      BY <1>2, FS_Subset, SomeIn
    <3> QED
      BY <1>2, <3>1, SumOfSome
  <2>3. CASE x = y
    BY <2>2, <2>3
  <2>4. CASE x # y
    <3>1. Sum(U \ {y}) = f[x] + Sum((U \ {y}) \ {x})
      BY <1>2, <2>4
    <3>2. Sum(U \ {x}) = f[y] + Sum((U \ {x}) \ {y})
      BY <1>2, <2>4
    <3>3. Sum((U \ {y}) \ {x}) = Sum((U \ {x}) \ {y})
      <4>1. (U \ {y}) \ {x} = (U \ {x}) \ {y}
        OBVIOUS
      <4> QED
        BY <4>1
    <3>4. IsFiniteSet((U \ {x}) \ {y}) /\ \A z \in (U \ {x}) \ {y} : f[z] \in Int
      BY FS_Subset
    <3>5. Sum((U \ {x}) \ {y}) \in Int
      BY <3>4, SumType
    <3>6. f[x] \in Int /\ f[y] \in Int
      OBVIOUS
    <3>7. PICK a, b, c \in Int : a = f[x] /\ b = f[y] /\ c = Sum((U \ {x}) \ {y})
      BY <3>5, <3>6
    <3>8. Sum(U \ {x}) = b + c /\ Sum(U) = b + (a + c)
      BY <2>2, <3>1, <3>2, <3>3, <3>7
    <3> QED
      BY <3>7, <3>8
  <2> QED
    BY <2>3, <2>4
<1>3. Inductive(S, G)
  BY <1>1, <1>2 DEF Inductive
<1> HIDE DEF G
<1>4. S \in G
  BY <1>3, SubsetsInduction
<1> QED
  BY <1>4 DEF G

\* The sum is of the values on S alone.
LEMMA SumOfSame ==
  ASSUME NEW S, IsFiniteSet(S), NEW f, NEW h, \A x \in S : f[x] = h[x]
  PROVE  SumFunctionOnSet(f, S) = SumFunctionOnSet(h, S)
<1> DEFINE G == {U \in SUBSET S : SumFunctionOnSet(f, U) = SumFunctionOnSet(h, U)}
<1>1. {} \in G
  BY SumOfNone
<1>2. ASSUME NEW U \in SUBSET S, U # {}, \A x \in U : U \ {x} \in G
      PROVE  U \in G
  <2>1. IsFiniteSet(U) /\ Some(U) \in U
    BY <1>2, FS_Subset, SomeIn
  <2>2. SumFunctionOnSet(f, U) = f[Some(U)] + SumFunctionOnSet(f, U \ {Some(U)})
    BY <1>2, <2>1, SumOfSome
  <2>3. SumFunctionOnSet(h, U) = h[Some(U)] + SumFunctionOnSet(h, U \ {Some(U)})
    BY <1>2, <2>1, SumOfSome
  <2>4. f[Some(U)] = h[Some(U)]
    BY <2>1
  <2>5. SumFunctionOnSet(f, U \ {Some(U)}) = SumFunctionOnSet(h, U \ {Some(U)})
    BY <1>2, <2>1
  <2> QED
    BY <2>2, <2>3, <2>4, <2>5
<1>3. Inductive(S, G)
  BY <1>1, <1>2 DEF Inductive
<1> HIDE DEF G
<1>4. S \in G
  BY <1>3, SubsetsInduction
<1> QED
  BY <1>4 DEF G

\* Sums are added value by value.
LEMMA SumOfBoth ==
  ASSUME NEW S, IsFiniteSet(S), NEW f, NEW h, NEW e,
         \A x \in S : f[x] \in Int /\ h[x] \in Int /\ e[x] = f[x] + h[x]
  PROVE  SumFunctionOnSet(e, S) = SumFunctionOnSet(f, S) + SumFunctionOnSet(h, S)
<1> DEFINE Sum(g, U) == SumFunctionOnSet(g, U)
           G == {U \in SUBSET S : Sum(e, U) = Sum(f, U) + Sum(h, U)}
<1>1. {} \in G
  BY SumOfNone
<1>2. ASSUME NEW U \in SUBSET S, U # {}, \A x \in U : U \ {x} \in G
      PROVE  U \in G
  <2>1. IsFiniteSet(U) /\ Some(U) \in U
    BY <1>2, FS_Subset, SomeIn
  <2> DEFINE y == Some(U)
             V == U \ {y}
  <2>2. /\ Sum(e, U) = e[y] + Sum(e, V)
        /\ Sum(f, U) = f[y] + Sum(f, V)
        /\ Sum(h, U) = h[y] + Sum(h, V)
    BY <1>2, <2>1, SumOfSome
  <2>3. Sum(e, V) = Sum(f, V) + Sum(h, V)
    BY <1>2, <2>1
  <2>4. Sum(f, V) \in Int /\ Sum(h, V) \in Int
    <3>1. IsFiniteSet(V) /\ \A x \in V : f[x] \in Int /\ h[x] \in Int
      BY FS_Subset
    <3> QED
      BY <3>1, SumType
  <2>5. PICK a, b \in Int : a = f[y] /\ b = h[y] /\ e[y] = a + b
    BY <2>1
  <2>6. PICK c, d \in Int : c = Sum(f, V) /\ d = Sum(h, V)
    BY <2>4
  <2> HIDE DEF Sum, V, y
  <2>7. Sum(e, U) = (a + b) + (c + d) /\ Sum(f, U) = a + c /\ Sum(h, U) = b + d
    BY <2>2, <2>3, <2>5, <2>6
  <2>8. Sum(e, U) = Sum(f, U) + Sum(h, U)
    BY <2>7
  <2> QED
    BY <2>8
<1>3. Inductive(S, G)
  BY <1>1, <1>2 DEF Inductive
<1> HIDE DEF G
<1>4. S \in G
  BY <1>3, SubsetsInduction
<1> QED
  BY <1>4 DEF G

\* One value changes.
LEMMA SumOfChange ==
  ASSUME NEW S, IsFiniteSet(S), NEW k \in S, NEW f, NEW h,
         \A x \in S : f[x] \in Int /\ h[x] \in Int,
         \A x \in S : x # k => h[x] = f[x]
  PROVE  SumFunctionOnSet(h, S) = SumFunctionOnSet(f, S) + (h[k] - f[k])
<1>1. SumFunctionOnSet(f, S) = f[k] + SumFunctionOnSet(f, S \ {k})
  BY SumOfAny
<1>2. SumFunctionOnSet(h, S) = h[k] + SumFunctionOnSet(h, S \ {k})
  BY SumOfAny
<1>3. IsFiniteSet(S \ {k}) /\ \A x \in S \ {k} : f[x] \in Int /\ h[x] = f[x]
  BY FS_Subset
<1>4. SumFunctionOnSet(h, S \ {k}) = SumFunctionOnSet(f, S \ {k})
  BY <1>3, SumOfSame
<1>5. PICK a, b, c \in Int : a = f[k] /\ b = h[k] /\ c = SumFunctionOnSet(f, S \ {k})
  BY <1>3, SumType
<1>6. SumFunctionOnSet(f, S) = a + c /\ SumFunctionOnSet(h, S) = b + c
  BY <1>1, <1>2, <1>4, <1>5
<1> QED
  BY <1>5, <1>6

\* A sum of values that are at least c each.
LEMMA SumAtLeast ==
  ASSUME NEW S, IsFiniteSet(S), NEW c \in Int, NEW f, \A x \in S : f[x] \in Int /\ c <= f[x]
  PROVE  c * Cardinality(S) <= SumFunctionOnSet(f, S)
<1> DEFINE Sum(U) == SumFunctionOnSet(f, U)
           G == {U \in SUBSET S : c * Cardinality(U) <= Sum(U)}
<1>1. {} \in G
  BY SumOfNone, FS_EmptySet
<1>2. ASSUME NEW U \in SUBSET S, U # {}, \A x \in U : U \ {x} \in G
      PROVE  U \in G
  <2>1. IsFiniteSet(U) /\ Some(U) \in U
    BY <1>2, FS_Subset, SomeIn
  <2> DEFINE y == Some(U)
             V == U \ {y}
  <2>2. Sum(U) = f[y] + Sum(V)
    BY <1>2, <2>1, SumOfSome
  <2>3. c * Cardinality(V) <= Sum(V)
    BY <1>2, <2>1
  <2>4. PICK n \in Nat : n = Cardinality(U) /\ Cardinality(V) = n - 1 /\ n - 1 \in Nat
    BY <2>1, SubsetSizes, FS_CardinalityType, FS_Subset
  <2>5. PICK a \in Int : a = f[y] /\ c <= a
    BY <2>1
  <2>6. PICK b \in Int : b = Sum(V)
    <3>1. IsFiniteSet(V) /\ \A x \in V : f[x] \in Int
      BY FS_Subset
    <3> QED
      BY <3>1, SumType
  <2> HIDE DEF Sum, V, y
  <2>7. c * (n - 1) <= b /\ Sum(U) = a + b
    BY <2>2, <2>3, <2>4, <2>5, <2>6
  <2>8. c * n = c * (n - 1) + c /\ c * n \in Int /\ c * (n - 1) \in Int
    BY <2>4
  <2>9. c * Cardinality(U) <= Sum(U)
    BY <2>4, <2>5, <2>7, <2>8
  <2> QED
    BY <2>9
<1>3. Inductive(S, G)
  BY <1>1, <1>2 DEF Inductive
<1> HIDE DEF G
<1>4. S \in G
  BY <1>3, SubsetsInduction
<1> QED
  BY <1>4 DEF G

\* Counts are at most their sum.
LEMMA SumOfCounts ==
  ASSUME NEW S, IsFiniteSet(S), NEW f, \A x \in S : f[x] \in Nat
  PROVE  /\ SumFunctionOnSet(f, S) \in Nat
         /\ \A x \in S : f[x] <= SumFunctionOnSet(f, S)
<1>1. ASSUME NEW U \in SUBSET S PROVE SumFunctionOnSet(f, U) \in Nat
  <2>1. IsFiniteSet(U) /\ \A x \in U : f[x] \in Int /\ 0 <= f[x]
    BY FS_Subset
  <2>2. PICK c \in Int : c = 0
    OBVIOUS
  <2>3. c * Cardinality(U) <= SumFunctionOnSet(f, U)
    <3>1. \A x \in U : f[x] \in Int /\ c <= f[x]
      BY <2>1, <2>2
    <3> HIDE <2>2
    <3> QED
      BY <2>1, <3>1, SumAtLeast
  <2>4. SumFunctionOnSet(f, U) \in Int /\ Cardinality(U) \in Nat
    BY <2>1, SumType, FS_CardinalityType
  <2> QED
    BY <2>2, <2>3, <2>4
<1>2. ASSUME NEW x \in S PROVE f[x] <= SumFunctionOnSet(f, S)
  <2>1. SumFunctionOnSet(f, S) = f[x] + SumFunctionOnSet(f, S \ {x})
    BY SumOfAny
  <2>2. SumFunctionOnSet(f, S \ {x}) \in Nat
    BY <1>1
  <2> QED
    BY <2>1, <2>2
<1> QED
  BY <1>1, <1>2

LEMMA SumOfZeros ==
  ASSUME NEW S, IsFiniteSet(S), NEW f, \A x \in S : f[x] = 0
  PROVE  SumFunctionOnSet(f, S) = 0
<1>1. SumFunctionOnSet(f, S) = SumFunctionOnSet(f, S) + SumFunctionOnSet(f, S)
  BY SumOfBoth
<1>2. PICK v \in Int : v = SumFunctionOnSet(f, S)
  BY SumType
<1>3. v = v + v
  BY <1>1, <1>2
<1>4. v - v = 0 /\ (v + v) - v = v
  OBVIOUS
<1> QED
  BY <1>2, <1>3, <1>4

\* A sum that is positive has a positive value.
LEMMA SumPositive ==
  ASSUME NEW S, IsFiniteSet(S), NEW f, \A x \in S : f[x] \in Int,
         SumFunctionOnSet(f, S) > 0
  PROVE  \E x \in S : f[x] > 0
<1> SUFFICES ASSUME \A x \in S : ~(f[x] > 0) PROVE FALSE
  OBVIOUS
<1> DEFINE h == [x \in S |-> -f[x]]
           z == [x \in S |-> 0]
<1>1. \A x \in S : h[x] \in Nat
  OBVIOUS
<1>2. SumFunctionOnSet(h, S) \in Nat
  BY <1>1, SumOfCounts
<1>3. \A x \in S : f[x] \in Int /\ h[x] \in Int /\ z[x] = f[x] + h[x]
  OBVIOUS
<1>4. SumFunctionOnSet(z, S) = SumFunctionOnSet(f, S) + SumFunctionOnSet(h, S)
  BY <1>3, SumOfBoth
<1>5. SumFunctionOnSet(z, S) = 0
  BY SumOfZeros
<1>6. SumFunctionOnSet(f, S) \in Int
  BY SumType
<1> HIDE DEF h, z
<1> QED
  BY <1>2, <1>4, <1>5, <1>6
=============================================================================
