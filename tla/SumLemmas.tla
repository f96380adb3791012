----------------------------- MODULE SumLemmas -----------------------------
(***************************************************************************)
(* Lemmas about sums, least and greatest members of finite sets, proved by *)
(* induction over the subsets of a finite set, and about folds, filters,   *)
(* joins and sorting of lists.                                             *)
(***************************************************************************)
EXTENDS Integers, FiniteSets, FiniteSetsExt, Lists, FiniteSetTheorems, SequenceTheorems,
        WellFoundedInduction, TLAPS

LEMMA MinOfTwo ==
    ASSUME NEW a \in Int, NEW b \in Int
    PROVE  Min({a, b}) \in {a, b} /\ Min({a, b}) <= a /\ Min({a, b}) <= b
<1>1. \E x \in {a, b} : \A y \in {a, b} : x =< y
  OBVIOUS
<1> QED
  BY <1>1 DEF Min

LEMMA MinOfThree ==
    ASSUME NEW a \in Int, NEW b \in Int, NEW c \in Int
    PROVE  Min({a, b, c}) \in {a, b, c}
<1>1. \E x \in {a, b, c} : \A y \in {a, b, c} : x =< y
  OBVIOUS
<1> QED
  BY <1>1 DEF Min

LEMMA MaxOfTwo ==
    ASSUME NEW a \in Int, NEW b \in Int
    PROVE  Max({a, b}) = IF a >= b THEN a ELSE b
<1>1. CASE a >= b
  <2>1. \A x \in {a, b} : (\A y \in {a, b} : x >= y) => x = a
    BY <1>1
  <2>2. \A y \in {a, b} : a >= y
    BY <1>1
  <2> QED
    BY <1>1, <2>1, <2>2 DEF Max
<1>2. CASE ~(a >= b)
  <2>1. \A x \in {a, b} : (\A y \in {a, b} : x >= y) => x = b
    BY <1>2
  <2>2. \A y \in {a, b} : b >= y
    BY <1>2
  <2> QED
    BY <1>2, <2>1, <2>2 DEF Max
<1> QED
  BY <1>1, <1>2

(* Induction over the subsets of a finite set, stated with the set of those  *)
(* that have the property: a smallest one without it cannot exist.           *)
LEMMA SubsetInduction ==
    ASSUME NEW S, IsFiniteSet(S), NEW G,
           \A T \in SUBSET S : (\A U \in SUBSET T : U # T => U \in G) => T \in G
    PROVE  \A T \in SUBSET S : T \in G
<1> DEFINE Bad == {T \in SUBSET S : T \notin G}
<1>1. SUFFICES ASSUME Bad # {} PROVE FALSE
  OBVIOUS
<1>2. Bad \subseteq FiniteSubsetsOf(S)
  BY FS_Subset DEF FiniteSubsetsOf
<1>3. PICK T \in Bad : \A U \in Bad : ~(<<U, T>> \in StrictSubsetOrdering(S))
  <2> HIDE DEF Bad
  <2> QED
    BY <1>1, <1>2, FS_StrictSubsetOrderingWellFounded, WFMin
<1>4. ASSUME NEW U \in SUBSET T, U # T PROVE U \in G
  <2>1. <<U, T>> \in StrictSubsetOrdering(S)
    BY <1>4 DEF StrictSubsetOrdering
  <2> QED
    BY <1>3, <2>1
<1> QED
  BY <1>3, <1>4

Some(T) == CHOOSE x \in T : TRUE

(* g gives the sum of f over every subset of S. *)
IsSum(g, S, f) == g = [T \in SUBSET S |-> IF T = {} THEN 0 ELSE f[Some(T)] + g[T \ {Some(T)}]]

LEMMA SomeIn == \A T : T # {} => Some(T) \in T
BY DEF Some

LEMMA SumIsInteger ==
    ASSUME NEW S, IsFiniteSet(S), NEW f, \A x \in S : f[x] \in Int, NEW g, IsSum(g, S, f)
    PROVE  \A T \in SUBSET S : g[T] \in Int
<1> DEFINE G == {T \in SUBSET S : g[T] \in Int}
<1>1. ASSUME NEW T \in SUBSET S, \A U \in SUBSET T : U # T => U \in G PROVE T \in G
  <2>1. CASE T = {}
    BY <2>1 DEF IsSum
  <2>2. CASE T # {}
    <3>1. Some(T) \in T
      BY <2>2, SomeIn
    <3>2. g[T \ {Some(T)}] \in Int /\ f[Some(T)] \in Int
      BY <1>1, <3>1
    <3>3. g[T] = f[Some(T)] + g[T \ {Some(T)}]
      BY <2>2 DEF IsSum
    <3> QED
      BY <3>2, <3>3
  <2> QED
    BY <2>1, <2>2
<1> HIDE DEF G
<1>2. \A T \in SUBSET S : T \in G
  BY <1>1, SubsetInduction
<1> QED
  BY <1>2 DEF G

LEMMA SumIsUnique ==
    ASSUME NEW S, NEW R, IsFiniteSet(S), NEW f, NEW g, IsSum(g, S, f), NEW h, IsSum(h, R, f)
    PROVE  \A T \in SUBSET (S \cap R) : g[T] = h[T]
<1> DEFINE G == {T \in SUBSET (S \cap R) : g[T] = h[T]}
<1>1. ASSUME NEW T \in SUBSET (S \cap R), \A U \in SUBSET T : U # T => U \in G PROVE T \in G
  <2>1. CASE T = {}
    BY <2>1 DEF IsSum
  <2>2. CASE T # {}
    <3>1. Some(T) \in T
      BY <2>2, SomeIn
    <3>2. g[T \ {Some(T)}] = h[T \ {Some(T)}]
      BY <1>1, <3>1
    <3>3. T \in SUBSET S /\ T \in SUBSET R
      OBVIOUS
    <3>4. g[T] = f[Some(T)] + g[T \ {Some(T)}]
      BY <2>2, <3>3 DEF IsSum
    <3>5. h[T] = f[Some(T)] + h[T \ {Some(T)}]
      BY <2>2, <3>3 DEF IsSum
    <3> QED
      BY <3>2, <3>4, <3>5
  <2> QED
    BY <2>1, <2>2
<1>2. IsFiniteSet(S \cap R)
  BY FS_Subset
<1> HIDE DEF G
<1>3. \A T \in SUBSET (S \cap R) : T \in G
  BY <1>1, <1>2, SubsetInduction
<1> QED
  BY <1>3 DEF G

LEMMA SumExists ==
    ASSUME NEW S, IsFiniteSet(S), NEW f
    PROVE  \E g : IsSum(g, S, f)
<1> DEFINE G == {T \in SUBSET S : \E g : IsSum(g, T, f)}
<1>1. ASSUME NEW T \in SUBSET S, \A U \in SUBSET T : U # T => U \in G PROVE T \in G
  <2> DEFINE H(U) == CHOOSE g : IsSum(g, U, f)
             V(U) == H(U)[U]
             w == IF T = {} THEN 0 ELSE f[Some(T)] + V(T \ {Some(T)})
             g == [U \in SUBSET T |-> IF U = T THEN w ELSE V(U)]
  <2>1. \A U \in SUBSET T : U # T => IsSum(H(U), U, f)
    BY <1>1
  <2> HIDE DEF H
  <2>2. ASSUME NEW U \in SUBSET T, U # T
        PROVE  V(U) = IF U = {} THEN 0 ELSE f[Some(U)] + V(U \ {Some(U)})
    <3>1. IsSum(H(U), U, f)
      BY <2>1, <2>2
    <3>2. CASE U = {}
      BY <3>1, <3>2 DEF IsSum
    <3>3. CASE U # {}
      <4>1. Some(U) \in U
        BY <3>3, SomeIn
      <4>2. IsSum(H(U \ {Some(U)}), U \ {Some(U)}, f)
        BY <2>1, <2>2, <4>1
      <4>3. IsFiniteSet(U)
        BY FS_Subset
      <4>4. \A X \in SUBSET (U \cap (U \ {Some(U)})) : H(U)[X] = H(U \ {Some(U)})[X]
        BY <3>1, <4>2, <4>3, SumIsUnique
      <4>5. H(U)[U \ {Some(U)}] = V(U \ {Some(U)})
        BY <4>4
      <4>6. H(U)[U] = f[Some(U)] + H(U)[U \ {Some(U)}]
        BY <3>1, <3>3 DEF IsSum
      <4> QED
        BY <3>3, <4>5, <4>6
    <3> QED
      BY <3>2, <3>3
  <2> HIDE DEF V
  <2>3. ASSUME NEW U \in SUBSET T
        PROVE  g[U] = IF U = {} THEN 0 ELSE f[Some(U)] + g[U \ {Some(U)}]
    <3>1. CASE U = {}
      BY <2>2, <3>1
    <3>2. CASE U # {}
      <4>1. Some(U) \in U
        BY <3>2, SomeIn
      <4>2. U \ {Some(U)} \in SUBSET T /\ U \ {Some(U)} # T
        BY <4>1
      <4>3. g[U \ {Some(U)}] = V(U \ {Some(U)})
        BY <4>2
      <4>4. CASE U = T
        BY <3>2, <4>3, <4>4
      <4>5. CASE U # T
        BY <2>2, <3>2, <4>3, <4>5
      <4> QED
        BY <4>4, <4>5
    <3> QED
      BY <3>1, <3>2
  <2>4. g = [U \in SUBSET T |-> g[U]]
    OBVIOUS
  <2> HIDE DEF g
  <2>5. IsSum(g, T, f)
    BY <2>3, <2>4 DEF IsSum
  <2> QED
    BY <2>5
<1> HIDE DEF G
<1>2. \A T \in SUBSET S : T \in G
  BY <1>1, SubsetInduction
<1> QED
  BY <1>2 DEF G

SumOf(f, S) == MapThenSumSet(LAMBDA x : f[x], S)

LEMMA SumOfIs ==
    ASSUME NEW S, IsFiniteSet(S), NEW f
    PROVE  \E g : IsSum(g, S, f) /\ SumOf(f, S) = g[S]
<1>1. \E g : IsSum(g, S, f)
  BY SumExists
<1> DEFINE h == CHOOSE g : IsSum(g, S, f)
<1>2. IsSum(h, S, f)
  BY <1>1
<1>3. SumOf(f, S) = h[S]
  BY DEF SumOf, MapThenSumSet, MapThenFoldSet, IsSum, Some
<1> QED
  BY <1>2, <1>3

LEMMA SumOfEmpty == ASSUME NEW f PROVE SumOf(f, {}) = 0
<1>1. PICK g : IsSum(g, {}, f) /\ SumOf(f, {}) = g[{}]
  BY SumOfIs, FS_EmptySet
<1> QED
  BY <1>1 DEF IsSum

LEMMA SumOfInteger ==
    ASSUME NEW S, IsFiniteSet(S), NEW f, \A x \in S : f[x] \in Int
    PROVE  SumOf(f, S) \in Int
<1>1. PICK g : IsSum(g, S, f) /\ SumOf(f, S) = g[S]
  BY SumOfIs
<1> QED
  BY <1>1, SumIsInteger

LEMMA SumOfPart ==
    ASSUME NEW S, IsFiniteSet(S), NEW f, NEW g, IsSum(g, S, f), NEW T \in SUBSET S
    PROVE  SumOf(f, T) = g[T]
<1>1. IsFiniteSet(T)
  BY FS_Subset
<1>2. PICK h : IsSum(h, T, f) /\ SumOf(f, T) = h[T]
  BY <1>1, SumOfIs
<1>3. \A X \in SUBSET (T \cap S) : h[X] = g[X]
  BY <1>1, <1>2, SumIsUnique
<1> QED
  BY <1>2, <1>3

(* Any element can be taken out of a sum.                                    *)
LEMMA SumOfRemove ==
    ASSUME NEW S, IsFiniteSet(S), NEW f, \A x \in S : f[x] \in Int
    PROVE  \A e \in S : SumOf(f, S) = f[e] + SumOf(f, S \ {e})
<1>1. PICK g : IsSum(g, S, f)
  BY SumExists
<1>2. \A T \in SUBSET S : SumOf(f, T) = g[T] /\ g[T] \in Int
  BY <1>1, SumOfPart, SumIsInteger
<1> DEFINE G == {T \in SUBSET S : \A e \in T : g[T] = f[e] + g[T \ {e}]}
<1>3. ASSUME NEW T \in SUBSET S, \A U \in SUBSET T : U # T => U \in G PROVE T \in G
  <2>1. SUFFICES ASSUME NEW e \in T PROVE g[T] = f[e] + g[T \ {e}]
    OBVIOUS
  <2> DEFINE y == Some(T)
  <2>2. y \in T /\ g[T] = f[y] + g[T \ {y}]
    BY <1>1, SomeIn DEF IsSum
  <2> HIDE DEF y
  <2>3. CASE y = e
    BY <2>2, <2>3
  <2>4. CASE y # e
    <3>1. T \ {y} \in G /\ T \ {e} \in G
      BY <1>3, <2>2
    <3>2. g[T \ {y}] = f[e] + g[(T \ {y}) \ {e}]
      BY <2>1, <2>4, <3>1
    <3>3. g[T \ {e}] = f[y] + g[(T \ {e}) \ {y}]
      BY <2>2, <2>4, <3>1
    <3>4. (T \ {y}) \ {e} = (T \ {e}) \ {y}
      OBVIOUS
    <3>5. f[e] \in Int /\ f[y] \in Int /\ g[(T \ {e}) \ {y}] \in Int
      BY <1>2, <2>2
    <3>6. g[T \ {y}] = f[e] + g[(T \ {e}) \ {y}]
      BY <3>2, <3>4
    <3> QED
      BY <2>2, <3>3, <3>5, <3>6
  <2> QED
    BY <2>3, <2>4
<1> HIDE DEF G
<1>4. S \in G
  BY <1>3, SubsetInduction
<1>5. \A e \in S : g[S] = f[e] + g[S \ {e}]
  BY <1>4 DEF G
<1>6. ASSUME NEW e \in S PROVE SumOf(f, S) = f[e] + SumOf(f, S \ {e})
  <2>1. SumOf(f, S) = g[S] /\ SumOf(f, S \ {e}) = g[S \ {e}]
    BY <1>2
  <2> QED
    BY <1>5, <2>1
<1> QED
  BY <1>6

LEMMA SumOfMonotone ==
    ASSUME NEW S, IsFiniteSet(S), NEW f, NEW h,
           \A x \in S : f[x] \in Int /\ h[x] \in Int /\ f[x] <= h[x]
    PROVE  SumOf(f, S) <= SumOf(h, S)
<1>1. PICK g : IsSum(g, S, f)
  BY SumExists
<1>2. PICK k : IsSum(k, S, h)
  BY SumExists
<1> DEFINE G == {T \in SUBSET S : g[T] <= k[T]}
<1>3. \A T \in SUBSET S : g[T] \in Int /\ k[T] \in Int
  BY <1>1, <1>2, SumIsInteger
<1>4. ASSUME NEW T \in SUBSET S, \A U \in SUBSET T : U # T => U \in G PROVE T \in G
  <2>1. CASE T = {}
    BY <1>1, <1>2, <2>1 DEF IsSum
  <2>2. CASE T # {}
    <3> DEFINE y == Some(T)
    <3>1. y \in T /\ g[T] = f[y] + g[T \ {y}] /\ k[T] = h[y] + k[T \ {y}]
      BY <1>1, <1>2, <2>2, SomeIn DEF IsSum
    <3> HIDE DEF y
    <3>2. g[T \ {y}] <= k[T \ {y}] /\ T \ {y} \in SUBSET S
      BY <1>4, <3>1
    <3>3. g[T \ {y}] \in Int /\ k[T \ {y}] \in Int
      BY <1>3, <3>2
    <3>4. f[y] \in Int /\ h[y] \in Int /\ f[y] <= h[y]
      BY <3>1
    <3> QED
      BY <3>1, <3>2, <3>3, <3>4
  <2> QED
    BY <2>1, <2>2
<1> HIDE DEF G
<1>5. S \in G
  BY <1>4, SubsetInduction
<1>6. SumOf(f, S) = g[S] /\ SumOf(h, S) = k[S]
  BY <1>1, <1>2, SumOfPart
<1> QED
  BY <1>5, <1>6 DEF G

LEMMA SumOfSame ==
    ASSUME NEW S, IsFiniteSet(S), NEW f, NEW h, \A x \in S : f[x] = h[x] /\ f[x] \in Int
    PROVE  SumOf(f, S) = SumOf(h, S)
<1>1. SumOf(f, S) <= SumOf(h, S) /\ SumOf(h, S) <= SumOf(f, S)
  BY SumOfMonotone
<1>2. SumOf(f, S) \in Int /\ SumOf(h, S) \in Int
  BY SumOfInteger
<1> QED
  BY <1>1, <1>2

(* One term of a sum changes.                                                *)
LEMMA SumOfUpdate ==
    ASSUME NEW S, IsFiniteSet(S), NEW f, NEW h, NEW e \in S,
           \A x \in S : f[x] \in Int /\ h[x] \in Int,
           \A x \in S : x # e => f[x] = h[x]
    PROVE  SumOf(h, S) = SumOf(f, S) - f[e] + h[e]
<1>1. IsFiniteSet(S \ {e})
  BY FS_RemoveElement
<1>2. SumOf(f, S \ {e}) = SumOf(h, S \ {e}) /\ SumOf(f, S \ {e}) \in Int
  BY <1>1, SumOfSame, SumOfInteger
<1>3. SumOf(f, S) = f[e] + SumOf(f, S \ {e})
  BY SumOfRemove
<1>4. SumOf(h, S) = h[e] + SumOf(h, S \ {e})
  BY SumOfRemove
<1> QED
  BY <1>2, <1>3, <1>4

LEMMA SumOfNatural ==
    ASSUME NEW S, IsFiniteSet(S), NEW f, \A x \in S : f[x] \in Nat
    PROVE  SumOf(f, S) \in Nat
<1> DEFINE zero == [x \in S |-> 0]
           G == {T \in SUBSET S : SumOf(zero, T) = 0}
<1>1. ASSUME NEW T \in SUBSET S, \A U \in SUBSET T : U # T => U \in G PROVE T \in G
  <2>1. CASE T = {}
    BY <2>1, SumOfEmpty
  <2>2. CASE T # {}
    <3>1. PICK y \in T : TRUE
      BY <2>2
    <3>2. IsFiniteSet(T) /\ \A x \in T : zero[x] \in Int
      BY FS_Subset
    <3>3. SumOf(zero, T) = zero[y] + SumOf(zero, T \ {y})
      BY <3>1, <3>2, SumOfRemove
    <3> QED
      BY <1>1, <3>1, <3>3
  <2> QED
    BY <2>1, <2>2
<1> HIDE DEF G
<1>2. S \in G
  BY <1>1, SubsetInduction
<1>3. SumOf(zero, S) = 0
  BY <1>2 DEF G
<1>4. SumOf(zero, S) <= SumOf(f, S) /\ SumOf(f, S) \in Int
  BY SumOfMonotone, SumOfInteger
<1> QED
  BY <1>3, <1>4

(* A set named by the members of a finite set is finite and no larger. *)
LEMMA FiniteImage ==
    ASSUME NEW S, IsFiniteSet(S), NEW k
    PROVE  /\ IsFiniteSet({k[x] : x \in S})
           /\ Cardinality({k[x] : x \in S}) <= Cardinality(S)
           /\ (\A x, y \in S : k[x] = k[y] => x = y)
                  => Cardinality({k[x] : x \in S}) = Cardinality(S)
<1> DEFINE K == {k[x] : x \in S}
           f == [x \in S |-> k[x]]
<1>1. f \in Surjection(S, K)
  BY DEF Surjection
<1>2. /\ IsFiniteSet(K)
      /\ Cardinality(K) <= Cardinality(S)
      /\ Cardinality(K) = Cardinality(S) <=> f \in Injection(S, K)
  <2> HIDE DEF K, f
  <2> QED
    BY <1>1, FS_Surjection
<1>3. (\A x, y \in S : k[x] = k[y] => x = y) => f \in Injection(S, K)
  BY DEF Injection, IsInjective
<1> QED
  BY <1>2, <1>3

(* Sums over two disjoint sets add up. *)
LEMMA SumOfUnion ==
    ASSUME NEW S, NEW T, IsFiniteSet(S), IsFiniteSet(T), S \cap T = {},
           NEW f, \A x \in S \union T : f[x] \in Int
    PROVE  SumOf(f, S \union T) = SumOf(f, S) + SumOf(f, T)
<1> DEFINE G == {U \in SUBSET S : SumOf(f, U \union T) = SumOf(f, U) + SumOf(f, T)}
<1>1. ASSUME NEW U \in SUBSET S, \A V \in SUBSET U : V # U => V \in G PROVE U \in G
  <2>1. CASE U = {}
    <3>1. SumOf(f, T) \in Int
      BY SumOfInteger
    <3>2. SumOf(f, {}) = 0
      BY SumOfEmpty
    <3> QED
      BY <2>1, <3>1, <3>2
  <2>2. CASE U # {}
    <3>1. PICK y \in U : TRUE
      BY <2>2
    <3>2. IsFiniteSet(U) /\ IsFiniteSet(U \ {y}) /\ IsFiniteSet(U \union T)
      BY FS_Subset, FS_Union
    <3>3. SumOf(f, U) = f[y] + SumOf(f, U \ {y})
      BY <3>1, <3>2, SumOfRemove
    <3>4. SumOf(f, U \union T) = f[y] + SumOf(f, (U \union T) \ {y})
      BY <3>1, <3>2, SumOfRemove
    <3>5. (U \union T) \ {y} = (U \ {y}) \union T
      BY <3>1
    <3>6. SumOf(f, (U \ {y}) \union T) = SumOf(f, U \ {y}) + SumOf(f, T)
      BY <1>1, <3>1
    <3>7. f[y] \in Int /\ SumOf(f, U \ {y}) \in Int /\ SumOf(f, T) \in Int
      BY <3>1, <3>2, SumOfInteger
    <3>8. SumOf(f, U \union T) = f[y] + (SumOf(f, U \ {y}) + SumOf(f, T))
      BY <3>4, <3>5, <3>6
    <3>9. SumOf(f, U \union T) = SumOf(f, U) + SumOf(f, T)
      <4> HIDE DEF G
      <4> QED
        BY <3>3, <3>7, <3>8
    <3> QED
      BY <3>9
  <2> QED
    BY <2>1, <2>2
<1> HIDE DEF G
<1>2. S \in G
  BY <1>1, SubsetInduction
<1> QED
  BY <1>2 DEF G

(* A sum may be taken over the names of the terms. *)
LEMMA SumOfImage ==
    ASSUME NEW S, IsFiniteSet(S), NEW k, \A x, y \in S : k[x] = k[y] => x = y,
           NEW f, NEW h, \A x \in S : h[x] = f[k[x]] /\ h[x] \in Int
    PROVE  SumOf(f, {k[x] : x \in S}) = SumOf(h, S)
<1> DEFINE G == {U \in SUBSET S : SumOf(f, {k[x] : x \in U}) = SumOf(h, U)}
<1>1. ASSUME NEW U \in SUBSET S, \A V \in SUBSET U : V # U => V \in G PROVE U \in G
  <2>1. CASE U = {}
    <3>1. {k[x] : x \in U} = {}
      BY <2>1
    <3>2. SumOf(f, {}) = 0 /\ SumOf(h, {}) = 0
      BY SumOfEmpty
    <3> QED
      BY <2>1, <3>1, <3>2
  <2>2. CASE U # {}
    <3>1. PICK y \in U : TRUE
      BY <2>2
    <3> DEFINE K == {k[x] : x \in U}
    <3>2. IsFiniteSet(U) /\ IsFiniteSet(K)
      BY FS_Subset, FiniteImage
    <3>3. \A x \in U : h[x] \in Int
      OBVIOUS
    <3>4. SumOf(h, U) = h[y] + SumOf(h, U \ {y})
      BY <3>1, <3>2, <3>3, SumOfRemove
    <3>5. \A z \in K : f[z] \in Int
      OBVIOUS
    <3>6. k[y] \in K
      BY <3>1
    <3>7. K \ {k[y]} = {k[x] : x \in U \ {y}}
      BY <3>1
    <3>8. SumOf(f, K) = f[k[y]] + SumOf(f, K \ {k[y]})
      <4> HIDE DEF K
      <4> QED
        BY <3>2, <3>5, <3>6, SumOfRemove
    <3>9. SumOf(f, {k[x] : x \in U \ {y}}) = SumOf(h, U \ {y})
      <4>1. U \ {y} \in G
        BY <1>1, <3>1
      <4> QED
        BY <4>1
    <3> QED
      BY <3>1, <3>4, <3>7, <3>8, <3>9
  <2> QED
    BY <2>1, <2>2
<1> HIDE DEF G
<1>2. S \in G
  BY <1>1, SubsetInduction
<1> QED
  BY <1>2 DEF G

(* A sum is the sum of the sums over the groups of a key. *)
Grouped(h, f, key, S) ==
    \A k \in {key[x] : x \in S} : h[k] = SumOf(f, {x \in S : key[x] = k})

LEMMA SumOfGroups ==
    ASSUME NEW S, IsFiniteSet(S), NEW f, \A x \in S : f[x] \in Int,
           NEW key, NEW h, Grouped(h, f, key, S)
    PROVE  SumOf(h, {key[x] : x \in S}) = SumOf(f, S)
<1> DEFINE K == {key[x] : x \in S}
           Part(L) == {x \in S : key[x] \in L}
           G == {L \in SUBSET K : SumOf(h, L) = SumOf(f, Part(L))}
<1>1. IsFiniteSet(K)
  BY FiniteImage
<1>2. \A k \in K : h[k] = SumOf(f, {x \in S : key[x] = k}) /\ h[k] \in Int
  <2>1. SUFFICES ASSUME NEW k \in K PROVE SumOf(f, {x \in S : key[x] = k}) \in Int
    BY DEF Grouped
  <2>2. IsFiniteSet({x \in S : key[x] = k})
    BY FS_Subset
  <2> QED
    BY <2>2, SumOfInteger
<1>3. ASSUME NEW L \in SUBSET K, \A M \in SUBSET L : M # L => M \in G PROVE L \in G
  <2>1. CASE L = {}
    <3>1. Part(L) = {}
      BY <2>1
    <3>2. SumOf(f, {}) = 0 /\ SumOf(h, {}) = 0
      BY SumOfEmpty
    <3> QED
      BY <2>1, <3>1, <3>2
  <2>2. CASE L # {}
    <3>1. PICK k \in L : TRUE
      BY <2>2
    <3>2. IsFiniteSet(L)
      BY <1>1, FS_Subset
    <3>3. \A x \in L : h[x] \in Int
      BY <1>2
    <3>4. SumOf(h, L) = h[k] + SumOf(h, L \ {k})
      <4> HIDE DEF K
      <4> QED
        BY <3>1, <3>2, <3>3, SumOfRemove
    <3>5. SumOf(h, L \ {k}) = SumOf(f, Part(L \ {k}))
      <4>1. L \ {k} \in G
        BY <1>3, <3>1
      <4> QED
        BY <4>1
    <3> DEFINE One == {x \in S : key[x] = k}
    <3>6. h[k] = SumOf(f, One)
      BY <1>2, <3>1
    <3>7. Part(L) = One \union Part(L \ {k}) /\ One \cap Part(L \ {k}) = {}
      BY <3>1
    <3>8. IsFiniteSet(One) /\ IsFiniteSet(Part(L \ {k}))
      BY FS_Subset
    <3>9. SumOf(f, One \union Part(L \ {k})) = SumOf(f, One) + SumOf(f, Part(L \ {k}))
      <4>1. \A x \in One \union Part(L \ {k}) : f[x] \in Int
        OBVIOUS
      <4> HIDE DEF One, Part
      <4> QED
        BY <3>7, <3>8, <4>1, SumOfUnion
    <3> QED
      BY <3>4, <3>5, <3>6, <3>7, <3>9
  <2> QED
    BY <2>1, <2>2
<1> HIDE DEF G
<1>4. K \in G
  <2> HIDE DEF K
  <2> QED
    BY <1>1, <1>3, SubsetInduction
<1>5. Part(K) = S
  OBVIOUS
<1> QED
  BY <1>4, <1>5 DEF G

(* To count is to add ones. *)
LEMMA SumOfOnes ==
    ASSUME NEW S, IsFiniteSet(S), NEW W \in SUBSET S,
           NEW f, \A x \in S : f[x] = IF x \in W THEN 1 ELSE 0
    PROVE  SumOf(f, S) = Cardinality(W)
<1> DEFINE G == {U \in SUBSET S : SumOf(f, U) = Cardinality(U \cap W)}
<1>1. ASSUME NEW U \in SUBSET S, \A V \in SUBSET U : V # U => V \in G PROVE U \in G
  <2>1. CASE U = {}
    <3>1. U \cap W = {}
      BY <2>1
    <3> QED
      BY <2>1, <3>1, SumOfEmpty, FS_EmptySet
  <2>2. CASE U # {}
    <3>1. PICK y \in U : TRUE
      BY <2>2
    <3>2. IsFiniteSet(U) /\ IsFiniteSet(U \cap W) /\ \A x \in U : f[x] \in Int
      BY FS_Subset
    <3>3. SumOf(f, U) = f[y] + SumOf(f, U \ {y})
      BY <3>1, <3>2, SumOfRemove
    <3>4. SumOf(f, U \ {y}) = Cardinality((U \ {y}) \cap W)
      BY <1>1, <3>1
    <3>5. CASE y \in W
      <4>1. (U \ {y}) \cap W = (U \cap W) \ {y} /\ y \in U \cap W
        BY <3>1, <3>5
      <4>2. Cardinality((U \cap W) \ {y}) = Cardinality(U \cap W) - 1
        <5> HIDE DEF G
        <5> QED
          BY <3>2, <4>1, FS_RemoveElement
      <4>3. Cardinality(U \cap W) \in Nat
        BY <3>2, FS_CardinalityType
      <4>4. f[y] = 1
        BY <3>1, <3>5
      <4>5. SumOf(f, U) = 1 + Cardinality((U \cap W) \ {y})
        BY <3>3, <3>4, <4>1, <4>4
      <4>6. SumOf(f, U) = Cardinality(U \cap W)
        <5> HIDE DEF G
        <5> QED
          BY <4>2, <4>3, <4>5
      <4> QED
        BY <4>6
    <3>6. CASE y \notin W
      <4>1. (U \ {y}) \cap W = U \cap W
        BY <3>6
      <4>2. f[y] = 0 /\ Cardinality(U \cap W) \in Nat
        BY <3>1, <3>2, <3>6, FS_CardinalityType
      <4>3. SumOf(f, U) = Cardinality(U \cap W)
        <5> HIDE DEF G
        <5> QED
          BY <3>3, <3>4, <4>1, <4>2
      <4> QED
        BY <4>3
    <3> QED
      BY <3>5, <3>6
  <2> QED
    BY <2>1, <2>2
<1> HIDE DEF G
<1>2. S \in G
  BY <1>1, SubsetInduction, SMTT(60)
<1>3. S \cap W = W
  OBVIOUS
<1> QED
  BY <1>2, <1>3 DEF G

LEMMA MaxExists ==
    ASSUME NEW S, IsFiniteSet(S), S # {}, S \subseteq Int
    PROVE  Max(S) \in S /\ \A x \in S : Max(S) >= x
<1> DEFINE Topped(T) == T = {} \/ \E x \in T : \A y \in T : x >= y
           G == {T \in SUBSET S : Topped(T)}
<1>1. ASSUME NEW T \in SUBSET S, \A U \in SUBSET T : U # T => U \in G PROVE T \in G
  <2>1. CASE T = {}
    BY <2>1
  <2>2. CASE T # {}
    <3>1. PICK e \in T : TRUE
      BY <2>2
    <3>2. Topped(T \ {e})
      <4>1. T \ {e} \in SUBSET T /\ T \ {e} # T
        BY <3>1
      <4>2. T \ {e} \in G
        BY <1>1, <4>1
      <4> QED
        BY <4>2
    <3>3. CASE T \ {e} = {}
      <4>1. T = {e}
        BY <3>1, <3>3
      <4>2. e \in Int
        BY <3>1
      <4> QED
        BY <4>1, <4>2
    <3>4. CASE \E x \in T \ {e} : \A y \in T \ {e} : x >= y
      <4>1. PICK x \in T \ {e} : \A y \in T \ {e} : x >= y
        BY <3>4
      <4>2. x \in Int /\ e \in Int /\ T \subseteq Int
        BY <3>1, <4>1
      <4>3. \A y \in T : x >= y \/ y = e
        BY <4>1
      <4>4. CASE x >= e
        BY <4>1, <4>3, <4>4
      <4>5. CASE ~(x >= e)
        <5>1. \A y \in T : e >= y
          BY <4>2, <4>3, <4>5
        <5> QED
          BY <3>1, <5>1
      <4> QED
        BY <4>4, <4>5
    <3> QED
      BY <3>2, <3>3, <3>4
  <2> QED
    BY <2>1, <2>2
<1>2. \A T \in SUBSET S : T \in G
  <2> HIDE DEF G
  <2> QED
    BY <1>1, SubsetInduction
<1>3. \E x \in S : \A y \in S : x >= y
  BY <1>2
<1> QED
  BY <1>3 DEF Max

(* The greater of two integers is one.                                       *)
LEMMA MaxIsInt == ASSUME NEW a \in Int, NEW b \in Int PROVE Max({a, b}) \in Int
BY MaxOfTwo


(* A finite set of numbers has a least one: of its initial segments one is   *)
(* smallest.                                                                 *)
LEMMA LeastExists ==
  ASSUME NEW S \in SUBSET Nat, IsFiniteSet(S), S # {}
  PROVE  \E m \in S : \A y \in S : m <= y
<1> DEFINE Upto(x) == {y \in S : y <= x}
           Segments == {Upto(x) : x \in S}
<1>1. Segments \subseteq FiniteSubsetsOf(S) /\ Segments # {}
  <2>1. \A x \in S : Upto(x) \subseteq S /\ IsFiniteSet(Upto(x))
    BY FS_Subset
  <2> HIDE DEF Upto
  <2> QED
    BY <2>1 DEF FiniteSubsetsOf
<1>2. PICK U \in Segments : \A V \in Segments : ~(<<V, U>> \in StrictSubsetOrdering(S))
  <2> HIDE DEF Segments
  <2> QED
    BY <1>1, FS_StrictSubsetOrderingWellFounded, WFMin
<1>3. PICK m \in S : U = Upto(m)
  BY <1>2
<1>4. ASSUME NEW y \in S PROVE m <= y
  <2>1. SUFFICES ASSUME y < m PROVE FALSE
    OBVIOUS
  <2>2. Upto(y) \subseteq Upto(m) /\ Upto(y) # Upto(m) /\ Upto(m) \subseteq S
    <3>1. m \in Upto(m) /\ m \notin Upto(y)
      BY <2>1
    <3>2. \A x \in S : x <= y => x <= m
      BY <2>1
    <3> QED
      BY <3>1, <3>2
  <2>3. <<Upto(y), U>> \in StrictSubsetOrdering(S)
    <3> HIDE DEF Upto
    <3> QED
      BY <1>3, <2>2 DEF StrictSubsetOrdering
  <2> QED
    BY <1>2, <2>3
<1> QED
  BY <1>4

(* A set of numbers up to n that goes on from one to the next has them all.  *)
LEMMA UpTo ==
  ASSUME NEW n \in Nat, NEW G, 0 \in G, \A k \in 0 .. n : k + 1 <= n /\ k \in G => k + 1 \in G
  PROVE  \A k \in 0 .. n : k \in G
<1> DEFINE Bad == {k \in 0 .. n : k \notin G}
<1>1. SUFFICES ASSUME Bad # {} PROVE FALSE
  OBVIOUS
<1>2. IsFiniteSet(Bad) /\ Bad \in SUBSET Nat
  <2>1. IsFiniteSet(0 .. n)
    BY FS_Interval
  <2>2. IsFiniteSet(Bad)
    BY <2>1, FS_Subset
  <2> QED
    BY <2>2
<1>3. PICK k \in Bad : \A j \in Bad : k <= j
  <2> HIDE DEF Bad
  <2> QED
    BY <1>1, <1>2, LeastExists
<1>4. k \in 1 .. n /\ k - 1 \in 0 .. n
  BY <1>3
<1>5. k - 1 \in G
  BY <1>3, <1>4
<1> QED
  BY <1>4, <1>5

-----------------------------------------------------------------------------
(* Numbers: least members, quotients, roots, and sums of squares.            *)

(* A non-empty finite set of integers has a least one, and Min is it.        *)
LEMMA MinExists ==
    ASSUME NEW S, IsFiniteSet(S), S # {}, S \subseteq Int
    PROVE  Min(S) \in S /\ \A y \in S : Min(S) <= y
<1> DEFINE k == [y \in S |-> 0 - y]
           N == {k[y] : y \in S}
<1>1. IsFiniteSet(N) /\ N # {} /\ N \subseteq Int
  <2>1. \A y \in S : k[y] \in Int
    OBVIOUS
  <2> HIDE DEF k
  <2> QED
    BY <2>1, FiniteImage
<1> DEFINE a == Max(N)
<1>2. a \in N /\ \A y \in N : a >= y
  <2> HIDE DEF N
  <2> QED
    BY <1>1, MaxExists
<1>3. PICK m \in S : a = k[m]
  BY <1>2
<1>4. \A y \in S : m <= y
  <2> SUFFICES ASSUME NEW y \in S PROVE m <= y
    OBVIOUS
  <2>1. a >= k[y]
    BY <1>2
  <2>2. a = 0 - m /\ k[y] = 0 - y /\ m \in Int /\ y \in Int
    BY <1>3
  <2> HIDE DEF a, k
  <2> QED
    BY <2>1, <2>2
<1>5. \A x \in S : (\A y \in S : x =< y) => x = m
  BY <1>4
<1> HIDE DEF a, k
<1>6. Min(S) = m
  BY <1>4, <1>5 DEF Min
<1> QED
  BY <1>4, <1>6

(* Whole division: the greatest factor that stays in reach.                  *)
LEMMA Quotient ==
    ASSUME NEW a \in Nat, NEW b \in Nat \ {0}
    PROVE  /\ a \div b \in Nat /\ b * (a \div b) <= a
           /\ \A r \in Int : b * r <= a => r <= a \div b
<1> DEFINE q == a \div b
<1>1. q \in Int /\ b * q <= a /\ a < b * q + b
  BY SMTT(30)
<1> HIDE DEF q
<1>2. \A r \in Int : b * r <= a => r <= q
  <2> SUFFICES ASSUME NEW r \in Int, b * r <= a, ~(r <= q) PROVE FALSE
    OBVIOUS
  <2>1. r - (q + 1) \in Nat
    BY <1>1
  <2>2. \A x, y \in Nat : x * y >= 0
    OBVIOUS
  <2>3. b * (r - (q + 1)) >= 0
    BY <2>1, <2>2
  <2>4. b * (r - (q + 1)) = b * r - b * q - b /\ b * r \in Int /\ b * q \in Int
    BY <1>1
  <2> QED
    BY <1>1, <2>3, <2>4
<1>3. 0 <= q
  <2>1. b * 0 <= a /\ 0 \in Int
    OBVIOUS
  <2> QED
    BY <1>2, <2>1
<1> QED
  BY <1>1, <1>2, <1>3 DEF q

(* Squares keep the order of natural numbers.                                *)
LEMMA RootOrder ==
    ASSUME NEW a \in Nat, NEW b \in Nat, a * a <= b * b
    PROVE  a <= b
<1> SUFFICES ASSUME b < a PROVE FALSE
  OBVIOUS
<1>1. (a - b) * (a + b) = a * a - b * b
  OBVIOUS
<1>2. a - b >= 1 /\ a + b >= 1 /\ a - b \in Nat /\ a + b \in Nat
  OBVIOUS
<1>3. \A x, y \in Nat : x >= 1 /\ y >= 1 => x * y >= 1
  OBVIOUS
<1>4. (a - b) * (a + b) >= 1
  BY <1>2, <1>3
<1>5. a * a \in Int /\ b * b \in Int
  OBVIOUS
<1> QED
  BY <1>1, <1>4, <1>5

(* A positive factor cancels.                                                *)
LEMMA Cancelled ==
    ASSUME NEW a \in Int, NEW b \in Int, NEW k \in Nat \ {0}, a * k <= b * k
    PROVE  a <= b
<1> SUFFICES ASSUME b < a PROVE FALSE
  OBVIOUS
<1>1. a - b >= 1 /\ a - b \in Nat /\ k >= 1
  OBVIOUS
<1>2. \A x, y \in Nat : x >= 1 /\ y >= 1 => x * y >= 1
  OBVIOUS
<1>3. (a - b) * k >= 1
  BY <1>1, <1>2
<1>4. (a - b) * k = a * k - b * k /\ a * k \in Int /\ b * k \in Int
  OBVIOUS
<1> QED
  BY <1>3, <1>4

(* Sums of a list shifted by c.                                              *)
Shifted(n, v, c, w, vv, ww) ==
    /\ n \in Nat /\ v \in [1 .. n -> Int] /\ c \in Int
    /\ \A i \in 1 .. n : w[i] = v[i] - c /\ vv[i] = v[i] * v[i] /\ ww[i] = w[i] * w[i]

(* Shifting every value by c shifts the sums and leaves the scatter alone.   *)
LEMMA ShiftedSums ==
    ASSUME NEW n, NEW v, NEW c, NEW w, NEW vv, NEW ww, Shifted(n, v, c, w, vv, ww)
    PROVE  \A k \in 0 .. n :
               /\ SumOf(v, 1 .. k) \in Int /\ SumOf(vv, 1 .. k) \in Int
               /\ SumOf(w, 1 .. k) = SumOf(v, 1 .. k) - k * c
               /\ SumOf(ww, 1 .. k)
                      = SumOf(vv, 1 .. k) - 2 * (c * SumOf(v, 1 .. k)) + k * (c * c)
<1> DEFINE V(k) == SumOf(v, 1 .. k)
           W(k) == SumOf(w, 1 .. k)
           VV(k) == SumOf(vv, 1 .. k)
           WW(k) == SumOf(ww, 1 .. k)
           Right(k) == /\ V(k) \in Int /\ VV(k) \in Int
                       /\ W(k) = V(k) - k * c
                       /\ WW(k) = VV(k) - 2 * (c * V(k)) + k * (c * c)
           G == {k \in 0 .. n : Right(k)}
<1> USE DEF Shifted
<1>1. 0 \in G
  <2>1. 1 .. 0 = {}
    OBVIOUS
  <2>2. V(0) = 0 /\ W(0) = 0 /\ VV(0) = 0 /\ WW(0) = 0
    BY <2>1, SumOfEmpty
  <2> HIDE DEF V, W, VV, WW
  <2>3. 0 * c = 0 /\ 0 * (c * c) = 0 /\ 2 * (c * 0) = 0
    OBVIOUS
  <2> QED
    BY <2>2, <2>3
<1>2. ASSUME NEW k \in 0 .. n, k + 1 <= n, k \in G PROVE k + 1 \in G
  <2> DEFINE x == v[k + 1]
  <2>1. /\ k + 1 \in 1 .. n /\ x \in Int
        /\ w[k + 1] = x - c /\ vv[k + 1] = x * x /\ ww[k + 1] = (x - c) * (x - c)
    BY <1>2, SMTT(30)
  <2>2. \A i \in 1 .. k + 1 : v[i] \in Int /\ w[i] \in Int /\ vv[i] \in Int /\ ww[i] \in Int
    <3>1. \A i \in 1 .. k + 1 : i \in 1 .. n
      BY <1>2
    <3>2. \A a \in Int : a - c \in Int /\ a * a \in Int
      OBVIOUS
    <3> QED
      BY <3>1, <3>2
  <2>3. \A f : (\A i \in 1 .. k + 1 : f[i] \in Int)
                  => SumOf(f, 1 .. k + 1) = f[k + 1] + SumOf(f, 1 .. k)
    <3>1. /\ k + 1 \in Int /\ k + 1 \in 1 .. k + 1
          /\ (1 .. k + 1) \ {k + 1} = 1 .. k
      <4>1. k \in Nat
        BY <1>2
      <4>2. \A i \in 1 .. k + 1 : i # k + 1 <=> i \in 1 .. k
        BY <4>1
      <4>3. \A i \in 1 .. k : i \in 1 .. k + 1
        BY <4>1
      <4> QED
        BY <4>1, <4>2, <4>3, SMTT(30)
    <3>2. IsFiniteSet(1 .. k + 1)
      BY <3>1, FS_Interval
    <3>3. \A f : (\A i \in 1 .. k + 1 : f[i] \in Int)
                  => SumOf(f, 1 .. k + 1) = f[k + 1] + SumOf(f, (1 .. k + 1) \ {k + 1})
      BY <3>1, <3>2, SumOfRemove
    <3> QED
      BY <3>1, <3>3
  <2>4. V(k + 1) = x + V(k) /\ W(k + 1) = x - c + W(k) /\ VV(k + 1) = x * x + VV(k)
        /\ WW(k + 1) = (x - c) * (x - c) + WW(k)
    BY <2>1, <2>2, <2>3
  <2>5. Right(k)
    BY <1>2
  <2> HIDE DEF V, W, VV, WW, x
  <2>6. V(k + 1) \in Int /\ VV(k + 1) \in Int
    <3>1. x * x \in Int /\ V(k) \in Int /\ VV(k) \in Int
      BY <2>1, <2>5
    <3> QED
      BY <2>1, <2>4, <3>1, SMTT(30)
  <2>7. W(k + 1) = V(k + 1) - (k + 1) * c
    BY <1>2, <2>1, <2>4, <2>5
  <2>8. WW(k + 1) = VV(k + 1) - 2 * (c * V(k + 1)) + (k + 1) * (c * c)
    <3> DEFINE a == V(k)
               b == VV(k)
               cc == c * c
               cx == c * x
               ca == c * a
               kcc == k * cc
               xx == x * x
    <3>1. a \in Int /\ b \in Int /\ k \in Int
      BY <2>5, <1>2
    <3>2. (x - c) * (x - c) = xx - 2 * cx + cc
      BY <2>1
    <3>3. c * (x + a) = cx + ca
      BY <2>1, <3>1
    <3>4. (k + 1) * cc = kcc + cc
      BY <3>1
    <3>5. cc \in Int /\ cx \in Int /\ ca \in Int /\ kcc \in Int /\ xx \in Int
      BY <2>1, <3>1
    <3>6. V(k + 1) = x + a /\ VV(k + 1) = xx + b /\ WW(k) = b - 2 * ca + kcc
          /\ WW(k + 1) = (x - c) * (x - c) + WW(k)
      BY <2>4, <2>5
    <3>7. WW(k + 1) = (xx - 2 * cx + cc) + (b - 2 * ca + kcc)
      BY <3>2, <3>6
    <3>8. c * V(k + 1) = cx + ca
      BY <3>3, <3>6
    <3> HIDE DEF a, b, cc, cx, ca, kcc, xx
    <3>9. WW(k + 1) = (xx + b) - 2 * (cx + ca) + (kcc + cc)
      BY <3>1, <3>5, <3>7
    <3>10. WW(k + 1) = VV(k + 1) - 2 * (c * V(k + 1)) + (k + 1) * cc
      BY <3>4, <3>6, <3>8, <3>9
    <3> QED
      BY <3>10 DEF cc
  <2> QED
    BY <1>2, <2>6, <2>7, <2>8
<1>3. \A k \in 0 .. n : k \in G
  <2> HIDE DEF G
  <2>1. \A k \in 0 .. n : k + 1 <= n /\ k \in G => k + 1 \in G
    BY <1>2
  <2> QED
    BY <1>1, <2>1, UpTo
<1> QED
  BY <1>3

(* A sum up to k + 1 is the sum up to k and one more term.                   *)
LEMMA OneMoreTerm ==
    ASSUME NEW k \in Nat, NEW f, \A i \in 1 .. k + 1 : f[i] \in Int
    PROVE  SumOf(f, 1 .. k + 1) = f[k + 1] + SumOf(f, 1 .. k) /\ SumOf(f, 1 .. k) \in Int
<1>1. k + 1 \in 1 .. k + 1 /\ (1 .. k + 1) \ {k + 1} = 1 .. k
  <2>1. \A i \in 1 .. k + 1 : i # k + 1 <=> i \in 1 .. k
    OBVIOUS
  <2>2. \A i \in 1 .. k : i \in 1 .. k + 1
    OBVIOUS
  <2> QED
    BY <2>1, <2>2
<1>2. IsFiniteSet(1 .. k + 1) /\ IsFiniteSet(1 .. k)
  <2>1. k + 1 \in Int /\ k \in Int
    OBVIOUS
  <2> QED
    BY <2>1, FS_Interval
<1>3. SumOf(f, 1 .. k + 1) = f[k + 1] + SumOf(f, (1 .. k + 1) \ {k + 1})
  BY <1>1, <1>2, SumOfRemove
<1>4. \A i \in 1 .. k : f[i] \in Int
  BY <1>1
<1> QED
  BY <1>1, <1>2, <1>3, <1>4, SumOfInteger

(* n times the sum of the squares is at least the square of the sum.         *)
LEMMA SquaresOutweigh ==
    ASSUME NEW n \in Nat, NEW v \in [1 .. n -> Int],
           NEW vv, \A i \in 1 .. n : vv[i] = v[i] * v[i]
    PROVE  n * SumOf(vv, 1 .. n) - SumOf(v, 1 .. n) * SumOf(v, 1 .. n) >= 0
<1> DEFINE V(k) == SumOf(v, 1 .. k)
           VV(k) == SumOf(vv, 1 .. k)
           G == {k \in 0 .. n : k * VV(k) - V(k) * V(k) >= 0}
<1>1. 0 \in G
  <2>1. 1 .. 0 = {}
    OBVIOUS
  <2>2. V(0) = 0 /\ VV(0) = 0
    BY <2>1, SumOfEmpty
  <2> HIDE DEF V, VV
  <2> QED
    BY <2>2
<1>2. ASSUME NEW k \in 0 .. n, k + 1 <= n, k \in G PROVE k + 1 \in G
  <2> DEFINE x == v[k + 1]
             w == [i \in 1 .. n |-> v[i] - x]
             ww == [i \in 1 .. n |-> w[i] * w[i]]
  <2>1. /\ k + 1 \in 1 .. n /\ x \in Int /\ vv[k + 1] = x * x /\ k \in Nat
        /\ \A i \in 1 .. k + 1 : v[i] \in Int /\ vv[i] \in Int
    BY <1>2
  <2>2. V(k + 1) = x + V(k) /\ VV(k + 1) = x * x + VV(k) /\ V(k) \in Int /\ VV(k) \in Int
    BY <2>1, OneMoreTerm
  <2>3. SumOf(ww, 1 .. k) = VV(k) - 2 * (x * V(k)) + k * (x * x)
    <3>1. Shifted(n, v, x, w, vv, ww) /\ k \in 0 .. n
      BY <2>1 DEF Shifted
    <3> HIDE DEF x, w, ww, V, VV
    <3>2. \A kk \in 0 .. n : SumOf(ww, 1 .. kk)
            = SumOf(vv, 1 .. kk) - 2 * (x * SumOf(v, 1 .. kk)) + kk * (x * x)
      BY <3>1, ShiftedSums
    <3> QED
      BY <3>1, <3>2 DEF V, VV
  <2>4. SumOf(ww, 1 .. k) >= 0
    <3>1. \A i \in 1 .. k : w[i] \in Int /\ ww[i] = w[i] * w[i]
      BY <1>2, <2>1
    <3>2. \A a \in Int : a * a \in Nat
      OBVIOUS
    <3>3. \A i \in 1 .. k : ww[i] \in Nat
      BY <3>1, <3>2
    <3>4. IsFiniteSet(1 .. k)
      BY <2>1, FS_Interval
    <3> HIDE DEF ww
    <3>5. SumOf(ww, 1 .. k) \in Nat
      BY <3>3, <3>4, SumOfNatural
    <3> QED
      BY <3>5
  <2> DEFINE a == V(k)
             b == VV(k)
             xa == x * a
             kb == k * b
             kxx == k * (x * x)
             xx == x * x
             aa == a * a
  <2>5. kb - aa >= 0
    BY <1>2
  <2>6. a \in Int /\ b \in Int /\ k \in Int /\ x \in Int
    BY <2>1, <2>2
  <2>7. b - 2 * xa + kxx >= 0
    BY <2>3, <2>4
  <2>8. V(k + 1) = x + a /\ VV(k + 1) = xx + b
    BY <2>2
  <2>9. k + 1 \in 0 .. n
    BY <1>2
  <2> HIDE DEF V, VV, w, ww, x, a, b
  <2>10. (k + 1) * (xx + b) = kxx + xx + kb + b
    BY <2>6
  <2>11. (x + a) * (x + a) = xx + 2 * xa + aa
    BY <2>6
  <2>12. xa \in Int /\ kb \in Int /\ kxx \in Int /\ xx \in Int /\ aa \in Int
    BY <2>6
  <2> HIDE DEF xa, kb, kxx, xx, aa
  <2>13. (k + 1) * VV(k + 1) - V(k + 1) * V(k + 1) >= 0
    BY <2>5, <2>6, <2>7, <2>8, <2>10, <2>11, <2>12
  <2> QED
    BY <2>9, <2>13
<1>3. n \in G
  <2> HIDE DEF G
  <2>1. \A k \in 0 .. n : k + 1 <= n /\ k \in G => k + 1 \in G
    BY <1>2
  <2>2. \A k \in 0 .. n : k \in G
    BY <1>1, <2>1, UpTo
  <2> QED
    BY <2>2
<1> QED
  BY <1>3

(* The squares of numbers at most r from the first one.                      *)
LEMMA SpreadBounds ==
    ASSUME NEW n \in Nat, n # 0, NEW v \in [1 .. n -> Int], NEW r \in Nat,
           \A i, j \in 1 .. n : v[i] - v[j] <= r,
           NEW vv, \A i \in 1 .. n : vv[i] = v[i] * v[i]
    PROVE  n * SumOf(vv, 1 .. n) - SumOf(v, 1 .. n) * SumOf(v, 1 .. n)
               <= n * ((n - 1) * (r * r))
<1> DEFINE c == v[1]
           w == [i \in 1 .. n |-> v[i] - c]
           ww == [i \in 1 .. n |-> w[i] * w[i]]
           WW(k) == SumOf(ww, 1 .. k)
           rr == r * r
           G == {k \in 0 .. n : k # 0 => WW(k) <= (k - 1) * rr}
<1>1. c \in Int /\ rr \in Nat /\ 1 \in 1 .. n
  <2>1. r * r \in Nat
    OBVIOUS
  <2> QED
    BY <2>1
<1>2. \A i \in 1 .. n : ww[i] \in Int /\ ww[i] <= rr
  <2> SUFFICES ASSUME NEW i \in 1 .. n PROVE ww[i] \in Int /\ ww[i] <= rr
    OBVIOUS
  <2> DEFINE a == w[i]
  <2>1. a \in Int /\ a <= r /\ 0 - r <= a
    BY <1>1, SMTT(30)
  <2>2. ww[i] = a * a
    OBVIOUS
  <2> HIDE DEF a, ww
  <2>3. (r - a) * (r + a) >= 0
    <3>1. r - a \in Nat /\ r + a \in Nat
      BY <2>1
    <3>2. \A p, q \in Nat : p * q >= 0
      OBVIOUS
    <3> QED
      BY <3>1, <3>2
  <2>4. (r - a) * (r + a) = r * r - a * a
    BY <2>1
  <2>5. a * a \in Int /\ r * r \in Int
    BY <2>1
  <2> QED
    BY <2>2, <2>3, <2>4, <2>5
<1>3. ww[1] = 0
  <2>1. w[1] = 0
    BY <1>1
  <2>2. ww[1] = w[1] * w[1]
    BY <1>1
  <2> QED
    BY <2>1, <2>2
<1>4. 0 \in G
  OBVIOUS
<1>5. ASSUME NEW k \in 0 .. n, k + 1 <= n, k \in G PROVE k + 1 \in G
  <2>1. k \in Nat /\ k + 1 \in 1 .. n /\ \A i \in 1 .. k + 1 : i \in 1 .. n
    BY <1>5
  <2>2. \A i \in 1 .. k + 1 : ww[i] \in Int
    BY <1>2, <2>1
  <2>3. WW(k + 1) = ww[k + 1] + WW(k) /\ WW(k) \in Int
    <3> HIDE DEF ww
    <3> QED
      BY <2>1, <2>2, OneMoreTerm
  <2>4. CASE k = 0
    <3>1. 1 .. 0 = {}
      OBVIOUS
    <3>2. WW(0) = 0
      BY <3>1, SumOfEmpty
    <3>3. WW(k + 1) = 0 /\ (k + 1 - 1) * rr = 0
      <4> HIDE DEF WW, ww, rr
      <4> QED
        BY <1>1, <1>3, <2>3, <2>4, <3>2
    <3> HIDE DEF WW
    <3> QED
      BY <1>5, <3>3
  <2>5. CASE k # 0
    <3>1. WW(k) <= (k - 1) * rr
      BY <1>5, <2>5
    <3>2. ww[k + 1] <= rr /\ ww[k + 1] \in Int
      BY <1>2, <2>1
    <3> HIDE DEF WW, ww, rr
    <3>3. (k + 1 - 1) * rr = (k - 1) * rr + rr /\ (k - 1) * rr \in Int
      BY <1>1, <2>1
    <3>4. WW(k + 1) <= (k + 1 - 1) * rr
      BY <1>1, <2>3, <3>1, <3>2, <3>3, SMTT(30)
    <3> QED
      BY <1>5, <3>4
  <2> QED
    BY <2>4, <2>5
<1>6. n \in G
  <2> HIDE DEF G
  <2>1. \A k \in 0 .. n : k + 1 <= n /\ k \in G => k + 1 \in G
    BY <1>5
  <2>2. \A k \in 0 .. n : k \in G
    BY <1>4, <2>1, UpTo
  <2> QED
    BY <2>2
<1>7. WW(n) <= (n - 1) * rr
  BY <1>6
<1> DEFINE V == SumOf(v, 1 .. n)
           VV == SumOf(vv, 1 .. n)
           W == SumOf(w, 1 .. n)
<1>8. /\ V \in Int /\ VV \in Int
      /\ W = V - n * c
      /\ WW(n) = VV - 2 * (c * V) + n * (c * c)
  <2>1. Shifted(n, v, c, w, vv, ww) /\ n \in 0 .. n
    BY <1>1 DEF Shifted
  <2> HIDE DEF c, w, ww
  <2> QED
    BY <2>1, ShiftedSums
<1>9. n * WW(n) - W * W = n * VV - V * V
  <2> DEFINE cV == c * V
             ncV == n * cV
             cc == c * c
             ncc == n * cc
             nncc == n * ncc
             nVV == n * VV
             v2 == V * V
             nc == n * c
             d == WW(n)
  <2>1. d = VV - 2 * cV + ncc /\ W = V - nc
    BY <1>8
  <2> HIDE DEF c, W, V, VV, WW, d
  <2>2. nc * nc = nncc /\ V * nc = ncV
    BY <1>1, <1>8
  <2>3. cV \in Int /\ ncV \in Int /\ ncc \in Int /\ nncc \in Int /\ nVV \in Int
        /\ v2 \in Int /\ nc \in Int
    BY <1>1, <1>8
  <2>4. n * (VV - 2 * cV + ncc) = nVV - 2 * ncV + nncc
    BY <1>1, <1>8
  <2>5. (V - nc) * (V - nc) = v2 - 2 * (V * nc) + nc * nc
    BY <1>1, <1>8
  <2> HIDE DEF cV, ncV, cc, ncc, nncc, nVV, v2, nc
  <2>6. n * d = nVV - 2 * ncV + nncc
    BY <2>1, <2>4
  <2>7. W * W = v2 - 2 * ncV + nncc
    BY <2>1, <2>2, <2>5
  <2>8. n * d - W * W = nVV - v2
    BY <2>3, <2>6, <2>7
  <2> QED
    BY <2>8 DEF d, nVV, v2
<1>10. WW(n) \in Int /\ W \in Int
  <2> DEFINE cV == c * V
             cc == c * c
             ncc == n * cc
             nc == n * c
  <2>1. WW(n) = VV - 2 * cV + ncc /\ W = V - nc
    BY <1>8
  <2> HIDE DEF c, W, V, VV, WW
  <2>2. cV \in Int /\ ncc \in Int /\ nc \in Int
    BY <1>1, <1>8
  <2> QED
    BY <1>8, <2>1, <2>2, SMTT(30)
<1>11. n * WW(n) <= n * ((n - 1) * rr)
  <2> DEFINE d == WW(n)
             e == (n - 1) * rr
  <2>1. d \in Int /\ e \in Int /\ d <= e
    BY <1>1, <1>7, <1>10
  <2> HIDE DEF d, e, WW
  <2>2. n * (e - d) >= 0
    <3>1. e - d \in Nat
      BY <2>1
    <3>2. \A p, q \in Nat : p * q >= 0
      OBVIOUS
    <3> QED
      BY <3>1, <3>2
  <2>3. n * (e - d) = n * e - n * d /\ n * e \in Int /\ n * d \in Int
    BY <2>1
  <2>4. n * d <= n * e
    BY <2>2, <2>3
  <2> QED
    BY <2>4 DEF d, e
<1>12. W * W >= 0 /\ W * W \in Int
  <2> HIDE DEF W
  <2>1. \A a \in Int : a * a \in Nat
    OBVIOUS
  <2> QED
    BY <1>10, <2>1
<1> DEFINE p == n * WW(n)
           q == n * VV - V * V
           t == n * ((n - 1) * rr)
<1>13. p \in Int /\ q \in Int /\ t \in Int
  <2> HIDE DEF V, VV, WW, rr
  <2> QED
    BY <1>1, <1>8, <1>10
<1>14. p - W * W = q /\ p <= t
  BY <1>9, <1>11
<1>15. q <= t
  <2> HIDE DEF p, q, t, W
  <2> QED
    BY <1>12, <1>13, <1>14
<1> QED
  BY <1>15

-----------------------------------------------------------------------------
(* Folds over lists, element by element.                                     *)

(* The greatest of the first n numbers, and what is left without it.         *)
LEMMA MaxOfPrefix ==
    ASSUME NEW n \in Nat, n # 0
    PROVE  Max(1 .. n) = n /\ (1 .. n) \ {Max(1 .. n)} = 1 .. n - 1
<1>1. n \in 1 .. n /\ \A y \in 1 .. n : n >= y
  OBVIOUS
<1>2. \A x \in 1 .. n : (\A y \in 1 .. n : x >= y) => x = n
  OBVIOUS
<1>3. Max(1 .. n) = n
  BY <1>1, <1>2 DEF Max
<1> QED
  BY <1>3

(* The greatest of some of the first n numbers.                              *)
LEMMA MaxOfPart ==
    ASSUME NEW n \in Nat, NEW T \in SUBSET (1 .. n), T # {}
    PROVE  Max(T) \in T /\ \A x \in T : Max(T) >= x
<1>1. IsFiniteSet(1 .. n)
  BY FS_Interval
<1>2. IsFiniteSet(T)
  BY <1>1, FS_Subset
<1>3. T \subseteq Int
  OBVIOUS
<1> QED
  BY <1>2, <1>3, MaxExists

(* g gives the fold over every subset of 1 .. n, largest index last.         *)
Folds(g, n, base, step) ==
    \A T \in SUBSET (1 .. n) :
        g[T] = IF T = {} THEN base ELSE step[<<Max(T), g[T \ {Max(T)}]>>]

(* A fold that stays in a set of values exists: those for lists of m elements*)
(* extend to lists of one more.                                              *)
LEMMA FoldExists ==
    ASSUME NEW n \in Nat, NEW A, NEW base \in A, NEW step \in [(1 .. n) \X A -> A]
    PROVE  \E g \in [SUBSET (1 .. n) -> A] : Folds(g, n, base, step)
<1> DEFINE G == {m \in 0 .. n : \E g \in [SUBSET (1 .. m) -> A] : Folds(g, m, base, step)}
<1>1. 0 \in G
  <2> DEFINE g == [T \in SUBSET (1 .. 0) |-> base]
  <2>1. \A T \in SUBSET (1 .. 0) : T = {}
    OBVIOUS
  <2>2. g \in [SUBSET (1 .. 0) -> A] /\ Folds(g, 0, base, step)
    BY <2>1 DEF Folds
  <2> QED
    BY <2>2
<1>2. ASSUME NEW m \in 0 .. n, m + 1 <= n, m \in G PROVE m + 1 \in G
  <2>1. PICK g \in [SUBSET (1 .. m) -> A] : Folds(g, m, base, step)
    BY <1>2
  <2> DEFINE h == [T \in SUBSET (1 .. m + 1) |->
                     IF m + 1 \in T THEN step[<<m + 1, g[T \ {m + 1}]>>] ELSE g[T]]
  <2>2. ASSUME NEW T \in SUBSET (1 .. m + 1)
        PROVE  /\ T \ {m + 1} \in SUBSET (1 .. m)
               /\ m + 1 \notin T => T \in SUBSET (1 .. m)
    OBVIOUS
  <2>3. h \in [SUBSET (1 .. m + 1) -> A]
    <3>1. ASSUME NEW T \in SUBSET (1 .. m + 1) PROVE h[T] \in A
      <4>1. CASE m + 1 \in T
        <5>1. m + 1 \in 1 .. n
          BY <1>2
        <5>2. g[T \ {m + 1}] \in A
          BY <2>1, <2>2
        <5>3. step[<<m + 1, g[T \ {m + 1}]>>] \in A
          BY <5>1, <5>2
        <5> QED
          BY <4>1, <5>3
      <4>2. CASE m + 1 \notin T
        BY <2>2, <4>2
      <4> QED
        BY <4>1, <4>2
    <3> QED
      BY <3>1
  <2>4. ASSUME NEW T \in SUBSET (1 .. m + 1), T # {}
        PROVE  h[T] = step[<<Max(T), h[T \ {Max(T)}]>>]
    <3>1. Max(T) \in T /\ \A x \in T : Max(T) >= x
      <4>1. m + 1 \in Nat
        OBVIOUS
      <4> QED
        BY <2>4, <4>1, MaxOfPart
    <3>2. CASE m + 1 \in T
      <4>1. Max(T) = m + 1
        <5>1. Max(T) \in 1 .. m + 1 /\ Max(T) >= m + 1
          BY <3>1, <3>2
        <5> QED
          BY <5>1
      <4>2. h[T \ {m + 1}] = g[T \ {m + 1}]
        BY <2>2
      <4> QED
        BY <3>2, <4>1, <4>2
    <3>3. CASE m + 1 \notin T
      <4>1. T \in SUBSET (1 .. m) /\ T \ {Max(T)} \in SUBSET (1 .. m)
        BY <2>2, <3>3
      <4>2. h[T] = g[T] /\ h[T \ {Max(T)}] = g[T \ {Max(T)}]
        BY <3>3, <4>1
      <4> QED
        BY <2>1, <2>4, <4>1, <4>2 DEF Folds
    <3> QED
      BY <3>2, <3>3
  <2>5. h[{}] = base
    BY <2>1 DEF Folds
  <2> HIDE DEF h
  <2>6. Folds(h, m + 1, base, step)
    BY <2>4, <2>5 DEF Folds
  <2> QED
    BY <1>2, <2>3, <2>6
<1>3. n \in G
  <2> HIDE DEF G
  <2> QED
    BY <1>1, <1>2, UpTo
<1> QED
  BY <1>3

(* Summing a list is summing over its positions.                             *)
Plus(s) == FoldLeft(LAMBDA a, b : a + b, 0, s)

PlusTo(iter, s) ==
    iter = [T \in SUBSET DOMAIN s |->
              IF T = {} THEN 0 ELSE iter[T \ {Max(T)}] + s[Max(T)]]

(* The fold that adds up a list is the sum over its positions.               *)
LEMMA PlusIs ==
    ASSUME NEW n \in Nat, NEW s \in [1 .. n -> Int]
    PROVE  Plus(s) = SumOf(s, 1 .. n) /\ Plus(s) \in Int
<1> DEFINE step == [p \in (1 .. n) \X Int |-> p[2] + s[p[1]]]
<1>1. /\ step \in [(1 .. n) \X Int -> Int]
      /\ \A i \in 1 .. n, x \in Int : step[<<i, x>>] = x + s[i]
  OBVIOUS
<1> HIDE DEF step
<1>2. PICK g \in [SUBSET (1 .. n) -> Int] : Folds(g, n, 0, step)
  <2>1. 0 \in Int
    OBVIOUS
  <2> QED
    BY <1>1, <2>1, FoldExists
<1>3. PlusTo(g, s)
  <2>1. ASSUME NEW T \in SUBSET (1 .. n), T # {} PROVE g[T] = g[T \ {Max(T)}] + s[Max(T)]
    <3>1. Max(T) \in T
      BY <2>1, MaxOfPart
    <3>2. Max(T) \in 1 .. n /\ g[T \ {Max(T)}] \in Int
      BY <3>1
    <3>3. g[T] = step[<<Max(T), g[T \ {Max(T)}]>>]
      BY <1>2, <2>1 DEF Folds
    <3> QED
      BY <1>1, <3>2, <3>3
  <2>2. g[{}] = 0
    BY <1>2 DEF Folds
  <2> QED
    BY <2>1, <2>2 DEF PlusTo
<1> DEFINE f == CHOOSE iter : PlusTo(iter, s)
<1>4. PlusTo(f, s)
  BY <1>3
<1>5. Plus(s) = f[1 .. n]
  BY DEF Plus, FoldLeft, MapThenFoldSet, PlusTo
<1> HIDE DEF f
<1>6. \A k \in 0 .. n : SumOf(s, 1 .. k) \in Int
  <2>1. ASSUME NEW k \in 0 .. n PROVE IsFiniteSet(1 .. k) /\ \A x \in 1 .. k : s[x] \in Int
    BY FS_Interval
  <2> QED
    BY <2>1, SumOfInteger
<1> DEFINE G == {k \in 0 .. n : f[1 .. k] = SumOf(s, 1 .. k)}
<1>7. 0 \in G
  <2>1. 1 .. 0 = {} /\ {} \in SUBSET DOMAIN s
    OBVIOUS
  <2>2. f[{}] = 0
    BY <1>4, <2>1 DEF PlusTo
  <2>3. SumOf(s, {}) = 0
    BY SumOfEmpty
  <2> QED
    BY <2>1, <2>2, <2>3
<1>8. ASSUME NEW k \in 0 .. n, k + 1 <= n, k \in G PROVE k + 1 \in G
  <2>1. 1 .. k + 1 \in SUBSET DOMAIN s /\ 1 .. k + 1 # {}
    <3>1. DOMAIN s = 1 .. n
      OBVIOUS
    <3>2. 1 .. k + 1 \subseteq 1 .. n /\ k + 1 \in 1 .. k + 1
      BY <1>8
    <3> QED
      BY <3>1, <3>2
  <2>2. Max(1 .. k + 1) = k + 1 /\ (1 .. k + 1) \ {k + 1} = 1 .. k
    <3>1. k + 1 \in Nat /\ k + 1 # 0 /\ (k + 1) - 1 = k
      BY <1>8
    <3> QED
      BY <3>1, MaxOfPrefix
  <2>3. f[1 .. k + 1] = f[1 .. k] + s[k + 1]
    BY <1>4, <2>1, <2>2 DEF PlusTo
  <2>4. SumOf(s, 1 .. k + 1) = s[k + 1] + SumOf(s, 1 .. k)
    <3>1. 1 \in Int /\ k + 1 \in Int /\ k + 1 \in 1 .. k + 1
      OBVIOUS
    <3>2. IsFiniteSet(1 .. k + 1)
      BY <3>1, FS_Interval
    <3>3. \A x \in 1 .. k + 1 : s[x] \in Int
      BY <1>8
    <3> QED
      BY <2>2, <3>1, <3>2, <3>3, SumOfRemove, SMTT(30)
  <2>5. s[k + 1] \in Int /\ SumOf(s, 1 .. k) \in Int
    BY <1>6, <1>8
  <2> QED
    BY <1>8, <2>3, <2>4, <2>5
<1>9. \A k \in 0 .. n : k \in G
  <2> HIDE DEF G
  <2> QED
    BY <1>7, <1>8, UpTo
<1>10. n \in 0 .. n
  OBVIOUS
<1> QED
  BY <1>5, <1>6, <1>9, <1>10

-----------------------------------------------------------------------------
(* at lists the numbers of W in their order; a filter takes the elements at  *)
(* the positions that pass.                                                  *)
Ascends(at, m, W) ==
    /\ at \in [1 .. m -> W]
    /\ \A i, j \in 1 .. m : i < j => at[i] < at[j]
    /\ \A w \in W : \E i \in 1 .. m : at[i] = w

Keep(v, x, S) == IF x \in S THEN Append(v, x) ELSE v

MembersTo(iter, s, S) ==
    iter = [T \in SUBSET DOMAIN s |->
              IF T = {} THEN << >>
              ELSE IF s[Max(T)] \in S THEN Append(iter[T \ {Max(T)}], s[Max(T)])
                   ELSE iter[T \ {Max(T)}]]

(* The fold that filters a list, position by position.                       *)
LEMMA MembersExist ==
    ASSUME NEW n \in Nat, NEW X, NEW s \in [1 .. n -> X], NEW S
    PROVE  \E f : MembersTo(f, s, S) /\ Members(s, S) = f[1 .. n]
<1> DEFINE step == [p \in (1 .. n) \X Seq(X) |->
                      IF s[p[1]] \in S THEN Append(p[2], s[p[1]]) ELSE p[2]]
<1>1. /\ step \in [(1 .. n) \X Seq(X) -> Seq(X)]
      /\ \A i \in 1 .. n, v \in Seq(X) :
            step[<<i, v>>] = IF s[i] \in S THEN Append(v, s[i]) ELSE v
  OBVIOUS
<1> HIDE DEF step
<1>2. PICK g \in [SUBSET (1 .. n) -> Seq(X)] : Folds(g, n, << >>, step)
  <2>1. << >> \in Seq(X)
    OBVIOUS
  <2> QED
    BY <1>1, <2>1, FoldExists
<1>3. MembersTo(g, s, S)
  <2>1. ASSUME NEW T \in SUBSET (1 .. n), T # {}
        PROVE  g[T] = IF s[Max(T)] \in S THEN Append(g[T \ {Max(T)}], s[Max(T)])
                      ELSE g[T \ {Max(T)}]
    <3>1. Max(T) \in T
      BY <2>1, MaxOfPart
    <3>2. Max(T) \in 1 .. n /\ g[T \ {Max(T)}] \in Seq(X)
      BY <3>1
    <3>3. g[T] = step[<<Max(T), g[T \ {Max(T)}]>>]
      BY <1>2, <2>1 DEF Folds
    <3> QED
      BY <1>1, <3>2, <3>3
  <2>2. g[{}] = << >>
    BY <1>2 DEF Folds
  <2> QED
    BY <2>1, <2>2 DEF MembersTo
<1> DEFINE f == CHOOSE iter : MembersTo(iter, s, S)
<1>4. MembersTo(f, s, S)
  BY <1>3
<1>5. Members(s, S) = f[1 .. n]
  BY DEF Members, FoldLeft, MapThenFoldSet, MembersTo
<1> QED
  BY <1>4, <1>5

(* What is one more element for a prefix: its position, at the end.          *)
LEMMA OneMoreMember ==
    ASSUME NEW k \in Nat, NEW W \in SUBSET (1 .. k), NEW m \in Nat, NEW at, Ascends(at, m, W),
           NEW t, t = [i \in 1 .. m + 1 |-> IF i <= m THEN at[i] ELSE k + 1]
    PROVE  Ascends(t, m + 1, W \union {k + 1})
<1>1. t \in [1 .. m + 1 -> W \union {k + 1}]
  <2>1. ASSUME NEW i \in 1 .. m + 1 PROVE t[i] \in W \union {k + 1}
    <3>1. CASE i <= m
      <4>1. i \in 1 .. m
        BY <3>1
      <4> QED
        BY <3>1, <4>1 DEF Ascends
    <3>2. CASE ~(i <= m)
      BY <3>2
    <3> QED
      BY <3>1, <3>2
  <2> QED
    BY <2>1
<1>2. ASSUME NEW i \in 1 .. m + 1, NEW j \in 1 .. m + 1, i < j PROVE t[i] < t[j]
  <2>1. i \in 1 .. m /\ t[i] = at[i] /\ at[i] \in 1 .. k
    <3>1. i \in 1 .. m /\ t[i] = at[i]
      BY <1>2
    <3> QED
      BY <3>1 DEF Ascends
  <2>2. CASE j <= m
    BY <1>2, <2>1, <2>2 DEF Ascends
  <2>3. CASE ~(j <= m)
    BY <1>2, <2>1, <2>3
  <2> QED
    BY <2>2, <2>3
<1>3. ASSUME NEW w \in W \union {k + 1} PROVE \E i \in 1 .. m + 1 : t[i] = w
  <2>1. CASE w = k + 1
    <3>1. m + 1 \in 1 .. m + 1 /\ ~(m + 1 <= m)
      OBVIOUS
    <3> QED
      BY <2>1, <3>1
  <2>2. CASE w \in W
    <3>1. PICK i \in 1 .. m : at[i] = w
      BY <2>2 DEF Ascends
    <3>2. i \in 1 .. m + 1 /\ i <= m
      OBVIOUS
    <3> QED
      BY <3>1, <3>2
  <2> QED
    BY <2>1, <2>2
<1> QED
  BY <1>1, <1>2, <1>3 DEF Ascends

PositionsIn(s, k, S) == {i \in 1 .. k : s[i] \in S}

IsList(s, n) == n \in Nat /\ s = [i \in 1 .. n |-> s[i]]

MembersAt(s, n, S, m, at) ==
    /\ m \in Nat /\ Ascends(at, m, PositionsIn(s, n, S))
    /\ Members(s, S) = [i \in 1 .. m |-> s[at[i]]]

(* A filtered list takes the elements at the positions that pass, ascending. *)
LEMMA MembersAre ==
    ASSUME NEW n, NEW s, IsList(s, n), NEW S
    PROVE  \E m, at : MembersAt(s, n, S, m, at)
<1> DEFINE X == {s[i] : i \in 1 .. n}
<1>0. n \in Nat /\ s \in [1 .. n -> X]
  BY DEF IsList
<1> HIDE DEF X
<1>1. PICK f : MembersTo(f, s, S) /\ Members(s, S) = f[1 .. n]
  BY <1>0, MembersExist
<1> USE <1>0
<1> DEFINE ListedAt(k, m, at) == /\ m \in Nat /\ Ascends(at, m, PositionsIn(s, k, S))
                                 /\ f[1 .. k] = [i \in 1 .. m |-> s[at[i]]]
           Listed(k) == \E m, at : ListedAt(k, m, at)
           G == {k \in 0 .. n : Listed(k)}
<1>2. 0 \in G
  <2>1. 1 .. 0 = {} /\ {} \in SUBSET DOMAIN s /\ PositionsIn(s, 0, S) = {}
    BY DEF PositionsIn
  <2>2. f[1 .. 0] = << >>
    BY <1>1, <2>1 DEF MembersTo
  <2>3. Ascends(<< >>, 0, {})
    BY DEF Ascends
  <2>4. << >> = [i \in 1 .. 0 |-> s[<< >>[i]]]
    OBVIOUS
  <2>5. Listed(0)
    <3>1. ListedAt(0, 0, << >>)
      BY <2>1, <2>2, <2>3, <2>4
    <3> HIDE DEF ListedAt
    <3> QED
      BY <3>1
  <2>6. 0 \in 0 .. n
    OBVIOUS
  <2> QED
    BY <2>5, <2>6
<1>3. ASSUME NEW k \in 0 .. n, k + 1 <= n, k \in G PROVE k + 1 \in G
  <2>1. PICK m, at : ListedAt(k, m, at)
    BY <1>3
  <2>0. m \in Nat
    BY <2>1
  <2> USE <2>0
  <2>2. /\ k \in Nat /\ k + 1 \in 1 .. n /\ s[k + 1] \in X
        /\ 1 .. k + 1 \in SUBSET DOMAIN s /\ 1 .. k + 1 # {}
    <3>1. DOMAIN s = 1 .. n /\ k + 1 \in 1 .. n /\ k \in Nat
      BY <1>3
    <3>2. 1 .. k + 1 \subseteq 1 .. n /\ k + 1 \in 1 .. k + 1
      BY <1>3
    <3>3. s[k + 1] \in X
      BY <3>1
    <3>4. 1 .. k + 1 \in SUBSET DOMAIN s /\ 1 .. k + 1 # {}
      BY <3>1, <3>2
    <3> QED
      BY <3>1, <3>3, <3>4
  <2>3. Max(1 .. k + 1) = k + 1 /\ (1 .. k + 1) \ {k + 1} = 1 .. k
    <3>1. k + 1 \in Nat /\ k + 1 # 0 /\ (k + 1) - 1 = k
      BY <1>3
    <3> QED
      BY <3>1, MaxOfPrefix
  <2>4. f[1 .. k + 1] = IF s[k + 1] \in S THEN Append(f[1 .. k], s[k + 1]) ELSE f[1 .. k]
    BY <1>1, <2>2, <2>3 DEF MembersTo
  <2>5. ASSUME s[k + 1] \notin S PROVE Listed(k + 1)
    <3>1. PositionsIn(s, k + 1, S) = PositionsIn(s, k, S)
      BY <2>2, <2>5 DEF PositionsIn
    <3> QED
      BY <2>1, <2>4, <2>5, <3>1
  <2>6. ASSUME s[k + 1] \in S PROVE Listed(k + 1)
    <3> DEFINE t == [i \in 1 .. m + 1 |-> IF i <= m THEN at[i] ELSE k + 1]
    <3>1. PositionsIn(s, k + 1, S) = PositionsIn(s, k, S) \union {k + 1}
      BY <2>2, <2>6 DEF PositionsIn
    <3>2. PositionsIn(s, k, S) \in SUBSET (1 .. k)
      BY DEF PositionsIn
    <3>3. Ascends(t, m + 1, PositionsIn(s, k + 1, S))
      BY <2>1, <2>2, <3>1, <3>2, OneMoreMember, SMTT(30)
    <3>4. Append(f[1 .. k], s[k + 1]) = [i \in 1 .. m + 1 |-> s[t[i]]]
      <4> DEFINE v == [i \in 1 .. m |-> s[at[i]]]
      <4>1. \A i \in 1 .. m : at[i] \in 1 .. n /\ s[at[i]] \in X
        <5>1. ASSUME NEW i \in 1 .. m PROVE at[i] \in 1 .. n
          <6>1. at[i] \in 1 .. k
            BY <2>1 DEF Ascends, PositionsIn
          <6> QED
            BY <2>2, <6>1
        <5> QED
          BY <5>1
      <4>2. v \in Seq(X) /\ Len(v) = m
        BY <4>1
      <4>3. Append(v, s[k + 1]) = [i \in 1 .. m + 1 |-> IF i = m + 1 THEN s[k + 1] ELSE v[i]]
        BY <2>2, <4>2
      <4>4. ASSUME NEW i \in 1 .. m + 1
            PROVE  (IF i = m + 1 THEN s[k + 1] ELSE v[i]) = s[t[i]]
        <5>1. i = m + 1 \/ i \in 1 .. m
          OBVIOUS
        <5> QED
          BY <5>1
      <4> HIDE DEF v, t
      <4>5. [i \in 1 .. m + 1 |-> IF i = m + 1 THEN s[k + 1] ELSE v[i]] = [i \in 1 .. m + 1 |-> s[t[i]]]
        BY <4>4
      <4> QED
        BY <2>1, <4>3, <4>5 DEF v
    <3>5. m + 1 \in Nat
      OBVIOUS
    <3> HIDE DEF t
    <3> QED
      BY <2>4, <2>6, <3>3, <3>4, <3>5
  <2> HIDE DEF Listed
  <2> QED
    BY <1>3, <2>5, <2>6
<1>4. \A k \in 0 .. n : k \in G
  <2> HIDE DEF G
  <2> QED
    BY <1>2, <1>3, UpTo
<1>5. Listed(n)
  <2>1. n \in 0 .. n
    OBVIOUS
  <2>2. n \in G
    BY <1>4, <2>1
  <2> HIDE DEF Listed
  <2> QED
    BY <2>2
<1> QED
  BY <1>1, <1>5 DEF MembersAt

(* Ascending positions are different, and as many as there are.              *)
LEMMA AscentIs ==
    ASSUME NEW W \in SUBSET Int, NEW m \in Nat, NEW at, Ascends(at, m, W)
    PROVE  /\ \A i, j \in 1 .. m : at[i] = at[j] => i = j
           /\ W = {at[i] : i \in 1 .. m}
           /\ IsFiniteSet(W) /\ Cardinality(W) = m
<1>1. \A i \in 1 .. m : at[i] \in Int
  BY DEF Ascends
<1>2. \A i, j \in 1 .. m : at[i] = at[j] => i = j
  BY <1>1 DEF Ascends
<1>3. W = {at[i] : i \in 1 .. m}
  BY DEF Ascends
<1>4. IsFiniteSet(1 .. m) /\ Cardinality(1 .. m) = m
  BY FS_Interval
<1>5. IsFiniteSet({at[i] : i \in 1 .. m}) /\ Cardinality({at[i] : i \in 1 .. m}) = m
  <2> DEFINE S == 1 .. m
  <2>1. IsFiniteSet(S) /\ \A x, y \in S : at[x] = at[y] => x = y
    BY <1>2, <1>4
  <2> HIDE DEF S
  <2>2. IsFiniteSet({at[x] : x \in S}) /\ Cardinality({at[x] : x \in S}) = Cardinality(S)
    BY <2>1, FiniteImage
  <2> QED
    BY <1>4, <2>2 DEF S
<1> QED
  BY <1>2, <1>3, <1>5

(* Lists joined one after the other.                                         *)
Joins(f, ss, k) == f[k] = IF k = 1 THEN ss[k] ELSE f[k - 1] \o ss[k]

(* There is such a list of joins ...                                         *)
LEMMA JoinsExist ==
    ASSUME NEW n \in Nat, NEW X, NEW ss \in [1 .. n -> Seq(X)]
    PROVE  \E f \in [1 .. n -> Seq(X)] : \A k \in 1 .. n : Joins(f, ss, k)
<1> DEFINE G == {k \in 0 .. n :
                   \E f \in [1 .. n -> Seq(X)] : \A m \in 1 .. k : Joins(f, ss, m)}
<1>2. 0 \in G
  <2>1. [m \in 1 .. n |-> << >>] \in [1 .. n -> Seq(X)]
    OBVIOUS
  <2>2. \A f : \A m \in 1 .. 0 : Joins(f, ss, m)
    OBVIOUS
  <2> QED
    BY <2>1, <2>2
<1>3. ASSUME NEW k \in 0 .. n, k + 1 <= n, k \in G PROVE k + 1 \in G
  <2>1. PICK f \in [1 .. n -> Seq(X)] : \A m \in 1 .. k : Joins(f, ss, m)
    BY <1>3
  <2> DEFINE x == IF k = 0 THEN ss[1] ELSE f[k] \o ss[k + 1]
             g == [f EXCEPT ![k + 1] = x]
  <2>2. x \in Seq(X)
    <3>1. CASE k = 0
      BY <1>3, <3>1
    <3>2. CASE k # 0
      <4>1. f[k] \in Seq(X) /\ ss[k + 1] \in Seq(X)
        BY <1>3, <3>2
      <4> QED
        BY <3>2, <4>1, ConcatProperties
    <3> QED
      BY <3>1, <3>2
  <2>3. /\ g \in [1 .. n -> Seq(X)] /\ g[k + 1] = x
        /\ \A m \in 1 .. k : g[m] = f[m]
    <3> HIDE DEF x
    <3> QED
      BY <1>3, <2>2
  <2> HIDE DEF g
  <2>4. ASSUME NEW m \in 1 .. k + 1 PROVE Joins(g, ss, m)
    <3>1. CASE m = k + 1
      <4>1. k # 0 => k \in 1 .. k /\ k + 1 # 1 /\ (k + 1) - 1 = k
        BY <1>3
      <4>2. CASE k = 0
        BY <2>3, <3>1, <4>2 DEF Joins
      <4>3. CASE k # 0
        BY <2>3, <3>1, <4>1, <4>3 DEF Joins
      <4> QED
        BY <4>2, <4>3
    <3>2. CASE m # k + 1
      <4>1. m \in 1 .. k /\ (m # 1 => m - 1 \in 1 .. k)
        BY <1>3, <2>4, <3>2
      <4> QED
        BY <2>1, <2>3, <4>1 DEF Joins
    <3> QED
      BY <3>1, <3>2
  <2>5. k + 1 \in 0 .. n
    BY <1>3
  <2>6. \E h \in [1 .. n -> Seq(X)] : \A m \in 1 .. k + 1 : Joins(h, ss, m)
    BY <2>3, <2>4
  <2> QED
    BY <2>5, <2>6
<1>4. n \in G
  <2> HIDE DEF G
  <2>1. \A k \in 0 .. n : k + 1 <= n /\ k \in G => k + 1 \in G
    BY <1>3
  <2>2. \A k \in 0 .. n : k \in G
    BY <1>2, <2>1, UpTo
  <2> QED
    BY <2>2
<1> QED
  BY <1>4

ListsOf(X, ss, n) == n \in Nat \ {0} /\ ss \in [1 .. n -> Seq(X)]

\* f gives the lists joined up to each position.
Flattens(f, X, ss, n) ==
    /\ f \in [1 .. n -> Seq(X)]
    /\ f[1] = ss[1]
    /\ \A k \in 1 .. n - 1 : f[k + 1] = f[k] \o ss[k + 1]
    /\ FlattenSeq(ss) = f[n]

(* ... and flattening takes the last of them.                                *)
LEMMA FlattenIs ==
    ASSUME NEW n, NEW X, NEW ss, ListsOf(X, ss, n)
    PROVE  /\ FlattenSeq(ss) \in Seq(X)
           /\ \E f : Flattens(f, X, ss, n)
<1> DEFINE def(f) == f = [i \in 1 .. Len(ss) |-> IF i = 1 THEN ss[i] ELSE f[i - 1] \o ss[i]]
           flat == CHOOSE f : def(f)
<1> USE DEF ListsOf
<1>1. Len(ss) = n
  OBVIOUS
<1>2. PICK g \in [1 .. n -> Seq(X)] : \A k \in 1 .. n : Joins(g, ss, k)
  BY JoinsExist
<1>3. def(g)
  BY <1>1, <1>2 DEF Joins
<1>4. FlattenSeq(ss) = flat[n]
  BY <1>1 DEF FlattenSeq
<1>5. def(flat)
  BY <1>3
<1>6. flat = [i \in 1 .. n |-> IF i = 1 THEN ss[i] ELSE flat[i - 1] \o ss[i]]
  BY <1>1, <1>5
<1> HIDE DEF flat
<1>7. flat[1] = ss[1] /\ \A k \in 1 .. n - 1 : flat[k + 1] = flat[k] \o ss[k + 1]
  <2>1. 1 \in 1 .. n
    BY <1>1
  <2>2. \A k \in 1 .. n - 1 : k + 1 \in 1 .. n /\ k + 1 # 1 /\ (k + 1) - 1 = k
    OBVIOUS
  <2> QED
    BY <1>6, <2>1, <2>2
<1>8. \A k \in 0 .. n : k # 0 => flat[k] \in Seq(X)
  <2> DEFINE G == {k \in 0 .. n : k # 0 => flat[k] \in Seq(X)}
  <2>1. 0 \in G
    OBVIOUS
  <2>2. ASSUME NEW k \in 0 .. n, k + 1 <= n, k \in G PROVE k + 1 \in G
    <3>1. CASE k = 0
      BY <1>7, <2>2, <3>1
    <3>2. CASE k # 0
      <4>1. k \in 1 .. n - 1 /\ k + 1 \in 1 .. n
        BY <2>2, <3>2
      <4>2. flat[k] \in Seq(X)
        BY <2>2, <3>2
      <4>3. ss[k + 1] \in Seq(X) /\ flat[k + 1] = flat[k] \o ss[k + 1]
        BY <1>7, <4>1
      <4>4. flat[k + 1] \in Seq(X)
        BY <4>2, <4>3, ConcatProperties
      <4> QED
        BY <2>2, <4>4
    <3> QED
      BY <3>1, <3>2
  <2>3. \A k \in 0 .. n : k \in G
    <3> HIDE DEF G
    <3> QED
      BY <2>1, <2>2, UpTo
  <2> QED
    BY <2>3
<1>9. flat \in [1 .. n -> Seq(X)]
  <2>1. \A k \in 1 .. n : flat[k] \in Seq(X)
    <3>1. \A k \in 1 .. n : k \in 0 .. n /\ k # 0
      OBVIOUS
    <3> QED
      BY <1>8, <3>1
  <2>2. flat = [i \in 1 .. n |-> flat[i]]
    BY <1>6
  <2> QED
    BY <2>1, <2>2
<1>10. flat[n] \in Seq(X)
  BY <1>9
<1>11. Flattens(flat, X, ss, n)
  BY <1>4, <1>7, <1>9 DEF Flattens
<1> QED
  BY <1>4, <1>10, <1>11

(* The sum of two joined lists.                                              *)
LEMMA PlusJoined ==
    ASSUME NEW s \in Seq(Int), NEW t \in Seq(Int)
    PROVE  Plus(s \o t) = Plus(s) + Plus(t) /\ Plus(s) \in Int /\ Plus(t) \in Int
<1> DEFINE n == Len(s)
           m == Len(t)
           u == s \o t
<1>1. n \in Nat /\ m \in Nat /\ s \in [1 .. n -> Int] /\ t \in [1 .. m -> Int]
  OBVIOUS
<1>2. u \in [1 .. n + m -> Int] /\ \A i \in 1 .. n + m : u[i] = IF i <= n THEN s[i] ELSE t[i - n]
  <2>1. u \in Seq(Int) /\ Len(u) = n + m
        /\ \A i \in 1 .. n + m : u[i] = IF i <= n THEN s[i] ELSE t[i - n]
    BY ConcatProperties
  <2>2. n + m \in Nat
    OBVIOUS
  <2>3. u = [i \in 1 .. Len(u) |-> u[i]] /\ \A i \in 1 .. Len(u) : u[i] \in Int
    <3> HIDE DEF u
    <3> QED
      BY <2>1
  <2> HIDE DEF u, n, m
  <2> QED
    BY <2>1, <2>2, <2>3
<1> HIDE DEF n, m, u
<1>3. /\ Plus(u) = SumOf(u, 1 .. n + m) /\ Plus(s) = SumOf(s, 1 .. n)
      /\ Plus(t) = SumOf(t, 1 .. m) /\ Plus(s) \in Int /\ Plus(t) \in Int
  BY <1>1, <1>2, PlusIs
<1> DEFINE k == [i \in 1 .. m |-> n + i]
<1>4. /\ 1 .. n + m = (1 .. n) \union {k[i] : i \in 1 .. m}
      /\ (1 .. n) \cap {k[i] : i \in 1 .. m} = {}
      /\ \A i, j \in 1 .. m : k[i] = k[j] => i = j
  <2>1. \A i \in 1 .. n + m : i <= n \/ (i - n \in 1 .. m /\ i = k[i - n])
    BY <1>1
  <2>2. \A i \in 1 .. m : k[i] = n + i /\ k[i] \in 1 .. n + m /\ k[i] \notin 1 .. n
    BY <1>1
  <2>3. \A i \in 1 .. n : i \in 1 .. n + m
    BY <1>1
  <2>4. \A i \in 1 .. n + m : i <= n => i \in 1 .. n
    BY <1>1
  <2>5. \A i, j \in 1 .. m : k[i] = k[j] => i = j
    BY <1>1
  <2> HIDE DEF k
  <2> QED
    BY <2>1, <2>2, <2>3, <2>4, <2>5
<1>5. IsFiniteSet(1 .. n) /\ IsFiniteSet(1 .. m) /\ IsFiniteSet({k[i] : i \in 1 .. m})
  <2>1. IsFiniteSet(1 .. n) /\ IsFiniteSet(1 .. m)
    BY <1>1, FS_Interval
  <2> HIDE DEF k
  <2> QED
    BY <2>1, FiniteImage
<1>6. \A i \in 1 .. m : t[i] = u[k[i]] /\ t[i] \in Int
  BY <1>1, <1>2
<1> HIDE DEF k
<1>7. SumOf(u, {k[i] : i \in 1 .. m}) = SumOf(t, 1 .. m)
  <2>1. \A i, j \in 1 .. m : k[i] = k[j] => i = j
    BY <1>4
  <2>2. IsFiniteSet(1 .. m)
    BY <1>5
  <2>3. \A f, h : (\A x \in 1 .. m : h[x] = f[k[x]] /\ h[x] \in Int)
                    => SumOf(f, {k[x] : x \in 1 .. m}) = SumOf(h, 1 .. m)
    BY <2>1, <2>2, SumOfImage, ZenonT(30)
  <2> QED
    BY <1>6, <2>3
<1>8. SumOf(u, 1 .. n) = SumOf(s, 1 .. n)
  <2>1. \A i \in 1 .. n : u[i] = s[i] /\ u[i] \in Int
    BY <1>1, <1>2
  <2> QED
    BY <1>5, <2>1, SumOfSame
<1>9. SumOf(u, (1 .. n) \union {k[i] : i \in 1 .. m})
          = SumOf(u, 1 .. n) + SumOf(u, {k[i] : i \in 1 .. m})
  <2>1. \A i \in (1 .. n) \union {k[i] : i \in 1 .. m} : u[i] \in Int
    BY <1>2, <1>4
  <2> QED
    BY <1>4, <1>5, <2>1, SumOfUnion
<1>10. Plus(u) = Plus(s) + Plus(t)
  BY <1>3, <1>4, <1>7, <1>8, <1>9
<1> QED
  BY <1>3, <1>10 DEF u

(* A finite set has a sorted enumeration, and SortedBy is one.               *)
Enumerates(order, S) ==
    /\ order \in [1 .. Cardinality(S) -> S]
    /\ \A i, j \in 1 .. Cardinality(S) : i # j => order[i] # order[j]
Sorted(order, value) ==
    \A i, j \in DOMAIN order : i < j => value[order[i]] <= value[order[j]]

LEMMA SortedExists ==
    ASSUME NEW S, IsFiniteSet(S), NEW value, \A x \in S : value[x] \in Int
    PROVE  \E order : Enumerates(order, S) /\ Sorted(order, value)
<1> DEFINE Good(T) == \E order : Enumerates(order, T) /\ Sorted(order, value)
           G == {T \in SUBSET S : Good(T)}
<1>1. ASSUME NEW T \in SUBSET S, \A U \in SUBSET T : U # T => U \in G PROVE T \in G
  <2>1. CASE T = {}
    <3> DEFINE none == [i \in 1 .. Cardinality({}) |-> 0]
    <3>1. Cardinality({}) = 0
      BY FS_EmptySet
    <3>2. 1 .. 0 = {}
      OBVIOUS
    <3>3. Enumerates(none, {}) /\ Sorted(none, value)
      BY <3>1, <3>2 DEF Enumerates, Sorted
    <3> QED
      BY <2>1, <3>3
  <2>2. CASE T # {}
    <3> DEFINE vs == {value[x] : x \in T}
    <3>1. IsFiniteSet(T)
      BY FS_Subset
    <3>2. IsFiniteSet(vs) /\ vs # {} /\ vs \subseteq Int
      BY <2>2, <3>1, FiniteImage
    <3>3. Max(vs) \in vs /\ \A v \in vs : Max(vs) >= v
      <4> HIDE DEF vs
      <4> QED
        BY <3>2, MaxExists
    <3>4. PICK x \in T : Max(vs) = value[x]
      BY <3>3
    <3>5. \A y \in T : value[y] <= value[x]
      BY <3>3, <3>4
    <3> DEFINE U == T \ {x}
               n == Cardinality(T)
    <3>6. n \in Nat /\ n # 0 /\ Cardinality(U) = n - 1
      BY <2>2, <3>1, FS_CardinalityType, FS_EmptySet, FS_RemoveElement
    <3>7. U \in SUBSET T /\ U # T
      OBVIOUS
    <3> HIDE DEF U
    <3>8. PICK order : Enumerates(order, U) /\ Sorted(order, value)
      BY <1>1, <3>7
    <3> HIDE DEF n
    <3>9. /\ order \in [1 .. n - 1 -> U]
          /\ \A i, j \in 1 .. n - 1 : i # j => order[i] # order[j]
          /\ \A i, j \in 1 .. n - 1 : i < j => value[order[i]] <= value[order[j]]
      BY <3>6, <3>8 DEF Enumerates, Sorted
    <3> DEFINE all == [i \in 1 .. n |-> IF i = n THEN x ELSE order[i]]
    <3>10. \A i \in 1 .. n : i # n => i \in 1 .. n - 1 /\ all[i] = order[i] /\ order[i] \in U
      BY <3>6, <3>9
    <3>11. \A i \in 1 .. n : i = n => all[i] = x
      OBVIOUS
    <3>12. \A i \in 1 .. n : all[i] \in T
      BY <3>10, <3>11 DEF U
    <3>13. DOMAIN all = 1 .. n /\ all = [i \in 1 .. n |-> all[i]]
      OBVIOUS
    <3> HIDE DEF all
    <3>14. \A i, j \in 1 .. n : i # j => all[i] # all[j]
      BY <3>9, <3>10, <3>11 DEF U
    <3>15. \A i, j \in 1 .. n : i < j => value[all[i]] <= value[all[j]]
      <4> SUFFICES ASSUME NEW i \in 1 .. n, NEW j \in 1 .. n, i < j
                   PROVE  value[all[i]] <= value[all[j]]
        OBVIOUS
      <4>1. i # n
        BY <3>6
      <4>2. CASE j = n
        BY <3>5, <3>11, <3>12, <4>2
      <4>3. CASE j # n
        BY <3>9, <3>10, <4>1, <4>3
      <4> QED
        BY <4>2, <4>3
    <3>16. all \in [1 .. n -> T]
      BY <3>12, <3>13
    <3>17. Enumerates(all, T) /\ Sorted(all, value)
      BY <3>13, <3>14, <3>15, <3>16 DEF Enumerates, Sorted, n
    <3> QED
      BY <3>17
  <2> QED
    BY <2>1, <2>2
<1> HIDE DEF G
<1>2. S \in G
  BY <1>1, SubsetInduction
<1> QED
  BY <1>2 DEF G

LEMMA SortedByIs ==
    ASSUME NEW S, IsFiniteSet(S), NEW value, \A x \in S : value[x] \in Int
    PROVE  Enumerates(SortedBy(S, value), S) /\ Sorted(SortedBy(S, value), value)
<1>1. \A order : order \in SetToSeqs(S) <=> Enumerates(order, S)
  BY DEF SetToSeqs, Enumerates
<1>2. \E order \in SetToSeqs(S) :
          \A i, j \in DOMAIN order : i < j => value[order[i]] <= value[order[j]]
  <2>1. \E order : Enumerates(order, S) /\ Sorted(order, value)
    BY SortedExists
  <2> QED
    BY <1>1, <2>1 DEF Sorted
<1>3. SortedBy(S, value) \in SetToSeqs(S) /\ Sorted(SortedBy(S, value), value)
  BY <1>2 DEF SortedBy, Sorted
<1> QED
  BY <1>1, <1>3

(* A filtered list, element by element.                                      *)
KeptTo(f, s, n, S) == f[0] = << >> /\ \A k \in 0 .. n - 1 : f[k + 1] = Keep(f[k], s[k + 1], S)

ListKept(f, s, n, X, S) ==
    f \in [0 .. n -> Seq(X)] /\ KeptTo(f, s, n, S) /\ Members(s, S) = f[n]

LEMMA MembersKept ==
    ASSUME NEW n \in Nat, NEW X, NEW s \in [1 .. n -> X], NEW S
    PROVE  \E f : ListKept(f, s, n, X, S)
<1>1. PICK h : MembersTo(h, s, S) /\ Members(s, S) = h[1 .. n]
  BY MembersExist
<1> DEFINE f == [k \in 0 .. n |-> h[1 .. k]]
<1>2. f[0] = << >>
  <2>1. 1 .. 0 = {} /\ {} \in SUBSET DOMAIN s
    OBVIOUS
  <2>2. h[{}] = << >>
    BY <1>1, <2>1 DEF MembersTo
  <2> QED
    BY <2>1, <2>2
<1>3. ASSUME NEW k \in 0 .. n - 1 PROVE f[k + 1] = Keep(f[k], s[k + 1], S)
  <2>1. 1 .. k + 1 \in SUBSET DOMAIN s /\ 1 .. k + 1 # {}
    <3>1. 1 .. k + 1 \subseteq 1 .. n /\ k + 1 \in 1 .. k + 1
      OBVIOUS
    <3> QED
      BY <3>1
  <2>2. Max(1 .. k + 1) = k + 1 /\ (1 .. k + 1) \ {k + 1} = 1 .. k
    <3>1. k + 1 \in Nat /\ k + 1 # 0 /\ (k + 1) - 1 = k
      OBVIOUS
    <3> QED
      BY <3>1, MaxOfPrefix
  <2>3. h[1 .. k + 1] = Keep(h[1 .. k], s[k + 1], S)
    BY <1>1, <2>1, <2>2 DEF MembersTo, Keep
  <2> QED
    BY <2>3
<1>4. DOMAIN f = 0 .. n /\ Members(s, S) = f[n] /\ f = [k \in 0 .. n |-> f[k]]
  BY <1>1
<1> HIDE DEF f
<1>5. \A k \in 0 .. n : f[k] \in Seq(X)
  <2> DEFINE G == {k \in 0 .. n : f[k] \in Seq(X)}
  <2>1. 0 \in G
    <3>1. << >> \in Seq(X) /\ 0 \in 0 .. n
      OBVIOUS
    <3> QED
      BY <1>2, <3>1
  <2>2. ASSUME NEW k \in 0 .. n, k + 1 <= n, k \in G PROVE k + 1 \in G
    <3>1. k \in 0 .. n - 1 /\ k + 1 \in 1 .. n /\ k + 1 \in 0 .. n
      BY <2>2
    <3>2. f[k] \in Seq(X) /\ s[k + 1] \in X
      BY <2>2, <3>1
    <3>3. Append(f[k], s[k + 1]) \in Seq(X)
      BY <3>2
    <3> QED
      BY <1>3, <3>1, <3>2, <3>3 DEF Keep
  <2> HIDE DEF G
  <2>3. \A k \in 0 .. n : k \in G
    BY <2>1, <2>2, UpTo
  <2> QED
    BY <2>3 DEF G
<1>6. f \in [0 .. n -> Seq(X)]
  BY <1>4, <1>5
<1> QED
  BY <1>2, <1>3, <1>4, <1>6 DEF KeptTo, ListKept

(* Lists that begin alike are filtered alike.                                *)
FilteredAlike(s, S, v, T, k) == \A i \in 1 .. k : s[i] = v[i] /\ (s[i] \in S <=> v[i] \in T)

LEMMA KeptAgree ==
    ASSUME NEW n \in Nat, NEW m \in Nat, NEW k0 \in 0 .. n, k0 <= m,
           NEW s, NEW v, NEW S, NEW T, FilteredAlike(s, S, v, T, k0),
           NEW f, KeptTo(f, s, n, S), NEW g, KeptTo(g, v, m, T)
    PROVE  f[k0] = g[k0]
<1> DEFINE G == {k \in 0 .. k0 : f[k] = g[k]}
<1>1. 0 \in G
  BY DEF KeptTo
<1>2. ASSUME NEW k \in 0 .. k0, k + 1 <= k0, k \in G PROVE k + 1 \in G
  <2>1. k \in 0 .. n - 1 /\ k \in 0 .. m - 1 /\ k + 1 \in 1 .. k0 /\ k + 1 \in 0 .. k0
    BY <1>2
  <2>2. f[k + 1] = Keep(f[k], s[k + 1], S) /\ g[k + 1] = Keep(g[k], v[k + 1], T)
    BY <2>1 DEF KeptTo
  <2>3. s[k + 1] = v[k + 1] /\ (s[k + 1] \in S <=> v[k + 1] \in T) /\ f[k] = g[k]
    BY <1>2, <2>1 DEF FilteredAlike
  <2> QED
    BY <2>1, <2>2, <2>3 DEF Keep
<1> HIDE DEF G
<1>3. k0 \in Nat
  OBVIOUS
<1>4. \A k \in 0 .. k0 : k \in G
  BY <1>1, <1>2, <1>3, UpTo
<1>5. k0 \in G
  BY <1>3, <1>4
<1> QED
  BY <1>5 DEF G

LEMMA MembersSame ==
    ASSUME NEW n \in Nat, NEW X, NEW s \in [1 .. n -> X], NEW S, NEW T,
           FilteredAlike(s, S, s, T, n)
    PROVE  Members(s, S) = Members(s, T) /\ Members(s, S) \in Seq(X)
<1>1. PICK f : ListKept(f, s, n, X, S)
  BY MembersKept
<1>2. PICK g : ListKept(g, s, n, X, T)
  BY MembersKept
<1>3. n \in 0 .. n /\ n <= n
  OBVIOUS
<1>5. KeptTo(f, s, n, S) /\ KeptTo(g, s, n, T)
  BY <1>1, <1>2 DEF ListKept
<1>6. f[n] = g[n]
  BY <1>3, <1>5, KeptAgree
<1>7. f[n] \in Seq(X)
  BY <1>1, <1>3 DEF ListKept
<1> QED
  BY <1>1, <1>2, <1>6, <1>7 DEF ListKept

LEMMA MembersAppend ==
    ASSUME NEW X, NEW v \in Seq(X), NEW x \in X, NEW S
    PROVE  /\ Members(Append(v, x), S) = Keep(Members(v, S), x, S)
           /\ Members(v, S) \in Seq(X)
<1> DEFINE n == Len(v)
           w == Append(v, x)
<1>1. n \in Nat /\ v \in [1 .. n -> X]
  OBVIOUS
<1>0. w \in [1 .. n + 1 -> X] /\ w[n + 1] = x /\ \A i \in 1 .. n : w[i] = v[i]
  <2>1. w \in Seq(X) /\ Len(w) = n + 1
    OBVIOUS
  <2>2. w[n + 1] = x /\ \A i \in 1 .. n : w[i] = v[i]
    OBVIOUS
  <2> HIDE DEF w, n
  <2>3. w \in [1 .. n + 1 -> X]
    BY <2>1
  <2> QED
    BY <2>2, <2>3
<1> HIDE DEF n, w
<1>2. PICK f : ListKept(f, v, n, X, S)
  BY <1>1, MembersKept
<1>3. PICK g : ListKept(g, w, n + 1, X, S)
  <2>1. n + 1 \in Nat
    BY <1>1
  <2> QED
    BY <1>0, <2>1, MembersKept
<1>4. f[n] = g[n]
  <2>1. n \in 0 .. n /\ n <= n + 1 /\ n + 1 \in Nat
    BY <1>1
  <2>2. FilteredAlike(v, S, w, S, n)
    BY <1>0 DEF FilteredAlike
  <2>3. KeptTo(f, v, n, S) /\ KeptTo(g, w, n + 1, S)
    BY <1>2, <1>3 DEF ListKept
  <2> QED
    BY <1>1, <2>1, <2>2, <2>3, KeptAgree
<1>5. g[n + 1] = Keep(g[n], w[n + 1], S)
  <2>1. n \in 0 .. (n + 1) - 1
    BY <1>1
  <2> QED
    BY <1>3, <2>1 DEF KeptTo, ListKept
<1>6. f[n] \in Seq(X)
  BY <1>1, <1>2 DEF ListKept
<1> QED
  BY <1>0, <1>1, <1>2, <1>3, <1>4, <1>5, <1>6 DEF w, ListKept

(* Two filters may be applied in either order.                               *)
LEMMA FiltersCommute ==
    ASSUME NEW n \in Nat, NEW X, NEW s \in [1 .. n -> X], NEW S, NEW T
    PROVE  Members(Members(s, S), T) = Members(Members(s, T), S)
<1>1. PICK f : ListKept(f, s, n, X, S)
  BY MembersKept
<1>2. PICK g : ListKept(g, s, n, X, T)
  BY MembersKept
<1> DEFINE G == {k \in 0 .. n : Members(f[k], T) = Members(g[k], S)}
<1>3. 0 \in G
  <2>1. f[0] = << >> /\ g[0] = << >>
    BY <1>1, <1>2 DEF KeptTo, ListKept
  <2>2. Members(<< >>, S) = Members(<< >>, T)
    <3> DEFINE e == [i \in 1 .. 0 |-> s[i]]
    <3>1. 0 \in Nat /\ e \in [1 .. 0 -> X] /\ FilteredAlike(e, S, e, T, 0)
      BY DEF FilteredAlike
    <3>2. e = << >>
      OBVIOUS
    <3> DEFINE z == 0
    <3>4. z \in Nat /\ e \in [1 .. z -> X] /\ FilteredAlike(e, S, e, T, z)
      BY <3>1
    <3> HIDE DEF e, z
    <3>3. Members(e, S) = Members(e, T) /\ Members(e, S) \in Seq(X)
      BY <3>4, MembersSame
    <3> QED
      BY <3>2, <3>3
  <2> QED
    BY <2>1, <2>2
<1>4. ASSUME NEW k \in 0 .. n, k + 1 <= n, k \in G PROVE k + 1 \in G
  <2>1. k \in 0 .. n - 1 /\ k + 1 \in 1 .. n /\ k + 1 \in 0 .. n /\ k \in 0 .. n
    BY <1>4
  <2> DEFINE x == s[k + 1]
  <2>2. f[k + 1] = Keep(f[k], x, S) /\ g[k + 1] = Keep(g[k], x, T)
    BY <1>1, <1>2, <2>1 DEF KeptTo, ListKept
  <2>3. x \in X /\ f[k] \in Seq(X) /\ g[k] \in Seq(X)
    BY <1>1, <1>2, <2>1 DEF ListKept
  <2>4. Members(f[k], T) = Members(g[k], S)
    BY <1>4
  <2> HIDE DEF x, G
  <2>5. /\ Members(Append(f[k], x), T) = Keep(Members(f[k], T), x, T)
        /\ Members(Append(g[k], x), S) = Keep(Members(g[k], S), x, S)
    BY <2>3, MembersAppend
  <2>6. Members(f[k + 1], T) = Members(g[k + 1], S)
    BY <2>2, <2>4, <2>5 DEF Keep
  <2> QED
    BY <2>1, <2>6 DEF G
<1> HIDE DEF G
<1>5. \A k \in 0 .. n : k \in G
  BY <1>3, <1>4, UpTo
<1>6. n \in G
  BY <1>5
<1> QED
  BY <1>1, <1>2, <1>6 DEF G, ListKept
=============================================================================
