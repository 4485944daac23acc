------------------------------ MODULE SumProofs ------------------------------
(***************************************************************************)
(* Sums over finite sets, for any set and any integer function.            *)
(***************************************************************************)
EXTENDS SequencesExt, FiniteSetTheorems, SequenceTheorems, TLAPS

(***************************************************************************)
(* Induction over the subsets of a finite set, for a set of good ones.     *)
(***************************************************************************)
LEMMA SubsetInduction ==
  ASSUME NEW S, IsFiniteSet(S), NEW Good,
         ASSUME NEW T \in SUBSET S, \A x \in T : T \ {x} \in Good
         PROVE  T \in Good
  PROVE  \A T \in SUBSET S : T \in Good
<1> DEFINE Bad == (SUBSET S) \ Good
<1>1. IsWellFoundedOn(StrictSubsetOrdering(S), SUBSET S)
  BY FS_StrictSubsetOrderingWellFounded, FS_FiniteSubsetsOfFinite, Zenon
<1>2. ASSUME Bad # {} PROVE FALSE
  <2>1. PICK T \in Bad : \A U \in Bad : ~ (<<U, T>> \in StrictSubsetOrdering(S))
    <3>1. Bad \subseteq SUBSET S /\ Bad # {}
      BY <1>2
    <3> HIDE DEF Bad
    <3> QED
      BY <1>1, <3>1, WFMin, SMT
  <2>2. ASSUME NEW x \in T PROVE T \ {x} \in Good
    <3>1. T \in SUBSET S /\ T \ {x} \in SUBSET S /\ T \ {x} # T
      BY <2>1, <2>2
    <3>2. <<T \ {x}, T>> \in StrictSubsetOrdering(S)
      BY <3>1 DEF StrictSubsetOrdering
    <3> QED
      BY <2>1, <3>1, <3>2
  <2>3. T \in SUBSET S /\ T \notin Good
    BY <2>1
  <2>4. T \in Good
    BY <1>1, <2>2, <2>3
  <2> QED
    BY <2>3, <2>4
<1> QED
  BY <1>2

(***************************************************************************)
(* What a sum is, whatever the order in which it is taken.                 *)
(***************************************************************************)
IsSum(g, f, S) ==
  /\ g \in [SUBSET S -> Int]
  /\ g[{}] = 0
  /\ \A T \in SUBSET S : \A x \in T : g[T] = f[x] + g[T \ {x}]

LEMMA SumExists ==
  ASSUME NEW S, IsFiniteSet(S), NEW f, \A x \in S : f[x] \in Int
  PROVE  \E g : IsSum(g, f, S)
<1> DEFINE Good == {T \in SUBSET S : \E g : IsSum(g, f, T)}
<1>1. {} \in Good
  <2>1. IsSum([T \in SUBSET {} |-> 0], f, {})
    BY DEF IsSum
  <2> QED
    BY <2>1
<1>2. ASSUME NEW T \in SUBSET S, NEW x \in T, T \ {x} \in Good
      PROVE  T \in Good
  <2>1. PICK h : IsSum(h, f, T \ {x})
    BY <1>2
  <2> DEFINE g == [U \in SUBSET T |-> IF x \in U THEN f[x] + h[U \ {x}] ELSE h[U]]
  <2>2. \A U \in SUBSET T : h[U \ {x}] \in Int
    BY <2>1 DEF IsSum
  <2>3. g \in [SUBSET T -> Int]
    <3>1. ASSUME NEW U \in SUBSET T PROVE g[U] \in Int
      <4>1. x \notin U => U \ {x} = U
        OBVIOUS
      <4>2. f[x] \in Int /\ h[U \ {x}] \in Int /\ f[x] + h[U \ {x}] \in Int
        BY <1>2, <2>2
      <4>3. g[U] = IF x \in U THEN f[x] + h[U \ {x}] ELSE h[U]
        OBVIOUS
      <4> HIDE DEF g
      <4> QED
        BY <4>1, <4>2, <4>3
    <3> QED
      BY <3>1
  <2>4. g[{}] = 0
    BY <2>1 DEF IsSum
  <2>5. ASSUME NEW U \in SUBSET T, NEW y \in U
        PROVE  g[U] = f[y] + g[U \ {y}]
    <3>1. U \ {y} \in SUBSET T /\ f[x] \in Int /\ f[y] \in Int
      BY <1>2, <2>5
    <3>2. CASE y = x
      BY <2>5, <3>1, <3>2
    <3>3. CASE y # x /\ x \in U
      <4>1. (U \ {y}) \ {x} = (U \ {x}) \ {y}
        OBVIOUS
      <4>2. h[U \ {x}] = f[y] + h[(U \ {x}) \ {y}]
        <5>1. U \ {x} \in SUBSET (T \ {x}) /\ y \in U \ {x}
          BY <2>5, <3>3
        <5> QED
          BY <2>1, <5>1 DEF IsSum
      <4>3. h[U \ {x}] \in Int /\ h[(U \ {x}) \ {y}] \in Int
        BY <2>2, <3>1, <4>1
      <4>4. g[U] = f[x] + h[U \ {x}]
        BY <2>5, <3>3
      <4>5. g[U \ {y}] = f[x] + h[(U \ {x}) \ {y}]
        BY <3>1, <3>3, <4>1
      <4> QED
        BY <3>1, <4>2, <4>3, <4>4, <4>5
    <3>4. CASE x \notin U
      <4>1. U \in SUBSET (T \ {x})
        BY <2>5, <3>4
      <4>2. h[U] = f[y] + h[U \ {y}]
        BY <2>1, <2>5, <4>1 DEF IsSum
      <4> QED
        BY <2>5, <3>1, <3>4, <4>2
    <3> QED
      BY <3>2, <3>3, <3>4
  <2>6. IsSum(g, f, T)
    BY <2>3, <2>4, <2>5 DEF IsSum
  <2> QED
    BY <2>6
<1>3. \A T \in SUBSET S : T \in Good
  <2> HIDE DEF Good
  <2>1. ASSUME NEW T \in SUBSET S, \A x \in T : T \ {x} \in Good
        PROVE  T \in Good
    BY <1>1, <1>2, <2>1
  <2> QED
    BY <2>1, SubsetInduction
<1> QED
  BY <1>3

(***************************************************************************)
(* SumFunctionOnSet takes the elements in some order; its recursion is     *)
(* solved by any sum, and only by one.                                     *)
(***************************************************************************)
Recursion(it, f, S) ==
  it = [s \in SUBSET S |->
          IF s = {} THEN 0 ELSE f[CHOOSE x \in s : TRUE] + it[s \ {CHOOSE x \in s : TRUE}]]

LEMMA SumOnSet ==
  ASSUME NEW S, NEW f
  PROVE  SumFunctionOnSet(f, S) = (CHOOSE it : Recursion(it, f, S))[S]
BY DEF SumFunctionOnSet, FoldFunctionOnSet, MapThenFoldSet, Recursion

LEMMA SumIsUnique ==
  ASSUME NEW S, IsFiniteSet(S), NEW f, NEW g, IsSum(g, f, S)
  PROVE  SumFunctionOnSet(f, S) = g[S]
<1> DEFINE least(s) == CHOOSE x \in s : TRUE
<1>1. ASSUME NEW s \in SUBSET S, s # {} PROVE least(s) \in s /\ s \ {least(s)} \in SUBSET S
  BY <1>1
<1>2. Recursion(g, f, S)
  <2>1. \A s \in SUBSET S : g[s] = IF s = {} THEN 0 ELSE f[least(s)] + g[s \ {least(s)}]
    BY <1>1 DEF IsSum
  <2> QED
    BY <2>1 DEF Recursion, IsSum
<1>3. PICK it : it = (CHOOSE h : Recursion(h, f, S)) /\ Recursion(it, f, S)
  BY <1>2
<1> DEFINE Good == {s \in SUBSET S : it[s] = g[s]}
<1>4. \A s \in SUBSET S : it[s] = IF s = {} THEN 0 ELSE f[least(s)] + it[s \ {least(s)}]
  BY <1>3 DEF Recursion
<1>5. {} \in Good
  BY <1>4 DEF IsSum
<1>6. \A T \in SUBSET S : T \in Good
  <2>1. ASSUME NEW T \in SUBSET S, \A x \in T : T \ {x} \in Good
        PROVE  T \in Good
    <3>1. CASE T = {}
      BY <1>5, <3>1
    <3>2. CASE T # {}
      <4>1. least(T) \in T /\ T \ {least(T)} \in Good
        BY <1>1, <2>1, <3>2
      <4> HIDE DEF least
      <4> QED
        BY <1>4, <3>2, <4>1 DEF IsSum
    <3> QED
      BY <3>1, <3>2
  <2> HIDE DEF Good
  <2> QED
    BY <2>1, SubsetInduction
<1> QED
  BY <1>3, <1>6, SumOnSet

LEMMA SumIsSum ==
  ASSUME NEW S, IsFiniteSet(S), NEW f, \A x \in S : f[x] \in Int
  PROVE  \E g : IsSum(g, f, S) /\ \A T \in SUBSET S : SumFunctionOnSet(f, T) = g[T]
<1>1. PICK g : IsSum(g, f, S)
  BY SumExists
<1>2. ASSUME NEW T \in SUBSET S PROVE SumFunctionOnSet(f, T) = g[T]
  <2> DEFINE h == [U \in SUBSET T |-> g[U]]
  <2>1. IsSum(h, f, T)
    BY <1>1 DEF IsSum
  <2>2. IsFiniteSet(T)
    BY FS_Subset
  <2>3. SumFunctionOnSet(f, T) = h[T]
    <3> HIDE DEF h
    <3> QED
      BY <2>1, <2>2, SumIsUnique
  <2> QED
    BY <2>3
<1> QED
  BY <1>1, <1>2

(***************************************************************************)
(* The laws of sums.                                                       *)
(***************************************************************************)
LEMMA SumType ==
  ASSUME NEW S, IsFiniteSet(S), NEW f, \A x \in S : f[x] \in Int
  PROVE  SumFunctionOnSet(f, S) \in Int
<1>1. PICK g : IsSum(g, f, S) /\ \A T \in SUBSET S : SumFunctionOnSet(f, T) = g[T]
  BY SumIsSum
<1> QED
  BY <1>1 DEF IsSum

LEMMA SumEmpty ==
  ASSUME NEW f
  PROVE  SumFunctionOnSet(f, {}) = 0
<1>1. PICK g : IsSum(g, f, {}) /\ \A T \in SUBSET {} : SumFunctionOnSet(f, T) = g[T]
  BY SumIsSum, FS_EmptySet
<1> QED
  BY <1>1 DEF IsSum

LEMMA SumSplit ==
  ASSUME NEW S, IsFiniteSet(S), NEW f, \A x \in S : f[x] \in Int, NEW x \in S
  PROVE  /\ SumFunctionOnSet(f, S \ {x}) \in Int
         /\ SumFunctionOnSet(f, S) = f[x] + SumFunctionOnSet(f, S \ {x})
<1>1. PICK g : IsSum(g, f, S) /\ \A T \in SUBSET S : SumFunctionOnSet(f, T) = g[T]
  BY SumIsSum
<1>2. S \in SUBSET S /\ S \ {x} \in SUBSET S
  OBVIOUS
<1> QED
  BY <1>1, <1>2 DEF IsSum

LEMMA SumCongruence ==
  ASSUME NEW S, IsFiniteSet(S), NEW f, NEW h, \A x \in S : f[x] \in Int /\ h[x] = f[x]
  PROVE  SumFunctionOnSet(h, S) = SumFunctionOnSet(f, S)
<1>1. PICK g : IsSum(g, f, S) /\ \A T \in SUBSET S : SumFunctionOnSet(f, T) = g[T]
  BY SumIsSum
<1>2. IsSum(g, h, S)
  BY <1>1 DEF IsSum
<1>3. SumFunctionOnSet(h, S) = g[S]
  BY <1>2, SumIsUnique
<1> QED
  BY <1>1, <1>3

LEMMA SumUpdate ==
  ASSUME NEW S, IsFiniteSet(S), NEW f, NEW h, \A x \in S : f[x] \in Int /\ h[x] \in Int,
         NEW y \in S, \A x \in S \ {y} : h[x] = f[x]
  PROVE  SumFunctionOnSet(h, S) = SumFunctionOnSet(f, S) + (h[y] - f[y])
<1> DEFINE T == S \ {y}
<1>1. IsFiniteSet(T)
  BY FS_Subset
<1>2. SumFunctionOnSet(h, T) = SumFunctionOnSet(f, T)
  BY <1>1, SumCongruence
<1>3. /\ SumFunctionOnSet(f, T) \in Int
      /\ SumFunctionOnSet(f, S) = f[y] + SumFunctionOnSet(f, T)
  BY SumSplit
<1>4. SumFunctionOnSet(h, S) = h[y] + SumFunctionOnSet(h, T)
  BY SumSplit
<1> HIDE DEF T
<1> QED
  BY <1>2, <1>3, <1>4

\* Two places change.
LEMMA SumUpdateTwo ==
  ASSUME NEW S, IsFiniteSet(S), NEW f, NEW h, \A x \in S : f[x] \in Int /\ h[x] \in Int,
         NEW y \in S, NEW z \in S, y # z, \A x \in S \ {y, z} : h[x] = f[x]
  PROVE  SumFunctionOnSet(h, S) = SumFunctionOnSet(f, S) + (h[y] - f[y]) + (h[z] - f[z])
<1> DEFINE g == [x \in S |-> IF x = y THEN h[y] ELSE f[x]]
<1>1. \A x \in S : g[x] \in Int
  OBVIOUS
<1>2. /\ \A x \in S \ {y} : g[x] = f[x]
      /\ \A x \in S \ {z} : h[x] = g[x]
      /\ g[y] = h[y] /\ g[z] = f[z]
  OBVIOUS
<1> HIDE DEF g
<1>3. SumFunctionOnSet(g, S) = SumFunctionOnSet(f, S) + (h[y] - f[y])
  <2>1. SumFunctionOnSet(g, S) = SumFunctionOnSet(f, S) + (g[y] - f[y])
    BY <1>1, <1>2, SumUpdate
  <2> QED
    BY <1>2, <2>1
<1>4. SumFunctionOnSet(h, S) = SumFunctionOnSet(g, S) + (h[z] - g[z])
  BY <1>1, <1>2, SumUpdate
<1>5. SumFunctionOnSet(f, S) \in Int
  BY SumType
<1> QED
  BY <1>2, <1>3, <1>4, <1>5

LEMMA SumZero ==
  ASSUME NEW S, IsFiniteSet(S), NEW f, \A x \in S : f[x] = 0
  PROVE  SumFunctionOnSet(f, S) = 0
<1> DEFINE g == [T \in SUBSET S |-> 0]
<1>1. IsSum(g, f, S)
  BY DEF IsSum
<1>2. g[S] = 0
  OBVIOUS
<1> HIDE DEF g
<1> QED
  BY <1>1, <1>2, SumIsUnique

LEMMA SumMonotone ==
  ASSUME NEW S, IsFiniteSet(S), NEW f, \A x \in S : f[x] \in Nat, NEW T \in SUBSET S
  PROVE  0 <= SumFunctionOnSet(f, T) /\ SumFunctionOnSet(f, T) <= SumFunctionOnSet(f, S)
<1>1. PICK g : IsSum(g, f, S) /\ \A U \in SUBSET S : SumFunctionOnSet(f, U) = g[U]
  BY SumIsSum
<1> DEFINE Good == {U \in SUBSET S : \A V \in SUBSET U : 0 <= g[V] /\ g[V] <= g[U]}
<1>2. ASSUME NEW U \in SUBSET S, \A x \in U : U \ {x} \in Good
      PROVE  U \in Good
  <2>1. ASSUME NEW V \in SUBSET U PROVE 0 <= g[V] /\ g[V] <= g[U]
    <3>1. CASE U = {}
      <4>1. V = {}
        BY <3>1
      <4>2. g[{}] = 0
        BY <1>1 DEF IsSum
      <4> QED
        BY <3>1, <4>1, <4>2
    <3>2. CASE V = U /\ U # {}
      <4>1. PICK x \in U : TRUE
        BY <3>2
      <4>2. g[U] = f[x] + g[U \ {x}] /\ f[x] \in Nat /\ g[U \ {x}] \in Int /\ 0 <= g[U \ {x}]
        BY <1>1, <1>2, <4>1 DEF IsSum
      <4> QED
        BY <3>2, <4>2
    <3>3. CASE V # U
      <4>1. PICK x \in U : x \notin V
        BY <2>1, <3>3
      <4>2. V \in SUBSET (U \ {x}) /\ U \ {x} \in Good
        BY <1>2, <2>1, <4>1
      <4>3. 0 <= g[V] /\ g[V] <= g[U \ {x}]
        BY <4>2
      <4>4. g[U] = f[x] + g[U \ {x}] /\ f[x] \in Nat /\ g[U \ {x}] \in Int /\ g[V] \in Int
        BY <1>1, <1>2, <2>1, <4>1 DEF IsSum
      <4> QED
        BY <4>3, <4>4
    <3> QED
      BY <3>1, <3>2, <3>3
  <2> QED
    BY <2>1
<1>3. \A U \in SUBSET S : U \in Good
  <2> HIDE DEF Good
  <2> QED
    BY <1>2, SubsetInduction
<1> QED
  BY <1>1, <1>3

\* Summation under another index: b renames the elements of S.
LEMMA SumRenamed ==
  ASSUME NEW S, IsFiniteSet(S), NEW R, IsFiniteSet(R), NEW b \in Bijection(S, R),
         NEW f, \A z \in R : f[z] \in Int, NEW h, \A x \in S : h[x] = f[b[x]]
  PROVE  SumFunctionOnSet(h, S) = SumFunctionOnSet(f, R)
<1> DEFINE image(T) == {z \in R : \E x \in T : b[x] = z}
<1>0. /\ b \in [S -> R]
      /\ \A x, y \in S : b[x] = b[y] => x = y
      /\ \A z \in R : \E x \in S : b[x] = z
  BY DEF Bijection, Injection, IsInjective, Surjection
<1>1. PICK g : IsSum(g, f, R) /\ \A U \in SUBSET R : SumFunctionOnSet(f, U) = g[U]
  BY SumIsSum
<1> DEFINE k == [T \in SUBSET S |-> g[image(T)]]
<1>2. IsSum(k, h, S)
  <2>1. k \in [SUBSET S -> Int] /\ k[{}] = 0
    <3>1. \A T \in SUBSET S : image(T) \in SUBSET R
      OBVIOUS
    <3>2. image({}) = {}
      OBVIOUS
    <3> QED
      BY <1>1, <3>1, <3>2 DEF IsSum
  <2>2. ASSUME NEW T \in SUBSET S, NEW x \in T PROVE k[T] = h[x] + k[T \ {x}]
    <3>1. image(T) \in SUBSET R /\ b[x] \in image(T)
      BY <1>0, <2>2
    <3>2. image(T \ {x}) = image(T) \ {b[x]}
      BY <1>0, <2>2
    <3> HIDE DEF image
    <3>3. g[image(T)] = f[b[x]] + g[image(T) \ {b[x]}]
      BY <1>1, <3>1 DEF IsSum
    <3> QED
      BY <2>2, <3>2, <3>3
  <2> QED
    BY <2>1, <2>2 DEF IsSum
<1>3. k[S] = g[R]
  <2>1. image(S) = R
    BY <1>0
  <2> QED
    BY <2>1
<1> HIDE DEF k
<1> QED
  BY <1>1, <1>2, <1>3, SumIsUnique

LEMMA SumMember ==
  ASSUME NEW S, IsFiniteSet(S), NEW f, \A x \in S : f[x] \in Nat, NEW x \in S
  PROVE  f[x] <= SumFunctionOnSet(f, S)
<1>1. SumFunctionOnSet(f, S \ {x}) \in Int /\ SumFunctionOnSet(f, S) = f[x] + SumFunctionOnSet(f, S \ {x})
  BY SumSplit
<1>2. 0 <= SumFunctionOnSet(f, S \ {x})
  BY SumMonotone
<1> QED
  BY <1>1, <1>2

\* A sum of values up to v.
LEMMA SumBounded ==
  ASSUME NEW S, IsFiniteSet(S), NEW f, NEW v \in Int, \A x \in S : f[x] \in Int /\ f[x] <= v
  PROVE  SumFunctionOnSet(f, S) <= Cardinality(S) * v
<1>1. PICK g : IsSum(g, f, S) /\ \A U \in SUBSET S : SumFunctionOnSet(f, U) = g[U]
  BY SumIsSum
<1> DEFINE Good == {U \in SUBSET S : g[U] <= Cardinality(U) * v}
<1>2. ASSUME NEW U \in SUBSET S, \A x \in U : U \ {x} \in Good
      PROVE  U \in Good
  <2>1. CASE U = {}
    <3>1. g[U] = 0 /\ Cardinality(U) = 0
      BY <1>1, <2>1, FS_EmptySet DEF IsSum
    <3> QED
      BY <1>2, <3>1
  <2>2. CASE U # {}
    <3>1. PICK x \in U : TRUE
      BY <2>2
    <3>2. IsFiniteSet(U) /\ IsFiniteSet(U \ {x})
      BY <1>2, FS_Subset
    <3>3. Cardinality(U \ {x}) = Cardinality(U) - 1 /\ Cardinality(U) \in Nat
      BY <3>1, <3>2, FS_RemoveElement, FS_CardinalityType
    <3>4. /\ g[U] = f[x] + g[U \ {x}] /\ g[U \ {x}] \in Int
          /\ f[x] \in Int /\ f[x] <= v
      BY <1>1, <1>2, <3>1 DEF IsSum
    <3>5. g[U \ {x}] <= Cardinality(U \ {x}) * v
      BY <1>2, <3>1
    <3> DEFINE c == Cardinality(U)
               d == c * v
    <3>6. \A n \in Nat : (n - 1) * v = n * v - v /\ n * v \in Int
      OBVIOUS
    <3>7. (c - 1) * v = d - v /\ d \in Int
      BY <3>3, <3>6
    <3> HIDE DEF d
    <3>8. g[U] <= d
      BY <3>3, <3>4, <3>5, <3>7
    <3> QED
      BY <1>2, <3>8 DEF d
  <2> QED
    BY <2>1, <2>2
<1>3. \A U \in SUBSET S : U \in Good
  <2> HIDE DEF Good
  <2> QED
    BY <1>2, SubsetInduction
<1> QED
  BY <1>1, <1>3

(***************************************************************************)
(* Sums of sequences.                                                      *)
(***************************************************************************)
LEMMA SumOfEmpty ==
  ASSUME NEW f, DOMAIN f = {}
  PROVE  SumFunction(f) = 0
BY SumEmpty DEF SumFunction

LEMMA SumOfAppended ==
  ASSUME NEW n \in Nat, NEW f, DOMAIN f = 1 .. n, NEW h, DOMAIN h = 1 .. n + 1,
         \A i \in 1 .. n + 1 : h[i] \in Int, \A i \in 1 .. n : h[i] = f[i]
  PROVE  SumFunction(f) \in Int /\ SumFunction(h) = SumFunction(f) + h[n + 1]
<1> DEFINE T == (1 .. n + 1) \ {n + 1}
<1>1. IsFiniteSet(1 .. n) /\ IsFiniteSet(1 .. n + 1)
  BY FS_Interval
<1>2. T = 1 .. n /\ n + 1 \in 1 .. n + 1
  OBVIOUS
<1>3. \A i \in 1 .. n : f[i] \in Int /\ h[i] = f[i]
  OBVIOUS
<1>4. SumFunctionOnSet(h, 1 .. n) = SumFunctionOnSet(f, 1 .. n)
  BY <1>1, <1>3, SumCongruence
<1>5. /\ SumFunctionOnSet(h, T) \in Int
      /\ SumFunctionOnSet(h, 1 .. n + 1) = h[n + 1] + SumFunctionOnSet(h, T)
  BY <1>1, <1>2, SumSplit
<1>6. SumFunction(f) = SumFunctionOnSet(f, 1 .. n) /\ SumFunction(h) = SumFunctionOnSet(h, 1 .. n + 1)
  BY DEF SumFunction
<1>7. h[n + 1] \in Int
  BY <1>2
<1> HIDE DEF T
<1> QED
  BY <1>2, <1>4, <1>5, <1>6, <1>7

LEMMA SumOfTail ==
  ASSUME NEW n \in Nat, NEW f, DOMAIN f = 1 .. n + 1, NEW h, DOMAIN h = 1 .. n,
         \A i \in 1 .. n + 1 : f[i] \in Int, \A i \in 1 .. n : h[i] = f[i + 1]
  PROVE  SumFunction(h) \in Int /\ SumFunction(f) = f[1] + SumFunction(h)
<1> DEFINE S == 1 .. n
           R == (1 .. n + 1) \ {1}
           b == [i \in 1 .. n |-> i + 1]
<1>1. IsFiniteSet(S) /\ IsFiniteSet(1 .. n + 1) /\ IsFiniteSet(R)
  <2>1. IsFiniteSet(S) /\ IsFiniteSet(1 .. n + 1)
    BY FS_Interval
  <2>2. IsFiniteSet(R)
    BY <2>1, FS_RemoveElement
  <2> QED
    BY <2>1, <2>2
<1>2. \A i \in S : h[i] = f[b[i]]
  OBVIOUS
<1>3. b \in Bijection(S, R)
  <2>1. b \in [S -> R] /\ \A i, j \in S : b[i] = b[j] => i = j
    OBVIOUS
  <2>2. \A j \in R : j - 1 \in S /\ b[j - 1] = j
    OBVIOUS
  <2> QED
    BY <2>1, <2>2 DEF Bijection, Injection, IsInjective, Surjection
<1>4. 1 \in 1 .. n + 1
  OBVIOUS
<1>5. /\ SumFunctionOnSet(f, (1 .. n + 1) \ {1}) \in Int
      /\ SumFunctionOnSet(f, 1 .. n + 1) = f[1] + SumFunctionOnSet(f, (1 .. n + 1) \ {1})
  BY <1>1, <1>4, SumSplit
<1>6. SumFunctionOnSet(h, S) = SumFunctionOnSet(f, R)
  <2>1. \A i \in R : f[i] \in Int
    OBVIOUS
  <2> HIDE DEF S, R, b
  <2> QED
    BY <1>1, <1>2, <1>3, <2>1, SumRenamed
<1> QED
  BY <1>5, <1>6 DEF SumFunction

LEMMA SumOfPrefix ==
  ASSUME NEW n \in Nat, NEW f, DOMAIN f = 1 .. n, \A i \in 1 .. n : f[i] \in Nat,
         NEW m \in 0 .. n, NEW h, DOMAIN h = 1 .. m, \A i \in 1 .. m : h[i] = f[i]
  PROVE  0 <= SumFunction(h) /\ SumFunction(h) <= SumFunction(f)
<1>1. IsFiniteSet(1 .. n) /\ IsFiniteSet(1 .. m) /\ 1 .. m \in SUBSET (1 .. n)
  BY FS_Interval
<1>2. SumFunctionOnSet(h, 1 .. m) = SumFunctionOnSet(f, 1 .. m)
  BY <1>1, SumCongruence
<1>3. 0 <= SumFunctionOnSet(f, 1 .. m) /\ SumFunctionOnSet(f, 1 .. m) <= SumFunctionOnSet(f, 1 .. n)
  BY <1>1, SumMonotone
<1> QED
  BY <1>2, <1>3 DEF SumFunction
=============================================================================
