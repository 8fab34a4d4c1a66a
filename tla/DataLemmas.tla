------------------------------ MODULE DataLemmas ------------------------------
(***************************************************************************)
(* Induction over data, in the form the proofs of this project use it.     *)
(* The theorems of the library take an operator as a parameter; here sets  *)
(* and functions take its place:                                           *)
(*                                                                         *)
(*   LastPosition, FirstPosition, LeastNumber   sets of numbers;           *)
(*   Stepwise        what holds at 0 and is kept by each step holds to n;  *)
(*   FoldRuns, RunExists   the values that a fold runs through;            *)
(*   SumOfNone, SumOfOneMore, SumOfPart, SumOfInterval                     *)
(*                   the sum of a function over a finite set;              *)
(*   ImageSize       how many values a function has;                       *)
(*   Increasing, Consecutive   numbers in order without a gap.             *)
(***************************************************************************)
EXTENDS Integers, Sequences, FiniteSetsExt, Functions, FiniteSetTheorems,
        WellFoundedInduction, TLAPS

\* Among finitely many positions there is a last one.
LEMMA LastPosition ==
  ASSUME NEW n \in Nat, NEW J \in SUBSET (1 .. n), J # {}
  PROVE  \E j \in J : \A k \in J : k <= j
<1> DEFINE after(j) == {k \in J : j < k}
           T == {after(j) : j \in J}
<1>1. IsFiniteSet(J)
  <2>1. IsFiniteSet(1 .. n)
    BY FS_Interval
  <2> QED
    BY <2>1, FS_Subset
<1>2. T \subseteq FiniteSubsetsOf(J) /\ T # {}
  <2>1. ASSUME NEW j \in J PROVE after(j) \in SUBSET J /\ IsFiniteSet(after(j))
    <3>1. after(j) \in SUBSET J
      OBVIOUS
    <3> QED
      BY <3>1, <1>1, FS_Subset
  <2>2. T \subseteq FiniteSubsetsOf(J)
    BY <2>1 DEF FiniteSubsetsOf
  <2> QED
    BY <2>2
<1>3. PICK x \in T : \A y \in T : <<y, x>> \notin StrictSubsetOrdering(J)
  <2> HIDE DEF T
  <2> QED
    BY <1>2, WFMin, FS_StrictSubsetOrderingWellFounded
<1>4. PICK j \in J : x = after(j)
  BY <1>3
<1>5. ASSUME NEW k \in J, j < k PROVE FALSE
  <2>1. after(k) \subseteq after(j) /\ k \in after(j) /\ k \notin after(k)
    <3>1. J \subseteq Int /\ j \in Int /\ k \in Int
      OBVIOUS
    <3>2. ASSUME NEW i \in J, k < i PROVE j < i
      BY <3>1, <3>2, <1>5
    <3>3. after(k) \subseteq after(j)
      BY <3>2
    <3>4. k \in after(j)
      BY <1>5
    <3>5. k \notin after(k)
      BY <3>1
    <3> QED
      BY <3>3, <3>4, <3>5
  <2>2. <<after(k), after(j)>> \in StrictSubsetOrdering(J)
    BY <2>1 DEF StrictSubsetOrdering
  <2> QED
    BY <2>2, <1>3, <1>4
<1> QED
  BY <1>5

\* Among finitely many positions there is a first one.
LEMMA FirstPosition ==
  ASSUME NEW n \in Nat, NEW J \in SUBSET (1 .. n), J # {}
  PROVE  \E j \in J : \A k \in J : j <= k
<1> DEFINE K == {n + 1 - j : j \in J}
<1>1. K \in SUBSET (1 .. n) /\ K # {}
  OBVIOUS
<1>2. PICK m \in K : \A k \in K : k <= m
  BY <1>1, LastPosition
<1>3. PICK j \in J : m = n + 1 - j
  BY <1>2
<1>4. ASSUME NEW k \in J PROVE j <= k
  <2>1. n + 1 - k <= n + 1 - j
    BY <1>2, <1>3
  <2> QED
    BY <2>1
<1> QED
  BY <1>4


\* A set of natural numbers has a least element.
LEMMA LeastNumber ==
  ASSUME NEW T \in SUBSET Nat, T # {}
  PROVE  \E n \in T : \A k \in T : n <= k
<1>1. PICK m \in T : TRUE
  OBVIOUS
<1> DEFINE J == {k + 1 : k \in {i \in T : i <= m}}
<1>2. J \in SUBSET (1 .. m + 1) /\ J # {} /\ m + 1 \in Nat
  BY <1>1
<1>3. PICK j \in J : \A k \in J : j <= k
  <2> HIDE DEF J
  <2> QED
    BY <1>2, FirstPosition
<1>4. PICK n \in T : n <= m /\ j = n + 1
  BY <1>3
<1>5. ASSUME NEW k \in T PROVE n <= k
  <2>1. CASE k <= m
    BY <1>3, <1>4, <2>1
  <2>2. CASE m < k
    BY <1>1, <1>4, <2>2
  <2> QED
    BY <1>1, <2>1, <2>2
<1> QED
  BY <1>4, <1>5

\* What holds at 0, and at each number up to n if at the one before, holds up to n.
LEMMA Stepwise ==
  ASSUME NEW n \in Nat, NEW T, 0 \in T, \A i \in 1 .. n : i - 1 \in T => i \in T
  PROVE  \A i \in 0 .. n : i \in T
<1> DEFINE U == {i \in 0 .. n : i \notin T}
<1>1. SUFFICES ASSUME U # {} PROVE FALSE
  OBVIOUS
<1>2. PICK i \in U : \A k \in U : i <= k
  <2>1. U \in SUBSET Nat
    OBVIOUS
  <2> HIDE DEF U
  <2> QED
    BY <1>1, <2>1, LeastNumber
<1>3. i \in 1 .. n /\ i - 1 \in 0 .. n
  BY <1>2
<1>4. i - 1 \notin U
  BY <1>2
<1> QED
  BY <1>2, <1>3, <1>4

-----------------------------------------------------------------------------
(* Folds *)

\* The largest number of a range that begins at 1, and of the sets below it.
LEMMA MaxOfRange ==
  ASSUME NEW n \in Nat \ {0}
  PROVE  /\ Max(1 .. n) = n
         /\ (1 .. n) \ {n} = 1 .. n - 1
         /\ \A s \in SUBSET (1 .. n) : s # {} =>
              Max(s) \in s /\ s \ {Max(s)} \in SUBSET (1 .. n - 1)
<1>1. ASSUME NEW s \in SUBSET (1 .. n), s # {}
      PROVE  Max(s) \in s /\ \A k \in s : k <= Max(s)
  <2>1. \E j \in s : \A k \in s : k <= j
    BY <1>1, LastPosition
  <2>2. \E j \in s : \A k \in s : j >= k
    BY <2>1
  <2>3. Max(s) \in s /\ \A k \in s : Max(s) >= k
    BY <2>2 DEF Max
  <2> QED
    BY <2>3
<1>2. Max(1 .. n) = n
  <2>1. 1 .. n # {} /\ n \in 1 .. n
    OBVIOUS
  <2>2. Max(1 .. n) \in 1 .. n /\ n <= Max(1 .. n)
    BY <1>1, <2>1
  <2> QED
    BY <2>2
<1>3. ASSUME NEW s \in SUBSET (1 .. n), s # {}
      PROVE  s \ {Max(s)} \in SUBSET (1 .. n - 1)
  <2> SUFFICES ASSUME NEW k \in s, k # Max(s) PROVE k \in 1 .. n - 1
    OBVIOUS
  <2>1. Max(s) \in 1 .. n /\ k <= Max(s) /\ k \in 1 .. n
    BY <1>1, <1>3
  <2> QED
    BY <2>1
<1> QED
  BY <1>1, <1>2, <1>3

\* A fold of F over q, from r: the function that FoldLeft picks exists, and its
\* values on the ranges that begin at 1 are the stages of the fold.
Folds(h, F, r, q) ==
  \A s \in SUBSET (1 .. Len(q)) :
    h[s] = IF s = {} THEN r ELSE F[h[s \ {Max(s)}], q[Max(s)]]

\* The fold is defined.
LEMMA FoldDefined ==
  ASSUME NEW R, NEW D, NEW F \in [R \X D -> R], NEW r \in R, NEW q \in Seq(D)
  PROVE  \E h \in [SUBSET (1 .. Len(q)) -> R] : Folds(h, F, r, q)
<1> DEFINE Value(g, s) == IF s = {} THEN r ELSE F[g[s \ {Max(s)}], q[Max(s)]]
           T == {n \in 0 .. Len(q) :
                   \E h \in [SUBSET (1 .. n) -> R] : \A s \in SUBSET (1 .. n) : h[s] = Value(h, s)}
<1>1. 0 \in T
  <2> DEFINE h == [s \in SUBSET (1 .. 0) |-> r]
  <2>1. h \in [SUBSET (1 .. 0) -> R] /\ 0 \in 0 .. Len(q)
    OBVIOUS
  <2>2. \A s \in SUBSET (1 .. 0) : s = {} /\ h[s] = r
    OBVIOUS
  <2> HIDE DEF h
  <2> QED
    BY <2>1, <2>2
<1>2. ASSUME NEW n \in 1 .. Len(q), n - 1 \in T
      PROVE  n \in T
  <2>1. PICK g \in [SUBSET (1 .. n - 1) -> R] : \A s \in SUBSET (1 .. n - 1) : g[s] = Value(g, s)
    BY <1>2
  <2> DEFINE h == [s \in SUBSET (1 .. n) |-> Value(g, s)]
  <2>2. \A s \in SUBSET (1 .. n) : s # {} =>
          Max(s) \in s /\ s \ {Max(s)} \in SUBSET (1 .. n - 1)
    BY MaxOfRange
  <2>3. h \in [SUBSET (1 .. n) -> R]
    <3> SUFFICES ASSUME NEW s \in SUBSET (1 .. n), s # {}
                 PROVE  F[g[s \ {Max(s)}], q[Max(s)]] \in R
      OBVIOUS
    <3> HIDE DEF Value, T
    <3>0. Max(s) \in s /\ s \ {Max(s)} \in SUBSET (1 .. n - 1)
      BY <2>2
    <3>1. Max(s) \in 1 .. Len(q)
      <4>1. 1 .. n \subseteq 1 .. Len(q)
        OBVIOUS
      <4> QED
        BY <3>0, <4>1
    <3>2. g[s \ {Max(s)}] \in R
      BY <2>1, <3>0
    <3>3. q[Max(s)] \in D
      BY <3>1
    <3> QED
      BY <3>2, <3>3
  <2>4. \A s \in SUBSET (1 .. n - 1) : h[s] = g[s]
    <3>1. \A s \in SUBSET (1 .. n - 1) : s \in SUBSET (1 .. n)
      OBVIOUS
    <3> QED
      BY <2>1, <3>1
  <2>5. \A s \in SUBSET (1 .. n) : h[s] = Value(h, s)
    <3> TAKE s \in SUBSET (1 .. n)
    <3>1. h[s] = Value(g, s)
      OBVIOUS
    <3>2. s # {} => h[s \ {Max(s)}] = g[s \ {Max(s)}]
      BY <2>2, <2>4
    <3> HIDE DEF h
    <3> QED
      BY <3>1, <3>2
  <2>6. n \in 0 .. Len(q)
    OBVIOUS
  <2> HIDE DEF h, Value
  <2> QED
    BY <2>3, <2>5, <2>6
<1>3. Len(q) \in T
  <2> HIDE DEF T
  <2>1. Len(q) \in Nat /\ Len(q) \in 0 .. Len(q)
    OBVIOUS
  <2> QED
    BY <1>1, <1>2, <2>1, Stepwise
<1> QED
  BY <1>3 DEF Folds

-----------------------------------------------------------------------------
(* Sums *)

Some(s) == CHOOSE x \in s : TRUE

\* The function by which SumFunctionOnSet adds up the values at the sets of F.
Sums(g, f, F) ==
  /\ DOMAIN g = F
  /\ \A s \in F : g[s] = IF s = {} THEN 0 ELSE f[Some(s)] + g[s \ {Some(s)}]

\* A set less one of its elements is smaller by one.
LEMMA OneLess ==
  ASSUME NEW s, IsFiniteSet(s), s # {}
  PROVE  /\ Some(s) \in s
         /\ \A x \in s : /\ IsFiniteSet(s \ {x})
                         /\ Cardinality(s \ {x}) = Cardinality(s) - 1
         /\ Cardinality(s) \in Nat \ {0}
<1>1. Cardinality(s) \in Nat \ {0}
  BY FS_CardinalityType, FS_EmptySet
<1>2. Some(s) \in s
  BY DEF Some
<1> QED
  BY <1>1, <1>2, FS_RemoveElement

\* The sums of the subsets of a finite set are defined.
LEMMA SumsDefined ==
  ASSUME NEW S, IsFiniteSet(S), NEW f
  PROVE  \E g : Sums(g, f, SUBSET S)
<1> DEFINE Upto(n) == {s \in SUBSET S : Cardinality(s) <= n}
           Value(g, s) == IF s = {} THEN 0 ELSE f[Some(s)] + g[s \ {Some(s)}]
           N == Cardinality(S)
           T == {n \in 0 .. N : \E g : Sums(g, f, Upto(n))}
<1>1. N \in Nat
  BY FS_CardinalityType
<1>2. ASSUME NEW s \in SUBSET S
      PROVE  IsFiniteSet(s) /\ Cardinality(s) \in Nat /\ Cardinality(s) <= N
  BY FS_Subset, FS_CardinalityType
<1>3. ASSUME NEW n \in Int, NEW s \in Upto(n), s # {}
      PROVE  s \ {Some(s)} \in Upto(n - 1)
  <2>1. IsFiniteSet(s) /\ Cardinality(s) <= n
    BY <1>2, <1>3
  <2>2. Cardinality(s \ {Some(s)}) = Cardinality(s) - 1 /\ Cardinality(s) \in Nat
    BY <2>1, <1>3, OneLess
  <2> QED
    BY <2>1, <2>2
<1>4. 0 \in T
  <2> DEFINE g == [s \in Upto(0) |-> 0]
  <2>1. \A s \in Upto(0) : s = {}
    <3> SUFFICES ASSUME NEW s \in Upto(0), s # {} PROVE FALSE
      OBVIOUS
    <3>1. IsFiniteSet(s) /\ Cardinality(s) <= 0
      BY <1>2
    <3>2. Cardinality(s) \in Nat \ {0}
      BY <3>1, OneLess
    <3> QED
      BY <3>1, <3>2
  <2>2. DOMAIN g = Upto(0) /\ \A s \in Upto(0) : g[s] = 0
    OBVIOUS
  <2>3. Sums(g, f, Upto(0))
    <3> HIDE DEF g
    <3> QED
      BY <2>1, <2>2 DEF Sums
  <2> HIDE DEF g, Upto
  <2> QED
    BY <1>1, <2>3
<1>5. ASSUME NEW n \in 1 .. N, n - 1 \in T
      PROVE  n \in T
  <2>1. PICK g : Sums(g, f, Upto(n - 1))
    BY <1>5
  <2> DEFINE h == [s \in Upto(n) |-> Value(g, s)]
  <2>2. \A s \in Upto(n) : s # {} => s \ {Some(s)} \in Upto(n - 1)
    BY <1>3
  <2>3. \A s \in Upto(n - 1) : h[s] = g[s]
    <3>1. Upto(n - 1) \subseteq Upto(n)
      BY <1>2
    <3>2. \A s \in Upto(n - 1) : g[s] = Value(g, s)
      BY <2>1 DEF Sums
    <3> HIDE DEF Upto, Value
    <3> QED
      BY <3>1, <3>2
  <2>4. \A s \in Upto(n) : h[s] = Value(h, s)
    <3> TAKE s \in Upto(n)
    <3>1. h[s] = Value(g, s)
      BY DEF Value
    <3>2. s # {} => h[s \ {Some(s)}] = g[s \ {Some(s)}]
      BY <2>2, <2>3
    <3> HIDE DEF h
    <3> QED
      BY <3>1, <3>2
  <2>5. DOMAIN h = Upto(n)
    OBVIOUS
  <2>6. Sums(h, f, Upto(n))
    <3> HIDE DEF h, Upto
    <3> QED
      BY <2>4, <2>5 DEF Sums
  <2>7. n \in 0 .. N
    OBVIOUS
  <2> HIDE DEF h, Upto, N
  <2> QED
    BY <2>6, <2>7
<1>6. N \in T
  <2> HIDE DEF T, N
  <2>1. N \in 0 .. N
    BY <1>1
  <2> QED
    BY <1>1, <1>4, <1>5, <2>1, Stepwise
<1>7. Upto(N) = SUBSET S
  BY <1>2
<1> QED
  BY <1>6, <1>7

\* They do not depend on the set that the subsets are of.
LEMMA SumsAgree ==
  ASSUME NEW S, IsFiniteSet(S), NEW f, NEW g, NEW h, NEW R, S \subseteq R,
         Sums(g, f, SUBSET S), Sums(h, f, SUBSET R)
  PROVE  g[S] = h[S]
<1> DEFINE N == Cardinality(S)
           T == {n \in 0 .. N : \A s \in SUBSET S : Cardinality(s) = n => g[s] = h[s]}
<1>1. N \in Nat
  BY FS_CardinalityType
<1>2. ASSUME NEW s \in SUBSET S
      PROVE  IsFiniteSet(s) /\ Cardinality(s) \in Nat
  BY FS_Subset, FS_CardinalityType
<1>3. 0 \in T
  <2>1. ASSUME NEW s \in SUBSET S, Cardinality(s) = 0 PROVE g[s] = h[s]
    <3>1. s = {}
      BY <1>2, <2>1, FS_EmptySet
    <3> QED
      BY <3>1 DEF Sums
  <2> QED
    BY <1>1, <2>1
<1>4. ASSUME NEW n \in 1 .. N, n - 1 \in T
      PROVE  n \in T
  <2>1. ASSUME NEW s \in SUBSET S, Cardinality(s) = n PROVE g[s] = h[s]
    <3>1. s # {} /\ IsFiniteSet(s)
      BY <1>2, <2>1, FS_EmptySet
    <3>2. s \ {Some(s)} \in SUBSET S /\ Cardinality(s \ {Some(s)}) = n - 1
      BY <2>1, <3>1, OneLess
    <3>3. g[s \ {Some(s)}] = h[s \ {Some(s)}]
      BY <1>4, <3>2
    <3>4. s \in SUBSET S /\ s \in SUBSET R
      OBVIOUS
    <3> QED
      BY <3>1, <3>3, <3>4 DEF Sums
  <2> QED
    BY <1>1, <2>1
<1>5. N \in T
  <2> HIDE DEF T, N
  <2>1. N \in 0 .. N
    BY <1>1
  <2> QED
    BY <1>1, <1>3, <1>4, <2>1, Stepwise
<1> QED
  BY <1>5

\* SumFunctionOnSet adds up the values one after the other, in some order.
LEMMA SumUnfolds ==
  ASSUME NEW S, IsFiniteSet(S), NEW f
  PROVE  SumFunctionOnSet(f, S) =
           IF S = {} THEN 0 ELSE f[Some(S)] + SumFunctionOnSet(f, S \ {Some(S)})
<1> DEFINE Value(g, s) == IF s = {} THEN 0 ELSE f[Some(s)] + g[s \ {Some(s)}]
<1>1. ASSUME NEW s, IsFiniteSet(s)
      PROVE  \E g : Sums(g, f, SUBSET s) /\ SumFunctionOnSet(f, s) = g[s]
  <2>1. PICK h : Sums(h, f, SUBSET s)
    BY <1>1, SumsDefined
  <2>2. \E g : g = [t \in SUBSET s |-> Value(g, t)]
    <3> DEFINE k == [t \in SUBSET s |-> h[t]]
    <3>1. \A t \in SUBSET s : t # {} => t \ {Some(t)} \in SUBSET s
      OBVIOUS
    <3>2. \A t \in SUBSET s : k[t] = Value(k, t)
      <4> TAKE t \in SUBSET s
      <4>1. k[t] = Value(h, t)
        BY <2>1 DEF Sums
      <4>2. t # {} => k[t \ {Some(t)}] = h[t \ {Some(t)}]
        BY <3>1
      <4> HIDE DEF k
      <4> QED
        BY <4>1, <4>2
    <3>3. k = [t \in SUBSET s |-> Value(k, t)]
      <4> HIDE DEF Value
      <4> QED
        BY <3>2
    <3> HIDE DEF k
    <3> QED
      BY <3>3
  <2>3. \E g : g = [t \in SUBSET s |-> Value(g, t)] /\ SumFunctionOnSet(f, s) = g[s]
    BY <2>2 DEF SumFunctionOnSet, FoldFunctionOnSet, MapThenFoldSet, Some
  <2>4. PICK g : g = [t \in SUBSET s |-> Value(g, t)] /\ SumFunctionOnSet(f, s) = g[s]
    BY <2>3
  <2>5. DOMAIN g = SUBSET s /\ \A t \in SUBSET s : g[t] = Value(g, t)
    <3> HIDE DEF Value
    <3> QED
      BY <2>4
  <2>6. Sums(g, f, SUBSET s)
    BY <2>5 DEF Sums
  <2> QED
    BY <2>4, <2>6
<1>2. PICK g : Sums(g, f, SUBSET S) /\ SumFunctionOnSet(f, S) = g[S]
  BY <1>1
<1>3. g[S] = Value(g, S)
  BY <1>2 DEF Sums
<1>4. ASSUME S # {}
      PROVE  g[S \ {Some(S)}] = SumFunctionOnSet(f, S \ {Some(S)})
  <2>1. IsFiniteSet(S \ {Some(S)})
    BY <1>4, OneLess
  <2>2. PICK h : Sums(h, f, SUBSET (S \ {Some(S)}))
                 /\ SumFunctionOnSet(f, S \ {Some(S)}) = h[S \ {Some(S)}]
    BY <1>1, <2>1
  <2> QED
    BY <1>2, <2>1, <2>2, SumsAgree
<1> QED
  BY <1>2, <1>3, <1>4

\* The sum over no set is zero.
LEMMA SumOfNone == ASSUME NEW f PROVE SumFunctionOnSet(f, {}) = 0
BY SumUnfolds, FS_EmptySet

\* The order in which the values are added up does not matter.
LEMMA SumOfOneMore ==
  ASSUME NEW S, IsFiniteSet(S), NEW f, \A x \in S : f[x] \in Int
  PROVE  /\ SumFunctionOnSet(f, S) \in Int
         /\ \A y \in S : SumFunctionOnSet(f, S) = f[y] + SumFunctionOnSet(f, S \ {y})
<1> DEFINE N == Cardinality(S)
           Sum(s) == SumFunctionOnSet(f, s)
           T == {n \in 0 .. N : \A s \in SUBSET S : Cardinality(s) <= n =>
                    Sum(s) \in Int /\ \A y \in s : Sum(s) = f[y] + Sum(s \ {y})}
<1>1. N \in Nat
  BY FS_CardinalityType
<1>2. ASSUME NEW s \in SUBSET S
      PROVE  IsFiniteSet(s) /\ Cardinality(s) \in Nat
  BY FS_Subset, FS_CardinalityType
<1>3. 0 \in T
  <2>1. ASSUME NEW s \in SUBSET S, Cardinality(s) <= 0 PROVE s = {} /\ Sum(s) = 0
    <3>1. Cardinality(s) = 0
      BY <1>2, <2>1
    <3> QED
      BY <1>2, <3>1, FS_EmptySet, SumOfNone
  <2> HIDE DEF Sum
  <2> QED
    BY <1>1, <2>1
<1>4. ASSUME NEW n \in 1 .. N, n - 1 \in T
      PROVE  n \in T
  <2>0. ASSUME NEW s \in SUBSET S, s = {} PROVE Sum(s) = 0
    BY <2>0, SumOfNone
  <2>1. ASSUME NEW s \in SUBSET S, Cardinality(s) <= n, s # {}
        PROVE  Sum(s) \in Int /\ \A y \in s : Sum(s) = f[y] + Sum(s \ {y})
    <3>1. s # {} /\ IsFiniteSet(s) /\ Cardinality(s) \in Nat
      BY <1>2, <2>1
    <3>2. /\ Some(s) \in s
          /\ \A y \in s : s \ {y} \in SUBSET S /\ Cardinality(s \ {y}) <= n - 1
      BY <2>1, <3>1, OneLess
    <3>3. Sum(s) = f[Some(s)] + Sum(s \ {Some(s)})
      BY <3>1, SumUnfolds
    <3>4. \A y \in s : /\ Sum(s \ {y}) \in Int
                       /\ \A z \in s \ {y} : Sum(s \ {y}) = f[z] + Sum((s \ {y}) \ {z})
      BY <1>4, <3>2
    <3>5. \A y \in s : f[y] \in Int
      OBVIOUS
    <3>6. ASSUME NEW y \in s, y # Some(s)
          PROVE  Sum(s) = f[y] + Sum(s \ {y})
      <4> DEFINE x == Some(s)
                 t == (s \ {x}) \ {y}
      <4>1. t = (s \ {y}) \ {x}
        OBVIOUS
      <4>2. Sum(s \ {x}) = f[y] + Sum(t)
        BY <3>2, <3>4, <3>6
      <4>3. Sum(s \ {y}) = f[x] + Sum(t)
        BY <3>2, <3>4, <3>6, <4>1
      <4>4. Sum(t) \in Int
        <5>1. t \in SUBSET S /\ t = (s \ {x}) \ {y} /\ y \in s \ {x}
          BY <3>6
        <5>2. IsFiniteSet(s \ {x}) /\ Cardinality(s \ {x}) <= n - 1
              /\ Cardinality(s \ {x}) \in Nat
          BY <1>2, <3>2
        <5>3. Cardinality(t) = Cardinality(s \ {x}) - 1
          BY <5>1, <5>2, OneLess
        <5> HIDE DEF t, Sum
        <5> QED
          BY <1>4, <5>1, <5>2, <5>3
      <4> HIDE DEF Sum, t
      <4> QED
        BY <3>2, <3>3, <3>4, <3>5, <4>2, <4>3, <4>4
    <3>7. Sum(s) \in Int
      <4>1. Sum(s \ {Some(s)}) \in Int /\ f[Some(s)] \in Int
        BY <3>2, <3>4, <3>5
      <4> HIDE DEF Sum
      <4> QED
        BY <3>3, <4>1
    <3>8. \A y \in s : Sum(s) = f[y] + Sum(s \ {y})
      <4> HIDE DEF Sum
      <4> QED
        BY <3>3, <3>6, Zenon
    <3> HIDE DEF Sum
    <3> QED
      BY <3>7, <3>8
  <2> HIDE DEF Sum
  <2> QED
    BY <1>1, <2>0, <2>1
<1>5. N \in T
  <2> HIDE DEF T, N
  <2>1. N \in 0 .. N
    BY <1>1
  <2> QED
    BY <1>1, <1>3, <1>4, <2>1, Stepwise
<1> QED
  BY <1>5

\* Of values that are not negative, a part does not add up to more.
LEMMA SumOfPart ==
  ASSUME NEW S, IsFiniteSet(S), NEW f, \A x \in S : f[x] \in Nat
  PROVE  /\ SumFunctionOnSet(f, S) \in Nat
         /\ \A t \in SUBSET S : SumFunctionOnSet(f, t) <= SumFunctionOnSet(f, S)
<1> DEFINE N == Cardinality(S)
           Sum(s) == SumFunctionOnSet(f, s)
           T == {n \in 0 .. N : \A s \in SUBSET S : Cardinality(s) <= n =>
                    \A t \in SUBSET s : Sum(t) <= Sum(s)}
<1>1. N \in Nat /\ \A s \in SUBSET S : IsFiniteSet(s) /\ Cardinality(s) \in Nat
  BY FS_Subset, FS_CardinalityType
<1>2. ASSUME NEW s \in SUBSET S
      PROVE  Sum(s) \in Int /\ \A y \in s : Sum(s) = f[y] + Sum(s \ {y})
  <2>1. IsFiniteSet(s) /\ \A x \in s : f[x] \in Int
    BY <1>1
  <2> QED
    BY <2>1, SumOfOneMore
<1>3. 0 \in T
  <2>1. ASSUME NEW s \in SUBSET S, Cardinality(s) <= 0, NEW t \in SUBSET s
        PROVE  Sum(t) <= Sum(s)
    <3>1. Cardinality(s) = 0
      BY <1>1, <2>1
    <3>2. s = t
      BY <1>1, <3>1, FS_EmptySet
    <3>3. Sum(s) \in Int
      BY <1>2
    <3> HIDE DEF Sum
    <3> QED
      BY <3>2, <3>3
  <2> HIDE DEF Sum
  <2> QED
    BY <1>1, <2>1
<1>4. ASSUME NEW n \in 1 .. N, n - 1 \in T
      PROVE  n \in T
  <2>1. ASSUME NEW s \in SUBSET S, Cardinality(s) <= n, NEW t \in SUBSET s
        PROVE  Sum(t) <= Sum(s)
    <3>1. CASE s = t
      <4>1. Sum(s) \in Int
        BY <1>2
      <4> HIDE DEF Sum
      <4> QED
        BY <3>1, <4>1
    <3>2. CASE s # t
      <4>1. PICK y \in s : y \notin t
        BY <3>2
      <4>2. t \in SUBSET (s \ {y}) /\ s \ {y} \in SUBSET S /\ s # {} /\ f[y] \in Nat
        BY <4>1
      <4>3. Cardinality(s \ {y}) <= n - 1
        <5>1. Cardinality(s \ {y}) = Cardinality(s) - 1 /\ Cardinality(s) \in Nat
          BY <1>1, <4>1, <4>2, OneLess
        <5> QED
          BY <5>1, <2>1
      <4>4. Sum(t) <= Sum(s \ {y})
        <5> HIDE DEF Sum
        <5> QED
          BY <1>4, <4>2, <4>3
      <4>5. Sum(s) = f[y] + Sum(s \ {y}) /\ Sum(t) \in Int /\ Sum(s \ {y}) \in Int
        <5>1. t \in SUBSET S /\ s \ {y} \in SUBSET S
          OBVIOUS
        <5> HIDE DEF Sum
        <5> QED
          BY <1>2, <4>1, <5>1
      <4> HIDE DEF Sum
      <4> QED
        BY <4>2, <4>4, <4>5
    <3> QED
      BY <3>1, <3>2
  <2> HIDE DEF Sum
  <2> QED
    BY <1>1, <2>1
<1>5. N \in T
  <2> HIDE DEF T, N
  <2>1. N \in 0 .. N
    BY <1>1
  <2> QED
    BY <1>1, <1>3, <1>4, <2>1, Stepwise
<1>6. {} \in SUBSET S /\ Sum({}) = 0 /\ S \in SUBSET S /\ Sum(S) \in Int
  BY <1>2, SumOfNone
<1>7. \A t \in SUBSET S : Sum(t) <= Sum(S)
  <2>1. Cardinality(S) <= N
    BY <1>1
  <2> HIDE DEF Sum
  <2> QED
    BY <1>5, <1>6, <2>1
<1> HIDE DEF Sum
<1>8. Sum(S) \in Nat
  BY <1>6, <1>7
<1> QED
  BY <1>7, <1>8 DEF Sum

\* The sum over an interval, from its last element.
LEMMA SumOfInterval ==
  ASSUME NEW a \in Int, NEW b \in Int, NEW f, \A x \in a .. b : f[x] \in Nat
  PROVE  /\ SumFunctionOnSet(f, a .. b) \in Nat
         /\ a <= b => SumFunctionOnSet(f, a .. b) = SumFunctionOnSet(f, a .. b - 1) + f[b]
         /\ b < a => SumFunctionOnSet(f, a .. b) = 0
         /\ \A e \in a .. b : SumFunctionOnSet(f, a .. e) <= SumFunctionOnSet(f, a .. b)
<1> DEFINE Sum(s) == SumFunctionOnSet(f, s)
<1>1. IsFiniteSet(a .. b) /\ IsFiniteSet(a .. b - 1)
  BY FS_Interval
<1>2. Sum(a .. b) \in Nat /\ \A t \in SUBSET (a .. b) : Sum(t) <= Sum(a .. b)
  BY <1>1, SumOfPart
<1>3. ASSUME a <= b PROVE Sum(a .. b) = Sum(a .. b - 1) + f[b]
  <2>1. b \in a .. b /\ (a .. b) \ {b} = a .. b - 1
    BY <1>3
  <2>2. \A x \in a .. b - 1 : f[x] \in Nat
    OBVIOUS
  <2>3. Sum(a .. b - 1) \in Nat
    BY <1>1, <2>2, SumOfPart
  <2>4. \A x \in a .. b : f[x] \in Int
    OBVIOUS
  <2>5. \A y \in a .. b : Sum(a .. b) = f[y] + Sum((a .. b) \ {y})
    BY <1>1, <2>4, SumOfOneMore
  <2>6. Sum(a .. b) = f[b] + Sum(a .. b - 1) /\ f[b] \in Nat
    <3> HIDE DEF Sum
    <3> QED
      BY <2>1, <2>5
  <2> HIDE DEF Sum
  <2> QED
    BY <2>3, <2>6
<1>4. ASSUME b < a PROVE Sum(a .. b) = 0
  <2>1. a .. b = {}
    BY <1>4
  <2> QED
    BY <2>1, SumOfNone
<1>5. ASSUME NEW e \in a .. b PROVE Sum(a .. e) <= Sum(a .. b)
  <2>1. a .. e \in SUBSET (a .. b)
    OBVIOUS
  <2> HIDE DEF Sum
  <2> QED
    BY <1>2, <2>1
<1> QED
  BY <1>2, <1>3, <1>4, <1>5

\* A solution f of the equation that a fold is defined by; a function g that
\* solves it as far as its values are in R; and the values h that a fold runs
\* through until it has got to v.
Solves(f, F, R, D, r, q) ==
  /\ f \in [SUBSET (1 .. Len(q)) -> R]
  /\ f = [s \in SUBSET (1 .. Len(q)) |-> IF s = {} THEN r ELSE F[f[s \ {Max(s)}], q[Max(s)]]]
  /\ \A s \in SUBSET (1 .. Len(q)) : s # {} => f[s \ {Max(s)}] \in R /\ q[Max(s)] \in D

RunsAs(g, F, R, r, q) ==
  /\ g[{}] = r
  /\ \A s \in SUBSET (1 .. Len(q)) : s # {} /\ g[s \ {Max(s)}] \in R =>
       g[s] = F[g[s \ {Max(s)}], q[Max(s)]]

Run(h, F, R, r, q, v) ==
  /\ h \in [0 .. Len(q) -> R]
  /\ h[0] = r /\ h[Len(q)] = v
  /\ \A n \in 1 .. Len(q) : h[n] = F[h[n - 1], q[n]]

\* The equation has a solution.
LEMMA FoldEquation ==
  ASSUME NEW R, NEW D, NEW F \in [R \X D -> R], NEW r \in R, NEW q \in Seq(D)
  PROVE  \E f : Solves(f, F, R, D, r, q)
<1>1. Len(q) \in Nat /\ \A n \in 1 .. Len(q) : q[n] \in D
  OBVIOUS
<1>2. PICK f \in [SUBSET (1 .. Len(q)) -> R] : Folds(f, F, r, q)
  BY FoldDefined
<1> DEFINE n == Len(q)
<1> HIDE DEF n
<1>3. ASSUME NEW s \in SUBSET (1 .. n), s # {}
      PROVE  Max(s) \in 1 .. n /\ s \ {Max(s)} \in SUBSET (1 .. n)
  <2>1. n \in Nat \ {0}
    <3>1. 1 .. 0 = {}
      OBVIOUS
    <3>2. n \in Nat
      BY <1>1 DEF n
    <3> QED
      BY <3>1, <3>2, <1>3
  <2> QED
    BY <2>1, <1>3, MaxOfRange
<1>4. \A s \in SUBSET (1 .. n) : s # {} => f[s \ {Max(s)}] \in R /\ q[Max(s)] \in D
  BY <1>1, <1>2, <1>3 DEF n
<1>5. f = [s \in SUBSET (1 .. Len(q)) |-> IF s = {} THEN r ELSE F[f[s \ {Max(s)}], q[Max(s)]]]
  BY <1>2 DEF Folds
<1> QED
  BY <1>4, <1>5, <1>2 DEF n, Solves

\* A function that goes on as F from what is in R never leaves it.
LEMMA FoldRuns ==
  ASSUME NEW R, NEW D, NEW F \in [R \X D -> R], NEW r \in R, NEW q \in Seq(D),
         NEW g, RunsAs(g, F, R, r, q)
  PROVE  \E h : Run(h, F, R, r, q, g[1 .. Len(q)])
<1> DEFINE N == Len(q)
           T == {n \in 0 .. N : g[1 .. n] \in R}
           h == [n \in 0 .. N |-> g[1 .. n]]
<1>1. N \in Nat /\ \A n \in 1 .. N : q[n] \in D
  OBVIOUS
<1>2. \A s \in SUBSET (1 .. N) : s # {} /\ g[s \ {Max(s)}] \in R =>
         g[s] = F[g[s \ {Max(s)}], q[Max(s)]]
  BY DEF RunsAs
<1> HIDE DEF N
<1>0. \A n \in 1 .. N : /\ n \in Nat \ {0} /\ n \in 0 .. N /\ n - 1 \in 0 .. N
                         /\ 1 .. n \in SUBSET (1 .. N) /\ 1 .. n # {}
  <2> TAKE n \in 1 .. N
  <2>1. n \in Nat \ {0} /\ n \in 0 .. N /\ n - 1 \in 0 .. N
    BY <1>1
  <2>2. \A k \in 1 .. n : k \in 1 .. N
    BY <1>1
  <2>3. n \in 1 .. n
    BY <1>1
  <2> QED
    BY <2>1, <2>2, <2>3
<1>3. ASSUME NEW n \in 1 .. N, g[1 .. n - 1] \in R
      PROVE  g[1 .. n] = F[g[1 .. n - 1], q[n]] /\ g[1 .. n] \in R
  <2>1. 1 .. n \in SUBSET (1 .. N) /\ 1 .. n # {} /\ n \in Nat \ {0}
    BY <1>0
  <2>2. Max(1 .. n) = n /\ (1 .. n) \ {n} = 1 .. n - 1
    BY <2>1, MaxOfRange
  <2>3. g[1 .. n] = F[g[1 .. n - 1], q[n]]
    BY <2>1, <2>2, <1>2, <1>3
  <2> QED
    BY <2>3, <1>1, <1>3
<1>4. g[1 .. 0] = r
  <2>1. 1 .. 0 = {}
    OBVIOUS
  <2> QED
    BY <2>1 DEF RunsAs
<1>5. \A n \in 0 .. N : n \in T
  <2>1. 0 \in T
    BY <1>1, <1>4
  <2>2. \A n \in 1 .. N : n - 1 \in T => n \in T
    BY <1>0, <1>3
  <2> HIDE DEF T
  <2> QED
    BY <2>1, <2>2, <1>1, Stepwise
<1>6. h \in [0 .. N -> R]
  BY <1>5
<1>7. h[0] = r /\ h[N] = g[1 .. N]
  BY <1>1, <1>4
<1>8. \A n \in 1 .. N : h[n] = F[h[n - 1], q[n]]
  <2> TAKE n \in 1 .. N
  <2>1. n \in 0 .. N /\ n - 1 \in 0 .. N
    BY <1>0
  <2> QED
    BY <2>1, <1>3, <1>5
<1> HIDE DEF h
<1> QED
  BY <1>6, <1>7, <1>8 DEF N, Run

\* The values that the fold runs through exist.
LEMMA RunExists ==
  ASSUME NEW R, NEW D, NEW F \in [R \X D -> R], NEW r \in R, NEW q \in Seq(D)
  PROVE  \E h, v : Run(h, F, R, r, q, v)
<1>1. PICK f : Solves(f, F, R, D, r, q)
  BY FoldEquation, Zenon
<1>2. RunsAs(f, F, R, r, q)
  <2>1. {} \in SUBSET (1 .. Len(q))
    OBVIOUS
  <2>2. f = [s \in SUBSET (1 .. Len(q)) |-> IF s = {} THEN r ELSE F[f[s \ {Max(s)}], q[Max(s)]]]
    BY <1>1, Zenon DEF Solves
  <2> QED
    BY <2>1, <2>2 DEF RunsAs
<1> QED
  BY <1>2, FoldRuns, Zenon

\* A function has at most as many values as arguments, and as many only if it
\* tells them apart.
LEMMA ImageSize ==
  ASSUME NEW S, IsFiniteSet(S), NEW f
  PROVE  /\ IsFiniteSet({f[x] : x \in S})
         /\ Cardinality({f[x] : x \in S}) <= Cardinality(S)
         /\ Cardinality({f[x] : x \in S}) = Cardinality(S) <=>
              \A x, y \in S : f[x] = f[y] => x = y
<1> DEFINE T == {f[x] : x \in S}
           g == [x \in S |-> f[x]]
<1>1. g \in Surjection(S, T)
  BY DEF Surjection
<1>2. /\ IsFiniteSet(T) /\ Cardinality(T) <= Cardinality(S)
      /\ Cardinality(T) = Cardinality(S) <=> g \in Injection(S, T)
  <2> HIDE DEF T, g
  <2> QED
    BY <1>1, FS_Surjection
<1>3. g \in Injection(S, T) <=> \A x, y \in S : f[x] = f[y] => x = y
  BY DEF Injection, IsInjective
<1> QED
  BY <1>2, <1>3

-----------------------------------------------------------------------------
(* Numbers in order *)

\* Numbers that increase and have no room to leave one out do not.
LEMMA Increasing ==
  ASSUME NEW n \in Nat, NEW g, \A i \in 1 .. n : g[i] \in 0 .. n - 1,
         \A i, j \in 1 .. n : i < j => g[i] < g[j]
  PROVE  \A i \in 1 .. n : g[i] = i - 1
<1> DEFINE A == {i \in 0 .. n : i > 0 => g[i] >= i - 1}
           B == {k \in 0 .. n : k > 0 => g[n + 1 - k] <= n - k}
<1>1. \A i \in 0 .. n : i \in A
  <2>1. 0 \in A
    OBVIOUS
  <2>2. ASSUME NEW i \in 1 .. n, i - 1 \in A PROVE i \in A
    <3>1. CASE i = 1
      BY <3>1
    <3>2. CASE i # 1
      <4>1. i - 1 \in 1 .. n /\ i - 1 < i
        BY <3>2
      <4>2. g[i - 1] \in Int /\ g[i] \in Int /\ g[i - 1] < g[i] /\ g[i - 1] >= (i - 1) - 1
        BY <4>1, <2>2
      <4>3. g[i] >= i - 1
        BY <4>2
      <4> QED
        BY <4>3
    <3> QED
      BY <3>1, <3>2
  <2> HIDE DEF A
  <2> QED
    BY <2>1, <2>2, Stepwise
<1>2. \A k \in 0 .. n : k \in B
  <2>1. 0 \in B
    OBVIOUS
  <2>2. ASSUME NEW k \in 1 .. n, k - 1 \in B PROVE k \in B
    <3>1. CASE k = 1
      <4>1. n + 1 - k = n /\ n \in 1 .. n
        BY <3>1
      <4>2. g[n] <= n - k
        BY <3>1, <4>1
      <4> QED
        BY <4>1, <4>2
    <3>2. CASE k # 1
      <4>1. n + 1 - k \in 1 .. n /\ n + 1 - (k - 1) \in 1 .. n /\ n + 1 - k < n + 1 - (k - 1)
        BY <3>2
      <4>2. g[n + 1 - (k - 1)] <= n - (k - 1)
        BY <2>2, <3>2
      <4>3. g[n + 1 - k] \in Int /\ g[n + 1 - (k - 1)] \in Int /\ g[n + 1 - k] < g[n + 1 - (k - 1)]
        BY <4>1
      <4>4. g[n + 1 - k] <= n - k
        BY <4>2, <4>3
      <4> QED
        BY <4>4
    <3> QED
      BY <3>1, <3>2
  <2> HIDE DEF B
  <2> QED
    BY <2>1, <2>2, Stepwise
<1>3. ASSUME NEW i \in 1 .. n PROVE g[i] = i - 1
  <2>1. g[i] >= i - 1 /\ g[i] \in Int
    <3>1. i \in A
      <4> HIDE DEF A
      <4> QED
        BY <1>1
    <3> QED
      BY <3>1
  <2>2. n + 1 - i \in B
    <3>1. n + 1 - i \in 0 .. n
      OBVIOUS
    <3> HIDE DEF B
    <3> QED
      BY <3>1, <1>2
  <2>3. n + 1 - (n + 1 - i) = i /\ n - (n + 1 - i) = i - 1 /\ n + 1 - i > 0
    OBVIOUS
  <2>4. g[i] <= i - 1
    BY <2>2, <2>3
  <2> QED
    BY <2>1, <2>4
<1> QED
  BY <1>3

\* Numbers each of which is one more than that before it are all different.
LEMMA Consecutive ==
  ASSUME NEW n \in Nat, NEW g, \A i \in 1 .. n : g[i] \in Int,
         \A i \in 1 .. n - 1 : g[i + 1] = g[i] + 1
  PROVE  \A i, j \in 1 .. n : g[i] = g[j] => i = j
<1> DEFINE T == {i \in 0 .. n : i > 0 => g[i] = g[1] + i - 1}
<1>1. \A i \in 0 .. n : i \in T
  <2>1. 0 \in T
    OBVIOUS
  <2>2. ASSUME NEW i \in 1 .. n, i - 1 \in T PROVE i \in T
    <3>0. 1 \in 1 .. n
      OBVIOUS
    <3>a. g[1] \in Int
      BY <3>0
    <3>1. CASE i = 1
      BY <3>1, <3>a
    <3>2. CASE i # 1
      <4>1. i - 1 \in 1 .. n - 1 /\ (i - 1) + 1 = i
        BY <3>2
      <4>2. g[i] = g[i - 1] + 1
        BY <4>1
      <4>3. g[i - 1] = g[1] + (i - 1) - 1
        BY <2>2, <3>2
      <4>4. g[i] = g[1] + i - 1
        BY <4>2, <4>3, <3>a
      <4> QED
        BY <4>4
    <3> QED
      BY <3>1, <3>2
  <2> HIDE DEF T
  <2> QED
    BY <2>1, <2>2, Stepwise
<1>2. \A i \in 1 .. n : g[i] = g[1] + i - 1
  <2> TAKE i \in 1 .. n
  <2>1. i \in 0 .. n
    OBVIOUS
  <2>2. i \in T
    <3> HIDE DEF T
    <3> QED
      BY <2>1, <1>1
  <2> QED
    BY <2>2
<1> SUFFICES ASSUME NEW i \in 1 .. n, NEW j \in 1 .. n, g[i] = g[j] PROVE i = j
  OBVIOUS
<1>3. 1 \in 1 .. n
  OBVIOUS
<1>4. g[1] \in Int /\ g[i] = g[1] + i - 1 /\ g[j] = g[1] + j - 1
  BY <1>2, <1>3
<1>5. g[1] + i - 1 = g[1] + j - 1
  BY <1>4
<1> QED
  BY <1>4, <1>5
===============================================================================
