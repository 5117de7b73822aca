----------------------------- MODULE OrderProofs ----------------------------
(***************************************************************************)
(* Facts about sets of numbers that other proofs rest on: a least member   *)
(* to CHOOSE, induction over a set of numbers, recursive functions, the    *)
(* place of a member in a finite set, and what InOrder makes of it.        *)
(***************************************************************************)
EXTENDS Order, Sequences, FiniteSetTheorems, WellFoundedInduction, TLAPS

-----------------------------------------------------------------------------
(* A non-empty set of naturals has a least member.                         *)
LEMMA Least ==
    ASSUME NEW T \in SUBSET Nat, T # {}
    PROVE  \E x \in T : \A y \in T : x <= y
<1> DEFINE R == OpToRel(<, Nat)
<1>1. \A x, y \in Nat : <<x, y>> \in R <=> x < y
  BY DEF OpToRel
<1>2. IsWellFoundedOn(R, Nat)
  BY NatLessThanWellFounded
<1> HIDE DEF R
<1>3. PICK x \in T : \A y \in T : ~(<<y, x>> \in R)
  BY <1>2, WFMin
<1>4. ASSUME NEW y \in T
      PROVE  x <= y
  <2>1. x \in Nat /\ y \in Nat
    OBVIOUS
  <2>2. ~(<<y, x>> \in R)
    BY <1>3
  <2>3. ~(y < x)
    BY <2>1, <2>2, <1>1
  <2> QED
    BY <2>1, <2>3
<1> QED
  BY <1>4

(* Induction over the naturals, with the set of those that have a property *)
(* in the place of the property.                                           *)
LEMMA SetInduction ==
    ASSUME NEW S, 0 \in S, \A n \in Nat : n \in S => n + 1 \in S
    PROVE  \A n \in Nat : n \in S
<1> SUFFICES ASSUME Nat \ S # {}
             PROVE  FALSE
  OBVIOUS
<1>1. PICK x \in Nat \ S : \A y \in Nat \ S : x <= y
  BY Least
<1>2. x # 0 /\ x - 1 \in Nat
  BY <1>1
<1>3. x - 1 \in S
  BY <1>1, <1>2
<1>4. (x - 1) + 1 \in S /\ (x - 1) + 1 = x
  BY <1>2, <1>3
<1> QED
  BY <1>1, <1>4

-----------------------------------------------------------------------------
(* Recursive functions of numbers: there is one that steps as F says, and  *)
(* no two.                                                                 *)
StepsBy(e, a, F, n) == e[0] = a /\ \A m \in 1 .. n : e[m] = F[m][e[m - 1]]

LEMMA Recursive ==
    ASSUME NEW V, NEW n \in Nat, NEW a \in V, NEW F \in [1 .. n -> [V -> V]]
    PROVE  \E e \in [0 .. n -> V] : StepsBy(e, a, F, n)
<1> DEFINE X == {j \in Nat : j <= n => \E e \in [0 .. j -> V] : StepsBy(e, a, F, j)}
<1>1. 0 \in X
  <2> DEFINE e == [m \in 0 .. 0 |-> a]
  <2>1. e \in [0 .. 0 -> V] /\ StepsBy(e, a, F, 0)
    BY DEF StepsBy
  <2>2. \E f \in [0 .. 0 -> V] : StepsBy(f, a, F, 0)
    BY <2>1, Zenon
  <2> QED
    BY <2>2
<1>2. ASSUME NEW j \in Nat, j \in X
      PROVE  j + 1 \in X
  <2>1. CASE j + 1 <= n
    <3>0. j <= n
      BY <2>1
    <3>1. PICK e \in [0 .. j -> V] : StepsBy(e, a, F, j)
      BY <1>2, <3>0, Zenon
    <3> DEFINE f == [m \in 0 .. j + 1 |-> IF m = j + 1 THEN F[j + 1][e[j]] ELSE e[m]]
    <3>2. j + 1 \in 1 .. n /\ e[j] \in V
      BY <2>1
    <3>3. F[j + 1][e[j]] \in V
      BY <3>2
    <3>4. \A m \in 0 .. j : f[m] = e[m] /\ e[m] \in V
      OBVIOUS
    <3>5. f \in [0 .. j + 1 -> V]
      BY <3>3, <3>4
    <3>6. f[j + 1] = F[j + 1][e[j]] /\ f[j] = e[j] /\ f[0] = e[0]
      OBVIOUS
    <3> HIDE DEF f
    <3>7. ASSUME NEW m \in 1 .. j + 1
          PROVE  f[m] = F[m][f[m - 1]]
      <4>1. CASE m = j + 1
        <5>1. m - 1 = j
          BY <4>1
        <5> QED
          BY <3>6, <4>1, <5>1
      <4>2. CASE m \in 1 .. j
        <5>1. m - 1 \in 0 .. j /\ m \in 0 .. j
          BY <4>2
        <5>2. f[m] = e[m] /\ f[m - 1] = e[m - 1] /\ e[m] = F[m][e[m - 1]]
          BY <3>1, <3>4, <4>2, <5>1 DEF StepsBy
        <5> QED
          BY <5>2
      <4> QED
        BY <4>1, <4>2
    <3>8. StepsBy(f, a, F, j + 1)
      BY <3>1, <3>6, <3>7 DEF StepsBy
    <3> QED
      BY <3>5, <3>8
  <2>2. CASE ~(j + 1 <= n)
    BY <2>2
  <2> QED
    BY <2>1, <2>2
<1>3. n \in X
  <2> HIDE DEF X
  <2> QED
    BY <1>1, <1>2, SetInduction
<1>4. n <= n
  OBVIOUS
<1> QED
  BY <1>3, <1>4, Zenon

StepAlike(e, f, n) == e[0] = f[0] /\ \A m \in 1 .. n : e[m - 1] = f[m - 1] => e[m] = f[m]

LEMMA SameRecursion ==
    ASSUME NEW n \in Nat, NEW e, NEW f, StepAlike(e, f, n)
    PROVE  \A m \in 0 .. n : e[m] = f[m]
<1> DEFINE X == {m \in Nat : m <= n => e[m] = f[m]}
<1>1. 0 \in X
  BY DEF StepAlike
<1>2. ASSUME NEW m \in Nat, m \in X
      PROVE  m + 1 \in X
  <2>1. CASE m + 1 <= n
    <3>1. m + 1 \in 1 .. n /\ (m + 1) - 1 = m /\ e[m] = f[m]
      BY <1>2, <2>1
    <3>2. e[m + 1] = f[m + 1]
      BY <3>1 DEF StepAlike
    <3> QED
      BY <3>2
  <2>2. CASE ~(m + 1 <= n)
    BY <2>2
  <2> QED
    BY <2>1, <2>2
<1>3. \A m \in Nat : m \in X
  <2> HIDE DEF X
  <2> QED
    BY <1>1, <1>2, SetInduction
<1> QED
  BY <1>3

-----------------------------------------------------------------------------
UpTo(S, k) == {j \in S : j <= k}

(* The members of a finite set up to its member k are as many as k's place *)
(* in it; no two members have the same place, and every place is taken.    *)
LEMMA Ranks ==
    ASSUME NEW S \in SUBSET Nat, IsFiniteSet(S)
    PROVE  /\ \A k \in S : Cardinality(UpTo(S, k)) \in 1 .. Cardinality(S)
           /\ \A k, l \in S : k < l => Cardinality(UpTo(S, k)) < Cardinality(UpTo(S, l))
           /\ \A n \in 1 .. Cardinality(S) : \E k \in S : Cardinality(UpTo(S, k)) = n
<1> DEFINE N == Cardinality(S)
<1>1. N \in Nat
  BY FS_CardinalityType
<1>2. ASSUME NEW k \in S
      PROVE  IsFiniteSet(UpTo(S, k)) /\ Cardinality(UpTo(S, k)) \in 1 .. N
  <2>1. UpTo(S, k) \in SUBSET S /\ k \in UpTo(S, k)
    BY DEF UpTo
  <2>2. IsFiniteSet(UpTo(S, k)) /\ Cardinality(UpTo(S, k)) <= N
    BY <2>1, FS_Subset
  <2>3. Cardinality(UpTo(S, k)) \in Nat /\ Cardinality(UpTo(S, k)) # 0
    BY <2>1, <2>2, FS_CardinalityType, FS_EmptySet
  <2>4. Cardinality(UpTo(S, k)) \in 1 .. N
    BY <1>1, <2>2, <2>3
  <2> QED
    BY <2>2, <2>4
<1>3. ASSUME NEW k \in S, NEW l \in S, k < l
      PROVE  Cardinality(UpTo(S, k)) < Cardinality(UpTo(S, l))
  <2>0. k \in Nat /\ l \in Nat /\ \A j \in S : j \in Nat
    OBVIOUS
  <2>5. ASSUME NEW j \in UpTo(S, k)
        PROVE  j \in UpTo(S, l)
    <3>1. j \in S /\ j <= k
      BY DEF UpTo
    <3>2. j <= l
      BY <2>0, <1>3, <3>1
    <3> QED
      BY <3>1, <3>2 DEF UpTo
  <2>1. UpTo(S, k) \in SUBSET UpTo(S, l)
    BY <2>5
  <2>3. l \in UpTo(S, l)
    BY <2>0 DEF UpTo
  <2>4. l \notin UpTo(S, k)
    BY <2>0, <1>3 DEF UpTo
  <2>2. Cardinality(UpTo(S, k)) <= Cardinality(UpTo(S, l))
        /\ Cardinality(UpTo(S, k)) # Cardinality(UpTo(S, l))
    BY <1>2, <2>1, <2>3, <2>4, FS_Subset
  <2> QED
    BY <1>2, <2>2
<1>4. ASSUME NEW n \in 1 .. N
      PROVE  \E k \in S : Cardinality(UpTo(S, k)) = n
  <2> DEFINE f == [k \in S |-> Cardinality(UpTo(S, k))]
  <2>1. f \in [S -> 1 .. N]
    BY <1>2
  <2>2. ASSUME NEW k \in S, NEW l \in S, f[k] = f[l]
        PROVE  k = l
    <3>1. k \in Nat /\ l \in Nat /\ f[k] \in Nat
      BY <2>1
    <3>2. ~(k < l) /\ ~(l < k)
      BY <1>3, <2>2, <1>2, <3>1
    <3> QED
      BY <3>1, <3>2
  <2>3. f \in Injection(S, 1 .. N)
    BY <2>1, <2>2 DEF Injection, IsInjective
  <2>4. IsFiniteSet(1 .. N) /\ Cardinality(1 .. N) = N
    BY <1>1, FS_Interval
  <2>5. f \in Surjection(S, 1 .. N)
    BY <2>3, <2>4, FS_Injection
  <2> QED
    BY <2>5 DEF Surjection
<1> QED
  BY <1>2, <1>3, <1>4

LEMMA SameRank ==
    ASSUME NEW S \in SUBSET Nat, IsFiniteSet(S), NEW k \in S, NEW l \in S,
           Cardinality(UpTo(S, k)) = Cardinality(UpTo(S, l))
    PROVE  k = l
<1>1. Cardinality(UpTo(S, k)) \in Nat
  BY Ranks
<1>2. ~(k < l) /\ ~(l < k)
  BY <1>1, Ranks
<1>3. k \in Nat /\ l \in Nat
  OBVIOUS
<1> QED
  BY <1>2, <1>3

LEMMA InOrderRank ==
    ASSUME NEW S \in SUBSET Nat, IsFiniteSet(S), NEW n \in 1 .. Cardinality(S)
    PROVE  InOrder(S)[n] \in S /\ Cardinality(UpTo(S, InOrder(S)[n])) = n
<1> DEFINE c == CHOOSE k \in S : Cardinality(UpTo(S, k)) = n
<1>1. \E k \in S : Cardinality(UpTo(S, k)) = n
  BY Ranks
<1>2. c \in S /\ Cardinality(UpTo(S, c)) = n
  BY <1>1
<1>3. InOrder(S)[n] = c
  BY DEF InOrder, UpTo
<1> QED
  BY <1>2, <1>3

(* InOrder lists every member once, ascending.                             *)
LEMMA InOrderLists ==
    ASSUME NEW S \in SUBSET Nat, IsFiniteSet(S)
    PROVE  /\ Cardinality(S) \in Nat
           /\ InOrder(S) \in [1 .. Cardinality(S) -> S]
           /\ \A k \in S : \E n \in 1 .. Cardinality(S) : InOrder(S)[n] = k
           /\ \A m, n \in 1 .. Cardinality(S) : m < n => InOrder(S)[m] < InOrder(S)[n]
<1> DEFINE N == Cardinality(S)
<1>1. N \in Nat
  BY FS_CardinalityType
<1>2. ASSUME NEW n \in 1 .. N
      PROVE  InOrder(S)[n] \in S /\ Cardinality(UpTo(S, InOrder(S)[n])) = n
  BY InOrderRank
<1>3. InOrder(S) \in [1 .. N -> S]
  BY <1>2 DEF InOrder
<1>4. ASSUME NEW k \in S
      PROVE  \E n \in 1 .. N : InOrder(S)[n] = k
  <2> DEFINE n == Cardinality(UpTo(S, k))
  <2>1. n \in 1 .. N
    BY Ranks
  <2>2. InOrder(S)[n] \in S /\ Cardinality(UpTo(S, InOrder(S)[n])) = n
    BY <1>2, <2>1
  <2> DEFINE l == InOrder(S)[n]
  <2>4. l \in S /\ Cardinality(UpTo(S, l)) = Cardinality(UpTo(S, k))
    BY <2>2
  <2> HIDE DEF l
  <2>5. l = k
    BY <2>4, SameRank
  <2>3. InOrder(S)[n] = k
    BY <2>5 DEF l
  <2> QED
    BY <2>1, <2>3
<1>5. ASSUME NEW m \in 1 .. N, NEW n \in 1 .. N, m < n
      PROVE  InOrder(S)[m] < InOrder(S)[n]
  <2> DEFINE a == InOrder(S)[m]
             b == InOrder(S)[n]
  <2>1. a \in S /\ b \in S /\ Cardinality(UpTo(S, a)) = m /\ Cardinality(UpTo(S, b)) = n
    BY <1>2
  <2> HIDE DEF a, b, N
  <2>2. a \in Nat /\ b \in Nat /\ m \in Nat /\ n \in Nat
    BY <1>1, <2>1
  <2>3. a # b
    BY <1>5, <2>1, <2>2
  <2>4. b < a => n < m
    BY <2>1, Ranks
  <2>5. a < b
    BY <1>5, <2>2, <2>3, <2>4
  <2> QED
    BY <2>5 DEF a, b
<1> QED
  BY <1>1, <1>3, <1>4, <1>5

(* It is the one list that does.                                           *)
LEMMA InOrderIs ==
    ASSUME NEW S \in SUBSET Nat, NEW N \in Nat, NEW f \in [1 .. N -> S],
           \A k \in S : \E n \in 1 .. N : f[n] = k,
           \A m, n \in 1 .. N : m < n => f[m] < f[n]
    PROVE  IsFiniteSet(S) /\ Cardinality(S) = N /\ InOrder(S) = f
<1>1. ASSUME NEW n \in 0 .. N, NEW T, T = {j \in S : \E m \in 1 .. n : f[m] = j}
      PROVE  IsFiniteSet(T) /\ Cardinality(T) = n
  <2> DEFINE g == [m \in 1 .. n |-> f[m]]
  <2>1. g \in [1 .. n -> T]
    BY <1>1
  <2>2. ASSUME NEW k \in 1 .. n, NEW l \in 1 .. n, g[k] = g[l]
        PROVE  k = l
    <3>0. k \in 1 .. N /\ l \in 1 .. N
      OBVIOUS
    <3>1. f[k] \in Nat /\ f[l] \in Nat /\ f[k] = f[l]
      BY <2>2, <3>0
    <3>2. ~(k < l) /\ ~(l < k)
      BY <3>0, <3>1
    <3> QED
      BY <3>0, <3>2
  <2>3. \A t \in T : \E m \in 1 .. n : g[m] = t
    BY <1>1
  <2>4. g \in Bijection(1 .. n, T)
    BY <2>1, <2>2, <2>3 DEF Bijection, Injection, Surjection, IsInjective
  <2>5. ExistsBijection(1 .. n, T)
    BY <2>4 DEF ExistsBijection
  <2>6. IsFiniteSet(1 .. n) /\ Cardinality(1 .. n) = n
    BY FS_Interval
  <2> QED
    BY <2>5, <2>6, FS_Bijection
<1>2. IsFiniteSet(S) /\ Cardinality(S) = N
  <2>1. S = {j \in S : \E m \in 1 .. N : f[m] = j}
    OBVIOUS
  <2> QED
    BY <1>1, <2>1
<1>3. ASSUME NEW n \in 1 .. N
      PROVE  InOrder(S)[n] = f[n]
  <2>1. \A m \in 1 .. N : f[m] \in Nat /\ (f[m] <= f[n] <=> m <= n)
    <3> SUFFICES ASSUME NEW m \in 1 .. N
                 PROVE  f[m] \in Nat /\ (f[m] <= f[n] <=> m <= n)
      OBVIOUS
    <3>1. f[m] \in Nat /\ f[n] \in Nat
      OBVIOUS
    <3>2. (m < n => f[m] < f[n]) /\ (n < m => f[n] < f[m])
      OBVIOUS
    <3> QED
      BY <3>1, <3>2
  <2>2. UpTo(S, f[n]) = {j \in S : \E m \in 1 .. n : f[m] = j}
    <3>1. ASSUME NEW j \in S, j <= f[n]
          PROVE  \E m \in 1 .. n : f[m] = j
      <4>1. PICK m \in 1 .. N : f[m] = j
        OBVIOUS
      <4> QED
        BY <2>1, <3>1, <4>1
    <3>2. ASSUME NEW j \in S, NEW m \in 1 .. n, f[m] = j
          PROVE  j <= f[n]
      BY <2>1, <3>2
    <3> QED
      BY <3>1, <3>2 DEF UpTo
  <2>3. Cardinality(UpTo(S, f[n])) = n
    BY <1>1, <2>2
  <2>4. InOrder(S)[n] \in S /\ Cardinality(UpTo(S, InOrder(S)[n])) = n
    BY <1>2, InOrderRank
  <2> DEFINE k == f[n]
             l == InOrder(S)[n]
  <2>5. k \in S
    OBVIOUS
  <2>6. l \in S
    BY <2>4
  <2>7. Cardinality(UpTo(S, k)) = Cardinality(UpTo(S, l))
    BY <2>3, <2>4
  <2> HIDE DEF k, l
  <2>8. k = l
    BY <1>2, <2>5, <2>6, <2>7, SameRank
  <2> QED
    BY <2>8 DEF k, l
<1>4. InOrder(S) \in [1 .. N -> S]
  BY <1>2, InOrderLists
<1> QED
  BY <1>2, <1>3, <1>4

(* A number above all of S comes last. *)
LEMMA InOrderAppend ==
    ASSUME NEW S \in SUBSET Nat, IsFiniteSet(S), NEW k \in Nat, \A j \in S : j < k
    PROVE  InOrder(S \cup {k}) = Append(InOrder(S), k)
<1> DEFINE N == Cardinality(S)
           f == Append(InOrder(S), k)
           T == S \cup {k}
<1>1. /\ N \in Nat
      /\ InOrder(S) \in [1 .. N -> S]
      /\ \A j \in S : \E n \in 1 .. N : InOrder(S)[n] = j
      /\ \A m, n \in 1 .. N : m < n => InOrder(S)[m] < InOrder(S)[n]
  BY InOrderLists
<1> HIDE DEF N
<1>2. InOrder(S) \in Seq(S) /\ Len(InOrder(S)) = N
  BY <1>1
<1> DEFINE g == InOrder(S)
<1> HIDE DEF g
<1>3. Len(f) = N + 1 /\ f[N + 1] = k /\ \A n \in 1 .. N : f[n] = g[n] /\ g[n] \in S
  BY <1>1, <1>2 DEF g
<1>4. f \in Seq(T) /\ N + 1 \in Nat /\ T \in SUBSET Nat
  <2>1. InOrder(S) \in Seq(T)
    BY <1>1
  <2> QED
    BY <1>1, <2>1
<1> HIDE DEF f
<1>5. f \in [1 .. N + 1 -> T]
  <2>1. f \in [1 .. Len(f) -> T]
    BY <1>4
  <2> QED
    BY <1>3, <2>1
<1>6. ASSUME NEW j \in T
      PROVE  \E n \in 1 .. N + 1 : f[n] = j
  <2>1. CASE j = k
    <3>1. N + 1 \in 1 .. N + 1
      BY <1>1
    <3> QED
      BY <1>3, <2>1, <3>1
  <2>2. CASE j \in S
    <3>1. PICK n \in 1 .. N : g[n] = j
      BY <1>1, <2>2 DEF g
    <3>2. n \in 1 .. N + 1
      BY <1>1
    <3> QED
      BY <1>3, <3>1, <3>2
  <2> QED
    BY <2>1, <2>2
<1>7. ASSUME NEW m \in 1 .. N + 1, NEW n \in 1 .. N + 1, m < n
      PROVE  f[m] < f[n]
  <2>1. m \in 1 .. N
    BY <1>1, <1>7
  <2>2. CASE n = N + 1
    BY <1>3, <2>1, <2>2
  <2>3. CASE n # N + 1
    <3>1. n \in 1 .. N
      BY <1>1, <2>3
    <3>2. g[m] < g[n]
      BY <1>1, <1>7, <2>1, <3>1 DEF g
    <3> QED
      BY <1>3, <2>1, <3>1, <3>2
  <2> QED
    BY <2>2, <2>3
<1> DEFINE M == N + 1
<1>8. /\ M \in Nat /\ f \in [1 .. M -> T]
      /\ \A j \in T : \E n \in 1 .. M : f[n] = j
      /\ \A m, n \in 1 .. M : m < n => f[m] < f[n]
  BY <1>4, <1>5, <1>6, <1>7
<1> HIDE DEF M, T
<1>9. InOrder(T) = f
  BY <1>4, <1>8, InOrderIs, SMTT(30) DEF T
<1> QED
  BY <1>9 DEF f, T
=============================================================================
