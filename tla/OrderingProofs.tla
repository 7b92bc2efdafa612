--------------------------- MODULE OrderingProofs ---------------------------
(***************************************************************************)
(* A finite set with a strict total order has one sorted list: it exists,  *)
(* lists every element once, is the only one, and has as many elements in  *)
(* front of each place as there are smaller ones.                          *)
(*                                                                         *)
(* The inductions are over the cardinality of a subset or over a place, by *)
(* way of the least natural number at which the claim would fail.          *)
(***************************************************************************)
EXTENDS Ordering, FunctionTheorems, FiniteSetTheorems, TLAPS

\* R is a strict total order of S.
IsOrder(R, S) ==
  /\ \A x \in S : <<x, x>> \notin R
  /\ \A x, y, z \in S : <<x, y>> \in R /\ <<y, z>> \in R => <<x, z>> \in R
  /\ \A x, y \in S : x # y => <<x, y>> \in R \/ <<y, x>> \in R

\* s lists elements in the order of R.
InOrderOf(s, R) == \A i, k \in DOMAIN s : i < k => <<s[i], s[k]>> \in R

\* A set of natural numbers has a least element.
LEMMA LeastNatural ==
  ASSUME NEW T \in SUBSET Nat, T # {}
  PROVE  \E n \in T : \A m \in T : n <= m
  <1> DEFINE R == OpToRel(<, Nat)
  <1>1. PICK n \in T : \A m \in T : ~(<<m, n>> \in R)
    <2>1. IsWellFoundedOn(R, Nat)
      BY NatLessThanWellFounded
    <2> HIDE DEF R
    <2>. QED
      BY <2>1, WFMin
  <1>2. \A m \in T : m < n => <<m, n>> \in R
    BY DEF OpToRel
  <1> HIDE DEF R
  <1>3. ASSUME NEW m \in T PROVE n <= m
    <2>1. ~(m < n)
      BY <1>1, <1>2
    <2>. QED
      BY <2>1
  <1>. QED
    BY <1>3

\* An order of a set orders its subsets.
LEMMA OrderOfSubset ==
  ASSUME NEW S, NEW R, IsOrder(R, S), NEW X \in SUBSET S
  PROVE  IsOrder(R, X)
  BY DEF IsOrder

\* A finite set that is not empty has a last element.
LEMMA LastElement ==
  ASSUME NEW S, NEW R, IsFiniteSet(S), IsOrder(R, S), S # {}
  PROVE  \E m \in S : \A x \in S \ {m} : <<x, m>> \in R
  <1> DEFINE Last(X, m) == \A x \in X \ {m} : <<x, m>> \in R
             Bad(X) == X # {} /\ ~ \E m \in X : Last(X, m)
             T == {n \in Nat : \E X \in SUBSET S : Cardinality(X) = n /\ Bad(X)}
  <1>1. SUFFICES ASSUME Bad(S) PROVE FALSE
    OBVIOUS
  <1>2. Cardinality(S) \in T
    BY <1>1, FS_CardinalityType
  <1>3. PICK n \in T : \A m \in T : n <= m
    <2> T \in SUBSET Nat
      OBVIOUS
    <2> HIDE DEF T
    <2>. QED
      BY <1>2, LeastNatural
  <1>4. PICK X \in SUBSET S : Cardinality(X) = n /\ Bad(X)
    OBVIOUS
  <1>5. PICK x \in X : TRUE
    BY <1>4
  <1>6. IsFiniteSet(X)
    BY FS_Subset
  <1>7. Cardinality(X \ {x}) = n - 1 /\ Cardinality(X \ {x}) \in Nat
    BY <1>4, <1>6, FS_RemoveElement, FS_CardinalityType
  <1>8. ~Bad(X \ {x})
    BY <1>3, <1>7
  <1>9. CASE X \ {x} = {}
    BY <1>4, <1>5, <1>9
  <1>10. CASE X \ {x} # {}
    <2>1. PICK m \in X \ {x} : Last(X \ {x}, m)
      BY <1>8, <1>10
    <2>2. CASE <<x, m>> \in R
      BY <1>4, <2>1, <2>2
    <2>3. CASE <<m, x>> \in R
      <3>1. ASSUME NEW y \in X \ {x} PROVE <<y, x>> \in R
        <4>1. y = m \/ <<y, m>> \in R
          BY <2>1
        <4>2. y \in S /\ m \in S /\ x \in S
          BY <2>1, <1>5
        <4>. QED
          BY <2>3, <4>1, <4>2 DEF IsOrder
      <3>2. Last(X, x)
        BY <3>1
      <3>. QED
        BY <1>4, <1>5, <3>2
    <2>. QED
      BY <2>1, <2>2, <2>3 DEF IsOrder
  <1>. QED
    BY <1>9, <1>10

\* It can be sorted.
LEMMA SortedExists ==
  ASSUME NEW S, NEW R, IsFiniteSet(S), IsOrder(R, S)
  PROVE  \E s \in [1..Cardinality(S) -> S] : InOrderOf(s, R)
  <1> DEFINE Good(X) == \E s \in [1..Cardinality(X) -> X] : InOrderOf(s, R)
             T == {n \in Nat : \E X \in SUBSET S : Cardinality(X) = n /\ ~Good(X)}
  <1>1. SUFFICES ASSUME ~Good(S) PROVE FALSE
    OBVIOUS
  <1>2. Cardinality(S) \in T
    BY <1>1, FS_CardinalityType
  <1>3. PICK n \in T : \A m \in T : n <= m
    <2> T \in SUBSET Nat
      OBVIOUS
    <2> HIDE DEF T
    <2>. QED
      BY <1>2, LeastNatural
  <1>4. PICK X \in SUBSET S : Cardinality(X) = n /\ ~Good(X)
    OBVIOUS
  <1>5. IsFiniteSet(X) /\ n \in Nat
    BY FS_Subset
  <1>6. CASE X = {}
    <2>1. n = 0
      BY <1>4, <1>6, FS_EmptySet
    <2>2. [i \in 1..0 |-> i] \in [1..0 -> {}] /\ InOrderOf([i \in 1..0 |-> i], R)
      BY DEF InOrderOf
    <2>. QED
      BY <1>4, <1>6, <2>1, <2>2
  <1>7. CASE X # {}
    <2>1. PICK m \in X : \A x \in X \ {m} : <<x, m>> \in R
      <3>1. IsOrder(R, X)
        BY OrderOfSubset
      <3>. QED
        BY <1>5, <1>7, <3>1, LastElement
    <2> DEFINE Y == X \ {m}
    <2>2. Cardinality(Y) = n - 1 /\ Cardinality(Y) \in Nat
      BY <1>4, <1>5, FS_RemoveElement, FS_CardinalityType
    <2>3. PICK s \in [1..(n - 1) -> Y] : InOrderOf(s, R)
      <3>1. Y \in SUBSET S /\ ~(n <= n - 1)
        BY <1>5
      <3>2. Good(Y)
        BY <1>3, <2>2, <3>1
      <3>. QED
        BY <2>2, <3>2
    <2> DEFINE t == [i \in 1..n |-> IF i = n THEN m ELSE s[i]]
    <2>4. t \in [1..n -> X]
      BY <1>5
    <2>5. ASSUME NEW i \in 1..n, NEW k \in 1..n, i < k PROVE <<t[i], t[k]>> \in R
      <3>1. i \in 1..(n - 1) /\ t[i] = s[i]
        BY <1>5, <2>5
      <3>2. CASE k = n
        BY <2>1, <3>1, <3>2
      <3>3. CASE k # n
        BY <1>5, <2>3, <2>5, <3>1, <3>3 DEF InOrderOf
      <3>. QED
        BY <3>2, <3>3
    <2>6. InOrderOf(t, R)
      BY <2>5 DEF InOrderOf
    <2>. QED
      BY <1>4, <2>4, <2>6
  <1>. QED
    BY <1>6, <1>7

\* A list in order repeats nothing.
LEMMA InOrderInjective ==
  ASSUME NEW S, NEW R, IsOrder(R, S), NEW n \in Nat, NEW s \in [1..n -> S], InOrderOf(s, R)
  PROVE  \A i, k \in 1..n : s[i] = s[k] => i = k
  <1>1. SUFFICES ASSUME NEW i \in 1..n, NEW k \in 1..n, s[i] = s[k], i # k PROVE FALSE
    OBVIOUS
  <1>2. i < k \/ k < i
    BY <1>1
  <1>3. s[i] \in S /\ <<s[i], s[i]>> \notin R
    BY DEF IsOrder
  <1>. QED
    BY <1>1, <1>2, <1>3 DEF InOrderOf

\* The sorted list lists every element once, in order.
LEMMA SortedProperties ==
  ASSUME NEW S, NEW R, IsFiniteSet(S), IsOrder(R, S)
  PROVE  /\ Cardinality(S) \in Nat
         /\ Sorted(S, R) \in [1..Cardinality(S) -> S]
         /\ InOrderOf(Sorted(S, R), R)
         /\ \A i, k \in 1..Cardinality(S) : Sorted(S, R)[i] = Sorted(S, R)[k] => i = k
         /\ \A x \in S : \E i \in 1..Cardinality(S) : Sorted(S, R)[i] = x
  <1> DEFINE n == Cardinality(S)
             s == Sorted(S, R)
  <1>1. n \in Nat
    BY FS_CardinalityType
  <1>2. s \in [1..n -> S] /\ InOrderOf(s, R)
    BY SortedExists DEF Sorted, InOrderOf
  <1> HIDE DEF s
  <1>3. \A i, k \in 1..n : s[i] = s[k] => i = k
    BY <1>1, <1>2, InOrderInjective
  <1>4. s \in Injection(1..n, S)
    BY <1>2, <1>3, Fun_IsInj
  <1>5. IsFiniteSet(1..n) /\ Cardinality(1..n) = n
    BY <1>1, FS_Interval
  <1>6. s \in Surjection(1..n, S)
    BY <1>4, <1>5, FS_Injection
  <1>7. \A x \in S : \E i \in 1..n : s[i] = x
    BY <1>6 DEF Surjection
  <1>. QED
    BY <1>1, <1>2, <1>3, <1>7 DEF s

\* It is the only list that does.
LEMMA SortedUnique ==
  ASSUME NEW S, NEW R, IsFiniteSet(S), IsOrder(R, S),
         NEW n \in Nat, NEW f \in [1..n -> S], InOrderOf(f, R),
         \A x \in S : \E i \in 1..n : f[i] = x
  PROVE  n = Cardinality(S) /\ f = Sorted(S, R)
  <1> DEFINE s == Sorted(S, R)
  <1>1. \A i, k \in 1..n : f[i] = f[k] => i = k
    BY InOrderInjective
  <1>2. f \in Bijection(1..n, S)
    BY <1>1, Fun_IsBij
  <1>3. ExistsBijection(1..n, S)
    BY <1>2 DEF ExistsBijection
  <1>4. n = Cardinality(S)
    BY <1>3, FS_CountingElements
  <1>5. /\ s \in [1..n -> S] /\ InOrderOf(s, R)
        /\ \A i, k \in 1..n : s[i] = s[k] => i = k
        /\ \A x \in S : \E i \in 1..n : s[i] = x
    BY <1>4, SortedProperties
  <1> HIDE DEF s
  <1> DEFINE T == {i \in 1..n : f[i] # s[i]}
  <1>6. ASSUME T # {} PROVE FALSE
    <2>0. T \in SUBSET Nat
      OBVIOUS
    <2>1. PICK i \in T : \A k \in T : i <= k
      <3> HIDE DEF T
      <3>. QED
        BY <1>6, <2>0, LeastNatural
    <2>2. i \in 1..n /\ f[i] # s[i] /\ \A k \in 1..n : k < i => f[k] = s[k]
      BY <2>1
    <2> HIDE DEF T
    <2>3. PICK k \in 1..n : s[k] = f[i]
      BY <1>5, <2>2
    <2>4. k > i
      BY <1>1, <2>2, <2>3
    <2>5. PICK l \in 1..n : f[l] = s[i]
      BY <1>5, <2>2
    <2>6. l > i
      <3>1. l < i => f[l] = s[l] /\ l = i
        BY <1>5, <2>2, <2>5
      <3>2. l # i
        BY <2>2, <2>5
      <3>. QED
        BY <2>2, <3>1, <3>2
    <2>7. <<s[i], f[i]>> \in R /\ <<f[i], s[i]>> \in R
      BY <1>5, <2>2, <2>3, <2>4, <2>5, <2>6 DEF InOrderOf
    <2>. QED
      BY <1>5, <2>2, <2>7 DEF IsOrder
  <1>7. f = s
    <2>1. \A i \in 1..n : f[i] = s[i]
      BY <1>6
    <2>2. s \in [1..n -> S]
      BY <1>5
    <2>. QED
      BY <2>1, <2>2
  <1>. QED
    BY <1>4, <1>7 DEF s

\* In front of a place are as many as there are smaller elements.
LEMMA SortedRank ==
  ASSUME NEW S, NEW R, IsFiniteSet(S), IsOrder(R, S), NEW i \in 1..Cardinality(S)
  PROVE  Cardinality({y \in S : <<y, Sorted(S, R)[i]>> \in R}) = i - 1
  <1> DEFINE n == Cardinality(S)
             s == Sorted(S, R)
             L == {y \in S : <<y, s[i]>> \in R}
             g == [k \in 1..(i - 1) |-> s[k]]
  <1>1. /\ n \in Nat /\ s \in [1..n -> S] /\ InOrderOf(s, R)
        /\ \A j, k \in 1..n : s[j] = s[k] => j = k
        /\ \A x \in S : \E k \in 1..n : s[k] = x
    BY SortedProperties
  <1>2. i \in 1..n
    OBVIOUS
  <1> HIDE DEF s, n
  <1>3. ASSUME NEW k \in 1..(i - 1) PROVE k \in 1..n /\ s[k] \in L
    <2>1. k \in 1..n /\ k < i
      BY <1>1, <1>2
    <2>. QED
      BY <1>1, <1>2, <2>1 DEF InOrderOf
  <1>4. g \in [1..(i - 1) -> L]
    BY <1>3
  <1>5. \A j, k \in 1..(i - 1) : g[j] = g[k] => j = k
    BY <1>1, <1>3
  <1>6. ASSUME NEW y \in L PROVE \E k \in 1..(i - 1) : g[k] = y
    <2>1. PICK k \in 1..n : s[k] = y
      BY <1>1
    <2>2. k # i
      BY <1>1, <1>2, <2>1 DEF IsOrder
    <2>3. ~(i < k)
      <3>1. SUFFICES ASSUME i < k PROVE FALSE
        OBVIOUS
      <3>2. <<s[i], y>> \in R /\ <<y, s[i]>> \in R /\ y \in S /\ s[i] \in S
        BY <1>1, <1>2, <2>1, <3>1 DEF InOrderOf
      <3>. QED
        BY <3>2 DEF IsOrder
    <2>4. k \in 1..(i - 1)
      BY <1>1, <1>2, <2>2, <2>3
    <2>. QED
      BY <2>1, <2>4
  <1> HIDE DEF g, L
  <1>7. g \in Bijection(1..(i - 1), L)
    BY <1>4, <1>5, <1>6, Fun_IsBij
  <1>8. ExistsBijection(1..(i - 1), L) /\ i - 1 \in Nat
    BY <1>1, <1>2, <1>7 DEF ExistsBijection
  <1>9. Cardinality(L) = i - 1
    BY <1>8, FS_CountingElements
  <1>. QED
    BY <1>9 DEF L, s

\* The numbers of a set are ordered by their size.
LEMMA IncreasingIsOrder ==
  ASSUME NEW S \in SUBSET Int
  PROVE  IsOrder(Increasing, S)
  BY DEF IsOrder, Increasing

=============================================================================
