-------------------------- MODULE TrainingDataProofs --------------------------
(***************************************************************************)
(* What the operators of TrainingData compute, for files of any size and   *)
(* words of any number of pieces: the labels of a file are all of its      *)
(* labels, and the positions that alignment and padding leave to be scored *)
(* are those of the first piece of each word, in the order of the words.   *)
(***************************************************************************)
EXTENDS TrainingData, OrderingProofs, SequenceTheorems, TLAPS

\* A sequence has finitely many elements.
LEMMA ToSetFacts ==
  ASSUME NEW S, NEW s \in Seq(S)
  PROVE  /\ IsFiniteSet(ToSet(s)) /\ ToSet(s) \subseteq S
         /\ \A i \in DOMAIN s : s[i] \in ToSet(s)
         /\ \A x \in ToSet(s) : \E i \in DOMAIN s : s[i] = x
  <1>1. Len(s) \in Nat /\ s \in [1..Len(s) -> S] /\ DOMAIN s = 1..Len(s)
    BY LenProperties
  <1>2. /\ ToSet(s) \subseteq S
        /\ \A i \in DOMAIN s : s[i] \in ToSet(s)
        /\ \A x \in ToSet(s) : \E i \in DOMAIN s : s[i] = x
    BY <1>1 DEF ToSet
  <1>3. s \in Surjection(1..Len(s), ToSet(s))
    <2>1. s \in [1..Len(s) -> ToSet(s)]
      BY <1>1, <1>2
    <2>. QED
      BY <1>1, <1>2, <2>1, Fun_IsSurj
  <1>4. IsFiniteSet(1..Len(s))
    BY <1>1, FS_Interval
  <1>5. IsFiniteSet(ToSet(s))
    BY <1>3, <1>4, FS_Surjection
  <1>. QED
    BY <1>2, <1>5

-----------------------------------------------------------------------------
(* Labels *)

\* A finite set of numbers, listed.
LEMMA AscendingFacts ==
  ASSUME NEW S \in SUBSET Int, IsFiniteSet(S)
  PROVE  /\ Cardinality(S) \in Nat
         /\ DOMAIN Ascending(S) = 1..Cardinality(S)
         /\ Ascending(S) \in Seq(S) /\ Len(Ascending(S)) = Cardinality(S)
         /\ \A i \in DOMAIN Ascending(S) : Ascending(S)[i] \in S
         /\ \A i, k \in DOMAIN Ascending(S) : i < k => Ascending(S)[i] < Ascending(S)[k]
         /\ \A x \in S : \E i \in DOMAIN Ascending(S) : Ascending(S)[i] = x
         /\ ToSet(Ascending(S)) = S
  <1> DEFINE a == Ascending(S)
             n == Cardinality(S)
  <1>1. IsOrder(Increasing, S)
    BY IncreasingIsOrder
  <1>2. /\ n \in Nat /\ a \in [1..n -> S] /\ InOrderOf(a, Increasing)
        /\ \A x \in S : \E i \in 1..n : a[i] = x
    BY <1>1, SortedProperties DEF Ascending
  <1> HIDE DEF a, n
  <1>3. DOMAIN a = 1..n /\ \A i \in 1..n : a[i] \in S
    BY <1>2
  <1>4. a \in Seq(S) /\ Len(a) = n
    BY <1>2
  <1>5. \A i, k \in DOMAIN a : i < k => a[i] < a[k]
    BY <1>2, <1>3 DEF InOrderOf, Increasing
  <1>6. ToSet(a) = S
    BY <1>2, <1>3 DEF ToSet
  <1>. QED
    BY <1>2, <1>3, <1>4, <1>5, <1>6 DEF a, n

\* Labels in order are the labels, the outside tag first.
LEMMA InOrderFacts ==
  ASSUME NEW S \in SUBSET Nat, IsFiniteSet(S), NEW task
  PROVE  /\ ToSet(InOrder(S, task)) = S
         /\ InOrder(S, task) \in Seq(S)
         /\ task = "token" /\ Outside \in S => InOrder(S, task)[1] = Outside
  <1>1. CASE ~(task = "token" /\ Outside \in S)
    BY <1>1, AscendingFacts DEF InOrder
  <1>2. CASE task = "token" /\ Outside \in S
    <2> DEFINE a == Ascending(S \ {Outside})
               l == <<Outside>> \o a
    <2>0. IsFiniteSet(S \ {Outside})
      BY FS_RemoveElement
    <2>1. S \ {Outside} \in SUBSET Int
      <3>1. \A x \in S : x \in Int
        OBVIOUS
      <3>. QED
        BY <3>1
    <2>2. a \in Seq(S \ {Outside}) /\ ToSet(a) = S \ {Outside}
      BY <2>0, <2>1, AscendingFacts
    <2>3. InOrder(S, task) = l
      BY <1>2 DEF InOrder
    <2> HIDE DEF a
    <2>4. a \in Seq(S) /\ <<Outside>> \in Seq(S) /\ Len(<<Outside>>) = 1 /\ <<Outside>>[1] = Outside
      BY <1>2, <2>2
    <2>5. /\ l \in Seq(S) /\ Len(l) = 1 + Len(a)
          /\ \A i \in 1..(1 + Len(a)) : l[i] = IF i <= 1 THEN <<Outside>>[i] ELSE a[i - 1]
      BY <2>4, ConcatProperties
    <2> HIDE DEF l
    <2>6. Len(a) \in Nat /\ DOMAIN a = 1..Len(a) /\ DOMAIN l = 1..(1 + Len(a))
      BY <2>4, <2>5
    <2>7. l[1] = Outside /\ \A i \in DOMAIN a : i + 1 \in DOMAIN l /\ l[i + 1] = a[i]
      BY <2>4, <2>5, <2>6
    <2>8. ASSUME NEW x \in S PROVE x \in ToSet(l)
      <3>1. CASE x = Outside
        BY <2>6, <2>7, <3>1 DEF ToSet
      <3>2. CASE x # Outside
        <4>1. PICK i \in DOMAIN a : a[i] = x
          BY <2>2, <3>2 DEF ToSet
        <4>. QED
          BY <2>7, <4>1 DEF ToSet
      <3>. QED
        BY <3>1, <3>2
    <2>9. ToSet(l) \subseteq S
      BY <2>5, ToSetFacts
    <2>. QED
      BY <2>3, <2>5, <2>7, <2>8, <2>9
  <1>. QED
    BY <1>1, <1>2

\* A file has finitely many labels.
LEMMA LabelSetFacts ==
  ASSUME NEW S, NEW rows \in Seq(S), \A r \in S : r.tags \in Seq(Nat)
  PROVE  LabelSet(rows) \in SUBSET Nat /\ IsFiniteSet(LabelSet(rows))
  <1> DEFINE n == Len(rows)
             f == [i \in 1..n |-> ToSet(rows[i].tags)]
             T == {ToSet(rows[i].tags) : i \in 1..n}
  <1>1. n \in Nat /\ DOMAIN rows = 1..n /\ \A i \in 1..n : rows[i].tags \in Seq(Nat)
    OBVIOUS
  <1>2. LabelSet(rows) = UNION T
    BY <1>1 DEF LabelSet
  <1>3. \A i \in 1..n : IsFiniteSet(ToSet(rows[i].tags)) /\ ToSet(rows[i].tags) \subseteq Nat
    BY <1>1, ToSetFacts
  <1>4. f \in [1..n -> T] /\ \A t \in T : \E i \in 1..n : f[i] = t
    OBVIOUS
  <1>5. IsFiniteSet(1..n)
    BY <1>1, FS_Interval
  <1>6. IsFiniteSet(T)
    <2> HIDE DEF f, T, n
    <2>1. f \in Surjection(1..n, T)
      BY <1>4, Fun_IsSurj
    <2>. QED
      BY <1>5, <2>1, FS_Surjection
  <1>7. \A t \in T : IsFiniteSet(t) /\ t \subseteq Nat
    BY <1>3
  <1> HIDE DEF T
  <1>8. IsFiniteSet(UNION T) /\ UNION T \subseteq Nat
    BY <1>6, <1>7, FS_UNION
  <1>. QED
    BY <1>2, <1>8

-----------------------------------------------------------------------------
(* Alignment *)

\* The lesser of two numbers.
LEMMA MinOfTwo ==
  ASSUME NEW a \in Int, NEW b \in Int
  PROVE  Min({a, b}) = IF a <= b THEN a ELSE b
  <1> DEFINE m == IF a <= b THEN a ELSE b
  <1>1. m \in {a, b} /\ \A y \in {a, b} : m <= y
    OBVIOUS
  <1>2. \A x \in {a, b} : (\A y \in {a, b} : x <= y) => x = m
    OBVIOUS
  <1> HIDE DEF m
  <1>3. Min({a, b}) \in {a, b} /\ \A y \in {a, b} : Min({a, b}) <= y
    BY <1>1 DEF Min
  <1>. QED
    BY <1>2, <1>3 DEF m

\* Truncation leaves the first pieces.
LEMMA KeptPiecesFacts ==
  ASSUME NEW row, row.pieces \in Seq(Nat \ {0}), NEW maxLength \in Nat, maxLength >= 2
  PROVE  /\ KeptPieces(row, maxLength) \in Seq(Nat \ {0})
         /\ Len(KeptPieces(row, maxLength)) <= Len(row.pieces)
         /\ \A i \in 1..Len(KeptPieces(row, maxLength)) : KeptPieces(row, maxLength)[i] = row.pieces[i]
  <1> DEFINE p == row.pieces
             m == Min({Len(p), maxLength - 2})
  <1>1. Len(p) \in Nat /\ maxLength - 2 \in Nat
    OBVIOUS
  <1>2. m \in Nat /\ m <= Len(p)
    <2>1. m = IF Len(p) <= maxLength - 2 THEN Len(p) ELSE maxLength - 2
      BY <1>1, MinOfTwo
    <2> HIDE DEF m
    <2>. QED
      BY <1>1, <2>1
  <1>3. KeptPieces(row, maxLength) = SubSeq(p, 1, m)
    BY DEF KeptPieces
  <1> HIDE DEF m
  <1>4. \A i \in 1..m : p[i] \in Nat \ {0}
    BY <1>1, <1>2
  <1>5. /\ SubSeq(p, 1, m) \in Seq(Nat \ {0})
        /\ Len(SubSeq(p, 1, m)) = IF 1 <= m THEN m - 1 + 1 ELSE 0
        /\ \A i \in 1..(m - 1 + 1) : SubSeq(p, 1, m)[i] = p[1 + i - 1]
    BY <1>2, <1>4, SubSeqProperties
  <1>6. Len(SubSeq(p, 1, m)) = m
    BY <1>2, <1>5
  <1>7. \A i \in 1..m : SubSeq(p, 1, m)[i] = p[i]
    BY <1>2, <1>5
  <1>. QED
    BY <1>2, <1>3, <1>5, <1>6, <1>7

\* The special tokens stand around them.
LEMMA WordIdsFacts ==
  ASSUME NEW row, row.pieces \in Seq(Nat \ {0}), NEW maxLength \in Nat, maxLength >= 2,
         NEW k, k = KeptPieces(row, maxLength)
  PROVE  /\ DOMAIN WordIds(row, maxLength) = 1..(Len(k) + 2)
         /\ WordIds(row, maxLength)[1] = 0
         /\ WordIds(row, maxLength)[Len(k) + 2] = 0
         /\ \A i \in 1..Len(k) : WordIds(row, maxLength)[i + 1] = k[i]
  <1> DEFINE z == <<0>>
             u == z \o k
             w == u \o z
             m == Len(k)
  <1>1. k \in Seq(Nat) /\ m \in Nat
    <2>1. k \in Seq(Nat \ {0})
      BY KeptPiecesFacts
    <2>. QED
      BY <2>1
  <1>2. z \in Seq(Nat) /\ Len(z) = 1 /\ z[1] = 0
    OBVIOUS
  <1>0. m = Len(k)
    OBVIOUS
  <1> HIDE DEF z, m
  <1>3. /\ u \in Seq(Nat) /\ Len(u) = 1 + m
        /\ \A i \in 1..(1 + m) : u[i] = IF i <= 1 THEN z[i] ELSE k[i - 1]
    <2>1. /\ u \in Seq(Nat) /\ Len(u) = Len(z) + Len(k)
          /\ \A i \in 1..(Len(z) + Len(k)) : u[i] = IF i <= Len(z) THEN z[i] ELSE k[i - Len(z)]
      BY <1>1, <1>2, ConcatProperties
    <2> HIDE DEF u
    <2>. QED
      BY <1>0, <1>2, <2>1
  <1> HIDE DEF u
  <1>4. /\ w \in Seq(Nat) /\ Len(w) = Len(u) + Len(z)
        /\ \A i \in 1..(Len(u) + Len(z)) : w[i] = IF i <= Len(u) THEN u[i] ELSE z[i - Len(u)]
    BY <1>2, <1>3, ConcatProperties
  <1> HIDE DEF w
  <1>5. DOMAIN w = 1..(m + 2) /\ w[1] = 0 /\ w[m + 2] = 0
    <2>1. Len(w) = m + 2 /\ DOMAIN w = 1..(m + 2)
      BY <1>1, <1>2, <1>3, <1>4
    <2>2. w[1] = 0
      BY <1>1, <1>2, <1>3, <1>4
    <2>3. w[m + 2] = 0
      <3>1. m + 2 \in 1..(Len(u) + Len(z)) /\ ~(m + 2 <= Len(u)) /\ m + 2 - Len(u) = 1
        BY <1>1, <1>2, <1>3
      <3>. QED
        BY <1>2, <1>4, <3>1
    <2>. QED
      BY <2>1, <2>2, <2>3
  <1>6. ASSUME NEW i \in 1..m PROVE w[i + 1] = k[i]
    <2>1. /\ i + 1 \in 1..(1 + m) /\ ~(i + 1 <= 1) /\ (i + 1) - 1 = i
          /\ i + 1 \in 1..(Len(u) + Len(z)) /\ i + 1 <= Len(u)
      BY <1>1, <1>2, <1>3
    <2>. QED
      BY <1>3, <1>4, <2>1
  <1>7. WordIds(row, maxLength) = w
    BY DEF WordIds, w, u, z
  <1>. QED
    BY <1>0, <1>5, <1>6, <1>7

\* label2id of a label that is listed gives one of its places.
LEMMA LabelIdFacts ==
  ASSUME NEW S, NEW labels \in Seq(S), NEW label \in ToSet(labels)
  PROVE  LabelId(labels, label) \in Nat /\ labels[LabelId(labels, label) + 1] = label
  <1>1. \E i \in DOMAIN labels : labels[i] = label
    BY ToSetFacts
  <1> DEFINE c == CHOOSE i \in DOMAIN labels : labels[i] = label
  <1>2. c \in DOMAIN labels /\ labels[c] = label
    BY <1>1
  <1>3. LabelId(labels, label) = c - 1
    BY DEF LabelId
  <1> HIDE DEF c
  <1>4. c \in Nat \ {0}
    BY <1>2
  <1>5. c - 1 \in Nat /\ (c - 1) + 1 = c
    BY <1>4
  <1>. QED
    BY <1>2, <1>3, <1>5

\* A row that parse accepts, of which the labels are known.
Proper(row, labels) ==
  /\ row.tags \in Seq(Nat) /\ row.pieces \in Seq(Nat \ {0})
  /\ \A i \in DOMAIN row.pieces : row.pieces[i] <= Len(row.tags)
  /\ \A i, k \in DOMAIN row.pieces : i <= k => row.pieces[i] <= row.pieces[k]
  /\ ToSet(row.tags) \subseteq ToSet(labels)

\* The places of first pieces, behind the special token.
Firsts(k) == {i \in 2..(Len(k) + 1) : i = 2 \/ k[i - 1] # k[i - 2]}

\* They alone have a label, that of their word.
LEMMA AlignFacts ==
  ASSUME NEW S, NEW labels \in Seq(S), NEW row, Proper(row, labels),
         NEW maxLength \in Nat, maxLength >= 2, NEW k, k = KeptPieces(row, maxLength)
  PROVE  /\ Align(row, labels, maxLength) \in Seq(Int)
         /\ \A i \in DOMAIN Align(row, labels, maxLength) :
              Align(row, labels, maxLength)[i] # Ignore <=> i \in Firsts(k)
         /\ \A i \in Firsts(k) :
              /\ i \in DOMAIN Align(row, labels, maxLength)
              /\ labels[Align(row, labels, maxLength)[i] + 1] = row.tags[k[i - 1]]
  <1> DEFINE ids == WordIds(row, maxLength)
             m == Len(k)
             a == [i \in DOMAIN ids |->
                    IF ids[i] = 0 \/ ids[i] = ids[i - 1] THEN Ignore
                    ELSE LabelId(labels, row.tags[ids[i]])]
  <1>1. Align(row, labels, maxLength) = a
    BY DEF Align
  <1>2. /\ k \in Seq(Nat \ {0}) /\ m \in Nat /\ m <= Len(row.pieces)
        /\ \A i \in 1..m : k[i] = row.pieces[i]
    BY KeptPiecesFacts DEF Proper
  <1>3. /\ DOMAIN ids = 1..(m + 2) /\ ids[1] = 0 /\ ids[m + 2] = 0
        /\ \A i \in 1..m : ids[i + 1] = k[i]
    BY WordIdsFacts DEF Proper
  <1> HIDE DEF ids, m
  <1>4. ASSUME NEW i \in 1..m
        PROVE  k[i] \in Nat \ {0} /\ k[i] \in DOMAIN row.tags
    <2>1. i \in DOMAIN row.pieces /\ k[i] = row.pieces[i]
      BY <1>2 DEF Proper
    <2>2. k[i] \in Nat \ {0} /\ k[i] <= Len(row.tags)
      BY <2>1 DEF Proper
    <2>. QED
      BY <2>2 DEF Proper
  <1>5. ASSUME NEW i \in 1..m
        PROVE  /\ LabelId(labels, row.tags[k[i]]) \in Nat
               /\ labels[LabelId(labels, row.tags[k[i]]) + 1] = row.tags[k[i]]
    <2>1. row.tags[k[i]] \in ToSet(labels)
      BY <1>4, ToSetFacts DEF Proper
    <2>. QED
      BY <2>1, LabelIdFacts
  <1>6. ASSUME NEW i \in 2..(m + 1)
        PROVE  /\ i - 1 \in 1..m /\ ids[i] = k[i - 1] /\ ids[i] # 0
               /\ ids[i] = ids[i - 1] <=> i # 2 /\ k[i - 1] = k[i - 2]
    <2>1. i - 1 \in 1..m
      BY <1>2
    <2>2. ids[i] = k[i - 1] /\ k[i - 1] \in Nat \ {0}
      <3>1. ids[(i - 1) + 1] = k[i - 1] /\ (i - 1) + 1 = i
        BY <1>3, <2>1
      <3>. QED
        BY <1>4, <2>1, <3>1
    <2>3. CASE i = 2
      BY <1>3, <2>1, <2>2, <2>3
    <2>4. CASE i # 2
      <3>1. i - 2 \in 1..m /\ (i - 2) + 1 = i - 1
        BY <1>2, <2>1, <2>4
      <3>2. ids[i - 1] = k[i - 2]
        BY <1>3, <3>1
      <3>. QED
        BY <2>1, <2>2, <2>4, <3>2
    <2>. QED
      BY <2>3, <2>4
  <1>7. ASSUME NEW i \in Firsts(k)
        PROVE  /\ i \in 1..(m + 2) /\ a[i] \in Nat
               /\ labels[a[i] + 1] = row.tags[k[i - 1]]
    <2>1. i \in 2..(m + 1) /\ (i = 2 \/ k[i - 1] # k[i - 2])
      BY DEF Firsts, m
    <2>2. i \in 1..(m + 2)
      BY <1>2, <2>1
    <2>3. a[i] = LabelId(labels, row.tags[k[i - 1]])
      BY <1>3, <1>6, <2>1, <2>2
    <2>. QED
      BY <1>5, <1>6, <2>1, <2>2, <2>3
  <1>8. ASSUME NEW i \in 1..(m + 2), i \notin Firsts(k) PROVE a[i] = Ignore
    <2>1. CASE i = 1 \/ i = m + 2
      BY <1>2, <1>3, <2>1
    <2>2. CASE ~(i = 1 \/ i = m + 2)
      <3>1. i \in 2..(m + 1)
        BY <1>2, <2>2
      <3>2. ~(i = 2 \/ k[i - 1] # k[i - 2])
        BY <1>8, <3>1 DEF Firsts, m
      <3>. QED
        BY <1>3, <1>6, <3>1, <3>2
    <2>. QED
      BY <2>1, <2>2
  <1>9. DOMAIN a = 1..(m + 2)
    BY <1>3
  <1> HIDE DEF a
  <1>10. \A i \in 1..(m + 2) : a[i] \in Int /\ (a[i] # Ignore <=> i \in Firsts(k))
    BY <1>7, <1>8 DEF Ignore
  <1>11. a \in Seq(Int)
    <2>1. a = [i \in 1..(m + 2) |-> a[i]]
      BY <1>9 DEF a
    <2>2. a \in [1..(m + 2) -> Int] /\ m + 2 \in Nat
      BY <1>2, <1>10, <2>1
    <2> HIDE DEF m
    <2>. QED
      BY <2>2
  <1>. QED
    BY <1>1, <1>7, <1>9, <1>10, <1>11

-----------------------------------------------------------------------------
(* Padding *)

\* A finite set of numbers that is not empty has a greatest.
LEMMA MaxFacts ==
  ASSUME NEW S \in SUBSET Int, IsFiniteSet(S), S # {}
  PROVE  Max(S) \in S
  <1>0. IsOrder(Increasing, S)
    BY IncreasingIsOrder
  <1>1. PICK m \in S : \A x \in S \ {m} : <<x, m>> \in Increasing
    BY <1>0, LastElement
  <1>2. ASSUME NEW x \in S PROVE m >= x
    <2>1. CASE x = m
      <3>1. m \in Int
        OBVIOUS
      <3>. QED
        BY <2>1, <3>1
    <2>2. CASE x # m
      <3>1. <<x, m>> \in Increasing
        BY <1>1, <2>2
      <3>2. x < m
        BY <3>1 DEF Increasing
      <3>3. x \in Int /\ m \in Int
        BY <3>1 DEF Increasing
      <3>. QED
        BY <3>2, <3>3
    <2>. QED
      BY <2>1, <2>2
  <1>. QED
    BY <1>2 DEF Max

\* The length of the longest of some rows.
LEMMA WidthIsInteger ==
  ASSUME NEW n \in Nat, NEW T, NEW items \in [1..n -> Seq(T)], NEW S \in SUBSET (1..n), S # {}
  PROVE  Max({Len(items[i]) : i \in S}) \in Int
  <1> DEFINE L == {Len(items[i]) : i \in S}
             f == [i \in S |-> Len(items[i])]
  <1>1. \A i \in S : Len(items[i]) \in Int
    OBVIOUS
  <1>2. f \in [S -> L] /\ \A l \in L : \E i \in S : f[i] = l
    OBVIOUS
  <1>3. IsFiniteSet(S)
    <2>1. IsFiniteSet(1..n)
      BY FS_Interval
    <2>. QED
      BY <2>1, FS_Subset
  <1>4. L \in SUBSET Int /\ L # {}
    BY <1>1
  <1> HIDE DEF L, f
  <1>5. f \in Surjection(S, L)
    BY <1>2, Fun_IsSurj
  <1>6. IsFiniteSet(L)
    BY <1>3, <1>5, FS_Surjection
  <1>7. Max(L) \in Int
    BY <1>4, <1>6, MaxFacts
  <1>. QED
    BY <1>7 DEF L

\* Padding adds nothing that is scored.
LEMMA PadFacts ==
  ASSUME NEW s \in Seq(Int), NEW width \in Int
  PROVE  /\ Pad(s, width) \in Seq(Int)
         /\ DOMAIN s \subseteq DOMAIN Pad(s, width)
         /\ \A i \in DOMAIN s : Pad(s, width)[i] = s[i]
         /\ \A i \in DOMAIN Pad(s, width) \ DOMAIN s : Pad(s, width)[i] = Ignore
  <1> DEFINE gap == width - Len(s)
             d == IF gap < 0 THEN 0 ELSE gap
             t == [i \in 1..gap |-> Ignore]
  <1>1. Len(s) \in Nat /\ gap \in Int /\ d \in Nat /\ 1..gap = 1..d
    OBVIOUS
  <1> HIDE DEF gap, d
  <1>2. t \in [1..d -> Int] /\ \A i \in 1..d : t[i] = Ignore
    BY <1>1 DEF Ignore
  <1> HIDE DEF t
  <1>3. t \in Seq(Int) /\ Len(t) = d
    BY <1>1, <1>2
  <1>4. Pad(s, width) = s \o t
    BY DEF Pad, t, gap
  <1>5. /\ s \o t \in Seq(Int) /\ Len(s \o t) = Len(s) + Len(t)
        /\ \A i \in 1..(Len(s) + Len(t)) : (s \o t)[i] = IF i <= Len(s) THEN s[i] ELSE t[i - Len(s)]
    BY <1>3, ConcatProperties
  <1> DEFINE p == s \o t
  <1> HIDE DEF p
  <1>6. /\ p \in Seq(Int) /\ DOMAIN p = 1..(Len(s) + d) /\ DOMAIN s = 1..Len(s)
        /\ \A i \in 1..(Len(s) + d) : p[i] = IF i <= Len(s) THEN s[i] ELSE t[i - Len(s)]
    BY <1>1, <1>3, <1>5 DEF p
  <1>7. \A i \in DOMAIN s : i \in DOMAIN p /\ p[i] = s[i]
    BY <1>1, <1>6
  <1>8. ASSUME NEW i \in DOMAIN p \ DOMAIN s PROVE p[i] = Ignore
    <2>1. ~(i <= Len(s)) /\ i - Len(s) \in 1..d
      BY <1>1, <1>6
    <2>. QED
      BY <1>2, <1>6, <2>1
  <1>. QED
    BY <1>4, <1>6, <1>7, <1>8 DEF p

\* What every row is scored against: its own labels, and padding.
LEMMA GoldFacts ==
  ASSUME NEW S, NEW rows \in Seq(S), NEW labels, NEW maxLength, NEW size \in Nat \ {0},
         \A i \in DOMAIN rows : Align(rows[i], labels, maxLength) \in Seq(Int)
  PROVE  /\ DOMAIN Gold(rows, labels, maxLength, size) = DOMAIN rows
         /\ \A r \in DOMAIN rows :
              LET gold == Gold(rows, labels, maxLength, size)[r]
                  item == Align(rows[r], labels, maxLength)
              IN  /\ DOMAIN item \subseteq DOMAIN gold /\ DOMAIN gold \subseteq Nat
                  /\ IsFiniteSet(DOMAIN gold)
                  /\ \A i \in DOMAIN item : gold[i] = item[i]
                  /\ \A i \in DOMAIN gold \ DOMAIN item : gold[i] = Ignore
  <1> DEFINE n == Len(rows)
             items == [i \in DOMAIN rows |-> Align(rows[i], labels, maxLength)]
             width(X) == Max({Len(items[i]) : i \in X})
             batch(i) == {k \in DOMAIN rows : (k - 1) \div size = (i - 1) \div size}
             gold(r) == Pad(Pad(items[r], width(batch(r))), width(DOMAIN rows))
  <1>1. n \in Nat /\ DOMAIN rows = 1..n
    OBVIOUS
  <1>2. items \in [1..n -> Seq(Int)]
    BY <1>1
  <1>3. /\ DOMAIN Gold(rows, labels, maxLength, size) = DOMAIN rows
        /\ \A r \in DOMAIN rows : Gold(rows, labels, maxLength, size)[r] = gold(r)
    BY DEF Gold
  <1>4. ASSUME NEW r \in DOMAIN rows
        PROVE  LET item == items[r]
               IN  /\ DOMAIN item \subseteq DOMAIN gold(r) /\ DOMAIN gold(r) \subseteq Nat
                   /\ IsFiniteSet(DOMAIN gold(r))
                   /\ \A i \in DOMAIN item : gold(r)[i] = item[i]
                   /\ \A i \in DOMAIN gold(r) \ DOMAIN item : gold(r)[i] = Ignore
    <2>1. r \in 1..n /\ r \in batch(r) /\ batch(r) \subseteq 1..n
      BY <1>1
    <2> HIDE DEF items, n, batch
    <2> DEFINE own == width(batch(r))
               whole == width(DOMAIN rows)
               item == items[r]
               mid == Pad(item, own)
               end == Pad(mid, whole)
    <2>2. own \in Int
      BY <1>1, <1>2, <2>1, WidthIsInteger
    <2>3. whole \in Int
      BY <1>1, <1>2, <2>1, WidthIsInteger
    <2> HIDE DEF width, own, whole, gold
    <2>4. item \in Seq(Int)
      BY <1>2, <2>1
    <2> HIDE DEF item
    <2>5. /\ mid \in Seq(Int)
          /\ DOMAIN item \subseteq DOMAIN mid
          /\ \A i \in DOMAIN item : mid[i] = item[i]
          /\ \A i \in DOMAIN mid \ DOMAIN item : mid[i] = Ignore
      BY <2>2, <2>4, PadFacts
    <2> HIDE DEF mid
    <2>6. /\ end \in Seq(Int)
          /\ DOMAIN mid \subseteq DOMAIN end
          /\ \A i \in DOMAIN mid : end[i] = mid[i]
          /\ \A i \in DOMAIN end \ DOMAIN mid : end[i] = Ignore
      <3>1. mid \in Seq(Int)
        BY <2>5
      <3> HIDE DEF mid
      <3>. QED
        BY ONLY <2>3, <3>1, PadFacts
    <2> HIDE DEF end
    <2>7. DOMAIN end = 1..Len(end) /\ Len(end) \in Nat
      BY <2>6
    <2>8. IsFiniteSet(DOMAIN end) /\ DOMAIN end \subseteq Nat
      BY <2>7, FS_Interval
    <2>9. gold(r) = end
      BY DEF gold, end, mid, item, own, whole
    <2>10. /\ DOMAIN item \subseteq DOMAIN end
           /\ \A i \in DOMAIN item : end[i] = item[i]
           /\ \A i \in DOMAIN end \ DOMAIN item : end[i] = Ignore
      BY <2>5, <2>6
    <2>. QED
      BY <2>8, <2>9, <2>10 DEF item
  <1> HIDE DEF gold
  <1>. QED
    BY <1>3, <1>4

-----------------------------------------------------------------------------
(* Scoring *)

\* The words at the places of first pieces are all words, each once, in order.
LEMMA FirstsAreWords ==
  ASSUME NEW k \in Seq(Nat), \A i, l \in DOMAIN k : i <= l => k[i] <= k[l]
  PROVE  /\ Firsts(k) \in SUBSET Nat /\ IsFiniteSet(Firsts(k))
         /\ LET keep == Ascending(Firsts(k))
                seen == Ascending(ToSet(k))
            IN  /\ DOMAIN keep = DOMAIN seen
                /\ \A i \in DOMAIN keep : keep[i] \in Firsts(k) /\ k[keep[i] - 1] = seen[i]
  <1> DEFINE F == Firsts(k)
             W == ToSet(k)
             m == Len(k)
             keep == Ascending(F)
             n == Cardinality(F)
             f == [i \in 1..n |-> k[keep[i] - 1]]
  <1>1. m \in Nat /\ DOMAIN k = 1..m /\ \A i \in 1..m : k[i] \in Nat /\ k[i] \in W
    BY DEF ToSet
  <1>2. W \in SUBSET Int /\ IsFiniteSet(W)
    <2>1. W \subseteq Nat /\ IsFiniteSet(W)
      BY ToSetFacts
    <2>. QED
      BY <2>1
  <1>3. F \in SUBSET Nat /\ F \in SUBSET Int /\ IsFiniteSet(F)
    <2>1. F \subseteq 2..(m + 1) /\ 2..(m + 1) \subseteq Nat
      BY <1>1 DEF Firsts
    <2>2. IsFiniteSet(2..(m + 1))
      BY <1>1, FS_Interval
    <2>. QED
      BY <2>1, <2>2, FS_Subset
  <1>4. /\ n \in Nat /\ DOMAIN keep = 1..n
        /\ \A i \in 1..n : keep[i] \in F
        /\ \A i, l \in 1..n : i < l => keep[i] < keep[l]
        /\ \A x \in F : \E i \in 1..n : keep[i] = x
    BY <1>3, AscendingFacts
  <1> HIDE DEF keep, n, W
  <1>5. ASSUME NEW x \in F PROVE x \in Nat /\ x - 1 \in 1..m /\ (x = 2 \/ k[x - 1] # k[x - 2])
    BY <1>1 DEF Firsts
  <1>6. f \in [1..n -> W]
    BY <1>1, <1>4, <1>5
  <1>7. ASSUME NEW i \in 1..n, NEW l \in 1..n, i < l PROVE f[i] < f[l]
    <2> DEFINE x == keep[i]
               y == keep[l]
    <2>1. x \in F /\ y \in F /\ x < y
      BY <1>4, <1>7
    <2>2. f[i] = k[x - 1] /\ f[l] = k[y - 1]
      OBVIOUS
    <2> HIDE DEF x, y
    <2>3. /\ x \in Nat /\ y \in Nat /\ x - 1 \in 1..m /\ y - 1 \in 1..m /\ y - 2 \in 1..m
          /\ x - 1 <= y - 2 /\ y - 2 <= y - 1 /\ y # 2
      BY <1>1, <1>5, <2>1
    <2>4. k[y - 1] # k[y - 2]
      BY <1>5, <2>1, <2>3
    <2>5. k[x - 1] <= k[y - 2] /\ k[y - 2] <= k[y - 1]
      BY <1>1, <2>3
    <2>6. k[x - 1] \in Nat /\ k[y - 1] \in Nat /\ k[y - 2] \in Nat
      BY <1>1, <2>3
    <2>. QED
      BY <2>2, <2>4, <2>5, <2>6
  <1>8. InOrderOf(f, Increasing)
    BY <1>2, <1>6, <1>7 DEF InOrderOf, Increasing
  <1>9. ASSUME NEW w \in W PROVE \E i \in 1..n : f[i] = w
    <2> DEFINE T == {p \in 1..m : k[p] = w}
    <2>1. T # {} /\ T \in SUBSET Nat
      BY <1>1, ToSetFacts DEF W
    <2>2. PICK p \in T : \A q \in T : p <= q
      <3> HIDE DEF T
      <3>. QED
        BY <2>1, LeastNatural
    <2>3. p + 1 \in F
      <3>1. p \in 1..m /\ p + 1 \in 2..(m + 1) /\ (p + 1) - 1 = p /\ (p + 1) - 2 = p - 1
        BY <1>1
      <3>2. p # 1 => p - 1 \in 1..m /\ ~(p <= p - 1)
        BY <1>1, <3>1
      <3>3. p # 1 => k[p - 1] # k[p]
        BY <2>2, <3>1, <3>2
      <3>. QED
        BY <3>1, <3>3 DEF Firsts
    <2>4. PICK i \in 1..n : keep[i] = p + 1
      BY <1>4, <2>3
    <2>5. f[i] = k[p] /\ k[p] = w
      BY <1>1, <2>4
    <2>. QED
      BY <2>5
  <1> HIDE DEF f, F
  <1>10. IsOrder(Increasing, W)
    BY <1>2, IncreasingIsOrder
  <1>11. n = Cardinality(W) /\ f = Ascending(W)
    BY <1>2, <1>4, <1>6, <1>8, <1>9, <1>10, SortedUnique DEF Ascending
  <1>12. DOMAIN Ascending(W) = 1..n /\ \A i \in 1..n : k[keep[i] - 1] = Ascending(W)[i]
    BY <1>11 DEF f
  <1>. QED
    BY <1>3, <1>4, <1>12 DEF keep, W, F

\* The scored tags of a row are the tags of its words, each once, in order.
THEOREM ScoredRow ==
  ASSUME NEW S, NEW rows \in Seq(S), NEW L, NEW labels \in Seq(L),
         NEW maxLength \in Nat, maxLength >= 2, NEW size \in Nat \ {0},
         \A i \in DOMAIN rows : Proper(rows[i], labels), NEW r \in DOMAIN rows
  PROVE  LET seen == Ascending(ToSet(KeptPieces(rows[r], maxLength)))
         IN  TrueSeqs(Gold(rows, labels, maxLength, size), labels)[r]
               = [i \in DOMAIN seen |-> rows[r].tags[seen[i]]]
  <1> DEFINE row == rows[r]
             k == KeptPieces(row, maxLength)
             item == Align(row, labels, maxLength)
             all == Gold(rows, labels, maxLength, size)
             gold == all[r]
             seen == Ascending(ToSet(k))
             K == {i \in DOMAIN gold : gold[i] # Ignore}
             keep == Ascending(K)
  <1>1. \A i \in DOMAIN rows : Align(rows[i], labels, maxLength) \in Seq(Int)
    BY AlignFacts
  <1>2. /\ DOMAIN all = DOMAIN rows
        /\ DOMAIN item \subseteq DOMAIN gold
        /\ \A i \in DOMAIN item : gold[i] = item[i]
        /\ \A i \in DOMAIN gold \ DOMAIN item : gold[i] = Ignore
    BY <1>1, GoldFacts
  <1>3. /\ \A i \in DOMAIN item : item[i] # Ignore <=> i \in Firsts(k)
        /\ \A i \in Firsts(k) : i \in DOMAIN item /\ labels[item[i] + 1] = row.tags[k[i - 1]]
    BY AlignFacts
  <1>4. k \in Seq(Nat) /\ \A i, l \in DOMAIN k : i <= l => k[i] <= k[l]
    <2>1. row.pieces \in Seq(Nat \ {0}) /\ Proper(row, labels)
      BY DEF Proper
    <2>2. /\ k \in Seq(Nat \ {0}) /\ Len(k) <= Len(row.pieces)
          /\ \A i \in 1..Len(k) : k[i] = row.pieces[i]
      BY <2>1, KeptPiecesFacts
    <2> HIDE DEF k, row
    <2>3. k \in Seq(Nat) /\ DOMAIN k = 1..Len(k) /\ Len(k) \in Nat
      BY <2>2
    <2>4. \A i \in DOMAIN k : i \in DOMAIN row.pieces
      BY <2>1, <2>2, <2>3
    <2>. QED
      BY <2>1, <2>2, <2>3, <2>4 DEF Proper
  <1> HIDE DEF k, row, item, all, gold
  <1>5. K = Firsts(k)
    BY <1>2, <1>3
  <1> HIDE DEF K
  <1>6. /\ DOMAIN keep = DOMAIN seen
        /\ \A i \in DOMAIN keep : keep[i] \in Firsts(k) /\ k[keep[i] - 1] = seen[i]
    BY <1>4, <1>5, FirstsAreWords
  <1> HIDE DEF keep, seen
  <1>7. \A i \in DOMAIN keep : labels[gold[keep[i]] + 1] = row.tags[seen[i]]
    BY <1>2, <1>3, <1>6
  <1>8. TrueSeqs(all, labels)[r] = [i \in DOMAIN keep |-> labels[gold[keep[i]] + 1]]
    BY <1>2 DEF TrueSeqs, keep, K, gold
  <1>9. TrueSeqs(all, labels)[r] = [i \in DOMAIN seen |-> row.tags[seen[i]]]
    BY <1>6, <1>7, <1>8
  <1>. QED
    BY <1>9 DEF seen, k, row, all

=============================================================================
