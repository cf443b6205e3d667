----------------------- MODULE MutableBTreeMap_proofs -----------------------
(***************************************************************************)
(* Theorems about MutableBTreeMap.                                         *)
(***************************************************************************)
EXTENDS MutableBTreeMap, SequenceTheorems, FiniteSetTheorems, TLAPS

-----------------------------------------------------------------------------
(* What Vec::insert and Vec::remove make of a sequence.                    *)

\* Vec::insert.
LEMMA Inserted ==
    ASSUME NEW V, NEW s \in Seq(V), NEW v \in V, NEW i \in 0..Len(s)
    PROVE  /\ VecInsert(s, i, v) \in Seq(V)
           /\ Len(VecInsert(s, i, v)) = Len(s) + 1
           /\ \A p \in 1..(Len(s) + 1) :
                 VecInsert(s, i, v)[p] = IF p <= i THEN s[p]
                                         ELSE IF p = i + 1 THEN v ELSE s[p - 1]
<1> DEFINE a == SubSeq(s, 1, i)
           b == SubSeq(s, i + 1, Len(s))
<1>1. Len(s) \in Nat BY LenProperties
<1>2. /\ a \in Seq(V) /\ Len(a) = i
      /\ \A p \in 1..i : a[p] = s[p]
  BY <1>1, SubSeqProperties, ElementOfSeq
<1>3. /\ b \in Seq(V) /\ Len(b) = Len(s) - i
      /\ \A p \in 1..(Len(s) - i) : b[p] = s[p + i]
  BY <1>1, SubSeqProperties, ElementOfSeq
<1>4. /\ a \o <<v>> \in Seq(V) /\ Len(a \o <<v>>) = i + 1
      /\ \A p \in 1..(i + 1) : (a \o <<v>>)[p] = IF p <= i THEN s[p] ELSE v
  <2>1. <<v>> \in Seq(V) /\ Len(<<v>>) = 1 /\ <<v>>[1] = v OBVIOUS
  <2> HIDE DEF a
  <2> QED BY <1>1, <1>2, <2>1, ConcatProperties
<1>5. VecInsert(s, i, v) = (a \o <<v>>) \o b
  <2>1. (i + 1) - 1 = i OBVIOUS
  <2> QED BY <2>1, Zenon DEF VecInsert, InsertAt
<1> HIDE DEF a, b
<1> DEFINE c == a \o <<v>>
<1>6. c \in Seq(V) BY <1>4
<1>7. /\ c \o b \in Seq(V)
      /\ Len(c \o b) = Len(c) + Len(b)
      /\ \A p \in 1..(Len(c) + Len(b)) :
            (c \o b)[p] = IF p <= Len(c) THEN c[p] ELSE b[p - Len(c)]
  <2> HIDE DEF c
  <2> QED BY <1>3, <1>6, ConcatProperties
<1>8. ASSUME NEW p \in 1..(Len(s) + 1)
      PROVE  (c \o b)[p] = IF p <= i THEN s[p]
                           ELSE IF p = i + 1 THEN v ELSE s[p - 1]
  <2>1. CASE p <= i + 1 BY <1>1, <1>3, <1>4, <1>7, <2>1
  <2>2. CASE p > i + 1
    <3>1. p - (i + 1) \in 1..(Len(s) - i) BY <1>1, <2>2
    <3>2. b[p - (i + 1)] = s[p - (i + 1) + i] BY <1>3, <3>1
    <3> QED BY <1>1, <1>3, <1>4, <1>7, <2>2, <3>2
  <2>3. p <= i + 1 \/ p > i + 1 BY <1>1
  <2> QED BY <2>1, <2>2, <2>3
<1> QED BY <1>1, <1>3, <1>4, <1>5, <1>7, <1>8

\* Vec::remove.
LEMMA Removed ==
    ASSUME NEW V, NEW s \in Seq(V), NEW i \in 0..(Len(s) - 1)
    PROVE  /\ VecRemove(s, i) \in Seq(V)
           /\ Len(VecRemove(s, i)) = Len(s) - 1
           /\ \A p \in 1..(Len(s) - 1) :
                 VecRemove(s, i)[p] = IF p <= i THEN s[p] ELSE s[p + 1]
<1> DEFINE a == SubSeq(s, 1, i)
           b == SubSeq(s, i + 2, Len(s))
<1>1. Len(s) \in Nat BY LenProperties
<1>2. /\ a \in Seq(V) /\ Len(a) = i
      /\ \A p \in 1..i : a[p] = s[p]
  BY <1>1, SubSeqProperties, ElementOfSeq
<1>3. /\ b \in Seq(V) /\ Len(b) = Len(s) - i - 1
      /\ \A p \in 1..(Len(s) - i - 1) : b[p] = s[p + i + 1]
  BY <1>1, SubSeqProperties, ElementOfSeq
<1>4. VecRemove(s, i) = a \o b
  <2>1. (i + 1) - 1 = i /\ (i + 1) + 1 = i + 2 OBVIOUS
  <2> QED BY <2>1, Zenon DEF VecRemove, RemoveAt
<1> HIDE DEF a, b
<1>5. /\ a \o b \in Seq(V)
      /\ Len(a \o b) = Len(a) + Len(b)
      /\ \A p \in 1..(Len(a) + Len(b)) :
            (a \o b)[p] = IF p <= Len(a) THEN a[p] ELSE b[p - Len(a)]
  <2>1. a \in Seq(V) /\ b \in Seq(V) BY <1>2, <1>3
  <2> QED BY <2>1, ConcatProperties
<1>6. ASSUME NEW p \in 1..(Len(s) - 1)
      PROVE  (a \o b)[p] = IF p <= i THEN s[p] ELSE s[p + 1]
  <2>1. CASE p <= i BY <1>1, <1>2, <1>3, <1>5, <2>1
  <2>2. CASE p > i
    <3>1. p - i \in 1..(Len(s) - i - 1) BY <1>1, <2>2
    <3>2. b[p - i] = s[p - i + i + 1] BY <1>3, <3>1
    <3> QED BY <1>1, <1>2, <1>3, <1>5, <2>2, <3>2
  <2>3. p <= i \/ p > i BY <1>1
  <2> QED BY <2>1, <2>2, <2>3
<1> QED BY <1>1, <1>2, <1>3, <1>4, <1>5, <1>6

-----------------------------------------------------------------------------
(* Ranks and sorted keys.                                                  *)

\* A key has as many keys below it as its rank says, fewer than all if it is
\* one of them.
LEMMA RankIs ==
    ASSUME NEW D \in SUBSET Int, IsFiniteSet(D), NEW k
    PROVE  /\ Cardinality(D) \in Nat
           /\ Rank(D, k) \in 0..Cardinality(D)
           /\ k \in D => Rank(D, k) < Cardinality(D)
<1> DEFINE below == {j \in D : j < k}
<1>1. IsFiniteSet(below) /\ Cardinality(below) <= Cardinality(D) BY FS_Subset
<1>2. Cardinality(D) \in Nat /\ Cardinality(below) \in Nat
  BY <1>1, FS_CardinalityType
<1>3. ASSUME k \in D PROVE Cardinality(below) < Cardinality(D)
  <2>1. k \notin below BY <1>3
  <2>2. Cardinality(D) # Cardinality(below) BY <1>3, <2>1, FS_Subset
  <2> HIDE DEF below
  <2> QED BY <1>1, <1>2, <2>2
<1>4. Rank(D, k) = Cardinality(below) BY DEF Rank
<1> HIDE DEF below
<1> QED BY <1>1, <1>2, <1>3, <1>4

\* A greater number has a greater rank, if the lesser one is a key.
LEMMA RankGrows ==
    ASSUME NEW D \in SUBSET Int, IsFiniteSet(D), NEW j \in Int, NEW k \in Int, j < k
    PROVE  /\ Rank(D, j) <= Rank(D, k)
           /\ j \in D => Rank(D, j) < Rank(D, k)
<1> DEFINE a == {i \in D : i < j}
           b == {i \in D : i < k}
<1>1. IsFiniteSet(b) BY FS_Subset
<1>2. a \subseteq b
  <2>1. \A i \in D : i < j => i < k OBVIOUS
  <2> QED BY <2>1
<1>3. IsFiniteSet(a) /\ Cardinality(a) <= Cardinality(b) BY <1>1, <1>2, FS_Subset
<1>4. ASSUME j \in D PROVE Cardinality(a) # Cardinality(b)
  <2>1. j \in b /\ j \notin a BY <1>4
  <2> QED BY <1>1, <1>2, <2>1, FS_Subset
<1>5. Cardinality(a) \in Nat /\ Cardinality(b) \in Nat
  BY <1>1, <1>3, FS_CardinalityType
<1>6. Rank(D, j) = Cardinality(a) /\ Rank(D, k) = Cardinality(b) BY DEF Rank
<1> HIDE DEF a, b
<1> QED BY <1>3, <1>4, <1>5, <1>6

\* The ranks of the keys are the numbers below their count.
LEMMA RankOnto ==
    ASSUME NEW D \in SUBSET Int, IsFiniteSet(D)
    PROVE  /\ \A j, k \in D : Rank(D, j) = Rank(D, k) => j = k
           /\ \A p \in 1..Cardinality(D) : \E k \in D : Rank(D, k) = p - 1
<1> DEFINE card == Cardinality(D)
           f == [k \in D |-> Rank(D, k)]
<1>1. card \in Nat BY RankIs
<1>2. \A k \in D : Rank(D, k) \in 0..(card - 1)
  <2> TAKE k \in D
  <2>2. Rank(D, k) \in 0..card /\ Rank(D, k) < card BY RankIs
  <2> HIDE DEF card
  <2> QED BY <1>1, <2>2
<1>3. \A j, k \in D : Rank(D, j) = Rank(D, k) => j = k
  <2> SUFFICES ASSUME NEW j \in D, NEW k \in D, j # k
               PROVE  Rank(D, j) # Rank(D, k)
    OBVIOUS
  <2>1. Rank(D, j) \in Int /\ Rank(D, k) \in Int BY <1>2
  <2>2. j \in Int /\ k \in Int OBVIOUS
  <2>3. j < k \/ k < j BY <2>2
  <2>4. Rank(D, j) < Rank(D, k) \/ Rank(D, k) < Rank(D, j)
    BY <2>2, <2>3, RankGrows
  <2> QED BY <2>1, <2>4
<1>4. f \in Injection(D, 0..(card - 1))
  <2>1. f \in [D -> 0..(card - 1)] BY <1>2
  <2>2. \A a, b \in D : f[a] = f[b] => a = b BY <1>3
  <2> HIDE DEF f
  <2> QED BY <2>1, <2>2 DEF Injection, IsInjective
<1>5. IsFiniteSet(0..(card - 1)) /\ Cardinality(0..(card - 1)) = card
  <2> HIDE DEF card
  <2> QED BY <1>1, FS_Interval
<1>6. f \in Surjection(D, 0..(card - 1))
  <2> HIDE DEF f
  <2> QED BY <1>4, <1>5, FS_Injection
<1>7. \A p \in 0..(card - 1) : \E k \in D : f[k] = p
  <2> HIDE DEF f
  <2> QED BY <1>6 DEF Surjection
<1>8. \A p \in 1..card : \E k \in D : Rank(D, k) = p - 1
  <2> TAKE p \in 1..card
  <2>1. p - 1 \in 0..(card - 1)
    <3> HIDE DEF card
    <3> QED BY <1>1
  <2>2. PICK k \in D : f[k] = p - 1 BY <1>7, <2>1
  <2> QED BY <2>2
<1> QED BY <1>3, <1>8

\* The sorted keys, position by position.
LEMMA Sorted ==
    ASSUME NEW D \in SUBSET Int, IsFiniteSet(D)
    PROVE  /\ Ascending(D) \in Seq(Int)
           /\ Len(Ascending(D)) = Cardinality(D)
           /\ \A p \in 1..Cardinality(D) :
                 Ascending(D)[p] \in D /\ Rank(D, Ascending(D)[p]) = p - 1
           /\ \A k \in D : /\ Rank(D, k) + 1 \in 1..Cardinality(D)
                           /\ Ascending(D)[Rank(D, k) + 1] = k
<1> DEFINE card == Cardinality(D)
           at(p) == CHOOSE k \in D : Rank(D, k) = p - 1
<1>1. card \in Nat BY RankIs
<1>2. \A p \in 1..card : at(p) \in D /\ Rank(D, at(p)) = p - 1 BY RankOnto
<1>3. Ascending(D) = [p \in 1..card |-> at(p)] BY DEF Ascending
<1>4. ASSUME NEW k \in D
      PROVE  Rank(D, k) + 1 \in 1..card /\ at(Rank(D, k) + 1) = k
  <2>2. Rank(D, k) \in 0..card /\ Rank(D, k) < card BY RankIs
  <2>3. Rank(D, k) + 1 \in 1..card /\ (Rank(D, k) + 1) - 1 = Rank(D, k)
    <3> HIDE DEF card, at
    <3> QED BY <1>1, <2>2
  <2>4. at(Rank(D, k) + 1) \in D /\ Rank(D, at(Rank(D, k) + 1)) = Rank(D, k)
    <3> HIDE DEF card, at
    <3> QED BY <1>2, <2>3
  <2>5. at(Rank(D, k) + 1) = k
    <3>1. PICK i \in D : i = at(Rank(D, k) + 1) BY <2>4
    <3> HIDE DEF card, at
    <3> QED BY <2>4, <3>1, RankOnto
  <2> QED BY <2>3, <2>5
<1> HIDE DEF at, card
<1>5. Ascending(D) \in [1..card -> Int] BY <1>2, <1>3
<1>6. Ascending(D) \in Seq(Int) /\ Len(Ascending(D)) = card BY <1>1, <1>5
<1> QED BY <1>2, <1>3, <1>4, <1>6 DEF card

\* The index at which a key is found, or belongs, is its rank.
LEMMA SearchIs ==
    ASSUME NEW D \in SUBSET Int, IsFiniteSet(D), NEW k \in Int
    PROVE  SearchKey(Ascending(D), k) = Rank(D, k)
<1> DEFINE s == Ascending(D)
           n == Cardinality(D)
           r == Rank(D, k)
           found == {i \in DOMAIN s : s[i] < k}
<1>1. /\ DOMAIN s = 1..n
      /\ \A p \in 1..n : s[p] \in D /\ Rank(D, s[p]) = p - 1
  <2>1. s \in Seq(Int) /\ Len(s) = n BY Sorted
  <2>2. DOMAIN s = 1..n
    <3> HIDE DEF s, n
    <3> QED BY <2>1, LenProperties
  <2> QED BY <2>2, Sorted
<1>2. n \in Nat /\ r \in 0..n BY RankIs
<1> HIDE DEF s, n
<1>3. ASSUME NEW i \in 1..n PROVE s[i] < k <=> i <= r
  <2>1. s[i] \in D /\ Rank(D, s[i]) = i - 1 /\ s[i] \in Int BY <1>1
  <2>2. ASSUME s[i] < k PROVE i <= r
    <3>1. i - 1 < r BY <2>1, <2>2, RankGrows
    <3> HIDE DEF r
    <3> QED BY <1>2, <3>1
  <2>3. ASSUME k < s[i] PROVE ~(i <= r)
    <3>1. r <= i - 1 BY <2>1, <2>3, RankGrows
    <3> HIDE DEF r
    <3> QED BY <1>2, <3>1
  <2>4. ASSUME k = s[i] PROVE ~(i <= r) /\ ~(s[i] < k)
    <3>1. r = i - 1 BY <2>1, <2>4
    <3>2. ~(s[i] < k) BY <2>1, <2>4
    <3> HIDE DEF r
    <3> QED BY <1>2, <3>1, <3>2
  <2>5. s[i] < k \/ (k < s[i] /\ ~(s[i] < k)) \/ k = s[i] BY <2>1
  <2> QED BY <2>2, <2>3, <2>4, <2>5
<1> HIDE DEF r
<1>4. found = 1..r BY <1>1, <1>2, <1>3
<1>5. Cardinality(1..r) = r BY <1>2, FS_Interval
<1> QED BY <1>4, <1>5 DEF SearchKey, s, r

\* A new key moves up those above it.
LEMMA RankOfMore ==
    ASSUME NEW D \in SUBSET Int, IsFiniteSet(D), NEW k \in Int, k \notin D
    PROVE  /\ D \cup {k} \in SUBSET Int
           /\ IsFiniteSet(D \cup {k})
           /\ Cardinality(D \cup {k}) = Cardinality(D) + 1
           /\ Rank(D \cup {k}, k) = Rank(D, k)
           /\ \A j \in D : Rank(D \cup {k}, j) =
                              IF j < k THEN Rank(D, j) ELSE Rank(D, j) + 1
<1> DEFINE E == D \cup {k}
<1>1. IsFiniteSet(E) /\ Cardinality(E) = Cardinality(D) + 1 BY FS_AddElement
<1>2. Rank(E, k) = Rank(D, k)
  <2>1. {j \in E : j < k} = {j \in D : j < k} OBVIOUS
  <2> QED BY <2>1 DEF Rank
<1>3. ASSUME NEW j \in D
      PROVE  Rank(E, j) = IF j < k THEN Rank(D, j) ELSE Rank(D, j) + 1
  <2> DEFINE a == {i \in D : i < j}
             b == {i \in E : i < j}
  <2>1. CASE j < k
    <3>1. a = b BY <2>1
    <3> QED BY <2>1, <3>1 DEF Rank
  <2>2. CASE ~(j < k)
    <3>1. b = a \cup {k} /\ k \notin a
      <4>1. k < j BY <2>2
      <4> QED BY <4>1
    <3>2. IsFiniteSet(a) BY FS_Subset
    <3>3. Cardinality(b) = Cardinality(a) + 1
      <4> HIDE DEF a, b
      <4> QED BY <3>1, <3>2, FS_AddElement
    <3> QED BY <2>2, <3>3 DEF Rank
  <2> QED BY <2>1, <2>2
<1> QED BY <1>1, <1>2, <1>3

\* The sorted keys with a new one, position by position.
LEMMA SortedMore ==
    ASSUME NEW D \in SUBSET Int, IsFiniteSet(D), NEW k \in Int, k \notin D
    PROVE  /\ Cardinality(D \cup {k}) = Cardinality(D) + 1
           /\ \A p \in 1..(Cardinality(D) + 1) :
                 Ascending(D \cup {k})[p] =
                     IF p <= Rank(D, k) THEN Ascending(D)[p]
                     ELSE IF p = Rank(D, k) + 1 THEN k
                     ELSE Ascending(D)[p - 1]
<1> DEFINE E == D \cup {k}
           s == Ascending(D)
           t == Ascending(E)
           n == Cardinality(D)
           r == Rank(D, k)
<1>1. /\ E \in SUBSET Int /\ IsFiniteSet(E) /\ Cardinality(E) = n + 1
      /\ Rank(E, k) = r
      /\ \A j \in D : Rank(E, j) = IF j < k THEN Rank(D, j) ELSE Rank(D, j) + 1
  BY RankOfMore
<1>2. n \in Nat /\ r \in 0..n BY RankIs
<1>3. \A p \in 1..n : s[p] \in D /\ Rank(D, s[p]) = p - 1 BY Sorted
<1>4. \A j \in E : t[Rank(E, j) + 1] = j
  <2> HIDE DEF E
  <2> QED BY <1>1, Sorted
<1>5. \A j \in D : j \in E /\ j \in Int OBVIOUS
<1>6. k \in E OBVIOUS
<1> HIDE DEF E, s, t, n
<1>7. ASSUME NEW p \in 1..n, p <= r PROVE t[p] = s[p]
  <2>1. s[p] \in D /\ Rank(D, s[p]) = p - 1 /\ s[p] \in Int BY <1>3, <1>5
  <2>2. s[p] < k
    <3>1. CASE k < s[p]
      <4>1. r <= p - 1 BY <2>1, <3>1, RankGrows
      <4> HIDE DEF r
      <4> QED BY <1>2, <1>7, <4>1
    <3>2. CASE k = s[p] BY <2>1, <3>2
    <3> QED BY <2>1, <3>1, <3>2
  <2>3. Rank(E, s[p]) = p - 1 BY <1>1, <2>1, <2>2
  <2>4. t[(p - 1) + 1] = s[p] BY <1>4, <1>5, <2>1, <2>3
  <2>5. (p - 1) + 1 = p OBVIOUS
  <2> QED BY <2>4, <2>5
<1>8. t[r + 1] = k BY <1>1, <1>4, <1>6
<1>9. ASSUME NEW p \in 1..n, ~(p <= r) PROVE t[p + 1] = s[p]
  <2>1. s[p] \in D /\ Rank(D, s[p]) = p - 1 /\ s[p] \in Int BY <1>3, <1>5
  <2>2. ~(s[p] < k)
    <3> SUFFICES ASSUME s[p] < k PROVE FALSE OBVIOUS
    <3>1. p - 1 < r BY <2>1, RankGrows
    <3> HIDE DEF r
    <3> QED BY <1>2, <1>9, <3>1
  <2>3. Rank(E, s[p]) = (p - 1) + 1 BY <1>1, <2>1, <2>2
  <2>4. t[((p - 1) + 1) + 1] = s[p] BY <1>4, <1>5, <2>1, <2>3
  <2>5. ((p - 1) + 1) + 1 = p + 1 OBVIOUS
  <2> QED BY <2>4, <2>5
<1> HIDE DEF r
<1>10. ASSUME NEW p \in 1..(n + 1)
       PROVE  t[p] = IF p <= r THEN s[p] ELSE IF p = r + 1 THEN k ELSE s[p - 1]
  <2>1. CASE p <= r BY <1>2, <1>7, <2>1
  <2>2. CASE p = r + 1 BY <1>2, <1>8, <2>2
  <2>3. CASE ~(p <= r) /\ p # r + 1
    <3>1. p - 1 \in 1..n /\ ~(p - 1 <= r) /\ (p - 1) + 1 = p BY <1>2, <2>3
    <3>2. t[(p - 1) + 1] = s[p - 1] BY <1>9, <3>1
    <3> QED BY <2>3, <3>1, <3>2
  <2> QED BY <2>1, <2>2, <2>3
<1> QED BY <1>1, <1>10 DEF E, s, t, n, r

\* The key goes where the search says.
LEMMA KeyInserted ==
    ASSUME NEW D \in SUBSET Int, IsFiniteSet(D), NEW k \in Int, k \notin D
    PROVE  VecInsert(Ascending(D), Rank(D, k), k) = Ascending(D \cup {k})
<1> DEFINE E == D \cup {k}
           s == Ascending(D)
           t == Ascending(E)
           n == Cardinality(D)
           r == Rank(D, k)
<1>1. n \in Nat /\ r \in 0..n BY RankIs
<1>2. s \in Seq(Int) /\ Len(s) = n BY Sorted
<1>4. E \in SUBSET Int /\ IsFiniteSet(E) /\ Cardinality(E) = n + 1
  BY RankOfMore
<1>5. t \in Seq(Int) /\ Len(t) = n + 1
  <2> HIDE DEF E
  <2> QED BY <1>4, Sorted
<1>6. \A p \in 1..(n + 1) :
         t[p] = IF p <= r THEN s[p] ELSE IF p = r + 1 THEN k ELSE s[p - 1]
  BY SortedMore
<1> HIDE DEF E, s, t, n, r
<1>3. r \in 0..Len(s) BY <1>1, <1>2
<1>7. /\ VecInsert(s, r, k) \in Seq(Int)
      /\ Len(VecInsert(s, r, k)) = Len(s) + 1
      /\ \A p \in 1..(Len(s) + 1) :
            VecInsert(s, r, k)[p] = IF p <= r THEN s[p]
                                    ELSE IF p = r + 1 THEN k ELSE s[p - 1]
  <2>1. PICK V : V = Int OBVIOUS
  <2>2. PICK x \in V : x = k BY <2>1
  <2>3. s \in Seq(V) BY <1>2, <2>1
  <2>4. /\ VecInsert(s, r, x) \in Seq(V)
        /\ Len(VecInsert(s, r, x)) = Len(s) + 1
        /\ \A p \in 1..(Len(s) + 1) :
              VecInsert(s, r, x)[p] = IF p <= r THEN s[p]
                                      ELSE IF p = r + 1 THEN x ELSE s[p - 1]
    BY <1>3, <2>3, Inserted
  <2> QED BY <2>1, <2>2, <2>4
<1>8. VecInsert(s, r, k) = t BY <1>2, <1>5, <1>6, <1>7, SeqEqual
<1> QED BY <1>8 DEF E, s, t, r

\* A removed key, and those above it, in the keys without it.
LEMMA SortedLess ==
    ASSUME NEW D \in SUBSET Int, IsFiniteSet(D), NEW k \in D
    PROVE  /\ D \ {k} \in SUBSET Int /\ IsFiniteSet(D \ {k})
           /\ Cardinality(D) \in Nat \ {0}
           /\ Cardinality(D \ {k}) = Cardinality(D) - 1
           /\ Rank(D, k) \in 0..(Cardinality(D) - 1)
           /\ \A p \in 1..(Cardinality(D) - 1) :
                 Ascending(D \ {k})[p] = IF p <= Rank(D, k) THEN Ascending(D)[p]
                                         ELSE Ascending(D)[p + 1]
<1> DEFINE E == D \ {k}
           s == Ascending(D)
           t == Ascending(E)
           n == Cardinality(E)
           r == Rank(D, k)
<1>1. /\ E \in SUBSET Int /\ IsFiniteSet(E) /\ E \cup {k} = D
      /\ k \in Int /\ k \notin E
  BY FS_RemoveElement
<1> HIDE DEF E
<1>2. Cardinality(D) = n + 1 /\ r = Rank(E, k) BY <1>1, RankOfMore
<1>3. n \in Nat /\ r \in 0..n BY <1>1, <1>2, RankIs
<1>4. \A p \in 1..(n + 1) :
         s[p] = IF p <= Rank(E, k) THEN t[p]
                ELSE IF p = Rank(E, k) + 1 THEN k ELSE t[p - 1]
  BY <1>1, SortedMore
<1> HIDE DEF s, t, n, r
<1>5. ASSUME NEW p \in 1..n PROVE t[p] = IF p <= r THEN s[p] ELSE s[p + 1]
  <2>1. CASE p <= r BY <1>2, <1>3, <1>4, <2>1
  <2>2. CASE ~(p <= r)
    <3>1. /\ p + 1 \in 1..(n + 1) /\ ~(p + 1 <= r) /\ p + 1 # r + 1
          /\ (p + 1) - 1 = p
      BY <1>3, <2>2
    <3>2. s[p + 1] = t[(p + 1) - 1] BY <1>2, <1>4, <3>1
    <3> QED BY <2>2, <3>1, <3>2
  <2> QED BY <2>1, <2>2
<1>6. Cardinality(D) - 1 = n /\ Cardinality(D) \in Nat \ {0} BY <1>2, <1>3
<1> QED BY <1>1, <1>2, <1>3, <1>5, <1>6 DEF E, s, t, n, r

LEMMA KeyRemoved ==
    ASSUME NEW D \in SUBSET Int, IsFiniteSet(D), NEW k \in D
    PROVE  VecRemove(Ascending(D), Rank(D, k)) = Ascending(D \ {k})
<1> DEFINE E == D \ {k}
           s == Ascending(D)
           t == Ascending(E)
           n == Cardinality(D)
           r == Rank(D, k)
<1>1. /\ E \in SUBSET Int /\ IsFiniteSet(E)
      /\ n \in Nat \ {0} /\ Cardinality(E) = n - 1
      /\ r \in 0..(n - 1)
      /\ \A p \in 1..(n - 1) : t[p] = IF p <= r THEN s[p] ELSE s[p + 1]
  BY SortedLess
<1>2. s \in Seq(Int) /\ Len(s) = n BY Sorted
<1>4. t \in Seq(Int) /\ Len(t) = n - 1
  <2> HIDE DEF E
  <2> QED BY <1>1, Sorted
<1> HIDE DEF E, s, t, n, r
<1>5. /\ VecRemove(s, r) \in Seq(Int)
      /\ Len(VecRemove(s, r)) = n - 1
      /\ \A p \in 1..(n - 1) :
            VecRemove(s, r)[p] = IF p <= r THEN s[p] ELSE s[p + 1]
  BY <1>1, <1>2, Removed
<1>6. VecRemove(s, r) = t BY <1>1, <1>4, <1>5, SeqEqual
<1> QED BY <1>6 DEF E, s, t, r

-----------------------------------------------------------------------------
(* Maps and their entries.                                                 *)

LEMMA ContentsAre ==
    /\ \A m \in Contents :
          /\ DOMAIN m \in SUBSET Keys /\ DOMAIN m \in SUBSET Int
          /\ IsFiniteSet(DOMAIN m)
          /\ m \in [DOMAIN m -> Values]
    /\ \A D \in SUBSET Keys : \A m \in [D -> Values] :
          IsFiniteSet(D) => m \in Contents
BY KeysAssumption DEF Contents, Maps

\* What a binding and a removal leave of a map.
LEMMA BindIs ==
    ASSUME NEW m \in Contents, NEW k \in Keys, NEW v
    PROVE  /\ DOMAIN Bind(m, k, v) = DOMAIN m \cup {k}
           /\ \A j \in DOMAIN m : j # k => Bind(m, k, v)[j] = m[j]
           /\ Bind(m, k, v)[k] = v
           /\ v \in Values => Bind(m, k, v) \in Contents
<1>1. /\ DOMAIN Bind(m, k, v) = DOMAIN m \cup {k}
      /\ \A j \in DOMAIN m : j # k => Bind(m, k, v)[j] = m[j]
      /\ Bind(m, k, v)[k] = v
  BY DEF Bind
<1>2. ASSUME v \in Values PROVE Bind(m, k, v) \in Contents
  <2>1. DOMAIN m \cup {k} \in SUBSET Keys /\ IsFiniteSet(DOMAIN m \cup {k})
    BY ContentsAre, FS_AddElement
  <2>2. Bind(m, k, v) \in [DOMAIN m \cup {k} -> Values]
    BY <1>2, ContentsAre DEF Bind
  <2> QED BY <2>1, <2>2, ContentsAre
<1> QED BY <1>1, <1>2

LEMMA WithoutIs ==
    ASSUME NEW m \in Contents, NEW k \in Keys
    PROVE  /\ DOMAIN Without(m, k) = DOMAIN m \ {k}
           /\ \A j \in DOMAIN m \ {k} : Without(m, k)[j] = m[j]
           /\ Without(m, k) \in Contents
<1>1. /\ DOMAIN Without(m, k) = DOMAIN m \ {k}
      /\ \A j \in DOMAIN m \ {k} : Without(m, k)[j] = m[j]
  BY DEF Without
<1>2. DOMAIN m \ {k} \in SUBSET Keys /\ IsFiniteSet(DOMAIN m \ {k})
  BY ContentsAre, FS_Subset
<1>3. Without(m, k) \in [DOMAIN m \ {k} -> Values] BY ContentsAre DEF Without
<1> QED BY <1>1, <1>2, <1>3, ContentsAre

LEMMA EmptyIs ==
    /\ EmptyMap \in Contents
    /\ DOMAIN EmptyMap = {}
    /\ \A m \in Contents : DOMAIN m = {} => m = EmptyMap
<1>1. DOMAIN EmptyMap = {} /\ EmptyMap \in [{} -> Values] BY DEF EmptyMap
<1>2. IsFiniteSet({}) BY FS_EmptySet
<1>3. EmptyMap \in Contents BY <1>1, <1>2, ContentsAre
<1>4. ASSUME NEW m \in Contents, DOMAIN m = {} PROVE m = EmptyMap
  <2>1. m \in [{} -> Values] BY <1>4, ContentsAre
  <2> QED BY <2>1 DEF EmptyMap
<1> QED BY <1>1, <1>3, <1>4

\* The entries in the order of their keys.
LEMMA EntriesAre ==
    ASSUME NEW m \in Contents
    PROVE  /\ Entries(m) \in Seq(Keys \X Values)
           /\ Len(Entries(m)) = Cardinality(DOMAIN m)
           /\ \A p \in 1..Cardinality(DOMAIN m) :
                 Entries(m)[p] = <<Ascending(DOMAIN m)[p], m[Ascending(DOMAIN m)[p]]>>
<1> DEFINE D == DOMAIN m
           s == Ascending(D)
           n == Cardinality(D)
<1>1. D \in SUBSET Keys /\ D \in SUBSET Int /\ IsFiniteSet(D)
      /\ m \in [D -> Values]
  BY ContentsAre
<1>2. n \in Nat BY <1>1, RankIs
<1>3. s \in Seq(Int) /\ Len(s) = n /\ \A p \in 1..n : s[p] \in D
  BY <1>1, Sorted
<1>4. DOMAIN s = 1..n
  <2> HIDE DEF s, n
  <2> QED BY <1>3, LenProperties
<1>5. Entries(m) = [p \in DOMAIN s |-> <<s[p], m[s[p]]>>]
  BY DEF Entries, SortedKeys
<1> HIDE DEF D, s, n
<1>6. Entries(m) \in [1..n -> Keys \X Values]
  <2>1. \A p \in 1..n : <<s[p], m[s[p]]>> \in Keys \X Values BY <1>1, <1>3
  <2> QED BY <1>4, <1>5, <2>1
<1>7. Entries(m) \in Seq(Keys \X Values) /\ Len(Entries(m)) = n
  BY <1>2, <1>6
<1> QED BY <1>4, <1>5, <1>7 DEF D, s, n

\* An entry with a new key goes where the key goes.
LEMMA EntryInserted ==
    ASSUME NEW m \in Contents, NEW k \in Keys, NEW v \in Values, k \notin DOMAIN m
    PROVE  VecInsert(Entries(m), Rank(DOMAIN m, k), <<k, v>>) = Entries(Bind(m, k, v))
<1> DEFINE D == DOMAIN m
           n == Cardinality(D)
           r == Rank(D, k)
           s == Ascending(D)
           t == Ascending(D \cup {k})
           w == Bind(m, k, v)
           a == Entries(m)
           b == Entries(w)
<1>1. D \in SUBSET Int /\ IsFiniteSet(D) /\ k \in Int
  BY ContentsAre, KeysAssumption
<1>2. n \in Nat /\ r \in 0..n BY <1>1, RankIs
<1>3. /\ Cardinality(D \cup {k}) = n + 1
      /\ \A p \in 1..(n + 1) :
            t[p] = IF p <= r THEN s[p] ELSE IF p = r + 1 THEN k ELSE s[p - 1]
  BY <1>1, SortedMore
<1>4. \A p \in 1..n : s[p] \in D BY <1>1, Sorted
<1>5. /\ a \in Seq(Keys \X Values) /\ Len(a) = n
      /\ \A p \in 1..n : a[p] = <<s[p], m[s[p]]>>
  BY EntriesAre
<1>6. /\ DOMAIN w = D \cup {k}
      /\ \A j \in D : w[j] = m[j]
      /\ w[k] = v
      /\ w \in Contents
  BY BindIs
<1>7. /\ b \in Seq(Keys \X Values) /\ Len(b) = n + 1
      /\ \A p \in 1..(n + 1) : b[p] = <<t[p], w[t[p]]>>
  <2> HIDE DEF t
  <2>1. t = Ascending(DOMAIN w)
        /\ Cardinality(DOMAIN w) = n + 1
    BY <1>3, <1>6 DEF t
  <2> QED BY <1>6, <2>1, EntriesAre
<1> HIDE DEF D, n, r, s, t, w, a, b
<1>8. PICK e \in Keys \X Values : e = <<k, v>> OBVIOUS
<1>9. r \in 0..Len(a) BY <1>2, <1>5
<1>10. /\ VecInsert(a, r, e) \in Seq(Keys \X Values)
       /\ Len(VecInsert(a, r, e)) = Len(a) + 1
       /\ \A p \in 1..(Len(a) + 1) :
             VecInsert(a, r, e)[p] = IF p <= r THEN a[p]
                                     ELSE IF p = r + 1 THEN e ELSE a[p - 1]
  <2>1. PICK V : V = Keys \X Values OBVIOUS
  <2>2. a \in Seq(V) /\ e \in V BY <1>5, <1>8, <2>1
  <2>3. /\ VecInsert(a, r, e) \in Seq(V)
        /\ Len(VecInsert(a, r, e)) = Len(a) + 1
        /\ \A p \in 1..(Len(a) + 1) :
              VecInsert(a, r, e)[p] = IF p <= r THEN a[p]
                                      ELSE IF p = r + 1 THEN e ELSE a[p - 1]
    BY <1>9, <2>2, Inserted
  <2> QED BY <2>1, <2>3
<1>11. ASSUME NEW p \in 1..(n + 1) PROVE VecInsert(a, r, e)[p] = b[p]
  <2>1. CASE p <= r
    <3>1. p \in 1..n BY <1>2, <2>1
    <3>2. t[p] = s[p] /\ s[p] \in D BY <1>3, <1>4, <2>1, <3>1
    <3>3. VecInsert(a, r, e)[p] = a[p] BY <1>5, <1>10, <2>1
    <3>4. b[p] = <<t[p], w[t[p]]>> /\ w[s[p]] = m[s[p]] BY <1>6, <1>7, <3>2
    <3> QED BY <1>5, <3>1, <3>2, <3>3, <3>4
  <2>2. CASE p = r + 1
    <3>1. ~(p <= r) BY <1>2, <2>2
    <3>2. t[p] = k BY <1>3, <2>2, <3>1
    <3>3. VecInsert(a, r, e)[p] = e BY <1>5, <1>10, <2>2, <3>1
    <3> QED BY <1>6, <1>7, <1>8, <3>2, <3>3
  <2>3. CASE ~(p <= r) /\ p # r + 1
    <3>1. p - 1 \in 1..n BY <1>2, <2>3
    <3>2. t[p] = s[p - 1] /\ s[p - 1] \in D BY <1>3, <1>4, <2>3, <3>1
    <3>3. VecInsert(a, r, e)[p] = a[p - 1] BY <1>5, <1>10, <2>3
    <3>4. b[p] = <<t[p], w[t[p]]>> /\ w[s[p - 1]] = m[s[p - 1]]
      BY <1>6, <1>7, <3>2
    <3> QED BY <1>5, <3>1, <3>2, <3>3, <3>4
  <2> QED BY <2>1, <2>2, <2>3
<1>12. VecInsert(a, r, e) = b BY <1>2, <1>5, <1>7, <1>10, <1>11, SeqEqual
<1> QED BY <1>8, <1>12 DEF D, r, w, a, b

\* An entry with a known key stays where it is.
LEMMA EntryUpdated ==
    ASSUME NEW m \in Contents, NEW k \in DOMAIN m, NEW v \in Values
    PROVE  ReplaceAt(Entries(m), Rank(DOMAIN m, k) + 1, <<k, v>>)
              = Entries(Bind(m, k, v))
<1> DEFINE D == DOMAIN m
           n == Cardinality(D)
           r == Rank(D, k)
           s == Ascending(D)
           w == Bind(m, k, v)
           a == Entries(m)
           b == Entries(w)
           c == ReplaceAt(a, r + 1, <<k, v>>)
<1>1. D \in SUBSET Int /\ IsFiniteSet(D) /\ k \in Keys BY ContentsAre
<1>2. n \in Nat BY <1>1, RankIs
<1>3. \A p \in 1..n : s[p] \in D /\ Rank(D, s[p]) = p - 1 BY <1>1, Sorted
<1>4. r + 1 \in 1..n /\ s[r + 1] = k BY <1>1, Sorted
<1>5. /\ a \in Seq(Keys \X Values) /\ Len(a) = n
      /\ \A p \in 1..n : a[p] = <<s[p], m[s[p]]>>
  BY EntriesAre
<1>6. /\ DOMAIN w = D
      /\ \A j \in D : j # k => w[j] = m[j]
      /\ w[k] = v
      /\ w \in Contents
  <2>1. D \cup {k} = D OBVIOUS
  <2>2. /\ DOMAIN w = D \cup {k}
        /\ \A j \in D : j # k => w[j] = m[j]
        /\ w[k] = v
        /\ w \in Contents
    <3>1. k \in Keys BY <1>1
    <3>2. /\ DOMAIN w = D \cup {k}
          /\ \A j \in D : j # k => w[j] = m[j]
          /\ w[k] = v
      BY DEF Bind
    <3>3. w \in Contents BY <3>1, BindIs
    <3> QED BY <3>2, <3>3
  <2> HIDE DEF D, w
  <2> QED BY <2>1, <2>2
<1>7. /\ b \in Seq(Keys \X Values) /\ Len(b) = n
      /\ \A p \in 1..n : b[p] = <<s[p], w[s[p]]>>
  <2> HIDE DEF D, w, n
  <2>1. s = Ascending(DOMAIN w) /\ Cardinality(DOMAIN w) = n BY <1>6 DEF n
  <2> QED BY <1>6, <2>1, EntriesAre
<1>8. c = [a EXCEPT ![r + 1] = <<k, v>>] BY DEF ReplaceAt
<1>9. PICK i \in 1..n : i = r + 1 BY <1>4
<1>10. r = i - 1
  <2>1. r \in Nat BY <1>1, RankIs
  <2> HIDE DEF r
  <2> QED BY <1>9, <2>1
<1> HIDE DEF D, n, r, s, w, a, b, c
<1>11. DOMAIN a = 1..n BY <1>2, <1>5, LenProperties
<1>12. c \in [1..n -> Keys \X Values]
  <2>1. a \in [1..n -> Keys \X Values] BY <1>2, <1>5, LenProperties
  <2>2. <<k, v>> \in Keys \X Values BY <1>1
  <2> QED BY <1>8, <2>1, <2>2
<1>13. c \in Seq(Keys \X Values) /\ Len(c) = n BY <1>2, <1>12
<1>14. ASSUME NEW p \in 1..n PROVE c[p] = b[p]
  <2>1. CASE p = i
    <3>1. c[p] = <<k, v>> BY <1>8, <1>9, <1>11, <2>1
    <3>2. s[p] = k BY <1>4, <1>9, <2>1
    <3> QED BY <1>6, <1>7, <3>1, <3>2
  <2>2. CASE p # i
    <3>1. c[p] = a[p] BY <1>8, <1>9, <1>11, <2>2
    <3>2. s[p] \in D /\ s[p] # k
      <4>1. s[p] \in D /\ Rank(D, s[p]) = p - 1 BY <1>3
      <4>2. p - 1 # i - 1 BY <2>2
      <4> QED BY <1>10, <4>1, <4>2 DEF r
    <3> QED BY <1>5, <1>6, <1>7, <3>1, <3>2
  <2> QED BY <2>1, <2>2
<1>15. c = b BY <1>7, <1>13, <1>14, SeqEqual
<1> QED BY <1>15 DEF D, r, w, a, b, c

\* An entry goes with its key.
LEMMA EntryRemoved ==
    ASSUME NEW m \in Contents, NEW k \in DOMAIN m
    PROVE  VecRemove(Entries(m), Rank(DOMAIN m, k)) = Entries(Without(m, k))
<1> DEFINE D == DOMAIN m
           n == Cardinality(D)
           r == Rank(D, k)
           s == Ascending(D)
           t == Ascending(D \ {k})
           w == Without(m, k)
           a == Entries(m)
           b == Entries(w)
<1>1. D \in SUBSET Int /\ IsFiniteSet(D) /\ k \in Keys BY ContentsAre
<1>2. /\ n \in Nat \ {0} /\ Cardinality(D \ {k}) = n - 1
      /\ r \in 0..(n - 1)
      /\ \A p \in 1..(n - 1) : t[p] = IF p <= r THEN s[p] ELSE s[p + 1]
      /\ D \ {k} \in SUBSET Int /\ IsFiniteSet(D \ {k})
  BY <1>1, SortedLess
<1>3. \A p \in 1..(n - 1) : t[p] \in D \ {k} BY <1>2, Sorted
<1>4. /\ a \in Seq(Keys \X Values) /\ Len(a) = n
      /\ \A p \in 1..n : a[p] = <<s[p], m[s[p]]>>
  BY EntriesAre
<1>5. /\ DOMAIN w = D \ {k}
      /\ \A j \in D \ {k} : w[j] = m[j]
      /\ w \in Contents
  BY <1>1, WithoutIs
<1>6. /\ b \in Seq(Keys \X Values) /\ Len(b) = n - 1
      /\ \A p \in 1..(n - 1) : b[p] = <<t[p], w[t[p]]>>
  <2> HIDE DEF t
  <2>1. t = Ascending(DOMAIN w)
        /\ Cardinality(DOMAIN w) = n - 1
    BY <1>2, <1>5 DEF t
  <2> QED BY <1>5, <2>1, EntriesAre
<1> HIDE DEF D, n, r, s, t, w, a, b
<1>7. r \in 0..(Len(a) - 1) BY <1>2, <1>4
<1>8. /\ VecRemove(a, r) \in Seq(Keys \X Values)
      /\ Len(VecRemove(a, r)) = Len(a) - 1
      /\ \A p \in 1..(Len(a) - 1) :
            VecRemove(a, r)[p] = IF p <= r THEN a[p] ELSE a[p + 1]
  <2>1. PICK V : V = Keys \X Values OBVIOUS
  <2>2. a \in Seq(V) BY <1>4, <2>1
  <2> QED BY <1>7, <2>1, <2>2, Removed
<1>9. ASSUME NEW p \in 1..(n - 1) PROVE VecRemove(a, r)[p] = b[p]
  <2>1. CASE p <= r
    <3>1. p \in 1..n BY <1>2, <2>1
    <3>2. VecRemove(a, r)[p] = a[p] /\ t[p] = s[p] BY <1>2, <1>4, <1>8, <2>1
    <3>3. b[p] = <<t[p], w[t[p]]>> /\ w[t[p]] = m[t[p]] BY <1>3, <1>5, <1>6
    <3> QED BY <1>4, <3>1, <3>2, <3>3
  <2>2. CASE ~(p <= r)
    <3>1. p + 1 \in 1..n BY <1>2, <2>2
    <3>2. VecRemove(a, r)[p] = a[p + 1] /\ t[p] = s[p + 1]
      BY <1>2, <1>4, <1>8, <2>2
    <3>3. b[p] = <<t[p], w[t[p]]>> /\ w[t[p]] = m[t[p]] BY <1>3, <1>5, <1>6
    <3> QED BY <1>4, <3>1, <3>2, <3>3
  <2> QED BY <2>1, <2>2
<1>10. VecRemove(a, r) = b BY <1>2, <1>4, <1>6, <1>8, <1>9, SeqEqual
<1> QED BY <1>10 DEF D, r, w, a, b

-----------------------------------------------------------------------------
(* Diffs.                                                                  *)

\* What the diffs that the readers return do to what was built of them.
LEMMA ApplyReplace ==
    ASSUME NEW vs, NEW s
    PROVE  Apply(ReplaceDiff(vs), s) = vs
<1>1. ReplaceDiff(vs).op = "Replace" /\ ReplaceDiff(vs).values = vs
  BY DEF ReplaceDiff
<1> QED BY <1>1, Zenon DEF Apply

LEMMA ApplyInsert ==
    ASSUME NEW i, NEW v, NEW s
    PROVE  Apply(InsertDiff(i, v), s) = VecInsert(s, i, v)
<1>1. /\ InsertDiff(i, v).op = "InsertAt"
      /\ InsertDiff(i, v).index = i /\ InsertDiff(i, v).value = v
  BY DEF InsertDiff
<1> QED BY <1>1, Zenon DEF Apply

LEMMA ApplyUpdate ==
    ASSUME NEW i, NEW v, NEW s
    PROVE  Apply(UpdateDiff(i, v), s) = ReplaceAt(s, i + 1, v)
<1>1. /\ UpdateDiff(i, v).op = "UpdateAt"
      /\ UpdateDiff(i, v).index = i /\ UpdateDiff(i, v).value = v
  BY DEF UpdateDiff
<1> QED BY <1>1, Zenon DEF Apply

LEMMA ApplyRemove ==
    ASSUME NEW i, NEW s
    PROVE  Apply(RemoveDiff(i), s) = VecRemove(s, i)
<1>1. RemoveDiff(i).op = "RemoveAt" /\ RemoveDiff(i).index = i
  BY DEF RemoveDiff
<1> QED BY <1>1, Zenon DEF Apply

LEMMA ApplyClear ==
    ASSUME NEW s
    PROVE  Apply(ClearDiff, s) = <<>>
<1>1. ClearDiff.op = "Clear" BY DEF ClearDiff
<1> QED BY <1>1, Zenon DEF Apply

\* What each diff of a map is to the map and to every kind of reader.
LEMMA OfReplace ==
    ASSUME NEW e, NEW d, d = ReplaceMap(e)
    PROVE  /\ d.op = "Replace"
           /\ \A m : ApplyMap(d, m) = e
           /\ \A ks : NextKeys(ks, d) = SortedKeys(e)
           /\ \A ks : KeyDiff(ks, d) = ReplaceDiff(SortedKeys(e))
           /\ \A ks : EntryDiff(ks, d) = ReplaceDiff(Entries(e))
           /\ \A old : WatchChange(old, d) = Some(Lookup(e, WatchKey))
<1>1. d.op = "Replace" /\ d.entries = e BY DEF ReplaceMap
<1> QED
  BY <1>1, Zenon DEF ApplyMap, NextKeys, KeyDiff, EntryDiff, WatchChange

LEMMA OfInsert ==
    ASSUME NEW k, NEW v, NEW d, d = InsertKey(k, v)
    PROVE  /\ d.op = "Insert" /\ d.key = k
           /\ \A m : ApplicableMap(d, m) => k \notin DOMAIN m
           /\ \A m : ApplyMap(d, m) = Bind(m, k, v)
           /\ \A ks : NextKeys(ks, d) = VecInsert(ks, SearchKey(ks, k), k)
           /\ \A ks : KeyDiff(ks, d) = InsertDiff(SearchKey(ks, k), k)
           /\ \A ks, e : e = <<k, v>> =>
                 EntryDiff(ks, d) = InsertDiff(SearchKey(ks, k), e)
           /\ \A old : WatchChange(old, d) = IF k = WatchKey THEN Some(Some(v)) ELSE old
<1>1. d.op = "Insert" /\ d.key = k /\ d.value = v BY DEF InsertKey
<1> QED
  BY <1>1, Zenon
     DEF ApplicableMap, ApplyMap, NextKeys, KeyDiff, EntryDiff, WatchChange

LEMMA OfUpdate ==
    ASSUME NEW k, NEW v, NEW d, d = UpdateKey(k, v)
    PROVE  /\ d.op = "Update" /\ d.key = k
           /\ \A m : ApplicableMap(d, m) => k \in DOMAIN m
           /\ \A m : ApplyMap(d, m) = Bind(m, k, v)
           /\ \A ks : NextKeys(ks, d) = ks
           /\ \A ks, e : e = <<k, v>> =>
                 EntryDiff(ks, d) = UpdateDiff(SearchKey(ks, k), e)
           /\ \A old : WatchChange(old, d) = IF k = WatchKey THEN Some(Some(v)) ELSE old
<1>1. d.op = "Update" /\ d.key = k /\ d.value = v BY DEF UpdateKey
<1> QED
  BY <1>1, Zenon
     DEF ApplicableMap, ApplyMap, NextKeys, EntryDiff, WatchChange

LEMMA OfRemove ==
    ASSUME NEW k, NEW d, d = RemoveKey(k)
    PROVE  /\ d.op = "Remove" /\ d.key = k
           /\ \A m : ApplicableMap(d, m) => k \in DOMAIN m
           /\ \A m : ApplyMap(d, m) = Without(m, k)
           /\ \A ks : NextKeys(ks, d) = VecRemove(ks, SearchKey(ks, k))
           /\ \A ks : KeyDiff(ks, d) = RemoveDiff(SearchKey(ks, k))
           /\ \A ks : EntryDiff(ks, d) = RemoveDiff(SearchKey(ks, k))
           /\ \A old : WatchChange(old, d) = IF k = WatchKey THEN Some(None) ELSE old
<1>1. d.op = "Remove" /\ d.key = k BY DEF RemoveKey
<1> QED
  BY <1>1, Zenon
     DEF ApplicableMap, ApplyMap, NextKeys, KeyDiff, EntryDiff, WatchChange

LEMMA OfClear ==
    ASSUME NEW d, d = ClearMap
    PROVE  /\ d.op = "Clear"
           /\ \A m : ApplyMap(d, m) = EmptyMap
           /\ \A ks : NextKeys(ks, d) = <<>>
           /\ \A ks : KeyDiff(ks, d) = ClearDiff
           /\ \A ks : EntryDiff(ks, d) = ClearDiff
           /\ \A old : WatchChange(old, d) = Some(None)
<1>1. d.op = "Clear" BY DEF ClearMap
<1> QED
  BY <1>1, Zenon DEF ApplyMap, NextKeys, KeyDiff, EntryDiff, WatchChange

\* What map_value makes of each diff.
LEMMA Mapped ==
    /\ \A e : MapMapDiff(ReplaceMap(e), Image)
                = ReplaceMap([k \in DOMAIN e |-> Image[e[k]]])
    /\ \A k, v : MapMapDiff(InsertKey(k, v), Image) = InsertKey(k, Image[v])
    /\ \A k, v : MapMapDiff(UpdateKey(k, v), Image) = UpdateKey(k, Image[v])
    /\ \A k : MapMapDiff(RemoveKey(k), Image) = RemoveKey(k)
    /\ MapMapDiff(ClearMap, Image) = ClearMap
<1>1. ASSUME NEW e
      PROVE  MapMapDiff(ReplaceMap(e), Image)
                = ReplaceMap([k \in DOMAIN e |-> Image[e[k]]])
  <2>1. ReplaceMap(e).op = "Replace" /\ ReplaceMap(e).entries = e BY DEF ReplaceMap
  <2> QED BY <2>1, Zenon DEF MapMapDiff
<1>2. ASSUME NEW k, NEW v
      PROVE  MapMapDiff(InsertKey(k, v), Image) = InsertKey(k, Image[v])
  <2>1. InsertKey(k, v).op = "Insert" BY DEF InsertKey
  <2>2. [InsertKey(k, v) EXCEPT !.value = Image[@]] = InsertKey(k, Image[v])
    BY DEF InsertKey
  <2> QED BY <2>1, <2>2, Zenon DEF MapMapDiff
<1>3. ASSUME NEW k, NEW v
      PROVE  MapMapDiff(UpdateKey(k, v), Image) = UpdateKey(k, Image[v])
  <2>1. UpdateKey(k, v).op = "Update" BY DEF UpdateKey
  <2>2. [UpdateKey(k, v) EXCEPT !.value = Image[@]] = UpdateKey(k, Image[v])
    BY DEF UpdateKey
  <2> QED BY <2>1, <2>2, Zenon DEF MapMapDiff
<1>4. ASSUME NEW k PROVE MapMapDiff(RemoveKey(k), Image) = RemoveKey(k)
  <2>1. RemoveKey(k).op = "Remove" BY DEF RemoveKey
  <2> QED BY <2>1, Zenon DEF MapMapDiff
<1>5. MapMapDiff(ClearMap, Image) = ClearMap
  <2>1. ClearMap.op = "Clear" BY DEF ClearMap
  <2> QED BY <2>1, Zenon DEF MapMapDiff
<1> QED BY <1>1, <1>2, <1>3, <1>4, <1>5

LEMMA DiffsAre ==
    ASSUME NEW d \in Diffs
    PROVE  \/ \E e \in Contents : d = ReplaceMap(e)
           \/ \E k \in Keys, v \in Values : d = InsertKey(k, v)
           \/ \E k \in Keys, v \in Values : d = UpdateKey(k, v)
           \/ \E k \in Keys : d = RemoveKey(k)
           \/ d = ClearMap
BY DEF Diffs

LEMMA NothingSorted == SortedKeys(EmptyMap) = <<>> /\ Entries(EmptyMap) = <<>>
<1>1. {} \in SUBSET Int /\ IsFiniteSet({}) /\ Cardinality({}) = 0 BY FS_EmptySet
<1>2. Ascending({}) \in Seq(Int) /\ Len(Ascending({})) = 0 BY <1>1, Sorted
<1>3. Ascending({}) = <<>> BY <1>2, EmptySeq
<1>4. Entries(EmptyMap) \in Seq(Keys \X Values) /\ Len(Entries(EmptyMap)) = 0
  BY <1>1, EmptyIs, EntriesAre
<1>5. Entries(EmptyMap) = <<>> BY <1>4, EmptySeq
<1> QED BY <1>3, <1>5, EmptyIs DEF SortedKeys

\* The keys that a reader knows follow those of the map, and so does what its
\* owner makes of the VecDiffs it returns.
LEMMA KeysFollow ==
    ASSUME NEW m \in Contents, NEW d \in Diffs, ApplicableMap(d, m)
    PROVE  /\ NextKeys(SortedKeys(m), d) = SortedKeys(ApplyMap(d, m))
           /\ IF d.op = "Update" THEN SortedKeys(m) = SortedKeys(ApplyMap(d, m))
              ELSE Apply(KeyDiff(SortedKeys(m), d), SortedKeys(m))
                      = SortedKeys(ApplyMap(d, m))
<1> DEFINE D == DOMAIN m
           s == SortedKeys(m)
<1>1. D \in SUBSET Int /\ IsFiniteSet(D) BY ContentsAre
<1>2. s = Ascending(D) BY DEF SortedKeys
<1>3. CASE \E e \in Contents : d = ReplaceMap(e)
  <2>1. PICK e \in Contents : d = ReplaceMap(e) BY <1>3
  <2>2. /\ d.op = "Replace" /\ ApplyMap(d, m) = e
        /\ NextKeys(s, d) = SortedKeys(e)
        /\ KeyDiff(s, d) = ReplaceDiff(SortedKeys(e))
    BY <2>1, OfReplace
  <2> QED BY <2>2, ApplyReplace
<1>4. CASE \E k \in Keys, v \in Values : d = InsertKey(k, v)
  <2>1. PICK k \in Keys, v \in Values : d = InsertKey(k, v) BY <1>4
  <2>2. k \notin D /\ k \in Int BY <2>1, OfInsert, KeysAssumption
  <2>3. SearchKey(s, k) = Rank(D, k) BY <1>1, <1>2, <2>2, SearchIs
  <2>4. VecInsert(s, SearchKey(s, k), k) = Ascending(D \cup {k})
    <3> HIDE DEF D, s
    <3> QED BY <1>1, <1>2, <2>2, <2>3, KeyInserted
  <2>5. SortedKeys(Bind(m, k, v)) = Ascending(D \cup {k})
    BY BindIs DEF SortedKeys
  <2>6. /\ d.op = "Insert" /\ ApplyMap(d, m) = Bind(m, k, v)
        /\ NextKeys(s, d) = VecInsert(s, SearchKey(s, k), k)
        /\ KeyDiff(s, d) = InsertDiff(SearchKey(s, k), k)
    <3> HIDE DEF s
    <3>1. d.op = "Insert" /\ ApplyMap(d, m) = Bind(m, k, v) BY <2>1, OfInsert
    <3>2. NextKeys(s, d) = VecInsert(s, SearchKey(s, k), k) BY <2>1, OfInsert
    <3>3. KeyDiff(s, d) = InsertDiff(SearchKey(s, k), k) BY <2>1, OfInsert
    <3> QED BY <3>1, <3>2, <3>3
  <2> QED BY <2>4, <2>5, <2>6, ApplyInsert
<1>5. CASE \E k \in Keys, v \in Values : d = UpdateKey(k, v)
  <2>1. PICK k \in Keys, v \in Values : d = UpdateKey(k, v) BY <1>5
  <2>2. k \in D BY <2>1, OfUpdate
  <2>3. D \cup {k} = D BY <2>2
  <2>4. SortedKeys(Bind(m, k, v)) = Ascending(D \cup {k})
    BY BindIs DEF SortedKeys
  <2>5. SortedKeys(Bind(m, k, v)) = s BY <1>2, <2>3, <2>4, Zenon
  <2>6. /\ d.op = "Update" /\ ApplyMap(d, m) = Bind(m, k, v)
        /\ NextKeys(s, d) = s
    <3> HIDE DEF s
    <3>1. d.op = "Update" /\ ApplyMap(d, m) = Bind(m, k, v) BY <2>1, OfUpdate
    <3>2. NextKeys(s, d) = s BY <2>1, OfUpdate
    <3> QED BY <3>1, <3>2
  <2> QED BY <2>5, <2>6
<1>6. CASE \E k \in Keys : d = RemoveKey(k)
  <2>1. PICK k \in Keys : d = RemoveKey(k) BY <1>6
  <2>2. k \in D /\ k \in Int BY <2>1, OfRemove, KeysAssumption
  <2>3. SearchKey(s, k) = Rank(D, k) BY <1>1, <1>2, <2>2, SearchIs
  <2>4. VecRemove(s, SearchKey(s, k)) = Ascending(D \ {k})
    <3> HIDE DEF D, s
    <3> QED BY <1>1, <1>2, <2>2, <2>3, KeyRemoved
  <2>5. SortedKeys(Without(m, k)) = Ascending(D \ {k})
    BY WithoutIs DEF SortedKeys
  <2>6. /\ d.op = "Remove" /\ ApplyMap(d, m) = Without(m, k)
        /\ NextKeys(s, d) = VecRemove(s, SearchKey(s, k))
        /\ KeyDiff(s, d) = RemoveDiff(SearchKey(s, k))
    BY <2>1, OfRemove
  <2> QED BY <2>4, <2>5, <2>6, ApplyRemove
<1>7. CASE d = ClearMap
  <2> QED BY <1>7, OfClear, ApplyClear, NothingSorted
<1> QED BY <1>3, <1>4, <1>5, <1>6, <1>7, DiffsAre

\* So do the entries.
LEMMA EntriesFollow ==
    ASSUME NEW m \in Contents, NEW d \in Diffs, ApplicableMap(d, m)
    PROVE  Apply(EntryDiff(SortedKeys(m), d), Entries(m)) = Entries(ApplyMap(d, m))
<1> DEFINE D == DOMAIN m
           s == SortedKeys(m)
           a == Entries(m)
<1>1. D \in SUBSET Int /\ IsFiniteSet(D) BY ContentsAre
<1>2. s = Ascending(D) BY DEF SortedKeys
<1>3. ASSUME NEW k \in Keys PROVE SearchKey(s, k) = Rank(D, k)
  BY <1>1, <1>2, SearchIs, KeysAssumption
<1>4. CASE \E e \in Contents : d = ReplaceMap(e)
  <2>1. PICK e \in Contents : d = ReplaceMap(e) BY <1>4
  <2>2. ApplyMap(d, m) = e /\ EntryDiff(s, d) = ReplaceDiff(Entries(e))
    BY <2>1, OfReplace
  <2> QED BY <2>2, ApplyReplace
<1>5. CASE \E k \in Keys, v \in Values : d = InsertKey(k, v)
  <2>1. PICK k \in Keys, v \in Values : d = InsertKey(k, v) BY <1>5
  <2>2. k \notin D BY <2>1, OfInsert
  <2>3. VecInsert(a, Rank(D, k), <<k, v>>) = Entries(Bind(m, k, v))
    BY <2>2, EntryInserted
  <2> QED BY <1>3, <2>1, <2>3, OfInsert, ApplyInsert
<1>6. CASE \E k \in Keys, v \in Values : d = UpdateKey(k, v)
  <2>1. PICK k \in Keys, v \in Values : d = UpdateKey(k, v) BY <1>6
  <2>2. k \in D BY <2>1, OfUpdate
  <2>3. ReplaceAt(a, Rank(D, k) + 1, <<k, v>>) = Entries(Bind(m, k, v))
    BY <2>2, EntryUpdated
  <2> QED BY <1>3, <2>1, <2>3, OfUpdate, ApplyUpdate
<1>7. CASE \E k \in Keys : d = RemoveKey(k)
  <2>1. PICK k \in Keys : d = RemoveKey(k) BY <1>7
  <2>2. k \in D BY <2>1, OfRemove
  <2>3. VecRemove(a, Rank(D, k)) = Entries(Without(m, k)) BY <2>2, EntryRemoved
  <2> QED BY <1>3, <2>1, <2>3, OfRemove, ApplyRemove
<1>8. CASE d = ClearMap
  <2> QED BY <1>8, OfClear, ApplyClear, NothingSorted DEF a
<1> QED BY <1>4, <1>5, <1>6, <1>7, <1>8, DiffsAre

\* The mapped values follow the values.
Images(m) == [k \in DOMAIN m |-> Image[m[k]]]

LEMMA ImagesFollow ==
    ASSUME NEW m \in Contents, NEW d \in Diffs
    PROVE  ApplyMap(MapMapDiff(d, Image), Images(m)) = Images(ApplyMap(d, m))
<1> DEFINE f == Images(m)
<1>1. CASE \E e \in Contents : d = ReplaceMap(e)
  <2>1. PICK e \in Contents : d = ReplaceMap(e) BY <1>1
  <2>2. MapMapDiff(d, Image) = ReplaceMap(Images(e)) BY <2>1, Mapped DEF Images
  <2>3. ApplyMap(ReplaceMap(Images(e)), f) = Images(e) BY OfReplace
  <2>4. ApplyMap(d, m) = e BY <2>1, OfReplace
  <2> QED BY <2>2, <2>3, <2>4
<1>2. CASE \E k \in Keys, v \in Values : d = InsertKey(k, v)
  <2>1. PICK k \in Keys, v \in Values : d = InsertKey(k, v) BY <1>2
  <2>2. MapMapDiff(d, Image) = InsertKey(k, Image[v]) BY <2>1, Mapped
  <2>3. ApplyMap(InsertKey(k, Image[v]), f) = Bind(f, k, Image[v]) BY OfInsert
  <2>4. ApplyMap(d, m) = Bind(m, k, v) BY <2>1, OfInsert
  <2>5. Bind(f, k, Image[v]) = Images(Bind(m, k, v)) BY DEF Bind, Images
  <2> QED BY <2>2, <2>3, <2>4, <2>5
<1>3. CASE \E k \in Keys, v \in Values : d = UpdateKey(k, v)
  <2>1. PICK k \in Keys, v \in Values : d = UpdateKey(k, v) BY <1>3
  <2>2. MapMapDiff(d, Image) = UpdateKey(k, Image[v]) BY <2>1, Mapped
  <2>3. ApplyMap(UpdateKey(k, Image[v]), f) = Bind(f, k, Image[v]) BY OfUpdate
  <2>4. ApplyMap(d, m) = Bind(m, k, v) BY <2>1, OfUpdate
  <2>5. Bind(f, k, Image[v]) = Images(Bind(m, k, v)) BY DEF Bind, Images
  <2> QED BY <2>2, <2>3, <2>4, <2>5
<1>4. CASE \E k \in Keys : d = RemoveKey(k)
  <2>1. PICK k \in Keys : d = RemoveKey(k) BY <1>4
  <2>2. MapMapDiff(d, Image) = d BY <2>1, Mapped
  <2>3. ApplyMap(d, f) = Without(f, k) /\ ApplyMap(d, m) = Without(m, k)
    BY <2>1, OfRemove
  <2>4. Without(f, k) = Images(Without(m, k)) BY DEF Without, Images
  <2> QED BY <2>2, <2>3, <2>4
<1>5. CASE d = ClearMap
  <2>1. MapMapDiff(d, Image) = d BY <1>5, Mapped
  <2>2. ApplyMap(d, f) = EmptyMap /\ ApplyMap(d, m) = EmptyMap BY <1>5, OfClear
  <2>3. EmptyMap = Images(EmptyMap) BY DEF EmptyMap, Images
  <2> QED BY <2>1, <2>2, <2>3
<1> QED BY <1>1, <1>2, <1>3, <1>4, <1>5, DiffsAre

\* A diff that does not concern the watched key leaves its value alone.
LEMMA WatchFollows ==
    ASSUME NEW m \in Contents, NEW d \in Diffs, NEW old
    PROVE  \/ WatchChange(old, d) = Some(Lookup(ApplyMap(d, m), WatchKey))
           \/ /\ WatchChange(old, d) = old
              /\ Lookup(ApplyMap(d, m), WatchKey) = Lookup(m, WatchKey)
              /\ WatchKey \in DOMAIN ApplyMap(d, m) <=> WatchKey \in DOMAIN m
<1>1. CASE \E e \in Contents : d = ReplaceMap(e) BY <1>1, OfReplace
<1>2. CASE \E k \in Keys, v \in Values : d = InsertKey(k, v) \/ d = UpdateKey(k, v)
  <2>1. PICK k \in Keys, v \in Values : d = InsertKey(k, v) \/ d = UpdateKey(k, v)
    BY <1>2
  <2>2. /\ ApplyMap(d, m) = Bind(m, k, v)
        /\ WatchChange(old, d) = IF k = WatchKey THEN Some(Some(v)) ELSE old
    BY <2>1, OfInsert, OfUpdate
  <2> DEFINE n == Bind(m, k, v)
  <2>3. CASE k = WatchKey
    <3>1. WatchKey \in DOMAIN n /\ n[WatchKey] = v BY <2>3 DEF Bind
    <3> HIDE DEF n
    <3>2. Lookup(n, WatchKey) = Some(v) BY <3>1 DEF Lookup
    <3>3. WatchChange(old, d) = Some(Lookup(n, WatchKey)) BY <2>2, <2>3, <3>2
    <3> QED BY <2>2, <3>3 DEF n
  <2>4. CASE k # WatchKey
    <3>1. /\ WatchKey \in DOMAIN n <=> WatchKey \in DOMAIN m
          /\ WatchKey \in DOMAIN m => n[WatchKey] = m[WatchKey]
      BY <2>4 DEF Bind
    <3> HIDE DEF n
    <3>2. Lookup(n, WatchKey) = Lookup(m, WatchKey) BY <3>1 DEF Lookup
    <3>3. WatchChange(old, d) = old BY <2>2, <2>4
    <3> QED BY <2>2, <3>1, <3>2, <3>3 DEF n
  <2> QED BY <2>3, <2>4
<1>3. CASE \E k \in Keys : d = RemoveKey(k)
  <2>1. PICK k \in Keys : d = RemoveKey(k) BY <1>3
  <2>2. /\ ApplyMap(d, m) = Without(m, k)
        /\ WatchChange(old, d) = IF k = WatchKey THEN Some(None) ELSE old
    BY <2>1, OfRemove
  <2> DEFINE n == Without(m, k)
  <2>3. CASE k = WatchKey
    <3>1. WatchKey \notin DOMAIN n BY <2>3 DEF Without
    <3> HIDE DEF n
    <3>2. Lookup(n, WatchKey) = None BY <3>1 DEF Lookup
    <3>3. WatchChange(old, d) = Some(Lookup(n, WatchKey)) BY <2>2, <2>3, <3>2
    <3> QED BY <2>2, <3>3 DEF n
  <2>4. CASE k # WatchKey
    <3>1. /\ WatchKey \in DOMAIN n <=> WatchKey \in DOMAIN m
          /\ WatchKey \in DOMAIN m => n[WatchKey] = m[WatchKey]
      BY <2>4 DEF Without
    <3> HIDE DEF n
    <3>2. Lookup(n, WatchKey) = Lookup(m, WatchKey) BY <3>1 DEF Lookup
    <3>3. WatchChange(old, d) = old BY <2>2, <2>4
    <3> QED BY <2>2, <3>1, <3>2, <3>3 DEF n
  <2> QED BY <2>3, <2>4
<1>4. CASE d = ClearMap BY <1>4, OfClear, EmptyIs DEF Lookup
<1> QED BY <1>1, <1>2, <1>3, <1>4, DiffsAre

LEMMA SomeIs == \A x, y : Some(x) # None /\ (Some(x) = Some(y) => x = y)
BY DEF Some, None

-----------------------------------------------------------------------------
(* Queues of diffs.                                                        *)

LEMMA LeadsNowhere ==
    ASSUME NEW s \in Contents
    PROVE  \A t : Leads(<<>>, s, t) <=> t = s
<1>1. Len(<<>>) = 0 OBVIOUS
<1>2. ASSUME NEW t, Leads(<<>>, s, t) PROVE t = s
  BY <1>1, <1>2 DEF Leads
<1>3. Leads(<<>>, s, s)
  <2> DEFINE c == [i \in 1..1 |-> s]
  <2>1. c \in [1..(Len(<<>>) + 1) -> Contents] BY <1>1
  <2>2. c[1] = s /\ c[Len(<<>>) + 1] = s BY <1>1
  <2>3. 1..Len(<<>>) = {} BY <1>1
  <2> HIDE DEF c
  <2> QED BY <2>1, <2>2, <2>3 DEF Leads
<1> QED BY <1>2, <1>3

\* A receiver that was told one diff more.
LEMMA LeadsFurther ==
    ASSUME NEW q \in Seq(Diffs), NEW d \in Diffs, NEW from, NEW to,
           Leads(q, from, to), ApplicableMap(d, to), ApplyMap(d, to) \in Contents
    PROVE  Leads(Append(q, d), from, ApplyMap(d, to))
<1>1. PICK c \in [1..(Len(q) + 1) -> Contents] :
        /\ c[1] = from
        /\ c[Len(q) + 1] = to
        /\ \A i \in 1..Len(q) :
              ApplicableMap(q[i], c[i]) /\ c[i + 1] = ApplyMap(q[i], c[i])
  BY DEF Leads
<1> DEFINE p == Append(q, d)
           e == [i \in 1..(Len(q) + 2) |->
                    IF i = Len(q) + 2 THEN ApplyMap(d, to) ELSE c[i]]
<1>2. /\ Len(q) \in Nat /\ Len(p) = Len(q) + 1
      /\ \A i \in 1..Len(q) : p[i] = q[i]
      /\ p[Len(q) + 1] = d
  BY AppendProperties, LenProperties
<1>3. e \in [1..(Len(p) + 1) -> Contents] BY <1>1, <1>2
<1>4. e[1] = from /\ e[Len(p) + 1] = ApplyMap(d, to) BY <1>1, <1>2
<1>5. ASSUME NEW i \in 1..Len(p)
      PROVE  ApplicableMap(p[i], e[i]) /\ e[i + 1] = ApplyMap(p[i], e[i])
  <2>1. CASE i \in 1..Len(q)
    <3>1. p[i] = q[i] /\ e[i] = c[i] /\ e[i + 1] = c[i + 1]
      BY <1>2, <2>1
    <3> QED BY <1>1, <2>1, <3>1
  <2>2. CASE i = Len(q) + 1
    <3>1. p[i] = d /\ e[i] = to /\ e[i + 1] = ApplyMap(d, to)
      BY <1>1, <1>2, <2>2
    <3> QED BY <3>1
  <2> QED BY <1>2, <2>1, <2>2
<1> HIDE DEF p, e
<1>6. Leads(p, from, ApplyMap(d, to)) BY <1>3, <1>4, <1>5 DEF Leads
<1> QED BY <1>6 DEF p

\* A receiver that takes the first diff of its queue.
LEMMA LeadsOn ==
    ASSUME NEW q \in Seq(Diffs), q # <<>>, NEW from, NEW to,
           Leads(q, from, to)
    PROVE  /\ ApplicableMap(Head(q), from)
           /\ ApplyMap(Head(q), from) \in Contents
           /\ Leads(Tail(q), ApplyMap(Head(q), from), to)
<1>1. PICK c \in [1..(Len(q) + 1) -> Contents] :
        /\ c[1] = from
        /\ c[Len(q) + 1] = to
        /\ \A i \in 1..Len(q) :
              ApplicableMap(q[i], c[i]) /\ c[i + 1] = ApplyMap(q[i], c[i])
  BY DEF Leads
<1> DEFINE p == Tail(q)
           e == [i \in 1..Len(q) |-> c[i + 1]]
<1>2. /\ Len(q) \in Nat \ {0} /\ Len(p) = Len(q) - 1
      /\ \A i \in 1..Len(p) : p[i] = q[i + 1]
      /\ Head(q) = q[1]
  BY HeadTailProperties, LenProperties, EmptySeq
<1>3. ApplicableMap(q[1], from) /\ c[2] = ApplyMap(q[1], from) BY <1>1, <1>2
<1>4. c[2] \in Contents BY <1>1, <1>2
<1>5. e \in [1..(Len(p) + 1) -> Contents] BY <1>1, <1>2
<1>6. e[1] = c[2] /\ e[Len(p) + 1] = to BY <1>1, <1>2
<1>7. ASSUME NEW i \in 1..Len(p)
      PROVE  ApplicableMap(p[i], e[i]) /\ e[i + 1] = ApplyMap(p[i], e[i])
  <2>1. i + 1 \in 1..Len(q) BY <1>2
  <2>2. p[i] = q[i + 1] /\ e[i] = c[i + 1] /\ e[i + 1] = c[i + 1 + 1]
    BY <1>2, <2>1
  <2> QED BY <1>1, <2>1, <2>2
<1> HIDE DEF p, e
<1>8. Leads(p, c[2], to) BY <1>5, <1>6, <1>7 DEF Leads
<1> QED BY <1>2, <1>3, <1>4, <1>8 DEF p

-----------------------------------------------------------------------------
(* What the readers hold.                                                  *)

\* What a reader is to show, by the way it is read.
LEMMA ShowsIs ==
    ASSUME NEW r, NEW m
    PROVE  /\ kind = "map" => (Shows(r, m) <=> view[r] = m)
           /\ kind = "map_value" => (Shows(r, m) <=> view[r] = Images(m))
           /\ kind = "keys" => (Shows(r, m) <=> view[r] = SortedKeys(m))
           /\ kind = "entries" => (Shows(r, m) <=> view[r] = Entries(m))
           /\ kind = "watch" => (Shows(r, m) <=> view[r] = Some(Lookup(m, WatchKey)))
BY Zenon DEF Shows, Images

LEMMA NextShowsIs ==
    ASSUME NEW r, NEW m
    PROVE  /\ kind' = "map" => (Shows(r, m)' <=> view'[r] = m)
           /\ kind' = "map_value" => (Shows(r, m)' <=> view'[r] = Images(m))
           /\ kind' = "keys" => (Shows(r, m)' <=> view'[r] = SortedKeys(m))
           /\ kind' = "entries" => (Shows(r, m)' <=> view'[r] = Entries(m))
           /\ kind' = "watch" => (Shows(r, m)' <=> view'[r] = Some(Lookup(m, WatchKey)))
BY Zenon DEF Shows, Images

\* Only the fields of a reader matter to what it holds.
LEMMA KnowsSame ==
    ASSUME NEW r, NEW m,
           kind' = kind, keys'[r] = keys[r], changed'[r] = changed[r],
           first'[r] = first[r], view'[r] = view[r]
    PROVE  /\ Knows(r, m)' <=> Knows(r, m)
           /\ Shows(r, m)' <=> Shows(r, m)
<1>1. Shows(r, m)' <=> Shows(r, m) BY DEF Shows
<1>2. Watches(r, m)' <=> Watches(r, m) BY DEF Watches
<1> QED BY <1>1, <1>2 DEF Knows

\* A reader that takes a diff holds what the diff makes of the contents.
LEMMA Polled ==
    ASSUME KindsAssumption, kind \in Kinds, kind' = kind, Reading,
           NEW r \in Receivers, PollDiff(r),
           NEW d \in Diffs, d = Head(queue[r]),
           NEW m \in Contents, ApplicableMap(d, m), Knows(r, m),
           NEW n, n = ApplyMap(d, m)
    PROVE  Knows(r, n)'
<1>1. kind \in {"map", "map_value", "keys", "entries", "watch"}
  BY DEF KindsAssumption
<1>2. r \in DOMAIN view /\ r \in DOMAIN keys /\ r \in DOMAIN changed BY DEF Reading
<1>3. CASE kind = "map"
  <2>1. view' = [view EXCEPT ![r] = ApplyMap(d, @)] BY <1>3 DEF PollDiff
  <2>2. view[r] = m BY <1>3, ShowsIs DEF Knows
  <2>3. view'[r] = n BY <1>2, <2>1, <2>2
  <2> QED BY <1>3, <2>3, NextShowsIs DEF Knows
<1>4. CASE kind = "map_value"
  <2>1. view' = [view EXCEPT ![r] = ApplyMap(MapMapDiff(d, Image), @)]
    BY <1>4 DEF PollDiff
  <2>2. view[r] = Images(m) BY <1>4, ShowsIs DEF Knows
  <2>3. view'[r] = ApplyMap(MapMapDiff(d, Image), Images(m)) BY <1>2, <2>1, <2>2
  <2>4. view'[r] = Images(n) BY <2>3, ImagesFollow
  <2> QED BY <1>4, <2>4, NextShowsIs DEF Knows
<1>5. CASE kind = "keys"
  <2>1. /\ keys' = [keys EXCEPT ![r] = NextKeys(@, d)]
        /\ view' = [view EXCEPT ![r] =
                       IF d.op = "Update" THEN @ ELSE Apply(KeyDiff(keys[r], d), @)]
    BY <1>5 DEF PollDiff
  <2>2. keys[r] = SortedKeys(m) /\ view[r] = SortedKeys(m)
    BY <1>5, ShowsIs DEF Knows
  <2>3. /\ keys'[r] = NextKeys(SortedKeys(m), d)
        /\ view'[r] = IF d.op = "Update" THEN SortedKeys(m)
                      ELSE Apply(KeyDiff(SortedKeys(m), d), SortedKeys(m))
    BY <1>2, <2>1, <2>2
  <2>4. keys'[r] = SortedKeys(n) /\ view'[r] = SortedKeys(n) BY <2>3, KeysFollow
  <2> QED BY <1>5, <2>4, NextShowsIs DEF Knows
<1>6. CASE kind = "entries"
  <2>1. /\ keys' = [keys EXCEPT ![r] = NextKeys(@, d)]
        /\ view' = [view EXCEPT ![r] = Apply(EntryDiff(keys[r], d), @)]
    BY <1>6 DEF PollDiff
  <2>2. keys[r] = SortedKeys(m) /\ view[r] = Entries(m) BY <1>6, ShowsIs DEF Knows
  <2>3. /\ keys'[r] = NextKeys(SortedKeys(m), d)
        /\ view'[r] = Apply(EntryDiff(SortedKeys(m), d), Entries(m))
    BY <1>2, <2>1, <2>2
  <2>4. keys'[r] = SortedKeys(n) /\ view'[r] = Entries(n)
    BY <2>3, KeysFollow, EntriesFollow
  <2> QED BY <1>6, <2>4, NextShowsIs DEF Knows
<1>7. CASE kind = "watch"
  <2> SUFFICES Watches(r, n)' BY <1>7 DEF Knows
  <2>1. /\ changed' = [changed EXCEPT ![r] = WatchChange(@, d)]
        /\ view' = view /\ first' = first
    BY <1>7 DEF PollDiff
  <2>2. changed'[r] = WatchChange(changed[r], d) BY <1>2, <2>1
  <2>3. Watches(r, m) BY <1>7 DEF Knows
  <2>4. \/ changed'[r] = Some(Lookup(n, WatchKey))
        \/ /\ changed'[r] = changed[r]
           /\ Lookup(n, WatchKey) = Lookup(m, WatchKey)
           /\ WatchKey \in DOMAIN n <=> WatchKey \in DOMAIN m
    BY <2>2, WatchFollows
  <2>5. CASE changed'[r] = Some(Lookup(n, WatchKey)) BY <2>5, SomeIs DEF Watches
  <2>6. CASE /\ changed'[r] = changed[r]
             /\ Lookup(n, WatchKey) = Lookup(m, WatchKey)
             /\ WatchKey \in DOMAIN n <=> WatchKey \in DOMAIN m
    BY <2>1, <2>3, <2>6 DEF Watches
  <2> QED BY <2>4, <2>5, <2>6
<1> QED BY <1>1, <1>3, <1>4, <1>5, <1>6, <1>7

\* A reader that owes its owner nothing shows the contents of the map.
LEMMA QuietShows ==
    ASSUME KindsAssumption, kind \in Kinds, values \in Contents,
           NEW r \in Receivers, Informed(r), Quiet(r)
    PROVE  Knows(r, values) /\ Shows(r, values)
<1>1. PICK m \in Contents : Knows(r, m) /\ Leads(queue[r], m, values)
  BY DEF Quiet, Informed
<1>2. queue[r] = <<>> BY DEF Quiet
<1>3. m = values BY <1>1, <1>2, LeadsNowhere
<1>4. Knows(r, values) BY <1>1, <1>3
<1>5. CASE kind = "watch"
  <2>1. changed[r] = None /\ ~first[r] BY <1>5 DEF Quiet
  <2>2. Watches(r, values) BY <1>4, <1>5 DEF Knows
  <2>3. view[r] = Some(Lookup(values, WatchKey)) BY <2>1, <2>2 DEF Watches
  <2> QED BY <1>4, <1>5, <2>3, ShowsIs
<1>6. CASE kind # "watch" BY <1>4, <1>6 DEF Knows
<1> QED BY <1>5, <1>6

-----------------------------------------------------------------------------
(* The strengthened invariant is inductive.                                *)

\* A step that leaves a reader alone.
LEMMA Frame ==
    ASSUME NEW r, Informed(r), UNCHANGED <<kind, values, handle>>,
           r \in senders' <=> r \in senders,
           status'[r] = status[r], queue'[r] = queue[r], keys'[r] = keys[r],
           changed'[r] = changed[r], first'[r] = first[r], view'[r] = view[r]
    PROVE  Informed(r)'
<1>1. \A m : (Knows(r, m)' <=> Knows(r, m)) /\ (Shows(r, m)' <=> Shows(r, m))
  BY KnowsSame
<1>2. Open(r)' <=> Open(r) BY DEF Open
<1>3. /\ \E D \in SUBSET Keys : IsFiniteSet(D) /\ keys'[r] = Ascending(D)
      /\ ~Open(r)' => queue'[r] = <<>>
      /\ handle' /\ Open(r)' => r \in senders'
      /\ ~handle' \/ status'[r] = "new" => r \notin senders'
  BY <1>2 DEF Informed
<1>4. status'[r] = "new" => Knows(r, EmptyMap)' BY <1>1 DEF Informed
<1>5. ASSUME Open(r)'
      PROVE  \E m \in Contents : Knows(r, m)' /\ Leads(queue'[r], m, values')
  <2>1. PICK m \in Contents : Knows(r, m) /\ Leads(queue[r], m, values)
    BY <1>2, <1>5 DEF Informed
  <2>2. Knows(r, m)' BY <1>1, <2>1
  <2> QED BY <2>1, <2>2
<1>6. status'[r] = "ended" => ~handle' /\ Shows(r, values)'
  <2>1. Shows(r, values)' <=> Shows(r, values) BY DEF Shows
  <2> QED BY <2>1 DEF Informed
<1> QED BY <1>3, <1>4, <1>5, <1>6 DEF Informed

LEMMA Stutters ==
    ASSUME IInv, UNCHANGED <<kind, vars>>
    PROVE  IInv'
<1>1. /\ kind' = kind /\ values' = values /\ senders' = senders
      /\ queue' = queue /\ status' = status /\ keys' = keys
      /\ changed' = changed /\ first' = first /\ view' = view
      /\ handle' = handle
  BY DEF vars, reader
<1>2. Reading' BY <1>1 DEF IInv, Reading
<1>3. \A r \in Receivers : Informed(r)' BY <1>1, Frame DEF IInv
<1> QED BY <1>1, <1>2, <1>3 DEF IInv

\* A step that concerns one reader.
LEMMA OneReader ==
    ASSUME IInv, Reading', UNCHANGED <<kind, values, handle>>,
           NEW r \in Receivers, Informed(r)',
           \A q \in Receivers \ {r} :
              /\ q \in senders' <=> q \in senders
              /\ status'[q] = status[q] /\ queue'[q] = queue[q]
              /\ keys'[q] = keys[q] /\ changed'[q] = changed[q]
              /\ first'[q] = first[q] /\ view'[q] = view[q]
    PROVE  IInv'
<1>1. ASSUME NEW q \in Receivers \ {r} PROVE Informed(q)'
  <2>1. Informed(q) BY DEF IInv
  <2> QED BY <2>1, Frame
<1>2. \A q \in Receivers : Informed(q)' BY <1>1
<1> QED BY <1>2 DEF IInv

\* The initial states.
LEMMA IInvInit ==
    ASSUME KindsAssumption, Init
    PROVE  IInv
<1>1. EmptyMap \in Contents /\ DOMAIN EmptyMap = {} BY EmptyIs
<1>2. <<>> \in Seq(Diffs) OBVIOUS
<1>3. Reading BY <1>2 DEF Init, Reading
<1>4. ASSUME NEW r \in Receivers PROVE Informed(r)
  <2>1. /\ status[r] = "new" /\ keys[r] = <<>> /\ queue[r] = <<>>
        /\ changed[r] = None /\ first[r] = TRUE /\ senders = {}
    BY DEF Init
  <2>2. kind \in {"map", "map_value", "keys", "entries", "watch"}
    BY DEF Init, KindsAssumption
  <2>3. view[r] = CASE kind \in {"map", "map_value"} -> EmptyMap
                    [] kind = "watch" -> None
                    [] OTHER -> <<>>
    BY DEF Init
  <2>4. /\ kind \in {"map", "map_value"} => view[r] = EmptyMap
        /\ kind \in {"keys", "entries"} => view[r] = <<>>
    BY <2>2, <2>3, Zenon
  <2>5. Images(EmptyMap) = EmptyMap BY DEF EmptyMap, Images
  <2>6. SortedKeys(EmptyMap) = <<>> /\ Entries(EmptyMap) = <<>> BY NothingSorted
  <2>7. Watches(r, EmptyMap) BY <1>1, <2>1 DEF Watches
  <2>8. kind # "watch" => Shows(r, EmptyMap) BY <2>2, <2>4, <2>5, <2>6, ShowsIs
  <2>9. Knows(r, EmptyMap) BY <2>1, <2>6, <2>7, <2>8 DEF Knows
  <2>10. \E D \in SUBSET Keys : IsFiniteSet(D) /\ keys[r] = Ascending(D)
    <3>1. keys[r] = Ascending({}) BY <1>1, <2>1, <2>6 DEF SortedKeys
    <3> QED BY <3>1, FS_EmptySet
  <2>11. ~Open(r) BY <2>1 DEF Open
  <2> QED BY <2>1, <2>9, <2>10, <2>11 DEF Informed
<1> QED BY <1>3, <1>4 DEF Init, IInv

\* Every open reader is told of a change of the map.
LEMMA Told ==
    ASSUME IInv, NEW d \in Diffs, ApplicableMap(d, values),
           NEW n \in Contents, n = ApplyMap(d, values), values' = n,
           Notify(d), handle, UNCHANGED <<kind, reader, handle>>
    PROVE  IInv'
<1>1. /\ kind' = kind /\ status' = status /\ keys' = keys /\ first' = first
      /\ changed' = changed /\ view' = view /\ handle' = handle
  BY DEF reader
<1>2. /\ senders' = {r \in senders : Open(r)}
      /\ queue' = [r \in Receivers |->
                      IF r \in senders /\ Open(r) THEN Append(queue[r], d)
                      ELSE queue[r]]
  BY DEF Notify
<1>3. Reading /\ handle' = TRUE /\ kind' \in Kinds /\ values' \in Contents
  BY <1>1 DEF IInv
<1>4. \A r \in Receivers : queue[r] \in Seq(Diffs) BY <1>3 DEF Reading
<1>5. queue' \in [Receivers -> Seq(Diffs)]
  <2>1. \A r \in Receivers : Append(queue[r], d) \in Seq(Diffs)
    BY <1>4, AppendProperties
  <2> QED BY <1>2, <1>4, <2>1
<1>6. Reading' BY <1>1, <1>2, <1>3, <1>5 DEF Reading
<1>7. ASSUME NEW r \in Receivers PROVE Informed(r)'
  <2>1. Informed(r) BY DEF IInv
  <2>2. \A m : Knows(r, m)' <=> Knows(r, m) BY <1>1, KnowsSame
  <2>3. Open(r)' <=> Open(r) BY <1>1 DEF Open
  <2>4. /\ \E D \in SUBSET Keys : IsFiniteSet(D) /\ keys'[r] = Ascending(D)
        /\ ~Open(r)' => queue'[r] = <<>>
        /\ Open(r)' => r \in senders'
        /\ status'[r] = "new" => r \notin senders'
    BY <1>1, <1>2, <2>1, <2>3 DEF Informed
  <2>5. status'[r] = "new" => Knows(r, EmptyMap)' BY <1>1, <2>1, <2>2 DEF Informed
  <2>6. ASSUME Open(r)'
        PROVE  \E m \in Contents : Knows(r, m)' /\ Leads(queue'[r], m, values')
    <3>1. Open(r) /\ r \in senders BY <2>1, <2>3, <2>6 DEF Informed
    <3>2. queue'[r] = Append(queue[r], d) BY <1>2, <3>1
    <3>3. PICK m \in Contents : Knows(r, m) /\ Leads(queue[r], m, values)
      BY <2>1, <3>1 DEF Informed
    <3>4. Leads(Append(queue[r], d), m, n) BY <1>4, <3>3, LeadsFurther
    <3>5. Knows(r, m)' BY <2>2, <3>3
    <3> QED BY <3>2, <3>4, <3>5
  <2>7. status'[r] # "ended" BY <1>1, <2>1 DEF Informed
  <2> QED BY <1>3, <2>4, <2>5, <2>6, <2>7 DEF Informed
<1> QED BY <1>3, <1>6, <1>7 DEF IInv

\* The operations.
LEMMA IInvOperation ==
    ASSUME IInv, Operation, kind' = kind
    PROVE  IInv'
<1>1. /\ handle /\ UNCHANGED <<kind, reader, handle>>
      /\ values \in Contents
  BY DEF Operation, IInv
<1>2. CASE \E k \in Keys, v \in Values : InsertOp(k, v)
  <2>1. PICK k \in Keys, v \in Values : InsertOp(k, v) BY <1>2
  <2> DEFINE n == Bind(values, k, v)
  <2>2. n \in Contents BY <1>1, BindIs
  <2>3. values' = n BY <2>1 DEF InsertOp
  <2>4. CASE k \in DOMAIN values
    <3>1. PICK d : d = UpdateKey(k, v) OBVIOUS
    <3>2. d \in Diffs BY <3>1 DEF Diffs
    <3>3. Notify(d) BY <2>1, <2>4, <3>1 DEF InsertOp
    <3>4. d.op = "Update" /\ d.key = k /\ n = ApplyMap(d, values)
      BY <3>1, OfUpdate
    <3>5. ApplicableMap(d, values) BY <2>4, <3>4 DEF ApplicableMap
    <3> HIDE DEF n
    <3> QED BY <1>1, <2>2, <2>3, <3>2, <3>3, <3>4, <3>5, Told
  <2>5. CASE k \notin DOMAIN values
    <3>1. PICK d : d = InsertKey(k, v) OBVIOUS
    <3>2. d \in Diffs BY <3>1 DEF Diffs
    <3>3. Notify(d) BY <2>1, <2>5, <3>1 DEF InsertOp
    <3>4. d.op = "Insert" /\ d.key = k /\ n = ApplyMap(d, values)
      BY <3>1, OfInsert
    <3>5. ApplicableMap(d, values) BY <2>5, <3>4 DEF ApplicableMap
    <3> HIDE DEF n
    <3> QED BY <1>1, <2>2, <2>3, <3>2, <3>3, <3>4, <3>5, Told
  <2> QED BY <2>4, <2>5
<1>3. CASE \E k \in Keys : RemoveOp(k)
  <2>1. PICK k \in Keys : RemoveOp(k) BY <1>3
  <2>2. CASE k \in DOMAIN values
    <3> DEFINE n == Without(values, k)
    <3>1. PICK d : d = RemoveKey(k) OBVIOUS
    <3>2. d \in Diffs BY <3>1 DEF Diffs
    <3>3. values' = n /\ Notify(d) BY <2>1, <2>2, <3>1 DEF RemoveOp
    <3>4. d.op = "Remove" /\ d.key = k /\ n = ApplyMap(d, values)
      BY <3>1, OfRemove
    <3>5. ApplicableMap(d, values) BY <2>2, <3>4 DEF ApplicableMap
    <3>6. n \in Contents BY <1>1, WithoutIs
    <3> HIDE DEF n
    <3> QED BY <1>1, <3>2, <3>3, <3>4, <3>5, <3>6, Told
  <2>3. CASE k \notin DOMAIN values
    <3>1. UNCHANGED <<values, senders, queue>> BY <2>1, <2>3 DEF RemoveOp
    <3> QED BY <1>1, <3>1, Stutters DEF vars
  <2> QED BY <2>2, <2>3
<1>4. CASE \E m \in Contents : ReplaceOp(m)
  <2>1. PICK m \in Contents : ReplaceOp(m) BY <1>4
  <2>2. PICK d : d = ReplaceMap(m) OBVIOUS
  <2>3. d \in Diffs BY <2>2 DEF Diffs
  <2>4. values' = m /\ Notify(d) BY <2>1, <2>2 DEF ReplaceOp
  <2>5. d.op = "Replace" /\ m = ApplyMap(d, values) BY <2>2, OfReplace
  <2>6. ApplicableMap(d, values) BY <2>5 DEF ApplicableMap
  <2> QED BY <1>1, <2>3, <2>4, <2>5, <2>6, Told
<1>5. CASE ClearOp
  <2>1. CASE DOMAIN values # {}
    <3>1. PICK d : d = ClearMap OBVIOUS
    <3>2. d \in Diffs BY <3>1 DEF Diffs
    <3>3. values' = EmptyMap /\ Notify(d) BY <1>5, <2>1, <3>1 DEF ClearOp
    <3>4. d.op = "Clear" /\ EmptyMap = ApplyMap(d, values) BY <3>1, OfClear
    <3>5. ApplicableMap(d, values) BY <3>4 DEF ApplicableMap
    <3>6. EmptyMap \in Contents BY EmptyIs
    <3> QED BY <1>1, <3>2, <3>3, <3>4, <3>5, <3>6, Told
  <2>2. CASE DOMAIN values = {}
    <3>1. UNCHANGED <<values, senders, queue>> BY <1>5, <2>2 DEF ClearOp
    <3> QED BY <1>1, <3>1, Stutters DEF vars
  <2> QED BY <2>1, <2>2
<1> QED BY <1>2, <1>3, <1>4, <1>5 DEF Operation

\* A reader is created.  It knows nothing, and the entries, if there are any,
\* come first in its queue.
LEMMA IInvSignalMap ==
    ASSUME IInv, kind' = kind, NEW r \in Receivers, SignalMap(r)
    PROVE  IInv'
<1>1. /\ handle /\ handle' /\ status[r] = "new"
      /\ status' = [status EXCEPT ![r] = "open"]
      /\ senders' = senders \cup {r}
      /\ queue' = [queue EXCEPT ![r] =
                      IF DOMAIN values = {} THEN @ ELSE <<ReplaceMap(values)>>]
      /\ values' = values /\ keys' = keys /\ changed' = changed
      /\ first' = first /\ view' = view
  BY DEF SignalMap
<1>2. Reading /\ values \in Contents /\ Informed(r) BY DEF IInv
<1>3. /\ status'[r] = "open"
      /\ queue'[r] = IF DOMAIN values = {} THEN queue[r] ELSE <<ReplaceMap(values)>>
      /\ \A q \in Receivers \ {r} :
            status'[q] = status[q] /\ queue'[q] = queue[q]
  BY <1>1, <1>2 DEF Reading
<1>4. PICK d : d = ReplaceMap(values) OBVIOUS
<1>5. d \in Diffs BY <1>2, <1>4 DEF Diffs
<1>6. <<d>> \in Seq(Diffs) /\ <<d>> = Append(<<>>, d) BY <1>5
<1>7. Reading'
  <2>1. queue' \in [Receivers -> Seq(Diffs)]
    BY <1>1, <1>2, <1>4, <1>6 DEF Reading
  <2>2. status' \in [Receivers -> {"new", "open", "dropped", "ended"}]
    BY <1>1, <1>2 DEF Reading
  <2> QED BY <1>1, <1>2, <2>1, <2>2 DEF Reading
<1>8. Knows(r, EmptyMap)'
  <2>1. Knows(r, EmptyMap) BY <1>1, <1>2 DEF Informed
  <2> QED BY <1>1, <2>1, KnowsSame
<1>9. EmptyMap \in Contents BY EmptyIs
<1>10. Leads(queue'[r], EmptyMap, values)
  <2>1. queue[r] = <<>> BY <1>1, <1>2 DEF Informed, Open
  <2>2. Leads(<<>>, EmptyMap, EmptyMap) BY <1>9, LeadsNowhere
  <2>3. CASE DOMAIN values = {}
    <3>1. values = EmptyMap BY <1>2, <2>3, EmptyIs
    <3>2. queue'[r] = <<>> BY <1>3, <2>1, <2>3
    <3> QED BY <2>2, <3>1, <3>2
  <2>4. CASE DOMAIN values # {}
    <3>1. queue'[r] = Append(<<>>, d) BY <1>3, <1>4, <1>6, <2>4
    <3>2. d.op = "Replace" /\ ApplyMap(d, EmptyMap) = values BY <1>4, OfReplace
    <3>3. ApplicableMap(d, EmptyMap) BY <3>2 DEF ApplicableMap
    <3>4. Leads(Append(<<>>, d), EmptyMap, ApplyMap(d, EmptyMap))
      <4>1. <<>> \in Seq(Diffs) OBVIOUS
      <4> QED BY <1>2, <1>5, <2>2, <3>2, <3>3, <4>1, LeadsFurther
    <3> QED BY <3>1, <3>2, <3>4
  <2> QED BY <2>3, <2>4
<1>11. Informed(r)'
  <2>1. Open(r)' BY <1>3 DEF Open
  <2>2. \E D \in SUBSET Keys : IsFiniteSet(D) /\ keys'[r] = Ascending(D)
    BY <1>1, <1>2 DEF Informed
  <2> QED BY <1>1, <1>3, <1>8, <1>9, <1>10, <2>1, <2>2 DEF Informed
<1>12. handle' = handle BY DEF SignalMap
<1> QED BY <1>1, <1>3, <1>7, <1>11, <1>12, OneReader

\* The senders go with the map; what is in the queues stays there.
LEMMA IInvDropMap ==
    ASSUME IInv, kind' = kind, DropMap
    PROVE  IInv'
<1>1. /\ handle' = FALSE /\ senders' = {} /\ values' = values /\ queue' = queue
      /\ status' = status /\ keys' = keys /\ changed' = changed
      /\ first' = first /\ view' = view
  BY DEF DropMap, reader
<1>2. Reading' BY <1>1 DEF IInv, Reading
<1>3. ASSUME NEW r \in Receivers PROVE Informed(r)'
  <2>1. Informed(r) BY DEF IInv
  <2>2. \A m : (Knows(r, m)' <=> Knows(r, m)) /\ (Shows(r, m)' <=> Shows(r, m))
    BY <1>1, KnowsSame
  <2>3. Open(r)' <=> Open(r) BY <1>1 DEF Open
  <2>4. status'[r] = "new" => Knows(r, EmptyMap)' BY <1>1, <2>1, <2>2 DEF Informed
  <2>5. ASSUME Open(r)'
        PROVE  \E m \in Contents : Knows(r, m)' /\ Leads(queue'[r], m, values')
    <3>1. PICK m \in Contents : Knows(r, m) /\ Leads(queue[r], m, values)
      BY <2>1, <2>3, <2>5 DEF Informed
    <3>2. Knows(r, m)' BY <2>2, <3>1
    <3> QED BY <1>1, <3>1, <3>2
  <2>6. status'[r] # "ended" BY <1>1, <2>1 DEF Informed, DropMap
  <2> QED BY <1>1, <2>1, <2>3, <2>4, <2>5, <2>6 DEF Informed
<1> QED BY <1>1, <1>2, <1>3 DEF IInv

\* A reader takes a diff.
LEMMA IInvPollDiff ==
    ASSUME IInv, kind' = kind, NEW r \in Receivers, PollDiff(r)
    PROVE  IInv'
<1>1. /\ Open(r) /\ queue[r] # <<>>
      /\ queue' = [queue EXCEPT ![r] = Tail(@)]
      /\ values' = values /\ senders' = senders /\ status' = status
      /\ first' = first /\ handle' = handle
  BY DEF PollDiff
<1>2. Reading /\ Informed(r) /\ kind \in Kinds BY DEF IInv
<1>3. queue[r] \in Seq(Diffs) /\ r \in DOMAIN queue BY <1>2 DEF Reading
<1>4. PICK m \in Contents : Knows(r, m) /\ Leads(queue[r], m, values)
  BY <1>1, <1>2 DEF Informed
<1>5. PICK d \in Diffs : d = Head(queue[r])
  BY <1>1, <1>3, HeadTailProperties
<1>6. PICK n : n = ApplyMap(d, m) OBVIOUS
<1>7. ApplicableMap(d, m) /\ n \in Contents /\ Leads(Tail(queue[r]), n, values)
  BY <1>1, <1>3, <1>4, <1>5, <1>6, LeadsOn
<1>8. Knows(r, n)'
  BY <1>2, <1>4, <1>5, <1>6, <1>7, Polled, KindsAssumption
<1>9. /\ queue' \in [Receivers -> Seq(Diffs)]
      /\ queue'[r] = Tail(queue[r])
  <2>1. Tail(queue[r]) \in Seq(Diffs) BY <1>1, <1>3, HeadTailProperties
  <2> QED BY <1>1, <1>2, <2>1 DEF Reading
<1>10. /\ DOMAIN keys' = Receivers /\ DOMAIN changed' = Receivers
       /\ DOMAIN view' = Receivers
       /\ \A q \in Receivers \ {r} :
             /\ keys'[q] = keys[q] /\ changed'[q] = changed[q]
             /\ view'[q] = view[q]
       /\ kind \notin {"keys", "entries"} => keys' = keys
  BY <1>2 DEF PollDiff, Reading
<1>11. Reading' BY <1>1, <1>2, <1>9, <1>10 DEF Reading
<1>12. \A q \in Receivers \ {r} : queue'[q] = queue[q] BY <1>1
<1>13. Informed(r)'
  <2>1. \E D \in SUBSET Keys : IsFiniteSet(D) /\ keys'[r] = Ascending(D)
    <3>1. CASE kind \in {"keys", "entries"}
      <4>1. keys'[r] = SortedKeys(n) BY <1>8, <3>1 DEF Knows
      <4> QED BY <1>7, <4>1, ContentsAre DEF SortedKeys
    <3>2. CASE kind \notin {"keys", "entries"}
      <4>1. PICK D \in SUBSET Keys : IsFiniteSet(D) /\ keys[r] = Ascending(D)
        BY <1>2 DEF Informed
      <4> QED BY <1>10, <3>2, <4>1
    <3> QED BY <3>1, <3>2
  <2>2. Open(r)' BY <1>1 DEF Open
  <2>3. status'[r] = "open" BY <1>1 DEF Open
  <2>4. handle' => r \in senders' BY <1>1, <1>2 DEF Informed
  <2>5. ~handle' => r \notin senders' BY <1>1, <1>2 DEF Informed
  <2>6. Leads(queue'[r], n, values') BY <1>1, <1>7, <1>9
  <2> QED BY <1>7, <1>8, <2>1, <2>2, <2>3, <2>4, <2>5, <2>6 DEF Informed
<1>14. \A q \in Receivers \ {r} :
          /\ q \in senders' <=> q \in senders
          /\ status'[q] = status[q] /\ queue'[q] = queue[q]
          /\ keys'[q] = keys[q] /\ changed'[q] = changed[q]
          /\ first'[q] = first[q] /\ view'[q] = view[q]
  BY <1>1, <1>10, <1>12
<1>15. UNCHANGED <<kind, values, handle>> BY <1>1
<1> QED BY <1>11, <1>13, <1>14, <1>15, OneReader

\* A reader of one key returns what changed.
LEMMA IInvPollWatch ==
    ASSUME IInv, kind' = kind, NEW r \in Receivers, PollWatch(r)
    PROVE  IInv'
<1>1. /\ Open(r) /\ kind = "watch" /\ queue[r] = <<>>
      /\ changed[r] # None \/ first[r]
      /\ view' = [view EXCEPT ![r] =
                     IF changed[r] # None THEN changed[r] ELSE Some(None)]
      /\ changed' = [changed EXCEPT ![r] = None]
      /\ first' = [first EXCEPT ![r] = FALSE]
      /\ values' = values /\ senders' = senders /\ queue' = queue
      /\ status' = status /\ keys' = keys /\ handle' = handle
  BY DEF PollWatch
<1>2. Reading /\ Informed(r) BY DEF IInv
<1>3. Reading' BY <1>1, <1>2 DEF Reading
<1>4. \A q \in Receivers \ {r} :
         view'[q] = view[q] /\ changed'[q] = changed[q] /\ first'[q] = first[q]
  BY <1>1
<1>5. PICK m \in Contents : Knows(r, m) /\ Leads(queue[r], m, values)
  BY <1>1, <1>2 DEF Informed
<1>6. Watches(r, m) BY <1>1, <1>5 DEF Knows
<1>7. /\ view'[r] = IF changed[r] # None THEN changed[r] ELSE Some(None)
      /\ changed'[r] = None /\ first'[r] = FALSE
  BY <1>1, <1>2 DEF Reading
<1>8. view'[r] = Some(Lookup(m, WatchKey))
  <2>1. WatchKey \notin DOMAIN m => Lookup(m, WatchKey) = None BY DEF Lookup
  <2> QED BY <1>1, <1>6, <1>7, <2>1 DEF Watches
<1>9. Watches(r, m)' BY <1>7, <1>8 DEF Watches
<1>10. Knows(r, m)' BY <1>1, <1>9 DEF Knows
<1>11. Informed(r)'
  <2>1. Open(r)' /\ status'[r] = "open" BY <1>1 DEF Open
  <2>2. \E D \in SUBSET Keys : IsFiniteSet(D) /\ keys'[r] = Ascending(D)
    BY <1>1, <1>2 DEF Informed
  <2>3. handle' => r \in senders' BY <1>1, <1>2 DEF Informed
  <2>4. ~handle' => r \notin senders' BY <1>1, <1>2 DEF Informed
  <2>5. Leads(queue'[r], m, values') BY <1>1, <1>5
  <2> QED BY <1>5, <1>10, <2>1, <2>2, <2>3, <2>4, <2>5 DEF Informed
<1> QED BY <1>1, <1>3, <1>4, <1>11, OneReader

\* The stream or signal of a reader ends, once the map is gone.
LEMMA IInvPollEnd ==
    ASSUME IInv, kind' = kind, NEW r \in Receivers, PollEnd(r)
    PROVE  IInv'
<1>1. /\ Quiet(r) /\ r \notin senders /\ queue[r] = <<>> /\ Open(r)
      /\ status' = [status EXCEPT ![r] = "ended"]
      /\ values' = values /\ senders' = senders /\ queue' = queue
      /\ keys' = keys /\ changed' = changed /\ first' = first
      /\ view' = view /\ handle' = handle
  BY DEF PollEnd, Quiet
<1>2. Reading /\ Informed(r) /\ kind \in Kinds /\ values \in Contents
  BY DEF IInv
<1>3. Reading' BY <1>1, <1>2 DEF Reading
<1>4. \A q \in Receivers \ {r} : status'[q] = status[q] BY <1>1
<1>5. status'[r] = "ended" BY <1>1, <1>2 DEF Reading
<1>6. ~handle BY <1>1, <1>2 DEF Informed
<1>7. Shows(r, values) BY <1>1, <1>2, QuietShows, KindsAssumption
<1>8. Shows(r, values)'
  <2>1. Shows(r, values)' <=> Shows(r, values) BY <1>1 DEF Shows
  <2> QED BY <1>7, <2>1
<1>9. Informed(r)'
  <2>1. ~Open(r)' BY <1>5 DEF Open
  <2>2. \E D \in SUBSET Keys : IsFiniteSet(D) /\ keys'[r] = Ascending(D)
    BY <1>1, <1>2 DEF Informed
  <2> QED BY <1>1, <1>5, <1>6, <1>8, <2>1, <2>2 DEF Informed
<1> QED BY <1>1, <1>3, <1>4, <1>9, OneReader

LEMMA IInvDropReader ==
    ASSUME IInv, kind' = kind, NEW r \in Receivers, DropReader(r)
    PROVE  IInv'
<1>1. /\ Open(r)
      /\ status' = [status EXCEPT ![r] = "dropped"]
      /\ queue' = [queue EXCEPT ![r] = <<>>]
      /\ values' = values /\ senders' = senders
      /\ keys' = keys /\ changed' = changed /\ first' = first
      /\ view' = view /\ handle' = handle
  BY DEF DropReader
<1>2. Reading /\ Informed(r) BY DEF IInv
<1>3. Reading'
  <2>1. <<>> \in Seq(Diffs) OBVIOUS
  <2> QED BY <1>1, <1>2, <2>1 DEF Reading
<1>4. \A q \in Receivers \ {r} : status'[q] = status[q] /\ queue'[q] = queue[q]
  BY <1>1
<1>5. status'[r] = "dropped" /\ queue'[r] = <<>> BY <1>1, <1>2 DEF Reading
<1>6. Informed(r)'
  <2>1. ~Open(r)' BY <1>5 DEF Open
  <2>2. \E D \in SUBSET Keys : IsFiniteSet(D) /\ keys'[r] = Ascending(D)
    BY <1>1, <1>2 DEF Informed
  <2>3. ~handle' => r \notin senders' BY <1>1, <1>2 DEF Informed
  <2> QED BY <1>5, <2>1, <2>2, <2>3 DEF Informed
<1> QED BY <1>1, <1>3, <1>4, <1>6, OneReader

LEMMA IInvStep ==
    ASSUME IInv, [Next]_<<kind, vars>>
    PROVE  IInv'
<1>1. CASE UNCHANGED <<kind, vars>> BY <1>1, Stutters
<1>2. CASE Next
  <2>1. kind' = kind BY <1>2 DEF Next
  <2> QED
    BY <1>2, <2>1, IInvOperation, IInvDropMap, IInvSignalMap, IInvPollDiff,
       IInvPollWatch, IInvPollEnd, IInvDropReader
    DEF Next, Step
<1> QED BY <1>1, <1>2

-----------------------------------------------------------------------------
(* The theorems.                                                           *)

\* The strengthened invariant holds in every run.
THEOREM InductiveInvariant == Spec => []IInv
<1>1. Init => IInv BY IInvInit, KindsAssumption
<1>2. IInv /\ [Next]_<<kind, vars>> => IInv' BY IInvStep
<1> QED BY <1>1, <1>2, PTL DEF Spec

\* Every variable has its type, and as long as the MutableBTreeMap exists no
\* open reader is off the list of senders.
THEOREM TypeCorrect == Spec => []TypeOK
<1>1. IInv => TypeOK BY DEF IInv, Reading, Informed, TypeOK
<1> QED BY <1>1, InductiveInvariant, PTL

\* No reader of keys or entries panics on the next diff: the key to insert is
\* not among those it has sorted, the one to update or remove is.
LEMMA NoPanic ==
    ASSUME IInv
    PROVE  DiffsFit
<1> SUFFICES ASSUME NEW r \in Receivers
             PROVE  /\ keys[r] = Ascending(ToSet(keys[r]))
                    /\ queue[r] # <<>> /\ kind \in {"keys", "entries"} =>
                          ApplicableMap(Head(queue[r]),
                                        [k \in ToSet(keys[r]) |-> k])
  BY DEF DiffsFit, ApplicableMap
<1>1. Reading /\ Informed(r) BY DEF IInv
<1>2. PICK D \in SUBSET Keys : IsFiniteSet(D) /\ keys[r] = Ascending(D)
  BY <1>1 DEF Informed
<1>3. D \in SUBSET Int BY KeysAssumption
<1>4. ToSet(Ascending(D)) = D
  <2>1. DOMAIN Ascending(D) = 1..Cardinality(D) BY DEF Ascending
  <2>2. \A p \in 1..Cardinality(D) : Ascending(D)[p] \in D BY <1>2, <1>3, Sorted
  <2>3. \A k \in D : \E p \in 1..Cardinality(D) : Ascending(D)[p] = k
    BY <1>2, <1>3, Sorted
  <2> QED BY <2>1, <2>2, <2>3 DEF ToSet
<1>5. ASSUME queue[r] # <<>>, kind \in {"keys", "entries"}
      PROVE  ApplicableMap(Head(queue[r]), [k \in D |-> k])
  <2>1. queue[r] \in Seq(Diffs) /\ Open(r)
    BY <1>1, <1>5 DEF Reading, Informed
  <2>2. PICK m \in Contents : Knows(r, m) /\ Leads(queue[r], m, values)
    BY <1>1, <2>1 DEF Informed
  <2>3. keys[r] = Ascending(DOMAIN m) BY <1>5, <2>2 DEF Knows, SortedKeys
  <2>4. ApplicableMap(Head(queue[r]), m) BY <1>5, <2>1, <2>2, LeadsOn
  <2>5. D = DOMAIN m
    <3>1. ToSet(Ascending(DOMAIN m)) = DOMAIN m
      <4>1. DOMAIN m \in SUBSET Int /\ IsFiniteSet(DOMAIN m) BY ContentsAre
      <4>2. DOMAIN Ascending(DOMAIN m) = 1..Cardinality(DOMAIN m) BY DEF Ascending
      <4> QED BY <4>1, <4>2, Sorted DEF ToSet
    <3> QED BY <1>2, <1>4, <2>3, <3>1
  <2> QED BY <2>4, <2>5 DEF ApplicableMap
<1> QED BY <1>2, <1>4, <1>5

\* A reader that has taken every diff shows the map as its kind shows it, and
\* so does one that has ended; and none panics on the way.
THEOREM ReadersCorrect == Spec => []ReadersAgree
<1>1. IInv => ReadersAgree
  <2> SUFFICES ASSUME IInv, NEW r \in Receivers, Quiet(r) \/ status[r] = "ended"
               PROVE  Shows(r, values)
    BY NoPanic DEF ReadersAgree
  <2>1. CASE Quiet(r) BY <2>1, QuietShows, KindsAssumption DEF IInv
  <2>2. CASE status[r] = "ended" BY <2>2 DEF IInv, Informed
  <2> QED BY <2>1, <2>2
<1> QED BY <1>1, InductiveInvariant, PTL
=============================================================================
