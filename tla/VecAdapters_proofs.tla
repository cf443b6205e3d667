------------------------- MODULE VecAdapters_proofs -------------------------
(***************************************************************************)
(* Proofs about VecAdapters, for any contents, callbacks and bounds: the   *)
(* operations of a Vec and the diffs; then each adapter as a pure function *)
(* (map, filter, the signals, enumerate, sort); then queues of diffs, the  *)
(* steps and the theorems about the specification.  What they need of Vecs *)
(* and diffs is also what proofs about VecJoins need, which follow: the    *)
(* diffs of a part as diffs of the whole, the polls of chain and of        *)
(* switch_signal_vec, and VecJoins with these two.                         *)
(***************************************************************************)
EXTENDS VecFollows, SequenceTheorems, FiniteSetTheorems, TLAPS

-----------------------------------------------------------------------------
(* What the operations of a Vec make of a sequence, element by element.    *)

\* The sequences of at most n elements.
LEMMA ShortSeqs ==
    ASSUME NEW V, NEW n \in Nat, NEW s
    PROVE  s \in SeqOf(V, n) <=> s \in Seq(V) /\ Len(s) <= n
<1>1. ASSUME s \in SeqOf(V, n) PROVE s \in Seq(V) /\ Len(s) <= n
  BY <1>1 DEF SeqOf
<1>2. ASSUME s \in Seq(V), Len(s) <= n PROVE s \in SeqOf(V, n)
  <2>1. Len(s) \in 0..n BY <1>2, LenProperties
  <2>2. s \in [1..Len(s) -> V] BY <1>2, LenProperties
  <2> QED BY <2>1, <2>2 DEF SeqOf
<1> QED BY <1>1, <1>2

\* Vec::insert.
LEMMA Inserted ==
    ASSUME NEW V, NEW s \in Seq(V), NEW v \in V, NEW i \in 0..Len(s)
    PROVE  /\ VecInsert(s, i, v) \in Seq(V)
           /\ Len(VecInsert(s, i, v)) = Len(s) + 1
           /\ \A p \in 1..(Len(s) + 1) :
                 VecInsert(s, i, v)[p] = IF p <= i THEN s[p]
                                         ELSE IF p = i + 1 THEN v ELSE s[p - 1]
<1> DEFINE a == SubSeq(s, 1, i)
           b == SubSeq(s, i + 1, Len(s))
<1>1. Len(s) \in Nat BY LenProperties
<1>2. /\ a \in Seq(V) /\ Len(a) = i
      /\ \A p \in 1..i : a[p] = s[p]
  BY <1>1, SubSeqProperties, ElementOfSeq
<1>3. /\ b \in Seq(V) /\ Len(b) = Len(s) - i
      /\ \A p \in 1..(Len(s) - i) : b[p] = s[p + i]
  BY <1>1, SubSeqProperties, ElementOfSeq
<1>4. /\ a \o <<v>> \in Seq(V) /\ Len(a \o <<v>>) = i + 1
      /\ \A p \in 1..(i + 1) : (a \o <<v>>)[p] = IF p <= i THEN s[p] ELSE v
  <2>1. <<v>> \in Seq(V) /\ Len(<<v>>) = 1 /\ <<v>>[1] = v OBVIOUS
  <2> HIDE DEF a
  <2> QED BY <1>1, <1>2, <2>1, ConcatProperties
<1>5. VecInsert(s, i, v) = (a \o <<v>>) \o b
  <2>1. (i + 1) - 1 = i OBVIOUS
  <2> QED BY <2>1, Zenon DEF VecInsert, InsertAt
<1> HIDE DEF a, b
<1> DEFINE c == a \o <<v>>
<1>6. c \in Seq(V) BY <1>4
<1>7. /\ c \o b \in Seq(V)
      /\ Len(c \o b) = Len(c) + Len(b)
      /\ \A p \in 1..(Len(c) + Len(b)) :
            (c \o b)[p] = IF p <= Len(c) THEN c[p] ELSE b[p - Len(c)]
  <2> HIDE DEF c
  <2> QED BY <1>3, <1>6, ConcatProperties
<1>8. ASSUME NEW p \in 1..(Len(s) + 1)
      PROVE  (c \o b)[p] = IF p <= i THEN s[p]
                           ELSE IF p = i + 1 THEN v ELSE s[p - 1]
  <2>1. CASE p <= i + 1 BY <1>1, <1>3, <1>4, <1>7, <2>1
  <2>2. CASE p > i + 1
    <3>1. p - (i + 1) \in 1..(Len(s) - i) BY <1>1, <2>2
    <3>2. b[p - (i + 1)] = s[p - (i + 1) + i] BY <1>3, <3>1
    <3> QED BY <1>1, <1>3, <1>4, <1>7, <2>2, <3>2
  <2>3. p <= i + 1 \/ p > i + 1 BY <1>1
  <2> QED BY <2>1, <2>2, <2>3
<1> QED BY <1>1, <1>3, <1>4, <1>5, <1>7, <1>8

\* Vec::remove.
LEMMA Removed ==
    ASSUME NEW V, NEW s \in Seq(V), NEW i \in 0..(Len(s) - 1)
    PROVE  /\ VecRemove(s, i) \in Seq(V)
           /\ Len(VecRemove(s, i)) = Len(s) - 1
           /\ \A p \in 1..(Len(s) - 1) :
                 VecRemove(s, i)[p] = IF p <= i THEN s[p] ELSE s[p + 1]
<1> DEFINE a == SubSeq(s, 1, i)
           b == SubSeq(s, i + 2, Len(s))
<1>1. Len(s) \in Nat BY LenProperties
<1>2. /\ a \in Seq(V) /\ Len(a) = i
      /\ \A p \in 1..i : a[p] = s[p]
  BY <1>1, SubSeqProperties, ElementOfSeq
<1>3. /\ b \in Seq(V) /\ Len(b) = Len(s) - i - 1
      /\ \A p \in 1..(Len(s) - i - 1) : b[p] = s[p + i + 1]
  BY <1>1, SubSeqProperties, ElementOfSeq
<1>4. VecRemove(s, i) = a \o b
  <2>1. (i + 1) - 1 = i /\ (i + 1) + 1 = i + 2 OBVIOUS
  <2> QED BY <2>1, Zenon DEF VecRemove, RemoveAt
<1> HIDE DEF a, b
<1>5. /\ a \o b \in Seq(V)
      /\ Len(a \o b) = Len(a) + Len(b)
      /\ \A p \in 1..(Len(a) + Len(b)) :
            (a \o b)[p] = IF p <= Len(a) THEN a[p] ELSE b[p - Len(a)]
  <2>1. a \in Seq(V) /\ b \in Seq(V) BY <1>2, <1>3
  <2> QED BY <2>1, ConcatProperties
<1>6. ASSUME NEW p \in 1..(Len(s) - 1)
      PROVE  (a \o b)[p] = IF p <= i THEN s[p] ELSE s[p + 1]
  <2>1. CASE p <= i BY <1>1, <1>2, <1>3, <1>5, <2>1
  <2>2. CASE p > i
    <3>1. p - i \in 1..(Len(s) - i - 1) BY <1>1, <2>2
    <3>2. b[p - i] = s[p - i + i + 1] BY <1>3, <3>1
    <3> QED BY <1>1, <1>2, <1>3, <1>5, <2>2, <3>2
  <2>3. p <= i \/ p > i BY <1>1
  <2> QED BY <2>1, <2>2, <2>3
<1> QED BY <1>1, <1>2, <1>3, <1>4, <1>5, <1>6

LEMMA InsertedIs ==
    ASSUME NEW V, NEW s \in Seq(V), NEW v \in V, NEW i \in 0..Len(s)
    PROVE  VecInsert(s, i, v) \in Seq(V) /\ IsInserted(VecInsert(s, i, v), s, i, v)
BY Inserted DEF IsInserted

LEMMA RemovedIs ==
    ASSUME NEW V, NEW s \in Seq(V), NEW i \in 0..(Len(s) - 1)
    PROVE  VecRemove(s, i) \in Seq(V) /\ IsRemoved(VecRemove(s, i), s, i)
BY Removed DEF IsRemoved

\* Vec::pop.
LEMMA Popped ==
    ASSUME NEW V, NEW s \in Seq(V), s # <<>>
    PROVE  /\ VecPop(s) \in Seq(V)
           /\ Len(VecPop(s)) = Len(s) - 1
           /\ VecPop(s) = VecRemove(s, Len(s) - 1)
<1>1. Len(s) \in Nat \ {0} BY EmptySeq, LenProperties
<1>2. /\ VecPop(s) \in Seq(V) /\ Len(VecPop(s)) = Len(s) - 1
      /\ \A p \in 1..(Len(s) - 1) : VecPop(s)[p] = s[p]
  <2> PICK n \in Nat : n = Len(s) - 1 BY <1>1
  <2> DEFINE a == SubSeq(s, 1, n)
  <2>1. /\ a \in Seq(V) /\ Len(a) = Len(s) - 1
        /\ \A p \in 1..(Len(s) - 1) : a[p] = s[p]
    BY <1>1, SubSeqProperties, ElementOfSeq
  <2>2. VecPop(s) = a BY DEF VecPop, Front
  <2> QED BY <2>1, <2>2
<1>3. /\ VecRemove(s, Len(s) - 1) \in Seq(V)
      /\ Len(VecRemove(s, Len(s) - 1)) = Len(s) - 1
      /\ \A p \in 1..(Len(s) - 1) : VecRemove(s, Len(s) - 1)[p] = s[p]
  BY <1>1, Removed
<1>4. VecPop(s) = VecRemove(s, Len(s) - 1) BY <1>1, <1>2, <1>3, SeqEqual
<1> QED BY <1>2, <1>4

-----------------------------------------------------------------------------
(* Diffs.                                                                  *)

\* What each diff does, and when it does not panic.
LEMMA ApplyReplace ==
    ASSUME NEW vs, NEW s
    PROVE  Applicable(ReplaceDiff(vs), s) /\ Apply(ReplaceDiff(vs), s) = vs
<1>1. ReplaceDiff(vs).op = "Replace" /\ ReplaceDiff(vs).values = vs
  BY DEF ReplaceDiff
<1> QED BY <1>1, Zenon DEF Applicable, Apply

LEMMA ApplyInsert ==
    ASSUME NEW i, NEW v, NEW s
    PROVE  /\ Applicable(InsertDiff(i, v), s) <=> i \in 0..Len(s)
           /\ Apply(InsertDiff(i, v), s) = VecInsert(s, i, v)
<1>1. /\ InsertDiff(i, v).op = "InsertAt"
      /\ InsertDiff(i, v).index = i /\ InsertDiff(i, v).value = v
  BY DEF InsertDiff
<1> QED BY <1>1, Zenon DEF Applicable, Apply

LEMMA ApplyUpdate ==
    ASSUME NEW i, NEW v, NEW s
    PROVE  /\ Applicable(UpdateDiff(i, v), s) <=> i \in 0..(Len(s) - 1)
           /\ Apply(UpdateDiff(i, v), s) = ReplaceAt(s, i + 1, v)
<1>1. /\ UpdateDiff(i, v).op = "UpdateAt"
      /\ UpdateDiff(i, v).index = i /\ UpdateDiff(i, v).value = v
  BY DEF UpdateDiff
<1> QED BY <1>1, Zenon DEF Applicable, Apply

LEMMA ApplyRemove ==
    ASSUME NEW i, NEW s
    PROVE  /\ Applicable(RemoveDiff(i), s) <=> i \in 0..(Len(s) - 1)
           /\ Apply(RemoveDiff(i), s) = VecRemove(s, i)
<1>1. RemoveDiff(i).op = "RemoveAt" /\ RemoveDiff(i).index = i
  BY DEF RemoveDiff
<1> QED BY <1>1, Zenon DEF Applicable, Apply

LEMMA ApplyMove ==
    ASSUME NEW i, NEW j, NEW s
    PROVE  /\ Applicable(MoveDiff(i, j), s) <=> {i, j} \subseteq 0..(Len(s) - 1)
           /\ Apply(MoveDiff(i, j), s) = VecMove(s, i, j)
<1>1. /\ MoveDiff(i, j).op = "Move"
      /\ MoveDiff(i, j).old = i /\ MoveDiff(i, j).new = j
  BY DEF MoveDiff
<1> QED BY <1>1, Zenon DEF Applicable, Apply

LEMMA ApplyPush ==
    ASSUME NEW v, NEW s
    PROVE  Applicable(PushDiff(v), s) /\ Apply(PushDiff(v), s) = Append(s, v)
<1>1. PushDiff(v).op = "Push" /\ PushDiff(v).value = v BY DEF PushDiff
<1> QED BY <1>1, Zenon DEF Applicable, Apply

LEMMA ApplyPop ==
    ASSUME NEW s
    PROVE  /\ Applicable(PopDiff, s) <=> s # <<>>
           /\ Apply(PopDiff, s) = VecPop(s)
<1>1. PopDiff.op = "Pop" BY DEF PopDiff
<1> QED BY <1>1, Zenon DEF Applicable, Apply

LEMMA ApplyClear ==
    ASSUME NEW s
    PROVE  Applicable(ClearDiff, s) /\ Apply(ClearDiff, s) = <<>>
<1>1. ClearDiff.op = "Clear" BY DEF ClearDiff
<1> QED BY <1>1, Zenon DEF Applicable, Apply

-----------------------------------------------------------------------------
(* Counting.                                                               *)

\* Every set of naturals that is not empty has a least element.
LEMMA LeastNat ==
    ASSUME NEW S \in SUBSET Nat, S # {}
    PROVE  \E n \in S : \A k \in S : ~(k < n)
<1> DEFINE R == {p \in Nat \X Nat : p[1] < p[2]}
<1>1. IsWellFoundedOn(R, Nat) BY NatLessThanWellFounded DEF OpToRel
<1> HIDE DEF R
<1>2. PICK n \in S : \A k \in S : ~(<<k, n>> \in R) BY <1>1, WFMin
<1>3. \A k \in S : ~(k < n) BY <1>2 DEF R
<1> QED BY <1>3

\* The counts lie between none and all.
LEMMA CountIs ==
    ASSUME NEW N \in Nat, NEW S \in SUBSET (1..N)
    PROVE  /\ IsFiniteSet(S) /\ Cardinality(S) \in 0..N
           /\ \A n \in Nat : UpTo(S, n) \in 0..Cardinality(S)
           /\ UpTo(S, 0) = 0
           /\ UpTo(S, N) = Cardinality(S)
<1>1. IsFiniteSet(1..N) /\ Cardinality(1..N) = N BY FS_Interval
<1>2. IsFiniteSet(S) /\ Cardinality(S) <= N BY <1>1, FS_Subset
<1>3. Cardinality(S) \in Nat BY <1>2, FS_CardinalityType
<1>4. ASSUME NEW n \in Nat PROVE UpTo(S, n) \in 0..Cardinality(S)
  <2> DEFINE T == {j \in S : j <= n}
  <2>1. IsFiniteSet(T) /\ Cardinality(T) <= Cardinality(S) BY <1>2, FS_Subset
  <2>2. Cardinality(T) \in Nat BY <2>1, FS_CardinalityType
  <2>3. UpTo(S, n) = Cardinality(T) BY DEF UpTo
  <2> HIDE DEF T
  <2> QED BY <1>3, <2>1, <2>2, <2>3
<1>5. UpTo(S, 0) = 0
  <2>1. \A j \in S : j \in 1..N /\ ~(j <= 0) OBVIOUS
  <2>2. {j \in S : j <= 0} = {} BY <2>1
  <2> QED BY <2>2, FS_EmptySet DEF UpTo
<1>6. UpTo(S, N) = Cardinality(S)
  <2>1. \A j \in S : j \in 1..N /\ j <= N OBVIOUS
  <2>2. {j \in S : j <= N} = S BY <2>1
  <2> QED BY <2>2 DEF UpTo
<1> QED BY <1>2, <1>3, <1>4, <1>5, <1>6

\* The count grows by one at each element.
LEMMA CountStep ==
    ASSUME NEW N \in Nat, NEW S \in SUBSET (1..N), NEW n \in Nat \ {0}
    PROVE  UpTo(S, n) = IF n \in S THEN UpTo(S, n - 1) + 1 ELSE UpTo(S, n - 1)
<1> DEFINE T == {j \in S : j <= n - 1}
<1>1. IsFiniteSet(S) BY CountIs
<1>2. IsFiniteSet(T) BY <1>1, FS_Subset
<1> DEFINE U == {j \in S : j <= n}
<1>5. \A j \in S : j <= n <=> (j <= n - 1 \/ j = n)
  <2>1. \A j \in S : j \in Nat OBVIOUS
  <2> QED BY <2>1
<1>3. CASE n \in S
  <2>1. U = T \cup {n} BY <1>3, <1>5
  <2>2. n \notin T OBVIOUS
  <2>3. Cardinality(T \cup {n}) = Cardinality(T) + 1 BY <1>2, <2>2, FS_AddElement
  <2>4. Cardinality(U) = Cardinality(T) + 1 BY <2>1, <2>3
  <2> QED BY <1>3, <2>4 DEF UpTo
<1>4. CASE n \notin S
  <2>1. U = T BY <1>4, <1>5
  <2> QED BY <1>4, <2>1 DEF UpTo
<1> QED BY <1>3, <1>4

\* A function that grows by one at each element counts them.
LEMMA CountFrom ==
    ASSUME NEW N \in Nat, NEW S \in SUBSET (1..N), NEW g \in [0..N -> Nat],
           g[0] = 0,
           \A n \in 1..N : g[n] = IF n \in S THEN g[n - 1] + 1 ELSE g[n - 1]
    PROVE  \A n \in 0..N : UpTo(S, n) = g[n]
<1> DEFINE wrong == {n \in 0..N : UpTo(S, n) # g[n]}
<1> SUFFICES ASSUME wrong # {} PROVE FALSE OBVIOUS
<1>7. wrong \in SUBSET Nat OBVIOUS
<1>1. PICK n \in wrong : \A k \in wrong : ~(k < n) BY <1>7, LeastNat
<1>2. n \in 0..N /\ UpTo(S, n) # g[n] BY <1>1
<1>3. n # 0 BY <1>2, CountIs
<1>4. n - 1 \notin wrong BY <1>1, <1>2, <1>3
<1>5. UpTo(S, n - 1) = g[n - 1] BY <1>2, <1>3, <1>4
<1>6. UpTo(S, n) = IF n \in S THEN UpTo(S, n - 1) + 1 ELSE UpTo(S, n - 1)
  <2>1. n \in Nat \ {0} BY <1>2, <1>3
  <2> HIDE DEF wrong
  <2> QED BY <2>1, CountStep
<1> QED BY <1>2, <1>3, <1>5, <1>6

\* The count never falls, and is greater at an element than before it.
LEMMA CountGrows ==
    ASSUME NEW N \in Nat, NEW S \in SUBSET (1..N), NEW m \in Nat, NEW n \in Nat,
           m <= n
    PROVE  /\ UpTo(S, m) <= UpTo(S, n)
           /\ n \in S /\ m < n => UpTo(S, m) < UpTo(S, n)
<1> DEFINE a == {j \in S : j <= m}
           b == {j \in S : j <= n}
<1>1. IsFiniteSet(b) BY CountIs, FS_Subset
<1>2. a \subseteq b
  <2>1. \A j \in S : j <= m => j <= n OBVIOUS
  <2> QED BY <2>1
<1>3. IsFiniteSet(a) /\ Cardinality(a) <= Cardinality(b) BY <1>1, <1>2, FS_Subset
<1>4. ASSUME n \in S, m < n PROVE Cardinality(a) # Cardinality(b)
  <2>1. n \in b /\ n \notin a BY <1>4
  <2> QED BY <1>1, <1>2, <2>1, FS_Subset
<1>5. Cardinality(a) \in Nat /\ Cardinality(b) \in Nat
  BY <1>1, <1>3, FS_CardinalityType
<1>6. UpTo(S, m) = Cardinality(a) /\ UpTo(S, n) = Cardinality(b) BY DEF UpTo
<1> HIDE DEF a, b
<1> QED BY <1>3, <1>4, <1>5, <1>6

\* Each number up to that of all elements is the count at an element.
LEMMA CountOnto ==
    ASSUME NEW N \in Nat, NEW S \in SUBSET (1..N), NEW p \in 1..Cardinality(S)
    PROVE  \E i \in S : UpTo(S, i) = p
<1> DEFINE enough == {n \in Nat : p <= UpTo(S, n)}
<1>1. Cardinality(S) \in Nat /\ N \in enough BY CountIs
<1>2. PICK n \in enough : \A k \in enough : ~(k < n) BY <1>1, LeastNat
<1>3. n \in Nat \ {0} BY <1>1, <1>2, CountIs
<1>4. n - 1 \in Nat /\ n - 1 \notin enough BY <1>2, <1>3
<1>5. UpTo(S, n) \in Nat /\ UpTo(S, n - 1) \in Nat BY <1>1, <1>3, <1>4, CountIs
<1>6. UpTo(S, n) = IF n \in S THEN UpTo(S, n - 1) + 1 ELSE UpTo(S, n - 1)
  BY <1>3, CountStep
<1>7. p <= UpTo(S, n) /\ ~(p <= UpTo(S, n - 1)) BY <1>2, <1>4
<1> HIDE DEF enough
<1> QED BY <1>1, <1>5, <1>6, <1>7

-----------------------------------------------------------------------------
(* Updates are removals and insertions, pushes insertions, pops removals.  *)

SameAsReplaced(s, i, v) ==
    ReplaceAt(s, i + 1, v) = VecInsert(VecRemove(s, i), i, v)

LEMMA Replaced ==
    ASSUME NEW V, NEW s \in Seq(V), NEW i \in 0..(Len(s) - 1), NEW v \in V
    PROVE  /\ ReplaceAt(s, i + 1, v) \in Seq(V)
           /\ Len(ReplaceAt(s, i + 1, v)) = Len(s)
           /\ \A p \in 1..Len(s) :
                 ReplaceAt(s, i + 1, v)[p] = IF p = i + 1 THEN v ELSE s[p]
           /\ SameAsReplaced(s, i, v)
<1> DEFINE r == VecRemove(s, i)
           t == VecInsert(r, i, v)
           u == ReplaceAt(s, i + 1, v)
<1>1. Len(s) \in Nat BY LenProperties
<1>2. /\ u \in Seq(V) /\ Len(u) = Len(s)
      /\ \A p \in 1..Len(s) : u[p] = IF p = i + 1 THEN v ELSE s[p]
  BY <1>1 DEF ReplaceAt
<1>3. /\ r \in Seq(V) /\ Len(r) = Len(s) - 1
      /\ \A p \in 1..(Len(s) - 1) : r[p] = IF p <= i THEN s[p] ELSE s[p + 1]
  BY Removed
<1> HIDE DEF r
<1>4. i \in 0..Len(r) BY <1>1, <1>3
<1>5. /\ t \in Seq(V) /\ Len(t) = Len(r) + 1
      /\ \A p \in 1..(Len(r) + 1) :
            t[p] = IF p <= i THEN r[p] ELSE IF p = i + 1 THEN v ELSE r[p - 1]
  BY <1>3, <1>4, Inserted
<1> HIDE DEF t, u
<1>6. ASSUME NEW p \in 1..Len(s) PROVE u[p] = t[p]
  <2>1. CASE p <= i BY <1>1, <1>2, <1>3, <1>5, <2>1
  <2>2. CASE p = i + 1 BY <1>1, <1>2, <1>3, <1>5, <2>2
  <2>3. CASE p > i + 1
    <3>1. p - 1 \in 1..(Len(s) - 1) /\ ~(p - 1 <= i) /\ p - 1 + 1 = p
      BY <1>1, <2>3
    <3>2. r[p - 1] = s[p] BY <1>3, <3>1
    <3> QED BY <1>1, <1>2, <1>3, <1>5, <2>3, <3>2
  <2> QED BY <1>1, <2>1, <2>2, <2>3
<1>7. u = t BY <1>1, <1>2, <1>3, <1>5, <1>6, SeqEqual
<1> QED BY <1>2, <1>7 DEF u, t, r, SameAsReplaced

LEMMA Pushed ==
    ASSUME NEW V, NEW s \in Seq(V), NEW v \in V
    PROVE  /\ Append(s, v) \in Seq(V)
           /\ Len(Append(s, v)) = Len(s) + 1
           /\ Append(s, v) = VecInsert(s, Len(s), v)
<1> DEFINE a == Append(s, v)
           t == VecInsert(s, Len(s), v)
<1>1. Len(s) \in Nat BY LenProperties
<1>2. /\ a \in Seq(V) /\ Len(a) = Len(s) + 1
      /\ \A p \in 1..Len(s) : a[p] = s[p]
      /\ a[Len(s) + 1] = v
  BY AppendProperties
<1>3. /\ t \in Seq(V) /\ Len(t) = Len(s) + 1
      /\ \A p \in 1..(Len(s) + 1) :
            t[p] = IF p <= Len(s) THEN s[p]
                   ELSE IF p = Len(s) + 1 THEN v ELSE s[p - 1]
  <2>1. PICK n \in 0..Len(s) : n = Len(s) BY <1>1
  <2>2. /\ VecInsert(s, n, v) \in Seq(V) /\ Len(VecInsert(s, n, v)) = Len(s) + 1
        /\ \A p \in 1..(Len(s) + 1) :
              VecInsert(s, n, v)[p] = IF p <= n THEN s[p]
                                      ELSE IF p = n + 1 THEN v ELSE s[p - 1]
    BY Inserted
  <2> QED BY <2>1, <2>2
<1> HIDE DEF a, t
<1>4. a = t BY <1>1, <1>2, <1>3, SeqEqual
<1> QED BY <1>2, <1>4 DEF a, t

-----------------------------------------------------------------------------
(* What filter lets through.                                               *)

LEMMA PassingIs ==
    ASSUME NEW V, NEW s \in Seq(V), NEW keep
    PROVE  /\ Len(s) \in Nat /\ DOMAIN s = 1..Len(s)
           /\ Passing(s, keep) \in SUBSET (1..Len(s))
           /\ \A i \in 1..Len(s) : i \in Passing(s, keep) <=> s[i] \in keep
<1>1. Len(s) \in Nat /\ DOMAIN s = 1..Len(s) BY LenProperties
<1> QED BY <1>1 DEF Passing

\* find_index in the indexes that filter keeps.
LEMMA FindIs ==
    ASSUME NEW V, NEW s \in Seq(V), NEW keep, NEW n \in 0..Len(s)
    PROVE  FindIndex([i \in DOMAIN s |-> s[i] \in keep], n)
              = UpTo(Passing(s, keep), n)
<1> DEFINE flags == [i \in DOMAIN s |-> s[i] \in keep]
           a == {i \in 1..n : flags[i]}
           b == {j \in Passing(s, keep) : j <= n}
<1>1. Len(s) \in Nat /\ DOMAIN s = 1..Len(s) BY PassingIs
<1>2. \A i \in 1..Len(s) : flags[i] <=> i \in Passing(s, keep)
  BY <1>1 DEF Passing
<1>3. Passing(s, keep) \in SUBSET (1..Len(s)) BY PassingIs
<1> HIDE DEF flags
<1>4. \A i : i \in a <=> i \in b
  <2>1. \A i \in 1..n : i \in 1..Len(s) /\ i <= n BY <1>1
  <2>2. \A i \in Passing(s, keep) : i <= n => i \in 1..n BY <1>1, <1>3
  <2>3. ASSUME NEW i \in 1..n PROVE flags[i] <=> i \in Passing(s, keep)
    BY <1>2, <2>1
  <2>4. ASSUME NEW i \in a PROVE i \in b BY <2>1, <2>3
  <2>5. ASSUME NEW i \in b PROVE i \in a BY <1>3, <2>2, <2>3
  <2> QED BY <2>4, <2>5, Zenon
<1>5. a = b BY <1>4
<1> QED BY <1>5, Zenon DEF FindIndex, UpTo, flags

\* The values that pass are at their places.
LEMMA PassedMatch ==
    ASSUME NEW V, NEW s \in Seq(V), NEW keep
    PROVE  Passed(s, keep) \in Seq(V) /\ Matches(Passed(s, keep), s, keep)
<1> DEFINE P == Passing(s, keep)
           at(p) == CHOOSE i \in P : UpTo(P, i) = p
           w == [p \in 1..Cardinality(P) |-> s[at(p)]]
<1>1. Passed(s, keep) = w BY Zenon DEF Passed, Passing, UpTo
<1>2. /\ Len(s) \in Nat /\ P \in SUBSET (1..Len(s))
      /\ \A i \in P : s[i] \in V
  BY PassingIs, ElementOfSeq
<1>3. Cardinality(P) \in Nat /\ \A i \in P : UpTo(P, i) \in 1..Cardinality(P)
  <2> HIDE DEF P
  <2>1. /\ Cardinality(P) \in Nat
        /\ \A i \in Nat : UpTo(P, i) \in 0..Cardinality(P)
        /\ UpTo(P, 0) = 0
    BY <1>2, CountIs
  <2>2. ASSUME NEW i \in P PROVE UpTo(P, i) \in 1..Cardinality(P)
    <3>1. i \in Nat /\ 0 \in Nat /\ 0 <= i /\ 0 < i BY <1>2
    <3>2. UpTo(P, 0) < UpTo(P, i) BY <1>2, <3>1, CountGrows
    <3> QED BY <2>1, <3>1, <3>2
  <2> QED BY <2>1, <2>2
<1>4. \A p \in 1..Cardinality(P) : \E i \in P : UpTo(P, i) = p
  <2> HIDE DEF P
  <2> QED BY <1>2, CountOnto
<1>5. \A p \in 1..Cardinality(P) : at(p) \in P /\ UpTo(P, at(p)) = p
  <2> HIDE DEF P
  <2> QED BY <1>4
<1> HIDE DEF P, at
<1>6. w \in Seq(V) /\ Len(w) = Cardinality(P)
  <2>1. \A p \in 1..Cardinality(P) : s[at(p)] \in V BY <1>2, <1>5
  <2> QED BY <1>3, <2>1
<1>7. ASSUME NEW i \in P PROVE w[UpTo(P, i)] = s[i]
  <2>1. UpTo(P, i) \in 1..Cardinality(P) BY <1>3
  <2>2. /\ at(UpTo(P, i)) \in P
        /\ UpTo(P, at(UpTo(P, i))) = UpTo(P, i)
    BY <1>5, <2>1
  <2>3. at(UpTo(P, i)) = i
    <3> PICK k \in P : k = at(UpTo(P, i)) BY <2>2
    <3>1. k \in Nat /\ i \in Nat /\ UpTo(P, k) = UpTo(P, i) BY <1>2, <2>2
    <3>2. ASSUME k < i PROVE UpTo(P, k) < UpTo(P, i)
      <4>1. k <= i BY <3>1, <3>2
      <4> QED BY <1>2, <3>1, <3>2, <4>1, CountGrows
    <3>3. ASSUME i < k PROVE UpTo(P, i) < UpTo(P, k)
      <4>1. i <= k BY <3>1, <3>3
      <4> QED BY <1>2, <3>1, <3>3, <4>1, CountGrows
    <3>4. UpTo(P, i) \in Int BY <2>1
    <3> QED BY <3>1, <3>2, <3>3, <3>4
  <2> QED BY <2>1, <2>3
<1> HIDE DEF w
<1> QED BY <1>1, <1>6, <1>7 DEF Matches, P

\* No other sequence has them there.
LEMMA MatchIsPassed ==
    ASSUME NEW V, NEW s \in Seq(V), NEW keep, NEW w \in Seq(V),
           Matches(w, s, keep)
    PROVE  w = Passed(s, keep)
<1> DEFINE P == Passing(s, keep)
           u == Passed(s, keep)
<1>1. u \in Seq(V) /\ Matches(u, s, keep) BY PassedMatch
<1>2. Len(s) \in Nat /\ P \in SUBSET (1..Len(s)) BY PassingIs
<1> HIDE DEF P, u
<1>3. Len(w) = Cardinality(P) /\ Len(u) = Cardinality(P) BY <1>1 DEF Matches, P
<1>4. ASSUME NEW p \in 1..Cardinality(P) PROVE w[p] = u[p]
  <2>1. PICK i \in P : UpTo(P, i) = p BY <1>2, CountOnto
  <2>2. w[UpTo(P, i)] = s[i] /\ u[UpTo(P, i)] = s[i] BY <1>1 DEF Matches, P
  <2> QED BY <2>1, <2>2
<1> QED BY <1>1, <1>3, <1>4, SeqEqual DEF u

\* How many values pass up to each place after an insertion.
LEMMA CountInserted ==
    ASSUME NEW V, NEW s \in Seq(V), NEW v \in V, NEW i \in 0..Len(s), NEW keep,
           NEW t, t = VecInsert(s, i, v), NEW P, P = Passing(s, keep),
           NEW Q, Q = Passing(t, keep)
    PROVE  /\ \A n \in 0..(Len(s) + 1) :
                 UpTo(Q, n) = IF n <= i THEN UpTo(P, n)
                              ELSE IF v \in keep THEN UpTo(P, n - 1) + 1
                              ELSE UpTo(P, n - 1)
           /\ Cardinality(Q) = IF v \in keep THEN Cardinality(P) + 1
                                             ELSE Cardinality(P)
<1>1. /\ t \in Seq(V) /\ Len(t) = Len(s) + 1
      /\ \A p \in 1..(Len(s) + 1) :
            t[p] = IF p <= i THEN s[p] ELSE IF p = i + 1 THEN v ELSE s[p - 1]
  <2>1. t \in Seq(V) /\ IsInserted(t, s, i, v) BY InsertedIs
  <2> QED BY <2>1 DEF IsInserted
<1>2. /\ Len(s) \in Nat /\ P \in SUBSET (1..Len(s))
      /\ \A p \in 1..Len(s) : p \in P <=> s[p] \in keep
  BY PassingIs
<1>3. /\ Q \in SUBSET (1..(Len(s) + 1))
      /\ \A p \in 1..(Len(s) + 1) : p \in Q <=> t[p] \in keep
  BY <1>1, PassingIs
<1>4. /\ \A n \in Nat : UpTo(P, n) \in Nat
      /\ UpTo(P, 0) = 0
      /\ UpTo(P, Len(s)) = Cardinality(P)
  BY <1>2, CountIs
<1>5. \A n \in Nat \ {0} :
        UpTo(P, n) = IF n \in P THEN UpTo(P, n - 1) + 1 ELSE UpTo(P, n - 1)
  BY <1>2, CountStep
<1> DEFINE g == [n \in 0..(Len(s) + 1) |->
                    IF n <= i THEN UpTo(P, n)
                    ELSE IF v \in keep THEN UpTo(P, n - 1) + 1
                    ELSE UpTo(P, n - 1)]
<1>6. g \in [0..(Len(s) + 1) -> Nat]
  <2> SUFFICES ASSUME NEW n \in 0..(Len(s) + 1)
               PROVE  (IF n <= i THEN UpTo(P, n)
                       ELSE IF v \in keep THEN UpTo(P, n - 1) + 1
                       ELSE UpTo(P, n - 1)) \in Nat
    OBVIOUS
  <2>1. CASE n <= i BY <1>2, <1>4, <2>1
  <2>2. CASE ~(n <= i)
    <3>1. n - 1 \in Nat BY <1>2, <2>2
    <3>2. UpTo(P, n - 1) \in Nat BY <1>4, <3>1
    <3> QED BY <2>2, <3>2
  <2> QED BY <2>1, <2>2
<1>7. g[0] = 0 BY <1>2, <1>4
<1>8. ASSUME NEW n \in 1..(Len(s) + 1)
      PROVE  g[n] = IF n \in Q THEN g[n - 1] + 1 ELSE g[n - 1]
  <2>1. CASE n <= i
    <3>1. n \in 1..Len(s) /\ n \in Nat \ {0} /\ n - 1 \in 0..(Len(s) + 1)
      BY <1>2, <2>1
    <3>2. t[n] = s[n] BY <1>1, <2>1
    <3>3. n \in Q <=> n \in P BY <1>2, <1>3, <3>1, <3>2
    <3>4. g[n] = UpTo(P, n) /\ g[n - 1] = UpTo(P, n - 1) BY <2>1, <3>1
    <3> HIDE DEF g
    <3> QED BY <1>5, <3>1, <3>3, <3>4
  <2>2. CASE n = i + 1
    <3>1. n - 1 \in 0..(Len(s) + 1) /\ n - 1 = i /\ n - 1 <= i /\ ~(n <= i)
      BY <1>2, <2>2
    <3>2. t[n] = v BY <1>1, <2>2
    <3>3. n \in Q <=> v \in keep BY <1>3, <3>2
    <3>4. /\ g[n - 1] = UpTo(P, n - 1)
          /\ g[n] = IF v \in keep THEN UpTo(P, n - 1) + 1 ELSE UpTo(P, n - 1)
      BY <3>1
    <3> HIDE DEF g
    <3> QED BY <3>3, <3>4
  <2>3. CASE n > i + 1
    <3>1. /\ n - 1 \in 1..Len(s) /\ n - 1 \in Nat \ {0} /\ ~(n - 1 <= i)
          /\ ~(n <= i) /\ n - 1 \in 0..(Len(s) + 1)
      BY <1>2, <2>3
    <3>2. t[n] = s[n - 1] BY <1>1, <1>2, <2>3
    <3>3. n \in Q <=> n - 1 \in P BY <1>2, <1>3, <3>1, <3>2
    <3> DEFINE a == UpTo(P, n - 1)
               b == UpTo(P, n - 1 - 1)
    <3>4. /\ g[n - 1] = IF v \in keep THEN b + 1 ELSE b
          /\ g[n] = IF v \in keep THEN a + 1 ELSE a
      BY <3>1
    <3>5. a = IF n - 1 \in P THEN b + 1 ELSE b BY <1>5, <3>1
    <3>6. b \in Nat
      <4>1. n - 1 - 1 \in Nat BY <3>1
      <4> QED BY <1>4, <4>1
    <3> HIDE DEF g, a, b
    <3> QED BY <3>3, <3>4, <3>5, <3>6
  <2> QED BY <1>2, <2>1, <2>2, <2>3
<1> HIDE DEF g
<1>9. \A n \in 0..(Len(s) + 1) : UpTo(Q, n) = g[n]
  <2>1. Len(s) + 1 \in Nat BY <1>2
  <2> QED BY <1>3, <1>6, <1>7, <1>8, <2>1, CountFrom
<1>10. \A n \in 0..(Len(s) + 1) :
          UpTo(Q, n) = IF n <= i THEN UpTo(P, n)
                       ELSE IF v \in keep THEN UpTo(P, n - 1) + 1
                       ELSE UpTo(P, n - 1)
  BY <1>9 DEF g
<1>11. Cardinality(Q) = UpTo(Q, Len(s) + 1)
  <2>1. Len(s) + 1 \in Nat BY <1>2
  <2> QED BY <1>3, <2>1, CountIs
<1>12. /\ Len(s) + 1 \in 0..(Len(s) + 1) /\ ~(Len(s) + 1 <= i)
       /\ Len(s) + 1 - 1 = Len(s)
  BY <1>2
<1>13. UpTo(Q, Len(s) + 1) = IF v \in keep THEN UpTo(P, Len(s)) + 1
                             ELSE UpTo(P, Len(s))
  BY <1>10, <1>12
<1> QED BY <1>4, <1>10, <1>11, <1>13

\* And after a removal.
LEMMA CountRemoved ==
    ASSUME NEW V, NEW s \in Seq(V), NEW i \in 0..(Len(s) - 1), NEW keep,
           NEW t, t = VecRemove(s, i), NEW P, P = Passing(s, keep),
           NEW Q, Q = Passing(t, keep)
    PROVE  /\ \A n \in 0..(Len(s) - 1) :
                 UpTo(Q, n) = IF n <= i THEN UpTo(P, n)
                              ELSE IF s[i + 1] \in keep THEN UpTo(P, n + 1) - 1
                              ELSE UpTo(P, n + 1)
           /\ Cardinality(Q) = IF s[i + 1] \in keep THEN Cardinality(P) - 1
                                                    ELSE Cardinality(P)
<1> PICK v \in V : v = s[i + 1] BY ElementOfSeq, LenProperties
<1>1. /\ t \in Seq(V) /\ Len(t) = Len(s) - 1
      /\ \A p \in 1..(Len(s) - 1) : t[p] = IF p <= i THEN s[p] ELSE s[p + 1]
  BY Removed
<1>2. /\ Len(s) \in Nat /\ P \in SUBSET (1..Len(s))
  BY PassingIs
<1>3. i \in 0..Len(t) /\ Len(t) + 1 = Len(s) BY <1>1, <1>2
<1>4. VecInsert(t, i, v) = s
  <2>1. /\ VecInsert(t, i, v) \in Seq(V) /\ Len(VecInsert(t, i, v)) = Len(s)
        /\ \A p \in 1..Len(s) :
              VecInsert(t, i, v)[p] = IF p <= i THEN t[p]
                                      ELSE IF p = i + 1 THEN v ELSE t[p - 1]
    <3>1. t \in Seq(V) /\ i \in 0..Len(t) BY <1>1, <1>3
    <3>2. /\ VecInsert(t, i, v) \in Seq(V)
          /\ IsInserted(VecInsert(t, i, v), t, i, v)
      BY <3>1, InsertedIs
    <3> QED BY <1>3, <3>2 DEF IsInserted
  <2>2. ASSUME NEW p \in 1..Len(s) PROVE VecInsert(t, i, v)[p] = s[p]
    <3>1. CASE p <= i
      <4>1. p \in 1..(Len(s) - 1) BY <1>2, <3>1
      <4> QED BY <1>1, <2>1, <3>1, <4>1
    <3>2. CASE p = i + 1
      <4>1. ~(p <= i) BY <1>2, <3>2
      <4> QED BY <2>1, <3>2, <4>1
    <3>3. CASE p > i + 1
      <4>1. p - 1 \in 1..(Len(s) - 1) /\ ~(p - 1 <= i) /\ p - 1 + 1 = p
            /\ ~(p <= i) /\ p # i + 1
        BY <1>2, <3>3
      <4>2. t[p - 1] = s[p] BY <1>1, <4>1
      <4> QED BY <2>1, <4>1, <4>2
    <3> QED BY <1>2, <3>1, <3>2, <3>3
  <2> QED BY <2>1, <2>2, SeqEqual
<1>5. /\ \A n \in 0..Len(s) :
            UpTo(P, n) = IF n <= i THEN UpTo(Q, n)
                         ELSE IF v \in keep THEN UpTo(Q, n - 1) + 1
                         ELSE UpTo(Q, n - 1)
      /\ Cardinality(P) = IF v \in keep THEN Cardinality(Q) + 1
                                        ELSE Cardinality(Q)
  <2>1. /\ \A n \in 0..(Len(t) + 1) :
              UpTo(P, n) = IF n <= i THEN UpTo(Q, n)
                           ELSE IF v \in keep THEN UpTo(Q, n - 1) + 1
                           ELSE UpTo(Q, n - 1)
        /\ Cardinality(P) = IF v \in keep THEN Cardinality(Q) + 1
                                          ELSE Cardinality(Q)
    BY <1>1, <1>3, <1>4, CountInserted
  <2> QED BY <1>3, <2>1
<1>6. Len(t) \in Nat /\ Q \in SUBSET (1..Len(t)) BY <1>1, PassingIs
<1>7. Cardinality(Q) \in Nat /\ \A n \in Nat : UpTo(Q, n) \in Nat BY <1>6, CountIs
<1>8. ASSUME NEW n \in 0..(Len(s) - 1)
      PROVE  UpTo(Q, n) = IF n <= i THEN UpTo(P, n)
                          ELSE IF v \in keep THEN UpTo(P, n + 1) - 1
                          ELSE UpTo(P, n + 1)
  <2>1. CASE n <= i
    <3>1. n \in 0..Len(s) BY <1>2
    <3> QED BY <1>5, <2>1, <3>1
  <2>2. CASE ~(n <= i)
    <3>1. n + 1 \in 0..Len(s) /\ ~(n + 1 <= i) /\ n + 1 - 1 = n /\ n \in Nat
      BY <1>2, <2>2
    <3>2. UpTo(P, n + 1) = IF v \in keep THEN UpTo(Q, n) + 1 ELSE UpTo(Q, n)
      BY <1>5, <3>1
    <3>3. UpTo(Q, n) \in Nat BY <1>7, <3>1
    <3> QED BY <2>2, <3>2, <3>3
  <2> QED BY <2>1, <2>2
<1>9. Cardinality(Q) = IF v \in keep THEN Cardinality(P) - 1 ELSE Cardinality(P)
  BY <1>5, <1>7
<1> QED BY <1>8, <1>9

\* An insertion is let through at the count of its place, or not at all.
LEMMA MatchInserted ==
    ASSUME NEW V, NEW s \in Seq(V), NEW v \in V, NEW i \in 0..Len(s), NEW keep,
           NEW w \in Seq(V), Matches(w, s, keep)
    PROVE  /\ UpTo(Passing(s, keep), i) \in 0..Len(w)
           /\ v \in keep =>
                 Matches(VecInsert(w, UpTo(Passing(s, keep), i), v),
                         VecInsert(s, i, v), keep)
           /\ v \notin keep => Matches(w, VecInsert(s, i, v), keep)
<1> DEFINE t == VecInsert(s, i, v)
           P == Passing(s, keep)
           Q == Passing(t, keep)
           at == UpTo(P, i)
           x == VecInsert(w, at, v)
<1>1. /\ t \in Seq(V) /\ Len(t) = Len(s) + 1
      /\ \A p \in 1..(Len(s) + 1) :
            t[p] = IF p <= i THEN s[p] ELSE IF p = i + 1 THEN v ELSE s[p - 1]
  <2>1. t \in Seq(V) /\ IsInserted(t, s, i, v) BY InsertedIs
  <2> HIDE DEF t
  <2> QED BY <2>1 DEF IsInserted
<1>2. /\ Len(s) \in Nat /\ P \in SUBSET (1..Len(s))
      /\ \A p \in 1..Len(s) : p \in P <=> s[p] \in keep
  BY PassingIs
<1>3. /\ Q \in SUBSET (1..(Len(s) + 1))
      /\ \A p \in 1..(Len(s) + 1) : p \in Q <=> t[p] \in keep
  <2> HIDE DEF t
  <2> QED BY <1>1, PassingIs
<1>4. /\ \A n \in 0..(Len(s) + 1) :
            UpTo(Q, n) = IF n <= i THEN UpTo(P, n)
                         ELSE IF v \in keep THEN UpTo(P, n - 1) + 1
                         ELSE UpTo(P, n - 1)
      /\ Cardinality(Q) = IF v \in keep THEN Cardinality(P) + 1
                                        ELSE Cardinality(P)
  BY CountInserted
<1>5. /\ Cardinality(P) \in Nat
      /\ \A n \in Nat : UpTo(P, n) \in 0..Cardinality(P)
  <2> HIDE DEF P
  <2> QED BY <1>2, CountIs
<1>6. Len(w) = Cardinality(P) /\ \A n \in P : w[UpTo(P, n)] = s[n]
  BY DEF Matches
<1> HIDE DEF t, P, Q
<1>7. at \in 0..Len(w) /\ at \in Nat /\ Len(w) \in Nat
  <2>1. i \in Nat BY <1>2
  <2>2. at \in 0..Cardinality(P) BY <1>5, <2>1
  <2>3. Len(w) = Cardinality(P) /\ Cardinality(P) \in Nat BY <1>5, <1>6
  <2> HIDE DEF at
  <2> QED BY <2>2, <2>3
<1>8. \A n \in P : UpTo(P, n) \in 1..Len(w)
  <2> SUFFICES ASSUME NEW n \in P PROVE UpTo(P, n) \in 1..Len(w) OBVIOUS
  <2>1. n \in Nat /\ 0 \in Nat /\ 0 <= n /\ 0 < n BY <1>2
  <2>2. UpTo(P, 0) < UpTo(P, n) BY <1>2, <2>1, CountGrows
  <2>3. UpTo(P, n) \in 0..Len(w) /\ UpTo(P, 0) \in 0..Len(w)
    BY <1>5, <1>6, <2>1
  <2> QED BY <2>2, <2>3
<1>9. \A n \in P : n <= i => UpTo(P, n) <= at
  <2> SUFFICES ASSUME NEW n \in P, n <= i PROVE UpTo(P, n) <= at OBVIOUS
  <2>1. i \in Nat /\ n \in Nat BY <1>2
  <2> QED BY <1>2, <2>1, CountGrows
<1>10. \A n \in P : i < n => at < UpTo(P, n)
  <2> SUFFICES ASSUME NEW n \in P, i < n PROVE at < UpTo(P, n) OBVIOUS
  <2>1. i \in Nat /\ n \in Nat /\ i <= n BY <1>2
  <2> QED BY <1>2, <2>1, CountGrows
<1> HIDE DEF at
<1>11. ASSUME v \in keep PROVE Matches(x, t, keep)
  <2>1. /\ x \in Seq(V) /\ Len(x) = Len(w) + 1
        /\ \A p \in 1..(Len(w) + 1) :
              x[p] = IF p <= at THEN w[p] ELSE IF p = at + 1 THEN v ELSE w[p - 1]
    BY <1>7, InsertedIs DEF IsInserted
  <2> HIDE DEF x
  <2>2. ASSUME NEW n \in Q PROVE x[UpTo(Q, n)] = t[n]
    <3>1. n \in 1..(Len(s) + 1) /\ n \in 0..(Len(s) + 1) BY <1>2, <1>3
    <3>2. CASE n <= i
      <4>1. n \in 1..Len(s) /\ t[n] = s[n] BY <1>1, <1>2, <3>1, <3>2
      <4>2. n \in P BY <1>2, <1>3, <4>1
      <4>3. UpTo(Q, n) = UpTo(P, n) BY <1>4, <3>1, <3>2
      <4>4. UpTo(P, n) \in 1..Len(w) /\ UpTo(P, n) <= at
        BY <1>8, <1>9, <3>2, <4>2
      <4>5. x[UpTo(P, n)] = w[UpTo(P, n)] BY <1>7, <2>1, <4>4
      <4> QED BY <1>6, <4>1, <4>2, <4>3, <4>5
    <3>3. CASE n = i + 1
      <4>1. ~(n <= i) /\ n - 1 = i BY <1>2, <3>3
      <4>2. t[n] = v BY <1>1, <3>1, <3>3, <4>1
      <4>3. UpTo(Q, n) = at + 1 BY <1>4, <1>11, <3>1, <4>1 DEF at
      <4>5. at + 1 \in 1..(Len(w) + 1) /\ ~(at + 1 <= at) BY <1>7
      <4>4. x[at + 1] = v BY <2>1, <4>5
      <4> QED BY <4>2, <4>3, <4>4
    <3>4. CASE n > i + 1
      <4>1. ~(n <= i) /\ n # i + 1 /\ n - 1 \in 1..Len(s) /\ i < n - 1
        BY <1>2, <3>1, <3>4
      <4>2. t[n] = s[n - 1] BY <1>1, <3>1, <4>1
      <4>3. n - 1 \in P BY <1>2, <1>3, <4>1, <4>2
      <4> PICK c \in 1..Len(w) : c = UpTo(P, n - 1) BY <1>8, <4>3
      <4>4. UpTo(Q, n) = c + 1 BY <1>4, <1>11, <3>1, <4>1
      <4>5. at < c BY <1>10, <4>1, <4>3
      <4>6. c + 1 \in 1..(Len(w) + 1) /\ ~(c + 1 <= at) /\ c + 1 # at + 1
            /\ c + 1 - 1 = c
        BY <1>7, <4>5
      <4>7. x[c + 1] = w[c] BY <2>1, <4>6
      <4> QED BY <1>6, <4>2, <4>3, <4>4, <4>7
    <3> QED BY <1>2, <3>1, <3>2, <3>3, <3>4
  <2>3. Len(x) = Cardinality(Q) BY <1>4, <1>6, <1>11, <2>1
  <2> QED BY <2>2, <2>3 DEF Matches, Q
<1>12. ASSUME v \notin keep PROVE Matches(w, t, keep)
  <2>2. ASSUME NEW n \in Q PROVE w[UpTo(Q, n)] = t[n]
    <3>1. n \in 1..(Len(s) + 1) /\ n \in 0..(Len(s) + 1) BY <1>2, <1>3
    <3>2. CASE n <= i
      <4>1. n \in 1..Len(s) /\ t[n] = s[n] BY <1>1, <1>2, <3>1, <3>2
      <4>2. n \in P BY <1>2, <1>3, <4>1
      <4>3. UpTo(Q, n) = UpTo(P, n) BY <1>4, <3>1, <3>2
      <4> QED BY <1>6, <4>1, <4>2, <4>3
    <3>3. CASE n = i + 1
      <4>1. ~(n <= i) BY <1>2, <3>3
      <4>2. t[n] = v BY <1>1, <3>1, <3>3, <4>1
      <4> QED BY <1>3, <1>12, <3>1, <4>2
    <3>4. CASE n > i + 1
      <4>1. ~(n <= i) /\ n # i + 1 /\ n - 1 \in 1..Len(s)
        BY <1>2, <3>1, <3>4
      <4>2. t[n] = s[n - 1] BY <1>1, <3>1, <4>1
      <4>3. n - 1 \in P BY <1>2, <1>3, <4>1, <4>2
      <4>4. UpTo(Q, n) = UpTo(P, n - 1) BY <1>4, <1>12, <3>1, <4>1
      <4> QED BY <1>6, <4>2, <4>3, <4>4
    <3> QED BY <1>2, <3>1, <3>2, <3>3, <3>4
  <2>3. Len(w) = Cardinality(Q) BY <1>4, <1>6, <1>12
  <2> QED BY <2>2, <2>3 DEF Matches, Q
<1> QED BY <1>7, <1>11, <1>12 DEF x, t, at, P

\* So is a removal.
LEMMA MatchRemoved ==
    ASSUME NEW V, NEW s \in Seq(V), NEW i \in 0..(Len(s) - 1), NEW keep,
           NEW w \in Seq(V), Matches(w, s, keep)
    PROVE  /\ s[i + 1] \in keep =>
                 /\ UpTo(Passing(s, keep), i) \in 0..(Len(w) - 1)
                 /\ Matches(VecRemove(w, UpTo(Passing(s, keep), i)),
                            VecRemove(s, i), keep)
           /\ s[i + 1] \notin keep => Matches(w, VecRemove(s, i), keep)
           /\ UpTo(Passing(VecRemove(s, i), keep), i) = UpTo(Passing(s, keep), i)
<1> DEFINE t == VecRemove(s, i)
           P == Passing(s, keep)
           Q == Passing(t, keep)
           at == UpTo(P, i)
           x == VecRemove(w, at)
<1>1. /\ t \in Seq(V) /\ Len(t) = Len(s) - 1
      /\ \A p \in 1..(Len(s) - 1) : t[p] = IF p <= i THEN s[p] ELSE s[p + 1]
  <2>1. t \in Seq(V) /\ IsRemoved(t, s, i) BY RemovedIs
  <2> HIDE DEF t
  <2> QED BY <2>1 DEF IsRemoved
<1>2. /\ Len(s) \in Nat /\ P \in SUBSET (1..Len(s))
      /\ \A p \in 1..Len(s) : p \in P <=> s[p] \in keep
  BY PassingIs
<1>3. /\ Q \in SUBSET (1..(Len(s) - 1))
      /\ \A p \in 1..(Len(s) - 1) : p \in Q <=> t[p] \in keep
  <2> HIDE DEF t
  <2> QED BY <1>1, PassingIs
<1>4. /\ \A n \in 0..(Len(s) - 1) :
            UpTo(Q, n) = IF n <= i THEN UpTo(P, n)
                         ELSE IF s[i + 1] \in keep THEN UpTo(P, n + 1) - 1
                         ELSE UpTo(P, n + 1)
      /\ Cardinality(Q) = IF s[i + 1] \in keep THEN Cardinality(P) - 1
                                               ELSE Cardinality(P)
  BY CountRemoved
<1>5. /\ Cardinality(P) \in Nat
      /\ \A n \in Nat : UpTo(P, n) \in 0..Cardinality(P)
  <2> HIDE DEF P
  <2> QED BY <1>2, CountIs
<1>6. Len(w) = Cardinality(P) /\ \A n \in P : w[UpTo(P, n)] = s[n]
  BY DEF Matches
<1> HIDE DEF t, P, Q
<1>7. at \in 0..Len(w) /\ at \in Nat /\ Len(w) \in Nat
  <2>1. i \in Nat BY <1>2
  <2>2. at \in 0..Cardinality(P) BY <1>5, <2>1
  <2>3. Len(w) = Cardinality(P) /\ Cardinality(P) \in Nat BY <1>5, <1>6
  <2> HIDE DEF at
  <2> QED BY <2>2, <2>3
<1>8. \A n \in P : UpTo(P, n) \in 1..Len(w)
  <2> SUFFICES ASSUME NEW n \in P PROVE UpTo(P, n) \in 1..Len(w) OBVIOUS
  <2>1. n \in Nat /\ 0 \in Nat /\ 0 <= n /\ 0 < n BY <1>2
  <2>2. UpTo(P, 0) < UpTo(P, n) BY <1>2, <2>1, CountGrows
  <2>3. UpTo(P, n) \in 0..Len(w) /\ UpTo(P, 0) \in 0..Len(w)
    BY <1>5, <1>6, <2>1
  <2> QED BY <2>2, <2>3
<1>9. \A n \in P : n <= i => UpTo(P, n) <= at
  <2> SUFFICES ASSUME NEW n \in P, n <= i PROVE UpTo(P, n) <= at OBVIOUS
  <2>1. i \in Nat /\ n \in Nat BY <1>2
  <2> QED BY <1>2, <2>1, CountGrows
<1>10. \A n \in P : i + 1 < n => UpTo(P, i + 1) < UpTo(P, n)
  <2> SUFFICES ASSUME NEW n \in P, i + 1 < n PROVE UpTo(P, i + 1) < UpTo(P, n)
    OBVIOUS
  <2>1. i + 1 \in Nat /\ n \in Nat /\ i + 1 <= n BY <1>2
  <2> QED BY <1>2, <2>1, CountGrows
<1> HIDE DEF at
<1>13. i + 1 \in 1..Len(s) BY <1>2
<1>11. ASSUME s[i + 1] \in keep
       PROVE  at \in 0..(Len(w) - 1) /\ Matches(x, t, keep)
  <2>0. /\ i + 1 \in P BY <1>2, <1>11, <1>13
  <2>4. UpTo(P, i + 1) = at + 1
    <3>1. i + 1 \in Nat \ {0} /\ i + 1 - 1 = i BY <1>2
    <3> PICK n \in Nat \ {0} : n = i + 1 BY <3>1
    <3>2. UpTo(P, n) = IF n \in P THEN UpTo(P, n - 1) + 1 ELSE UpTo(P, n - 1)
      BY <1>2, CountStep
    <3> QED BY <2>0, <3>1, <3>2 DEF at
  <2>5. at \in 0..(Len(w) - 1)
    <3>1. at + 1 \in 1..Len(w) BY <1>8, <2>0, <2>4
    <3> QED BY <1>7, <3>1
  <2>1. /\ x \in Seq(V) /\ Len(x) = Len(w) - 1
        /\ \A p \in 1..(Len(w) - 1) : x[p] = IF p <= at THEN w[p] ELSE w[p + 1]
    BY <2>5, RemovedIs DEF IsRemoved
  <2> HIDE DEF x
  <2>2. ASSUME NEW n \in Q PROVE x[UpTo(Q, n)] = t[n]
    <3>1. n \in 1..(Len(s) - 1) /\ n \in 0..(Len(s) - 1) BY <1>2, <1>3
    <3>2. CASE n <= i
      <4>1. n \in 1..Len(s) /\ t[n] = s[n]
        <5>1. n \in 1..Len(s) BY <1>2, <3>1
        <5> QED BY <1>1, <3>1, <3>2, <5>1
      <4>2. n \in P BY <1>2, <1>3, <3>1, <4>1
      <4>3. UpTo(Q, n) = UpTo(P, n) BY <1>4, <3>1, <3>2
      <4> PICK c \in 1..Len(w) : c = UpTo(P, n) BY <1>8, <4>2
      <4>4. c <= at BY <1>9, <3>2, <4>2
      <4>5. c \in 1..(Len(w) - 1) BY <1>7, <2>5, <4>4
      <4>6. x[c] = w[c] BY <2>1, <4>4, <4>5
      <4> QED BY <1>6, <4>1, <4>2, <4>3, <4>6
    <3>4. CASE n > i
      <4>1. ~(n <= i) /\ n + 1 \in 1..Len(s) /\ i + 1 < n + 1
        BY <1>2, <3>1, <3>4
      <4>2. t[n] = s[n + 1] BY <1>1, <3>1, <4>1
      <4>3. n + 1 \in P BY <1>2, <1>3, <3>1, <4>1, <4>2
      <4> PICK c \in 1..Len(w) : c = UpTo(P, n + 1) BY <1>8, <4>3
      <4>4. UpTo(Q, n) = c - 1 BY <1>4, <1>11, <3>1, <4>1
      <4>5. at + 1 < c BY <1>10, <2>4, <4>1, <4>3
      <4>6. c - 1 \in 1..(Len(w) - 1) /\ ~(c - 1 <= at) /\ c - 1 + 1 = c
        BY <1>7, <4>5
      <4>7. x[c - 1] = w[c] BY <2>1, <4>6
      <4> QED BY <1>6, <4>2, <4>3, <4>4, <4>7
    <3> QED BY <1>2, <3>1, <3>2, <3>4
  <2>3. Len(x) = Cardinality(Q) BY <1>4, <1>6, <1>11, <2>1
  <2>6. Matches(x, t, keep) BY <2>2, <2>3 DEF Matches, Q
  <2> QED BY <2>5, <2>6
<1>12. ASSUME s[i + 1] \notin keep PROVE Matches(w, t, keep)
  <2>2. ASSUME NEW n \in Q PROVE w[UpTo(Q, n)] = t[n]
    <3>1. n \in 1..(Len(s) - 1) /\ n \in 0..(Len(s) - 1) BY <1>2, <1>3
    <3>2. CASE n <= i
      <4>1. n \in 1..Len(s) /\ t[n] = s[n]
        <5>1. n \in 1..Len(s) BY <1>2, <3>1
        <5> QED BY <1>1, <3>1, <3>2, <5>1
      <4>2. n \in P BY <1>2, <1>3, <3>1, <4>1
      <4>3. UpTo(Q, n) = UpTo(P, n) BY <1>4, <3>1, <3>2
      <4> QED BY <1>6, <4>1, <4>2, <4>3
    <3>4. CASE n > i
      <4>1. ~(n <= i) /\ n + 1 \in 1..Len(s)
        BY <1>2, <3>1, <3>4
      <4>2. t[n] = s[n + 1] BY <1>1, <3>1, <4>1
      <4>3. n + 1 \in P BY <1>2, <1>3, <3>1, <4>1, <4>2
      <4>4. UpTo(Q, n) = UpTo(P, n + 1) BY <1>4, <1>12, <3>1, <4>1
      <4> QED BY <1>6, <4>2, <4>3, <4>4
    <3> QED BY <1>2, <3>1, <3>2, <3>4
  <2>3. Len(w) = Cardinality(Q) BY <1>4, <1>6, <1>12
  <2> QED BY <2>2, <2>3 DEF Matches, Q
<1>14. UpTo(Q, i) = at
  <2>1. i \in 0..(Len(s) - 1) /\ i <= i BY <1>2
  <2> QED BY <1>4, <2>1 DEF at
<1> QED BY <1>11, <1>12, <1>14 DEF x, t, at, P, Q

-----------------------------------------------------------------------------
(* What an adapter takes and what it puts out.                             *)

\* The diffs that fit the contents s.
LEMMA LegalIs ==
    ASSUME NEW V, NEW s, NEW max, NEW d \in LegalDiffs(s, V, max)
    PROVE  \/ \E vs \in SeqOf(V, max) : d = ReplaceDiff(vs)
           \/ Len(s) # max /\ \E i \in 0..Len(s), v \in V : d = InsertDiff(i, v)
           \/ Len(s) # max /\ \E v \in V : d = PushDiff(v)
           \/ \E i \in 0..(Len(s) - 1), v \in V : d = UpdateDiff(i, v)
           \/ \E i \in 0..(Len(s) - 1) : d = RemoveDiff(i)
           \/ \E i, j \in 0..(Len(s) - 1) : d = MoveDiff(i, j)
           \/ (\E i \in 1..Len(s) : TRUE) /\ d = PopDiff
           \/ d = ClearDiff
BY DEF LegalDiffs

\* They are applicable and leave contents.
LEMMA LegalApplies ==
    ASSUME NEW V, NEW max \in Nat, NEW s \in SeqOf(V, max),
           NEW d \in LegalDiffs(s, V, max)
    PROVE  Applicable(d, s) /\ Apply(d, s) \in SeqOf(V, max)
<1>1. s \in Seq(V) /\ Len(s) <= max /\ Len(s) \in Nat
  BY ShortSeqs, LenProperties
<1>2. CASE \E vs \in SeqOf(V, max) : d = ReplaceDiff(vs) BY <1>2, ApplyReplace
<1>3. CASE Len(s) # max /\ \E i \in 0..Len(s), v \in V : d = InsertDiff(i, v)
  <2> PICK i \in 0..Len(s), v \in V : d = InsertDiff(i, v) BY <1>3
  <2>1. VecInsert(s, i, v) \in Seq(V) /\ Len(VecInsert(s, i, v)) = Len(s) + 1
    BY <1>1, Inserted
  <2>2. Len(s) + 1 <= max BY <1>1, <1>3
  <2>3. VecInsert(s, i, v) \in SeqOf(V, max) BY <2>1, <2>2, ShortSeqs
  <2> QED BY <2>3, ApplyInsert
<1>4. CASE Len(s) # max /\ \E v \in V : d = PushDiff(v)
  <2> PICK v \in V : d = PushDiff(v) BY <1>4
  <2>1. Append(s, v) \in Seq(V) /\ Len(Append(s, v)) = Len(s) + 1
    BY <1>1, Pushed
  <2>2. Len(s) + 1 <= max BY <1>1, <1>4
  <2>3. Append(s, v) \in SeqOf(V, max) BY <2>1, <2>2, ShortSeqs
  <2> QED BY <2>3, ApplyPush
<1>5. CASE \E i \in 0..(Len(s) - 1), v \in V : d = UpdateDiff(i, v)
  <2> PICK i \in 0..(Len(s) - 1), v \in V : d = UpdateDiff(i, v) BY <1>5
  <2>1. /\ ReplaceAt(s, i + 1, v) \in Seq(V)
        /\ Len(ReplaceAt(s, i + 1, v)) = Len(s)
    BY <1>1, Replaced
  <2>3. ReplaceAt(s, i + 1, v) \in SeqOf(V, max) BY <1>1, <2>1, ShortSeqs
  <2> QED BY <2>3, ApplyUpdate
<1>6. CASE \E i \in 0..(Len(s) - 1) : d = RemoveDiff(i)
  <2> PICK i \in 0..(Len(s) - 1) : d = RemoveDiff(i) BY <1>6
  <2>1. VecRemove(s, i) \in Seq(V) /\ Len(VecRemove(s, i)) = Len(s) - 1
    BY <1>1, Removed
  <2>2. Len(VecRemove(s, i)) <= max BY <1>1, <2>1
  <2>3. VecRemove(s, i) \in SeqOf(V, max) BY <2>1, <2>2, ShortSeqs
  <2> QED BY <2>3, ApplyRemove
<1>7. CASE \E i, j \in 0..(Len(s) - 1) : d = MoveDiff(i, j)
  <2> PICK i \in 0..(Len(s) - 1), j \in 0..(Len(s) - 1) : d = MoveDiff(i, j)
    BY <1>7
  <2>1. VecRemove(s, i) \in Seq(V) /\ Len(VecRemove(s, i)) = Len(s) - 1
    BY <1>1, Removed
  <2> PICK v \in V : v = s[i + 1] BY <1>1, ElementOfSeq
  <2>2. j \in 0..Len(VecRemove(s, i)) BY <1>1, <2>1
  <2> DEFINE r == VecRemove(s, i)
  <2> HIDE DEF r
  <2>3. VecInsert(r, j, v) \in Seq(V) /\ Len(VecInsert(r, j, v)) = Len(r) + 1
    <3>1. r \in Seq(V) /\ j \in 0..Len(r) BY <2>1, <2>2 DEF r
    <3> QED BY <3>1, Inserted
  <2>4. Len(VecInsert(r, j, v)) <= max BY <1>1, <2>1, <2>3 DEF r
  <2>5. VecInsert(r, j, v) \in SeqOf(V, max) BY <2>3, <2>4, ShortSeqs
  <2>6. VecMove(s, i, j) \in SeqOf(V, max) BY <2>5 DEF VecMove, r
  <2>7. {i, j} \subseteq 0..(Len(s) - 1) OBVIOUS
  <2> QED BY <2>6, <2>7, ApplyMove
<1>8. CASE (\E i \in 1..Len(s) : TRUE) /\ d = PopDiff
  <2>1. s # <<>> BY <1>8, EmptySeq
  <2>2. VecPop(s) \in Seq(V) /\ Len(VecPop(s)) = Len(s) - 1
    BY <1>1, <2>1, Popped
  <2>3. Len(VecPop(s)) <= max BY <1>1, <2>2
  <2>4. VecPop(s) \in SeqOf(V, max) BY <2>2, <2>3, ShortSeqs
  <2> QED BY <1>8, <2>1, <2>4, ApplyPop
<1>9. CASE d = ClearDiff
  <2> PICK e : e = <<>> OBVIOUS
  <2>1. e \in Seq(V) /\ Len(e) <= max OBVIOUS
  <2>2. e \in SeqOf(V, max) BY <2>1, ShortSeqs
  <2> QED BY <1>9, <2>2, ApplyClear
<1> HIDE <1>1
<1> QED BY <1>2, <1>3, <1>4, <1>5, <1>6, <1>7, <1>8, <1>9, LegalIs

\* Diffs that are put out.
LEMMA YieldsNone == \A s : Yields(<<>>, s, s)
BY DEF Yields

LEMMA YieldsOne ==
    ASSUME NEW d, NEW from, NEW to, Applicable(d, from), Apply(d, from) = to
    PROVE  \A o : o = <<d>> => Yields(o, from, to)
<1> SUFFICES ASSUME NEW o, o = <<d>> PROVE Yields(o, from, to) OBVIOUS
<1>1. Len(o) = 1 /\ o[1] = d /\ o = <<o[1]>> OBVIOUS
<1> QED BY <1>1, Zenon DEF Yields

LEMMA YieldsTwo ==
    ASSUME NEW d, NEW e, NEW from, NEW via, NEW to,
           Applicable(d, from), Apply(d, from) = via,
           Applicable(e, via), Apply(e, via) = to
    PROVE  \A o : o = <<d, e>> => Yields(o, from, to)
<1> SUFFICES ASSUME NEW o, o = <<d, e>> PROVE Yields(o, from, to) OBVIOUS
<1>1. Len(o) = 2 /\ o[1] = d /\ o[2] = e /\ o = <<o[1], o[2]>> OBVIOUS
<1> QED BY <1>1, Zenon DEF Yields

\* The first of them fits, and then the others are left.
LEMMA YieldsNext ==
    ASSUME NEW o, NEW from, NEW to, Yields(o, from, to), o # <<>>
    PROVE  /\ Applicable(Head(o), from)
           /\ Yields(Tail(o), Apply(Head(o), from), to)
<1>1. CASE /\ Len(o) = 1 /\ o = <<o[1]>>
           /\ Applicable(o[1], from) /\ Apply(o[1], from) = to
  <2> PICK d : d = o[1] OBVIOUS
  <2>1. o = <<d>> BY <1>1
  <2>2. Head(o) = d /\ Tail(o) = <<>> BY <2>1
  <2> QED BY <1>1, <2>2, YieldsNone
<1>2. CASE /\ Len(o) = 2 /\ o = <<o[1], o[2]>>
           /\ Applicable(o[1], from)
           /\ Applicable(o[2], Apply(o[1], from))
           /\ Apply(o[2], Apply(o[1], from)) = to
  <2> PICK d, e : d = o[1] /\ e = o[2] OBVIOUS
  <2>1. o = <<d, e>> BY <1>2
  <2>2. Head(o) = d /\ Tail(o) = <<e>> BY <2>1
  <2>3. Applicable(e, Apply(d, from)) /\ Apply(e, Apply(d, from)) = to BY <1>2
  <2>4. Yields(Tail(o), Apply(d, from), to) BY <2>2, <2>3, YieldsOne
  <2> QED BY <1>2, <2>2, <2>4
<1> QED BY <1>1, <1>2, Zenon DEF Yields

\* At most two.
LEMMA YieldsFew ==
    ASSUME NEW o, NEW from, NEW to, Yields(o, from, to)
    PROVE  Len(o) <= 2 /\ (o = <<>> => from = to)
<1>1. CASE o = <<>> /\ from = to BY <1>1
<1>2. CASE Len(o) = 1 /\ o = <<o[1]>>
  BY <1>2
<1>3. CASE Len(o) = 2 /\ o = <<o[1], o[2]>>
  BY <1>3
<1> QED BY <1>1, <1>2, <1>3, Zenon DEF Yields

-----------------------------------------------------------------------------
(* What a function makes of every value of a sequence.                     *)

ImageOf(V, f) == {f[v] : v \in V}

IsOver(o, s, f) ==
    Len(o) = Len(s) /\ \A i \in 1..Len(s) : o[i] = f[s[i]]

LEMMA OverIs ==
    ASSUME NEW V, NEW s \in Seq(V), NEW f
    PROVE  Over(s, f) \in Seq(ImageOf(V, f)) /\ IsOver(Over(s, f), s, f)
<1>1. Len(s) \in Nat /\ DOMAIN s = 1..Len(s) BY LenProperties
<1>2. \A i \in 1..Len(s) : s[i] \in V BY ElementOfSeq
<1> QED BY <1>1, <1>2 DEF Over, ImageOf, IsOver

LEMMA OverInserted ==
    ASSUME NEW V, NEW s \in Seq(V), NEW f, NEW v \in V, NEW i \in 0..Len(s)
    PROVE  Over(VecInsert(s, i, v), f) = VecInsert(Over(s, f), i, f[v])
<1> DEFINE W == ImageOf(V, f)
           t == VecInsert(s, i, v)
           o == Over(s, f)
           a == Over(t, f)
           b == VecInsert(o, i, f[v])
<1> PICK w \in W : w = f[v] BY DEF ImageOf
<1>1. Len(s) \in Nat BY LenProperties
<1>2. t \in Seq(V) /\ IsInserted(t, s, i, v) BY InsertedIs
<1>3. o \in Seq(W) /\ Len(o) = Len(s) /\ \A p \in 1..Len(s) : o[p] = f[s[p]]
  BY OverIs DEF IsOver
<1> HIDE DEF t, o
<1>4. a \in Seq(W) /\ Len(a) = Len(t) /\ \A p \in 1..Len(t) : a[p] = f[t[p]]
  <2>1. a \in Seq(W) /\ IsOver(a, t, f) BY <1>2, OverIs
  <2> HIDE DEF a
  <2> QED BY <2>1 DEF IsOver
<1>5. b \in Seq(W) /\ IsInserted(b, o, i, w)
  <2>1. i \in 0..Len(o) BY <1>3
  <2> HIDE DEF W
  <2> QED BY <1>3, <2>1, InsertedIs
<1> HIDE DEF a, b, W
<1>6. ASSUME NEW p \in 1..(Len(s) + 1) PROVE a[p] = b[p]
  <2>1. /\ a[p] = f[t[p]]
        /\ t[p] = IF p <= i THEN s[p] ELSE IF p = i + 1 THEN v ELSE s[p - 1]
        /\ b[p] = IF p <= i THEN o[p] ELSE IF p = i + 1 THEN w ELSE o[p - 1]
    BY <1>2, <1>3, <1>4, <1>5 DEF IsInserted
  <2>2. CASE p <= i
    <3>1. p \in 1..Len(s) BY <1>1, <2>2
    <3> QED BY <1>3, <2>1, <2>2, <3>1
  <2>3. CASE ~(p <= i) /\ p = i + 1 BY <2>1, <2>3
  <2>4. CASE ~(p <= i) /\ p # i + 1
    <3>1. p - 1 \in 1..Len(s) BY <1>1, <2>4
    <3> QED BY <1>3, <2>1, <2>4, <3>1
  <2> QED BY <2>2, <2>3, <2>4
<1>7. Len(a) = Len(s) + 1 /\ Len(b) = Len(s) + 1
  BY <1>2, <1>3, <1>4, <1>5 DEF IsInserted
<1>8. a = b BY <1>4, <1>5, <1>6, <1>7, SeqEqual
<1> QED BY <1>8 DEF a, b, t, o

LEMMA OverRemoved ==
    ASSUME NEW V, NEW s \in Seq(V), NEW f, NEW i \in 0..(Len(s) - 1)
    PROVE  Over(VecRemove(s, i), f) = VecRemove(Over(s, f), i)
<1> DEFINE W == ImageOf(V, f)
           t == VecRemove(s, i)
           o == Over(s, f)
           a == Over(t, f)
           b == VecRemove(o, i)
<1>1. Len(s) \in Nat BY LenProperties
<1>2. t \in Seq(V) /\ IsRemoved(t, s, i) BY RemovedIs
<1>3. o \in Seq(W) /\ Len(o) = Len(s) /\ \A p \in 1..Len(s) : o[p] = f[s[p]]
  BY OverIs DEF IsOver
<1> HIDE DEF t, o
<1>4. a \in Seq(W) /\ Len(a) = Len(t) /\ \A p \in 1..Len(t) : a[p] = f[t[p]]
  <2>1. a \in Seq(W) /\ IsOver(a, t, f) BY <1>2, OverIs
  <2> HIDE DEF a
  <2> QED BY <2>1 DEF IsOver
<1>5. b \in Seq(W) /\ IsRemoved(b, o, i)
  <2>1. i \in 0..(Len(o) - 1) BY <1>3
  <2> HIDE DEF W
  <2> QED BY <1>3, <2>1, RemovedIs
<1> HIDE DEF a, b, W
<1>6. ASSUME NEW p \in 1..(Len(s) - 1) PROVE a[p] = b[p]
  <2>1. /\ a[p] = f[t[p]]
        /\ t[p] = IF p <= i THEN s[p] ELSE s[p + 1]
        /\ b[p] = IF p <= i THEN o[p] ELSE o[p + 1]
    BY <1>2, <1>3, <1>4, <1>5 DEF IsRemoved
  <2>2. p \in 1..Len(s) /\ p + 1 \in 1..Len(s) BY <1>1
  <2> QED BY <1>3, <2>1, <2>2
<1>7. Len(a) = Len(s) - 1 /\ Len(b) = Len(s) - 1
  BY <1>2, <1>3, <1>4, <1>5 DEF IsRemoved
<1>8. a = b BY <1>1, <1>4, <1>5, <1>6, <1>7, SeqEqual
<1> QED BY <1>8 DEF a, b, t, o

\* So an update, a push and a pop can be made on either side.
LEMMA OverReplaced ==
    ASSUME NEW V, NEW s \in Seq(V), NEW f, NEW v \in V, NEW i \in 0..(Len(s) - 1)
    PROVE  Over(ReplaceAt(s, i + 1, v), f) = ReplaceAt(Over(s, f), i + 1, f[v])
<1> DEFINE W == ImageOf(V, f)
           o == Over(s, f)
           r == VecRemove(s, i)
<1> PICK w \in W : w = f[v] BY DEF ImageOf
<1>1. Len(s) \in Nat BY LenProperties
<1>2. o \in Seq(W) /\ Len(o) = Len(s) BY OverIs DEF IsOver
<1>3. r \in Seq(V) /\ Len(r) = Len(s) - 1 BY Removed
<1>4. ReplaceAt(s, i + 1, v) = VecInsert(r, i, v)
  <2>1. SameAsReplaced(s, i, v) BY Replaced
  <2> QED BY <2>1 DEF SameAsReplaced
<1>5. ReplaceAt(o, i + 1, w) = VecInsert(VecRemove(o, i), i, w)
  <2>1. i \in 0..(Len(o) - 1) BY <1>2
  <2> HIDE DEF W, o
  <2>2. SameAsReplaced(o, i, w) BY <1>2, <2>1, Replaced
  <2> QED BY <2>2 DEF SameAsReplaced
<1>6. Over(r, f) = VecRemove(o, i) BY OverRemoved
<1>7. Over(VecInsert(r, i, v), f) = VecInsert(Over(r, f), i, f[v])
  <2>1. i \in 0..Len(r) BY <1>1, <1>3
  <2> HIDE DEF r
  <2> QED BY <1>3, <2>1, OverInserted
<1> HIDE DEF o, r
<1>8. Over(ReplaceAt(s, i + 1, v), f) = ReplaceAt(o, i + 1, f[v])
  BY <1>4, <1>5, <1>6, <1>7, Zenon
<1> QED BY <1>8 DEF o

LEMMA OverPushed ==
    ASSUME NEW V, NEW s \in Seq(V), NEW f, NEW v \in V
    PROVE  Over(Append(s, v), f) = Append(Over(s, f), f[v])
<1> DEFINE W == ImageOf(V, f)
           o == Over(s, f)
<1> PICK w \in W : w = f[v] BY DEF ImageOf
<1>1. Len(s) \in Nat BY LenProperties
<1>2. o \in Seq(W) /\ Len(o) = Len(s) BY OverIs DEF IsOver
<1>3. Append(s, v) = VecInsert(s, Len(s), v) BY Pushed
<1>4. Append(o, w) = VecInsert(o, Len(o), w)
  <2> HIDE DEF W, o
  <2> QED BY <1>2, Pushed
<1>5. Over(VecInsert(s, Len(s), v), f) = VecInsert(o, Len(s), f[v])
  <2> PICK n \in 0..Len(s) : n = Len(s) BY <1>1
  <2>1. Over(VecInsert(s, n, v), f) = VecInsert(o, n, f[v]) BY OverInserted
  <2> QED BY <2>1
<1> HIDE DEF o
<1>6. Over(Append(s, v), f) = Append(o, f[v])
  BY <1>2, <1>3, <1>4, <1>5, Zenon
<1> QED BY <1>6 DEF o

LEMMA OverPopped ==
    ASSUME NEW V, NEW s \in Seq(V), NEW f, s # <<>>
    PROVE  /\ Over(s, f) # <<>>
           /\ Over(VecPop(s), f) = VecPop(Over(s, f))
<1> DEFINE W == ImageOf(V, f)
           o == Over(s, f)
<1>1. Len(s) \in Nat \ {0} BY LenProperties, EmptySeq
<1>2. o \in Seq(W) /\ Len(o) = Len(s) BY OverIs DEF IsOver
<1>3. VecPop(s) = VecRemove(s, Len(s) - 1) BY Popped
<1> HIDE DEF o, W
<1>4. o # <<>> BY <1>1, <1>2, EmptySeq
<1>5. VecPop(o) = VecRemove(o, Len(o) - 1) BY <1>2, <1>4, Popped
<1>6. Over(VecRemove(s, Len(s) - 1), f) = VecRemove(o, Len(s) - 1)
  <2> PICK n \in 0..(Len(s) - 1) : n = Len(s) - 1 BY <1>1
  <2>1. Over(VecRemove(s, n), f) = VecRemove(o, n) BY OverRemoved DEF o
  <2> QED BY <2>1
<1>7. Over(VecPop(s), f) = VecPop(o) BY <1>2, <1>3, <1>5, <1>6, Zenon
<1> QED BY <1>4, <1>7 DEF o

LEMMA OverEmpty == \A f : Over(<<>>, f) = <<>>
BY DEF Over

-----------------------------------------------------------------------------
(* map.                                                                    *)

\* What VecDiff::map makes of each diff.
LEMMA MapOfReplace ==
    ASSUME NEW vs, NEW f
    PROVE  MapVecDiff(ReplaceDiff(vs), f) = ReplaceDiff(Over(vs, f))
<1>1. ReplaceDiff(vs).op = "Replace" /\ ReplaceDiff(vs).values = vs
  BY DEF ReplaceDiff
<1> QED BY <1>1, Zenon DEF MapVecDiff, Over

LEMMA MapOfInsert ==
    ASSUME NEW i, NEW v, NEW f
    PROVE  MapVecDiff(InsertDiff(i, v), f) = InsertDiff(i, f[v])
<1> PICK d : d = InsertDiff(i, v) OBVIOUS
<1>1. d.op = "InsertAt" BY DEF InsertDiff
<1>2. MapVecDiff(d, f) = [d EXCEPT !.value = f[@]] BY <1>1, Zenon DEF MapVecDiff
<1>3. [d EXCEPT !.value = f[@]] = InsertDiff(i, f[v]) BY DEF InsertDiff
<1> QED BY <1>2, <1>3

LEMMA MapOfUpdate ==
    ASSUME NEW i, NEW v, NEW f
    PROVE  MapVecDiff(UpdateDiff(i, v), f) = UpdateDiff(i, f[v])
<1> PICK d : d = UpdateDiff(i, v) OBVIOUS
<1>1. d.op = "UpdateAt" BY DEF UpdateDiff
<1>2. MapVecDiff(d, f) = [d EXCEPT !.value = f[@]] BY <1>1, Zenon DEF MapVecDiff
<1>3. [d EXCEPT !.value = f[@]] = UpdateDiff(i, f[v]) BY DEF UpdateDiff
<1> QED BY <1>2, <1>3

LEMMA MapOfPush ==
    ASSUME NEW v, NEW f
    PROVE  MapVecDiff(PushDiff(v), f) = PushDiff(f[v])
<1> PICK d : d = PushDiff(v) OBVIOUS
<1>1. d.op = "Push" BY DEF PushDiff
<1>2. MapVecDiff(d, f) = [d EXCEPT !.value = f[@]] BY <1>1, Zenon DEF MapVecDiff
<1>3. [d EXCEPT !.value = f[@]] = PushDiff(f[v]) BY DEF PushDiff
<1> QED BY <1>2, <1>3

LEMMA MapOfOther ==
    ASSUME NEW i, NEW j, NEW f
    PROVE  /\ MapVecDiff(RemoveDiff(i), f) = RemoveDiff(i)
           /\ MapVecDiff(MoveDiff(i, j), f) = MoveDiff(i, j)
           /\ MapVecDiff(PopDiff, f) = PopDiff
           /\ MapVecDiff(ClearDiff, f) = ClearDiff
<1>1. /\ RemoveDiff(i).op = "RemoveAt" /\ MoveDiff(i, j).op = "Move"
      /\ PopDiff.op = "Pop" /\ ClearDiff.op = "Clear"
  BY DEF RemoveDiff, MoveDiff, PopDiff, ClearDiff
<1> QED BY <1>1, Zenon DEF MapVecDiff

\* A diff and what map makes of it have the same effect, before and after the
\* callback is applied to each value.
THEOREM MapFollows ==
    ASSUME NEW V, NEW max \in Nat, NEW s \in SeqOf(V, max),
           NEW d \in LegalDiffs(s, V, max), NEW f
    PROVE  /\ Applicable(MapVecDiff(d, f), Over(s, f))
           /\ Apply(MapVecDiff(d, f), Over(s, f)) = Over(Apply(d, s), f)
<1>1. s \in Seq(V) /\ Len(s) \in Nat BY ShortSeqs, LenProperties
<1>0. Over(s, f) \in Seq(ImageOf(V, f)) /\ Len(Over(s, f)) = Len(s)
  BY <1>1, OverIs DEF IsOver
<1> DEFINE Goal == /\ Applicable(MapVecDiff(d, f), Over(s, f))
                   /\ Apply(MapVecDiff(d, f), Over(s, f)) = Over(Apply(d, s), f)
<1> SUFFICES Goal OBVIOUS
<1>2. CASE \E vs \in SeqOf(V, max) : d = ReplaceDiff(vs)
  BY <1>2, ApplyReplace, MapOfReplace
<1>3. CASE Len(s) # max /\ \E i \in 0..Len(s), v \in V : d = InsertDiff(i, v)
  <2> PICK i \in 0..Len(s), v \in V : d = InsertDiff(i, v) BY <1>3
  <2>1. Over(VecInsert(s, i, v), f) = VecInsert(Over(s, f), i, f[v])
    BY <1>1, OverInserted
  <2>2. Applicable(InsertDiff(i, f[v]), Over(s, f)) BY <1>0, ApplyInsert
  <2> QED BY <2>1, <2>2, ApplyInsert, MapOfInsert
<1>4. CASE Len(s) # max /\ \E v \in V : d = PushDiff(v)
  <2> PICK v \in V : d = PushDiff(v) BY <1>4
  <2>1. Over(Append(s, v), f) = Append(Over(s, f), f[v]) BY <1>1, OverPushed
  <2> QED BY <2>1, ApplyPush, MapOfPush
<1>5. CASE \E i \in 0..(Len(s) - 1), v \in V : d = UpdateDiff(i, v)
  <2> PICK i \in 0..(Len(s) - 1), v \in V : d = UpdateDiff(i, v) BY <1>5
  <2>1. Over(ReplaceAt(s, i + 1, v), f) = ReplaceAt(Over(s, f), i + 1, f[v])
    BY <1>1, OverReplaced
  <2>2. Applicable(UpdateDiff(i, f[v]), Over(s, f)) BY <1>0, ApplyUpdate
  <2> QED BY <2>1, <2>2, ApplyUpdate, MapOfUpdate
<1>6. CASE \E i \in 0..(Len(s) - 1) : d = RemoveDiff(i)
  <2> PICK i \in 0..(Len(s) - 1) : d = RemoveDiff(i) BY <1>6
  <2>1. Over(VecRemove(s, i), f) = VecRemove(Over(s, f), i) BY <1>1, OverRemoved
  <2>2. Applicable(RemoveDiff(i), Over(s, f)) BY <1>0, ApplyRemove
  <2> QED BY <2>1, <2>2, ApplyRemove, MapOfOther
<1>7. CASE \E i, j \in 0..(Len(s) - 1) : d = MoveDiff(i, j)
  <2> PICK i \in 0..(Len(s) - 1), j \in 0..(Len(s) - 1) : d = MoveDiff(i, j)
    BY <1>7
  <2> DEFINE r == VecRemove(s, i)
  <2>1. r \in Seq(V) /\ Len(r) = Len(s) - 1 BY <1>1, Removed
  <2> PICK v \in V : v = s[i + 1] BY <1>1, ElementOfSeq
  <2>2. j \in 0..Len(r) BY <1>1, <2>1
  <2>3. Over(r, f) = VecRemove(Over(s, f), i) BY <1>1, OverRemoved
  <2> HIDE DEF r
  <2>4. Over(VecInsert(r, j, v), f) = VecInsert(Over(r, f), j, f[v])
    BY <2>1, <2>2, OverInserted
  <2>5. Over(s, f)[i + 1] = f[v]
    <3>1. i + 1 \in 1..Len(s) BY <1>1
    <3> QED BY <1>1, <3>1, OverIs DEF IsOver
  <2>6. VecMove(Over(s, f), i, j) = Over(VecMove(s, i, j), f)
    BY <2>3, <2>4, <2>5, Zenon DEF VecMove, r
  <2>7. Applicable(MoveDiff(i, j), Over(s, f)) BY <1>0, ApplyMove
  <2> QED BY <2>6, <2>7, ApplyMove, MapOfOther
<1>8. CASE (\E i \in 1..Len(s) : TRUE) /\ d = PopDiff
  <2>1. s # <<>> BY <1>8, EmptySeq
  <2>2. Over(s, f) # <<>> /\ Over(VecPop(s), f) = VecPop(Over(s, f))
    BY <1>1, <2>1, OverPopped
  <2> QED BY <1>8, <2>2, ApplyPop, MapOfOther
<1>9. CASE d = ClearDiff BY <1>9, ApplyClear, MapOfOther, OverEmpty
<1> HIDE DEF Goal
<1> QED BY <1>2, <1>3, <1>4, <1>5, <1>6, <1>7, <1>8, <1>9, LegalIs

-----------------------------------------------------------------------------
(* filter.                                                                 *)

\* The flags stay in step with the values.
LEMMA FlagsAre ==
    ASSUME NEW V, NEW s \in Seq(V), NEW keep
    PROVE  /\ Flags(s, keep) = Over(s, [v \in V |-> v \in keep])
           /\ DOMAIN Flags(s, keep) = 1..Len(s) /\ Len(Flags(s, keep)) = Len(s)
           /\ \A i \in 1..Len(s) : Flags(s, keep)[i] <=> s[i] \in keep
<1> DEFINE f == [v \in V |-> v \in keep]
<1>1. Len(s) \in Nat /\ DOMAIN s = 1..Len(s) BY LenProperties
<1>2. \A i \in 1..Len(s) : s[i] \in V BY ElementOfSeq
<1>3. \A i \in DOMAIN s : f[s[i]] = (s[i] \in keep) BY <1>1, <1>2, Zenon
<1>4. Flags(s, keep) = Over(s, f) BY <1>3, Zenon DEF Flags, Over
<1>5. DOMAIN Flags(s, keep) = 1..Len(s) BY <1>1, Zenon DEF Flags
<1>6. Len(Flags(s, keep)) = Len(s) BY <1>1 DEF Flags
<1>7. \A i \in 1..Len(s) : Flags(s, keep)[i] <=> s[i] \in keep
  BY <1>1, Zenon DEF Flags
<1> QED BY <1>4, <1>5, <1>6, <1>7

LEMMA FlagsInserted ==
    ASSUME NEW V, NEW s \in Seq(V), NEW v \in V, NEW i \in 0..Len(s), NEW keep
    PROVE  VecInsert(Flags(s, keep), i, v \in keep)
              = Flags(VecInsert(s, i, v), keep)
<1> DEFINE f == [u \in V |-> u \in keep]
<1>1. f[v] = (v \in keep) BY Zenon
<1>2. VecInsert(s, i, v) \in Seq(V) BY InsertedIs
<1>3. /\ Flags(s, keep) = Over(s, f)
      /\ Flags(VecInsert(s, i, v), keep) = Over(VecInsert(s, i, v), f)
  BY <1>2, FlagsAre
<1> HIDE DEF f
<1>4. Over(VecInsert(s, i, v), f) = VecInsert(Over(s, f), i, f[v])
  BY OverInserted
<1> QED BY <1>1, <1>3, <1>4, Zenon

LEMMA FlagsRemoved ==
    ASSUME NEW V, NEW s \in Seq(V), NEW i \in 0..(Len(s) - 1), NEW keep
    PROVE  VecRemove(Flags(s, keep), i) = Flags(VecRemove(s, i), keep)
<1> DEFINE f == [u \in V |-> u \in keep]
<1>2. VecRemove(s, i) \in Seq(V) BY RemovedIs
<1>3. /\ Flags(s, keep) = Over(s, f)
      /\ Flags(VecRemove(s, i), keep) = Over(VecRemove(s, i), f)
  BY <1>2, FlagsAre
<1> HIDE DEF f
<1>4. Over(VecRemove(s, i), f) = VecRemove(Over(s, f), i) BY OverRemoved
<1> QED BY <1>3, <1>4, Zenon

LEMMA FlagsReplaced ==
    ASSUME NEW V, NEW s \in Seq(V), NEW v \in V, NEW i \in 0..(Len(s) - 1),
           NEW keep
    PROVE  ReplaceAt(Flags(s, keep), i + 1, v \in keep)
              = Flags(ReplaceAt(s, i + 1, v), keep)
<1> DEFINE f == [u \in V |-> u \in keep]
<1>1. f[v] = (v \in keep) BY Zenon
<1>2. ReplaceAt(s, i + 1, v) \in Seq(V) BY Replaced
<1>3. /\ Flags(s, keep) = Over(s, f)
      /\ Flags(ReplaceAt(s, i + 1, v), keep) = Over(ReplaceAt(s, i + 1, v), f)
  BY <1>2, FlagsAre
<1> HIDE DEF f
<1>4. Over(ReplaceAt(s, i + 1, v), f) = ReplaceAt(Over(s, f), i + 1, f[v])
  BY OverReplaced
<1> QED BY <1>1, <1>3, <1>4, Zenon

LEMMA FlagsPushed ==
    ASSUME NEW V, NEW s \in Seq(V), NEW v \in V, NEW keep
    PROVE  Append(Flags(s, keep), v \in keep) = Flags(Append(s, v), keep)
<1> DEFINE f == [u \in V |-> u \in keep]
<1>1. f[v] = (v \in keep) BY Zenon
<1>2. Append(s, v) \in Seq(V) BY Pushed
<1>3. /\ Flags(s, keep) = Over(s, f)
      /\ Flags(Append(s, v), keep) = Over(Append(s, v), f)
  BY <1>2, FlagsAre
<1> HIDE DEF f
<1>4. Over(Append(s, v), f) = Append(Over(s, f), f[v]) BY OverPushed
<1> QED BY <1>1, <1>3, <1>4, Zenon

LEMMA FlagsPopped ==
    ASSUME NEW V, NEW s \in Seq(V), s # <<>>, NEW keep
    PROVE  VecPop(Flags(s, keep)) = Flags(VecPop(s), keep)
<1> DEFINE f == [u \in V |-> u \in keep]
<1>2. VecPop(s) \in Seq(V) BY Popped
<1>3. /\ Flags(s, keep) = Over(s, f)
      /\ Flags(VecPop(s), keep) = Over(VecPop(s), f)
  BY <1>2, FlagsAre
<1> HIDE DEF f
<1>4. Over(VecPop(s), f) = VecPop(Over(s, f)) BY OverPopped
<1> QED BY <1>3, <1>4, Zenon

\* Either a diff is put out that keeps the output right, or none is needed.
LEMMA FilteredOne ==
    ASSUME NEW V, NEW s \in Seq(V), NEW t \in Seq(V), NEW keep, NEW d,
           Applicable(d, Passed(s, keep)),
           Apply(d, Passed(s, keep)) \in Seq(V),
           Matches(Apply(d, Passed(s, keep)), t, keep)
    PROVE  \A o : o = <<d>> => Filtered(Fed(Flags(t, keep), o), s, t, keep)
<1>1. Apply(d, Passed(s, keep)) = Passed(t, keep) BY MatchIsPassed
<1> SUFFICES ASSUME NEW o, o = <<d>>
             PROVE  Filtered(Fed(Flags(t, keep), o), s, t, keep)
  OBVIOUS
<1>2. Yields(o, Passed(s, keep), Passed(t, keep)) BY <1>1, YieldsOne
<1>3. /\ Fed(Flags(t, keep), o).st = Flags(t, keep)
      /\ Fed(Flags(t, keep), o).out = o
  BY Zenon DEF Fed
<1> QED BY <1>2, <1>3, Zenon DEF Filtered

LEMMA FilteredNone ==
    ASSUME NEW V, NEW s \in Seq(V), NEW t \in Seq(V), NEW keep,
           Matches(Passed(s, keep), t, keep)
    PROVE  Filtered(Fed(Flags(t, keep), <<>>), s, t, keep)
<1>0. Passed(s, keep) \in Seq(V) BY PassedMatch
<1>1. Passed(s, keep) = Passed(t, keep) BY <1>0, MatchIsPassed
<1>2. Yields(<<>>, Passed(s, keep), Passed(t, keep)) BY <1>1, YieldsNone
<1>3. /\ Fed(Flags(t, keep), <<>>).st = Flags(t, keep)
      /\ Fed(Flags(t, keep), <<>>).out = <<>>
  BY Zenon DEF Fed
<1> QED BY <1>2, <1>3, Zenon DEF Filtered

LEMMA FilterInserted ==
    ASSUME NEW V, NEW s \in Seq(V), NEW v \in V, NEW i \in 0..Len(s), NEW keep
    PROVE  Filtered(FilterInsert(Flags(s, keep), i, v, keep), s,
                    VecInsert(s, i, v), keep)
<1> DEFINE w == Passed(s, keep)
           t == VecInsert(s, i, v)
           at == UpTo(Passing(s, keep), i)
<1>1. w \in Seq(V) /\ Matches(w, s, keep) BY PassedMatch
<1>2. Len(s) \in Nat BY LenProperties
<1>3. t \in Seq(V) /\ Len(t) = Len(s) + 1 BY Inserted
<1>4. VecInsert(Flags(s, keep), i, v \in keep) = Flags(t, keep)
  BY FlagsInserted
<1> HIDE DEF w
<1>5. /\ at \in 0..Len(w)
      /\ v \in keep => Matches(VecInsert(w, at, v), t, keep)
      /\ v \notin keep => Matches(w, t, keep)
  BY <1>1, MatchInserted
<1>6. FindIndex(Flags(t, keep), i) = at
  <2>1. i \in 0..Len(t) BY <1>2, <1>3
  <2>2. FindIndex(Flags(t, keep), i) = UpTo(Passing(t, keep), i)
    <3> HIDE DEF t, at
    <3> QED BY <1>3, <2>1, FindIs DEF Flags
  <2>3. UpTo(Passing(t, keep), i) = at
    <3>1. i \in 0..(Len(s) + 1) /\ i <= i BY <1>2
    <3> QED BY <3>1, CountInserted
  <2> QED BY <2>2, <2>3
<1> HIDE DEF t, at
<1>7. CASE v \in keep
  <2>1. FilterInsert(Flags(s, keep), i, v, keep)
           = Fed(Flags(t, keep), <<InsertDiff(at, v)>>)
    BY <1>4, <1>6, <1>7, Zenon DEF FilterInsert
  <2>2. /\ Applicable(InsertDiff(at, v), w)
        /\ Apply(InsertDiff(at, v), w) = VecInsert(w, at, v)
    BY <1>5, ApplyInsert
  <2>3. VecInsert(w, at, v) \in Seq(V) BY <1>1, <1>5, InsertedIs
  <2> PICK d : d = InsertDiff(at, v) OBVIOUS
  <2> PICK o : o = <<d>> OBVIOUS
  <2>4. Filtered(Fed(Flags(t, keep), o), s, t, keep)
    BY <1>3, <1>5, <1>7, <2>2, <2>3, FilteredOne DEF w
  <2> QED BY <2>1, <2>4 DEF t
<1>8. CASE v \notin keep
  <2>1. FilterInsert(Flags(s, keep), i, v, keep) = Fed(Flags(t, keep), <<>>)
    BY <1>4, <1>8, Zenon DEF FilterInsert
  <2>2. Filtered(Fed(Flags(t, keep), <<>>), s, t, keep)
    BY <1>3, <1>5, <1>8, FilteredNone DEF w
  <2> QED BY <2>1, <2>2 DEF t
<1> QED BY <1>7, <1>8

LEMMA FilterRemoved ==
    ASSUME NEW V, NEW s \in Seq(V), NEW i \in 0..(Len(s) - 1), NEW keep
    PROVE  Filtered(FilterRemove(Flags(s, keep), i), s, VecRemove(s, i), keep)
<1> DEFINE w == Passed(s, keep)
           t == VecRemove(s, i)
           at == UpTo(Passing(s, keep), i)
<1>1. w \in Seq(V) /\ Matches(w, s, keep) BY PassedMatch
<1>2. Len(s) \in Nat /\ i + 1 \in 1..Len(s) BY LenProperties
<1>3. t \in Seq(V) /\ Len(t) = Len(s) - 1 BY Removed
<1>4. VecRemove(Flags(s, keep), i) = Flags(t, keep) BY FlagsRemoved
<1> HIDE DEF w
<1>5. /\ s[i + 1] \in keep =>
            at \in 0..(Len(w) - 1) /\ Matches(VecRemove(w, at), t, keep)
      /\ s[i + 1] \notin keep => Matches(w, t, keep)
      /\ UpTo(Passing(t, keep), i) = at
  BY <1>1, MatchRemoved
<1>6. FindIndex(Flags(t, keep), i) = at
  <2>1. i \in 0..Len(t) BY <1>2, <1>3
  <2>2. FindIndex(Flags(t, keep), i) = UpTo(Passing(t, keep), i)
    <3> HIDE DEF t, at
    <3> QED BY <1>3, <2>1, FindIs DEF Flags
  <2> QED BY <1>5, <2>2
<1>9. Flags(s, keep)[i + 1] <=> s[i + 1] \in keep BY <1>2, FlagsAre
<1> HIDE DEF t, at
<1>7. CASE s[i + 1] \in keep
  <2>1. FilterRemove(Flags(s, keep), i) = Fed(Flags(t, keep), <<RemoveDiff(at)>>)
    BY <1>4, <1>6, <1>7, <1>9, Zenon DEF FilterRemove
  <2>2. /\ Applicable(RemoveDiff(at), w)
        /\ Apply(RemoveDiff(at), w) = VecRemove(w, at)
    BY <1>5, <1>7, ApplyRemove
  <2>3. VecRemove(w, at) \in Seq(V) BY <1>1, <1>5, <1>7, RemovedIs
  <2> PICK d : d = RemoveDiff(at) OBVIOUS
  <2> PICK o : o = <<d>> OBVIOUS
  <2>4. Filtered(Fed(Flags(t, keep), o), s, t, keep)
    BY <1>3, <1>5, <1>7, <2>2, <2>3, FilteredOne DEF w
  <2> QED BY <2>1, <2>4 DEF t
<1>8. CASE s[i + 1] \notin keep
  <2>1. FilterRemove(Flags(s, keep), i) = Fed(Flags(t, keep), <<>>)
    BY <1>4, <1>8, <1>9, Zenon DEF FilterRemove
  <2>2. Filtered(Fed(Flags(t, keep), <<>>), s, t, keep)
    BY <1>3, <1>5, <1>8, FilteredNone DEF w
  <2> QED BY <2>1, <2>2 DEF t
<1> QED BY <1>7, <1>8

LEMMA FilterUpdated ==
    ASSUME NEW V, NEW s \in Seq(V), NEW v \in V, NEW i \in 0..(Len(s) - 1),
           NEW keep
    PROVE  Filtered(FilterUpdate(Flags(s, keep), i, v, keep), s,
                    ReplaceAt(s, i + 1, v), keep)
<1> DEFINE w == Passed(s, keep)
           r == VecRemove(s, i)
           t == ReplaceAt(s, i + 1, v)
           at == UpTo(Passing(s, keep), i)
<1>1. w \in Seq(V) /\ Matches(w, s, keep) BY PassedMatch
<1>2. Len(s) \in Nat /\ i + 1 \in 1..Len(s) BY LenProperties
<1>3. r \in Seq(V) /\ Len(r) = Len(s) - 1 BY Removed
<1>4. t \in Seq(V) /\ t = VecInsert(r, i, v) BY Replaced DEF SameAsReplaced
<1>5. ReplaceAt(Flags(s, keep), i + 1, v \in keep) = Flags(t, keep)
  BY FlagsReplaced
<1>6. FindIndex(Flags(s, keep), i) = at
  <2>1. i \in 0..Len(s) BY <1>2
  <2> QED BY <2>1, FindIs DEF Flags
<1>7. Flags(s, keep)[i + 1] <=> s[i + 1] \in keep BY <1>2, FlagsAre
<1>8. i \in 0..Len(r) BY <1>2, <1>3
<1> HIDE DEF w
<1>9. /\ s[i + 1] \in keep =>
            at \in 0..(Len(w) - 1) /\ Matches(VecRemove(w, at), r, keep)
      /\ s[i + 1] \notin keep => Matches(w, r, keep)
      /\ UpTo(Passing(r, keep), i) = at
  BY <1>1, MatchRemoved
<1> HIDE DEF r, t, at
<1>10. \A x \in Seq(V) : Matches(x, r, keep) =>
          /\ at \in 0..Len(x)
          /\ v \in keep => Matches(VecInsert(x, at, v), t, keep)
          /\ v \notin keep => Matches(x, t, keep)
  BY <1>3, <1>4, <1>8, <1>9, MatchInserted
<1>11. CASE s[i + 1] \in keep
  <2>1. VecRemove(w, at) \in Seq(V) BY <1>1, <1>9, <1>11, RemovedIs
  <2>2. at \in 0..(Len(w) - 1) /\ Matches(VecRemove(w, at), r, keep)
    BY <1>9, <1>11
  <2>3. CASE v \in keep
    <3>1. FilterUpdate(Flags(s, keep), i, v, keep)
             = Fed(Flags(t, keep), <<UpdateDiff(at, v)>>)
      BY <1>5, <1>6, <1>7, <1>11, <2>3, Zenon DEF FilterUpdate
    <3>2. /\ ReplaceAt(w, at + 1, v) \in Seq(V)
          /\ ReplaceAt(w, at + 1, v) = VecInsert(VecRemove(w, at), at, v)
      BY <1>1, <2>2, Replaced DEF SameAsReplaced
    <3>3. Matches(ReplaceAt(w, at + 1, v), t, keep)
      BY <1>10, <2>1, <2>2, <2>3, <3>2
    <3>4. /\ Applicable(UpdateDiff(at, v), w)
          /\ Apply(UpdateDiff(at, v), w) = ReplaceAt(w, at + 1, v)
      BY <2>2, ApplyUpdate
    <3> PICK d : d = UpdateDiff(at, v) OBVIOUS
    <3> PICK o : o = <<d>> OBVIOUS
    <3>5. Filtered(Fed(Flags(t, keep), o), s, t, keep)
      BY <1>4, <3>2, <3>3, <3>4, FilteredOne DEF w
    <3> QED BY <3>1, <3>5 DEF t
  <2>4. CASE v \notin keep
    <3>1. FilterUpdate(Flags(s, keep), i, v, keep)
             = Fed(Flags(t, keep), <<RemoveDiff(at)>>)
      BY <1>5, <1>6, <1>7, <1>11, <2>4, Zenon DEF FilterUpdate
    <3>2. Matches(VecRemove(w, at), t, keep) BY <1>10, <2>1, <2>2, <2>4
    <3>3. /\ Applicable(RemoveDiff(at), w)
          /\ Apply(RemoveDiff(at), w) = VecRemove(w, at)
      BY <2>2, ApplyRemove
    <3> PICK d : d = RemoveDiff(at) OBVIOUS
    <3> PICK o : o = <<d>> OBVIOUS
    <3>4. Filtered(Fed(Flags(t, keep), o), s, t, keep)
      BY <1>4, <2>1, <3>2, <3>3, FilteredOne DEF w
    <3> QED BY <3>1, <3>4 DEF t
  <2> QED BY <2>3, <2>4
<1>12. CASE s[i + 1] \notin keep
  <2>1. Matches(w, r, keep) BY <1>9, <1>12
  <2>3. CASE v \in keep
    <3>1. FilterUpdate(Flags(s, keep), i, v, keep)
             = Fed(Flags(t, keep), <<InsertDiff(at, v)>>)
      BY <1>5, <1>6, <1>7, <1>12, <2>3, Zenon DEF FilterUpdate
    <3>2. at \in 0..Len(w) /\ Matches(VecInsert(w, at, v), t, keep)
      BY <1>1, <1>10, <2>1, <2>3
    <3>3. /\ Applicable(InsertDiff(at, v), w)
          /\ Apply(InsertDiff(at, v), w) = VecInsert(w, at, v)
      BY <3>2, ApplyInsert
    <3>4. VecInsert(w, at, v) \in Seq(V) BY <1>1, <3>2, InsertedIs
    <3> PICK d : d = InsertDiff(at, v) OBVIOUS
    <3> PICK o : o = <<d>> OBVIOUS
    <3>5. Filtered(Fed(Flags(t, keep), o), s, t, keep)
      BY <1>4, <3>2, <3>3, <3>4, FilteredOne DEF w
    <3> QED BY <3>1, <3>5 DEF t
  <2>4. CASE v \notin keep
    <3>1. FilterUpdate(Flags(s, keep), i, v, keep) = Fed(Flags(t, keep), <<>>)
      BY <1>5, <1>6, <1>7, <1>12, <2>4, Zenon DEF FilterUpdate
    <3>2. Matches(w, t, keep) BY <1>1, <1>10, <2>1, <2>4
    <3>3. Filtered(Fed(Flags(t, keep), <<>>), s, t, keep)
      BY <1>4, <3>2, FilteredNone DEF w
    <3> QED BY <3>1, <3>3 DEF t
  <2> QED BY <2>3, <2>4
<1> QED BY <1>11, <1>12

LEMMA FilterPushed ==
    ASSUME NEW V, NEW s \in Seq(V), NEW v \in V, NEW keep
    PROVE  Filtered(FilterPush(Flags(s, keep), v, keep), s, Append(s, v), keep)
<1> DEFINE w == Passed(s, keep)
           t == Append(s, v)
           P == Passing(s, keep)
<1>1. w \in Seq(V) /\ Matches(w, s, keep) BY PassedMatch
<1>2. Len(s) \in Nat /\ P \in SUBSET (1..Len(s)) BY PassingIs
<1>3. t \in Seq(V) /\ t = VecInsert(s, Len(s), v) BY Pushed
<1>4. Append(Flags(s, keep), v \in keep) = Flags(t, keep) BY FlagsPushed
<1> HIDE DEF w
<1>5. UpTo(P, Len(s)) = Len(w)
  <2>1. Len(w) = Cardinality(P) BY <1>1 DEF Matches
  <2> HIDE DEF P
  <2> QED BY <1>2, <2>1, CountIs
<1>6. /\ v \in keep => Matches(VecInsert(w, Len(w), v), t, keep)
      /\ v \notin keep => Matches(w, t, keep)
  <2> PICK n \in 0..Len(s) : n = Len(s) BY <1>2
  <2>1. /\ v \in keep => Matches(VecInsert(w, UpTo(P, n), v),
                                 VecInsert(s, n, v), keep)
        /\ v \notin keep => Matches(w, VecInsert(s, n, v), keep)
    BY <1>1, MatchInserted
  <2> HIDE DEF t, P
  <2> QED BY <1>3, <1>5, <2>1
<1>7. Append(w, v) \in Seq(V) /\ Append(w, v) = VecInsert(w, Len(w), v)
  BY <1>1, Pushed
<1> HIDE DEF t, P
<1>8. CASE v \in keep
  <2>1. FilterPush(Flags(s, keep), v, keep) = Fed(Flags(t, keep), <<PushDiff(v)>>)
    BY <1>4, <1>8, Zenon DEF FilterPush
  <2>2. /\ Applicable(PushDiff(v), w)
        /\ Apply(PushDiff(v), w) = Append(w, v)
    BY ApplyPush
  <2> PICK d : d = PushDiff(v) OBVIOUS
  <2> PICK o : o = <<d>> OBVIOUS
  <2>4. Filtered(Fed(Flags(t, keep), o), s, t, keep)
    BY <1>3, <1>6, <1>7, <1>8, <2>2, FilteredOne DEF w
  <2> QED BY <2>1, <2>4 DEF t
<1>9. CASE v \notin keep
  <2>1. FilterPush(Flags(s, keep), v, keep) = Fed(Flags(t, keep), <<>>)
    BY <1>4, <1>9, Zenon DEF FilterPush
  <2>2. Filtered(Fed(Flags(t, keep), <<>>), s, t, keep)
    BY <1>3, <1>6, <1>9, FilteredNone DEF w
  <2> QED BY <2>1, <2>2 DEF t
<1> QED BY <1>8, <1>9

LEMMA FilterPopped ==
    ASSUME NEW V, NEW s \in Seq(V), s # <<>>, NEW keep
    PROVE  Filtered(FilterPop(Flags(s, keep)), s, VecPop(s), keep)
<1> DEFINE w == Passed(s, keep)
           t == VecPop(s)
           P == Passing(s, keep)
<1>1. w \in Seq(V) /\ Matches(w, s, keep) BY PassedMatch
<1>2. Len(s) \in Nat \ {0} /\ P \in SUBSET (1..Len(s))
  BY PassingIs, LenProperties, EmptySeq
<1>3. t \in Seq(V) /\ t = VecRemove(s, Len(s) - 1) BY Popped
<1>4. VecPop(Flags(s, keep)) = Flags(t, keep) BY FlagsPopped
<1>5. Last(Flags(s, keep)) <=> s[Len(s)] \in keep
  <2>1. Len(s) \in 1..Len(s) BY <1>2
  <2>3. Len(Flags(s, keep)) = Len(s) BY FlagsAre
  <2>2. Flags(s, keep)[Len(s)] <=> s[Len(s)] \in keep BY <2>1, FlagsAre
  <2> QED BY <2>2, <2>3, Zenon DEF Last
<1> HIDE DEF w
<1>6. Len(w) = Cardinality(P) BY <1>1 DEF Matches
<1> PICK n \in 0..(Len(s) - 1) : n = Len(s) - 1 BY <1>2
<1>7. /\ s[n + 1] \in keep =>
            /\ UpTo(P, n) \in 0..(Len(w) - 1)
            /\ Matches(VecRemove(w, UpTo(P, n)), VecRemove(s, n), keep)
      /\ s[n + 1] \notin keep => Matches(w, VecRemove(s, n), keep)
  BY <1>1, MatchRemoved
<1>8. s[n + 1] = s[Len(s)] BY <1>2
<1>9. CASE s[Len(s)] \in keep
  <2>1. UpTo(P, n) = Len(w) - 1
    <3>1. Len(s) \in P BY <1>2, <1>9, PassingIs
    <3> HIDE DEF P
    <3>2. UpTo(P, Len(s)) = UpTo(P, n) + 1 BY <1>2, <3>1, CountStep
    <3>3. UpTo(P, Len(s)) = Cardinality(P) /\ UpTo(P, n) \in Nat
      <4>1. n \in Nat BY <1>2
      <4> QED BY <1>2, <4>1, CountIs
    <3> QED BY <1>6, <3>2, <3>3
  <2> HIDE DEF P, t
  <2>2. Len(w) - 1 \in 0..(Len(w) - 1) BY <1>7, <1>8, <1>9, <2>1
  <2>3. w # <<>>
    <3>1. Len(w) # 0 BY <1>1, <2>2, LenProperties
    <3> QED BY <3>1
  <2>4. VecPop(w) \in Seq(V) /\ VecPop(w) = VecRemove(w, Len(w) - 1)
    BY <1>1, <2>3, Popped
  <2>5. Matches(VecPop(w), t, keep) BY <1>3, <1>7, <1>8, <1>9, <2>1, <2>4
  <2>6. FilterPop(Flags(s, keep)) = Fed(Flags(t, keep), <<PopDiff>>)
    BY <1>4, <1>5, <1>9, Zenon DEF FilterPop
  <2>7. Applicable(PopDiff, w) /\ Apply(PopDiff, w) = VecPop(w)
    BY <2>3, ApplyPop
  <2> PICK d : d = PopDiff OBVIOUS
  <2> PICK o : o = <<d>> OBVIOUS
  <2>8. Filtered(Fed(Flags(t, keep), o), s, t, keep)
    BY <1>3, <2>4, <2>5, <2>7, FilteredOne DEF w
  <2> QED BY <2>6, <2>8 DEF t
<1>10. CASE s[Len(s)] \notin keep
  <2> HIDE DEF P, t
  <2>1. Matches(w, t, keep) BY <1>3, <1>7, <1>8, <1>10
  <2>2. FilterPop(Flags(s, keep)) = Fed(Flags(t, keep), <<>>)
    BY <1>4, <1>5, <1>10, Zenon DEF FilterPop
  <2>3. Filtered(Fed(Flags(t, keep), <<>>), s, t, keep)
    BY <1>3, <2>1, FilteredNone DEF w
  <2> QED BY <2>2, <2>3 DEF t
<1> QED BY <1>9, <1>10

LEMMA FilterReplaced ==
    ASSUME NEW V, NEW s \in Seq(V), NEW t \in Seq(V), NEW keep
    PROVE  Filtered(FilterReplace(t, keep), s, t, keep)
<1> DEFINE w == Passed(t, keep)
<1>1. w \in Seq(V) /\ Matches(w, t, keep) BY PassedMatch
<1> HIDE DEF w
<1>2. Applicable(ReplaceDiff(w), Passed(s, keep))
      /\ Apply(ReplaceDiff(w), Passed(s, keep)) = w
  BY ApplyReplace
<1>3. FilterReplace(t, keep) = Fed(Flags(t, keep), <<ReplaceDiff(w)>>)
  BY Zenon DEF FilterReplace, Flags, w
<1> PICK d : d = ReplaceDiff(w) OBVIOUS
<1> PICK o : o = <<d>> OBVIOUS
<1>4. Filtered(Fed(Flags(t, keep), o), s, t, keep)
  BY <1>1, <1>2, FilteredOne
<1> QED BY <1>3, <1>4

LEMMA FilterCleared ==
    ASSUME NEW V, NEW s \in Seq(V), NEW keep
    PROVE  Filtered(Fed(<<>>, <<ClearDiff>>), s, <<>>, keep)
<1> PICK t : t = <<>> OBVIOUS
<1>1. t \in Seq(V) /\ Len(t) = 0 /\ DOMAIN t = {} OBVIOUS
<1>2. Flags(t, keep) = <<>> BY <1>1 DEF Flags
<1>3. Passing(t, keep) = {} BY <1>1 DEF Passing
<1>4. Matches(<<>>, t, keep) BY <1>3, FS_EmptySet DEF Matches
<1>5. /\ Applicable(ClearDiff, Passed(s, keep))
      /\ Apply(ClearDiff, Passed(s, keep)) = t
  BY ApplyClear
<1> PICK d : d = ClearDiff OBVIOUS
<1> PICK o : o = <<d>> OBVIOUS
<1>6. Filtered(Fed(Flags(t, keep), o), s, t, keep)
  BY <1>1, <1>4, <1>5, FilteredOne
<1> QED BY <1>2, <1>6

\* What filter makes of any diff but Move: the flags stay in step with the values,
\* and the output stays the values that the callback lets through.
THEOREM FilterFollows ==
    ASSUME NEW V, NEW max \in Nat, NEW s \in SeqOf(V, max),
           NEW d \in LegalDiffs(s, V, max), d.op # "Move", NEW keep
    PROVE  Filtered(FilterFeed(Flags(s, keep), d, keep), s, Apply(d, s), keep)
<1>1. s \in Seq(V) /\ Len(s) \in Nat BY ShortSeqs, LenProperties
<1> DEFINE Goal ==
        Filtered(FilterFeed(Flags(s, keep), d, keep), s, Apply(d, s), keep)
<1> SUFFICES Goal OBVIOUS
<1>2. CASE \E vs \in SeqOf(V, max) : d = ReplaceDiff(vs)
  <2> PICK vs \in SeqOf(V, max) : d = ReplaceDiff(vs) BY <1>2
  <2>1. vs \in Seq(V) BY ShortSeqs
  <2>2. d.op = "Replace" /\ d.values = vs BY DEF ReplaceDiff
  <2>3. FilterFeed(Flags(s, keep), d, keep) = FilterReplace(vs, keep)
    BY <2>2, Zenon DEF FilterFeed
  <2> QED BY <1>1, <2>1, <2>3, ApplyReplace, FilterReplaced
<1>3. CASE Len(s) # max /\ \E i \in 0..Len(s), v \in V : d = InsertDiff(i, v)
  <2> PICK i \in 0..Len(s), v \in V : d = InsertDiff(i, v) BY <1>3
  <2>2. d.op = "InsertAt" /\ d.index = i /\ d.value = v BY DEF InsertDiff
  <2>3. FilterFeed(Flags(s, keep), d, keep)
           = FilterInsert(Flags(s, keep), i, v, keep)
    BY <2>2, Zenon DEF FilterFeed
  <2> QED BY <1>1, <2>3, ApplyInsert, FilterInserted
<1>4. CASE Len(s) # max /\ \E v \in V : d = PushDiff(v)
  <2> PICK v \in V : d = PushDiff(v) BY <1>4
  <2>2. d.op = "Push" /\ d.value = v BY DEF PushDiff
  <2>3. FilterFeed(Flags(s, keep), d, keep) = FilterPush(Flags(s, keep), v, keep)
    BY <2>2, Zenon DEF FilterFeed
  <2> QED BY <1>1, <2>3, ApplyPush, FilterPushed
<1>5. CASE \E i \in 0..(Len(s) - 1), v \in V : d = UpdateDiff(i, v)
  <2> PICK i \in 0..(Len(s) - 1), v \in V : d = UpdateDiff(i, v) BY <1>5
  <2>2. d.op = "UpdateAt" /\ d.index = i /\ d.value = v BY DEF UpdateDiff
  <2>3. FilterFeed(Flags(s, keep), d, keep)
           = FilterUpdate(Flags(s, keep), i, v, keep)
    BY <2>2, Zenon DEF FilterFeed
  <2> QED BY <1>1, <2>3, ApplyUpdate, FilterUpdated
<1>6. CASE \E i \in 0..(Len(s) - 1) : d = RemoveDiff(i)
  <2> PICK i \in 0..(Len(s) - 1) : d = RemoveDiff(i) BY <1>6
  <2>2. d.op = "RemoveAt" /\ d.index = i BY DEF RemoveDiff
  <2>3. FilterFeed(Flags(s, keep), d, keep) = FilterRemove(Flags(s, keep), i)
    BY <2>2, Zenon DEF FilterFeed
  <2> QED BY <1>1, <2>3, ApplyRemove, FilterRemoved
<1>7. CASE \E i, j \in 0..(Len(s) - 1) : d = MoveDiff(i, j)
  <2>1. d.op = "Move" BY <1>7 DEF MoveDiff
  <2> QED BY <2>1
<1>8. CASE (\E i \in 1..Len(s) : TRUE) /\ d = PopDiff
  <2>1. s # <<>> BY <1>8, EmptySeq
  <2>2. d.op = "Pop" BY <1>8 DEF PopDiff
  <2>3. FilterFeed(Flags(s, keep), d, keep) = FilterPop(Flags(s, keep))
    BY <2>2, Zenon DEF FilterFeed
  <2> QED BY <1>1, <1>8, <2>1, <2>3, ApplyPop, FilterPopped
<1>9. CASE d = ClearDiff
  <2>2. d.op = "Clear" BY <1>9 DEF ClearDiff
  <2>3. FilterFeed(Flags(s, keep), d, keep) = Fed(<<>>, <<ClearDiff>>)
    BY <2>2, Zenon DEF FilterFeed
  <2> QED BY <1>1, <1>9, <2>3, ApplyClear, FilterCleared
<1> HIDE DEF Goal
<1> QED BY <1>2, <1>3, <1>4, <1>5, <1>6, <1>7, <1>8, <1>9, LegalIs

-----------------------------------------------------------------------------
(* The signals.                                                            *)

LEMMA SumIs ==
    ASSUME NEW s \in Seq(Int), NEW g, Sums(g, s)
    PROVE  SumOf(s) = g[Len(s)]
<1> DEFINE Recursive(f) ==
                f = [i \in 0..Len(s) |-> IF i = 0 THEN 0 ELSE f[i - 1] + s[i]]
           upTo == CHOOSE f : Recursive(f)
<1>1. Len(s) \in Nat BY LenProperties
<1>2. Recursive(g)
  <2>1. ASSUME NEW i \in 0..Len(s)
        PROVE  g[i] = IF i = 0 THEN 0 ELSE g[i - 1] + s[i]
    <3>1. i # 0 => i \in 1..Len(s) BY <1>1
    <3> QED BY <3>1 DEF Sums
  <2> QED BY <2>1 DEF Sums
<1>3. Recursive(upTo) BY <1>2, Zenon
<1>4. SumOf(s) = upTo[Len(s)] BY DEF SumOf
<1> HIDE DEF upTo
<1>5. \A i \in 0..Len(s) : upTo[i] = IF i = 0 THEN 0 ELSE upTo[i - 1] + s[i]
  BY <1>3
<1> DEFINE wrong == {i \in 0..Len(s) : upTo[i] # g[i]}
<1>6. wrong = {}
  <2> SUFFICES ASSUME wrong # {} PROVE FALSE OBVIOUS
  <2>1. wrong \in SUBSET Nat OBVIOUS
  <2>2. PICK n \in wrong : \A k \in wrong : ~(k < n) BY <2>1, LeastNat
  <2>3. n \in 0..Len(s) /\ upTo[n] # g[n] BY <2>2
  <2>4. n # 0 BY <1>5, <2>3 DEF Sums
  <2>5. n \in 1..Len(s) /\ n - 1 \in 0..Len(s) /\ n - 1 < n BY <1>1, <2>3, <2>4
  <2>6. upTo[n - 1] = g[n - 1] BY <2>2, <2>5
  <2>7. upTo[n] = upTo[n - 1] + s[n] BY <1>5, <2>3, <2>4
  <2> QED BY <2>3, <2>5, <2>6, <2>7 DEF Sums
<1>7. Len(s) \in 0..Len(s) BY <1>1
<1> QED BY <1>4, <1>6, <1>7

LEMMA SumsExist ==
    ASSUME NEW s \in Seq(Int)
    PROVE  \E g : Sums(g, s)
<1> DEFINE Upto(g, n) == /\ g \in [0..n -> Int]
                         /\ g[0] = 0
                         /\ \A i \in 1..n : g[i] = g[i - 1] + s[i]
           wrong == {n \in 0..Len(s) : \A g : ~Upto(g, n)}
<1>1. Len(s) \in Nat /\ \A i \in 1..Len(s) : s[i] \in Int
  BY LenProperties, ElementOfSeq
<1>2. wrong = {}
  <2> SUFFICES ASSUME wrong # {} PROVE FALSE OBVIOUS
  <2>1. wrong \in SUBSET Nat BY <1>1
  <2>2. PICK n \in wrong : \A k \in wrong : ~(k < n)
    <3> HIDE DEF wrong
    <3> QED BY <2>1, LeastNat
  <2>3. n \in 0..Len(s) /\ \A g : ~Upto(g, n) BY <2>2
  <2>4. n # 0
    <3>1. Upto([i \in 0..0 |-> 0], 0) OBVIOUS
    <3> QED BY <2>3, <3>1
  <2>5. n - 1 \in 0..Len(s) /\ n - 1 < n /\ n \in 1..Len(s) BY <1>1, <2>3, <2>4
  <2>6. PICK g : Upto(g, n - 1) BY <2>2, <2>5
  <2> DEFINE h == [i \in 0..n |-> IF i = n THEN g[n - 1] + s[n] ELSE g[i]]
  <2>7. h \in [0..n -> Int]
    <3>1. g[n - 1] \in Int /\ s[n] \in Int BY <1>1, <2>5, <2>6
    <3>2. \A i \in 0..n : i # n => g[i] \in Int BY <1>1, <2>5, <2>6
    <3> QED BY <3>1, <3>2
  <2>8. h[0] = 0 BY <2>4, <2>5, <2>6
  <2>9. ASSUME NEW i \in 1..n PROVE h[i] = h[i - 1] + s[i]
    <3>1. CASE i = n
      <4>1. h[n] = g[n - 1] + s[n] /\ h[n - 1] = g[n - 1] BY <2>5
      <4> QED BY <3>1, <4>1
    <3>2. CASE i # n
      <4>1. i \in 1..(n - 1) /\ i \in 0..n /\ i - 1 \in 0..n /\ i - 1 # n
        BY <2>5, <3>2
      <4>2. h[i] = g[i] /\ h[i - 1] = g[i - 1] BY <3>2, <4>1
      <4> QED BY <2>6, <4>1, <4>2
    <3> QED BY <3>1, <3>2
  <2>10. Upto(h, n) BY <2>7, <2>8, <2>9
  <2> QED BY <2>3, <2>10
<1>3. Len(s) \in 0..Len(s) BY <1>1
<1> QED BY <1>2, <1>3 DEF Sums

\* An insertion adds the value.
LEMMA SumInserted ==
    ASSUME NEW s \in Seq(Int), NEW v \in Int, NEW i \in 0..Len(s)
    PROVE  SumOf(VecInsert(s, i, v)) = SumOf(s) + v /\ SumOf(s) \in Int
<1> DEFINE t == VecInsert(s, i, v)
<1>1. Len(s) \in Nat BY LenProperties
<1>2. t \in Seq(Int) /\ IsInserted(t, s, i, v) BY InsertedIs
<1> HIDE DEF t
<1>3. /\ Len(t) = Len(s) + 1
      /\ \A p \in 1..(Len(s) + 1) :
            t[p] = IF p <= i THEN s[p] ELSE IF p = i + 1 THEN v ELSE s[p - 1]
  BY <1>2 DEF IsInserted
<1> PICK g : Sums(g, s) BY SumsExist
<1>4. /\ g \in [0..Len(s) -> Int] /\ g[0] = 0
      /\ \A p \in 1..Len(s) : g[p] = g[p - 1] + s[p]
  BY DEF Sums
<1>5. SumOf(s) = g[Len(s)] /\ g[Len(s)] \in Int BY <1>1, <1>4, SumIs
<1> DEFINE h == [p \in 0..(Len(s) + 1) |->
                    IF p <= i THEN g[p] ELSE g[p - 1] + v]
<1>6. h \in [0..(Len(s) + 1) -> Int]
  <2> SUFFICES ASSUME NEW p \in 0..(Len(s) + 1)
               PROVE  (IF p <= i THEN g[p] ELSE g[p - 1] + v) \in Int
    OBVIOUS
  <2>1. CASE p <= i
    <3>1. p \in 0..Len(s) BY <1>1, <2>1
    <3> QED BY <1>4, <2>1, <3>1
  <2>2. CASE ~(p <= i)
    <3>1. p - 1 \in 0..Len(s) BY <1>1, <2>2
    <3>2. g[p - 1] \in Int BY <1>4, <3>1
    <3> QED BY <2>2, <3>2
  <2> QED BY <2>1, <2>2
<1>7. h[0] = 0 BY <1>1, <1>4
<1>8. ASSUME NEW p \in 1..(Len(s) + 1) PROVE h[p] = h[p - 1] + t[p]
  <2>0. p \in 0..(Len(s) + 1) /\ p - 1 \in 0..(Len(s) + 1) BY <1>1
  <2>1. CASE p <= i
    <3>1. p \in 1..Len(s) /\ p - 1 <= i BY <1>1, <2>1
    <3>2. h[p] = g[p] /\ h[p - 1] = g[p - 1] BY <2>0, <2>1, <3>1
    <3>3. t[p] = s[p] BY <1>3, <2>1
    <3> HIDE DEF h
    <3> QED BY <1>4, <3>1, <3>2, <3>3
  <2>2. CASE p = i + 1
    <3>1. ~(p <= i) /\ p - 1 = i /\ p - 1 <= i BY <1>1, <2>2
    <3>2. h[p] = g[p - 1] + v /\ h[p - 1] = g[p - 1] BY <2>0, <3>1
    <3>3. t[p] = v BY <1>3, <2>2, <3>1
    <3> HIDE DEF h
    <3> QED BY <3>2, <3>3
  <2>3. CASE p > i + 1
    <3>1. ~(p <= i) /\ ~(p - 1 <= i) /\ p # i + 1 /\ p - 1 \in 1..Len(s)
      BY <1>1, <2>3
    <3>2. h[p] = g[p - 1] + v /\ h[p - 1] = g[p - 1 - 1] + v BY <2>0, <3>1
    <3>3. t[p] = s[p - 1] BY <1>3, <3>1
    <3>4. g[p - 1] = g[p - 1 - 1] + s[p - 1] BY <1>4, <3>1
    <3>5. g[p - 1 - 1] \in Int /\ s[p - 1] \in Int
      <4>1. p - 1 - 1 \in 0..Len(s) BY <1>1, <3>1
      <4> QED BY <1>4, <3>1, <4>1, ElementOfSeq
    <3> HIDE DEF h
    <3> QED BY <3>2, <3>3, <3>4, <3>5
  <2> QED BY <1>1, <2>1, <2>2, <2>3
<1>9. h[Len(s) + 1] = g[Len(s)] + v
  <2>1. /\ Len(s) + 1 \in 0..(Len(s) + 1) /\ ~(Len(s) + 1 <= i)
        /\ Len(s) + 1 - 1 = Len(s)
    BY <1>1
  <2> QED BY <2>1
<1> HIDE DEF h
<1>10. Sums(h, t) BY <1>3, <1>6, <1>7, <1>8 DEF Sums
<1>11. SumOf(t) = h[Len(s) + 1] BY <1>2, <1>3, <1>10, SumIs
<1> QED BY <1>5, <1>9, <1>11 DEF t

\* A move leaves the sum as it was.
LEMMA SumMoved ==
    ASSUME NEW s \in Seq(Int), NEW i \in 0..(Len(s) - 1), NEW j \in 0..(Len(s) - 1)
    PROVE  SumOf(VecMove(s, i, j)) = SumOf(s)
<1> DEFINE r == VecRemove(s, i)
<1>1. Len(s) \in Nat BY LenProperties
<1> PICK v \in Int : v = s[i + 1] BY <1>1, ElementOfSeq
<1>2. r \in Seq(Int) /\ Len(r) = Len(s) - 1 BY Removed
<1>3. s = VecInsert(r, i, v)
  <2>1. ReplaceAt(s, i + 1, v) = VecInsert(r, i, v)
    BY Replaced DEF SameAsReplaced
  <2>2. ReplaceAt(s, i + 1, v) = s
    <3> PICK t : t = ReplaceAt(s, i + 1, v) OBVIOUS
    <3>1. /\ t \in Seq(Int) /\ Len(t) = Len(s)
          /\ \A p \in 1..Len(s) : t[p] = IF p = i + 1 THEN v ELSE s[p]
      BY <1>1 DEF ReplaceAt
    <3>2. \A p \in 1..Len(s) : t[p] = s[p] BY <3>1
    <3>3. t = s BY <3>1, <3>2, SeqEqual
    <3> QED BY <3>3
  <2> QED BY <2>1, <2>2
<1>4. i \in 0..Len(r) /\ j \in 0..Len(r) BY <1>1, <1>2
<1>5. VecMove(s, i, j) = VecInsert(r, j, v) BY DEF VecMove
<1> HIDE DEF r
<1>6. SumOf(VecInsert(r, i, v)) = SumOf(r) + v BY <1>2, <1>4, SumInserted
<1>7. SumOf(VecInsert(r, j, v)) = SumOf(r) + v BY <1>2, <1>4, SumInserted
<1> QED BY <1>3, <1>5, <1>6, <1>7, Zenon

\* A signal that is not marked as changed by a diff has the value that it had: len
\* and is_empty do not look at updates and Moves, nor sum at Moves.
THEOREM ValueFollows ==
    ASSUME NEW signal \in Signals, NEW V \in SUBSET Nat, NEW max \in Nat,
           NEW s \in SeqOf(V, max), NEW d \in LegalDiffs(s, V, max), NEW e,
           e.values = s, e.changed \in BOOLEAN,
           ~ValueFeed(signal, e, d).st.changed,
           e = [values |-> e.values, changed |-> e.changed, first |-> e.first,
                old |-> e.old]
    PROVE  ~e.changed /\ Value(signal, Apply(d, s)) = Value(signal, s)
<1>1. s \in Seq(V) /\ Len(s) \in Nat BY ShortSeqs, LenProperties
<1> DEFINE t == Apply(d, s)
           changes == CASE signal \in {"len", "is_empty"} -> LenChanges(d, e.values)
                        [] signal = "sum" -> d.op # "Move"
                        [] OTHER -> TRUE
           next == ValueState(Apply(d, e.values), changes, e)
<1>2. ValueFeed(signal, e, d).st = next BY Zenon DEF ValueFeed, Fed
<1> HIDE DEF changes
<1>3. next.changed = (e.changed \/ changes) BY DEF ValueState
<1> HIDE DEF next
<1>4. ~e.changed /\ ~changes BY <1>2, <1>3
<1>5. CASE signal \in {"len", "is_empty"}
  <2>1. ~LenChanges(d, s) BY <1>4, <1>5, Zenon DEF changes
  <2>2. t \in Seq(V) BY LegalApplies, ShortSeqs
  <2>3. Len(t) = Len(s)
    <3>1. CASE \E vs \in SeqOf(V, max) : d = ReplaceDiff(vs)
      <4> PICK vs \in SeqOf(V, max) : d = ReplaceDiff(vs) BY <3>1
      <4>1. d.op = "Replace" /\ d.values = vs BY DEF ReplaceDiff
      <4>2. Len(vs) = Len(s) BY <2>1, <4>1, Zenon DEF LenChanges
      <4> QED BY <4>2, ApplyReplace
    <3>2. CASE \E i \in 0..(Len(s) - 1), v \in V : d = UpdateDiff(i, v)
      <4> PICK i \in 0..(Len(s) - 1), v \in V : d = UpdateDiff(i, v) BY <3>2
      <4>1. Len(ReplaceAt(s, i + 1, v)) = Len(s) BY <1>1, Replaced
      <4> QED BY <4>1, ApplyUpdate
    <3>3. CASE \E i, j \in 0..(Len(s) - 1) : d = MoveDiff(i, j)
      <4> PICK i \in 0..(Len(s) - 1), j \in 0..(Len(s) - 1) : d = MoveDiff(i, j)
        BY <3>3
      <4> DEFINE r == VecRemove(s, i)
      <4> PICK v \in V : v = s[i + 1] BY <1>1, ElementOfSeq
      <4>1. r \in Seq(V) /\ Len(r) = Len(s) - 1 BY <1>1, Removed
      <4>2. t = VecInsert(r, j, v) BY ApplyMove DEF VecMove
      <4>3. j \in 0..Len(r) BY <1>1, <4>1
      <4> HIDE DEF r, t
      <4>4. Len(VecInsert(r, j, v)) = Len(r) + 1 BY <4>1, <4>3, Inserted
      <4> QED BY <1>1, <4>1, <4>2, <4>4
    <3>4. CASE d = ClearDiff
      <4>1. d.op = "Clear" BY <3>4 DEF ClearDiff
      <4>2. s = <<>> BY <2>1, <4>1, Zenon DEF LenChanges
      <4> QED BY <3>4, <4>2, ApplyClear
    <3>5. CASE d.op \in {"InsertAt", "RemoveAt", "Push", "Pop"}
      <4>1. LenChanges(d, s) BY <3>5, Zenon DEF LenChanges
      <4> QED BY <2>1, <4>1
    <3> HIDE DEF t
    <3> QED BY <3>1, <3>2, <3>3, <3>4, <3>5, LegalIs
            DEF InsertDiff, RemoveDiff, PushDiff, PopDiff
  <2> HIDE DEF t
  <2>4. t = <<>> <=> s = <<>> BY <1>1, <2>2, <2>3, EmptySeq
  <2>5. (t = <<>>) = (s = <<>>) BY <2>4
  <2>6. Value(signal, t) = Value(signal, s)
    <3>1. CASE signal = "len"
      <4>1. Value(signal, t) = Some(Len(t)) /\ Value(signal, s) = Some(Len(s))
        BY <3>1, Zenon DEF Value
      <4> QED BY <2>3, <4>1
    <3>2. CASE signal = "is_empty"
      <4>1. signal # "len" BY <3>2
      <4>2. Value(signal, t) = Some(t = <<>>) /\ Value(signal, s) = Some(s = <<>>)
        BY <3>2, <4>1, Zenon DEF Value
      <4> QED BY <2>5, <4>2, Zenon
    <3> QED BY <1>5, <3>1, <3>2
  <2> QED BY <1>4, <2>6 DEF t
<1>6. CASE signal = "sum"
  <2>1. d.op = "Move" BY <1>4, <1>6, Zenon DEF changes
  <2>2. \E i, j \in 0..(Len(s) - 1) : d = MoveDiff(i, j)
    BY <2>1, LegalIs
    DEF ReplaceDiff, InsertDiff, UpdateDiff, RemoveDiff, PushDiff, PopDiff,
        ClearDiff
  <2> PICK i \in 0..(Len(s) - 1), j \in 0..(Len(s) - 1) : d = MoveDiff(i, j)
    BY <2>2
  <2>3. s \in Seq(Int) BY <1>1
  <2>4. SumOf(t) = SumOf(s) BY <2>3, ApplyMove, SumMoved
  <2> HIDE DEF t
  <2>5. Value(signal, t) = Some(SumOf(t)) /\ Value(signal, s) = Some(SumOf(s))
    BY <1>6, Zenon DEF Value
  <2> QED BY <1>4, <2>4, <2>5 DEF t
<1>7. CASE signal = "to_signal_map"
  <2>1. changes BY <1>7, Zenon DEF changes
  <2> QED BY <1>4, <2>1
<1> QED BY <1>5, <1>6, <1>7 DEF Signals

-----------------------------------------------------------------------------
(* enumerate.                                                              *)

\* A value that is removed and put back.
LEMMA PutBack ==
    ASSUME NEW V, NEW s \in Seq(V), NEW i \in 0..(Len(s) - 1)
    PROVE  VecInsert(VecRemove(s, i), i, s[i + 1]) = s
<1>1. Len(s) \in Nat /\ i + 1 \in 1..Len(s) BY LenProperties
<1> PICK v \in V : v = s[i + 1] BY <1>1, ElementOfSeq
<1>2. ReplaceAt(s, i + 1, v) = VecInsert(VecRemove(s, i), i, v)
  <2>1. SameAsReplaced(s, i, v) BY Replaced
  <2> QED BY <2>1 DEF SameAsReplaced
<1>3. ReplaceAt(s, i + 1, v) = s
  <2> PICK t : t = ReplaceAt(s, i + 1, v) OBVIOUS
  <2>1. /\ t \in Seq(V) /\ Len(t) = Len(s)
        /\ \A p \in 1..Len(s) : t[p] = IF p = i + 1 THEN v ELSE s[p]
    BY <1>1 DEF ReplaceAt
  <2>2. \A p \in 1..Len(s) : t[p] = s[p] BY <2>1
  <2>3. t = s BY <2>1, <2>2, SeqEqual
  <2> QED BY <2>3
<1> QED BY <1>2, <1>3

LEMMA LabelledIs ==
    ASSUME NEW D, NEW V, NEW m \in Seq(D), NEW s \in Seq(V), Len(m) = Len(s)
    PROVE  Labelled(m, s) \in Seq(D \X V) /\ IsLabelled(Labelled(m, s), m, s)
<1>1. Len(s) \in Nat /\ DOMAIN s = 1..Len(s) BY LenProperties
<1>2. \A k \in 1..Len(s) : m[k] \in D /\ s[k] \in V BY ElementOfSeq
<1> QED BY <1>1, <1>2 DEF Labelled, IsLabelled, Pair

LEMMA LabelledInserted ==
    ASSUME NEW D, NEW V, NEW m \in Seq(D), NEW s \in Seq(V), Len(m) = Len(s),
           NEW i \in 0..Len(s), NEW x \in D, NEW v \in V
    PROVE  LabelsInserted(m, s, i, x, v)
<1> DEFINE P == D \X V
           m1 == VecInsert(m, i, x)
           s1 == VecInsert(s, i, v)
           o == Labelled(m, s)
           a == Labelled(m1, s1)
<1> PICK w \in P : w = Pair(x, v) BY DEF Pair
<1> DEFINE b == VecInsert(o, i, w)
<1>1. Len(s) \in Nat BY LenProperties
<1>2. m1 \in Seq(D) /\ IsInserted(m1, m, i, x) BY InsertedIs
<1>3. s1 \in Seq(V) /\ IsInserted(s1, s, i, v) BY InsertedIs
<1>4. o \in Seq(P) /\ IsLabelled(o, m, s) BY LabelledIs
<1> HIDE DEF m1, s1, o
<1>5. Len(m1) = Len(s) + 1 /\ Len(s1) = Len(s) + 1
  BY <1>2, <1>3 DEF IsInserted
<1>6. a \in Seq(P) /\ IsLabelled(a, m1, s1)
  BY <1>2, <1>3, <1>5, LabelledIs
<1> HIDE DEF a, P
<1>7. b \in Seq(P) /\ IsInserted(b, o, i, w)
  <2>1. Len(o) = Len(s) BY <1>4 DEF IsLabelled
  <2>2. i \in 0..Len(o) BY <2>1
  <2> QED BY <1>4, <2>2, InsertedIs
<1> HIDE DEF b
<1>8. ASSUME NEW k \in 1..(Len(s) + 1) PROVE a[k] = b[k]
  <2>0. \A p \in 1..Len(s) : o[p] = Pair(m[p], s[p])
    BY <1>4 DEF IsLabelled
  <2>1. a[k] = Pair(m1[k], s1[k]) BY <1>5, <1>6 DEF IsLabelled
  <2>2. m1[k] = IF k <= i THEN m[k] ELSE IF k = i + 1 THEN x ELSE m[k - 1]
    BY <1>2 DEF IsInserted
  <2>3. s1[k] = IF k <= i THEN s[k] ELSE IF k = i + 1 THEN v ELSE s[k - 1]
    BY <1>3 DEF IsInserted
  <2>4. b[k] = IF k <= i THEN o[k] ELSE IF k = i + 1 THEN w ELSE o[k - 1]
    <3>1. \A p \in 1..Len(b) : b[p] = IF p <= i THEN o[p] ELSE IF p = i + 1 THEN w ELSE o[p - 1]
      BY <1>7 DEF IsInserted
    <3>2. Len(o) = Len(s) BY <1>4 DEF IsLabelled
    <3>3. k \in 1..Len(b) BY <1>7, <3>2 DEF IsInserted
    <3> QED BY <3>1, <3>3
  <2>5. CASE k <= i
    <3>1. k \in 1..Len(s) BY <1>1, <2>5
    <3> QED BY <2>0, <2>1, <2>2, <2>3, <2>4, <2>5, <3>1
  <2>6. CASE ~(k <= i) /\ k = i + 1 BY <2>1, <2>2, <2>3, <2>4, <2>6
  <2>7. CASE ~(k <= i) /\ k # i + 1
    <3>1. k - 1 \in 1..Len(s) BY <1>1, <2>7
    <3> QED BY <2>0, <2>1, <2>2, <2>3, <2>4, <2>7, <3>1
  <2> QED BY <2>5, <2>6, <2>7
<1>9. Len(a) = Len(s) + 1 /\ Len(b) = Len(s) + 1
  BY <1>4, <1>5, <1>6, <1>7 DEF IsInserted, IsLabelled
<1>10. a = b BY <1>6, <1>7, <1>8, <1>9, SeqEqual
<1> QED BY <1>10 DEF a, b, m1, s1, o, LabelsInserted

LEMMA LabelledRemoved ==
    ASSUME NEW D, NEW V, NEW m \in Seq(D), NEW s \in Seq(V), Len(m) = Len(s),
           NEW i \in 0..(Len(s) - 1)
    PROVE  Labelled(VecRemove(m, i), VecRemove(s, i))
              = VecRemove(Labelled(m, s), i)
<1> DEFINE P == D \X V
           m1 == VecRemove(m, i)
           s1 == VecRemove(s, i)
           o == Labelled(m, s)
           a == Labelled(m1, s1)
           b == VecRemove(o, i)
<1>1. Len(s) \in Nat BY LenProperties
<1>2. m1 \in Seq(D) /\ IsRemoved(m1, m, i) BY RemovedIs
<1>3. s1 \in Seq(V) /\ IsRemoved(s1, s, i) BY RemovedIs
<1>4. o \in Seq(P) /\ IsLabelled(o, m, s) BY LabelledIs
<1> HIDE DEF m1, s1, o
<1>5. Len(m1) = Len(s) - 1 /\ Len(s1) = Len(s) - 1
  BY <1>2, <1>3 DEF IsRemoved
<1>6. a \in Seq(P) /\ IsLabelled(a, m1, s1)
  BY <1>2, <1>3, <1>5, LabelledIs
<1> HIDE DEF a, P
<1>7. b \in Seq(P) /\ IsRemoved(b, o, i)
  <2>1. Len(o) = Len(s) BY <1>4 DEF IsLabelled
  <2>2. i \in 0..(Len(o) - 1) BY <2>1
  <2> QED BY <1>4, <2>2, RemovedIs
<1> HIDE DEF b
<1>8. ASSUME NEW k \in 1..(Len(s) - 1) PROVE a[k] = b[k]
  <2>0. \A p \in 1..Len(s) : o[p] = Pair(m[p], s[p])
    BY <1>4 DEF IsLabelled
  <2>1. a[k] = Pair(m1[k], s1[k]) BY <1>5, <1>6 DEF IsLabelled
  <2>2. m1[k] = IF k <= i THEN m[k] ELSE m[k + 1] BY <1>2 DEF IsRemoved
  <2>3. s1[k] = IF k <= i THEN s[k] ELSE s[k + 1] BY <1>3 DEF IsRemoved
  <2>4. b[k] = IF k <= i THEN o[k] ELSE o[k + 1]
    <3>1. \A p \in 1..Len(b) : b[p] = IF p <= i THEN o[p] ELSE o[p + 1]
      BY <1>7 DEF IsRemoved
    <3>2. Len(o) = Len(s) BY <1>4 DEF IsLabelled
    <3>3. k \in 1..Len(b) BY <1>7, <3>2 DEF IsRemoved
    <3> QED BY <3>1, <3>3
  <2>5. k \in 1..Len(s) /\ k + 1 \in 1..Len(s) BY <1>1
  <2> QED BY <2>0, <2>1, <2>2, <2>3, <2>4, <2>5
<1>9. Len(a) = Len(s) - 1 /\ Len(b) = Len(s) - 1
  BY <1>4, <1>5, <1>6, <1>7 DEF IsRemoved, IsLabelled
<1>10. a = b BY <1>1, <1>6, <1>7, <1>8, <1>9, SeqEqual
<1> QED BY <1>10 DEF a, b, m1, s1, o

\* What each diff that enumerate puts out makes of them.
LEMMA LabelledUpdate ==
    ASSUME NEW D, NEW V, NEW m \in Seq(D), NEW s \in Seq(V), Len(m) = Len(s),
           NEW i \in 0..(Len(s) - 1), NEW v \in V
    PROVE  \A w : w = Pair(m[i + 1], v) =>
              ReplaceAt(Labelled(m, s), i + 1, w)
                 = Labelled(m, ReplaceAt(s, i + 1, v))
<1> DEFINE P == D \X V
           m1 == VecRemove(m, i)
           s1 == VecRemove(s, i)
           o == Labelled(m, s)
<1>1. Len(s) \in Nat /\ i + 1 \in 1..Len(s) BY LenProperties
<1> PICK x \in D : x = m[i + 1] BY <1>1, ElementOfSeq
<1> SUFFICES ASSUME NEW w, w = Pair(x, v)
             PROVE  ReplaceAt(o, i + 1, w) = Labelled(m, ReplaceAt(s, i + 1, v))
  OBVIOUS
<1>2. w \in P BY DEF Pair
<1>3. o \in Seq(P) /\ Len(o) = Len(s)
  <2>1. o \in Seq(P) /\ IsLabelled(o, m, s) BY LabelledIs
  <2> QED BY <2>1 DEF IsLabelled
<1>4. /\ m1 \in Seq(D) /\ Len(m1) = Len(s) - 1
      /\ s1 \in Seq(V) /\ Len(s1) = Len(s) - 1
  BY Removed
<1>5. m = VecInsert(m1, i, x) BY PutBack
<1>6. ReplaceAt(s, i + 1, v) = VecInsert(s1, i, v)
  BY Replaced DEF SameAsReplaced
<1>7. ReplaceAt(o, i + 1, w) = VecInsert(VecRemove(o, i), i, w)
  <2> HIDE DEF o, P
  <2>1. i \in 0..(Len(o) - 1) BY <1>3
  <2>2. SameAsReplaced(o, i, w) BY <1>2, <1>3, <2>1, Replaced
  <2> QED BY <2>2 DEF SameAsReplaced
<1>8. VecRemove(o, i) = Labelled(m1, s1) BY LabelledRemoved
<1>9. i \in 0..Len(s1) BY <1>1, <1>4
<1> HIDE DEF o, m1, s1
<1>10. Labelled(VecInsert(m1, i, x), VecInsert(s1, i, v))
          = VecInsert(Labelled(m1, s1), i, Pair(x, v))
  <2>1. Len(m1) = Len(s1) BY <1>4
  <2>2. LabelsInserted(m1, s1, i, x, v) BY <1>4, <1>9, <2>1, LabelledInserted
  <2> QED BY <2>2 DEF LabelsInserted
<1> QED BY <1>5, <1>6, <1>7, <1>8, <1>10, Zenon

LEMMA LabelledMove ==
    ASSUME NEW D, NEW V, NEW m \in Seq(D), NEW s \in Seq(V), Len(m) = Len(s),
           NEW i \in 0..(Len(s) - 1), NEW j \in 0..(Len(s) - 1)
    PROVE  VecMove(Labelled(m, s), i, j)
              = Labelled(VecMove(m, i, j), VecMove(s, i, j))
<1> DEFINE m1 == VecRemove(m, i)
           s1 == VecRemove(s, i)
           o == Labelled(m, s)
<1>1. Len(s) \in Nat /\ i + 1 \in 1..Len(s) BY LenProperties
<1> PICK x \in D : x = m[i + 1] BY <1>1, ElementOfSeq
<1> PICK v \in V : v = s[i + 1] BY <1>1, ElementOfSeq
<1>2. o[i + 1] = Pair(x, v)
  <2>1. IsLabelled(o, m, s) BY LabelledIs
  <2> QED BY <1>1, <2>1 DEF IsLabelled
<1>4. /\ m1 \in Seq(D) /\ Len(m1) = Len(s) - 1
      /\ s1 \in Seq(V) /\ Len(s1) = Len(s) - 1
  BY Removed
<1>8. VecRemove(o, i) = Labelled(m1, s1) BY LabelledRemoved
<1>9. j \in 0..Len(s1) BY <1>1, <1>4
<1> HIDE DEF o, m1, s1
<1>10. Labelled(VecInsert(m1, j, x), VecInsert(s1, j, v))
          = VecInsert(Labelled(m1, s1), j, Pair(x, v))
  <2>1. Len(m1) = Len(s1) BY <1>4
  <2>2. LabelsInserted(m1, s1, j, x, v) BY <1>4, <1>9, <2>1, LabelledInserted
  <2> QED BY <2>2 DEF LabelsInserted
<1>11. VecMove(o, i, j) = VecInsert(VecRemove(o, i), j, o[i + 1])
  BY Zenon DEF VecMove
<1>12. VecMove(m, i, j) = VecInsert(m1, j, x) /\ VecMove(s, i, j) = VecInsert(s1, j, v)
  BY Zenon DEF VecMove, m1, s1
<1>13. VecMove(o, i, j) = Labelled(VecMove(m, i, j), VecMove(s, i, j))
  BY <1>2, <1>8, <1>10, <1>11, <1>12, Zenon
<1> QED BY <1>13 DEF o

LEMMA HeldIf ==
    ASSUME NEW n \in 0..MaxLen, NEW M \in Seq(Names), Len(M) = n, NEW I,
           I = [m \in Names |-> I[m]],
           \A k \in 1..n : I[M[k]] = k - 1,
           \A m \in Names : (\A k \in 1..n : M[k] # m) => I[m] = NoIndex
    PROVE  Held(M, I, n) /\ Numbered(EnumerateState(M, I), n)
<1>1. MaxLen \in Nat BY BoundsAssumption
<1>2. ASSUME NEW m \in Names PROVE I[m] \in NoIndex..MaxLen
  <2>1. CASE \E k \in 1..n : M[k] = m
    <3> PICK k \in 1..n : M[k] = m BY <2>1
    <3>1. I[M[k]] = k - 1 OBVIOUS
    <3>2. I[m] = k - 1 BY <3>1
    <3> QED BY <1>1, <3>2 DEF NoIndex
  <2>2. CASE \A k \in 1..n : M[k] # m BY <1>1, <2>2 DEF NoIndex
  <2> QED BY <2>1, <2>2
<1> HIDE DEF Names
<1>3. I \in [Names -> NoIndex..MaxLen] BY <1>2
<1>4. Held(M, I, n) BY <1>3 DEF Held
<1> QED BY <1>4 DEF Held, Numbered, EnumerateState, Names

LEMMA HeldOne ==
    ASSUME NEW M, NEW I, NEW n, Held(M, I, n), NEW j \in 1..n, NEW k \in 1..n,
           M[j] = M[k]
    PROVE  j = k
<1>1. n \in Nat BY BoundsAssumption DEF Held
<1>2. I[M[j]] = j - 1 /\ I[M[k]] = k - 1 BY DEF Held
<1> QED BY <1>1, <1>2

\* There is a free name for each value that there is room for.
LEMMA FreshIs ==
    ASSUME NEW M, NEW I, NEW n, Held(M, I, n), NEW k \in 1..MaxLen
    PROVE  /\ IsFresh(Fresh(EnumerateState(M, I), k), M, n)
           /\ UpTo(Names \ ToSet(M), Fresh(EnumerateState(M, I), k)) = k
<1> DEFINE used == ToSet(M)
           free == Names \ used
           f == [j \in 1..n |-> M[j]]
<1>1. /\ MaxLen \in Nat /\ n \in 0..MaxLen /\ 2 * MaxLen \in Nat
      /\ M \in Seq(Names) /\ Len(M) = n /\ DOMAIN M = 1..n /\ DOMAIN I = Names
  BY BoundsAssumption DEF Held
<1>2. \A m : m \in used <=> \E j \in 1..n : M[j] = m BY <1>1 DEF ToSet
<1>3. IsFiniteSet(1..n) /\ Cardinality(1..n) = n BY <1>1, FS_Interval
<1>4. IsFiniteSet(Names) /\ Cardinality(Names) = 2 * MaxLen
  BY <1>1, FS_Interval DEF Names
<1> HIDE DEF used
<1>5. f \in Surjection(1..n, used) BY <1>2 DEF Surjection
<1>6. IsFiniteSet(used) /\ Cardinality(used) <= n
  <2> HIDE DEF f
  <2> QED BY <1>3, <1>5, FS_Surjection
<1>7. \A j \in 1..n : M[j] \in Names BY <1>1, ElementOfSeq
<1>8. Names \cap used = used BY <1>2, <1>7
<1>9. Cardinality(free) = 2 * MaxLen - Cardinality(used)
  <2>1. Cardinality(Names \ used)
           = Cardinality(Names) - Cardinality(Names \cap used)
    BY <1>4, FS_Difference
  <2> QED BY <1>4, <1>8, <2>1
<1>10. Cardinality(used) \in Nat BY <1>6, FS_CardinalityType
<1>11. k \in 1..Cardinality(free) BY <1>1, <1>6, <1>9, <1>10
<1>12. free \in SUBSET (1..(2 * MaxLen)) BY DEF Names
<1>13. Fresh(EnumerateState(M, I), k) = CHOOSE m \in free : UpTo(free, m) = k
  BY <1>1 DEF Fresh, EnumerateState, UpTo, used
<1> HIDE DEF free
<1> PICK N \in Nat : N = 2 * MaxLen BY <1>1
<1>14. \E m \in free : UpTo(free, m) = k BY <1>11, <1>12, CountOnto
<1>15. /\ Fresh(EnumerateState(M, I), k) \in free
       /\ UpTo(free, Fresh(EnumerateState(M, I), k)) = k
  BY <1>13, <1>14
<1> QED BY <1>2, <1>15 DEF free, used, IsFresh

LEMMA FreshFirst ==
    ASSUME NEW M, NEW I, NEW n, Held(M, I, n), n # MaxLen
    PROVE  IsFresh(Fresh(EnumerateState(M, I), 1), M, n)
<1>1. n \in 0..MaxLen /\ MaxLen \in Nat BY BoundsAssumption DEF Held
<1> PICK k \in 1..MaxLen : k = 1 BY <1>1
<1>2. IsFresh(Fresh(EnumerateState(M, I), k), M, n) BY FreshIs
<1> QED BY <1>2

LEMMA FreshDiffer ==
    ASSUME NEW M, NEW I, NEW n, Held(M, I, n), NEW j \in 1..MaxLen,
           NEW k \in 1..MaxLen,
           Fresh(EnumerateState(M, I), j) = Fresh(EnumerateState(M, I), k)
    PROVE  j = k
<1>1. UpTo(Names \ ToSet(M), Fresh(EnumerateState(M, I), j)) = j BY FreshIs
<1>2. UpTo(Names \ ToSet(M), Fresh(EnumerateState(M, I), k)) = k BY FreshIs
<1> QED BY <1>1, <1>2

LEMMA EnumeratedOne ==
    ASSUME NEW M, NEW s, NEW t, NEW M1, NEW I1, NEW d,
           Numbered(EnumerateState(M1, I1), Len(t)),
           Applicable(d, Labelled(M, s)),
           Apply(d, Labelled(M, s)) = Labelled(M1, t)
    PROVE  \A o : o = <<d>> =>
              Enumerated(Fed(EnumerateState(M1, I1), o), M, s, t)
<1> SUFFICES ASSUME NEW o, o = <<d>>
             PROVE  Enumerated(Fed(EnumerateState(M1, I1), o), M, s, t)
  OBVIOUS
<1>1. Yields(o, Labelled(M, s), Labelled(M1, t)) BY YieldsOne
<1> QED BY <1>1 DEF Enumerated, Fed, EnumerateState

LEMMA EnumeratePushed ==
    ASSUME NEW V, NEW s \in Seq(V), NEW v \in V, NEW M, NEW I,
           Held(M, I, Len(s)), Len(s) # MaxLen
    PROVE  Enumerated(EnumeratePush(EnumerateState(M, I), v), M, s,
                      Append(s, v))
<1> DEFINE n == Len(s)
           x == Fresh(EnumerateState(M, I), 1)
           M1 == Append(M, x)
           I1 == [I EXCEPT ![x] = n]
           o == Labelled(M, s)
           t == Append(s, v)
<1>1. /\ MaxLen \in Nat /\ n \in 0..MaxLen /\ 1 \in 1..MaxLen
      /\ M \in Seq(Names) /\ Len(M) = n /\ DOMAIN I = Names
  BY BoundsAssumption DEF Held
<1>2. x \in Names /\ \A j \in 1..n : M[j] # x BY FreshFirst DEF IsFresh
<1>3. EnumeratePush(EnumerateState(M, I), v)
         = Fed(EnumerateState(M1, I1), <<PushDiff(Pair(x, v))>>)
  BY <1>1 DEF EnumeratePush, EnumerateState, Pair
<1> HIDE DEF x
<1>4. M1 \in Seq(Names) /\ M1 = VecInsert(M, n, x)
  BY <1>1, <1>2, Pushed
<1>5. IsInserted(M1, M, n, x)
  <2>1. n \in 0..Len(M) BY <1>1
  <2> HIDE DEF n
  <2> QED BY <1>1, <1>2, <1>4, <2>1, InsertedIs
<1>6. t \in Seq(V) /\ Len(t) = n + 1 /\ t = VecInsert(s, n, v) BY Pushed
<1>7. Numbered(EnumerateState(M1, I1), n + 1)
  <2> HIDE DEF M1
  <2>1. n + 1 \in 0..MaxLen BY <1>1
  <2>2. Len(M1) = n + 1 BY <1>1, <1>5 DEF IsInserted
  <2>3. I1 = [m \in Names |-> I1[m]] BY <1>1
  <2>4. \A k \in 1..(n + 1) : M1[k] = IF k <= n THEN M[k] ELSE x
    BY <1>1, <1>5 DEF IsInserted
  <2>5. \A m \in Names : I1[m] = IF m = x THEN n ELSE I[m] BY <1>1
  <2> HIDE DEF I1
  <2>6. ASSUME NEW k \in 1..(n + 1) PROVE I1[M1[k]] = k - 1
    <3>1. CASE k <= n
      <4>1. k \in 1..n BY <1>1, <3>1
      <4>2. M[k] \in Names /\ M[k] # x /\ I[M[k]] = k - 1
        BY <1>1, <1>2, <4>1, ElementOfSeq DEF Held
      <4> QED BY <2>4, <2>5, <3>1, <4>2
    <3>2. CASE ~(k <= n)
      <4>1. k = n + 1 BY <1>1, <3>2
      <4> QED BY <1>1, <1>2, <2>4, <2>5, <3>2, <4>1
    <3> QED BY <3>1, <3>2
  <2>7. ASSUME NEW m \in Names, \A k \in 1..(n + 1) : M1[k] # m
        PROVE  I1[m] = NoIndex
    <3>1. m # x
      <4>1. n + 1 \in 1..(n + 1) /\ ~(n + 1 <= n) BY <1>1
      <4> QED BY <2>4, <2>7, <4>1
    <3>2. ASSUME NEW k \in 1..n PROVE M[k] # m
      <4>1. k \in 1..(n + 1) /\ k <= n BY <1>1
      <4> QED BY <2>4, <2>7, <4>1
    <3> QED BY <2>5, <3>1, <3>2 DEF Held
  <2> HIDE DEF n
  <2> QED BY <1>4, <2>1, <2>2, <2>3, <2>6, <2>7, HeldIf
<1>8. Apply(PushDiff(Pair(x, v)), o) = Labelled(M1, t)
  <2>1. o \in Seq(Names \X V) /\ Len(o) = n
    <3>1. o \in Seq(Names \X V) /\ IsLabelled(o, M, s) BY <1>1, LabelledIs
    <3> QED BY <3>1 DEF IsLabelled
  <2>2. n \in 0..Len(s) BY <1>1
  <2>3. LabelsInserted(M, s, n, x, v)
    <3> HIDE DEF n
    <3> QED BY <1>1, <1>2, <2>2, LabelledInserted DEF n
  <2>4. Labelled(M1, t) = VecInsert(o, n, Pair(x, v))
    BY <1>4, <1>6, <2>3 DEF LabelsInserted
  <2> PICK w \in Names \X V : w = Pair(x, v) BY <1>2 DEF Pair
  <2> HIDE DEF o, M1, t
  <2>5. Append(o, w) = VecInsert(o, n, w) BY <2>1, Pushed
  <2> QED BY <2>4, <2>5, ApplyPush
<1>9. Applicable(PushDiff(Pair(x, v)), o) BY ApplyPush
<1> HIDE DEF M1, I1, o, t
<1> QED BY <1>3, <1>6, <1>7, <1>8, <1>9, EnumeratedOne DEF o, t

LEMMA EnumerateInserted ==
    ASSUME NEW V, NEW s \in Seq(V), NEW v \in V, NEW M, NEW I,
           Held(M, I, Len(s)), Len(s) # MaxLen, NEW i \in 0..Len(s)
    PROVE  Enumerated(EnumerateInsert(EnumerateState(M, I), i, v), M, s,
                      VecInsert(s, i, v))
<1> DEFINE n == Len(s)
           x == Fresh(EnumerateState(M, I), 1)
           M1 == VecInsert(M, i, x)
           later == Slice(M1, i + 1, Len(M1))
           shifted == Shifted(EnumerateState(M, I), later, 1)
           I1 == [shifted EXCEPT ![x] = i]
           o == Labelled(M, s)
           t == VecInsert(s, i, v)
<1>1. /\ MaxLen \in Nat /\ n \in 0..MaxLen
      /\ M \in Seq(Names) /\ Len(M) = n /\ DOMAIN I = Names
  BY BoundsAssumption DEF Held
<1>2. x \in Names /\ \A j \in 1..n : M[j] # x BY FreshFirst DEF IsFresh
<1>3. EnumerateInsert(EnumerateState(M, I), i, v)
         = Fed(EnumerateState(M1, I1), <<InsertDiff(i, Pair(x, v))>>)
  BY <1>1 DEF EnumerateInsert, EnumerateState, Pair
<1>4. i \in 0..Len(M) BY <1>1
<1>5. shifted = [m \in Names |-> IF m \in later /\ I[m] # NoIndex THEN I[m] + 1
                                 ELSE I[m]]
  BY <1>1 DEF Shifted, EnumerateState
<1> HIDE DEF x, shifted
<1>6. M1 \in Seq(Names) /\ IsInserted(M1, M, i, x)
  <2> HIDE DEF n
  <2> QED BY <1>1, <1>2, <1>4, InsertedIs
<1> HIDE DEF M1
<1>7. /\ Len(M1) = n + 1
      /\ \A k \in 1..(n + 1) :
            M1[k] = IF k <= i THEN M[k] ELSE IF k = i + 1 THEN x ELSE M[k - 1]
  BY <1>1, <1>6 DEF IsInserted
<1>8. \A m : m \in later <=> \E k \in (i + 2)..(n + 1) : M1[k] = m
  BY <1>1, <1>7 DEF Slice
<1> HIDE DEF later
<1>9. Numbered(EnumerateState(M1, I1), n + 1)
  <2>1. n + 1 \in 0..MaxLen BY <1>1
  <2>3. I1 = [m \in Names |-> I1[m]] BY <1>5
  <2>5. \A m \in Names : I1[m] = IF m = x THEN i
                                 ELSE IF m \in later /\ I[m] # NoIndex
                                      THEN I[m] + 1 ELSE I[m]
    BY <1>5
  <2> HIDE DEF I1
  <2>6. ASSUME NEW k \in 1..(n + 1) PROVE I1[M1[k]] = k - 1
    <3>1. CASE k <= i
      <4>1. k \in 1..n BY <1>1, <3>1
      <4>2. M[k] \in Names /\ M[k] # x /\ I[M[k]] = k - 1
        BY <1>1, <1>2, <4>1, ElementOfSeq DEF Held
      <4>3. ASSUME M[k] \in later PROVE FALSE
        <5>1. PICK j \in (i + 2)..(n + 1) : M1[j] = M[k] BY <1>8, <4>3
        <5>2. j - 1 \in 1..n /\ j \in 1..(n + 1) /\ ~(j <= i) /\ j # i + 1
          BY <1>1
        <5>3. M[j - 1] = M[k] BY <1>7, <5>1, <5>2
        <5>4. j - 1 = k BY <4>1, <5>2, <5>3, HeldOne
        <5> QED BY <1>1, <3>1, <5>4
      <4>4. M1[k] = M[k] BY <1>7, <3>1
      <4> QED BY <2>5, <4>2, <4>3, <4>4
    <3>2. CASE k = i + 1
      <4>1. M1[k] = x BY <1>1, <1>7, <3>2
      <4> QED BY <1>2, <2>5, <3>2, <4>1
    <3>3. CASE ~(k <= i) /\ k # i + 1
      <4>1. k - 1 \in 1..n /\ k \in (i + 2)..(n + 1) BY <1>1, <3>3
      <4>2. M1[k] = M[k - 1] BY <1>7, <3>3
      <4>3. M[k - 1] \in Names /\ M[k - 1] # x /\ I[M[k - 1]] = k - 1 - 1
        BY <1>1, <1>2, <4>1, ElementOfSeq DEF Held
      <4>4. M1[k] \in later BY <1>8, <4>1
      <4>5. I[M1[k]] = k - 2 /\ k - 2 # NoIndex
        BY <4>1, <4>2, <4>3 DEF NoIndex
      <4> QED BY <2>5, <4>2, <4>3, <4>4, <4>5
    <3> QED BY <3>1, <3>2, <3>3
  <2>7. ASSUME NEW m \in Names, \A k \in 1..(n + 1) : M1[k] # m
        PROVE  I1[m] = NoIndex
    <3>1. m # x
      <4>1. i + 1 \in 1..(n + 1) /\ ~(i + 1 <= i) BY <1>1
      <4> QED BY <1>7, <2>7, <4>1
    <3>2. ASSUME NEW k \in 1..n PROVE M[k] # m
      <4>1. CASE k <= i
        <5>1. k \in 1..(n + 1) BY <1>1
        <5> QED BY <1>7, <2>7, <4>1, <5>1
      <4>2. CASE ~(k <= i)
        <5> PICK j \in 1..(n + 1) : j = k + 1 BY <1>1
        <5>1. ~(j <= i) /\ j # i + 1 /\ j - 1 = k BY <1>1, <4>2
        <5>2. M1[j] = M[k] BY <1>7, <5>1
        <5> QED BY <2>7, <5>2
      <4> QED BY <4>1, <4>2
    <3>3. I[m] = NoIndex BY <3>2 DEF Held
    <3> QED BY <2>5, <3>1, <3>3
  <2> HIDE DEF n
  <2> QED BY <1>6, <1>7, <2>1, <2>3, <2>6, <2>7, HeldIf
<1>10. t \in Seq(V) /\ Len(t) = n + 1 BY Inserted
<1>11. /\ Apply(InsertDiff(i, Pair(x, v)), o) = Labelled(M1, t)
       /\ Applicable(InsertDiff(i, Pair(x, v)), o)
  <2>1. o \in Seq(Names \X V) /\ Len(o) = n
    <3>1. o \in Seq(Names \X V) /\ IsLabelled(o, M, s) BY <1>1, LabelledIs
    <3> QED BY <3>1 DEF IsLabelled
  <2>3. LabelsInserted(M, s, i, x, v) BY <1>1, <1>2, LabelledInserted
  <2>4. Labelled(M1, t) = VecInsert(o, i, Pair(x, v))
    BY <2>3 DEF LabelsInserted, M1
  <2> HIDE DEF o, t
  <2> QED BY <2>1, <2>4, ApplyInsert
<1> HIDE DEF I1, o, t
<1> QED BY <1>3, <1>9, <1>10, <1>11, EnumeratedOne DEF o, t

LEMMA EnumerateRemoved ==
    ASSUME NEW V, NEW s \in Seq(V), NEW M, NEW I, Held(M, I, Len(s)),
           NEW i \in 0..(Len(s) - 1)
    PROVE  Enumerated(EnumerateRemove(EnumerateState(M, I), i), M, s,
                      VecRemove(s, i))
<1> DEFINE n == Len(s)
           x == M[i + 1]
           M1 == VecRemove(M, i)
           later == Slice(M1, i, Len(M1))
           shifted == Shifted(EnumerateState(M, I), later, -1)
           I1 == [shifted EXCEPT ![x] = NoIndex]
           o == Labelled(M, s)
           t == VecRemove(s, i)
<1>1. /\ MaxLen \in Nat /\ n \in 0..MaxLen /\ n \in Nat \ {0}
      /\ M \in Seq(Names) /\ Len(M) = n /\ DOMAIN I = Names
  BY BoundsAssumption DEF Held
<1>2. i + 1 \in 1..n /\ x \in Names BY <1>1, ElementOfSeq
<1>3. EnumerateRemove(EnumerateState(M, I), i)
         = Fed(EnumerateState(M1, I1), <<RemoveDiff(i)>>)
  BY <1>1 DEF EnumerateRemove, EnumerateState
<1>4. i \in 0..(Len(M) - 1) BY <1>1
<1>5. shifted = [m \in Names |-> IF m \in later /\ I[m] # NoIndex THEN I[m] - 1
                                 ELSE I[m]]
  <2>1. \A m \in Names : I[m] \in Int
    BY <1>1 DEF Held, NoIndex
  <2> QED BY <1>1, <2>1 DEF Shifted, EnumerateState
<1> HIDE DEF shifted
<1>6. M1 \in Seq(Names) /\ IsRemoved(M1, M, i)
  <2> HIDE DEF n
  <2> QED BY <1>1, <1>4, RemovedIs
<1> HIDE DEF M1
<1>7. /\ Len(M1) = n - 1
      /\ \A k \in 1..(n - 1) : M1[k] = IF k <= i THEN M[k] ELSE M[k + 1]
  BY <1>1, <1>6 DEF IsRemoved
<1>8. \A m : m \in later <=> \E k \in (i + 1)..(n - 1) : M1[k] = m
  BY <1>1, <1>7 DEF Slice
<1> HIDE DEF later
<1>9. Numbered(EnumerateState(M1, I1), n - 1)
  <2>1. n - 1 \in 0..MaxLen BY <1>1
  <2>3. I1 = [m \in Names |-> I1[m]] BY <1>5
  <2>5. \A m \in Names : I1[m] = IF m = x THEN NoIndex
                                 ELSE IF m \in later /\ I[m] # NoIndex
                                      THEN I[m] - 1 ELSE I[m]
    BY <1>5
  <2> HIDE DEF I1
  <2>6. ASSUME NEW k \in 1..(n - 1) PROVE I1[M1[k]] = k - 1
    <3>1. CASE k <= i
      <4>1. k \in 1..n BY <1>1, <3>1
      <4>2. M[k] \in Names /\ I[M[k]] = k - 1
        BY <1>1, <4>1, ElementOfSeq DEF Held
      <4>3. ASSUME M[k] \in later PROVE FALSE
        <5>1. PICK j \in (i + 1)..(n - 1) : M1[j] = M[k] BY <1>8, <4>3
        <5>2. j + 1 \in 1..n /\ j \in 1..(n - 1) /\ ~(j <= i) BY <1>1
        <5>3. M[j + 1] = M[k] BY <1>7, <5>1, <5>2
        <5>4. j + 1 = k BY <4>1, <5>2, <5>3, HeldOne
        <5> QED BY <1>1, <3>1, <5>4
      <4>4. M1[k] = M[k] BY <1>7, <3>1
      <4>5. M[k] # x
        <5>1. CASE M[k] = x
          <6>1. k = i + 1 BY <1>2, <4>1, <5>1, HeldOne
          <6> QED BY <3>1, <6>1
        <5> QED BY <5>1
      <4> HIDE DEF x
      <4> QED BY <2>5, <4>2, <4>3, <4>4, <4>5
    <3>3. CASE ~(k <= i)
      <4>1. k + 1 \in 1..n /\ k \in (i + 1)..(n - 1) BY <1>1, <3>3
      <4>2. M1[k] = M[k + 1] BY <1>7, <3>3
      <4>3. M[k + 1] \in Names /\ I[M[k + 1]] = k + 1 - 1
        BY <1>1, <4>1, ElementOfSeq DEF Held
      <4>4. M1[k] \in later BY <1>8, <4>1
      <4>5. I[M1[k]] = k /\ k # NoIndex
        BY <4>1, <4>2, <4>3 DEF NoIndex
      <4>6. M[k + 1] # x
        <5>1. CASE M[k + 1] = x
          <6>1. k + 1 = i + 1 BY <1>2, <4>1, <5>1, HeldOne
          <6> QED BY <3>3, <6>1
        <5> QED BY <5>1
      <4> HIDE DEF x
      <4> QED BY <2>5, <4>2, <4>3, <4>4, <4>5, <4>6
    <3> QED BY <3>1, <3>3
  <2>7. ASSUME NEW m \in Names, \A k \in 1..(n - 1) : M1[k] # m
        PROVE  I1[m] = NoIndex
    <3>1. CASE m = x BY <2>5, <3>1
    <3>2. CASE m # x
      <4>1. ASSUME NEW k \in 1..n PROVE M[k] # m
        <5>1. CASE k <= i
          <6>1. k \in 1..(n - 1) BY <1>1, <5>1
          <6> QED BY <1>7, <2>7, <5>1, <6>1
        <5>2. CASE k = i + 1 BY <3>2, <5>2
        <5>3. CASE ~(k <= i) /\ k # i + 1
          <6>1. k - 1 \in 1..(n - 1) /\ ~(k - 1 <= i) /\ k - 1 + 1 = k
            BY <1>1, <5>3
          <6> QED BY <1>7, <2>7, <6>1
        <5> QED BY <5>1, <5>2, <5>3
      <4>2. I[m] = NoIndex BY <4>1 DEF Held
      <4> HIDE DEF x
      <4> QED BY <2>5, <3>2, <4>2
    <3> QED BY <3>1, <3>2
  <2> HIDE DEF n
  <2> QED BY <1>6, <1>7, <2>1, <2>3, <2>6, <2>7, HeldIf
<1>10. t \in Seq(V) /\ Len(t) = n - 1 BY Removed
<1>11. /\ Apply(RemoveDiff(i), o) = Labelled(M1, t)
       /\ Applicable(RemoveDiff(i), o)
  <2>1. o \in Seq(Names \X V) /\ Len(o) = n
    <3>1. o \in Seq(Names \X V) /\ IsLabelled(o, M, s) BY <1>1, LabelledIs
    <3> QED BY <3>1 DEF IsLabelled
  <2>4. Labelled(M1, t) = VecRemove(o, i)
    BY <1>1, LabelledRemoved DEF M1
  <2> HIDE DEF o, t
  <2> QED BY <2>1, <2>4, ApplyRemove
<1> HIDE DEF I1, o, t
<1> QED BY <1>3, <1>9, <1>10, <1>11, EnumeratedOne DEF o, t

LEMMA EnumeratePopped ==
    ASSUME NEW V, NEW s \in Seq(V), s # <<>>, NEW M, NEW I, Held(M, I, Len(s))
    PROVE  Enumerated(EnumeratePop(EnumerateState(M, I)), M, s, VecPop(s))
<1> DEFINE n == Len(s)
           x == M[n]
           M1 == VecPop(M)
           I1 == [I EXCEPT ![x] = NoIndex]
           o == Labelled(M, s)
           t == VecPop(s)
<1>1. /\ MaxLen \in Nat /\ n \in 0..MaxLen /\ n \in Nat \ {0}
      /\ M \in Seq(Names) /\ Len(M) = n /\ DOMAIN I = Names
  BY BoundsAssumption, EmptySeq, LenProperties DEF Held
<1>2. n \in 1..n /\ x \in Names BY <1>1, ElementOfSeq
<1>3. EnumeratePop(EnumerateState(M, I))
         = Fed(EnumerateState(M1, I1), <<PopDiff>>)
  BY <1>1 DEF EnumeratePop, EnumerateState, Last
<1>4. M # <<>> /\ n - 1 \in 0..(Len(M) - 1) BY <1>1, EmptySeq
<1>6. M1 \in Seq(Names) /\ M1 = VecRemove(M, n - 1)
  BY <1>1, <1>4, Popped
<1>7. Len(M1) = n - 1 /\ \A k \in 1..(n - 1) : M1[k] = M[k]
  <2> HIDE DEF M1, n
  <2> PICK j \in 0..(Len(M) - 1) : j = n - 1 BY <1>4
  <2>1. IsRemoved(M1, M, j) BY <1>1, <1>6, RemovedIs
  <2> QED BY <1>1, <2>1 DEF IsRemoved
<1> HIDE DEF M1
<1>9. Numbered(EnumerateState(M1, I1), n - 1)
  <2>1. n - 1 \in 0..MaxLen BY <1>1
  <2>3. I1 = [m \in Names |-> I1[m]] BY <1>1
  <2>5. \A m \in Names : I1[m] = IF m = x THEN NoIndex ELSE I[m] BY <1>1
  <2> HIDE DEF I1
  <2>6. ASSUME NEW k \in 1..(n - 1) PROVE I1[M1[k]] = k - 1
    <3>1. k \in 1..n /\ k # n /\ M1[k] = M[k] BY <1>1, <1>7
    <3>2. M[k] \in Names /\ I[M[k]] = k - 1
      BY <1>1, <3>1, ElementOfSeq DEF Held
    <3>3. CASE M[k] = x
      <4>1. k = n BY <1>2, <3>1, <3>3, HeldOne
      <4> QED BY <3>1, <4>1
    <3> HIDE DEF x
    <3> QED BY <2>5, <3>1, <3>2, <3>3
  <2>7. ASSUME NEW m \in Names, \A k \in 1..(n - 1) : M1[k] # m
        PROVE  I1[m] = NoIndex
    <3>1. CASE m = x BY <2>5, <3>1
    <3>2. CASE m # x
      <4>1. ASSUME NEW k \in 1..n PROVE M[k] # m
        <5>1. CASE k = n BY <3>2, <5>1
        <5>2. CASE k # n
          <6>1. k \in 1..(n - 1) BY <1>1, <5>2
          <6> QED BY <1>7, <2>7, <6>1
        <5> QED BY <5>1, <5>2
      <4>2. I[m] = NoIndex BY <4>1 DEF Held
      <4> HIDE DEF x
      <4> QED BY <2>5, <3>2, <4>2
    <3> QED BY <3>1, <3>2
  <2> HIDE DEF n
  <2> QED BY <1>6, <1>7, <2>1, <2>3, <2>6, <2>7, HeldIf
<1>10. t \in Seq(V) /\ Len(t) = n - 1 /\ t = VecRemove(s, n - 1) BY Popped
<1>11. Apply(PopDiff, o) = Labelled(M1, t) /\ Applicable(PopDiff, o)
  <2>1. o \in Seq(Names \X V) /\ Len(o) = n
    <3>1. o \in Seq(Names \X V) /\ IsLabelled(o, M, s) BY <1>1, LabelledIs
    <3> QED BY <3>1 DEF IsLabelled
  <2>2. o # <<>> BY <1>1, <2>1, EmptySeq
  <2>3. Labelled(M1, t) = VecRemove(o, n - 1)
    <3> PICK j \in 0..(Len(s) - 1) : j = n - 1 BY <1>1
    <3>1. Labelled(VecRemove(M, j), VecRemove(s, j)) = VecRemove(o, j)
      BY <1>1, LabelledRemoved
    <3> QED BY <1>6, <1>10, <3>1
  <2> HIDE DEF o, t
  <2>4. VecPop(o) = VecRemove(o, Len(o) - 1) BY <2>1, <2>2, Popped
  <2> QED BY <2>1, <2>2, <2>3, <2>4, ApplyPop
<1> HIDE DEF I1, o, t
<1> QED BY <1>3, <1>9, <1>10, <1>11, EnumeratedOne DEF o, t

LEMMA EnumerateUpdated ==
    ASSUME NEW V, NEW s \in Seq(V), NEW v \in V, NEW M, NEW I,
           Held(M, I, Len(s)), NEW i \in 0..(Len(s) - 1)
    PROVE  Enumerated(EnumerateUpdate(EnumerateState(M, I), i, v), M, s,
                      ReplaceAt(s, i + 1, v))
<1> DEFINE x == M[i + 1]
           o == Labelled(M, s)
           t == ReplaceAt(s, i + 1, v)
<1>1. /\ M \in Seq(Names) /\ Len(M) = Len(s) /\ Len(s) \in Nat
  BY LenProperties DEF Held
<1>2. i + 1 \in 1..Len(M) /\ x \in Names BY <1>1, ElementOfSeq
<1>3. EnumerateUpdate(EnumerateState(M, I), i, v)
         = Fed(EnumerateState(M, I), <<UpdateDiff(i, Pair(x, v))>>)
  BY DEF EnumerateUpdate, EnumerateState, Pair
<1>4. Len(t) = Len(s) BY <1>1 DEF ReplaceAt
<1>5. Numbered(EnumerateState(M, I), Len(t))
  BY <1>4 DEF Held, Numbered, EnumerateState, Names
<1>6. o \in Seq(Names \X V) /\ Len(o) = Len(s)
  <3>1. o \in Seq(Names \X V) /\ IsLabelled(o, M, s) BY <1>1, LabelledIs
  <3> QED BY <3>1 DEF IsLabelled
<1>7. ReplaceAt(o, i + 1, Pair(x, v)) = Labelled(M, t)
  BY <1>1, LabelledUpdate
<1> HIDE DEF o, t, x
<1>8. /\ Apply(UpdateDiff(i, Pair(x, v)), o) = Labelled(M, t)
      /\ Applicable(UpdateDiff(i, Pair(x, v)), o)
  BY <1>6, <1>7, ApplyUpdate
<1> QED BY <1>3, <1>5, <1>8, EnumeratedOne DEF o, t

LEMMA EnumerateCleared ==
    ASSUME NEW s, NEW M, NEW I, NEW n, Held(M, I, n)
    PROVE  Enumerated(EnumerateClear(EnumerateState(M, I)), M, s, <<>>)
<1> DEFINE I1 == [m \in Names |-> NoIndex]
<1>1. DOMAIN I = Names BY DEF Held
<1>2. EnumerateClear(EnumerateState(M, I))
         = Fed(EnumerateState(<<>>, I1), <<ClearDiff>>)
  BY <1>1 DEF EnumerateClear, EnumerateState
<1>3. <<>> \in Seq(Names) /\ Len(<<>>) = 0 /\ 0 \in 0..MaxLen
  BY BoundsAssumption
<1>4. Numbered(EnumerateState(<<>>, I1), Len(<<>>))
  <2> PICK M1 \in Seq(Names) : M1 = <<>> /\ Len(M1) = 0 BY <1>3
  <2> PICK n1 \in 0..MaxLen : n1 = 0 BY <1>3
  <2>1. \A k \in 1..n1 : FALSE OBVIOUS
  <2>2. I1 = [m \in Names |-> I1[m]] /\ \A m \in Names : I1[m] = NoIndex
    OBVIOUS
  <2> HIDE DEF I1
  <2>3. Numbered(EnumerateState(M1, I1), n1) BY <2>1, <2>2, HeldIf
  <2> QED BY <2>3
<1>5. Labelled(<<>>, <<>>) = <<>> BY DEF Labelled
<1> HIDE DEF I1
<1>6. /\ Applicable(ClearDiff, Labelled(M, s))
      /\ Apply(ClearDiff, Labelled(M, s)) = Labelled(<<>>, <<>>)
  BY <1>5, ApplyClear
<1> QED BY <1>2, <1>4, <1>6, EnumeratedOne

LEMMA MovedIs ==
    ASSUME NEW V, NEW s \in Seq(V), NEW old \in 0..(Len(s) - 1),
           NEW new \in 0..(Len(s) - 1)
    PROVE  /\ VecMove(s, old, new) \in Seq(V)
           /\ IsMoved(VecMove(s, old, new), s, old, new)
<1> DEFINE t == VecRemove(s, old)
<1>1. Len(s) \in Nat /\ old + 1 \in 1..Len(s) BY LenProperties
<1> PICK v \in V : v = s[old + 1] BY <1>1, ElementOfSeq
<1> DEFINE u == VecInsert(t, new, v)
<1>2. t \in Seq(V) /\ IsRemoved(t, s, old) BY RemovedIs
<1>3. VecMove(s, old, new) = u BY DEF VecMove
<1> HIDE DEF t
<1>4. Len(t) = Len(s) - 1 /\ new \in 0..Len(t) BY <1>1, <1>2 DEF IsRemoved
<1>5. u \in Seq(V) /\ IsInserted(u, t, new, v) BY <1>2, <1>4, InsertedIs
<1> HIDE DEF u
<1>6. Len(u) = Len(s) BY <1>1, <1>4, <1>5 DEF IsInserted
<1>7. ASSUME NEW p \in 1..Len(s)
      PROVE  u[p] = IF p = new + 1 THEN v
                    ELSE IF old < p /\ p <= new THEN s[p + 1]
                    ELSE IF new + 1 < p /\ p <= old + 1 THEN s[p - 1]
                    ELSE s[p]
  <2>1. u[p] = IF p <= new THEN t[p] ELSE IF p = new + 1 THEN v ELSE t[p - 1]
    BY <1>1, <1>4, <1>5 DEF IsInserted
  <2>2. \A q \in 1..(Len(s) - 1) : t[q] = IF q <= old THEN s[q] ELSE s[q + 1]
    BY <1>2 DEF IsRemoved
  <2>3. CASE p <= new
    <3>1. p \in 1..(Len(s) - 1) BY <1>1, <2>3
    <3> QED BY <1>1, <2>1, <2>2, <2>3, <3>1
  <2>4. CASE p = new + 1 BY <1>1, <2>1, <2>4
  <2>5. CASE ~(p <= new) /\ p # new + 1
    <3>1. p - 1 \in 1..(Len(s) - 1) /\ p - 1 + 1 = p BY <1>1, <2>5
    <3>2. u[p] = IF p - 1 <= old THEN s[p - 1] ELSE s[p]
      BY <2>1, <2>2, <2>5, <3>1
    <3> QED BY <1>1, <2>5, <3>2
  <2> QED BY <2>3, <2>4, <2>5
<1> QED BY <1>3, <1>5, <1>6, <1>7 DEF IsMoved

LEMMA EnumerateMoved ==
    ASSUME NEW V, NEW s \in Seq(V), NEW M, NEW I, Held(M, I, Len(s)),
           NEW old \in 0..(Len(s) - 1), NEW new \in 0..(Len(s) - 1)
    PROVE  Enumerated(EnumerateMove(EnumerateState(M, I), old, new), M, s,
                      VecMove(s, old, new))
<1> DEFINE n == Len(s)
           x == M[old + 1]
           M1 == VecMove(M, old, new)
           e == EnumerateState(M, I)
           shifted == IF old < new
                      THEN Shifted(e, Slice(M1, old, new), -1)
                      ELSE Shifted(e, Slice(M1, new + 1, old + 1), 1)
           I1 == [shifted EXCEPT ![x] = new]
           o == Labelled(M, s)
           t == VecMove(s, old, new)
<1>1. /\ MaxLen \in Nat /\ n \in 0..MaxLen /\ n \in Nat \ {0}
      /\ M \in Seq(Names) /\ Len(M) = n /\ DOMAIN I = Names
  BY BoundsAssumption DEF Held
<1>2. old + 1 \in 1..n /\ new + 1 \in 1..n /\ x \in Names
  BY <1>1, ElementOfSeq
<1>3. EnumerateMove(e, old, new) = Fed(EnumerateState(M1, I1), <<MoveDiff(old, new)>>)
  BY <1>1 DEF EnumerateMove, EnumerateState
<1>4. old \in 0..(Len(M) - 1) /\ new \in 0..(Len(M) - 1) BY <1>1
<1>6. M1 \in Seq(Names) /\ IsMoved(M1, M, old, new)
  <2> HIDE DEF n
  <2> QED BY <1>1, <1>4, MovedIs
<1> HIDE DEF M1
<1>7. /\ Len(M1) = n
      /\ \A p \in 1..n :
            M1[p] = IF p = new + 1 THEN M[old + 1]
                 ELSE IF old < p /\ p <= new THEN M[p + 1]
                 ELSE IF new + 1 < p /\ p <= old + 1 THEN M[p - 1]
                 ELSE M[p]
  BY <1>1, <1>6 DEF IsMoved
<1> DEFINE passed == IF old < new THEN Slice(M1, old, new)
                                  ELSE Slice(M1, new + 1, old + 1)
           by == IF old < new THEN -1 ELSE 1
<1>8. \A m \in Names : I[m] \in Int BY DEF Held, NoIndex
<1>9. shifted = [m \in Names |-> IF m \in passed /\ I[m] # NoIndex
                                 THEN I[m] + by ELSE I[m]]
  <2>1. CASE old < new BY <1>1, <1>8, <2>1 DEF Shifted, EnumerateState
  <2>2. CASE ~(old < new) BY <1>1, <1>8, <2>2 DEF Shifted, EnumerateState
  <2> QED BY <2>1, <2>2
<1>10. \A m : m \in passed
                <=> \E p \in 1..n : /\ M1[p] = m /\ p # new + 1
                                    /\ \/ old < p /\ p <= new
                                       \/ new + 1 < p /\ p <= old + 1
  <2>1. CASE old < new
    <3>1. \A p \in (old + 1)..new : p \in 1..n /\ old < p /\ p <= new BY <1>1, <2>1
    <3>2. \A p \in 1..n : /\ old < p /\ p <= new => p \in (old + 1)..new
                          /\ ~(new + 1 < p /\ p <= old + 1)
      BY <1>1, <2>1
    <3>3. \A m : m \in passed <=> \E p \in (old + 1)..new : M1[p] = m
      BY <2>1 DEF Slice
    <3>4. \A p \in 1..n : p <= new => p # new + 1 BY <1>1
    <3> HIDE DEF passed
    <3> QED BY <3>1, <3>2, <3>3, <3>4
  <2>2. CASE ~(old < new)
    <3>1. \A p \in (new + 2)..(old + 1) : p \in 1..n /\ new + 1 < p /\ p <= old + 1
      BY <1>1, <2>2
    <3>2. \A p \in 1..n : /\ new + 1 < p /\ p <= old + 1 => p \in (new + 2)..(old + 1)
                          /\ ~(old < p /\ p <= new)
      BY <1>1, <2>2
    <3>3. \A m : m \in passed <=> \E p \in (new + 2)..(old + 1) : M1[p] = m
      BY <1>1, <2>2 DEF Slice
    <3>4. \A p \in 1..n : new + 1 < p => p # new + 1 BY <1>1
    <3> HIDE DEF passed
    <3> QED BY <3>1, <3>2, <3>3, <3>4
  <2> QED BY <2>1, <2>2
<1> HIDE DEF passed, shifted
<1>11. Numbered(EnumerateState(M1, I1), n)
  <2>3. I1 = [m \in Names |-> I1[m]] BY <1>9
  <2>5. \A m \in Names : I1[m] = IF m = x THEN new
                                 ELSE IF m \in passed /\ I[m] # NoIndex
                                      THEN I[m] + by ELSE I[m]
    BY <1>9
  <2> HIDE DEF I1
  <2>6. ASSUME NEW k \in 1..n PROVE I1[M1[k]] = k - 1
    <3>1. CASE k = new + 1 BY <1>1, <1>2, <1>7, <2>5, <3>1
    <3>2. CASE /\ k # new + 1
               /\ (old < k /\ k <= new) \/ (new + 1 < k /\ k <= old + 1)
      <4> PICK j \in 1..n : j = IF old < k /\ k <= new THEN k + 1 ELSE k - 1
        BY <1>1, <3>2
      <4>1. M1[k] = M[j] BY <1>7, <3>2
      <4>2. M[j] \in Names /\ I[M[j]] = j - 1 BY <1>1, ElementOfSeq DEF Held
      <4>3. j # old + 1 BY <1>1, <3>2
      <4>4. M[j] # x BY <1>2, <4>3, HeldOne
      <4>5. M1[k] \in passed BY <1>10, <3>2
      <4>6. j - 1 # NoIndex BY <1>1 DEF NoIndex
      <4>7. j - 1 + by = k - 1 BY <1>1, <3>2
      <4> HIDE DEF x, by
      <4> QED BY <2>5, <4>1, <4>2, <4>4, <4>5, <4>6, <4>7
    <3>3. CASE k # new + 1 /\ ~(old < k /\ k <= new)
               /\ ~(new + 1 < k /\ k <= old + 1)
      <4>1. M1[k] = M[k] BY <1>7, <3>3
      <4>2. M[k] \in Names /\ I[M[k]] = k - 1 BY <1>1, ElementOfSeq DEF Held
      <4>3. k # old + 1 BY <1>1, <3>3
      <4>4. M[k] # x BY <1>2, <4>3, HeldOne
      <4>5. ASSUME M[k] \in passed PROVE FALSE
        <5>1. PICK p \in 1..n : /\ M1[p] = M[k] /\ p # new + 1
                                /\ \/ old < p /\ p <= new
                                   \/ new + 1 < p /\ p <= old + 1
          BY <1>10, <4>5
        <5> PICK j \in 1..n : j = IF old < p /\ p <= new THEN p + 1 ELSE p - 1
          BY <1>1, <5>1
        <5>2. M1[p] = M[j] BY <1>7, <5>1
        <5>3. M[j] = M[k] BY <5>1, <5>2
        <5>4. j = k BY <5>3, HeldOne
        <5> QED BY <1>1, <3>3, <5>1, <5>4
      <4> HIDE DEF x, by
      <4> QED BY <2>5, <4>1, <4>2, <4>4, <4>5
    <3> QED BY <3>1, <3>2, <3>3, Zenon
  <2>7. ASSUME NEW m \in Names, \A k \in 1..n : M1[k] # m
        PROVE  I1[m] = NoIndex
    <3>1. ASSUME NEW k \in 1..n PROVE M[k] # m
      <4>1. CASE k = old + 1 BY <1>2, <1>7, <2>7, <4>1
      <4>2. CASE k # old + 1
        <5> PICK p \in 1..n : p = IF old + 1 < k /\ k <= new + 1 THEN k - 1
                                  ELSE IF new < k /\ k <= old THEN k + 1
                                  ELSE k
          BY <1>1, <4>2
        <5>1. M1[p] = M[k]
          <6>1. CASE old + 1 < k /\ k <= new + 1
            <7>1. p = k - 1 /\ p # new + 1 /\ old < p /\ p <= new /\ p + 1 = k
              BY <1>1, <6>1
            <7> QED BY <1>7, <7>1
          <6>2. CASE new < k /\ k <= old
            <7>1. p = k + 1 /\ p # new + 1 /\ ~(old < p /\ p <= new)
                  /\ new + 1 < p /\ p <= old + 1 /\ p - 1 = k
              BY <1>1, <6>2
            <7> QED BY <1>7, <7>1
          <6>3. CASE ~(old + 1 < k /\ k <= new + 1) /\ ~(new < k /\ k <= old)
            <7>1. p = k /\ p # new + 1 /\ ~(old < p /\ p <= new)
                  /\ ~(new + 1 < p /\ p <= old + 1)
              BY <1>1, <4>2, <6>3
            <7> QED BY <1>7, <7>1
          <6> QED BY <6>1, <6>2, <6>3
        <5> QED BY <2>7, <5>1
      <4> QED BY <4>1, <4>2
    <3>2. m # x BY <1>2, <3>1
    <3>3. I[m] = NoIndex BY <3>1 DEF Held
    <3> HIDE DEF x
    <3> QED BY <2>5, <3>2, <3>3
  <2> HIDE DEF n
  <2> QED BY <1>1, <1>6, <1>7, <2>3, <2>6, <2>7, HeldIf
<1>12. Len(t) = n
  <2>1. IsMoved(t, s, old, new) BY MovedIs
  <2> QED BY <2>1 DEF IsMoved
<1>13. o \in Seq(Names \X V) /\ Len(o) = n
  <2>1. o \in Seq(Names \X V) /\ IsLabelled(o, M, s) BY <1>1, LabelledIs
  <2> QED BY <2>1 DEF IsLabelled
<1>14. Labelled(M1, t) = VecMove(o, old, new)
  BY <1>1, LabelledMove DEF M1
<1> HIDE DEF I1, o, t
<1>15. /\ Apply(MoveDiff(old, new), o) = Labelled(M1, t)
       /\ Applicable(MoveDiff(old, new), o)
  BY <1>13, <1>14, ApplyMove
<1> QED BY <1>3, <1>11, <1>12, <1>15, EnumeratedOne DEF o, t, e

LEMMA EnumerateReplaced ==
    ASSUME NEW V, NEW s, NEW t \in Seq(V), Len(t) <= MaxLen, NEW M, NEW I,
           NEW n, Held(M, I, n)
    PROVE  Enumerated(EnumerateReplace(EnumerateState(M, I), t), M, s, t)
<1> DEFINE e == EnumerateState(M, I)
           M1 == [k \in DOMAIN t |-> Fresh(e, k)]
           I1 == [m \in Names |->
                    IF m \in ToSet(M1)
                    THEN (CHOOSE k \in DOMAIN M1 : M1[k] = m) - 1
                    ELSE NoIndex]
           o == Labelled(M1, t)
<1>1. /\ MaxLen \in Nat /\ Len(t) \in 0..MaxLen /\ DOMAIN I = Names
      /\ DOMAIN t = 1..Len(t)
  BY BoundsAssumption, LenProperties DEF Held
<1>2. o = [k \in DOMAIN t |-> <<M1[k], t[k]>>] BY DEF Labelled
<1>3. EnumerateReplace(e, t) = Fed(EnumerateState(M1, I1), <<ReplaceDiff(o)>>)
  BY <1>1, <1>2 DEF EnumerateReplace, EnumerateState
<1>4. \A k \in 1..Len(t) : k \in 1..MaxLen BY <1>1
<1>5. \A k \in 1..MaxLen : Fresh(e, k) \in Names BY FreshIs DEF IsFresh
<1>6. \A j, k \in 1..MaxLen : Fresh(e, j) = Fresh(e, k) => j = k
  BY FreshDiffer
<1>7. M1 \in Seq(Names) /\ Len(M1) = Len(t)
  <2> HIDE DEF e, Names
  <2> QED BY <1>1, <1>4, <1>5
<1>8. DOMAIN M1 = 1..Len(t) /\ \A k \in 1..Len(t) : M1[k] = Fresh(e, k)
  BY <1>1
<1> HIDE DEF e, M1
<1>9. \A m : m \in ToSet(M1) <=> \E k \in 1..Len(t) : M1[k] = m
  BY <1>8 DEF ToSet
<1>10. Numbered(EnumerateState(M1, I1), Len(t))
  <2>1. I1 = [m \in Names |-> I1[m]] OBVIOUS
  <2>2. ASSUME NEW k \in 1..Len(t) PROVE I1[M1[k]] = k - 1
    <3>1. M1[k] \in Names /\ M1[k] \in ToSet(M1)
      BY <1>4, <1>5, <1>8, <1>9
    <3> DEFINE c == CHOOSE j \in 1..Len(t) : M1[j] = M1[k]
    <3>2. I1[M1[k]] = c - 1 BY <1>8, <3>1
    <3>3. c \in 1..Len(t) /\ M1[c] = M1[k] OBVIOUS
    <3> HIDE DEF c
    <3>4. c = k BY <1>4, <1>6, <1>8, <3>3
    <3> QED BY <3>2, <3>4
  <2>3. ASSUME NEW m \in Names, \A k \in 1..Len(t) : M1[k] # m
        PROVE  I1[m] = NoIndex
    BY <1>9, <2>3
  <2> HIDE DEF I1
  <2> QED BY <1>1, <1>7, <2>1, <2>2, <2>3, HeldIf
<1> HIDE DEF I1
<1>11. /\ Apply(ReplaceDiff(o), Labelled(M, s)) = o
       /\ Applicable(ReplaceDiff(o), Labelled(M, s))
  BY ApplyReplace
<1>12. Enumerated(Fed(EnumerateState(M1, I1), <<ReplaceDiff(o)>>), M, s, t)
  <2> DEFINE d == ReplaceDiff(o)
  <2> HIDE DEF d
  <2>1. /\ Apply(d, Labelled(M, s)) = Labelled(M1, t)
        /\ Applicable(d, Labelled(M, s))
    BY <1>11 DEF d
  <2>2. Enumerated(Fed(EnumerateState(M1, I1), <<d>>), M, s, t)
    BY <1>10, <2>1, EnumeratedOne
  <2> QED BY <2>2 DEF d
<1> QED BY <1>3, <1>12 DEF e

\* Each Mutable of a value in the output holds its index, all others None,
\* and the diff that enumerate puts out fits.
THEOREM EnumerateFollows ==
    ASSUME NEW V, NEW s \in SeqOf(V, MaxLen), NEW e, Numbered(e, Len(s)),
           NEW d \in LegalDiffs(s, V, MaxLen)
    PROVE  /\ Numbered(EnumerateFeed(e, d).st, Len(Apply(d, s)))
           /\ Yields(EnumerateFeed(e, d).out, Labelled(e.mutables, s),
                     Labelled(EnumerateFeed(e, d).st.mutables, Apply(d, s)))
<1> DEFINE M == e.mutables
           I == e.index
           t == Apply(d, s)
<1>1. MaxLen \in Nat BY BoundsAssumption
<1>2. s \in Seq(V) /\ Len(s) <= MaxLen BY <1>1, ShortSeqs
<1>3. Len(s) \in Nat BY <1>2, LenProperties
<1>4. e = EnumerateState(M, I) /\ Held(M, I, Len(s))
  BY <1>1, <1>2, <1>3 DEF Numbered, Held, Names
<1> HIDE DEF M, I
<1> SUFFICES Enumerated(EnumerateFeed(EnumerateState(M, I), d), M, s, t)
  BY <1>4 DEF Enumerated, M, EnumerateState
<1>5. CASE \E vs \in SeqOf(V, MaxLen) : d = ReplaceDiff(vs)
  <2> PICK vs \in SeqOf(V, MaxLen) : d = ReplaceDiff(vs) BY <1>5
  <2>1. vs \in Seq(V) /\ Len(vs) <= MaxLen BY <1>1, ShortSeqs
  <2>2. d.op = "Replace" /\ d.values = vs BY DEF ReplaceDiff
  <2>3. t = vs BY ApplyReplace
  <2>4. Enumerated(EnumerateReplace(EnumerateState(M, I), vs), M, s, vs)
    BY <1>4, <2>1, EnumerateReplaced
  <2>5. EnumerateFeed(EnumerateState(M, I), d)
           = EnumerateReplace(EnumerateState(M, I), d.values)
    BY <2>2, Zenon DEF EnumerateFeed
  <2> QED BY <2>2, <2>3, <2>4, <2>5
<1>6. CASE Len(s) # MaxLen /\ \E i \in 0..Len(s), v \in V : d = InsertDiff(i, v)
  <2> PICK i \in 0..Len(s), v \in V : d = InsertDiff(i, v) BY <1>6
  <2>2. d.op = "InsertAt" /\ d.index = i /\ d.value = v BY DEF InsertDiff
  <2>3. t = VecInsert(s, i, v) BY ApplyInsert
  <2>4. Enumerated(EnumerateInsert(EnumerateState(M, I), i, v), M, s,
                   VecInsert(s, i, v))
    BY <1>2, <1>4, <1>6, EnumerateInserted
  <2>5. EnumerateFeed(EnumerateState(M, I), d)
           = EnumerateInsert(EnumerateState(M, I), d.index, d.value)
    BY <2>2, Zenon DEF EnumerateFeed
  <2> QED BY <2>2, <2>3, <2>4, <2>5
<1>7. CASE Len(s) # MaxLen /\ \E v \in V : d = PushDiff(v)
  <2> PICK v \in V : d = PushDiff(v) BY <1>7
  <2>2. d.op = "Push" /\ d.value = v BY DEF PushDiff
  <2>3. t = Append(s, v) BY ApplyPush
  <2>4. Enumerated(EnumeratePush(EnumerateState(M, I), v), M, s, Append(s, v))
    BY <1>2, <1>4, <1>7, EnumeratePushed
  <2>5. EnumerateFeed(EnumerateState(M, I), d)
           = EnumeratePush(EnumerateState(M, I), d.value)
    BY <2>2, Zenon DEF EnumerateFeed
  <2> QED BY <2>2, <2>3, <2>4, <2>5
<1>8. CASE \E i \in 0..(Len(s) - 1), v \in V : d = UpdateDiff(i, v)
  <2> PICK i \in 0..(Len(s) - 1), v \in V : d = UpdateDiff(i, v) BY <1>8
  <2>2. d.op = "UpdateAt" /\ d.index = i /\ d.value = v BY DEF UpdateDiff
  <2>3. t = ReplaceAt(s, i + 1, v) BY ApplyUpdate
  <2>4. Enumerated(EnumerateUpdate(EnumerateState(M, I), i, v), M, s,
                   ReplaceAt(s, i + 1, v))
    BY <1>2, <1>4, EnumerateUpdated
  <2>5. EnumerateFeed(EnumerateState(M, I), d)
           = EnumerateUpdate(EnumerateState(M, I), d.index, d.value)
    BY <2>2, Zenon DEF EnumerateFeed
  <2> QED BY <2>2, <2>3, <2>4, <2>5
<1>9. CASE \E i \in 0..(Len(s) - 1) : d = RemoveDiff(i)
  <2> PICK i \in 0..(Len(s) - 1) : d = RemoveDiff(i) BY <1>9
  <2>2. d.op = "RemoveAt" /\ d.index = i BY DEF RemoveDiff
  <2>3. t = VecRemove(s, i) BY ApplyRemove
  <2>4. Enumerated(EnumerateRemove(EnumerateState(M, I), i), M, s,
                   VecRemove(s, i))
    BY <1>2, <1>4, EnumerateRemoved
  <2>5. EnumerateFeed(EnumerateState(M, I), d)
           = EnumerateRemove(EnumerateState(M, I), d.index)
    BY <2>2, Zenon DEF EnumerateFeed
  <2> QED BY <2>2, <2>3, <2>4, <2>5
<1>10. CASE \E i, j \in 0..(Len(s) - 1) : d = MoveDiff(i, j)
  <2> PICK i \in 0..(Len(s) - 1), j \in 0..(Len(s) - 1) : d = MoveDiff(i, j)
    BY <1>10
  <2>2. d.op = "Move" /\ d.old = i /\ d.new = j BY DEF MoveDiff
  <2>3. t = VecMove(s, i, j) BY ApplyMove
  <2>4. Enumerated(EnumerateMove(EnumerateState(M, I), i, j), M, s,
                   VecMove(s, i, j))
    BY <1>2, <1>4, EnumerateMoved
  <2>5. EnumerateFeed(EnumerateState(M, I), d)
           = EnumerateMove(EnumerateState(M, I), d.old, d.new)
    BY <2>2, Zenon DEF EnumerateFeed
  <2> QED BY <2>2, <2>3, <2>4, <2>5
<1>11. CASE (\E i \in 1..Len(s) : TRUE) /\ d = PopDiff
  <2>1. s # <<>> BY <1>2, <1>11, EmptySeq
  <2>2. d.op = "Pop" BY <1>11 DEF PopDiff
  <2>3. t = VecPop(s) BY <1>11, ApplyPop
  <2>4. Enumerated(EnumeratePop(EnumerateState(M, I)), M, s, VecPop(s))
    BY <1>2, <1>4, <2>1, EnumeratePopped
  <2>5. EnumerateFeed(EnumerateState(M, I), d)
           = EnumeratePop(EnumerateState(M, I))
    BY <2>2, Zenon DEF EnumerateFeed
  <2> QED BY <2>3, <2>4, <2>5
<1>12. CASE d = ClearDiff
  <2>2. d.op = "Clear" BY <1>12 DEF ClearDiff
  <2>3. t = <<>> BY <1>12, ApplyClear
  <2>4. Enumerated(EnumerateClear(EnumerateState(M, I)), M, s, <<>>)
    BY <1>4, EnumerateCleared
  <2>5. EnumerateFeed(EnumerateState(M, I), d)
           = EnumerateClear(EnumerateState(M, I))
    BY <2>2, Zenon DEF EnumerateFeed
  <2> QED BY <2>3, <2>4, <2>5
<1> HIDE DEF t
<1> QED BY <1>5, <1>6, <1>7, <1>8, <1>9, <1>10, <1>11, <1>12, LegalIs

-----------------------------------------------------------------------------
(* sort.                                                                   *)

LEMMA LessIsTransitive == \A x, y, z \in Nat : x < y /\ y < z => x < z
OBVIOUS

\* The callback's order, with the input's order, is strict and total.
LEMMA BeforeIs ==
    ASSUME NEW V, NEW s \in Seq(V), NEW rank, Ranked(V, rank),
           NEW i \in Indexes(s), NEW j \in Indexes(s), NEW k \in Indexes(s)
    PROVE  /\ ~Before(s, rank, i, i)
           /\ Before(s, rank, i, j) => ~Before(s, rank, j, i)
           /\ i # j => Before(s, rank, i, j) \/ Before(s, rank, j, i)
           /\ Before(s, rank, i, j) /\ Before(s, rank, j, k)
                 => Before(s, rank, i, k)
<1>1. Len(s) \in Nat BY LenProperties
<1>2. {i, j, k} \subseteq Nat BY <1>1 DEF Indexes
<1>3. i + 1 \in 1..Len(s) /\ j + 1 \in 1..Len(s) /\ k + 1 \in 1..Len(s)
  BY <1>1 DEF Indexes
<1>4. /\ rank[s[i + 1]] \in Nat /\ rank[s[j + 1]] \in Nat
      /\ rank[s[k + 1]] \in Nat
  BY <1>3, ElementOfSeq DEF Ranked
<1> PICK x \in Nat, y \in Nat, z \in Nat :
            x = rank[s[i + 1]] /\ y = rank[s[j + 1]] /\ z = rank[s[k + 1]]
  BY <1>4
<1>5. /\ Before(s, rank, i, i) <=> x < x \/ (x = x /\ i < i)
      /\ Before(s, rank, i, j) <=> x < y \/ (x = y /\ i < j)
      /\ Before(s, rank, j, i) <=> y < x \/ (y = x /\ j < i)
      /\ Before(s, rank, j, k) <=> y < z \/ (y = z /\ j < k)
      /\ Before(s, rank, i, k) <=> x < z \/ (x = z /\ i < k)
  BY DEF Before
<1> HIDE DEF Indexes
<1> PICK a \in Nat, b \in Nat, c \in Nat : a = i /\ b = j /\ c = k BY <1>2
<1>6. ~(x < x \/ (x = x /\ a < a)) OBVIOUS
<1>7. x < y \/ (x = y /\ a < b) => ~(y < x \/ (y = x /\ b < a)) OBVIOUS
<1>8. a # b => x < y \/ (x = y /\ a < b) \/ y < x \/ (y = x /\ b < a)
  <2>1. x < y \/ y < x \/ x = y OBVIOUS
  <2>2. a < b \/ b < a \/ a = b OBVIOUS
  <2> QED BY <2>1, <2>2, Zenon
<1>9. (x < y \/ (x = y /\ a < b)) /\ (y < z \/ (y = z /\ b < c))
         => x < z \/ (x = z /\ a < c)
  BY LessIsTransitive, Zenon
<1> QED BY <1>5, <1>6, <1>7, <1>8, <1>9, Zenon

LEMMA SortedApart ==
    ASSUME NEW V, NEW s \in Seq(V), NEW rank, Ranked(V, rank),
           NEW A \in SUBSET Indexes(s), NEW ix, Sorted(ix, s, rank, A),
           NEW p \in 1..Len(ix), NEW q \in 1..Len(ix)
    PROVE  /\ ix[p] = ix[q] => p = q
           /\ Before(s, rank, ix[p], ix[q]) <=> p < q
<1>1. ix \in Seq(A) /\ Len(ix) \in Nat BY LenProperties DEF Sorted
<1>2. ix[p] \in Indexes(s) /\ ix[q] \in Indexes(s) BY <1>1, ElementOfSeq
<1>3. /\ p < q => Before(s, rank, ix[p], ix[q])
      /\ q < p => Before(s, rank, ix[q], ix[p])
  BY DEF Sorted
<1>4. /\ ~Before(s, rank, ix[p], ix[p])
      /\ Before(s, rank, ix[p], ix[q]) => ~Before(s, rank, ix[q], ix[p])
  BY <1>2, BeforeIs
<1>5. p < q \/ q < p \/ p = q BY <1>1
<1>6. ~(p < p) BY <1>1
<1> QED BY <1>3, <1>4, <1>5, <1>6

LEMMA EarlierIs ==
    ASSUME NEW V, NEW s \in Seq(V), NEW rank, Ranked(V, rank),
           NEW i \in Indexes(s)
    PROVE  /\ IsFiniteSet(Earlier(s, rank, i))
           /\ Cardinality(Earlier(s, rank, i)) \in Indexes(s)
<1> DEFINE E == Earlier(s, rank, i)
           n == Len(s)
<1>1. n \in Nat /\ n \in Nat \ {0} BY LenProperties DEF Indexes
<1>2. IsFiniteSet(Indexes(s)) /\ Cardinality(Indexes(s)) = n
  <2>1. 0 \in Int /\ n - 1 \in Int /\ ~(0 > n - 1) /\ n - 1 - 0 + 1 = n
    BY <1>1
  <2> QED BY <2>1, FS_Interval DEF Indexes
<1>3. E \in SUBSET Indexes(s) /\ i \notin E BY BeforeIs DEF Earlier
<1>4. E # Indexes(s) BY <1>3
<1> HIDE DEF E
<1>5. IsFiniteSet(E) /\ Cardinality(E) <= n /\ Cardinality(E) # n
  <2>1. /\ IsFiniteSet(E) /\ Cardinality(E) <= Cardinality(Indexes(s))
        /\ Cardinality(Indexes(s)) = Cardinality(E) => Indexes(s) = E
    BY <1>2, <1>3, FS_Subset
  <2> QED BY <1>2, <1>4, <2>1
<1>6. Cardinality(E) \in Nat BY <1>5, FS_CardinalityType
<1>7. Cardinality(E) \in Indexes(s) BY <1>1, <1>5, <1>6 DEF Indexes
<1> QED BY <1>5, <1>7 DEF E

\* An earlier index has fewer before it.
LEMMA EarlierFewer ==
    ASSUME NEW V, NEW s \in Seq(V), NEW rank, Ranked(V, rank),
           NEW i \in Indexes(s), NEW j \in Indexes(s), Before(s, rank, i, j)
    PROVE  Cardinality(Earlier(s, rank, i)) < Cardinality(Earlier(s, rank, j))
<1> DEFINE E == Earlier(s, rank, i)
           F == Earlier(s, rank, j)
<1>1. E \in SUBSET F BY BeforeIs DEF Earlier
<1>2. i \in F /\ i \notin E BY BeforeIs DEF Earlier
<1>3. IsFiniteSet(F) /\ Cardinality(F) \in Indexes(s) BY EarlierIs
<1>4. Cardinality(E) \in Indexes(s) BY EarlierIs
<1> HIDE DEF E, F
<1>5. Cardinality(E) <= Cardinality(F) /\ Cardinality(E) # Cardinality(F)
  <2>1. /\ Cardinality(E) <= Cardinality(F)
        /\ Cardinality(F) = Cardinality(E) => F = E
    BY <1>1, <1>3, FS_Subset
  <2> QED BY <1>2, <2>1
<1> QED BY <1>3, <1>4, <1>5 DEF E, F, Indexes

\* SortedIndexes puts each index where the number of earlier ones says.
LEMMA SortedIndexesAre ==
    ASSUME NEW V, NEW s \in Seq(V), NEW rank, Ranked(V, rank)
    PROVE  Sorted(SortedIndexes(s, rank), s, rank, Indexes(s))
<1> DEFINE n == Len(s)
           A == Indexes(s)
           r == [i \in A |-> Cardinality(Earlier(s, rank, i))]
           ix == SortedIndexes(s, rank)
<1>1. n \in Nat BY LenProperties
<1>2. IsFiniteSet(A) BY <1>1, FS_Interval DEF Indexes
<1>3. \A i \in A : r[i] \in A BY EarlierIs
<1>4. \A i, j \in A : Before(s, rank, i, j) => r[i] < r[j] BY EarlierFewer
<1>5. ix = [p \in 1..n |-> CHOOSE i \in A : r[i] = p - 1]
  BY DEF SortedIndexes, Earlier, Indexes
<1>6. \A i \in A : i \in Int BY DEF Indexes
<1>7. r \in [A -> A] BY <1>3
<1> HIDE DEF r, ix
<1>8. ASSUME NEW i \in A, NEW j \in A, r[i] = r[j] PROVE i = j
  <2>1. ~(r[i] < r[j]) /\ ~(r[j] < r[i]) BY <1>3, <1>6, <1>8
  <2>2. i # j => Before(s, rank, i, j) \/ Before(s, rank, j, i) BY BeforeIs
  <2> QED BY <1>4, <2>1, <2>2
<1>9. r \in Injection(A, A)
  <2> HIDE DEF A
  <2>1. \A i, j \in A : r[i] = r[j] => i = j BY <1>8
  <2> QED BY <1>7, <2>1, Zenon DEF Injection, IsInjective
<1>10. r \in Surjection(A, A)
  <2> HIDE DEF A
  <2> QED BY <1>2, <1>9, FS_Injection
<1>11. \A p \in 1..n : p - 1 \in A BY <1>1 DEF Indexes
<1>12. \A a \in A : \E i \in A : r[i] = a BY <1>10 DEF Surjection
<1> HIDE DEF A
<1>13. \A p \in 1..n : ix[p] \in A /\ r[ix[p]] = p - 1
  BY <1>5, <1>11, <1>12
<1>14. ix \in Seq(A) /\ Len(ix) = n BY <1>1, <1>5, <1>13
<1>15. ASSUME NEW a \in A PROVE \E p \in 1..n : ix[p] = a
  <2> PICK p \in 1..n : p = r[a] + 1 BY <1>1, <1>3 DEF A, Indexes
  <2>1. r[ix[p]] = r[a] BY <1>1, <1>3, <1>6, <1>13
  <2> QED BY <1>8, <1>13, <2>1
<1>16. ASSUME NEW p \in 1..n, NEW q \in 1..n, p < q
       PROVE  Before(s, rank, ix[p], ix[q])
  <2>1. ix[p] \in A /\ ix[q] \in A /\ r[ix[p]] = p - 1 /\ r[ix[q]] = q - 1
    BY <1>13
  <2>2. ~(r[ix[q]] < r[ix[p]]) /\ ix[p] # ix[q] BY <1>1, <1>16, <2>1
  <2>3. Before(s, rank, ix[p], ix[q]) \/ Before(s, rank, ix[q], ix[p])
    BY <2>1, <2>2, BeforeIs DEF A
  <2> QED BY <1>4, <2>1, <2>2, <2>3
<1> QED BY <1>14, <1>15, <1>16 DEF Sorted, A, ix

\* And it is the only way to sort them.
LEMMA SortedOnce ==
    ASSUME NEW V, NEW s \in Seq(V), NEW rank, Ranked(V, rank), NEW ix,
           Sorted(ix, s, rank, Indexes(s))
    PROVE  ix = SortedIndexes(s, rank)
<1> DEFINE n == Len(s)
           A == Indexes(s)
           iy == SortedIndexes(s, rank)
<1>1. n \in Nat /\ \A i \in A : i \in Int BY LenProperties DEF Indexes
<1>2. /\ ix \in Seq(A) /\ Len(ix) \in Nat
      /\ \A p \in 1..Len(ix) : ix[p] \in A
  BY LenProperties, ElementOfSeq DEF Sorted
<1>3. \A p, q \in 1..Len(ix) : /\ ix[p] = ix[q] => p = q
                               /\ Before(s, rank, ix[p], ix[q]) <=> p < q
  BY SortedApart
<1>4. \A a \in A : \E p \in 1..Len(ix) : ix[p] = a BY DEF Sorted
<1>5. ASSUME NEW m \in 0..Len(ix), NEW B,
             \A b : b \in B <=> \E q \in 1..m : ix[q] = b
      PROVE  Cardinality(B) = m
  <2> DEFINE f == [q \in 1..m |-> ix[q]]
  <2>1. f \in Surjection(1..m, B) BY <1>5 DEF Surjection
  <2>2. \A p, q \in 1..m : f[p] = f[q] => p = q BY <1>2, <1>3
  <2>3. f \in Injection(1..m, B)
    <3>1. f \in [1..m -> B] BY <2>1 DEF Surjection
    <3> HIDE DEF f
    <3> QED BY <2>2, <3>1, Zenon DEF Injection, IsInjective
  <2>4. IsFiniteSet(1..m) /\ Cardinality(1..m) = m BY <1>2, FS_Interval
  <2> HIDE DEF f
  <2> QED BY <2>1, <2>3, <2>4, FS_Surjection
<1>6. Len(ix) = n
  <2>1. \A b : b \in A <=> \E q \in 1..Len(ix) : ix[q] = b BY <1>2, <1>4
  <2>2. Cardinality(A) = Len(ix)
    <3> PICK m \in 0..Len(ix) : m = Len(ix) BY <1>2
    <3>1. \A b : b \in A <=> \E q \in 1..m : ix[q] = b BY <2>1
    <3> QED BY <1>5, <3>1
  <2>3. 0 \in Int /\ n - 1 \in Int
        /\ (IF 0 > n - 1 THEN 0 ELSE n - 1 - 0 + 1) = n
    BY <1>1
  <2>4. Cardinality(A) = n BY <2>3, FS_Interval DEF Indexes
  <2> QED BY <2>2, <2>4
<1>7. ASSUME NEW p \in 1..n PROVE Cardinality(Earlier(s, rank, ix[p])) = p - 1
  <2>1. p - 1 \in 0..Len(ix) /\ \A q \in 1..n : q \in 1..(p - 1) <=> q < p
    BY <1>1, <1>6
  <2>2. ASSUME NEW b
        PROVE  b \in Earlier(s, rank, ix[p]) <=> \E q \in 1..(p - 1) : ix[q] = b
    <3>1. ASSUME b \in Earlier(s, rank, ix[p])
          PROVE  \E q \in 1..(p - 1) : ix[q] = b
      <4>1. b \in A /\ Before(s, rank, b, ix[p]) BY <3>1 DEF Earlier
      <4> PICK q \in 1..n : ix[q] = b BY <1>4, <1>6, <4>1
      <4> QED BY <1>3, <1>6, <2>1, <4>1
    <3>2. ASSUME NEW q \in 1..(p - 1), ix[q] = b
          PROVE  b \in Earlier(s, rank, ix[p])
      <4>1. q \in 1..n /\ q < p BY <1>1
      <4> QED BY <1>2, <1>3, <1>6, <3>2, <4>1 DEF Earlier
    <3> QED BY <3>1, <3>2
  <2> QED BY <1>5, <2>1, <2>2
<1> HIDE DEF A
<1>8. ASSUME NEW p \in 1..n PROVE ix[p] = iy[p]
  <2> DEFINE c == CHOOSE i \in A : Cardinality(Earlier(s, rank, i)) = p - 1
  <2>1. iy[p] = c BY DEF SortedIndexes, Earlier, Indexes, A
  <2>2. ix[p] \in A BY <1>2, <1>6
  <2>3. c \in A /\ Cardinality(Earlier(s, rank, c)) = p - 1 BY <1>7, <2>2
  <2> HIDE DEF c
  <2> PICK q \in 1..n : ix[q] = c BY <1>4, <1>6, <2>3
  <2>4. q - 1 = p - 1 BY <1>7, <2>3
  <2>5. q = p BY <1>1, <2>4
  <2> QED BY <2>1, <2>5
<1>9. iy \in Seq(A) /\ Len(iy) = n
  <2>1. Sorted(iy, s, rank, A) BY SortedIndexesAre DEF A
  <2>2. iy \in Seq(A) BY <2>1 DEF Sorted
  <2>3. DOMAIN iy = 1..n BY DEF SortedIndexes
  <2> HIDE DEF iy
  <2>4. DOMAIN iy = 1..Len(iy) /\ Len(iy) \in Nat BY <2>2, LenProperties
  <2> QED BY <1>1, <2>2, <2>3, <2>4
<1> HIDE DEF iy, n
<1>10. ix = iy BY <1>2, <1>6, <1>8, <1>9, SeqEqual
<1> QED BY <1>10 DEF iy

LEMMA InOrderIs ==
    ASSUME NEW V, NEW s \in Seq(V), NEW A \in SUBSET Indexes(s),
           NEW ix \in Seq(A)
    PROVE  /\ InOrder(s, ix) \in Seq(V) /\ Len(InOrder(s, ix)) = Len(ix)
           /\ InOrder(s, ix) = Over(ix, ValueAt(s))
           /\ \A p \in 1..Len(ix) : InOrder(s, ix)[p] = s[ix[p] + 1]
<1>1. /\ Len(s) \in Nat /\ Len(ix) \in Nat /\ DOMAIN ix = 1..Len(ix)
      /\ \A p \in 1..Len(ix) : ix[p] \in A
  BY LenProperties, ElementOfSeq
<1>2. \A p \in 1..Len(ix) : ix[p] \in Indexes(s) BY <1>1
<1>3. \A i \in Indexes(s) : i + 1 \in 1..Len(s) BY <1>1 DEF Indexes
<1>4. \A p \in 1..Len(ix) : s[ix[p] + 1] \in V BY <1>2, <1>3, ElementOfSeq
<1>5. InOrder(s, ix) \in Seq(V) /\ Len(InOrder(s, ix)) = Len(ix)
  BY <1>1, <1>4 DEF InOrder
<1>6. \A p \in DOMAIN ix : ValueAt(s)[ix[p]] = s[ix[p] + 1]
  BY <1>1, <1>2 DEF ValueAt
<1> QED BY <1>1, <1>5, <1>6, Zenon DEF InOrder, Over

LEMMA SortedAgain ==
    ASSUME NEW V, NEW s \in Seq(V), NEW t \in Seq(V), NEW rank,
           NEW A \in SUBSET Indexes(s), NEW B \in SUBSET Indexes(t),
           NEW ix, Sorted(ix, s, rank, A), NEW f, Renames(f, s, A, t, B)
    PROVE  /\ Sorted(Over(ix, f), t, rank, B)
           /\ InOrder(t, Over(ix, f)) = InOrder(s, ix)
<1> DEFINE iy == Over(ix, f)
<1>1. /\ ix \in Seq(A) /\ Len(ix) \in Nat /\ DOMAIN ix = 1..Len(ix)
      /\ \A p \in 1..Len(ix) : ix[p] \in A
  BY LenProperties, ElementOfSeq DEF Sorted
<1>2. /\ DOMAIN iy = 1..Len(ix)
      /\ \A p \in 1..Len(ix) : iy[p] = f[ix[p]] /\ iy[p] \in B
  BY <1>1 DEF Over, Renames
<1>3. iy \in Seq(B) /\ Len(iy) = Len(ix) BY <1>1, <1>2 DEF Over
<1> HIDE DEF iy
<1>4. ASSUME NEW b \in B PROVE \E p \in 1..Len(iy) : iy[p] = b
  <2> PICK a \in A : f[a] = b BY DEF Renames
  <2> PICK p \in 1..Len(ix) : ix[p] = a BY DEF Sorted
  <2> QED BY <1>2, <1>3
<1>5. ASSUME NEW p \in 1..Len(ix), NEW q \in 1..Len(ix), p < q
      PROVE  Before(t, rank, iy[p], iy[q])
  <2> PICK a \in A, b \in A : a = ix[p] /\ b = ix[q] BY <1>1
  <2>1. Before(s, rank, a, b) BY <1>5 DEF Sorted
  <2>2. iy[p] = f[a] /\ iy[q] = f[b] BY <1>2
  <2>3. /\ t[f[a] + 1] = s[a + 1] /\ t[f[b] + 1] = s[b + 1]
        /\ a < b => f[a] < f[b]
    BY DEF Renames
  <2> QED BY <2>1, <2>2, <2>3 DEF Before
<1>6. InOrder(t, iy) = InOrder(s, ix)
  <2>1. \A p \in 1..Len(ix) : t[iy[p] + 1] = s[ix[p] + 1]
    BY <1>1, <1>2 DEF Renames
  <2> QED BY <1>1, <1>2, <2>1 DEF InOrder
<1> QED BY <1>3, <1>4, <1>5, <1>6 DEF Sorted, iy

\* A set that goes all the way down.
LEMMA DownIsUpTo ==
    ASSUME NEW m \in Nat, NEW S \in SUBSET (1..m),
           \A p \in S : \A q \in 1..m : q < p => q \in S
    PROVE  /\ Cardinality(S) \in 0..m
           /\ \A q \in 1..m : q \in S <=> q <= Cardinality(S)
<1> DEFINE missing == {q \in 1..(m + 1) : q \notin S}
<1>1. m + 1 \in missing OBVIOUS
<1>2. missing \in SUBSET Nat /\ missing # {} BY <1>1
<1> PICK k \in missing : \A q \in missing : ~(q < k) BY <1>2, LeastNat
<1>3. k \in 1..(m + 1) /\ k \notin S OBVIOUS
<1>4. ASSUME NEW q \in 1..m PROVE q \in S <=> q <= k - 1
  <2>1. CASE q < k
    <3>1. q \in S BY <2>1
    <3> QED BY <2>1, <3>1
  <2>2. CASE q = k BY <1>3, <2>2
  <2>3. CASE k < q
    <3>1. k \in 1..m BY <1>3, <2>3
    <3>2. q \notin S BY <1>3, <2>3, <3>1
    <3> QED BY <1>3, <2>3, <3>2
  <2> QED BY <1>3, <2>1, <2>2, <2>3
<1>5. S = 1..(k - 1)
  <2>1. \A q \in S : q \in 1..m OBVIOUS
  <2>2. \A q \in 1..(k - 1) : q \in 1..m /\ q <= k - 1 BY <1>3
  <2>3. \A q \in 1..m : q <= k - 1 => q \in 1..(k - 1) BY <1>3
  <2> QED BY <1>4, <2>1, <2>2, <2>3
<1>6. Cardinality(S) = k - 1
  <2> PICK n \in Nat : n = k - 1 BY <1>3
  <2>1. Cardinality(1..n) = n BY FS_Interval
  <2> QED BY <1>5, <2>1
<1> HIDE DEF missing
<1> QED BY <1>3, <1>4, <1>6

LEMMA SortedWith ==
    ASSUME NEW V, NEW s \in Seq(V), NEW rank, Ranked(V, rank),
           NEW A \in SUBSET Indexes(s), NEW ix, Sorted(ix, s, rank, A),
           NEW i \in Indexes(s), i \notin A,
           NEW w, w = SearchInsert(s, rank, ix, i)
    PROVE  TakesIn(ix, s, rank, A, i, w)
<1> DEFINE m == Len(ix)
           S == {p \in DOMAIN ix : Before(s, rank, ix[p], i)}
           B == A \cup {i}
           iy == VecInsert(ix, w, i)
<1>1. /\ ix \in Seq(A) /\ m \in Nat /\ DOMAIN ix = 1..m
      /\ \A p \in 1..m : ix[p] \in A
  BY LenProperties, ElementOfSeq DEF Sorted
<1>2. \A p \in 1..m : ix[p] \in Indexes(s) /\ ix[p] # i BY <1>1
<1>3. S \in SUBSET (1..m) /\ w = Cardinality(S) BY <1>1 DEF SearchInsert
<1>4. \A p \in 1..m : p \in S <=> Before(s, rank, ix[p], i) BY <1>1
<1> HIDE DEF S
<1>5. ASSUME NEW p \in S, NEW q \in 1..m, q < p PROVE q \in S
  <2>1. p \in 1..m BY <1>3
  <2>2. Before(s, rank, ix[q], ix[p]) /\ Before(s, rank, ix[p], i)
    BY <1>4, <1>5, <2>1 DEF Sorted
  <2>3. Before(s, rank, ix[q], i) BY <1>2, <2>1, <2>2, BeforeIs
  <2> QED BY <1>4, <2>3
<1>6. w \in 0..m /\ \A q \in 1..m : q \in S <=> q <= w
  <2> HIDE DEF m
  <2> QED BY <1>1, <1>3, <1>5, DownIsUpTo
<1>7. \A q \in 1..m : /\ q <= w => Before(s, rank, ix[q], i)
                      /\ ~(q <= w) => Before(s, rank, i, ix[q])
  <2> TAKE q \in 1..m
  <2>1. Before(s, rank, ix[q], i) \/ Before(s, rank, i, ix[q])
    BY <1>2, BeforeIs
  <2> QED BY <1>4, <1>6, <2>1
<1>8. i \in B /\ ix \in Seq(B) BY <1>1, ElementOfSeq
<1> HIDE DEF B
<1>9. iy \in Seq(B) /\ IsInserted(iy, ix, w, i)
  BY <1>6, <1>8, InsertedIs
<1> HIDE DEF iy
<1>10. /\ Len(iy) = m + 1
       /\ \A p \in 1..(m + 1) :
             iy[p] = IF p <= w THEN ix[p] ELSE IF p = w + 1 THEN i ELSE ix[p - 1]
  BY <1>9 DEF IsInserted
<1>11. ASSUME NEW b \in B PROVE \E p \in 1..(m + 1) : iy[p] = b
  <2>1. CASE b = i
    <3>1. w + 1 \in 1..(m + 1) /\ ~(w + 1 <= w) BY <1>1, <1>6
    <3> QED BY <1>10, <2>1, <3>1
  <2>2. CASE b \in A
    <3> PICK q \in 1..m : ix[q] = b BY <2>2 DEF Sorted
    <3>1. CASE q <= w
      <4>1. q \in 1..(m + 1) BY <1>1
      <4> QED BY <1>10, <3>1, <4>1
    <3>2. CASE ~(q <= w)
      <4> PICK p \in 1..(m + 1) : p = q + 1 BY <1>1
      <4>1. ~(p <= w) /\ p # w + 1 /\ p - 1 = q BY <1>1, <1>6, <3>2
      <4> QED BY <1>10, <4>1
    <3> QED BY <3>1, <3>2
  <2> QED BY <2>1, <2>2 DEF B
<1>12. ASSUME NEW p \in 1..(m + 1), NEW q \in 1..(m + 1), p < q
       PROVE  Before(s, rank, iy[p], iy[q])
  <2>0. \A x, y \in 1..m : x < y => Before(s, rank, ix[x], ix[y])
    BY DEF Sorted
  <2>1. CASE q <= w
    <3>1. p \in 1..m /\ q \in 1..m /\ p <= w BY <1>1, <1>6, <1>12, <2>1
    <3> QED BY <1>10, <1>12, <2>0, <2>1, <3>1
  <2>2. CASE q = w + 1
    <3>1. p \in 1..m /\ p <= w /\ ~(q <= w) BY <1>1, <1>6, <1>12, <2>2
    <3> QED BY <1>7, <1>10, <2>2, <3>1
  <2>3. CASE ~(q <= w) /\ q # w + 1
    <3>1. q - 1 \in 1..m /\ ~(q - 1 <= w) BY <1>1, <1>6, <2>3
    <3>2. iy[q] = ix[q - 1] BY <1>10, <2>3
    <3>3. CASE p <= w
      <4>1. p \in 1..m /\ p < q - 1 BY <1>1, <1>6, <2>3, <3>3
      <4> QED BY <1>10, <2>0, <3>1, <3>2, <3>3, <4>1
    <3>4. CASE p = w + 1
      <4>1. ~(p <= w) BY <1>6, <3>4
      <4> QED BY <1>7, <1>10, <3>1, <3>2, <3>4, <4>1
    <3>5. CASE ~(p <= w) /\ p # w + 1
      <4>1. p - 1 \in 1..m /\ p - 1 < q - 1 BY <1>1, <1>6, <1>12, <3>5
      <4> QED BY <1>10, <2>0, <3>1, <3>2, <3>5, <4>1
    <3> QED BY <3>3, <3>4, <3>5
  <2> QED BY <2>1, <2>2, <2>3
<1>13. Sorted(iy, s, rank, B) BY <1>9, <1>10, <1>11, <1>12 DEF Sorted
<1>14. B \in SUBSET Indexes(s) BY DEF B
<1>15. InOrder(s, iy) = VecInsert(InOrder(s, ix), w, s[i + 1])
  <2>1. InOrder(s, iy) = Over(iy, ValueAt(s)) BY <1>9, <1>14, InOrderIs
  <2>2. InOrder(s, ix) = Over(ix, ValueAt(s)) BY <1>1, InOrderIs
  <2>3. Over(iy, ValueAt(s)) = VecInsert(Over(ix, ValueAt(s)), w, ValueAt(s)[i])
    BY <1>6, <1>8, OverInserted DEF iy
  <2>4. ValueAt(s)[i] = s[i + 1] BY DEF ValueAt
  <2> QED BY <2>1, <2>2, <2>3, <2>4
<1> QED BY <1>6, <1>13, <1>15 DEF iy, B, TakesIn

LEMMA SortedWithout ==
    ASSUME NEW V, NEW s \in Seq(V), NEW rank, Ranked(V, rank),
           NEW A \in SUBSET Indexes(s), NEW ix, Sorted(ix, s, rank, A),
           NEW i \in A, NEW w, w = SearchRemove(ix, i)
    PROVE  GivesUp(ix, s, rank, A, i, w)
<1> DEFINE m == Len(ix)
           B == A \ {i}
           iy == VecRemove(ix, w)
           c == CHOOSE p \in 1..m : ix[p] = i
<1>1. /\ ix \in Seq(A) /\ m \in Nat /\ DOMAIN ix = 1..m
      /\ \A p \in 1..m : ix[p] \in A
  BY LenProperties, ElementOfSeq DEF Sorted
<1>2. \E p \in 1..m : ix[p] = i BY DEF Sorted
<1>3. c \in 1..m /\ ix[c] = i BY <1>2
<1>4. w = c - 1 BY <1>1 DEF SearchRemove
<1> HIDE DEF c
<1>5. w \in 0..(m - 1) /\ w + 1 = c BY <1>1, <1>3, <1>4
<1>6. iy \in Seq(A) /\ IsRemoved(iy, ix, w) BY <1>1, <1>5, RemovedIs
<1> HIDE DEF iy
<1>7. /\ Len(iy) = m - 1
      /\ \A p \in 1..(m - 1) : iy[p] = IF p <= w THEN ix[p] ELSE ix[p + 1]
  BY <1>6 DEF IsRemoved
<1>8. \A p, q \in 1..m : ix[p] = ix[q] => p = q BY SortedApart
<1>9. ASSUME NEW p \in 1..(m - 1)
      PROVE  iy[p] \in B
  <2>1. iy[p] \in A BY <1>6, <1>7, ElementOfSeq
  <2>2. CASE p <= w
    <3>1. p \in 1..m /\ p # c BY <1>1, <1>5, <2>2
    <3> QED BY <1>3, <1>7, <1>8, <2>1, <2>2, <3>1
  <2>3. CASE ~(p <= w)
    <3>1. p + 1 \in 1..m /\ p + 1 # c BY <1>1, <1>5, <2>3
    <3> QED BY <1>3, <1>7, <1>8, <2>1, <2>3, <3>1
  <2> QED BY <2>2, <2>3
<1>10. iy \in Seq(B)
  <2>1. Len(iy) \in Nat /\ iy = [p \in 1..Len(iy) |-> iy[p]]
    BY <1>6, LenProperties
  <2> HIDE DEF B
  <2> QED BY <1>7, <1>9, <2>1
<1>11. ASSUME NEW b \in B PROVE \E p \in 1..(m - 1) : iy[p] = b
  <2> PICK q \in 1..m : ix[q] = b BY DEF Sorted
  <2>1. q # c BY <1>3
  <2>2. CASE q <= w
    <3>1. q \in 1..(m - 1) BY <1>1, <1>5, <2>2
    <3> QED BY <1>7, <2>2, <3>1
  <2>3. CASE ~(q <= w)
    <3> PICK p \in 1..(m - 1) : p = q - 1 BY <1>1, <1>5, <2>1, <2>3
    <3>1. ~(p <= w) /\ p + 1 = q BY <1>1, <1>5, <2>1, <2>3
    <3> QED BY <1>7, <3>1
  <2> QED BY <2>2, <2>3
<1>12. ASSUME NEW p \in 1..(m - 1), NEW q \in 1..(m - 1), p < q
       PROVE  Before(s, rank, iy[p], iy[q])
  <2>0. \A x, y \in 1..m : x < y => Before(s, rank, ix[x], ix[y])
    BY DEF Sorted
  <2> PICK x \in 1..m : x = IF p <= w THEN p ELSE p + 1 BY <1>1
  <2> PICK y \in 1..m : y = IF q <= w THEN q ELSE q + 1 BY <1>1
  <2>1. iy[p] = ix[x] /\ iy[q] = ix[y] BY <1>7
  <2>2. x < y BY <1>1, <1>5, <1>12
  <2> QED BY <2>0, <2>1, <2>2
<1>13. Sorted(iy, s, rank, B) BY <1>7, <1>10, <1>11, <1>12 DEF Sorted
<1>14. /\ InOrder(s, iy) = VecRemove(InOrder(s, ix), w)
       /\ InOrder(s, ix)[w + 1] = s[i + 1]
  <2>1. InOrder(s, iy) = Over(iy, ValueAt(s)) BY <1>6, InOrderIs
  <2>2. /\ InOrder(s, ix) = Over(ix, ValueAt(s))
        /\ \A p \in 1..m : InOrder(s, ix)[p] = s[ix[p] + 1]
    BY <1>1, InOrderIs
  <2>3. Over(iy, ValueAt(s)) = VecRemove(Over(ix, ValueAt(s)), w)
    BY <1>1, <1>5, OverRemoved DEF iy
  <2>4. InOrder(s, ix)[w + 1] = s[i + 1] BY <1>3, <1>5, <2>2
  <2> QED BY <2>1, <2>2, <2>3, <2>4
<1> QED BY <1>5, <1>13, <1>14 DEF iy, B, GivesUp

\* The diffs of insert_at and remove_at.
LEMMA SortedInsertIs ==
    ASSUME NEW V, NEW o \in Seq(V), NEW v \in V, NEW ix, Len(ix) = Len(o),
           NEW w \in 0..Len(o)
    PROVE  /\ Applicable(SortedInsert(ix, w, v), o)
           /\ Apply(SortedInsert(ix, w, v), o) = VecInsert(o, w, v)
<1>1. CASE w = Len(ix)
  <2>1. SortedInsert(ix, w, v) = PushDiff(v) BY <1>1 DEF SortedInsert
  <2>2. Append(o, v) = VecInsert(o, w, v) BY <1>1, Pushed
  <2> QED BY <2>1, <2>2, ApplyPush
<1>2. CASE w # Len(ix)
  <2>1. SortedInsert(ix, w, v) = InsertDiff(w, v) BY <1>2 DEF SortedInsert
  <2> QED BY <2>1, ApplyInsert
<1> QED BY <1>1, <1>2

LEMMA SortedRemoveIs ==
    ASSUME NEW V, NEW o \in Seq(V), NEW ix, Len(ix) = Len(o),
           NEW w \in 0..(Len(o) - 1)
    PROVE  /\ Applicable(SortedRemove(ix, w), o)
           /\ Apply(SortedRemove(ix, w), o) = VecRemove(o, w)
<1>1. Len(o) \in Nat /\ o # <<>> BY LenProperties, EmptySeq
<1>2. CASE w = Len(ix) - 1
  <2>1. SortedRemove(ix, w) = PopDiff BY <1>2 DEF SortedRemove
  <2>2. VecPop(o) = VecRemove(o, w) BY <1>1, <1>2, Popped
  <2> QED BY <1>1, <2>1, <2>2, ApplyPop
<1>3. CASE w # Len(ix) - 1
  <2>1. SortedRemove(ix, w) = RemoveDiff(w) BY <1>3 DEF SortedRemove
  <2> QED BY <2>1, ApplyRemove
<1> QED BY <1>2, <1>3

LEMMA SortPut ==
    ASSUME NEW V, NEW s \in Seq(V), NEW rank, Ranked(V, rank), NEW v \in V,
           NEW ix, Sorted(ix, s, rank, Indexes(s)), NEW i \in 0..Len(s),
           NEW t, t = VecInsert(s, i, v), NEW iz, iz = IncrementFrom(ix, i),
           NEW w, w = SearchInsert(t, rank, iz, i)
    PROVE  PutAt(s, ix, rank, v, i, t, iz, w)
<1> DEFINE n == Len(s)
           A == Indexes(s)
           B == Indexes(t) \ {i}
           f == [a \in A |-> IF a >= i THEN a + 1 ELSE a]
<1>1. /\ n \in Nat /\ ix \in Seq(A) /\ Len(ix) \in Nat /\ DOMAIN ix = 1..Len(ix)
      /\ \A p \in 1..Len(ix) : ix[p] \in A
  BY LenProperties, ElementOfSeq DEF Sorted
<1>2. t \in Seq(V) /\ IsInserted(t, s, i, v) BY InsertedIs
<1>3. /\ Len(t) = n + 1
      /\ \A k \in 1..(n + 1) :
            t[k] = IF k <= i THEN s[k] ELSE IF k = i + 1 THEN v ELSE s[k - 1]
  BY <1>2 DEF IsInserted
<1>4. A = 0..(n - 1) /\ Indexes(t) = 0..n BY <1>1, <1>3 DEF Indexes
<1>5. i \in Indexes(t) /\ t[i + 1] = v
  <2>1. i + 1 \in 1..(n + 1) /\ ~(i + 1 <= i) BY <1>1
  <2> QED BY <1>1, <1>3, <1>4, <2>1
<1>6. iz = Over(ix, f) BY <1>1 DEF IncrementFrom, Over
<1>7. Renames(f, s, A, t, B)
  <2>1. ASSUME NEW a \in A PROVE f[a] \in B /\ t[f[a] + 1] = s[a + 1]
    <3>1. CASE a >= i
      <4>1. /\ f[a] = a + 1 /\ a + 1 \in 0..n /\ a + 1 # i
            /\ a + 2 \in 1..(n + 1) /\ ~(a + 2 <= i) /\ a + 2 # i + 1
            /\ a + 2 - 1 = a + 1 /\ a + 1 + 1 = a + 2
        BY <1>1, <1>4, <3>1
      <4>2. t[a + 2] = s[a + 1] BY <1>3, <4>1
      <4> QED BY <1>4, <4>1, <4>2
    <3>2. CASE ~(a >= i)
      <4>1. /\ f[a] = a /\ a \in 0..n /\ a # i
            /\ a + 1 \in 1..(n + 1) /\ a + 1 <= i
        BY <1>1, <1>4, <3>2
      <4> QED BY <1>3, <1>4, <4>1
    <3> QED BY <3>1, <3>2
  <2>2. \A a, b \in A : a < b => f[a] < f[b] BY <1>1, <1>4
  <2>3. ASSUME NEW b \in B PROVE \E a \in A : f[a] = b
    <3>1. b \in 0..n /\ b # i BY <1>4
    <3> PICK a \in A : a = IF b > i THEN b - 1 ELSE b BY <1>1, <1>4, <3>1
    <3>2. f[a] = b BY <1>1, <1>4, <3>1
    <3> QED BY <3>2
  <2> HIDE DEF A, B, f
  <2> QED BY <2>1, <2>2, <2>3 DEF Renames
<1>8. A \in SUBSET Indexes(s) /\ B \in SUBSET Indexes(t) /\ i \notin B
      /\ B \cup {i} = Indexes(t)
  BY <1>5
<1> HIDE DEF A, B, f
<1>9. Sorted(iz, t, rank, B) /\ InOrder(t, iz) = InOrder(s, ix)
  <2>1. Sorted(ix, s, rank, A) BY DEF A
  <2>2. A \in SUBSET Indexes(s) /\ B \in SUBSET Indexes(t) BY <1>8
  <2>3. /\ Sorted(Over(ix, f), t, rank, B)
        /\ InOrder(t, Over(ix, f)) = InOrder(s, ix)
    BY <1>2, <1>7, <2>1, <2>2, SortedAgain
  <2> QED BY <1>6, <2>3
<1>10. Len(iz) = Len(ix)
  <2>1. IsOver(Over(ix, f), ix, f) BY <1>1, OverIs
  <2> QED BY <1>6, <2>1 DEF IsOver
<1>11. /\ w \in 0..Len(iz)
       /\ Sorted(VecInsert(iz, w, i), t, rank, B \cup {i})
       /\ InOrder(t, VecInsert(iz, w, i)) = VecInsert(InOrder(t, iz), w, t[i + 1])
  <2>1. /\ t \in Seq(V) /\ B \in SUBSET Indexes(t) /\ Sorted(iz, t, rank, B)
        /\ i \in Indexes(t) /\ i \notin B
    BY <1>2, <1>5, <1>8, <1>9
  <2>2. TakesIn(iz, t, rank, B, i, w) BY <2>1, SortedWith
  <2> QED BY <2>2 DEF TakesIn
<1> QED BY <1>5, <1>8, <1>9, <1>10, <1>11 DEF PutAt

LEMMA SortTake ==
    ASSUME NEW V, NEW s \in Seq(V), NEW rank, Ranked(V, rank),
           NEW ix, Sorted(ix, s, rank, Indexes(s)), NEW i \in Indexes(s),
           NEW t, t = VecRemove(s, i), NEW w, w = SearchRemove(ix, i),
           NEW iz, iz = VecRemove(DecrementAfter(ix, i), w)
    PROVE  TakenFrom(s, ix, rank, i, t, iz, w)
<1> DEFINE n == Len(s)
           A == Indexes(s)
           A1 == A \ {i}
           B == Indexes(t)
           f == [a \in A |-> IF a > i THEN a - 1 ELSE a]
           iy == VecRemove(ix, w)
<1>1. /\ n \in Nat /\ ix \in Seq(A) /\ Len(ix) \in Nat /\ DOMAIN ix = 1..Len(ix)
      /\ \A p \in 1..Len(ix) : ix[p] \in A
  BY LenProperties, ElementOfSeq DEF Sorted
<1>2. A = 0..(n - 1) /\ i \in 0..(n - 1) BY DEF Indexes
<1>3. t \in Seq(V) /\ IsRemoved(t, s, i) BY <1>2, RemovedIs
<1>4. /\ Len(t) = n - 1
      /\ \A k \in 1..(n - 1) : t[k] = IF k <= i THEN s[k] ELSE s[k + 1]
  BY <1>3 DEF IsRemoved
<1>5. B = 0..(n - 2) BY <1>1, <1>4 DEF Indexes
<1>6. /\ w \in 0..(Len(ix) - 1)
      /\ Sorted(iy, s, rank, A1)
      /\ InOrder(s, iy) = VecRemove(InOrder(s, ix), w)
      /\ InOrder(s, ix)[w + 1] = s[i + 1]
  <2> HIDE DEF A
  <2>1. A \in SUBSET Indexes(s) /\ i \in A /\ Sorted(ix, s, rank, A) BY DEF A
  <2>2. GivesUp(ix, s, rank, A, i, w) BY <2>1, SortedWithout
  <2> QED BY <2>2 DEF GivesUp
<1>7. DecrementAfter(ix, i) = Over(ix, f) BY <1>1 DEF DecrementAfter, Over
<1>8. iz = Over(iy, f)
  <2> HIDE DEF f, A
  <2> QED BY <1>1, <1>6, <1>7, OverRemoved
<1>9. Renames(f, s, A1, t, B)
  <2>1. ASSUME NEW a \in A1 PROVE f[a] \in B /\ t[f[a] + 1] = s[a + 1]
    <3>1. CASE a > i
      <4>1. /\ f[a] = a - 1 /\ a - 1 \in 0..(n - 2)
            /\ a \in 1..(n - 1) /\ ~(a <= i) /\ a - 1 + 1 = a
        BY <1>1, <1>2, <3>1
      <4>2. t[a] = s[a + 1] BY <1>4, <4>1
      <4> QED BY <1>5, <4>1, <4>2
    <3>2. CASE ~(a > i)
      <4>1. /\ f[a] = a /\ a \in 0..(n - 2)
            /\ a + 1 \in 1..(n - 1) /\ a + 1 <= i
        BY <1>1, <1>2, <3>2
      <4> QED BY <1>4, <1>5, <4>1
    <3> QED BY <3>1, <3>2
  <2>2. \A a, b \in A1 : a < b => f[a] < f[b]
    <3>1. \A a \in A1 : a \in 0..(n - 1) /\ a # i BY <1>2
    <3>2. \A a \in A1 : f[a] = IF a > i THEN a - 1 ELSE a OBVIOUS
    <3> QED BY <1>1, <1>2, <3>1, <3>2
  <2>3. ASSUME NEW b \in B PROVE \E a \in A1 : f[a] = b
    <3>1. b \in 0..(n - 2) BY <1>5
    <3> PICK a \in A1 : a = IF b >= i THEN b + 1 ELSE b BY <1>1, <1>2, <3>1
    <3>2. a \in A /\ f[a] = IF a > i THEN a - 1 ELSE a OBVIOUS
    <3>3. f[a] = b BY <1>1, <1>2, <3>1, <3>2
    <3> QED BY <3>3
  <2> HIDE DEF A, A1, B, f
  <2> QED BY <2>1, <2>2, <2>3 DEF Renames
<1>10. A1 \in SUBSET Indexes(s) /\ B \in SUBSET Indexes(t) OBVIOUS
<1> HIDE DEF A1, B, f, iy
<1>11. Sorted(iz, t, rank, B) /\ InOrder(t, iz) = InOrder(s, iy)
  BY <1>3, <1>6, <1>8, <1>9, <1>10, SortedAgain
<1> QED BY <1>6, <1>11 DEF B, TakenFrom

LEMMA SortsToIs ==
    ASSUME NEW V, NEW s, NEW t \in Seq(V), NEW rank, Ranked(V, rank), NEW iz,
           Sorted(iz, t, rank, Indexes(t)), NEW o,
           Yields(o, InOrder(s, SortedIndexes(s, rank)), InOrder(t, iz))
    PROVE  SortsTo(Fed(SortState(t, iz), o), s, t, rank)
<1>1. iz = SortedIndexes(t, rank) BY SortedOnce
<1> QED BY <1>1 DEF SortsTo, Fed

\* What sort has put out.
LEMMA OutputIs ==
    ASSUME NEW V, NEW s \in Seq(V), NEW rank, NEW ix,
           Sorted(ix, s, rank, Indexes(s))
    PROVE  InOrder(s, ix) \in Seq(V) /\ Len(InOrder(s, ix)) = Len(ix)
<1>1. ix \in Seq(Indexes(s)) BY DEF Sorted
<1> QED BY <1>1, InOrderIs

LEMMA SortInserted ==
    ASSUME NEW V, NEW s \in Seq(V), NEW rank, Ranked(V, rank), NEW v \in V,
           NEW i \in 0..Len(s), NEW ix, ix = SortedIndexes(s, rank)
    PROVE  SortsTo(SortInsert(SortState(s, ix), i, v, rank), s,
                   VecInsert(s, i, v), rank)
<1> DEFINE t == VecInsert(s, i, v)
           iz == IncrementFrom(ix, i)
           w == SearchInsert(t, rank, iz, i)
           o == InOrder(s, ix)
           d == SortedInsert(iz, w, v)
<1>1. Sorted(ix, s, rank, Indexes(s)) BY SortedIndexesAre
<1>2. SortInsert(SortState(s, ix), i, v, rank)
         = Fed(SortState(t, VecInsert(iz, w, i)), <<d>>)
  BY DEF SortInsert, SortState
<1>3. PutAt(s, ix, rank, v, i, t, iz, w) BY <1>1, SortPut
<1>4. t \in Seq(V) BY Inserted
<1>5. o \in Seq(V) /\ Len(o) = Len(ix) BY <1>1, OutputIs
<1> HIDE DEF t, iz, w, o, d
<1>6. /\ w \in 0..Len(o) /\ Len(iz) = Len(o)
      /\ Sorted(VecInsert(iz, w, i), t, rank, Indexes(t))
      /\ InOrder(t, VecInsert(iz, w, i)) = VecInsert(o, w, v)
  BY <1>3, <1>5 DEF PutAt, o
<1>7. Applicable(d, o) /\ Apply(d, o) = VecInsert(o, w, v)
  BY <1>5, <1>6, SortedInsertIs DEF d
<1>8. Yields(<<d>>, o, InOrder(t, VecInsert(iz, w, i)))
  BY <1>6, <1>7, YieldsOne
<1>9. SortsTo(Fed(SortState(t, VecInsert(iz, w, i)), <<d>>), s, t, rank)
  <2> PICK q : q = <<d>> OBVIOUS
  <2>1. Yields(q, InOrder(s, SortedIndexes(s, rank)),
               InOrder(t, VecInsert(iz, w, i)))
    BY <1>8 DEF o
  <2>2. SortsTo(Fed(SortState(t, VecInsert(iz, w, i)), q), s, t, rank)
    BY <1>4, <1>6, <2>1, SortsToIs
  <2> QED BY <2>2
<1> QED BY <1>2, <1>9 DEF t

LEMMA SortRemoved ==
    ASSUME NEW V, NEW s \in Seq(V), NEW rank, Ranked(V, rank),
           NEW i \in 0..(Len(s) - 1), NEW ix, ix = SortedIndexes(s, rank)
    PROVE  SortsTo(SortRemove(SortState(s, ix), i), s, VecRemove(s, i), rank)
<1> DEFINE t == VecRemove(s, i)
           w == SearchRemove(ix, i)
           iz == VecRemove(DecrementAfter(ix, i), w)
           o == InOrder(s, ix)
           d == SortedRemove(ix, w)
<1>1. Sorted(ix, s, rank, Indexes(s)) BY SortedIndexesAre
<1>2. SortRemove(SortState(s, ix), i) = Fed(SortState(t, iz), <<d>>)
  BY DEF SortRemove, SortState
<1>3. TakenFrom(s, ix, rank, i, t, iz, w)
  <2>1. i \in Indexes(s) BY DEF Indexes
  <2> QED BY <1>1, <2>1, SortTake
<1>4. t \in Seq(V) BY Removed
<1>5. o \in Seq(V) /\ Len(o) = Len(ix) BY <1>1, OutputIs
<1> HIDE DEF t, iz, w, o, d
<1>6. /\ w \in 0..(Len(o) - 1)
      /\ Sorted(iz, t, rank, Indexes(t))
      /\ InOrder(t, iz) = VecRemove(o, w)
  BY <1>3, <1>5 DEF TakenFrom, o
<1>7. Applicable(d, o) /\ Apply(d, o) = VecRemove(o, w)
  BY <1>5, <1>6, SortedRemoveIs DEF d
<1>8. Yields(<<d>>, o, InOrder(t, iz)) BY <1>6, <1>7, YieldsOne
<1>9. SortsTo(Fed(SortState(t, iz), <<d>>), s, t, rank)
  <2> PICK q : q = <<d>> OBVIOUS
  <2>1. Yields(q, InOrder(s, SortedIndexes(s, rank)), InOrder(t, iz))
    BY <1>8 DEF o
  <2>2. SortsTo(Fed(SortState(t, iz), q), s, t, rank)
    BY <1>4, <1>6, <2>1, SortsToIs
  <2> QED BY <2>2
<1> QED BY <1>2, <1>9 DEF t

LEMMA SortMoved ==
    ASSUME NEW V, NEW s \in Seq(V), NEW rank, Ranked(V, rank),
           NEW old \in 0..(Len(s) - 1), NEW new \in 0..(Len(s) - 1),
           NEW ix, ix = SortedIndexes(s, rank)
    PROVE  SortsTo(SortMove(SortState(s, ix), old, new, rank), s,
                   VecMove(s, old, new), rank)
<1>0. Len(s) \in Nat /\ old + 1 \in 1..Len(s) BY LenProperties
<1> PICK v \in V : v = s[old + 1] BY <1>0, ElementOfSeq
<1> DEFINE t == VecMove(s, old, new)
           from == SearchRemove(ix, old)
           u == VecRemove(s, old)
           iu == VecRemove(DecrementAfter(ix, old), from)
           iz == IncrementFrom(iu, new)
           to == SearchInsert(t, rank, iz, new)
           it == VecInsert(iz, to, new)
           o == InOrder(s, ix)
           q == IF from = to THEN <<>> ELSE <<MoveDiff(from, to)>>
<1>1. Sorted(ix, s, rank, Indexes(s)) BY SortedIndexesAre
<1>2. SortMove(SortState(s, ix), old, new, rank) = Fed(SortState(t, it), q)
  BY DEF SortMove, SortState
<1>3. TakenFrom(s, ix, rank, old, u, iu, from)
  <2>1. old \in Indexes(s) BY DEF Indexes
  <2> QED BY <1>1, <2>1, SortTake
<1>4. t \in Seq(V) /\ t = VecInsert(u, new, v)
  <2>1. t \in Seq(V) BY MovedIs
  <2> QED BY <2>1 DEF VecMove
<1>5. u \in Seq(V) /\ Len(u) = Len(s) - 1 BY Removed
<1>6. o \in Seq(V) /\ Len(o) = Len(ix) BY <1>1, OutputIs
<1> HIDE DEF u, iu, from, o
<1>7. /\ from \in 0..(Len(o) - 1)
      /\ Sorted(iu, u, rank, Indexes(u))
      /\ InOrder(u, iu) = VecRemove(o, from)
      /\ o[from + 1] = v
  BY <1>3, <1>6 DEF TakenFrom, o
<1>8. InOrder(u, iu) \in Seq(V) /\ Len(InOrder(u, iu)) = Len(iu)
  BY <1>5, <1>7, OutputIs
<1>9. Len(iu) = Len(o) - 1
  <2>1. IsRemoved(VecRemove(o, from), o, from) BY <1>6, <1>7, RemovedIs
  <2> QED BY <1>7, <1>8, <2>1 DEF IsRemoved
<1>10. PutAt(u, iu, rank, v, new, t, iz, to)
  <2>1. new \in 0..Len(u) BY <1>0, <1>5
  <2> HIDE DEF t
  <2> QED BY <1>4, <1>5, <1>7, <2>1, SortPut
<1> HIDE DEF t, iz, to
<1>11. /\ to \in 0..(Len(o) - 1)
       /\ Sorted(it, t, rank, Indexes(t))
       /\ InOrder(t, it) = VecInsert(VecRemove(o, from), to, v)
  BY <1>7, <1>9, <1>10 DEF PutAt
<1> HIDE DEF it
<1>12. InOrder(t, it) = VecMove(o, from, to) BY <1>7, <1>11 DEF VecMove
<1>13. Yields(q, o, InOrder(t, it))
  <2>1. CASE from = to
    <3>1. VecInsert(VecRemove(o, from), from, o[from + 1]) = o
      BY <1>6, <1>7, PutBack
    <3>2. InOrder(t, it) = o BY <1>7, <1>11, <2>1, <3>1
    <3>3. q = <<>> BY <2>1
    <3> QED BY <3>2, <3>3, YieldsNone
  <2>2. CASE from # to
    <3> DEFINE d == MoveDiff(from, to)
    <3>1. q = <<d>> BY <2>2
    <3>2. Applicable(d, o) /\ Apply(d, o) = VecMove(o, from, to)
      BY <1>7, <1>11, ApplyMove
    <3> HIDE DEF d, q
    <3> QED BY <1>12, <3>1, <3>2, YieldsOne
  <2> QED BY <2>1, <2>2
<1> HIDE DEF q
<1>14. SortsTo(Fed(SortState(t, it), q), s, t, rank)
  <2>1. Yields(q, InOrder(s, SortedIndexes(s, rank)), InOrder(t, it))
    BY <1>13 DEF o
  <2> QED BY <1>4, <1>11, <2>1, SortsToIs
<1> QED BY <1>2, <1>14 DEF t

LEMMA SortUpdated ==
    ASSUME NEW V, NEW s \in Seq(V), NEW rank, Ranked(V, rank), NEW v \in V,
           NEW i \in 0..(Len(s) - 1), NEW ix, ix = SortedIndexes(s, rank)
    PROVE  SortsTo(SortUpdate(SortState(s, ix), i, v, rank), s,
                   ReplaceAt(s, i + 1, v), rank)
<1> DEFINE t == ReplaceAt(s, i + 1, v)
           old == SearchRemove(ix, i)
           rest == VecRemove(ix, old)
           new == SearchInsert(t, rank, rest, i)
           it == VecInsert(rest, new, i)
           A == Indexes(s) \ {i}
           o == InOrder(s, ix)
           u == InOrder(s, rest)
           c == SortedRemove(ix, old)
           d == SortedInsert(rest, new, v)
           q == IF old = new THEN <<UpdateDiff(new, v)>> ELSE <<c, d>>
<1>0. Len(s) \in Nat /\ i + 1 \in 1..Len(s) /\ i \in Indexes(s)
  BY LenProperties DEF Indexes
<1>1. Sorted(ix, s, rank, Indexes(s)) BY SortedIndexesAre
<1>2. SortUpdate(SortState(s, ix), i, v, rank) = Fed(SortState(t, it), q)
  BY DEF SortUpdate, SortState
<1>3. /\ t \in Seq(V) /\ Len(t) = Len(s)
      /\ \A p \in 1..Len(s) : t[p] = IF p = i + 1 THEN v ELSE s[p]
  <2>1. \A p \in 1..Len(s) : s[p] \in V BY ElementOfSeq
  <2>2. DOMAIN s = 1..Len(s) BY LenProperties
  <2> QED BY <1>0, <2>1, <2>2 DEF ReplaceAt
<1>4. Indexes(t) = Indexes(s) BY <1>3 DEF Indexes
<1> HIDE DEF t
<1>5. /\ old \in 0..(Len(ix) - 1)
      /\ Sorted(rest, s, rank, A)
      /\ u = VecRemove(o, old)
      /\ o[old + 1] = s[i + 1]
  <2>1. GivesUp(ix, s, rank, Indexes(s), i, old)
    BY <1>0, <1>1, SortedWithout
  <2> QED BY <2>1 DEF GivesUp
<1>6. o \in Seq(V) /\ Len(o) = Len(ix) BY <1>1, OutputIs
<1> HIDE DEF old, rest, o
<1>7. Sorted(rest, t, rank, A) /\ InOrder(t, rest) = u
  <2> DEFINE f == [a \in A |-> a]
  <2>1. rest \in Seq(A) BY <1>5 DEF Sorted
  <2>2. Over(rest, f) = rest
    <3>1. /\ DOMAIN rest = 1..Len(rest)
          /\ \A p \in 1..Len(rest) : f[rest[p]] = rest[p]
          /\ rest = [p \in 1..Len(rest) |-> rest[p]]
      BY <2>1, LenProperties, ElementOfSeq
    <3> HIDE DEF f
    <3> QED BY <3>1 DEF Over
  <2>3. Renames(f, s, A, t, A)
    <3>1. ASSUME NEW a \in A PROVE t[a + 1] = s[a + 1]
      <4>1. a + 1 \in 1..Len(s) /\ a + 1 # i + 1 BY <1>0 DEF Indexes
      <4> QED BY <1>3, <4>1
    <3> HIDE DEF A
    <3> QED BY <3>1 DEF Renames
  <2>4. A \in SUBSET Indexes(s) /\ A \in SUBSET Indexes(t) BY <1>4
  <2> HIDE DEF A, f
  <2>5. /\ Sorted(Over(rest, f), t, rank, A)
        /\ InOrder(t, Over(rest, f)) = InOrder(s, rest)
    BY <1>3, <1>5, <2>3, <2>4, SortedAgain
  <2> QED BY <2>2, <2>5
<1>8. TakesIn(rest, t, rank, A, i, new)
  <2>1. A \in SUBSET Indexes(t) /\ i \in Indexes(t) /\ i \notin A
    BY <1>0, <1>4
  <2> HIDE DEF A
  <2> QED BY <1>3, <1>7, <2>1, SortedWith
<1>9. t[i + 1] = v BY <1>0, <1>3
<1>10. A \cup {i} = Indexes(t) BY <1>0, <1>4
<1>11. u \in Seq(V) /\ Len(u) = Len(rest) /\ Len(u) = Len(o) - 1
  <2>1. A \in SUBSET Indexes(s) /\ rest \in Seq(A) BY <1>5 DEF Sorted
  <2>2. u \in Seq(V) /\ Len(u) = Len(rest) BY <2>1, InOrderIs
  <2>3. IsRemoved(VecRemove(o, old), o, old) BY <1>5, <1>6, RemovedIs
  <2> QED BY <1>5, <2>2, <2>3 DEF IsRemoved
<1> HIDE DEF new, u, A
<1>12. /\ new \in 0..Len(u)
       /\ Sorted(it, t, rank, Indexes(t))
       /\ InOrder(t, it) = VecInsert(u, new, v)
  BY <1>7, <1>8, <1>9, <1>10, <1>11 DEF TakesIn
<1> HIDE DEF it
<1>13. Yields(q, o, InOrder(t, it))
  <2>1. CASE old = new
    <3> DEFINE e == UpdateDiff(new, v)
    <3>1. q = <<e>> BY <2>1
    <3>2. SameAsReplaced(o, old, v) BY <1>5, <1>6, Replaced
    <3>3. ReplaceAt(o, new + 1, v) = VecInsert(u, new, v)
      BY <1>5, <2>1, <3>2 DEF SameAsReplaced
    <3>4. new \in 0..(Len(o) - 1) BY <1>5, <1>6, <2>1
    <3>5. Applicable(e, o) /\ Apply(e, o) = ReplaceAt(o, new + 1, v)
      BY <3>4, ApplyUpdate
    <3> HIDE DEF e, q
    <3> QED BY <1>12, <3>1, <3>3, <3>5, YieldsOne
  <2>2. CASE old # new
    <3>1. q = <<c, d>> BY <2>2
    <3>2. Applicable(c, o) /\ Apply(c, o) = u
      BY <1>5, <1>6, SortedRemoveIs
    <3>3. Applicable(d, u) /\ Apply(d, u) = VecInsert(u, new, v)
      BY <1>11, <1>12, SortedInsertIs
    <3> HIDE DEF c, d, q
    <3> QED BY <1>12, <3>1, <3>2, <3>3, YieldsTwo
  <2> QED BY <2>1, <2>2
<1> HIDE DEF q
<1>14. SortsTo(Fed(SortState(t, it), q), s, t, rank)
  <2>1. Yields(q, InOrder(s, SortedIndexes(s, rank)), InOrder(t, it))
    BY <1>13 DEF o
  <2> QED BY <1>3, <1>12, <2>1, SortsToIs
<1> QED BY <1>2, <1>14 DEF t

\* The indexes stay sorted, and so does the output.
THEOREM SortFollows ==
    ASSUME NEW V, NEW max \in Nat, NEW s \in SeqOf(V, max), NEW rank,
           Ranked(V, rank), NEW d \in LegalDiffs(s, V, max)
    PROVE  SortsTo(SortFeed(SortState(s, SortedIndexes(s, rank)), d, rank),
                   s, Apply(d, s), rank)
<1> DEFINE t == Apply(d, s)
           ix == SortedIndexes(s, rank)
           e == SortState(s, ix)
<1>2. s \in Seq(V) /\ Len(s) <= max BY ShortSeqs
<1>3. Len(s) \in Nat BY <1>2, LenProperties
<1>4. e.values = s BY DEF SortState
<1> HIDE DEF ix, e
<1>5. CASE \E vs \in SeqOf(V, max) : d = ReplaceDiff(vs)
  <2> PICK vs \in SeqOf(V, max) : d = ReplaceDiff(vs) BY <1>5
  <2>1. vs \in Seq(V) BY ShortSeqs
  <2>2. d.op = "Replace" /\ d.values = vs BY DEF ReplaceDiff
  <2>3. t = vs BY ApplyReplace
  <2> DEFINE iv == SortedIndexes(vs, rank)
             c == ReplaceDiff(InOrder(vs, iv))
             q == <<c>>
  <2>4. SortReplace(vs, rank) = Fed(SortState(vs, iv), q)
    BY DEF SortReplace, InOrder
  <2>5. Sorted(iv, vs, rank, Indexes(vs)) BY <2>1, SortedIndexesAre
  <2>6. /\ Applicable(c, InOrder(s, ix))
        /\ Apply(c, InOrder(s, ix)) = InOrder(vs, iv)
    BY ApplyReplace
  <2> HIDE DEF c, iv
  <2>7. Yields(q, InOrder(s, ix), InOrder(vs, iv)) BY <2>6, YieldsOne
  <2> HIDE DEF q
  <2>8. SortsTo(Fed(SortState(vs, iv), q), s, vs, rank)
    BY <2>1, <2>5, <2>7, SortsToIs DEF ix
  <2>9. SortFeed(e, d, rank) = SortReplace(d.values, rank)
    BY <2>2, Zenon DEF SortFeed
  <2> QED BY <2>2, <2>3, <2>4, <2>8, <2>9 DEF e, ix
<1>6. CASE Len(s) # max /\ \E i \in 0..Len(s), v \in V : d = InsertDiff(i, v)
  <2> PICK i \in 0..Len(s), v \in V : d = InsertDiff(i, v) BY <1>6
  <2>2. d.op = "InsertAt" /\ d.index = i /\ d.value = v BY DEF InsertDiff
  <2>3. t = VecInsert(s, i, v) BY ApplyInsert
  <2>4. SortsTo(SortInsert(e, i, v, rank), s, VecInsert(s, i, v), rank)
    BY <1>2, SortInserted DEF e, ix
  <2>5. SortFeed(e, d, rank) = SortInsert(e, d.index, d.value, rank)
    BY <2>2, Zenon DEF SortFeed
  <2> QED BY <2>2, <2>3, <2>4, <2>5 DEF e, ix
<1>7. CASE Len(s) # max /\ \E v \in V : d = PushDiff(v)
  <2> PICK v \in V : d = PushDiff(v) BY <1>7
  <2>2. d.op = "Push" /\ d.value = v BY DEF PushDiff
  <2> PICK i \in 0..Len(s) : i = Len(s) BY <1>3
  <2>3. t = Append(s, v) /\ Append(s, v) = VecInsert(s, i, v)
    BY <1>2, ApplyPush, Pushed
  <2>4. SortsTo(SortInsert(e, i, v, rank), s, VecInsert(s, i, v), rank)
    BY <1>2, SortInserted DEF e, ix
  <2>5. SortFeed(e, d, rank) = SortInsert(e, Len(e.values), d.value, rank)
    BY <2>2, Zenon DEF SortFeed
  <2> QED BY <1>4, <2>2, <2>3, <2>4, <2>5 DEF e, ix
<1>8. CASE \E i \in 0..(Len(s) - 1), v \in V : d = UpdateDiff(i, v)
  <2> PICK i \in 0..(Len(s) - 1), v \in V : d = UpdateDiff(i, v) BY <1>8
  <2>2. d.op = "UpdateAt" /\ d.index = i /\ d.value = v BY DEF UpdateDiff
  <2>3. t = ReplaceAt(s, i + 1, v) BY ApplyUpdate
  <2>4. SortsTo(SortUpdate(e, i, v, rank), s, ReplaceAt(s, i + 1, v), rank)
    BY <1>2, SortUpdated DEF e, ix
  <2>5. SortFeed(e, d, rank) = SortUpdate(e, d.index, d.value, rank)
    BY <2>2, Zenon DEF SortFeed
  <2> QED BY <2>2, <2>3, <2>4, <2>5 DEF e, ix
<1>9. CASE \E i \in 0..(Len(s) - 1) : d = RemoveDiff(i)
  <2> PICK i \in 0..(Len(s) - 1) : d = RemoveDiff(i) BY <1>9
  <2>2. d.op = "RemoveAt" /\ d.index = i BY DEF RemoveDiff
  <2>3. t = VecRemove(s, i) BY ApplyRemove
  <2>4. SortsTo(SortRemove(e, i), s, VecRemove(s, i), rank)
    BY <1>2, SortRemoved DEF e, ix
  <2>5. SortFeed(e, d, rank) = SortRemove(e, d.index)
    BY <2>2, Zenon DEF SortFeed
  <2> QED BY <2>2, <2>3, <2>4, <2>5 DEF e, ix
<1>10. CASE \E i, j \in 0..(Len(s) - 1) : d = MoveDiff(i, j)
  <2> PICK i \in 0..(Len(s) - 1), j \in 0..(Len(s) - 1) : d = MoveDiff(i, j)
    BY <1>10
  <2>2. d.op = "Move" /\ d.old = i /\ d.new = j BY DEF MoveDiff
  <2>3. t = VecMove(s, i, j) BY ApplyMove
  <2>4. SortsTo(SortMove(e, i, j, rank), s, VecMove(s, i, j), rank)
    BY <1>2, SortMoved DEF e, ix
  <2>5. SortFeed(e, d, rank) = SortMove(e, d.old, d.new, rank)
    BY <2>2, Zenon DEF SortFeed
  <2> QED BY <2>2, <2>3, <2>4, <2>5 DEF e, ix
<1>11. CASE (\E i \in 1..Len(s) : TRUE) /\ d = PopDiff
  <2>1. s # <<>> BY <1>2, <1>11, EmptySeq
  <2>2. d.op = "Pop" BY <1>11 DEF PopDiff
  <2> PICK i \in 0..(Len(s) - 1) : i = Len(s) - 1 BY <1>3, <1>11
  <2>3. t = VecPop(s) /\ VecPop(s) = VecRemove(s, i)
    BY <1>2, <1>11, <2>1, ApplyPop, Popped
  <2>4. SortsTo(SortRemove(e, i), s, VecRemove(s, i), rank)
    BY <1>2, SortRemoved DEF e, ix
  <2>5. SortFeed(e, d, rank) = SortRemove(e, Len(e.values) - 1)
    BY <2>2, Zenon DEF SortFeed
  <2> QED BY <1>4, <2>3, <2>4, <2>5 DEF e, ix
<1>12. CASE d = ClearDiff
  <2>2. d.op = "Clear" BY <1>12 DEF ClearDiff
  <2>3. t = <<>> BY <1>12, ApplyClear
  <2> DEFINE c == ClearDiff
             q == <<c>>
             z == <<>>
  <2>4. SortFeed(e, d, rank) = Fed(SortState(z, z), q)
    BY <2>2, Zenon DEF SortFeed
  <2>5. z \in Seq(V) /\ InOrder(z, z) = z /\ Sorted(z, z, rank, Indexes(z))
    BY DEF InOrder, Sorted, Indexes
  <2>6. Applicable(c, InOrder(s, ix)) /\ Apply(c, InOrder(s, ix)) = z
    BY ApplyClear
  <2> HIDE DEF c, z
  <2>7. Yields(q, InOrder(s, ix), InOrder(z, z)) BY <2>5, <2>6, YieldsOne
  <2> HIDE DEF q
  <2>8. SortsTo(Fed(SortState(z, z), q), s, z, rank)
    BY <2>5, <2>7, SortsToIs DEF ix
  <2> QED BY <2>3, <2>4, <2>8 DEF e, ix, z
<1> HIDE DEF t
<1> QED BY <1>5, <1>6, <1>7, <1>8, <1>9, <1>10, <1>11, <1>12, LegalIs DEF e, ix, t

-----------------------------------------------------------------------------
(* Queues of diffs.                                                        *)

LEMMA InputIs ==
    IInv <=> /\ adapter \in Adapters
             /\ InputOf(adapter, contents, seen, queue)
             /\ {closed, registered, woken} \subseteq BOOLEAN
             /\ pc \in {"idle", "polling", "done"}
             /\ Following
BY DEF IInv, InputOf, LeadsOf, Leads, AllDiffs, DiffsOf, Diffs, ContentsOf,
       Contents

LEMMA InputIsNext ==
    IInv' <=> /\ adapter' \in Adapters
              /\ InputOf(adapter', contents', seen', queue')
              /\ {closed', registered', woken'} \subseteq BOOLEAN
              /\ pc' \in {"idle", "polling", "done"}
              /\ Following'
BY DEF IInv, InputOf, LeadsOf, Leads, AllDiffs, DiffsOf, Diffs, ContentsOf,
       Contents

LEMMA ValuesAre ==
    ASSUME NEW a \in Adapters
    PROVE  /\ MaxLen \in Nat /\ Values[a] \in SUBSET Nat
           /\ <<>> \in ContentsOf(a)
<1>1. MaxLen \in Nat /\ Values[a] \in SUBSET Nat
  BY BoundsAssumption, ValuesAssumption
<1>2. <<>> \in Seq(Values[a]) /\ Len(<<>>) <= MaxLen BY <1>1
<1>3. <<>> \in ContentsOf(a) BY <1>1, <1>2, ShortSeqs DEF ContentsOf
<1> QED BY <1>1, <1>3

LEMMA DiffsApply ==
    ASSUME NEW a \in Adapters, NEW s \in ContentsOf(a), NEW d \in DiffsOf(a, s)
    PROVE  /\ d \in LegalDiffs(s, Values[a], MaxLen)
           /\ a = "filter" /\ d.op = "Move" => Moves
           /\ Apply(d, s) \in ContentsOf(a)
           /\ d \in AllDiffs(a)
<1>1. d \in LegalDiffs(s, Values[a], MaxLen)
      /\ (a = "filter" /\ d.op = "Move" => Moves)
  BY DEF DiffsOf
<1>2. Apply(d, s) \in ContentsOf(a)
  BY <1>1, ValuesAre, LegalApplies DEF ContentsOf
<1>3. d \in AllDiffs(a) BY DEF AllDiffs
<1> QED BY <1>1, <1>2, <1>3

LEMMA LeadsNowhere ==
    ASSUME NEW a, NEW s \in ContentsOf(a)
    PROVE  LeadsOf(a, <<>>, s, s)
<1> DEFINE c == [i \in 1..1 |-> s]
<1>1. Len(<<>>) = 0 OBVIOUS
<1>2. c \in [1..(Len(<<>>) + 1) -> ContentsOf(a)] BY <1>1
<1>3. c[1] = s /\ c[Len(<<>>) + 1] = s BY <1>1
<1>4. 1..Len(<<>>) = {} BY <1>1
<1> HIDE DEF c
<1> QED BY <1>2, <1>3, <1>4 DEF LeadsOf

\* The input sends a diff.
LEMMA LeadsFurther ==
    ASSUME NEW a \in Adapters, NEW q \in Seq(AllDiffs(a)), NEW from, NEW to,
           to \in ContentsOf(a), NEW d \in DiffsOf(a, to),
           LeadsOf(a, q, from, to)
    PROVE  /\ LeadsOf(a, Append(q, d), from, Apply(d, to))
           /\ Append(q, d) \in Seq(AllDiffs(a))
<1>1. PICK c \in [1..(Len(q) + 1) -> ContentsOf(a)] :
        /\ c[1] = from
        /\ c[Len(q) + 1] = to
        /\ \A i \in 1..Len(q) :
              q[i] \in DiffsOf(a, c[i]) /\ c[i + 1] = Apply(q[i], c[i])
  BY DEF LeadsOf
<1>0. Apply(d, to) \in ContentsOf(a) /\ d \in AllDiffs(a) BY DiffsApply
<1> DEFINE p == Append(q, d)
           e == [i \in 1..(Len(q) + 2) |->
                    IF i = Len(q) + 2 THEN Apply(d, to) ELSE c[i]]
<1>2. /\ Len(q) \in Nat /\ p \in Seq(AllDiffs(a)) /\ Len(p) = Len(q) + 1
      /\ \A i \in 1..Len(q) : p[i] = q[i]
      /\ p[Len(q) + 1] = d
  BY <1>0, AppendProperties, LenProperties
<1>3. e \in [1..(Len(p) + 1) -> ContentsOf(a)] BY <1>0, <1>1, <1>2
<1>4. e[1] = from /\ e[Len(p) + 1] = Apply(d, to) BY <1>1, <1>2
<1>5. ASSUME NEW i \in 1..Len(p)
      PROVE  p[i] \in DiffsOf(a, e[i]) /\ e[i + 1] = Apply(p[i], e[i])
  <2>1. CASE i \in 1..Len(q)
    <3>1. p[i] = q[i] /\ e[i] = c[i] /\ e[i + 1] = c[i + 1]
      BY <1>2, <2>1
    <3> QED BY <1>1, <2>1, <3>1
  <2>2. CASE i = Len(q) + 1
    <3>1. p[i] = d /\ e[i] = to /\ e[i + 1] = Apply(d, to)
      BY <1>1, <1>2, <2>2
    <3> QED BY <3>1
  <2> QED BY <1>2, <2>1, <2>2
<1> HIDE DEF p, e
<1>6. LeadsOf(a, p, from, Apply(d, to)) BY <1>3, <1>4, <1>5 DEF LeadsOf
<1> QED BY <1>2, <1>6 DEF p

\* The adapter takes the first diff.
LEMMA LeadsOn ==
    ASSUME NEW a, NEW q \in Seq(AllDiffs(a)), q # <<>>, NEW from, NEW to,
           LeadsOf(a, q, from, to)
    PROVE  /\ Head(q) \in DiffsOf(a, from)
           /\ Tail(q) \in Seq(AllDiffs(a)) /\ Len(Tail(q)) = Len(q) - 1
           /\ LeadsOf(a, Tail(q), Apply(Head(q), from), to)
<1>1. PICK c \in [1..(Len(q) + 1) -> ContentsOf(a)] :
        /\ c[1] = from
        /\ c[Len(q) + 1] = to
        /\ \A i \in 1..Len(q) :
              q[i] \in DiffsOf(a, c[i]) /\ c[i + 1] = Apply(q[i], c[i])
  BY DEF LeadsOf
<1> DEFINE p == Tail(q)
           e == [i \in 1..Len(q) |-> c[i + 1]]
<1>2. /\ Len(q) \in Nat \ {0} /\ p \in Seq(AllDiffs(a)) /\ Len(p) = Len(q) - 1
      /\ \A i \in 1..Len(p) : p[i] = q[i + 1]
      /\ Head(q) = q[1]
  BY HeadTailProperties, LenProperties, EmptySeq
<1>3. q[1] \in DiffsOf(a, from) /\ c[2] = Apply(q[1], from) BY <1>1, <1>2
<1>5. e \in [1..(Len(p) + 1) -> ContentsOf(a)] BY <1>1, <1>2
<1>6. e[1] = c[2] /\ e[Len(p) + 1] = to BY <1>1, <1>2
<1>7. ASSUME NEW i \in 1..Len(p)
      PROVE  p[i] \in DiffsOf(a, e[i]) /\ e[i + 1] = Apply(p[i], e[i])
  <2>1. i + 1 \in 1..Len(q) BY <1>2
  <2>2. p[i] = q[i + 1] /\ e[i] = c[i + 1] /\ e[i + 1] = c[i + 1 + 1]
    BY <1>2, <2>1
  <2> QED BY <1>1, <2>1, <2>2
<1> HIDE DEF p, e
<1>8. LeadsOf(a, p, c[2], to) BY <1>5, <1>6, <1>7 DEF LeadsOf
<1> QED BY <1>2, <1>3, <1>8 DEF p

-----------------------------------------------------------------------------
(* The adapters, one by one.                                               *)

LEMMA ExpectedIs ==
    /\ Expected(seen) = ExpectedOf(adapter, seen)
    /\ Expected(seen)' = ExpectedOf(adapter', seen')
BY DEF Expected, ExpectedOf, Over, InOrder, IsSignal

LEMMA ExpectedEach ==
    ASSUME NEW s
    PROVE  /\ ExpectedOf("map", s) = Over(s, Image)
           /\ ExpectedOf("filter", s) = Passed(s, Keep)
           /\ ExpectedOf("sort", s) = InOrder(s, SortedIndexes(s, Rank))
<1>0. "map" \notin Signals /\ "filter" \notin Signals /\ "sort" \notin Signals
  BY DEF Signals
<1>1. ExpectedOf("map", s) = Over(s, Image) BY <1>0, Zenon DEF ExpectedOf
<1>2. ExpectedOf("filter", s) = Passed(s, Keep) BY <1>0, Zenon DEF ExpectedOf
<1>3. ExpectedOf("sort", s) = InOrder(s, SortedIndexes(s, Rank))
  BY <1>0, Zenon DEF ExpectedOf
<1> QED BY <1>1, <1>2, <1>3

LEMMA ExpectedValue ==
    ASSUME NEW a \in Signals, NEW s
    PROVE  ExpectedOf(a, s) = Value(a, s)
<1>1. /\ a # "map" /\ a # "filter" /\ a # "sort" /\ a # "enumerate"
  BY DEF Signals
<1> QED BY <1>1, Zenon DEF ExpectedOf

LEMMA FollowingIs ==
    /\ Following <=> FollowingOf(adapter, st, seen, out, view, pc)
    /\ Following' <=> FollowingOf(adapter', st', seen', out', view', pc')
BY ExpectedIs, Zenon
   DEF Following, FollowingOf, Valued, ValuedOf, Flags, IsSignal

\* Nothing seen yet.
LEMMA FollowingFirst ==
    ASSUME Init
    PROVE  FollowingOf(adapter, st, seen, out, view, pc)
<1> DEFINE z == <<>>
           I1 == [m \in 1..(2 * MaxLen) |-> NoIndex]
<1>1. adapter \in Adapters /\ seen = z /\ out = z /\ pc = "idle" BY DEF Init
<1>2. /\ adapter \in {"map", "filter"} => st = z
      /\ adapter = "sort" => st = SortState(z, z)
      /\ adapter = "enumerate" => st = EnumerateState(z, I1)
      /\ adapter \in Signals => st = FirstState
  <2>1. /\ adapter \in Signals
              => /\ adapter # "map" /\ adapter # "filter" /\ adapter # "sort"
                 /\ adapter # "enumerate"
        /\ adapter \in {"map", "filter"}
              => adapter # "sort" /\ adapter # "enumerate"
        /\ adapter = "sort" => adapter # "enumerate"
    BY DEF Signals
  <2>2. st = CASE adapter \in {"map", "filter"} -> z
              [] adapter = "sort" -> SortState(z, z)
              [] adapter = "enumerate" -> EnumerateState(z, I1)
              [] adapter \in Signals -> FirstState
    BY DEF Init, IsSignal
  <2>3. /\ adapter \in {"map", "filter"} \/ adapter \notin {"map", "filter"}
        /\ adapter = "sort" => adapter \notin {"map", "filter"}
        /\ adapter = "enumerate" => adapter \notin {"map", "filter"}
        /\ adapter \in Signals => adapter \notin {"map", "filter"}
    BY DEF Signals
  <2> HIDE DEF z, I1
  <2>4. adapter \in {"map", "filter"} => st = z BY <2>1, <2>2, <2>3, Zenon
  <2>5. adapter = "sort" => st = SortState(z, z) BY <2>1, <2>2, <2>3, Zenon
  <2>6. adapter = "enumerate" => st = EnumerateState(z, I1)
    BY <2>1, <2>2, <2>3, Zenon
  <2>7. adapter \in Signals => st = FirstState BY <2>1, <2>2, <2>3, Zenon
  <2> QED BY <2>4, <2>5, <2>6, <2>7
<1>3. view = IF adapter \in Signals THEN NoValue ELSE z BY DEF Init, IsSignal
<1>4. z \in Seq({}) /\ Len(z) = 0 /\ DOMAIN z = {} OBVIOUS
<1>5. adapter \in {"map", "filter", "sort", "enumerate"} => view = z
  BY <1>3 DEF Signals
<1>6. CASE adapter = "map"
  <2>1. Over(z, Image) = z BY OverEmpty
  <2>2. ExpectedOf("map", z) = z BY <2>1, ExpectedEach
  <2>3. Yields(z, z, z) /\ z = <<>> BY YieldsNone
  <2> HIDE DEF z
  <2> QED BY <1>1, <1>2, <1>5, <1>6, <2>2, <2>3 DEF FollowingOf, Signals
<1>7. CASE adapter = "filter"
  <2>1. Flags(z, Keep) = z BY DEF Flags
  <2>2. Passed(z, Keep) \in Seq({}) BY <1>4, PassedMatch
  <2>3. Passed(z, Keep) = z
    <3>1. \A q \in Seq({}) : q = <<>>
      <4> TAKE q \in Seq({})
      <4>1. \A i \in 1..Len(q) : q[i] \in {} BY ElementOfSeq
      <4>2. Len(q) \in Nat BY LenProperties
      <4>3. Len(q) = 0
        <5>1. CASE Len(q) # 0
          <6>1. 1 \in 1..Len(q) BY <4>2, <5>1
          <6> QED BY <4>1, <6>1
        <5> QED BY <5>1
      <4> QED BY <4>3, EmptySeq
    <3> QED BY <2>2, <3>1
  <2>4. ExpectedOf("filter", z) = z BY <2>3, ExpectedEach
  <2>5. Yields(z, z, z) BY YieldsNone
  <2> HIDE DEF z
  <2> QED BY <1>1, <1>2, <1>5, <1>7, <2>1, <2>4, <2>5 DEF FollowingOf, Signals
<1>8. CASE adapter = "sort"
  <2>1. Sorted(z, z, Rank, Indexes(z)) BY DEF Sorted, Indexes
  <2>2. Ranked({}, Rank) BY DEF Ranked
  <2>3. InOrder(z, z) = z BY DEF InOrder
  <2> HIDE DEF z
  <2>4. z = SortedIndexes(z, Rank) BY <1>4, <2>1, <2>2, SortedOnce
  <2>5. ExpectedOf("sort", z) = z BY <2>3, <2>4, ExpectedEach
  <2>6. Yields(z, z, z) BY YieldsNone DEF z
  <2> QED BY <1>1, <1>2, <1>5, <1>8, <2>4, <2>5, <2>6 DEF FollowingOf, Signals
<1>9. CASE adapter = "enumerate"
  <2>1. /\ z \in Seq(Names) /\ Len(z) = 0 /\ 0 \in 0..MaxLen
        /\ Labelled(z, z) = z
    BY BoundsAssumption DEF Labelled
  <2>2. I1 = [m \in Names |-> NoIndex] BY DEF Names
  <2>3. Numbered(EnumerateState(z, I1), Len(z))
    <3> HIDE DEF z
    <3> PICK n1 \in 0..MaxLen : n1 = Len(z) BY <2>1
    <3>1. \A k \in 1..n1 : FALSE BY <2>1
    <3>2. I1 = [m \in Names |-> I1[m]] /\ \A m \in Names : I1[m] = NoIndex
      BY <2>2
    <3> HIDE DEF I1
    <3>3. Numbered(EnumerateState(z, I1), n1) BY <2>1, <3>1, <3>2, HeldIf
    <3> QED BY <3>3
  <2>4. Yields(z, z, z) BY YieldsNone
  <2>5. EnumerateState(z, I1).mutables = z BY DEF EnumerateState
  <2> HIDE DEF z, I1
  <2> QED BY <1>1, <1>2, <1>5, <1>9, <2>1, <2>3, <2>4, <2>5
          DEF FollowingOf, Signals
<1>10. CASE adapter \in Signals
  <2>1. /\ st = [values |-> <<>>, changed |-> FALSE, first |-> TRUE,
                 old |-> NoValue]
        /\ view = NoValue
    BY <1>2, <1>3, <1>10 DEF FirstState
  <2>2. /\ st = [values |-> seen, changed |-> st.changed, first |-> st.first,
                 old |-> st.old]
        /\ st.old = NoValue /\ st.changed = FALSE /\ st.first = TRUE
    BY <1>1, <2>1
  <2>3. ValuedOf(adapter, st, seen, out, view, pc)
    BY <1>1, <2>1, <2>2, Zenon DEF ValuedOf
  <2> QED BY <1>10, <2>3 DEF FollowingOf, Signals
<1> QED BY <1>1, <1>6, <1>7, <1>8, <1>9, <1>10, AdaptersAssumption

LEMMA FeedIs == \A d : Feed(d) = FeedOf(adapter, st, d)
BY DEF Feed, FeedOf, IsSignal

LEMMA FeedEach ==
    ASSUME NEW e, NEW d
    PROVE  /\ FeedOf("map", e, d) = Fed(<<>>, <<MapVecDiff(d, Image)>>)
           /\ FeedOf("filter", e, d) = FilterFeed(e, d, Keep)
           /\ FeedOf("sort", e, d) = SortFeed(e, d, Rank)
           /\ FeedOf("enumerate", e, d) = EnumerateFeed(e, d)
           /\ \A a \in Signals : FeedOf(a, e, d) = ValueFeed(a, e, d)
<1>0. /\ "map" \notin Signals /\ "filter" \notin Signals
      /\ "sort" \notin Signals /\ "enumerate" \notin Signals
  BY DEF Signals
<1>1. FeedOf("map", e, d) = Fed(<<>>, <<MapVecDiff(d, Image)>>)
  BY <1>0, Zenon DEF FeedOf
<1>2. FeedOf("filter", e, d) = FilterFeed(e, d, Keep) BY <1>0, Zenon DEF FeedOf
<1>3. FeedOf("sort", e, d) = SortFeed(e, d, Rank) BY <1>0, Zenon DEF FeedOf
<1>4. FeedOf("enumerate", e, d) = EnumerateFeed(e, d)
  BY <1>0, Zenon DEF FeedOf
<1>5. ASSUME NEW a \in Signals PROVE FeedOf(a, e, d) = ValueFeed(a, e, d)
  <2>1. a # "map" /\ a # "filter" /\ a # "sort" /\ a # "enumerate" BY <1>0
  <2> QED BY <2>1, Zenon DEF FeedOf
<1> QED BY <1>1, <1>2, <1>3, <1>4, <1>5

LEMMA FieldsSet ==
    ASSUME NEW v, NEW g, NEW f, NEW o, NEW x, NEW e,
           e = [values |-> v, changed |-> g, first |-> f, old |-> o]
    PROVE  /\ [e EXCEPT !.values = x]
                 = [values |-> x, changed |-> g, first |-> f, old |-> o]
           /\ [e EXCEPT !.changed = x]
                 = [values |-> v, changed |-> x, first |-> f, old |-> o]
           /\ [e EXCEPT !.first = x]
                 = [values |-> v, changed |-> g, first |-> x, old |-> o]
           /\ [e EXCEPT !.old = x]
                 = [values |-> v, changed |-> g, first |-> f, old |-> x]
           /\ e.values = v
OBVIOUS

Reset(e, no, x) ==
    [e EXCEPT !.changed = no, !.first = no, !.old = x]

LEMMA FieldsReset ==
    \A v, g, f, o, no, x :
        Reset([values |-> v, changed |-> g, first |-> f, old |-> o], no, x)
              = [values |-> v, changed |-> no, first |-> no, old |-> x]
<1> TAKE v, g, f, o, no, x
<1> PICK e : e = [values |-> v, changed |-> g, first |-> f, old |-> o] OBVIOUS
<1>1. [e EXCEPT !.changed = no]
         = [values |-> v, changed |-> no, first |-> f, old |-> o]
  BY FieldsSet
<1> DEFINE c == [values |-> v, changed |-> no, first |-> f, old |-> o]
<1>2. [c EXCEPT !.first = no]
         = [values |-> v, changed |-> no, first |-> no, old |-> o]
  BY FieldsSet
<1> DEFINE b == [values |-> v, changed |-> no, first |-> no, old |-> o]
<1>3. [b EXCEPT !.old = x]
         = [values |-> v, changed |-> no, first |-> no, old |-> x]
  BY FieldsSet
<1>4. [[[e EXCEPT !.changed = no] EXCEPT !.first = no] EXCEPT !.old = x]
         = [values |-> v, changed |-> no, first |-> no, old |-> x]
  BY <1>1, <1>2, <1>3, Zenon
<1> QED BY <1>4, Zenon DEF Reset

\* A signal's fields after a diff.
LEMMA ValueFeedIs ==
    ASSUME NEW a \in Signals, NEW e, NEW d,
           e = [values |-> e.values, changed |-> e.changed, first |-> e.first,
                old |-> e.old]
    PROVE  /\ ValueFeed(a, e, d).out = <<>>
           /\ ValueFeed(a, e, d).st
                 = [values |-> Apply(d, e.values),
                    changed |-> ValueFeed(a, e, d).st.changed,
                    first |-> e.first, old |-> e.old]
           /\ ValueFeed(a, e, d).st.changed \in BOOLEAN
<1> DEFINE new == CASE a \in {"len", "is_empty"} -> LenChanges(d, e.values)
                    [] a = "sum" -> d.op # "Move"
                    [] OTHER -> TRUE
<1>1. ValueFeed(a, e, d) = Fed(ValueState(Apply(d, e.values), new, e), <<>>)
  BY Zenon DEF ValueFeed
<1> HIDE DEF new
<1> DEFINE t == Apply(d, e.values)
           c == e.changed \/ new
<1>2. c \in BOOLEAN OBVIOUS
<1>3. ValueState(t, new, e) = [[e EXCEPT !.values = t] EXCEPT !.changed = c]
  BY Zenon DEF ValueState
<1> HIDE DEF t, c
<1>4. [[e EXCEPT !.values = t] EXCEPT !.changed = c]
         = [values |-> t, changed |-> c, first |-> e.first, old |-> e.old]
  <2>1. [e EXCEPT !.values = t]
           = [values |-> t, changed |-> e.changed, first |-> e.first,
              old |-> e.old]
    BY FieldsSet
  <2>2. [[e EXCEPT !.values = t] EXCEPT !.changed = c]
           = [[values |-> t, changed |-> e.changed, first |-> e.first,
               old |-> e.old] EXCEPT !.changed = c]
    BY <2>1, Zenon
  <2>3. [[values |-> t, changed |-> e.changed, first |-> e.first,
          old |-> e.old] EXCEPT !.changed = c]
           = [values |-> t, changed |-> c, first |-> e.first, old |-> e.old]
    BY FieldsSet
  <2> QED BY <2>2, <2>3, Zenon
<1> DEFINE r == ValueState(t, new, e)
<1>5. r.changed = c /\ r = [values |-> t, changed |-> c, first |-> e.first,
                            old |-> e.old]
  BY <1>3, <1>4
<1>6. ValueFeed(a, e, d).st = r /\ ValueFeed(a, e, d).out = <<>>
  BY <1>1 DEF Fed, t
<1> HIDE DEF r
<1> QED BY <1>2, <1>5, <1>6 DEF t

LEMMA FeedFollows ==
    ASSUME NoFilteredMoves, NEW a \in Adapters, NEW s \in ContentsOf(a), NEW e,
           NEW w, FollowingOf(a, e, s, <<>>, w, "polling"),
           NEW d \in DiffsOf(a, s), NEW fed, fed = FeedOf(a, e, d)
    PROVE  FollowingOf(a, fed.st, Apply(d, s), fed.out, w, "polling")
<1> DEFINE t == Apply(d, s)
           V == Values[a]
<1>1. /\ MaxLen \in Nat /\ V \in SUBSET Nat /\ s \in SeqOf(V, MaxLen)
      /\ d \in LegalDiffs(s, V, MaxLen) /\ (a = "filter" /\ d.op = "Move" => Moves)
  BY ValuesAre, DiffsApply DEF ContentsOf
<1>2. s \in Seq(V) BY <1>1, ShortSeqs
<1> HIDE DEF t, V
<1> SUFFICES FollowingOf(a, fed.st, t, fed.out, w, "polling") BY DEF t
<1>3. ASSUME a \in {"map", "filter", "sort"} PROVE w = ExpectedOf(a, s)
  <2>1. Yields(<<>>, w, ExpectedOf(a, s)) BY <1>3, Zenon DEF FollowingOf
  <2> QED BY <2>1, YieldsFew
<1>4. CASE a = "map"
  <2> DEFINE c == MapVecDiff(d, Image)
             z == <<>>
             q == <<c>>
  <2>1. fed = Fed(z, q) BY <1>4, FeedEach
  <2>2. w = Over(s, Image) BY <1>3, <1>4, ExpectedEach
  <2>3. /\ Applicable(c, Over(s, Image))
        /\ Apply(c, Over(s, Image)) = Over(t, Image)
    BY <1>1, MapFollows DEF t
  <2>4. ExpectedOf(a, t) = Over(t, Image) BY <1>4, ExpectedEach
  <2> HIDE DEF c
  <2>5. Yields(q, w, ExpectedOf(a, t)) BY <2>2, <2>3, <2>4, YieldsOne
  <2>6. fed.st = <<>> /\ fed.out = q BY <2>1 DEF Fed
  <2> HIDE DEF q
  <2> QED BY <1>4, <2>5, <2>6 DEF FollowingOf, Signals
<1>5. CASE a = "filter"
  <2>1. e = Flags(s, Keep) BY <1>5, Zenon DEF FollowingOf
  <2>2. d.op # "Move" BY <1>1, <1>5 DEF NoFilteredMoves
  <2>3. Filtered(FilterFeed(Flags(s, Keep), d, Keep), s, t, Keep)
    BY <1>1, <2>2, FilterFollows DEF t
  <2>4. fed = FilterFeed(Flags(s, Keep), d, Keep) BY <1>5, <2>1, FeedEach
  <2>5. fed.st = Flags(t, Keep) /\ Yields(fed.out, Passed(s, Keep), Passed(t, Keep))
    BY <2>3, <2>4 DEF Filtered
  <2>6. w = Passed(s, Keep) /\ ExpectedOf(a, t) = Passed(t, Keep)
    BY <1>3, <1>5, ExpectedEach
  <2> QED BY <1>5, <2>5, <2>6 DEF FollowingOf, Signals
<1>6. CASE a = "sort"
  <2>1. e = SortState(s, SortedIndexes(s, Rank)) BY <1>6, Zenon DEF FollowingOf
  <2>2. Ranked(V, Rank) BY <1>6, RankAssumption DEF Ranked, V
  <2>3. SortsTo(SortFeed(SortState(s, SortedIndexes(s, Rank)), d, Rank), s, t,
                Rank)
    BY <1>1, <2>2, SortFollows DEF t
  <2>4. fed = SortFeed(SortState(s, SortedIndexes(s, Rank)), d, Rank)
    BY <1>6, <2>1, FeedEach
  <2>5. /\ fed.st = SortState(t, SortedIndexes(t, Rank))
        /\ Yields(fed.out, InOrder(s, SortedIndexes(s, Rank)),
                  InOrder(t, SortedIndexes(t, Rank)))
    BY <2>3, <2>4 DEF SortsTo
  <2>6. /\ w = InOrder(s, SortedIndexes(s, Rank))
        /\ ExpectedOf(a, t) = InOrder(t, SortedIndexes(t, Rank))
    BY <1>3, <1>6, ExpectedEach
  <2> QED BY <1>6, <2>5, <2>6 DEF FollowingOf, Signals
<1>7. CASE a = "enumerate"
  <2>1. Numbered(e, Len(s)) /\ Yields(<<>>, w, Labelled(e.mutables, s))
    BY <1>7, Zenon DEF FollowingOf
  <2>2. w = Labelled(e.mutables, s) BY <2>1, YieldsFew
  <2>3. fed = EnumerateFeed(e, d) BY <1>7, FeedEach
  <2>4. /\ Numbered(fed.st, Len(t))
        /\ Yields(fed.out, Labelled(e.mutables, s), Labelled(fed.st.mutables, t))
    BY <1>1, <2>1, <2>3, EnumerateFollows DEF t
  <2> QED BY <1>7, <2>2, <2>4 DEF FollowingOf, Signals
<1>8. CASE a \in Signals
  <2>1. ValuedOf(a, e, s, <<>>, w, "polling") BY <1>8, Zenon DEF FollowingOf
  <2>2. fed = ValueFeed(a, e, d) BY <1>8, FeedEach
  <2>3. /\ e = [values |-> e.values, changed |-> e.changed, first |-> e.first,
                old |-> e.old]
        /\ e.values = s
    BY <2>1 DEF ValuedOf
  <2>4. /\ fed.out = <<>>
        /\ fed.st = [values |-> t, changed |-> fed.st.changed,
                     first |-> e.first, old |-> e.old]
        /\ fed.st.changed \in BOOLEAN
    BY <1>8, <2>2, <2>3, ValueFeedIs DEF t
  <2>5. /\ fed.st.first = e.first /\ fed.st.old = e.old
        /\ fed.st = [values |-> t, changed |-> fed.st.changed,
                     first |-> fed.st.first, old |-> fed.st.old]
    BY <2>4
  <2>6. e.changed \in BOOLEAN /\ e.first \in BOOLEAN BY <2>1 DEF ValuedOf
  <2>7. ASSUME ~fed.st.changed PROVE ~e.changed /\ Value(a, t) = Value(a, s)
    BY <1>1, <1>8, <2>2, <2>3, <2>6, <2>7, ValueFollows DEF t
  <2>8. ~fed.st.first /\ ~fed.st.changed => w = Value(a, t)
    BY <2>1, <2>5, <2>7, Zenon DEF ValuedOf
  <2>9. a = "is_empty" => fed.st.old = IF fed.st.first THEN NoValue ELSE w
    BY <2>1, <2>5, Zenon DEF ValuedOf
  <2>10. {fed.st.changed, fed.st.first} \subseteq BOOLEAN BY <2>4, <2>5, <2>6
  <2>11. ValuedOf(a, fed.st, t, fed.out, w, "polling")
    BY <2>4, <2>5, <2>8, <2>9, <2>10, Zenon DEF ValuedOf
  <2> QED BY <1>8, <2>11 DEF FollowingOf, Signals
<1> QED BY <1>4, <1>5, <1>6, <1>7, <1>8, AdaptersAssumption

-----------------------------------------------------------------------------
(* The steps.                                                              *)

\* The adapter's part of the invariant depends on the task only for a signal
\* that has returned.
LEMMA FollowingElsewhere ==
    ASSUME NEW a \in Adapters, NEW e, NEW s, NEW o, NEW w, NEW c, NEW b,
           FollowingOf(a, e, s, o, w, c), b = "polling" \/ b = c
    PROVE  FollowingOf(a, e, s, o, w, b)
<1>1. a \in Signals => ValuedOf(a, e, s, o, w, b)
  <2> SUFFICES ASSUME a \in Signals PROVE ValuedOf(a, e, s, o, w, b) OBVIOUS
  <2>1. ValuedOf(a, e, s, o, w, c) BY Zenon DEF FollowingOf
  <2>2. b \notin {"idle", "done"} \/ b = c OBVIOUS
  <2> QED BY <2>1, <2>2, Zenon DEF ValuedOf
<1> QED BY <1>1, Zenon DEF FollowingOf

LEMMA IInvInit == Init => IInv
<1> SUFFICES ASSUME Init PROVE IInv OBVIOUS
<1>1. /\ adapter \in Adapters /\ contents = <<>> /\ seen = <<>> /\ queue = <<>>
      /\ closed = FALSE /\ registered = FALSE /\ woken = TRUE /\ pc = "idle"
  BY DEF Init
<1>2. Following BY FollowingFirst, FollowingIs
<1>3. InputOf(adapter, contents, seen, queue)
  <2> DEFINE z == <<>>
  <2>1. z \in ContentsOf(adapter) BY <1>1, ValuesAre
  <2>2. LeadsOf(adapter, z, z, z) BY <2>1, LeadsNowhere
  <2>3. z \in Seq(AllDiffs(adapter)) /\ Len(z) <= MaxQueue
    BY BoundsAssumption
  <2> HIDE DEF z
  <2>4. InputOf(adapter, z, z, z) BY <2>1, <2>2, <2>3 DEF InputOf
  <2> QED BY <1>1, <2>4 DEF z
<1>4. {closed, registered, woken} \subseteq BOOLEAN BY <1>1
<1> QED BY <1>1, <1>2, <1>3, <1>4, InputIs

LEMMA IInvIs == IInv <=> Parts
BY InputIs, FollowingIs, Zenon DEF Parts

LEMMA IInvIsNext ==
    IInv' <=> /\ adapter' \in Adapters
              /\ InputOf(adapter', contents', seen', queue')
              /\ {closed', registered', woken'} \subseteq BOOLEAN
              /\ pc' \in {"idle", "polling", "done"}
              /\ FollowingOf(adapter', st', seen', out', view', pc')
BY InputIsNext, FollowingIs, Zenon

\* The input sends a diff that its contents allow.
LEMMA SendKeeps ==
    ASSUME IInv, Send, UNCHANGED adapter
    PROVE  IInv'
<1>1. /\ adapter \in Adapters /\ InputOf(adapter, contents, seen, queue)
      /\ {closed, registered, woken} \subseteq BOOLEAN
      /\ pc \in {"idle", "polling", "done"}
      /\ FollowingOf(adapter, st, seen, out, view, pc)
  BY IInvIs DEF Parts
<1>2. PICK d \in Diffs(contents) :
        contents' = Apply(d, contents) /\ queue' = Append(queue, d)
  BY DEF Send
<1>3. /\ Len(queue) < MaxQueue /\ woken' = (woken \/ registered)
      /\ registered' = FALSE
      /\ UNCHANGED <<adapter, closed, pc, st, seen, out, view>>
  BY DEF Send, WakeTask
<1>4. d \in DiffsOf(adapter, contents) BY DEF Diffs, DiffsOf
<1>5. /\ contents \in ContentsOf(adapter) /\ seen \in ContentsOf(adapter)
      /\ queue \in Seq(AllDiffs(adapter))
      /\ LeadsOf(adapter, queue, seen, contents)
  BY <1>1 DEF InputOf
<1>6. /\ LeadsOf(adapter, queue', seen, contents')
      /\ queue' \in Seq(AllDiffs(adapter))
  BY <1>1, <1>2, <1>4, <1>5, LeadsFurther
<1>7. contents' \in ContentsOf(adapter) BY <1>1, <1>2, <1>4, <1>5, DiffsApply
<1>8. Len(queue') <= MaxQueue
  <2>1. Len(queue') = Len(queue) + 1 /\ Len(queue) \in Nat
    BY <1>2, <1>5, AppendProperties, LenProperties, DiffsApply, <1>1, <1>4
  <2> QED BY <1>3, <2>1, BoundsAssumption
<1>9. InputOf(adapter', contents', seen', queue')
  BY <1>3, <1>5, <1>6, <1>7, <1>8 DEF InputOf
<1>10. {closed', registered', woken'} \subseteq BOOLEAN BY <1>1, <1>3
<1>11. FollowingOf(adapter', st', seen', out', view', pc') BY <1>1, <1>3
<1> QED BY <1>1, <1>3, <1>9, <1>10, <1>11, IInvIsNext

LEMMA EndKeeps ==
    ASSUME IInv, End, UNCHANGED adapter
    PROVE  IInv'
<1>1. Parts BY IInvIs
<1>2. /\ closed' = TRUE /\ woken' = (woken \/ registered) /\ registered' = FALSE
      /\ UNCHANGED <<adapter, contents, queue, pc, st, seen, out, view>>
  BY DEF End, WakeTask
<1>3. {closed', registered', woken'} \subseteq BOOLEAN BY <1>1, <1>2 DEF Parts
<1> QED BY <1>1, <1>2, <1>3, IInvIsNext DEF Parts

LEMMA StartPollKeeps ==
    ASSUME IInv, StartPoll, UNCHANGED adapter
    PROVE  IInv'
<1>1. Parts BY IInvIs
<1>2. /\ woken' = FALSE /\ pc' = "polling"
      /\ UNCHANGED <<adapter, contents, closed, queue, registered, st, seen, out,
                     view>>
  BY DEF StartPoll, input
<1>3. FollowingOf(adapter, st, seen, out, view, "polling")
  BY <1>1, FollowingElsewhere DEF Parts
<1>4. {closed', registered', woken'} \subseteq BOOLEAN BY <1>1, <1>2 DEF Parts
<1> QED BY <1>1, <1>2, <1>3, <1>4, IInvIsNext DEF Parts

\* A turn of the adapter's loop.
LEMMA TakeKeeps ==
    ASSUME NoFilteredMoves, IInv, Take, UNCHANGED adapter
    PROVE  IInv'
<1>1. /\ adapter \in Adapters /\ InputOf(adapter, contents, seen, queue)
      /\ {closed, registered, woken} \subseteq BOOLEAN
      /\ FollowingOf(adapter, st, seen, out, view, pc)
  BY IInvIs DEF Parts
<1> DEFINE d == Head(queue)
           fed == Feed(d)
<1>2. /\ pc = "polling" /\ out = <<>> /\ queue # <<>>
      /\ st' = fed.st /\ out' = fed.out /\ seen' = Apply(d, seen)
      /\ queue' = Tail(queue)
      /\ UNCHANGED <<adapter, contents, closed, registered, pc, woken, view>>
  BY DEF Take, input, task
<1>3. fed = FeedOf(adapter, st, d) BY FeedIs
<1> HIDE DEF fed
<1>4. /\ contents \in ContentsOf(adapter) /\ seen \in ContentsOf(adapter)
      /\ queue \in Seq(AllDiffs(adapter)) /\ Len(queue) <= MaxQueue
      /\ LeadsOf(adapter, queue, seen, contents)
  BY <1>1 DEF InputOf
<1>5. /\ d \in DiffsOf(adapter, seen)
      /\ Tail(queue) \in Seq(AllDiffs(adapter))
      /\ Len(Tail(queue)) = Len(queue) - 1
      /\ LeadsOf(adapter, Tail(queue), Apply(d, seen), contents)
  BY <1>2, <1>4, LeadsOn
<1> HIDE DEF d
<1>6. Apply(d, seen) \in ContentsOf(adapter) BY <1>1, <1>4, <1>5, DiffsApply
<1>7. Len(Tail(queue)) <= MaxQueue
  BY <1>4, <1>5, LenProperties, BoundsAssumption
<1>8. InputOf(adapter, contents, Apply(d, seen), Tail(queue))
  BY <1>4, <1>5, <1>6, <1>7 DEF InputOf
<1>9. FollowingOf(adapter, fed.st, Apply(d, seen), fed.out, view, "polling")
  BY <1>1, <1>2, <1>3, <1>4, <1>5, FeedFollows
<1> QED BY <1>1, <1>2, <1>8, <1>9, IInvIsNext

\* A diff that the adapter puts out fits what the task has.
LEMMA ReturnFits ==
    ASSUME NEW a \in Adapters, NEW e, NEW s, NEW o, NEW w, o # <<>>,
           FollowingOf(a, e, s, o, w, "polling")
    PROVE  /\ Applicable(Head(o), w)
           /\ FollowingOf(a, e, s, Tail(o), Apply(Head(o), w), "polling")
<1>1. a \notin Signals
  <2>1. ASSUME a \in Signals PROVE FALSE
    <3>1. ValuedOf(a, e, s, o, w, "polling") BY <2>1, Zenon DEF FollowingOf
    <3> QED BY <3>1, Zenon DEF ValuedOf
  <2> QED BY <2>1
<1>2. CASE a \in {"map", "filter", "sort"}
  <2>1. Yields(o, w, ExpectedOf(a, s)) BY <1>2, Zenon DEF FollowingOf
  <2>2. /\ Applicable(Head(o), w)
        /\ Yields(Tail(o), Apply(Head(o), w), ExpectedOf(a, s))
    BY <2>1, YieldsNext
  <2>3. a # "enumerate" BY <1>2
  <2> QED BY <1>1, <1>2, <2>2, <2>3, Zenon DEF FollowingOf
<1>3. CASE a = "enumerate"
  <2>1. Numbered(e, Len(s)) /\ Yields(o, w, Labelled(e.mutables, s))
    BY <1>3, Zenon DEF FollowingOf
  <2>2. /\ Applicable(Head(o), w)
        /\ Yields(Tail(o), Apply(Head(o), w), Labelled(e.mutables, s))
    BY <2>1, YieldsNext
  <2>3. a # "map" /\ a # "filter" /\ a # "sort" /\ a \notin {"map", "filter", "sort"}
    BY <1>3
  <2> QED BY <1>1, <1>3, <2>1, <2>2, <2>3, Zenon DEF FollowingOf
<1> QED BY <1>1, <1>2, <1>3, AdaptersAssumption

LEMMA ReturnKeeps ==
    ASSUME IInv, Return, UNCHANGED adapter
    PROVE  IInv'
<1>1. Parts BY IInvIs
<1>2. pc = "polling" /\ out # <<>> BY DEF Return
<1>3. /\ Applicable(Head(out), view)
      /\ FollowingOf(adapter, st, seen, Tail(out), Apply(Head(out), view), "polling")
  BY <1>1, <1>2, ReturnFits DEF Parts
<1>4. /\ view' = Apply(Head(out), view) /\ pc' = pc /\ out' = Tail(out)
      /\ UNCHANGED <<adapter, contents, closed, queue, registered, woken, st, seen>>
  BY <1>3 DEF Return, input
<1> QED BY <1>1, <1>2, <1>3, <1>4, IInvIsNext DEF Parts

\* The fields of a signal when its poll is over.
LEMMA AfterEndIs ==
    ASSUME NEW a, NEW e, NEW v, NEW g, NEW f, NEW o,
           e = [values |-> v, changed |-> g, first |-> f, old |-> o]
    PROVE  AfterEnd(a, e)
              = [values |-> v, changed |-> FALSE, first |-> FALSE,
                 old |-> IF a = "is_empty" /\ Emits(e) THEN Value(a, v) ELSE o]
<1> DEFINE x == IF a = "is_empty" /\ Emits(e) THEN Value(a, v) ELSE o
<1>1. e.values = v /\ e.old = o OBVIOUS
<1>2. AfterEnd(a, e) = Reset(e, FALSE, x) BY <1>1 DEF AfterEnd, Reset
<1> HIDE DEF x
<1>3. Reset([values |-> v, changed |-> g, first |-> f, old |-> o], FALSE, x)
         = [values |-> v, changed |-> FALSE, first |-> FALSE, old |-> x]
  <2>1. \A no, z :
          Reset([values |-> v, changed |-> g, first |-> f, old |-> o], no, z)
             = [values |-> v, changed |-> no, first |-> no, old |-> z]
    BY FieldsReset
  <2> PICK no : no = FALSE OBVIOUS
  <2>2. Reset([values |-> v, changed |-> g, first |-> f, old |-> o], no, x)
           = [values |-> v, changed |-> no, first |-> no, old |-> x]
    BY <2>1
  <2> QED BY <2>2
<1> QED BY <1>2, <1>3, Zenon DEF x

LEMMA NeverNoValue == \A a, s : Value(a, s) # NoValue
BY DEF Value, Some, NoValue

\* A signal that says Pending has nothing new to return.
LEMMA PendingFollows ==
    ASSUME NEW a \in Signals, NEW e, NEW s, NEW w,
           ValuedOf(a, e, s, <<>>, w, "polling"), ~Returns(a, e)
    PROVE  ValuedOf(a, AfterEnd(a, e), s, <<>>, w, "idle")
<1>1. /\ e = [values |-> s, changed |-> e.changed, first |-> e.first,
              old |-> e.old]
      /\ {e.changed, e.first} \subseteq BOOLEAN
      /\ ~e.first /\ ~e.changed => w = Value(a, s)
      /\ a = "is_empty" => e.old = IF e.first THEN NoValue ELSE w
  BY Zenon DEF ValuedOf
<1>2. e.values = s BY <1>1, FieldsSet
<1> DEFINE r == AfterEnd(a, e)
           old == IF a = "is_empty" /\ Emits(e) THEN Value(a, s) ELSE e.old
<1>3. r = [values |-> s, changed |-> FALSE, first |-> FALSE, old |-> old]
  BY <1>1, AfterEndIs
<1>4. CASE Emits(e)
  <2>1. a = "is_empty" /\ Value(a, s) = e.old BY <1>2, <1>4 DEF Returns
  <2>2. ~e.first BY <1>1, <2>1, NeverNoValue
  <2>3. w = Value(a, s) BY <1>1, <2>1, <2>2
  <2>4. old = w BY <1>4, <2>1, <2>3
  <2> HIDE DEF r, old
  <2>5. r.changed = FALSE /\ r.first = FALSE /\ r.old = w /\ r.values = s
    BY <1>3, <2>4
  <2>6. r = [values |-> s, changed |-> r.changed, first |-> r.first, old |-> r.old]
    BY <1>3, <2>5
  <2>7. ValuedOf(a, r, s, <<>>, w, "idle")
    BY <2>3, <2>5, <2>6, Zenon DEF ValuedOf
  <2> QED BY <2>7 DEF r
<1>5. CASE ~Emits(e)
  <2>1. ~e.first /\ ~e.changed BY <1>5 DEF Emits
  <2>2. w = Value(a, s) /\ (a = "is_empty" => e.old = w) BY <1>1, <2>1
  <2>4. old = e.old BY <1>5
  <2> HIDE DEF r, old
  <2>5. /\ r.changed = FALSE /\ r.first = FALSE /\ r.values = s
        /\ r.old = e.old
    BY <1>3, <2>4
  <2>6. r = [values |-> s, changed |-> r.changed, first |-> r.first, old |-> r.old]
    BY <1>3, <2>4, <2>5
  <2>7. ValuedOf(a, r, s, <<>>, w, "idle")
    BY <2>2, <2>5, <2>6, Zenon DEF ValuedOf
  <2> QED BY <2>7 DEF r
<1> QED BY <1>4, <1>5

\* A signal that returns has returned the value of what it has seen.
LEMMA ValueReturned ==
    ASSUME NEW a \in Signals, NEW e, NEW s, NEW o, NEW w,
           ValuedOf(a, e, s, o, w, "polling"), Returns(a, e)
    PROVE  /\ e.values = s
           /\ ValuedOf(a, AfterEnd(a, e), s, o, Value(a, s), "polling")
<1>1. /\ e = [values |-> s, changed |-> e.changed, first |-> e.first,
              old |-> e.old]
      /\ o = <<>>
  BY Zenon DEF ValuedOf
<1>2. e.values = s BY <1>1, FieldsSet
<1> DEFINE r == AfterEnd(a, e)
           old == IF a = "is_empty" /\ Emits(e) THEN Value(a, s) ELSE e.old
<1>3. r = [values |-> s, changed |-> FALSE, first |-> FALSE, old |-> old]
  BY <1>1, AfterEndIs
<1>4. a = "is_empty" => old = Value(a, s) BY DEF Returns
<1> HIDE DEF r, old
<1>5. r.changed = FALSE /\ r.first = FALSE /\ r.old = old BY <1>3
<1>6. r = [values |-> s, changed |-> r.changed, first |-> r.first, old |-> r.old]
  BY <1>3, <1>5
<1>7. ValuedOf(a, r, s, o, Value(a, s), "polling")
  BY <1>1, <1>4, <1>5, <1>6, Zenon DEF ValuedOf
<1> QED BY <1>2, <1>7 DEF r

LEMMA SignalOnly ==
    ASSUME NEW a \in Signals, NEW e, NEW s, NEW o, NEW w, NEW c
    PROVE  FollowingOf(a, e, s, o, w, c) <=> ValuedOf(a, e, s, o, w, c)
<1>1. /\ a # "map" /\ a # "filter" /\ a # "sort" /\ a # "enumerate"
      /\ a \notin {"map", "filter", "sort"}
  BY DEF Signals
<1> QED BY <1>1, Zenon DEF FollowingOf

LEMMA OthersAnywhere ==
    ASSUME NEW a, a \notin Signals, NEW e, NEW s, NEW o, NEW w, NEW c, NEW b,
           FollowingOf(a, e, s, o, w, c)
    PROVE  FollowingOf(a, e, s, o, w, b)
BY Zenon DEF FollowingOf

LEMMA ReturnValueKeeps ==
    ASSUME IInv, ReturnValue, UNCHANGED adapter
    PROVE  IInv'
<1>1. /\ adapter \in Adapters /\ InputOf(adapter, contents, seen, queue)
      /\ {closed, registered, woken} \subseteq BOOLEAN
      /\ FollowingOf(adapter, st, seen, out, view, pc)
  BY IInvIs DEF Parts
<1>2. /\ pc = "polling" /\ adapter \in Signals /\ Returns(adapter, st)
      /\ view' = Value(adapter, st.values) /\ st' = AfterEnd(adapter, st)
      /\ registered' = (registered \/ ~closed)
      /\ UNCHANGED <<adapter, contents, closed, queue, pc, woken, seen, out>>
  BY DEF ReturnValue, IsSignal, input, task
<1>3. ValuedOf(adapter, st, seen, out, view, "polling")
  BY <1>1, <1>2, SignalOnly
<1>4. /\ st.values = seen
      /\ ValuedOf(adapter, AfterEnd(adapter, st), seen, out,
                  Value(adapter, seen), "polling")
  BY <1>2, <1>3, ValueReturned
<1>5. FollowingOf(adapter, AfterEnd(adapter, st), seen, out,
                  Value(adapter, seen), "polling")
  BY <1>2, <1>4, SignalOnly
<1>6. {closed', registered', woken'} \subseteq BOOLEAN BY <1>1, <1>2
<1>7. pc' = "polling" /\ view' = Value(adapter, seen) BY <1>2, <1>4
<1>8. FollowingOf(adapter', st', seen', out', view', pc')
  BY <1>2, <1>5, <1>7
<1> QED BY <1>1, <1>2, <1>6, <1>7, <1>8, IInvIsNext

LEMMA ReturnPendingKeeps ==
    ASSUME IInv, ReturnPending, UNCHANGED adapter
    PROVE  IInv'
<1>1. /\ adapter \in Adapters /\ InputOf(adapter, contents, seen, queue)
      /\ {closed, registered, woken} \subseteq BOOLEAN
      /\ FollowingOf(adapter, st, seen, out, view, pc)
  BY IInvIs DEF Parts
<1>2. /\ pc = "polling" /\ out = <<>>
      /\ adapter \in Signals => ~Returns(adapter, st)
      /\ pc' = "idle"
      /\ st' = IF adapter \in Signals THEN AfterEnd(adapter, st) ELSE st
      /\ registered' = (registered \/ ~closed)
      /\ UNCHANGED <<adapter, contents, closed, queue, woken, seen, out, view>>
  BY DEF ReturnPending, IsSignal, input
<1>3. FollowingOf(adapter, st', seen, out, view, "idle")
  <2>1. CASE adapter \in Signals
    <3>1. ValuedOf(adapter, st, seen, <<>>, view, "polling")
      BY <1>1, <1>2, <2>1, SignalOnly
    <3>2. ValuedOf(adapter, AfterEnd(adapter, st), seen, <<>>, view, "idle")
      BY <1>2, <2>1, <3>1, PendingFollows
    <3>3. st' = AfterEnd(adapter, st) BY <1>2, <2>1
    <3> QED BY <1>2, <2>1, <3>2, <3>3, SignalOnly
  <2>2. CASE adapter \notin Signals
    <3>1. st' = st BY <1>2, <2>2
    <3> QED BY <1>1, <2>2, <3>1, OthersAnywhere
  <2> QED BY <2>1, <2>2
<1>4. {closed', registered', woken'} \subseteq BOOLEAN BY <1>1, <1>2
<1>5. FollowingOf(adapter', st', seen', out', view', pc') BY <1>2, <1>3
<1> QED BY <1>1, <1>2, <1>4, <1>5, IInvIsNext

LEMMA ReturnEndKeeps ==
    ASSUME IInv, ReturnEnd, UNCHANGED adapter
    PROVE  IInv'
<1>1. Parts BY IInvIs
<1>2. /\ pc = "polling" /\ (adapter \in Signals => ~Emits(st)) /\ pc' = "done"
      /\ UNCHANGED <<adapter, contents, closed, queue, registered, woken, st, seen,
                     out, view>>
  BY DEF ReturnEnd, IsSignal, input
<1>3. FollowingOf(adapter, st, seen, out, view, "polling") BY <1>1, <1>2 DEF Parts
<1>4. FollowingOf(adapter, st, seen, out, view, "done")
  <2>1. CASE adapter \in Signals
    <3>1. ValuedOf(adapter, st, seen, out, view, "polling")
      BY <1>3, <2>1, SignalOnly
    <3>2. ~st.changed /\ ~st.first BY <1>2, <2>1, Zenon DEF Emits
    <3>3. ValuedOf(adapter, st, seen, out, view, "done")
      BY <3>1, <3>2, Zenon DEF ValuedOf
    <3> QED BY <2>1, <3>3, SignalOnly
  <2>2. CASE adapter \notin Signals BY <1>3, <2>2, OthersAnywhere
  <2> QED BY <2>1, <2>2
<1>5. {closed', registered', woken'} \subseteq BOOLEAN BY <1>1, <1>2 DEF Parts
<1> QED BY <1>1, <1>2, <1>4, <1>5, IInvIsNext DEF Parts

LEMMA IInvStep ==
    ASSUME NoFilteredMoves
    PROVE  IInv /\ [Next]_<<adapter, vars>> => IInv'
<1> SUFFICES ASSUME IInv, [Next]_<<adapter, vars>> PROVE IInv' OBVIOUS
<1>1. CASE Send /\ UNCHANGED adapter BY <1>1, SendKeeps
<1>2. CASE End /\ UNCHANGED adapter BY <1>2, EndKeeps
<1>3. CASE StartPoll /\ UNCHANGED adapter BY <1>3, StartPollKeeps
<1>4. CASE Take /\ UNCHANGED adapter BY <1>4, TakeKeeps
<1>5. CASE Return /\ UNCHANGED adapter BY <1>5, ReturnKeeps
<1>6. CASE ReturnValue /\ UNCHANGED adapter BY <1>6, ReturnValueKeeps
<1>7. CASE ReturnPending /\ UNCHANGED adapter BY <1>7, ReturnPendingKeeps
<1>8. CASE ReturnEnd /\ UNCHANGED adapter BY <1>8, ReturnEndKeeps
<1>9. CASE UNCHANGED <<adapter, vars>>
  <2>1. /\ adapter' = adapter /\ contents' = contents /\ closed' = closed
        /\ queue' = queue /\ registered' = registered /\ pc' = pc
        /\ woken' = woken /\ st' = st /\ seen' = seen /\ out' = out
        /\ view' = view
    BY <1>9 DEF vars, input, task
  <2>2. Parts BY IInvIs
  <2> QED BY <2>1, <2>2, IInvIsNext DEF Parts
<1> QED
  BY <1>1, <1>2, <1>3, <1>4, <1>5, <1>6, <1>7, <1>8, <1>9
  DEF Next, Step, PollTurn

-----------------------------------------------------------------------------
(* The theorems about the specification.                                   *)

\* Whatever diffs the input sends while the task polls, the contents that the
\* adapter has seen, the diffs that it owes and the output make up the input's
\* contents.
THEOREM InductiveInvariant ==
    ASSUME NoFilteredMoves
    PROVE  Spec => []IInv
BY IInvInit, IInvStep, PTL DEF Spec

\* A Mutable holds the index of its value, or None.
LEMMA NumberedIndexes ==
    ASSUME NEW e, NEW n, Numbered(e, n)
    PROVE  \A m \in DOMAIN e.index :
              IF m \in ToSet(e.mutables)
              THEN e.mutables[e.index[m] + 1] = m
              ELSE e.index[m] = NoIndex
<1>1. /\ e.mutables \in Seq(1..(2 * MaxLen)) /\ Len(e.mutables) = n
      /\ e.index \in [1..(2 * MaxLen) -> NoIndex..MaxLen]
      /\ \A k \in 1..n : e.index[e.mutables[k]] = k - 1
      /\ \A m \in 1..(2 * MaxLen) :
            (\A k \in 1..n : e.mutables[k] # m) => e.index[m] = NoIndex
  BY DEF Numbered
<1> TAKE m \in DOMAIN e.index
<1>2. m \in 1..(2 * MaxLen) BY <1>1
<1>3. ToSet(e.mutables) = {e.mutables[k] : k \in 1..n}
  BY <1>1, LenProperties DEF ToSet
<1>4. CASE m \in ToSet(e.mutables)
  <2> PICK k \in 1..n : e.mutables[k] = m BY <1>3, <1>4
  <2>0. n \in Nat BY <1>1, LenProperties
  <2>1. e.index[m] = k - 1 BY <1>1
  <2>2. e.index[m] + 1 = k BY <2>0, <2>1
  <2>3. e.mutables[e.index[m] + 1] = m BY <2>2
  <2> QED BY <1>4, <2>3
<1>5. CASE m \notin ToSet(e.mutables)
  <2>1. \A k \in 1..n : e.mutables[k] # m BY <1>3, <1>5
  <2>2. e.index[m] = NoIndex BY <1>1, <1>2, <2>1
  <2> QED BY <1>5, <2>2
<1> QED BY <1>4, <1>5

LEMMA NumberedShown ==
    ASSUME NEW V, NEW s \in Seq(V), NEW e, Numbered(e, Len(s))
    PROVE  ShownOf(e, Labelled(e.mutables, s)) = [i \in DOMAIN s |-> <<i - 1, s[i]>>]
<1>1. \A k \in 1..Len(s) : e.index[e.mutables[k]] = k - 1 BY DEF Numbered
<1>2. DOMAIN s = 1..Len(s) BY LenProperties
<1> DEFINE w == Labelled(e.mutables, s)
<1>3. DOMAIN w = DOMAIN s BY DEF Labelled
<1>4. \A k \in DOMAIN s : w[k][1] = e.mutables[k] /\ w[k][2] = s[k]
  BY DEF Labelled
<1> HIDE DEF w
<1>5. \A k \in DOMAIN s : <<e.index[w[k][1]], w[k][2]>> = <<k - 1, s[k]>>
  BY <1>1, <1>2, <1>4
<1>6. ShownOf(e, w) = [k \in DOMAIN s |-> <<k - 1, s[k]>>]
  BY <1>3, <1>5 DEF ShownOf
<1> QED BY <1>6 DEF w

LEMMA FewOut ==
    ASSUME NEW a \in Adapters, NEW e, NEW s, NEW o, NEW w, NEW c,
           FollowingOf(a, e, s, o, w, c)
    PROVE  Len(o) <= 2
<1>1. CASE a \in {"map", "filter", "sort"}
  <2>1. Yields(o, w, ExpectedOf(a, s)) BY <1>1, Zenon DEF FollowingOf
  <2> QED BY <2>1, YieldsFew
<1>2. CASE a = "enumerate"
  <2>1. Yields(o, w, Labelled(e.mutables, s)) BY <1>2, Zenon DEF FollowingOf
  <2> QED BY <2>1, YieldsFew
<1>3. CASE a \in Signals
  <2>1. ValuedOf(a, e, s, o, w, c) BY <1>3, SignalOnly
  <2>2. o = <<>> BY <2>1, Zenon DEF ValuedOf
  <2> QED BY <2>2
<1> QED BY <1>1, <1>2, <1>3, AdaptersAssumption

\* In every run the variables have their types, and the adapter's fields are in
\* step with the contents it has seen: filter knows which values it let through,
\* sort's indexes are sorted, and a Mutable of enumerate holds the index of its
\* value while the value is there and None afterwards.
THEOREM TypeCorrect ==
    ASSUME NoFilteredMoves
    PROVE  Spec => []TypeOK
<1>1. ASSUME IInv PROVE TypeOK
  <2>1. /\ adapter \in Adapters /\ InputOf(adapter, contents, seen, queue)
        /\ {closed, registered, woken} \subseteq BOOLEAN
        /\ pc \in {"idle", "polling", "done"}
        /\ FollowingOf(adapter, st, seen, out, view, pc)
    BY <1>1, IInvIs DEF Parts
  <2>2. /\ {contents, seen} \subseteq SeqOf(Values[adapter], MaxLen)
        /\ Len(queue) <= MaxQueue
    BY <2>1 DEF InputOf, ContentsOf
  <2>3. Len(out) <= 2 BY <2>1, FewOut
  <2>4. adapter = "filter" => st = [i \in DOMAIN seen |-> seen[i] \in Keep]
    BY <2>1, Zenon DEF FollowingOf, Flags
  <2>5. adapter = "sort" => st = SortState(seen, SortedIndexes(seen, Rank))
    BY <2>1, Zenon DEF FollowingOf
  <2>6. adapter = "enumerate" =>
          \A m \in DOMAIN st.index :
              IF m \in ToSet(st.mutables)
              THEN st.mutables[st.index[m] + 1] = m
              ELSE st.index[m] = NoIndex
    <3>1. ASSUME adapter = "enumerate" PROVE Numbered(st, Len(seen))
      BY <2>1, <3>1, Zenon DEF FollowingOf
    <3> QED BY <3>1, NumberedIndexes
  <2>7. IsSignal => st.values = seen
    <3>1. ASSUME adapter \in Signals PROVE st.values = seen
      <4>1. ValuedOf(adapter, st, seen, out, view, pc) BY <2>1, <3>1, SignalOnly
      <4>2. st = [values |-> seen, changed |-> st.changed, first |-> st.first,
                  old |-> st.old]
        BY <4>1, Zenon DEF ValuedOf
      <4> QED BY <4>2, FieldsSet
    <3> QED BY <3>1 DEF IsSignal
  <2>8. pc \in {"idle", "polling", "done", "panicked"} BY <2>1
  <2> QED BY <2>1, <2>2, <2>3, <2>4, <2>5, <2>6, <2>7, <2>8, Zenon DEF TypeOK
<1>2. IInv => TypeOK BY <1>1
<1> QED BY <1>2, InductiveInvariant, PTL

\* In every run the output is the input mapped, filtered, sorted, enumerated or
\* valued whenever the adapter owes nothing: between the diffs of a poll, and for
\* a signal when a poll is over.  Every diff fits, so that none panics.
THEOREM OutputCorrect ==
    ASSUME NoFilteredMoves
    PROVE  Spec => []OutputFollowsInput
<1>1. ASSUME IInv PROVE OutputFollowsInput
  <2>1. /\ adapter \in Adapters /\ seen \in ContentsOf(adapter)
        /\ pc \in {"idle", "polling", "done"}
        /\ FollowingOf(adapter, st, seen, out, view, pc)
    BY <1>1, IInvIs DEF Parts, InputOf
  <2>2. pc # "panicked" BY <2>1
  <2>3. ASSUME adapter \in Signals, pc = "done" \/ (pc = "idle" /\ ~st.first)
        PROVE  view = Expected(seen)
    <3>1. ValuedOf(adapter, st, seen, out, view, pc) BY <2>1, <2>3, SignalOnly
    <3>2. pc \in {"idle", "done"} BY <2>3
    <3>3. ~st.changed /\ ~st.first BY <2>3, <3>1, <3>2, Zenon DEF ValuedOf
    <3>4. view = Value(adapter, seen) BY <3>1, <3>3, Zenon DEF ValuedOf
    <3> QED BY <2>3, <3>4, ExpectedIs, ExpectedValue
  <2>4. ASSUME adapter \notin Signals, out = <<>>
        PROVE  Shown = Expected(seen)
    <3>1. CASE adapter \in {"map", "filter", "sort"}
      <4>1. Yields(out, view, ExpectedOf(adapter, seen))
        BY <2>1, <3>1, Zenon DEF FollowingOf
      <4>2. view = ExpectedOf(adapter, seen) BY <2>4, <4>1, YieldsFew
      <4>3. adapter # "enumerate" BY <3>1
      <4>4. Shown = view BY <4>3 DEF Shown
      <4> QED BY <4>2, <4>4, ExpectedIs
    <3>2. CASE adapter = "enumerate"
      <4>1. /\ Numbered(st, Len(seen))
            /\ Yields(out, view, Labelled(st.mutables, seen))
        BY <2>1, <3>2, Zenon DEF FollowingOf
      <4>2. view = Labelled(st.mutables, seen) BY <2>4, <4>1, YieldsFew
      <4>3. seen \in Seq(Values[adapter])
        BY <2>1, ShortSeqs, ValuesAre DEF ContentsOf
      <4>4. Shown = ShownOf(st, view) BY <3>2 DEF Shown, ShownOf
      <4>5. Shown = [i \in DOMAIN seen |-> <<i - 1, seen[i]>>]
        BY <4>1, <4>2, <4>3, <4>4, NumberedShown
      <4>6. Expected(seen) = [i \in DOMAIN seen |-> <<i - 1, seen[i]>>]
        BY <2>4, <3>2, Zenon DEF Expected, IsSignal
      <4> QED BY <4>5, <4>6
    <3> QED BY <2>1, <2>4, <3>1, <3>2, AdaptersAssumption
  <2> QED BY <2>2, <2>3, <2>4 DEF OutputFollowsInput, IsSignal
<1>2. IInv => OutputFollowsInput BY <1>1
<1> QED BY <1>2, InductiveInvariant, PTL

-----------------------------------------------------------------------------
(* Combinators of several inputs: a part in the middle of the output.      *)

LEMMA MidIs ==
    ASSUME NEW V, NEW a \in Seq(V), NEW s \in Seq(V), NEW b \in Seq(V)
    PROVE  Mid(a, s, b) \in Seq(V) /\ IsMid(Mid(a, s, b), a, s, b)
<1>1. Len(a) \in Nat /\ Len(s) \in Nat /\ Len(b) \in Nat BY LenProperties
<1> DEFINE t == a \o s
<1>2. /\ t \in Seq(V) /\ Len(t) = Len(a) + Len(s)
      /\ \A p \in 1..(Len(a) + Len(s)) :
            t[p] = IF p <= Len(a) THEN a[p] ELSE s[p - Len(a)]
  BY ConcatProperties
<1>3. t \in Seq(V) BY <1>2
<1> HIDE DEF t
<1> DEFINE w == t \o b
<1>4. /\ w \in Seq(V) /\ Len(w) = Len(t) + Len(b)
      /\ \A p \in 1..(Len(t) + Len(b)) :
            w[p] = IF p <= Len(t) THEN t[p] ELSE b[p - Len(t)]
  BY <1>3, ConcatProperties
<1> HIDE DEF w
<1>5. Mid(a, s, b) = w BY DEF Mid, t, w
<1>6. ASSUME NEW p \in 1..Len(a) PROVE w[p] = a[p]
  <2>1. t[p] = a[p] /\ p \in 1..(Len(t) + Len(b)) /\ p <= Len(t) BY <1>1, <1>2
  <2> QED BY <1>4, <2>1
<1>7. ASSUME NEW p \in 1..Len(s) PROVE w[Len(a) + p] = s[p]
  <2> PICK n \in Nat : n = Len(a) + p BY <1>1
  <2>1. /\ n \in 1..(Len(a) + Len(s)) /\ ~(n <= Len(a)) /\ n - Len(a) = p
        /\ n \in 1..(Len(t) + Len(b)) /\ n <= Len(t)
    BY <1>1, <1>2
  <2>2. t[n] = s[p] BY <1>2, <2>1
  <2> QED BY <1>4, <2>1, <2>2
<1>8. ASSUME NEW p \in 1..Len(b) PROVE w[Len(a) + Len(s) + p] = b[p]
  <2> PICK n \in Nat : n = Len(a) + Len(s) + p BY <1>1
  <2>1. n \in 1..(Len(t) + Len(b)) /\ ~(n <= Len(t)) /\ n - Len(t) = p
    BY <1>1, <1>2
  <2> QED BY <1>4, <2>1
<1>9. Len(w) = Len(a) + Len(s) + Len(b) BY <1>2, <1>4
<1> QED BY <1>4, <1>5, <1>6, <1>7, <1>8, <1>9 DEF IsMid

LEMMA MidEqual ==
    ASSUME NEW V, NEW a \in Seq(V), NEW s \in Seq(V), NEW b \in Seq(V),
           NEW w \in Seq(V), IsMid(w, a, s, b)
    PROVE  w = Mid(a, s, b)
<1>1. Len(a) \in Nat /\ Len(s) \in Nat /\ Len(b) \in Nat BY LenProperties
<1> DEFINE m == Mid(a, s, b)
<1>2. m \in Seq(V) /\ IsMid(m, a, s, b) BY MidIs
<1> HIDE DEF m
<1>3. ASSUME NEW p \in 1..Len(w) PROVE w[p] = m[p]
  <2>1. CASE p <= Len(a) BY <1>1, <1>2, <2>1 DEF IsMid
  <2>2. CASE p > Len(a) /\ p <= Len(a) + Len(s)
    <3> PICK q \in 1..Len(s) : p = Len(a) + q
      <4>1. p - Len(a) \in 1..Len(s) /\ p = Len(a) + (p - Len(a)) BY <1>1, <2>2
      <4> QED BY <4>1
    <3> QED BY <1>2 DEF IsMid
  <2>3. CASE p > Len(a) + Len(s)
    <3> PICK q \in 1..Len(b) : p = Len(a) + Len(s) + q
      <4>1. /\ p - (Len(a) + Len(s)) \in 1..Len(b)
            /\ p = Len(a) + Len(s) + (p - (Len(a) + Len(s)))
        BY <1>1, <2>3 DEF IsMid
      <4> QED BY <4>1
    <3> QED BY <1>2 DEF IsMid
  <2>4. p <= Len(a) \/ (p > Len(a) /\ p <= Len(a) + Len(s)) \/ p > Len(a) + Len(s)
    BY <1>1
  <2> QED BY <2>1, <2>2, <2>3, <2>4
<1>4. Len(w) = Len(m) BY <1>2 DEF IsMid
<1> QED BY <1>2, <1>3, <1>4, SeqEqual DEF m

\* What the operations of a Vec do in the middle.
LEMMA MidInserted ==
    ASSUME NEW V, NEW a \in Seq(V), NEW s \in Seq(V), NEW b \in Seq(V),
           NEW i \in 0..Len(s), NEW v \in V
    PROVE  VecInsert(Mid(a, s, b), Len(a) + i, v) = Mid(a, VecInsert(s, i, v), b)
<1>1. Len(a) \in Nat /\ Len(s) \in Nat /\ Len(b) \in Nat BY LenProperties
<1> DEFINE t == VecInsert(s, i, v)
           m == Mid(a, s, b)
<1>2. t \in Seq(V) /\ IsInserted(t, s, i, v) BY InsertedIs
<1>3. m \in Seq(V) /\ IsMid(m, a, s, b) BY MidIs
<1> HIDE DEF m, t
<1> PICK j \in 0..Len(m) : j = Len(a) + i BY <1>1, <1>3 DEF IsMid
<1> DEFINE w == VecInsert(m, j, v)
<1>4. w \in Seq(V) /\ IsInserted(w, m, j, v) BY <1>3, InsertedIs
<1> HIDE DEF w
<1>5. Len(t) = Len(s) + 1 /\ Len(w) = Len(m) + 1
      /\ Len(m) = Len(a) + Len(s) + Len(b)
  BY <1>2, <1>3, <1>4 DEF IsInserted, IsMid
<1>6. ASSUME NEW p \in 1..Len(a) PROVE w[p] = a[p]
  <2>1. p \in 1..(Len(m) + 1) /\ p <= j BY <1>1, <1>5
  <2> QED BY <1>3, <1>4, <2>1 DEF IsInserted, IsMid
<1>7. ASSUME NEW p \in 1..Len(t) PROVE w[Len(a) + p] = t[p]
  <2> PICK n \in 1..(Len(m) + 1) : n = Len(a) + p BY <1>1, <1>5
  <2>1. p \in 1..(Len(s) + 1) BY <1>5
  <2>2. CASE p <= i
    <3>1. n <= j /\ p \in 1..Len(s) BY <1>1, <1>5, <2>2
    <3>2. w[n] = m[n] /\ t[p] = s[p] BY <1>2, <1>4, <2>1, <2>2, <3>1 DEF IsInserted
    <3>3. m[n] = s[p] BY <1>3, <3>1 DEF IsMid
    <3> QED BY <3>2, <3>3
  <2>3. CASE p = i + 1
    <3>1. n = j + 1 /\ ~(n <= j) /\ ~(p <= i) BY <1>1, <2>3
    <3>2. w[n] = v BY <1>4, <3>1 DEF IsInserted
    <3>3. t[p] = v BY <1>2, <2>1, <2>3, <3>1 DEF IsInserted
    <3> QED BY <3>2, <3>3
  <2>4. CASE p > i + 1
    <3>1. ~(n <= j) /\ n # j + 1 /\ ~(p <= i) /\ p # i + 1 BY <1>1, <2>4
    <3>2. w[n] = m[n - 1] BY <1>4, <3>1 DEF IsInserted
    <3>3. t[p] = s[p - 1] BY <1>2, <2>1, <3>1 DEF IsInserted
    <3> PICK q \in 1..Len(s) : q = p - 1 BY <1>1, <1>5, <2>4
    <3>4. n - 1 = Len(a) + q BY <1>1
    <3>5. m[Len(a) + q] = s[q] BY <1>3 DEF IsMid
    <3> QED BY <3>2, <3>3, <3>4, <3>5
  <2>5. p <= i \/ p = i + 1 \/ p > i + 1 BY <2>1
  <2> QED BY <2>2, <2>3, <2>4, <2>5
<1>8. ASSUME NEW p \in 1..Len(b) PROVE w[Len(a) + Len(t) + p] = b[p]
  <2> PICK n \in 1..(Len(m) + 1) : n = Len(a) + Len(t) + p BY <1>1, <1>5
  <2>1. ~(n <= j) /\ n # j + 1 BY <1>1, <1>5
  <2>2. w[n] = m[n - 1] BY <1>4, <2>1 DEF IsInserted
  <2>3. n - 1 = Len(a) + Len(s) + p BY <1>1, <1>5
  <2>4. m[Len(a) + Len(s) + p] = b[p] BY <1>3 DEF IsMid
  <2> QED BY <2>2, <2>3, <2>4
<1>9. Len(w) = Len(a) + Len(t) + Len(b) BY <1>1, <1>5
<1>10. IsMid(w, a, t, b) BY <1>6, <1>7, <1>8, <1>9 DEF IsMid
<1>11. w = Mid(a, t, b) BY <1>2, <1>4, <1>10, MidEqual
<1> QED BY <1>11 DEF w, m, t

LEMMA MidRemoved ==
    ASSUME NEW V, NEW a \in Seq(V), NEW s \in Seq(V), NEW b \in Seq(V),
           NEW i \in 0..(Len(s) - 1)
    PROVE  VecRemove(Mid(a, s, b), Len(a) + i) = Mid(a, VecRemove(s, i), b)
<1>1. Len(a) \in Nat /\ Len(s) \in Nat /\ Len(b) \in Nat BY LenProperties
<1> DEFINE t == VecRemove(s, i)
           m == Mid(a, s, b)
<1>2. t \in Seq(V) /\ IsRemoved(t, s, i) BY RemovedIs
<1>3. m \in Seq(V) /\ IsMid(m, a, s, b) BY MidIs
<1> HIDE DEF m, t
<1> PICK j \in 0..(Len(m) - 1) : j = Len(a) + i BY <1>1, <1>3 DEF IsMid
<1> DEFINE w == VecRemove(m, j)
<1>4. w \in Seq(V) /\ IsRemoved(w, m, j) BY <1>3, RemovedIs
<1> HIDE DEF w
<1>5. Len(t) = Len(s) - 1 /\ Len(w) = Len(m) - 1
      /\ Len(m) = Len(a) + Len(s) + Len(b)
  BY <1>2, <1>3, <1>4 DEF IsRemoved, IsMid
<1>6. ASSUME NEW p \in 1..Len(a) PROVE w[p] = a[p]
  <2>1. p \in 1..(Len(m) - 1) /\ p <= j BY <1>1, <1>5
  <2> QED BY <1>3, <1>4, <2>1 DEF IsRemoved, IsMid
<1>7. ASSUME NEW p \in 1..Len(t) PROVE w[Len(a) + p] = t[p]
  <2> PICK n \in 1..(Len(m) - 1) : n = Len(a) + p BY <1>1, <1>5
  <2>1. p \in 1..(Len(s) - 1) BY <1>5
  <2>2. CASE p <= i
    <3>1. n <= j /\ p \in 1..Len(s) BY <1>1, <1>5, <2>2
    <3>2. w[n] = m[n] /\ t[p] = s[p] BY <1>2, <1>4, <2>1, <2>2, <3>1 DEF IsRemoved
    <3>3. m[n] = s[p] BY <1>3, <3>1 DEF IsMid
    <3> QED BY <3>2, <3>3
  <2>4. CASE p > i
    <3>1. ~(n <= j) /\ ~(p <= i) BY <1>1, <2>4
    <3>2. w[n] = m[n + 1] BY <1>4, <3>1 DEF IsRemoved
    <3>3. t[p] = s[p + 1] BY <1>2, <2>1, <3>1 DEF IsRemoved
    <3> PICK q \in 1..Len(s) : q = p + 1 BY <1>1, <1>5, <2>4
    <3>4. n + 1 = Len(a) + q BY <1>1
    <3>5. m[Len(a) + q] = s[q] BY <1>3 DEF IsMid
    <3> QED BY <3>2, <3>3, <3>4, <3>5
  <2>5. p <= i \/ p > i BY <2>1
  <2> QED BY <2>2, <2>4, <2>5
<1>8. ASSUME NEW p \in 1..Len(b) PROVE w[Len(a) + Len(t) + p] = b[p]
  <2>0. Len(a) + Len(t) + p \in 1..(Len(m) - 1) BY <1>1, <1>5
  <2> PICK n \in 1..(Len(m) - 1) : n = Len(a) + Len(t) + p BY <2>0
  <2>1. ~(n <= j) BY <1>1, <1>5
  <2>2. w[n] = m[n + 1] BY <1>4, <2>1 DEF IsRemoved
  <2>3. n + 1 = Len(a) + Len(s) + p BY <1>1, <1>5
  <2>4. m[Len(a) + Len(s) + p] = b[p] BY <1>3 DEF IsMid
  <2> QED BY <2>2, <2>3, <2>4
<1>9. Len(w) = Len(a) + Len(t) + Len(b) BY <1>1, <1>5
<1>10. IsMid(w, a, t, b) BY <1>6, <1>7, <1>8, <1>9 DEF IsMid
<1>11. w = Mid(a, t, b) BY <1>2, <1>4, <1>10, MidEqual
<1> QED BY <1>11 DEF w, m, t

LEMMA UpdatedIs ==
    ASSUME NEW V, NEW s \in Seq(V), NEW i \in 0..(Len(s) - 1), NEW v \in V
    PROVE  VecUpdate(s, i, v) \in Seq(V) /\ Len(VecUpdate(s, i, v)) = Len(s)
<1>1. Len(s) \in Nat BY LenProperties
<1>2. \A p \in 1..Len(s) : s[p] \in V BY ElementOfSeq
<1>3. VecUpdate(s, i, v) = [k \in 1..Len(s) |-> IF k = i + 1 THEN v ELSE s[k]]
  BY <1>1, LenProperties DEF VecUpdate, ReplaceAt
<1> QED BY <1>1, <1>2, <1>3

LEMMA MidReplaced ==
    ASSUME NEW V, NEW a \in Seq(V), NEW s \in Seq(V), NEW b \in Seq(V),
           NEW i \in 0..(Len(s) - 1), NEW v \in V
    PROVE  VecUpdate(Mid(a, s, b), Len(a) + i, v) = Mid(a, VecUpdate(s, i, v), b)
<1>1. Len(a) \in Nat /\ Len(s) \in Nat /\ Len(b) \in Nat BY LenProperties
<1>2. /\ VecRemove(s, i) \in Seq(V) /\ Len(VecRemove(s, i)) = Len(s) - 1
      /\ i \in 0..Len(VecRemove(s, i))
  BY <1>1, Removed
<1>3. VecInsert(VecRemove(Mid(a, s, b), Len(a) + i), Len(a) + i, v)
         = Mid(a, VecInsert(VecRemove(s, i), i, v), b)
  <2> DEFINE r == VecRemove(s, i)
  <2>1. r \in Seq(V) /\ i \in 0..Len(r) BY <1>2
  <2> HIDE DEF r
  <2>2. VecInsert(Mid(a, r, b), Len(a) + i, v) = Mid(a, VecInsert(r, i, v), b)
    BY <2>1, MidInserted
  <2> QED BY <2>2, MidRemoved DEF r
<1>4. PICK m \in Seq(V) : m = Mid(a, s, b) /\ Len(m) = Len(a) + Len(s) + Len(b)
  <2>1. Mid(a, s, b) \in Seq(V)
        /\ Len(Mid(a, s, b)) = Len(a) + Len(s) + Len(b)
    BY MidIs DEF IsMid
  <2> QED BY <2>1
<1>5. PICK j \in 0..(Len(m) - 1) : j = Len(a) + i BY <1>1, <1>4
<1>6. SameAsReplaced(m, j, v) /\ SameAsReplaced(s, i, v) BY Replaced
<1> QED BY <1>3, <1>4, <1>5, <1>6 DEF SameAsReplaced, VecUpdate

LEMMA MidMoved ==
    ASSUME NEW V, NEW a \in Seq(V), NEW s \in Seq(V), NEW b \in Seq(V),
           NEW i \in 0..(Len(s) - 1), NEW j \in 0..(Len(s) - 1)
    PROVE  VecMove(Mid(a, s, b), Len(a) + i, Len(a) + j) = Mid(a, VecMove(s, i, j), b)
<1>1. Len(a) \in Nat /\ Len(s) \in Nat /\ Len(b) \in Nat BY LenProperties
<1>0. Mid(a, s, b)[Len(a) + i + 1] = s[i + 1]
  <2>1. PICK p \in 1..Len(s) : p = i + 1 BY <1>1
  <2>2. Len(a) + i + 1 = Len(a) + p BY <1>1, <2>1
  <2>3. Mid(a, s, b)[Len(a) + p] = s[p] BY MidIs DEF IsMid
  <2> QED BY <2>1, <2>2, <2>3
<1> DEFINE r == VecRemove(s, i)
<1>2. r \in Seq(V) /\ Len(r) = Len(s) - 1 BY Removed
<1> PICK v \in V : v = s[i + 1] BY <1>1, ElementOfSeq
<1>3. j \in 0..Len(r) BY <1>1, <1>2
<1>4. VecRemove(Mid(a, s, b), Len(a) + i) = Mid(a, r, b) BY MidRemoved
<1> HIDE DEF r
<1>5. VecInsert(Mid(a, r, b), Len(a) + j, v) = Mid(a, VecInsert(r, j, v), b)
  <2>1. r \in Seq(V) BY <1>2
  <2> QED BY <1>3, <2>1, MidInserted
<1>6. Mid(a, s, b)[Len(a) + i + 1] = v BY <1>0
<1>7. Len(a) + i + 1 = (Len(a) + i) + 1 BY <1>1
<1> QED BY <1>4, <1>5, <1>6, <1>7, Zenon DEF VecMove, r

LEMMA WithIs ==
    ASSUME NEW V, NEW s \in Seq(V), NEW v \in V
    PROVE  With(s, v) \in Seq(V) /\ With(s, v) = VecInsert(s, Len(s), v)
BY Pushed DEF With

LEMMA MidPushed ==
    ASSUME NEW V, NEW a \in Seq(V), NEW s \in Seq(V), NEW b \in Seq(V), NEW v \in V
    PROVE  VecInsert(Mid(a, s, b), Len(a) + Len(s), v) = Mid(a, With(s, v), b)
<1>1. PICK i \in 0..Len(s) : i = Len(s) BY LenProperties
<1>2. With(s, v) = VecInsert(s, i, v) BY <1>1, WithIs
<1>3. VecInsert(Mid(a, s, b), Len(a) + i, v) = Mid(a, VecInsert(s, i, v), b)
  BY MidInserted
<1> QED BY <1>1, <1>2, <1>3

LEMMA MidPopped ==
    ASSUME NEW V, NEW a \in Seq(V), NEW s \in Seq(V), NEW b \in Seq(V), s # <<>>
    PROVE  VecRemove(Mid(a, s, b), Len(a) + Len(s) - 1) = Mid(a, VecPop(s), b)
<1>0. Len(s) \in Nat \ {0} /\ Len(a) \in Nat BY EmptySeq, LenProperties
<1>1. PICK i \in 0..(Len(s) - 1) : i = Len(s) - 1 BY <1>0
<1>2. VecPop(s) = VecRemove(s, i) BY <1>1, Popped
<1>3. Len(a) + Len(s) - 1 = Len(a) + i BY <1>0, <1>1
<1>4. VecRemove(Mid(a, s, b), Len(a) + i) = Mid(a, VecRemove(s, i), b)
  BY MidRemoved
<1> QED BY <1>2, <1>3, <1>4

\* Nothing before, or nothing behind.
LEMMA MidFirst ==
    ASSUME NEW V, NEW s \in Seq(V), NEW b \in Seq(V)
    PROVE  Mid(<<>>, s, b) = s \o b /\ Mid(s, <<>>, b) = s \o b
<1>1. <<>> \o s = s /\ s \o <<>> = s BY ConcatEmptySeq
<1> QED BY <1>1 DEF Mid

LEMMA MidLast ==
    ASSUME NEW V, NEW a \in Seq(V), NEW s \in Seq(V)
    PROVE  Mid(a, s, <<>>) = a \o s
<1>1. a \o s \in Seq(V) BY ConcatProperties
<1> QED BY <1>1, ConcatEmptySeq DEF Mid

LEMMA LastPushed ==
    ASSUME NEW V, NEW a \in Seq(V), NEW s \in Seq(V), NEW v \in V
    PROVE  With(After(a, s), v) = After(a, With(s, v))
<1>0. <<>> \in Seq(V) OBVIOUS
<1>10. PICK e \in Seq(V) : e = <<>> BY <1>0
<1>3. VecInsert(Mid(a, s, e), Len(a) + Len(s), v) = Mid(a, With(s, v), e)
  BY MidPushed
<1> PICK t \in Seq(V) : t = a \o s BY ConcatProperties
<1>1. Len(a) \in Nat /\ Len(s) \in Nat BY LenProperties
<1>2. With(t, v) = VecInsert(t, Len(t), v) BY WithIs
<1>4. With(s, v) \in Seq(V) BY WithIs
<1>5. Mid(a, s, e) = t /\ Mid(a, With(s, v), e) = a \o With(s, v)
  BY <1>4, <1>10, MidLast
<1>6. Len(t) = Len(a) + Len(s) BY ConcatProperties
<1> QED BY <1>2, <1>3, <1>5, <1>6 DEF After

LEMMA LastPopped ==
    ASSUME NEW V, NEW a \in Seq(V), NEW s \in Seq(V), s # <<>>
    PROVE  a \o s # <<>> /\ VecPop(a \o s) = a \o VecPop(s)
<1> PICK t \in Seq(V) : t = a \o s BY ConcatProperties
<1>0. <<>> \in Seq(V) OBVIOUS
<1>10. PICK e \in Seq(V) : e = <<>> BY <1>0
<1>1. Len(a) \in Nat /\ Len(s) \in Nat \ {0} BY EmptySeq, LenProperties
<1>6. Len(t) = Len(a) + Len(s) BY ConcatProperties
<1>7. t # <<>> BY <1>1, <1>6
<1>2. VecPop(t) = VecRemove(t, Len(t) - 1) BY <1>7, Popped
<1>3. VecRemove(Mid(a, s, e), Len(a) + Len(s) - 1) = Mid(a, VecPop(s), e)
  BY MidPopped
<1>4. VecPop(s) \in Seq(V) BY Popped
<1>5. Mid(a, s, e) = t /\ Mid(a, VecPop(s), e) = a \o VecPop(s)
  BY <1>4, <1>10, MidLast
<1>8. Len(t) - 1 = Len(a) + Len(s) - 1 BY <1>6
<1>9. VecPop(t) = VecRemove(t, Len(a) + Len(s) - 1) BY <1>2, <1>8
<1>12. VecRemove(t, Len(a) + Len(s) - 1) = Mid(a, VecPop(s), e) BY <1>3, <1>5
<1>11. VecPop(t) = a \o VecPop(s) BY <1>5, <1>9, <1>12
<1> QED BY <1>7, <1>11

-----------------------------------------------------------------------------
(* Diffs that wait.                                                        *)

LEMMA ReachesNone ==
    ASSUME NEW V, NEW s \in Seq(V)
    PROVE  Reaches(V, <<>>, s, s)
<1> DEFINE c == [i \in 1..1 |-> s]
<1>1. Len(<<>>) = 0 OBVIOUS
<1>2. c \in [1..(Len(<<>>) + 1) -> Seq(V)] BY <1>1
<1>3. c[1] = s /\ c[Len(<<>>) + 1] = s BY <1>1
<1>4. 1..Len(<<>>) = {} BY <1>1
<1>5. <<>> \in Seq(DiffsOver(V)) OBVIOUS
<1> HIDE DEF c
<1> QED BY <1>2, <1>3, <1>4, <1>5 DEF Reaches

LEMMA ReachesNothing ==
    ASSUME NEW V, NEW from, NEW to, Reaches(V, <<>>, from, to)
    PROVE  from = to
<1>1. Len(<<>>) + 1 = 1 OBVIOUS
<1> QED BY <1>1, Zenon DEF Reaches

LEMMA ReachesOne ==
    ASSUME NEW V, NEW d \in DiffsOver(V), NEW from \in Seq(V), NEW to \in Seq(V),
           Applicable(d, from), Apply(d, from) = to
    PROVE  \A q : q = <<d>> => Reaches(V, q, from, to)
<1> SUFFICES ASSUME NEW q, q = <<d>> PROVE Reaches(V, q, from, to) OBVIOUS
<1>1. q \in Seq(DiffsOver(V)) /\ Len(q) = 1 /\ q[1] = d OBVIOUS
<1> DEFINE c == [i \in 1..2 |-> IF i = 1 THEN from ELSE to]
<1>2. c \in [1..(Len(q) + 1) -> Seq(V)] BY <1>1
<1>3. c[1] = from /\ c[2] = to /\ c[Len(q) + 1] = to BY <1>1
<1> HIDE DEF c
<1>4. ASSUME NEW i \in 1..Len(q)
      PROVE  Applicable(q[i], c[i]) /\ c[i + 1] = Apply(q[i], c[i])
  <2>1. i = 1 /\ i + 1 = 2 BY <1>1
  <2>2. q[i] = d /\ c[i] = from /\ c[i + 1] = to BY <1>1, <1>3, <2>1
  <2> QED BY <2>2
<1> QED BY <1>1, <1>2, <1>3, <1>4 DEF Reaches

LEMMA ReachesThen ==
    ASSUME NEW V, NEW p, NEW q, NEW x, NEW y, NEW z,
           Reaches(V, p, x, y), Reaches(V, q, y, z)
    PROVE  Reaches(V, p \o q, x, z)
<1> DEFINE D == DiffsOver(V)
           S == Seq(V)
<1>1. PICK c \in [1..(Len(p) + 1) -> S] :
        /\ c[1] = x
        /\ c[Len(p) + 1] = y
        /\ \A i \in 1..Len(p) : Applicable(p[i], c[i]) /\ c[i + 1] = Apply(p[i], c[i])
  BY DEF Reaches
<1>2. PICK e \in [1..(Len(q) + 1) -> S] :
        /\ e[1] = y
        /\ e[Len(q) + 1] = z
        /\ \A i \in 1..Len(q) : Applicable(q[i], e[i]) /\ e[i + 1] = Apply(q[i], e[i])
  BY DEF Reaches
<1>3. p \in Seq(D) /\ q \in Seq(D) BY DEF Reaches
<1> HIDE DEF D, S
<1>4. Len(p) \in Nat /\ Len(q) \in Nat BY <1>3, LenProperties
<1> DEFINE r == p \o q
<1>5. /\ r \in Seq(D) /\ Len(r) = Len(p) + Len(q)
      /\ \A i \in 1..(Len(p) + Len(q)) :
            r[i] = IF i <= Len(p) THEN p[i] ELSE q[i - Len(p)]
  BY <1>3, ConcatProperties
<1> HIDE DEF r
<1> DEFINE f == [i \in 1..(Len(p) + Len(q) + 1) |->
                    IF i <= Len(p) THEN c[i] ELSE e[i - Len(p)]]
<1>6. ASSUME NEW i \in 1..(Len(p) + Len(q) + 1) PROVE f[i] \in S
  <2>1. CASE i <= Len(p)
    <3>1. i \in 1..(Len(p) + 1) BY <1>4, <2>1
    <3> QED BY <1>1, <2>1, <3>1
  <2>2. CASE i > Len(p)
    <3>1. i - Len(p) \in 1..(Len(q) + 1) /\ ~(i <= Len(p)) BY <1>4, <2>2
    <3>2. e[i - Len(p)] \in S BY <1>2, <3>1
    <3> QED BY <3>1, <3>2
  <2> QED BY <1>4, <2>1, <2>2
<1>7. f \in [1..(Len(r) + 1) -> S] BY <1>4, <1>5, <1>6
<1>8. ASSUME NEW i \in 1..(Len(p) + 1) PROVE f[i] = c[i]
  <2>1. i \in 1..(Len(p) + Len(q) + 1) BY <1>4
  <2>2. CASE i <= Len(p) BY <2>1, <2>2
  <2>3. CASE i = Len(p) + 1
    <3>1. ~(i <= Len(p)) /\ i - Len(p) = 1 BY <1>4, <2>3
    <3> QED BY <1>1, <1>2, <2>1, <2>3, <3>1
  <2> QED BY <1>4, <2>2, <2>3
<1>9. ASSUME NEW i \in 1..(Len(q) + 1) PROVE f[Len(p) + i] = e[i]
  <2> PICK n \in Nat : n = Len(p) + i BY <1>4
  <2>1. n \in 1..(Len(p) + Len(q) + 1) /\ ~(n <= Len(p)) /\ n - Len(p) = i BY <1>4
  <2> QED BY <2>1
<1> HIDE DEF f
<1>10. f[1] = x
  <2>1. 1 \in 1..(Len(p) + 1) BY <1>4
  <2> QED BY <1>1, <1>8, <2>1
<1>11. f[Len(r) + 1] = z
  <2>1. Len(q) + 1 \in 1..(Len(q) + 1) /\ Len(r) + 1 = Len(p) + (Len(q) + 1)
    BY <1>4, <1>5
  <2> QED BY <1>2, <1>9, <2>1
<1>12. ASSUME NEW i \in 1..Len(r)
       PROVE  Applicable(r[i], f[i]) /\ f[i + 1] = Apply(r[i], f[i])
  <2>1. CASE i <= Len(p)
    <3>1. i \in 1..Len(p) /\ i \in 1..(Len(p) + 1) /\ i + 1 \in 1..(Len(p) + 1)
      BY <1>4, <2>1
    <3>2. f[i] = c[i] /\ f[i + 1] = c[i + 1] BY <1>8, <3>1
    <3>3. r[i] = p[i] BY <1>5, <2>1
    <3> QED BY <1>1, <3>1, <3>2, <3>3
  <2>2. CASE i > Len(p)
    <3>0. i - Len(p) \in 1..Len(q) BY <1>4, <1>5, <2>2
    <3> PICK k \in 1..Len(q) : k = i - Len(p) BY <3>0
    <3>1. /\ i = Len(p) + k /\ i + 1 = Len(p) + (k + 1) /\ ~(i <= Len(p))
          /\ k \in 1..(Len(q) + 1) /\ k + 1 \in 1..(Len(q) + 1)
      BY <1>4
    <3>2. f[i] = e[k] /\ f[i + 1] = e[k + 1] BY <1>9, <3>1
    <3>3. r[i] = q[k] BY <1>5, <3>1
    <3> QED BY <1>2, <3>2, <3>3
  <2> QED BY <1>4, <1>5, <2>1, <2>2
<1>13. Reaches(V, r, x, z) BY <1>5, <1>7, <1>10, <1>11, <1>12 DEF Reaches, D, S
<1> QED BY <1>13 DEF r

\* The first of them fits, and then the others are left.
LEMMA ReachesNext ==
    ASSUME NEW V, NEW q, NEW from, NEW to, Reaches(V, q, from, to), q # <<>>
    PROVE  /\ Applicable(Head(q), from) /\ Apply(Head(q), from) \in Seq(V)
           /\ Reaches(V, Tail(q), Apply(Head(q), from), to)
<1> DEFINE D == DiffsOver(V)
           S == Seq(V)
<1>1. PICK c \in [1..(Len(q) + 1) -> S] :
        /\ c[1] = from
        /\ c[Len(q) + 1] = to
        /\ \A i \in 1..Len(q) : Applicable(q[i], c[i]) /\ c[i + 1] = Apply(q[i], c[i])
  BY DEF Reaches
<1>2. q \in Seq(D) BY DEF Reaches
<1> HIDE DEF D, S
<1> DEFINE p == Tail(q)
           e == [i \in 1..Len(q) |-> c[i + 1]]
<1>3. /\ Len(q) \in Nat \ {0} /\ p \in Seq(D) /\ Len(p) = Len(q) - 1
      /\ \A i \in 1..Len(p) : p[i] = q[i + 1]
      /\ Head(q) = q[1]
  BY <1>2, HeadTailProperties, LenProperties, EmptySeq
<1>4. Applicable(q[1], from) /\ c[2] = Apply(q[1], from) /\ c[2] \in S
  BY <1>1, <1>3
<1>5. e \in [1..(Len(p) + 1) -> S] BY <1>1, <1>3
<1>6. e[1] = c[2] /\ e[Len(p) + 1] = to BY <1>1, <1>3
<1>7. ASSUME NEW i \in 1..Len(p)
      PROVE  Applicable(p[i], e[i]) /\ e[i + 1] = Apply(p[i], e[i])
  <2>1. i + 1 \in 1..Len(q) BY <1>3
  <2>2. p[i] = q[i + 1] /\ e[i] = c[i + 1] /\ e[i + 1] = c[i + 1 + 1]
    BY <1>3, <2>1
  <2> QED BY <1>1, <2>1, <2>2
<1> HIDE DEF p, e
<1>8. Reaches(V, p, c[2], to) BY <1>3, <1>5, <1>6, <1>7 DEF Reaches, D, S
<1> QED BY <1>3, <1>4, <1>8 DEF p, S

\* The first n elements of s.
Prefix(s, n) == SubSeq(s, 1, n)

LEMMA PrefixIs ==
    ASSUME NEW V, NEW s \in Seq(V), NEW n \in 0..Len(s)
    PROVE  /\ Prefix(s, n) \in Seq(V) /\ Len(Prefix(s, n)) = n
           /\ \A p \in 1..n : Prefix(s, n)[p] = s[p]
           /\ n = 0 => Prefix(s, n) = <<>>
           /\ n = Len(s) => Prefix(s, n) = s
<1>1. Len(s) \in Nat BY LenProperties
<1> DEFINE a == SubSeq(s, 1, n)
<1>2. /\ a \in Seq(V) /\ Len(a) = n
      /\ \A p \in 1..n : a[p] = s[p]
  BY <1>1, SubSeqProperties, ElementOfSeq
<1> HIDE DEF a
<1>3. n = 0 => a = <<>> BY <1>2, EmptySeq
<1>4. n = Len(s) => a = s BY <1>2, SeqEqual
<1> QED BY <1>2, <1>3, <1>4 DEF a, Prefix

LEMMA PrefixPopped ==
    ASSUME NEW V, NEW s \in Seq(V), NEW n \in 1..Len(s)
    PROVE  /\ Prefix(s, n) # <<>>
           /\ VecPop(Prefix(s, n)) = Prefix(s, n - 1)
           /\ Append(Prefix(s, n - 1), s[n]) = Prefix(s, n)
<1>1. Len(s) \in Nat /\ n \in 0..Len(s) /\ n - 1 \in 0..Len(s) BY LenProperties
<1> DEFINE a == Prefix(s, n)
           b == Prefix(s, n - 1)
<1>2. /\ a \in Seq(V) /\ Len(a) = n
      /\ \A p \in 1..n : a[p] = s[p]
  BY <1>1, PrefixIs
<1>3. /\ b \in Seq(V) /\ Len(b) = n - 1
      /\ \A p \in 1..(n - 1) : b[p] = s[p]
  BY <1>1, PrefixIs
<1> HIDE DEF a, b
<1>4. a # <<>> BY <1>1, <1>2
<1> DEFINE c == VecPop(a)
<1>5. c \in Seq(V) /\ Len(c) = n - 1 /\ c = VecRemove(a, Len(a) - 1)
  BY <1>2, <1>4, Popped
<1>6. \A p \in 1..(n - 1) : c[p] = s[p]
  <2> PICK k \in 0..(Len(a) - 1) : k = Len(a) - 1 BY <1>2
  <2>1. IsRemoved(VecRemove(a, k), a, k) BY <1>2, RemovedIs
  <2>2. c = VecRemove(a, k) BY <1>5
  <2> HIDE DEF c
  <2>3. \A p \in 1..(n - 1) : c[p] = a[p] BY <1>2, <2>1, <2>2 DEF IsRemoved
  <2> QED BY <1>2, <2>3
<1> HIDE DEF c
<1>7. c = b BY <1>3, <1>5, <1>6, SeqEqual
<1> PICK v \in V : v = s[n] BY ElementOfSeq
<1> DEFINE e == Append(b, v)
<1>8. /\ e \in Seq(V) /\ Len(e) = Len(b) + 1
      /\ \A p \in 1..Len(b) : e[p] = b[p]
      /\ e[Len(b) + 1] = v
  BY <1>3, AppendProperties
<1> HIDE DEF e
<1>9. ASSUME NEW p \in 1..n PROVE e[p] = a[p]
  <2>1. CASE p = n BY <1>2, <1>3, <1>8, <2>1
  <2>2. CASE p \in 1..(n - 1) BY <1>2, <1>3, <1>8, <2>2
  <2> QED BY <1>1, <2>1, <2>2
<1>10. Len(e) = n BY <1>1, <1>3, <1>8
<1>11. e = a BY <1>2, <1>8, <1>9, <1>10, SeqEqual
<1> QED BY <1>4, <1>7, <1>11 DEF a, b, c, e

\* A part goes, the last value first.
LEMMA RemovesReach ==
    ASSUME NEW V, NEW a \in Seq(V), NEW s \in Seq(V), NEW b \in Seq(V)
    PROVE  Reaches(V, Removes(Len(a), Len(s)), Mid(a, s, b), a \o b)
<1>1. Len(a) \in Nat /\ Len(s) \in Nat /\ Len(b) \in Nat BY LenProperties
<1> PICK n \in Nat : n = Len(s) BY <1>1
<1> DEFINE q == Removes(Len(a), n)
           D == DiffsOver(V)
           c == [k \in 1..(n + 1) |-> Mid(a, Prefix(s, n + 1 - k), b)]
<1>2. \A k \in 1..n : RemoveDiff(Len(a) + n - k) \in D BY <1>1 DEF DiffsOver
<1> HIDE DEF D
<1>3. /\ q \in Seq(D) /\ Len(q) = n
      /\ \A k \in 1..n : q[k] = RemoveDiff(Len(a) + n - k)
  BY <1>2 DEF Removes
<1> HIDE DEF q
<1>4. ASSUME NEW k \in 1..(n + 1) PROVE c[k] \in Seq(V)
  <2>0. n + 1 - k \in 0..Len(s) OBVIOUS
  <2> PICK m \in 0..Len(s) : m = n + 1 - k BY <2>0
  <2>1. Prefix(s, m) \in Seq(V) BY PrefixIs
  <2>2. Mid(a, Prefix(s, m), b) \in Seq(V) BY <2>1, MidIs
  <2> QED BY <2>2
<1>5. c[1] = Mid(a, s, b)
  <2> PICK m \in 0..Len(s) : m = n OBVIOUS
  <2>1. Prefix(s, m) = s BY PrefixIs
  <2>2. 1 \in 1..(n + 1) /\ n + 1 - 1 = m OBVIOUS
  <2> QED BY <2>1, <2>2
<1>6. c[n + 1] = a \o b
  <2> PICK m \in 0..Len(s) : m = 0 OBVIOUS
  <2>1. Prefix(s, m) = <<>> BY PrefixIs
  <2>2. n + 1 \in 1..(n + 1) /\ n + 1 - (n + 1) = m OBVIOUS
  <2>3. c[n + 1] = Mid(a, <<>>, b) BY <2>1, <2>2
  <2> QED BY <2>3, MidFirst
<1>7. ASSUME NEW k \in 1..n
      PROVE  Applicable(q[k], c[k]) /\ c[k + 1] = Apply(q[k], c[k])
  <2>0. n + 1 - k \in 1..Len(s) OBVIOUS
  <2> PICK m \in 1..Len(s) : m = n + 1 - k BY <2>0
  <2>00. m - 1 \in 0..Len(s) OBVIOUS
  <2> PICK h \in 0..Len(s) : h = m - 1 BY <2>00
  <2> PICK r \in Seq(V) : r = Prefix(s, m) /\ Len(r) = m
    <3>1. m \in 0..Len(s) OBVIOUS
    <3>2. PICK l \in 0..Len(s) : l = m BY <3>1
    <3>3. Prefix(s, l) \in Seq(V) /\ Len(Prefix(s, l)) = l BY PrefixIs
    <3> QED BY <3>2, <3>3
  <2>1. c[k] = Mid(a, r, b)
    <3>1. k \in 1..(n + 1) OBVIOUS
    <3> QED BY <3>1
  <2>2. c[k + 1] = Mid(a, Prefix(s, h), b)
    <3>1. k + 1 \in 1..(n + 1) /\ n + 1 - (k + 1) = h OBVIOUS
    <3> QED BY <3>1
  <2>3. r # <<>> /\ VecPop(r) = Prefix(s, h) BY PrefixPopped
  <2>4. VecRemove(Mid(a, r, b), Len(a) + Len(r) - 1) = Mid(a, VecPop(r), b)
    BY <2>3, MidPopped
  <2>10. Len(a) + n - k \in Nat BY <1>1
  <2> PICK i \in Nat : i = Len(a) + n - k BY <2>10
  <2>5. i = Len(a) + Len(r) - 1
    <3>1. PICK l \in Nat : l = Len(r) BY LenProperties
    <3>2. l = n + 1 - k BY <3>1
    <3>3. i = Len(a) + l - 1 BY <1>1, <3>2
    <3> QED BY <3>1, <3>3
  <2>6. Len(Mid(a, r, b)) = Len(a) + Len(r) + Len(b) BY MidIs DEF IsMid
  <2>7. i \in 0..(Len(Mid(a, r, b)) - 1) BY <1>1, <2>5, <2>6
  <2>8. q[k] = RemoveDiff(i) BY <1>3
  <2>9. VecRemove(Mid(a, r, b), i) = Mid(a, Prefix(s, h), b) BY <2>3, <2>4, <2>5
  <2> HIDE DEF c
  <2> QED BY <2>1, <2>2, <2>7, <2>8, <2>9, ApplyRemove
<1>8. c \in [1..(Len(q) + 1) -> Seq(V)] BY <1>3, <1>4
<1> HIDE DEF c
<1>9. Reaches(V, q, Mid(a, s, b), a \o b)
  BY <1>3, <1>5, <1>6, <1>7, <1>8 DEF Reaches, D
<1> QED BY <1>9 DEF q

\* A part comes, value by value.
LEMMA InsertsReach ==
    ASSUME NEW V, NEW a \in Seq(V), NEW s \in Seq(V), NEW b \in Seq(V)
    PROVE  Reaches(V, Inserts(Len(a), s), a \o b, Mid(a, s, b))
<1>1. Len(a) \in Nat /\ Len(s) \in Nat /\ Len(b) \in Nat BY LenProperties
<1> PICK n \in Nat : n = Len(s) BY <1>1
<1> DEFINE q == Inserts(Len(a), s)
           D == DiffsOver(V)
           c == [k \in 1..(n + 1) |-> Mid(a, Prefix(s, k - 1), b)]
<1>2. \A k \in 1..n : InsertDiff(Len(a) + k - 1, s[k]) \in D
  <2> SUFFICES ASSUME NEW k \in 1..n PROVE InsertDiff(Len(a) + k - 1, s[k]) \in D
    OBVIOUS
  <2>1. Len(a) + k - 1 \in Nat /\ s[k] \in V BY <1>1, ElementOfSeq
  <2> QED BY <2>1 DEF DiffsOver
<1>0. DOMAIN s = 1..n BY LenProperties
<1> HIDE DEF D
<1>3. /\ q \in Seq(D) /\ Len(q) = n
      /\ \A k \in 1..n : q[k] = InsertDiff(Len(a) + k - 1, s[k])
  BY <1>0, <1>2 DEF Inserts
<1> HIDE DEF q
<1>4. ASSUME NEW k \in 1..(n + 1) PROVE c[k] \in Seq(V)
  <2> PICK m \in 0..Len(s) : m = k - 1 OBVIOUS
  <2>1. Prefix(s, m) \in Seq(V) BY PrefixIs
  <2>2. Mid(a, Prefix(s, m), b) \in Seq(V) BY <2>1, MidIs
  <2> QED BY <2>2
<1>5. c[n + 1] = Mid(a, s, b)
  <2> PICK m \in 0..Len(s) : m = n OBVIOUS
  <2>1. Prefix(s, m) = s BY PrefixIs
  <2>2. n + 1 \in 1..(n + 1) /\ n + 1 - 1 = m OBVIOUS
  <2> QED BY <2>1, <2>2
<1>6. c[1] = a \o b
  <2> PICK m \in 0..Len(s) : m = 0 OBVIOUS
  <2>1. Prefix(s, m) = <<>> BY PrefixIs
  <2>2. 1 \in 1..(n + 1) /\ 1 - 1 = m OBVIOUS
  <2>3. c[1] = Mid(a, <<>>, b) BY <2>1, <2>2
  <2> QED BY <2>3, MidFirst
<1>7. ASSUME NEW k \in 1..n
      PROVE  Applicable(q[k], c[k]) /\ c[k + 1] = Apply(q[k], c[k])
  <2> PICK h \in 0..Len(s) : h = k - 1 OBVIOUS
  <2>11. Prefix(s, h) \in Seq(V) /\ Len(Prefix(s, h)) = h BY PrefixIs
  <2> PICK r \in Seq(V) : r = Prefix(s, h) /\ Len(r) = h BY <2>11
  <2> PICK v \in V : v = s[k] BY ElementOfSeq
  <2>1. c[k] = Mid(a, r, b)
    <3>1. k \in 1..(n + 1) OBVIOUS
    <3> QED BY <3>1
  <2>2. c[k + 1] = Mid(a, Prefix(s, k), b)
    <3>1. k + 1 \in 1..(n + 1) /\ k + 1 - 1 = k OBVIOUS
    <3> QED BY <3>1
  <2>3. With(r, v) = Prefix(s, k) BY PrefixPopped DEF With
  <2>4. VecInsert(Mid(a, r, b), Len(a) + Len(r), v) = Mid(a, With(r, v), b)
    BY MidPushed
  <2>10. Len(a) + k - 1 \in Nat BY <1>1
  <2> PICK i \in Nat : i = Len(a) + k - 1 BY <2>10
  <2>5. i = Len(a) + Len(r) BY <1>1
  <2>6. Len(Mid(a, r, b)) = Len(a) + Len(r) + Len(b) BY MidIs DEF IsMid
  <2>7. i \in 0..Len(Mid(a, r, b)) BY <1>1, <2>5, <2>6
  <2>8. q[k] = InsertDiff(i, v) BY <1>3
  <2>9. VecInsert(Mid(a, r, b), i, v) = Mid(a, Prefix(s, k), b) BY <2>3, <2>4, <2>5
  <2> HIDE DEF c
  <2>12. PICK m : m = Mid(a, r, b) OBVIOUS
  <2>13. Applicable(InsertDiff(i, v), m) /\ Apply(InsertDiff(i, v), m) = VecInsert(m, i, v)
    BY <2>7, <2>12, ApplyInsert
  <2> QED BY <2>1, <2>2, <2>8, <2>9, <2>12, <2>13
<1>8. c \in [1..(Len(q) + 1) -> Seq(V)] BY <1>3, <1>4
<1> HIDE DEF c
<1>9. Reaches(V, q, a \o b, Mid(a, s, b))
  BY <1>3, <1>5, <1>6, <1>7, <1>8 DEF Reaches, D
<1> QED BY <1>9 DEF q

\* The last part goes, by pops.
LEMMA PopsReach ==
    ASSUME NEW V, NEW a \in Seq(V), NEW s \in Seq(V)
    PROVE  Reaches(V, Pops(Len(s)), a \o s, a)
<1>1. Len(a) \in Nat /\ Len(s) \in Nat BY LenProperties
<1> PICK n \in Nat : n = Len(s) BY <1>1
<1> DEFINE q == Pops(n)
           D == DiffsOver(V)
           c == [k \in 1..(n + 1) |-> a \o Prefix(s, n + 1 - k)]
<1>2. PopDiff \in D BY DEF DiffsOver
<1> HIDE DEF D
<1>3. /\ q \in Seq(D) /\ Len(q) = n
      /\ \A k \in 1..n : q[k] = PopDiff
  BY <1>2 DEF Pops
<1> HIDE DEF q
<1>4. ASSUME NEW k \in 1..(n + 1) PROVE c[k] \in Seq(V)
  <2>0. n + 1 - k \in 0..Len(s) OBVIOUS
  <2> PICK m \in 0..Len(s) : m = n + 1 - k BY <2>0
  <2>1. Prefix(s, m) \in Seq(V) BY PrefixIs
  <2>2. a \o Prefix(s, m) \in Seq(V) BY <2>1, ConcatProperties
  <2> QED BY <2>2
<1>5. c[1] = a \o s
  <2> PICK m \in 0..Len(s) : m = n OBVIOUS
  <2>1. Prefix(s, m) = s BY PrefixIs
  <2>2. 1 \in 1..(n + 1) /\ n + 1 - 1 = m OBVIOUS
  <2> QED BY <2>1, <2>2
<1>6. c[n + 1] = a
  <2> PICK m \in 0..Len(s) : m = 0 OBVIOUS
  <2>1. Prefix(s, m) = <<>> BY PrefixIs
  <2>2. n + 1 \in 1..(n + 1) /\ n + 1 - (n + 1) = m OBVIOUS
  <2>3. c[n + 1] = a \o <<>> BY <2>1, <2>2
  <2> QED BY <2>3, ConcatEmptySeq
<1>7. ASSUME NEW k \in 1..n
      PROVE  Applicable(q[k], c[k]) /\ c[k + 1] = Apply(q[k], c[k])
  <2>0. n + 1 - k \in 1..Len(s) OBVIOUS
  <2> PICK m \in 1..Len(s) : m = n + 1 - k BY <2>0
  <2>00. m - 1 \in 0..Len(s) OBVIOUS
  <2> PICK h \in 0..Len(s) : h = m - 1 BY <2>00
  <2> PICK r \in Seq(V) : r = Prefix(s, m) /\ Len(r) = m
    <3>1. m \in 0..Len(s) OBVIOUS
    <3> QED BY <3>1, PrefixIs
  <2>1. c[k] = a \o r
    <3>1. k \in 1..(n + 1) OBVIOUS
    <3> QED BY <3>1
  <2>2. c[k + 1] = a \o Prefix(s, h)
    <3>1. k + 1 \in 1..(n + 1) /\ n + 1 - (k + 1) = h OBVIOUS
    <3> QED BY <3>1
  <2>3. r # <<>> /\ VecPop(r) = Prefix(s, h) BY PrefixPopped
  <2>4. a \o r # <<>> /\ VecPop(a \o r) = a \o VecPop(r) BY <2>3, LastPopped
  <2>8. q[k] = PopDiff BY <1>3
  <2> HIDE DEF c
  <2> QED BY <2>1, <2>2, <2>3, <2>4, <2>8, ApplyPop
<1>8. c \in [1..(Len(q) + 1) -> Seq(V)] BY <1>3, <1>4
<1> HIDE DEF c
<1>9. Reaches(V, q, a \o s, a)
  BY <1>3, <1>5, <1>6, <1>7, <1>8 DEF Reaches, D
<1> QED BY <1>9 DEF q

\* And comes, by pushes.
LEMMA PushesReach ==
    ASSUME NEW V, NEW a \in Seq(V), NEW s \in Seq(V)
    PROVE  Reaches(V, Pushes(s), a, a \o s)
<1>1. Len(a) \in Nat /\ Len(s) \in Nat BY LenProperties
<1> PICK n \in Nat : n = Len(s) BY <1>1
<1> DEFINE q == Pushes(s)
           D == DiffsOver(V)
           c == [k \in 1..(n + 1) |-> a \o Prefix(s, k - 1)]
<1>2. \A k \in 1..n : PushDiff(s[k]) \in D
  <2> SUFFICES ASSUME NEW k \in 1..n PROVE PushDiff(s[k]) \in D
    OBVIOUS
  <2>1. s[k] \in V BY <1>1, ElementOfSeq
  <2> QED BY <2>1 DEF DiffsOver
<1>0. DOMAIN s = 1..n BY LenProperties
<1> HIDE DEF D
<1>3. /\ q \in Seq(D) /\ Len(q) = n
      /\ \A k \in 1..n : q[k] = PushDiff(s[k])
  BY <1>0, <1>2 DEF Pushes
<1> HIDE DEF q
<1>4. ASSUME NEW k \in 1..(n + 1) PROVE c[k] \in Seq(V)
  <2> PICK m \in 0..Len(s) : m = k - 1 OBVIOUS
  <2>1. Prefix(s, m) \in Seq(V) BY PrefixIs
  <2>2. a \o Prefix(s, m) \in Seq(V) BY <2>1, ConcatProperties
  <2> QED BY <2>2
<1>5. c[n + 1] = a \o s
  <2> PICK m \in 0..Len(s) : m = n OBVIOUS
  <2>1. Prefix(s, m) = s BY PrefixIs
  <2>2. n + 1 \in 1..(n + 1) /\ n + 1 - 1 = m OBVIOUS
  <2> QED BY <2>1, <2>2
<1>6. c[1] = a
  <2> PICK m \in 0..Len(s) : m = 0 OBVIOUS
  <2>1. Prefix(s, m) = <<>> BY PrefixIs
  <2>2. 1 \in 1..(n + 1) /\ 1 - 1 = m OBVIOUS
  <2>3. c[1] = a \o <<>> BY <2>1, <2>2
  <2> QED BY <2>3, ConcatEmptySeq
<1>7. ASSUME NEW k \in 1..n
      PROVE  Applicable(q[k], c[k]) /\ c[k + 1] = Apply(q[k], c[k])
  <2> PICK h \in 0..Len(s) : h = k - 1 OBVIOUS
  <2>11. Prefix(s, h) \in Seq(V) /\ Len(Prefix(s, h)) = h BY PrefixIs
  <2>13. PICK r \in Seq(V) : r = Prefix(s, h) /\ Len(r) = h BY <2>11
  <2>12. PICK v \in V : v = s[k] BY ElementOfSeq
  <2>1. c[k] = a \o r
    <3>1. k \in 1..(n + 1) OBVIOUS
    <3> QED BY <2>13, <3>1
  <2>2. c[k + 1] = a \o Prefix(s, k)
    <3>1. k + 1 \in 1..(n + 1) /\ k + 1 - 1 = k OBVIOUS
    <3> QED BY <3>1
  <2>3. With(r, v) = Prefix(s, k) BY <2>12, <2>13, PrefixPopped DEF With
  <2>4. With(a \o r, v) = a \o With(r, v)
    <3> HIDE DEF c
    <3>1. With(After(a, r), v) = After(a, With(r, v)) BY LastPushed
    <3> QED BY <3>1 DEF After
  <2>8. q[k] = PushDiff(v) BY <1>3, <2>12
  <2> HIDE DEF c
  <2>5. /\ Applicable(PushDiff(v), a \o r)
        /\ Apply(PushDiff(v), a \o r) = With(a \o r, v)
    BY ApplyPush DEF With
  <2> QED BY <2>1, <2>2, <2>3, <2>4, <2>5, <2>8
<1>8. c \in [1..(Len(q) + 1) -> Seq(V)] BY <1>3, <1>4
<1> HIDE DEF c
<1>9. Reaches(V, q, a, a \o s)
  BY <1>3, <1>5, <1>6, <1>7, <1>8 DEF Reaches, D
<1> QED BY <1>9 DEF q

-----------------------------------------------------------------------------
(* Diffs of a part.                                                        *)

\* A diff that fits s, by kinds.
LEMMA FitsIs ==
    ASSUME NEW V, NEW s \in Seq(V), NEW d \in DiffsOver(V), Applicable(d, s)
    PROVE  \/ \E vs \in Seq(V) : d = ReplaceDiff(vs)
           \/ \E i \in 0..Len(s), v \in V : d = InsertDiff(i, v)
           \/ \E v \in V : d = PushDiff(v)
           \/ \E i \in 0..(Len(s) - 1), v \in V : d = UpdateDiff(i, v)
           \/ \E i \in 0..(Len(s) - 1) : d = RemoveDiff(i)
           \/ \E i, j \in 0..(Len(s) - 1) : d = MoveDiff(i, j)
           \/ s # <<>> /\ d = PopDiff
           \/ d = ClearDiff
<1>1. CASE \E vs \in Seq(V) : d = ReplaceDiff(vs) BY <1>1
<1>2. CASE \E i \in Nat, v \in V : d = InsertDiff(i, v)
  <2> PICK i \in Nat, v \in V : d = InsertDiff(i, v) BY <1>2
  <2>1. i \in 0..Len(s) BY ApplyInsert
  <2> QED BY <2>1
<1>3. CASE \E v \in V : d = PushDiff(v) BY <1>3
<1>4. CASE \E i \in Nat, v \in V : d = UpdateDiff(i, v)
  <2> PICK i \in Nat, v \in V : d = UpdateDiff(i, v) BY <1>4
  <2>1. i \in 0..(Len(s) - 1) BY ApplyUpdate
  <2> QED BY <2>1
<1>5. CASE \E i \in Nat : d = RemoveDiff(i)
  <2> PICK i \in Nat : d = RemoveDiff(i) BY <1>5
  <2>1. i \in 0..(Len(s) - 1) BY ApplyRemove
  <2> QED BY <2>1
<1>6. CASE \E i, j \in Nat : d = MoveDiff(i, j)
  <2> PICK i \in Nat, j \in Nat : d = MoveDiff(i, j) BY <1>6
  <2>1. {i, j} \subseteq 0..(Len(s) - 1) BY ApplyMove
  <2>2. i \in 0..(Len(s) - 1) /\ j \in 0..(Len(s) - 1) BY <2>1
  <2> QED BY <2>2
<1>7. CASE d = PopDiff BY <1>7, ApplyPop
<1>8. CASE d = ClearDiff BY <1>8
<1> QED BY <1>1, <1>2, <1>3, <1>4, <1>5, <1>6, <1>7, <1>8 DEF DiffsOver

LEMMA ShiftReplace == \A vs, by : Shift(ReplaceDiff(vs), by) = ReplaceDiff(vs)
<1> SUFFICES ASSUME NEW vs, NEW by PROVE Shift(ReplaceDiff(vs), by) = ReplaceDiff(vs)
  OBVIOUS
<1>1. ReplaceDiff(vs).op = "Replace" BY DEF ReplaceDiff
<1> QED BY <1>1, Zenon DEF Shift

LEMMA ShiftInsert ==
    ASSUME NEW i, NEW v, NEW by
    PROVE  Shift(InsertDiff(i, v), by) = InsertDiff(i + by, v)
<1>1. InsertDiff(i, v).op = "InsertAt" BY DEF InsertDiff
<1>2. [InsertDiff(i, v) EXCEPT !.index = @ + by] = InsertDiff(i + by, v)
  BY DEF InsertDiff
<1> QED BY <1>1, <1>2, Zenon DEF Shift

LEMMA ShiftUpdate ==
    ASSUME NEW i, NEW v, NEW by
    PROVE  Shift(UpdateDiff(i, v), by) = UpdateDiff(i + by, v)
<1>1. UpdateDiff(i, v).op = "UpdateAt" BY DEF UpdateDiff
<1>2. [UpdateDiff(i, v) EXCEPT !.index = @ + by] = UpdateDiff(i + by, v)
  BY DEF UpdateDiff
<1> QED BY <1>1, <1>2, Zenon DEF Shift

LEMMA ShiftRemove ==
    ASSUME NEW i, NEW by
    PROVE  Shift(RemoveDiff(i), by) = RemoveDiff(i + by)
<1>1. RemoveDiff(i).op = "RemoveAt" BY DEF RemoveDiff
<1>2. [RemoveDiff(i) EXCEPT !.index = @ + by] = RemoveDiff(i + by)
  BY DEF RemoveDiff
<1> QED BY <1>1, <1>2, Zenon DEF Shift

LEMMA ShiftMove ==
    ASSUME NEW i, NEW j, NEW by
    PROVE  Shift(MoveDiff(i, j), by) = MoveDiff(i + by, j + by)
<1>1. MoveDiff(i, j).op = "Move" /\ MoveDiff(i, j).old = i /\ MoveDiff(i, j).new = j
  BY DEF MoveDiff
<1> QED BY <1>1, Zenon DEF Shift

LEMMA ShiftOther ==
    ASSUME NEW v, NEW by
    PROVE  /\ Shift(PushDiff(v), by) = PushDiff(v)
           /\ Shift(PopDiff, by) = PopDiff
           /\ Shift(ClearDiff, by) = ClearDiff
<1>1. PushDiff(v).op = "Push" /\ PopDiff.op = "Pop" /\ ClearDiff.op = "Clear"
  BY DEF PushDiff, PopDiff, ClearDiff
<1>2. Shift(PushDiff(v), by) = PushDiff(v) BY <1>1, Zenon DEF Shift
<1>3. Shift(PopDiff, by) = PopDiff BY <1>1, Zenon DEF Shift
<1>4. Shift(ClearDiff, by) = ClearDiff BY <1>1, Zenon DEF Shift
<1> QED BY <1>2, <1>3, <1>4

\* What a diff of one kind makes of a part in the middle.
LEMMA InsertReaches ==
    ASSUME NEW V, NEW a \in Seq(V), NEW s \in Seq(V), NEW b \in Seq(V),
           NEW i \in 0..Len(s), NEW v \in V
    PROVE  \A q : q = <<InsertDiff(i + Len(a), v)>> =>
              Reaches(V, q, Mid(a, s, b), Mid(a, VecInsert(s, i, v), b))
<1>1. Len(a) \in Nat /\ Len(s) \in Nat /\ Len(b) \in Nat BY LenProperties
<1>2. PICK n \in Nat : n = Len(a) + i /\ n = i + Len(a) BY <1>1
<1>3. PICK d : d = InsertDiff(n, v) OBVIOUS
<1>4. d \in DiffsOver(V) BY <1>3 DEF DiffsOver
<1>5. PICK m \in Seq(V) : m = Mid(a, s, b) /\ Len(m) = Len(a) + Len(s) + Len(b)
  BY MidIs DEF IsMid
<1>6. PICK t \in Seq(V) : t = VecInsert(s, i, v) BY InsertedIs
<1>7. PICK k \in Seq(V) : k = Mid(a, t, b) BY MidIs
<1>8. VecInsert(Mid(a, s, b), Len(a) + i, v) = Mid(a, VecInsert(s, i, v), b)
  BY MidInserted
<1>9. VecInsert(m, n, v) = k BY <1>2, <1>5, <1>6, <1>7, <1>8
<1>10. n \in 0..Len(m) BY <1>1, <1>2, <1>5
<1>11. Applicable(d, m) /\ Apply(d, m) = k BY <1>3, <1>9, <1>10, ApplyInsert
<1>12. \A q : q = <<d>> => Reaches(V, q, m, k) BY <1>4, <1>11, ReachesOne
<1> QED BY <1>2, <1>3, <1>5, <1>6, <1>7, <1>12

LEMMA RemoveReaches ==
    ASSUME NEW V, NEW a \in Seq(V), NEW s \in Seq(V), NEW b \in Seq(V),
           NEW i \in 0..(Len(s) - 1)
    PROVE  \A q : q = <<RemoveDiff(i + Len(a))>> =>
              Reaches(V, q, Mid(a, s, b), Mid(a, VecRemove(s, i), b))
<1>1. Len(a) \in Nat /\ Len(s) \in Nat /\ Len(b) \in Nat BY LenProperties
<1>2. PICK n \in Nat : n = Len(a) + i /\ n = i + Len(a) BY <1>1
<1>3. PICK d : d = RemoveDiff(n) OBVIOUS
<1>4. d \in DiffsOver(V) BY <1>3 DEF DiffsOver
<1>5. PICK m \in Seq(V) : m = Mid(a, s, b) /\ Len(m) = Len(a) + Len(s) + Len(b)
  BY MidIs DEF IsMid
<1>6. PICK t \in Seq(V) : t = VecRemove(s, i) BY RemovedIs
<1>7. PICK k \in Seq(V) : k = Mid(a, t, b) BY MidIs
<1>8. VecRemove(Mid(a, s, b), Len(a) + i) = Mid(a, VecRemove(s, i), b)
  BY MidRemoved
<1>9. VecRemove(m, n) = k BY <1>2, <1>5, <1>6, <1>7, <1>8
<1>10. n \in 0..(Len(m) - 1) BY <1>1, <1>2, <1>5
<1>11. Applicable(d, m) /\ Apply(d, m) = k BY <1>3, <1>9, <1>10, ApplyRemove
<1>12. \A q : q = <<d>> => Reaches(V, q, m, k) BY <1>4, <1>11, ReachesOne
<1> QED BY <1>2, <1>3, <1>5, <1>6, <1>7, <1>12

LEMMA UpdateReaches ==
    ASSUME NEW V, NEW a \in Seq(V), NEW s \in Seq(V), NEW b \in Seq(V),
           NEW i \in 0..(Len(s) - 1), NEW v \in V
    PROVE  \A q : q = <<UpdateDiff(i + Len(a), v)>> =>
              Reaches(V, q, Mid(a, s, b), Mid(a, ReplaceAt(s, i + 1, v), b))
<1>1. Len(a) \in Nat /\ Len(s) \in Nat /\ Len(b) \in Nat BY LenProperties
<1>2. PICK n \in Nat : n = Len(a) + i /\ n = i + Len(a) BY <1>1
<1>3. PICK d : d = UpdateDiff(n, v) OBVIOUS
<1>4. d \in DiffsOver(V) BY <1>3 DEF DiffsOver
<1>5. PICK m \in Seq(V) : m = Mid(a, s, b) /\ Len(m) = Len(a) + Len(s) + Len(b)
  BY MidIs DEF IsMid
<1>6. PICK t \in Seq(V) : t = ReplaceAt(s, i + 1, v) BY Replaced
<1>7. PICK k \in Seq(V) : k = Mid(a, t, b) BY MidIs
<1>8. VecUpdate(Mid(a, s, b), Len(a) + i, v) = Mid(a, VecUpdate(s, i, v), b)
  BY MidReplaced
<1>9. ReplaceAt(m, n + 1, v) = k BY <1>2, <1>5, <1>6, <1>7, <1>8 DEF VecUpdate
<1>10. n \in 0..(Len(m) - 1) BY <1>1, <1>2, <1>5
<1>11. Applicable(d, m) /\ Apply(d, m) = k BY <1>3, <1>9, <1>10, ApplyUpdate
<1>12. \A q : q = <<d>> => Reaches(V, q, m, k) BY <1>4, <1>11, ReachesOne
<1> QED BY <1>2, <1>3, <1>5, <1>6, <1>7, <1>12

LEMMA MoveReaches ==
    ASSUME NEW V, NEW a \in Seq(V), NEW s \in Seq(V), NEW b \in Seq(V),
           NEW i \in 0..(Len(s) - 1), NEW j \in 0..(Len(s) - 1)
    PROVE  \A q : q = <<MoveDiff(i + Len(a), j + Len(a))>> =>
              Reaches(V, q, Mid(a, s, b), Mid(a, VecMove(s, i, j), b))
<1>1. Len(a) \in Nat /\ Len(s) \in Nat /\ Len(b) \in Nat BY LenProperties
<1>2. PICK n \in Nat : n = Len(a) + i /\ n = i + Len(a) BY <1>1
<1>13. PICK o \in Nat : o = Len(a) + j /\ o = j + Len(a) BY <1>1
<1>3. PICK d : d = MoveDiff(n, o) OBVIOUS
<1>4. d \in DiffsOver(V) BY <1>3 DEF DiffsOver
<1>5. PICK m \in Seq(V) : m = Mid(a, s, b) /\ Len(m) = Len(a) + Len(s) + Len(b)
  BY MidIs DEF IsMid
<1>6. PICK t \in Seq(V) : t = VecMove(s, i, j)
  <2> DEFINE r == VecRemove(s, i)
  <2>1. r \in Seq(V) /\ Len(r) = Len(s) - 1 BY Removed
  <2>2. r \in Seq(V) /\ j \in 0..Len(r) BY <1>1, <2>1
  <2>3. s[i + 1] \in V BY <1>1, ElementOfSeq
  <2> HIDE DEF r
  <2>4. VecInsert(r, j, s[i + 1]) \in Seq(V) BY <2>2, <2>3, InsertedIs
  <2> QED BY <2>4 DEF VecMove, r
<1>7. PICK k \in Seq(V) : k = Mid(a, t, b) BY MidIs
<1>8. VecMove(Mid(a, s, b), Len(a) + i, Len(a) + j) = Mid(a, VecMove(s, i, j), b)
  BY MidMoved
<1>9. VecMove(m, n, o) = k BY <1>2, <1>5, <1>6, <1>7, <1>8, <1>13
<1>10. {n, o} \subseteq 0..(Len(m) - 1) BY <1>1, <1>2, <1>5, <1>13
<1>11. Applicable(d, m) /\ Apply(d, m) = k BY <1>3, <1>9, <1>10, ApplyMove
<1>12. \A q : q = <<d>> => Reaches(V, q, m, k) BY <1>4, <1>11, ReachesOne
<1> QED BY <1>2, <1>3, <1>5, <1>6, <1>7, <1>12, <1>13

\* How flatten sends a diff of a part.
LEMMA InnerIs ==
    ASSUME NEW vs, NEW i, NEW j, NEW v, NEW n, NEW m
    PROVE  InnerAre(vs, i, j, v, n, m)
<1> DEFINE r == ReplaceDiff(vs)
           p == PushDiff(v)
           x == InsertDiff(i, v)
           u == UpdateDiff(i, v)
           e == RemoveDiff(i)
           w == MoveDiff(i, j)
<1>1. /\ r.op = "Replace" /\ r.values = vs /\ ClearDiff.op = "Clear"
      /\ p.op = "Push" /\ p.value = v /\ PopDiff.op = "Pop"
      /\ x.op = "InsertAt" /\ u.op = "UpdateAt" /\ e.op = "RemoveAt" /\ w.op = "Move"
  BY DEF ReplaceDiff, ClearDiff, PushDiff, PopDiff, InsertDiff, UpdateDiff,
         RemoveDiff, MoveDiff
<1>2. NewValues(r) = vs /\ NewValues(ClearDiff) = <<>>
  <2>1. ClearDiff.op # "Replace" BY <1>1
  <2> QED BY <1>1, <2>1, Zenon DEF NewValues
<1>3. /\ Shift(x, n) = InsertDiff(i + n, v) /\ Shift(u, n) = UpdateDiff(i + n, v)
      /\ Shift(e, n) = RemoveDiff(i + n) /\ Shift(w, n) = MoveDiff(i + n, j + n)
  BY ShiftInsert, ShiftUpdate, ShiftRemove, ShiftMove
<1> HIDE DEF r, p, x, u, e, w
<1>4. InnerDiffs(r, n, m) = Removes(n, m) \o Inserts(n, vs)
  BY <1>1, <1>2, Zenon DEF InnerDiffs
<1>5. InnerDiffs(ClearDiff, n, m) = Removes(n, m) \o Inserts(n, <<>>)
  BY <1>1, <1>2, Zenon DEF InnerDiffs
<1>6. InnerDiffs(p, n, m) = <<InsertDiff(n + m, v)>> BY <1>1, Zenon DEF InnerDiffs
<1>7. InnerDiffs(PopDiff, n, m) = <<RemoveDiff(n + m - 1)>>
  BY <1>1, Zenon DEF InnerDiffs
<1>8. InnerDiffs(x, n, m) = <<InsertDiff(i + n, v)>>
  BY <1>1, <1>3, Zenon DEF InnerDiffs
<1>9. InnerDiffs(u, n, m) = <<UpdateDiff(i + n, v)>>
  BY <1>1, <1>3, Zenon DEF InnerDiffs
<1>10. InnerDiffs(e, n, m) = <<RemoveDiff(i + n)>>
  BY <1>1, <1>3, Zenon DEF InnerDiffs
<1>11. InnerDiffs(w, n, m) = <<MoveDiff(i + n, j + n)>>
  BY <1>1, <1>3, Zenon DEF InnerDiffs
<1> QED
  BY <1>4, <1>5, <1>6, <1>7, <1>8, <1>9, <1>10, <1>11
  DEF InnerAre, r, p, x, u, e, w

LEMMA PushReaches ==
    ASSUME NEW V, NEW a \in Seq(V), NEW s \in Seq(V), NEW b \in Seq(V), NEW v \in V
    PROVE  \A q : q = <<InsertDiff(Len(a) + Len(s), v)>> =>
              Reaches(V, q, Mid(a, s, b), Mid(a, With(s, v), b))
<1>1. Len(a) \in Nat /\ Len(s) \in Nat BY LenProperties
<1>2. PICK i \in 0..Len(s) : i = Len(s) BY <1>1
<1>3. With(s, v) = VecInsert(s, i, v) BY <1>2, WithIs
<1>4. i + Len(a) = Len(a) + Len(s) BY <1>1, <1>2
<1>5. \A q : q = <<InsertDiff(i + Len(a), v)>> =>
         Reaches(V, q, Mid(a, s, b), Mid(a, VecInsert(s, i, v), b))
  BY InsertReaches
<1> QED BY <1>3, <1>4, <1>5

LEMMA PopReaches ==
    ASSUME NEW V, NEW a \in Seq(V), NEW s \in Seq(V), NEW b \in Seq(V), s # <<>>
    PROVE  \A q : q = <<RemoveDiff(Len(a) + Len(s) - 1)>> =>
              Reaches(V, q, Mid(a, s, b), Mid(a, VecPop(s), b))
<1>1. Len(a) \in Nat /\ Len(s) \in Nat \ {0} BY EmptySeq, LenProperties
<1>2. PICK i \in 0..(Len(s) - 1) : i = Len(s) - 1 BY <1>1
<1>3. VecPop(s) = VecRemove(s, i) BY <1>2, Popped
<1>4. i + Len(a) = Len(a) + Len(s) - 1 BY <1>1, <1>2
<1>5. \A q : q = <<RemoveDiff(i + Len(a))>> =>
         Reaches(V, q, Mid(a, s, b), Mid(a, VecRemove(s, i), b))
  BY RemoveReaches
<1> QED BY <1>3, <1>4, <1>5

\* All values of the part are others now.
LEMMA WholeReaches ==
    ASSUME NEW V, NEW a \in Seq(V), NEW s \in Seq(V), NEW b \in Seq(V),
           NEW t \in Seq(V)
    PROVE  Reaches(V, Removes(Len(a), Len(s)) \o Inserts(Len(a), t),
                   Mid(a, s, b), Mid(a, t, b))
<1>1. Reaches(V, Removes(Len(a), Len(s)), Mid(a, s, b), a \o b) BY RemovesReach
<1>2. Reaches(V, Inserts(Len(a), t), a \o b, Mid(a, t, b)) BY InsertsReach
<1> QED BY <1>1, <1>2, ReachesThen

\* Flatten sends each diff of an inner SignalVec as diffs that turn the inner
\* contents s into what the diff makes of them, wherever they are in the whole.
THEOREM InnerFollows ==
    ASSUME NEW V, NEW a \in Seq(V), NEW s \in Seq(V), NEW b \in Seq(V),
           NEW d \in DiffsOver(V), Applicable(d, s)
    PROVE  Reaches(V, InnerDiffs(d, Len(a), Len(s)),
                   Mid(a, s, b), Mid(a, Apply(d, s), b))
<1> DEFINE n == Len(a)
           m == Len(s)
<1>1. CASE \E vs \in Seq(V) : d = ReplaceDiff(vs)
  <2>1. PICK vs \in Seq(V) : d = ReplaceDiff(vs) BY <1>1
  <2>2. Reaches(V, Removes(n, m) \o Inserts(n, vs), Mid(a, s, b), Mid(a, vs, b))
    BY WholeReaches
  <2> HIDE DEF n, m
  <2>5. InnerAre(vs, 0, 0, 0, n, m) BY InnerIs
  <2>3. InnerDiffs(ReplaceDiff(vs), n, m) = Removes(n, m) \o Inserts(n, vs)
    BY <2>5, Zenon DEF InnerAre
  <2>4. Apply(ReplaceDiff(vs), s) = vs BY ApplyReplace
  <2> QED BY <2>1, <2>2, <2>3, <2>4, Zenon DEF n, m
<1>2. CASE \E i \in 0..Len(s), v \in V : d = InsertDiff(i, v)
  <2>1. PICK i \in 0..Len(s), v \in V : d = InsertDiff(i, v) BY <1>2
  <2>2. \A q : q = <<InsertDiff(i + n, v)>> =>
           Reaches(V, q, Mid(a, s, b), Mid(a, VecInsert(s, i, v), b))
    BY InsertReaches
  <2> HIDE DEF n, m
  <2>5. InnerAre(0, i, 0, v, n, m) BY InnerIs
  <2>3. InnerDiffs(InsertDiff(i, v), n, m) = <<InsertDiff(i + n, v)>>
    BY <2>5, Zenon DEF InnerAre
  <2>4. Apply(InsertDiff(i, v), s) = VecInsert(s, i, v) BY ApplyInsert
  <2> QED BY <2>1, <2>2, <2>3, <2>4, Zenon DEF n, m
<1>3. CASE \E v \in V : d = PushDiff(v)
  <2>1. PICK v \in V : d = PushDiff(v) BY <1>3
  <2>2. \A q : q = <<InsertDiff(n + m, v)>> =>
           Reaches(V, q, Mid(a, s, b), Mid(a, With(s, v), b))
    BY PushReaches
  <2> HIDE DEF n, m
  <2>5. InnerAre(0, 0, 0, v, n, m) BY InnerIs
  <2>3. InnerDiffs(PushDiff(v), n, m) = <<InsertDiff(n + m, v)>>
    BY <2>5, Zenon DEF InnerAre
  <2>4. Apply(PushDiff(v), s) = With(s, v) BY ApplyPush DEF With
  <2> QED BY <2>1, <2>2, <2>3, <2>4, Zenon DEF n, m
<1>4. CASE \E i \in 0..(Len(s) - 1), v \in V : d = UpdateDiff(i, v)
  <2>1. PICK i \in 0..(Len(s) - 1), v \in V : d = UpdateDiff(i, v) BY <1>4
  <2>2. \A q : q = <<UpdateDiff(i + n, v)>> =>
           Reaches(V, q, Mid(a, s, b), Mid(a, ReplaceAt(s, i + 1, v), b))
    BY UpdateReaches
  <2> HIDE DEF n, m
  <2>5. InnerAre(0, i, 0, v, n, m) BY InnerIs
  <2>3. InnerDiffs(UpdateDiff(i, v), n, m) = <<UpdateDiff(i + n, v)>>
    BY <2>5, Zenon DEF InnerAre
  <2>4. Apply(UpdateDiff(i, v), s) = ReplaceAt(s, i + 1, v) BY ApplyUpdate
  <2> QED BY <2>1, <2>2, <2>3, <2>4, Zenon DEF n, m
<1>5. CASE \E i \in 0..(Len(s) - 1) : d = RemoveDiff(i)
  <2>1. PICK i \in 0..(Len(s) - 1) : d = RemoveDiff(i) BY <1>5
  <2>2. \A q : q = <<RemoveDiff(i + n)>> =>
           Reaches(V, q, Mid(a, s, b), Mid(a, VecRemove(s, i), b))
    BY RemoveReaches
  <2> HIDE DEF n, m
  <2>5. InnerAre(0, i, 0, 0, n, m) BY InnerIs
  <2>3. InnerDiffs(RemoveDiff(i), n, m) = <<RemoveDiff(i + n)>>
    BY <2>5, Zenon DEF InnerAre
  <2>4. Apply(RemoveDiff(i), s) = VecRemove(s, i) BY ApplyRemove
  <2> QED BY <2>1, <2>2, <2>3, <2>4, Zenon DEF n, m
<1>6. CASE \E i, j \in 0..(Len(s) - 1) : d = MoveDiff(i, j)
  <2>1. PICK i \in 0..(Len(s) - 1), j \in 0..(Len(s) - 1) : d = MoveDiff(i, j)
    BY <1>6
  <2>2. \A q : q = <<MoveDiff(i + n, j + n)>> =>
           Reaches(V, q, Mid(a, s, b), Mid(a, VecMove(s, i, j), b))
    BY MoveReaches
  <2> HIDE DEF n, m
  <2>5. InnerAre(0, i, j, 0, n, m) BY InnerIs
  <2>3. InnerDiffs(MoveDiff(i, j), n, m) = <<MoveDiff(i + n, j + n)>>
    BY <2>5, Zenon DEF InnerAre
  <2>4. Apply(MoveDiff(i, j), s) = VecMove(s, i, j) BY ApplyMove
  <2> QED BY <2>1, <2>2, <2>3, <2>4, Zenon DEF n, m
<1>7. CASE s # <<>> /\ d = PopDiff
  <2>2. \A q : q = <<RemoveDiff(n + m - 1)>> =>
           Reaches(V, q, Mid(a, s, b), Mid(a, VecPop(s), b))
    BY <1>7, PopReaches
  <2> HIDE DEF n, m
  <2>5. InnerAre(0, 0, 0, 0, n, m) BY InnerIs
  <2>3. InnerDiffs(PopDiff, n, m) = <<RemoveDiff(n + m - 1)>>
    BY <2>5, Zenon DEF InnerAre
  <2>4. Apply(PopDiff, s) = VecPop(s) BY ApplyPop
  <2> QED BY <1>7, <2>2, <2>3, <2>4, Zenon DEF n, m
<1>8. CASE d = ClearDiff
  <2>0. <<>> \in Seq(V) OBVIOUS
  <2>1. PICK e \in Seq(V) : e = <<>> BY <2>0
  <2>2. Reaches(V, Removes(n, m) \o Inserts(n, e), Mid(a, s, b), Mid(a, e, b))
    BY WholeReaches
  <2> HIDE DEF n, m
  <2>5. InnerAre(0, 0, 0, 0, n, m) BY InnerIs
  <2>3. InnerDiffs(ClearDiff, n, m) = Removes(n, m) \o Inserts(n, e)
    BY <2>1, <2>5, Zenon DEF InnerAre
  <2>4. Apply(ClearDiff, s) = e BY <2>1, ApplyClear
  <2> QED BY <1>8, <2>2, <2>3, <2>4, Zenon DEF n, m
<1> QED BY <1>1, <1>2, <1>3, <1>4, <1>5, <1>6, <1>7, <1>8, FitsIs

-----------------------------------------------------------------------------
(* chain.                                                                  *)

LEMMA MoveLen ==
    ASSUME NEW V, NEW s \in Seq(V), NEW i \in 0..(Len(s) - 1),
           NEW j \in 0..(Len(s) - 1)
    PROVE  VecMove(s, i, j) \in Seq(V) /\ Len(VecMove(s, i, j)) = Len(s)
<1>1. Len(s) \in Nat BY LenProperties
<1> DEFINE r == VecRemove(s, i)
<1>2. r \in Seq(V) /\ Len(r) = Len(s) - 1 BY Removed
<1>3. r \in Seq(V) /\ j \in 0..Len(r) BY <1>1, <1>2
<1>4. PICK v \in V : v = s[i + 1] BY <1>1, ElementOfSeq
<1> HIDE DEF r
<1>5. VecInsert(r, j, v) \in Seq(V) /\ Len(VecInsert(r, j, v)) = Len(r) + 1
  BY <1>3, Inserted
<1>6. Len(VecInsert(r, j, v)) = Len(s) BY <1>1, <1>2, <1>5
<1> QED BY <1>4, <1>5, <1>6, Zenon DEF VecMove, r

\* Diffs that give all values are those with these two names.
LEMMA WholeIs ==
    ASSUME NEW V, NEW s \in Seq(V), NEW d \in DiffsOver(V), Applicable(d, s)
    PROVE  /\ IsWhole(d) => /\ Apply(d, s) = NewValues(d)
                            /\ \A t : Applicable(d, t) /\ Apply(d, t) = NewValues(d)
                            /\ NewValues(d) \in Seq(V)
                            /\ \A by : Shift(d, by) = d
                            /\ d.op = "Replace" => d.values = NewValues(d)
                            /\ d.op = "Clear" => NewValues(d) = <<>>
           /\ LenAfter(d, Len(s)) = Len(Apply(d, s))
           /\ Apply(d, s) \in Seq(V)
<1>0. Len(s) \in Nat BY LenProperties
<1>1. CASE \E vs \in Seq(V) : d = ReplaceDiff(vs)
  <2>1. PICK vs \in Seq(V) : d = ReplaceDiff(vs) BY <1>1
  <2>2. d.op = "Replace" /\ d.values = vs BY <2>1 DEF ReplaceDiff
  <2>3. NewValues(d) = vs BY <2>2 DEF NewValues
  <2>4. \A t : Applicable(d, t) /\ Apply(d, t) = vs BY <2>1, ApplyReplace
  <2>5. \A by : Shift(d, by) = d BY <2>1, ShiftReplace
  <2>6. LenAfter(d, Len(s)) = Len(vs) BY <2>2, Zenon DEF LenAfter
  <2> QED BY <2>2, <2>3, <2>4, <2>5, <2>6
<1>2. CASE \E i \in 0..Len(s), v \in V : d = InsertDiff(i, v)
  <2>1. PICK i \in 0..Len(s), v \in V : d = InsertDiff(i, v) BY <1>2
  <2>2. d.op = "InsertAt" BY <2>1 DEF InsertDiff
  <2>3. ~IsWhole(d) BY <2>2 DEF IsWhole
  <2>4. LenAfter(d, Len(s)) = Len(s) + 1 BY <2>2, Zenon DEF LenAfter
  <2>5. VecInsert(s, i, v) \in Seq(V) /\ Len(VecInsert(s, i, v)) = Len(s) + 1
    BY Inserted
  <2> QED BY <2>1, <2>3, <2>4, <2>5, ApplyInsert
<1>3. CASE \E v \in V : d = PushDiff(v)
  <2>1. PICK v \in V : d = PushDiff(v) BY <1>3
  <2>2. d.op = "Push" BY <2>1 DEF PushDiff
  <2>3. ~IsWhole(d) BY <2>2 DEF IsWhole
  <2>4. LenAfter(d, Len(s)) = Len(s) + 1 BY <2>2, Zenon DEF LenAfter
  <2>5. Append(s, v) \in Seq(V) /\ Len(Append(s, v)) = Len(s) + 1 BY Pushed
  <2> QED BY <2>1, <2>3, <2>4, <2>5, ApplyPush
<1>4. CASE \E i \in 0..(Len(s) - 1), v \in V : d = UpdateDiff(i, v)
  <2>1. PICK i \in 0..(Len(s) - 1), v \in V : d = UpdateDiff(i, v) BY <1>4
  <2>2. d.op = "UpdateAt" BY <2>1 DEF UpdateDiff
  <2>3. ~IsWhole(d) BY <2>2 DEF IsWhole
  <2>4. LenAfter(d, Len(s)) = Len(s) BY <2>2, Zenon DEF LenAfter
  <2>5. VecUpdate(s, i, v) \in Seq(V) /\ Len(VecUpdate(s, i, v)) = Len(s)
    BY UpdatedIs
  <2>6. Apply(d, s) = VecUpdate(s, i, v) BY <2>1, ApplyUpdate DEF VecUpdate
  <2> QED BY <2>3, <2>4, <2>5, <2>6
<1>5. CASE \E i \in 0..(Len(s) - 1) : d = RemoveDiff(i)
  <2>1. PICK i \in 0..(Len(s) - 1) : d = RemoveDiff(i) BY <1>5
  <2>2. d.op = "RemoveAt" BY <2>1 DEF RemoveDiff
  <2>3. ~IsWhole(d) BY <2>2 DEF IsWhole
  <2>4. LenAfter(d, Len(s)) = Len(s) - 1 BY <2>2, Zenon DEF LenAfter
  <2>5. VecRemove(s, i) \in Seq(V) /\ Len(VecRemove(s, i)) = Len(s) - 1
    BY Removed
  <2> QED BY <2>1, <2>3, <2>4, <2>5, ApplyRemove
<1>6. CASE \E i, j \in 0..(Len(s) - 1) : d = MoveDiff(i, j)
  <2>1. PICK i \in 0..(Len(s) - 1), j \in 0..(Len(s) - 1) : d = MoveDiff(i, j)
    BY <1>6
  <2>2. d.op = "Move" BY <2>1 DEF MoveDiff
  <2>3. ~IsWhole(d) BY <2>2 DEF IsWhole
  <2>4. LenAfter(d, Len(s)) = Len(s) BY <2>2, Zenon DEF LenAfter
  <2>5. VecMove(s, i, j) \in Seq(V) /\ Len(VecMove(s, i, j)) = Len(s)
    BY MoveLen
  <2> QED BY <2>1, <2>3, <2>4, <2>5, ApplyMove
<1>7. CASE s # <<>> /\ d = PopDiff
  <2>2. d.op = "Pop" BY <1>7 DEF PopDiff
  <2>3. ~IsWhole(d) BY <2>2 DEF IsWhole
  <2>4. LenAfter(d, Len(s)) = Len(s) - 1 BY <2>2, Zenon DEF LenAfter
  <2>5. VecPop(s) \in Seq(V) /\ Len(VecPop(s)) = Len(s) - 1 BY <1>7, Popped
  <2> QED BY <1>7, <2>3, <2>4, <2>5, ApplyPop
<1>8. CASE d = ClearDiff
  <2>0. <<>> \in Seq(V) /\ Len(<<>>) = 0 OBVIOUS
  <2>1. PICK e \in Seq(V) : e = <<>> /\ Len(e) = 0 BY <2>0
  <2>2. d.op = "Clear" BY <1>8 DEF ClearDiff
  <2>3. NewValues(d) = e BY <2>1, <2>2 DEF NewValues
  <2>4. \A t : Applicable(d, t) /\ Apply(d, t) = e BY <1>8, <2>1, ApplyClear
  <2>5. \A by : Shift(d, by) = d BY <1>8, ShiftOther
  <2>6. LenAfter(d, Len(s)) = 0 BY <2>2, Zenon DEF LenAfter
  <2> QED BY <2>1, <2>2, <2>3, <2>4, <2>5, <2>6
<1> QED BY <1>1, <1>2, <1>3, <1>4, <1>5, <1>6, <1>7, <1>8, FitsIs

\* A diff of right that is sent after the values of left.
LEMMA ShiftReaches ==
    ASSUME NEW V, NEW a \in Seq(V), NEW s \in Seq(V),
           NEW d \in DiffsOver(V), Applicable(d, s), IsWhole(d) => a = <<>>
    PROVE  \A q : q = <<Shift(d, Len(a))>> =>
              Reaches(V, q, a \o s, a \o Apply(d, s))
<1>0. <<>> \in Seq(V) OBVIOUS
<1>9. PICK e \in Seq(V) : e = <<>> BY <1>0
<1>10. a \o s \in Seq(V) BY ConcatProperties
<1>11. Mid(a, s, e) = a \o s BY <1>9, MidLast
<1>12. PICK n : n = Len(a) OBVIOUS
<1>13. PICK t \in Seq(V) : t = Apply(d, s) BY WholeIs
<1>14. Mid(a, t, e) = a \o t /\ a \o t \in Seq(V) BY <1>9, MidLast, ConcatProperties
<1> SUFFICES ASSUME NEW q, q = <<Shift(d, n)>>
             PROVE  Reaches(V, q, Mid(a, s, e), Mid(a, t, e))
  BY <1>11, <1>12, <1>13, <1>14, Zenon
<1>1. CASE IsWhole(d)
  <2>1. /\ NewValues(d) = t /\ \A x : Applicable(d, x) /\ Apply(d, x) = NewValues(d)
        /\ Shift(d, n) = d
    BY <1>1, <1>13, WholeIs
  <2>2. PICK x \in Seq(V) : x = a \o s BY <1>10
  <2>3. a \o t = t BY <1>1, ConcatEmptySeq
  <2>4. Applicable(d, x) /\ Apply(d, x) = t BY <2>1
  <2>5. \A p : p = <<d>> => Reaches(V, p, x, t) BY <2>4, ReachesOne
  <2>6. q = <<d>> BY <2>1, Zenon
  <2> QED BY <1>11, <1>14, <2>2, <2>3, <2>5, <2>6, Zenon
<1>2. CASE \E i \in 0..Len(s), v \in V : d = InsertDiff(i, v)
  <2>1. PICK i \in 0..Len(s), v \in V : d = InsertDiff(i, v) BY <1>2
  <2>2. \A p : p = <<InsertDiff(i + Len(a), v)>> =>
           Reaches(V, p, Mid(a, s, e), Mid(a, VecInsert(s, i, v), e))
    BY InsertReaches
  <2>3. Shift(InsertDiff(i, v), n) = InsertDiff(i + n, v) BY ShiftInsert
  <2>4. Apply(InsertDiff(i, v), s) = VecInsert(s, i, v) BY ApplyInsert
  <2> QED BY <1>12, <1>13, <2>1, <2>2, <2>3, <2>4, Zenon
<1>3. CASE \E v \in V : d = PushDiff(v)
  <2>1. PICK v \in V : d = PushDiff(v) BY <1>3
  <2>2. Shift(d, n) = d BY <2>1, ShiftOther
  <2>3. Apply(d, s) = With(s, v) BY <2>1, ApplyPush DEF With
  <2>4. With(After(a, s), v) = After(a, With(s, v)) BY LastPushed
  <2>5. PICK x \in Seq(V) : x = a \o s BY <1>10
  <2>6. PICK y \in Seq(V) : y = a \o t BY <1>14
  <2>7. With(x, v) = y BY <1>13, <2>3, <2>4, <2>5, <2>6 DEF After
  <2>8. Applicable(d, x) /\ Apply(d, x) = y BY <2>1, <2>7, ApplyPush DEF With
  <2>9. \A p : p = <<d>> => Reaches(V, p, x, y) BY <2>8, ReachesOne
  <2> QED BY <1>11, <1>14, <2>2, <2>5, <2>6, <2>9, Zenon
<1>4. CASE \E i \in 0..(Len(s) - 1), v \in V : d = UpdateDiff(i, v)
  <2>1. PICK i \in 0..(Len(s) - 1), v \in V : d = UpdateDiff(i, v) BY <1>4
  <2>2. \A p : p = <<UpdateDiff(i + Len(a), v)>> =>
           Reaches(V, p, Mid(a, s, e), Mid(a, ReplaceAt(s, i + 1, v), e))
    BY UpdateReaches
  <2>3. Shift(UpdateDiff(i, v), n) = UpdateDiff(i + n, v) BY ShiftUpdate
  <2>4. Apply(UpdateDiff(i, v), s) = ReplaceAt(s, i + 1, v) BY ApplyUpdate
  <2> QED BY <1>12, <1>13, <2>1, <2>2, <2>3, <2>4, Zenon
<1>5. CASE \E i \in 0..(Len(s) - 1) : d = RemoveDiff(i)
  <2>1. PICK i \in 0..(Len(s) - 1) : d = RemoveDiff(i) BY <1>5
  <2>2. \A p : p = <<RemoveDiff(i + Len(a))>> =>
           Reaches(V, p, Mid(a, s, e), Mid(a, VecRemove(s, i), e))
    BY RemoveReaches
  <2>3. Shift(RemoveDiff(i), n) = RemoveDiff(i + n) BY ShiftRemove
  <2>4. Apply(RemoveDiff(i), s) = VecRemove(s, i) BY ApplyRemove
  <2> QED BY <1>12, <1>13, <2>1, <2>2, <2>3, <2>4, Zenon
<1>6. CASE \E i, j \in 0..(Len(s) - 1) : d = MoveDiff(i, j)
  <2>1. PICK i \in 0..(Len(s) - 1), j \in 0..(Len(s) - 1) : d = MoveDiff(i, j)
    BY <1>6
  <2>2. \A p : p = <<MoveDiff(i + Len(a), j + Len(a))>> =>
           Reaches(V, p, Mid(a, s, e), Mid(a, VecMove(s, i, j), e))
    BY MoveReaches
  <2>3. Shift(MoveDiff(i, j), n) = MoveDiff(i + n, j + n) BY ShiftMove
  <2>4. Apply(MoveDiff(i, j), s) = VecMove(s, i, j) BY ApplyMove
  <2> QED BY <1>12, <1>13, <2>1, <2>2, <2>3, <2>4, Zenon
<1>7. CASE s # <<>> /\ d = PopDiff
  <2>2. Shift(d, n) = d BY <1>7, ShiftOther
  <2>3. Apply(d, s) = VecPop(s) BY <1>7, ApplyPop
  <2>4. a \o s # <<>> /\ VecPop(a \o s) = a \o VecPop(s) BY <1>7, LastPopped
  <2>5. PICK x \in Seq(V) : x = a \o s BY <1>10
  <2>6. PICK y \in Seq(V) : y = a \o t BY <1>14
  <2>7. VecPop(x) = y /\ x # <<>> BY <1>13, <2>3, <2>4, <2>5, <2>6
  <2>8. Applicable(d, x) /\ Apply(d, x) = y BY <1>7, <2>7, ApplyPop
  <2>9. \A p : p = <<d>> => Reaches(V, p, x, y) BY <2>8, ReachesOne
  <2> QED BY <1>11, <1>14, <2>2, <2>5, <2>6, <2>9, Zenon
<1>8. CASE d = ClearDiff \/ \E vs \in Seq(V) : d = ReplaceDiff(vs)
  <2>1. IsWhole(d) BY <1>8 DEF IsWhole, ClearDiff, ReplaceDiff
  <2> QED BY <1>1, <2>1
<1> QED BY <1>2, <1>3, <1>4, <1>5, <1>6, <1>7, <1>8, FitsIs

LEMMA LeftReaches ==
    ASSUME NEW V, NEW s \in Seq(V), NEW b \in Seq(V),
           NEW d \in DiffsOver(V), Applicable(d, s), ~IsWhole(d)
    PROVE  \A q : q = <<LeftDiff(d, Len(s), Len(b))>> =>
              Reaches(V, q, s \o b, Apply(d, s) \o b)
<1>0. <<>> \in Seq(V) /\ Len(<<>>) = 0 OBVIOUS
<1>9. PICK e \in Seq(V) : e = <<>> /\ Len(e) = 0 BY <1>0
<1>10. Len(s) \in Nat /\ Len(b) \in Nat BY LenProperties
<1>11. Mid(e, s, b) = s \o b BY <1>9, MidFirst
<1>13. PICK t \in Seq(V) : t = Apply(d, s) BY WholeIs
<1>14. Mid(e, t, b) = t \o b BY <1>9, MidFirst
<1>15. PICK m : m = Len(s) OBVIOUS
<1>16. PICK k : k = Len(b) OBVIOUS
<1> SUFFICES ASSUME NEW q, q = <<LeftDiff(d, m, k)>>
             PROVE  Reaches(V, q, Mid(e, s, b), Mid(e, t, b))
  BY <1>11, <1>13, <1>14, <1>15, <1>16, Zenon
<1>17. d.op # "Push" /\ d.op # "Pop" => LeftDiff(d, m, k) = d BY Zenon DEF LeftDiff
<1>18. k = 0 => LeftDiff(d, m, k) = d BY Zenon DEF LeftDiff
<1>2. CASE \E i \in 0..Len(s), v \in V : d = InsertDiff(i, v)
  <2>1. PICK i \in 0..Len(s), v \in V : d = InsertDiff(i, v) BY <1>2
  <2>2. \A p : p = <<InsertDiff(i + Len(e), v)>> =>
           Reaches(V, p, Mid(e, s, b), Mid(e, VecInsert(s, i, v), b))
    BY InsertReaches
  <2>3. d.op # "Push" /\ d.op # "Pop" BY <2>1 DEF InsertDiff
  <2>4. i + Len(e) = i BY <1>9
  <2>5. Apply(InsertDiff(i, v), s) = VecInsert(s, i, v) BY ApplyInsert
  <2> QED BY <1>13, <1>17, <2>1, <2>2, <2>3, <2>4, <2>5, Zenon
<1>3. CASE \E v \in V : d = PushDiff(v)
  <2>1. PICK v \in V : d = PushDiff(v) BY <1>3
  <2>2. \A p : p = <<InsertDiff(Len(e) + Len(s), v)>> =>
           Reaches(V, p, Mid(e, s, b), Mid(e, With(s, v), b))
    BY PushReaches
  <2>3. d.op = "Push" /\ d.value = v BY <2>1 DEF PushDiff
  <2>4. Apply(d, s) = With(s, v) BY <2>1, ApplyPush DEF With
  <2>5. CASE k # 0
    <3>1. LeftDiff(d, m, k) = InsertDiff(m, v) BY <2>3, <2>5, Zenon DEF LeftDiff
    <3>2. Len(e) + Len(s) = m BY <1>9, <1>10, <1>15
    <3> QED BY <1>13, <2>2, <2>4, <3>1, <3>2, Zenon
  <2>6. CASE k = 0
    <3>1. b = <<>> BY <1>16, <2>6, EmptySeq
    <3>2. s \o b = s /\ t \o b = t BY <3>1, ConcatEmptySeq
    <3>3. Applicable(d, s) /\ Apply(d, s) = t BY <1>13
    <3>4. \A p : p = <<d>> => Reaches(V, p, s, t) BY <3>3, ReachesOne
    <3> QED BY <1>11, <1>14, <1>18, <2>6, <3>2, <3>4, Zenon
  <2> QED BY <2>5, <2>6
<1>4. CASE \E i \in 0..(Len(s) - 1), v \in V : d = UpdateDiff(i, v)
  <2>1. PICK i \in 0..(Len(s) - 1), v \in V : d = UpdateDiff(i, v) BY <1>4
  <2>2. \A p : p = <<UpdateDiff(i + Len(e), v)>> =>
           Reaches(V, p, Mid(e, s, b), Mid(e, ReplaceAt(s, i + 1, v), b))
    BY UpdateReaches
  <2>3. d.op # "Push" /\ d.op # "Pop" BY <2>1 DEF UpdateDiff
  <2>4. i + Len(e) = i BY <1>9
  <2>5. Apply(UpdateDiff(i, v), s) = ReplaceAt(s, i + 1, v) BY ApplyUpdate
  <2> QED BY <1>13, <1>17, <2>1, <2>2, <2>3, <2>4, <2>5, Zenon
<1>5. CASE \E i \in 0..(Len(s) - 1) : d = RemoveDiff(i)
  <2>1. PICK i \in 0..(Len(s) - 1) : d = RemoveDiff(i) BY <1>5
  <2>2. \A p : p = <<RemoveDiff(i + Len(e))>> =>
           Reaches(V, p, Mid(e, s, b), Mid(e, VecRemove(s, i), b))
    BY RemoveReaches
  <2>3. d.op # "Push" /\ d.op # "Pop" BY <2>1 DEF RemoveDiff
  <2>4. i + Len(e) = i BY <1>9
  <2>5. Apply(RemoveDiff(i), s) = VecRemove(s, i) BY ApplyRemove
  <2> QED BY <1>13, <1>17, <2>1, <2>2, <2>3, <2>4, <2>5, Zenon
<1>6. CASE \E i, j \in 0..(Len(s) - 1) : d = MoveDiff(i, j)
  <2>1. PICK i \in 0..(Len(s) - 1), j \in 0..(Len(s) - 1) : d = MoveDiff(i, j)
    BY <1>6
  <2>2. \A p : p = <<MoveDiff(i + Len(e), j + Len(e))>> =>
           Reaches(V, p, Mid(e, s, b), Mid(e, VecMove(s, i, j), b))
    BY MoveReaches
  <2>3. d.op # "Push" /\ d.op # "Pop" BY <2>1 DEF MoveDiff
  <2>4. i + Len(e) = i /\ j + Len(e) = j BY <1>9
  <2>5. Apply(MoveDiff(i, j), s) = VecMove(s, i, j) BY ApplyMove
  <2> QED BY <1>13, <1>17, <2>1, <2>2, <2>3, <2>4, <2>5, Zenon
<1>7. CASE s # <<>> /\ d = PopDiff
  <2>2. \A p : p = <<RemoveDiff(Len(e) + Len(s) - 1)>> =>
           Reaches(V, p, Mid(e, s, b), Mid(e, VecPop(s), b))
    BY <1>7, PopReaches
  <2>3. d.op = "Pop" /\ d.op # "Push" BY <1>7 DEF PopDiff
  <2>4. Apply(d, s) = VecPop(s) BY <1>7, ApplyPop
  <2>5. CASE k # 0
    <3>1. LeftDiff(d, m, k) = RemoveDiff(m - 1) BY <2>3, <2>5, Zenon DEF LeftDiff
    <3>2. Len(e) + Len(s) - 1 = m - 1 BY <1>9, <1>10, <1>15
    <3> QED BY <1>13, <2>2, <2>4, <3>1, <3>2, Zenon
  <2>6. CASE k = 0
    <3>1. b = <<>> BY <1>16, <2>6, EmptySeq
    <3>2. s \o b = s /\ t \o b = t BY <3>1, ConcatEmptySeq
    <3>3. Applicable(d, s) /\ Apply(d, s) = t BY <1>13
    <3>4. \A p : p = <<d>> => Reaches(V, p, s, t) BY <3>3, ReachesOne
    <3> QED BY <1>11, <1>14, <1>18, <2>6, <3>2, <3>4, Zenon
  <2> QED BY <2>5, <2>6
<1>8. ~(d = ClearDiff \/ \E vs \in Seq(V) : d = ReplaceDiff(vs))
  BY DEF IsWhole, ClearDiff, ReplaceDiff
<1> QED BY <1>2, <1>3, <1>4, <1>5, <1>6, <1>7, <1>8, FitsIs

-----------------------------------------------------------------------------
(* The diffs that an input has sent, none of them a Replace or a Clear of  *)
(* nothing by nothing.                                                     *)

LEMMA OwedNothing ==
    ASSUME NEW V, NEW s \in Seq(V), NEW to
    PROVE  Owed(V, <<>>, s, to) <=> s = to
<1> DEFINE c == [i \in 1..1 |-> s]
<1>1. Len(<<>>) = 0 /\ Len(<<>>) + 1 = 1 OBVIOUS
<1>2. c \in [1..(Len(<<>>) + 1) -> Seq(V)] BY <1>1
<1>3. c[1] = s /\ c[Len(<<>>) + 1] = s BY <1>1
<1>4. 1..Len(<<>>) = {} BY <1>1
<1>5. <<>> \in Seq(DiffsOver(V)) OBVIOUS
<1> HIDE DEF c
<1>6. Owed(V, <<>>, s, s) BY <1>2, <1>3, <1>4, <1>5 DEF Owed
<1>7. Owed(V, <<>>, s, to) => s = to BY <1>1, Zenon DEF Owed
<1> QED BY <1>6, <1>7

LEMMA OwedNext ==
    ASSUME NEW V, NEW q, NEW from, NEW to, Owed(V, q, from, to), q # <<>>
    PROVE  /\ Head(q) \in DiffsOver(V)
           /\ Applicable(Head(q), from) /\ Apply(Head(q), from) \in Seq(V)
           /\ ~Void(Head(q), from)
           /\ Owed(V, Tail(q), Apply(Head(q), from), to)
<1> DEFINE D == DiffsOver(V)
           S == Seq(V)
<1>1. PICK c \in [1..(Len(q) + 1) -> S] :
        /\ c[1] = from
        /\ c[Len(q) + 1] = to
        /\ \A i \in 1..Len(q) :
              /\ Applicable(q[i], c[i]) /\ c[i + 1] = Apply(q[i], c[i])
              /\ ~Void(q[i], c[i])
  BY DEF Owed
<1>2. q \in Seq(D) BY DEF Owed
<1> HIDE DEF D, S
<1> DEFINE p == Tail(q)
           e == [i \in 1..Len(q) |-> c[i + 1]]
<1>3. /\ Len(q) \in Nat \ {0} /\ p \in Seq(D) /\ Len(p) = Len(q) - 1
      /\ \A i \in 1..Len(p) : p[i] = q[i + 1]
      /\ Head(q) = q[1] /\ q[1] \in D
  BY <1>2, HeadTailProperties, LenProperties, EmptySeq, ElementOfSeq
<1>4. /\ Applicable(q[1], from) /\ c[2] = Apply(q[1], from) /\ c[2] \in S
      /\ ~Void(q[1], from)
  BY <1>1, <1>3
<1>5. e \in [1..(Len(p) + 1) -> S] BY <1>1, <1>3
<1>6. e[1] = c[2] /\ e[Len(p) + 1] = to BY <1>1, <1>3
<1>7. ASSUME NEW i \in 1..Len(p)
      PROVE  /\ Applicable(p[i], e[i]) /\ e[i + 1] = Apply(p[i], e[i])
             /\ ~Void(p[i], e[i])
  <2>1. i + 1 \in 1..Len(q) BY <1>3
  <2>2. p[i] = q[i + 1] /\ e[i] = c[i + 1] /\ e[i + 1] = c[i + 1 + 1]
    BY <1>3, <2>1
  <2> QED BY <1>1, <2>1, <2>2
<1> HIDE DEF p, e
<1>8. Owed(V, p, c[2], to) BY <1>3, <1>5, <1>6, <1>7 DEF Owed, D, S
<1> QED BY <1>3, <1>4, <1>8 DEF p, S, D

\* The input sends one more.
LEMMA OwedMore ==
    ASSUME NEW V, NEW q, NEW from, NEW to \in Seq(V), Owed(V, q, from, to),
           NEW d \in DiffsOver(V), Applicable(d, to), ~Void(d, to)
    PROVE  Owed(V, Append(q, d), from, Apply(d, to))
<1> DEFINE D == DiffsOver(V)
           S == Seq(V)
<1>1. PICK c \in [1..(Len(q) + 1) -> S] :
        /\ c[1] = from
        /\ c[Len(q) + 1] = to
        /\ \A i \in 1..Len(q) :
              /\ Applicable(q[i], c[i]) /\ c[i + 1] = Apply(q[i], c[i])
              /\ ~Void(q[i], c[i])
  BY DEF Owed
<1>2. q \in Seq(D) /\ d \in D BY DEF Owed
<1>0. Apply(d, to) \in S BY WholeIs
<1> HIDE DEF D, S
<1> DEFINE p == Append(q, d)
           n == Len(q)
           e == [i \in 1..(n + 2) |-> IF i = n + 2 THEN Apply(d, to) ELSE c[i]]
<1>3. /\ n \in Nat /\ p \in Seq(D) /\ Len(p) = n + 1
      /\ \A i \in 1..n : p[i] = q[i]
      /\ p[n + 1] = d
  BY <1>2, AppendProperties, LenProperties
<1>4. e \in [1..(Len(p) + 1) -> S] BY <1>0, <1>1, <1>3
<1>5. e[1] = from /\ e[Len(p) + 1] = Apply(d, to) BY <1>1, <1>3
<1>6. \A i \in 1..(n + 1) : e[i] = c[i] BY <1>3
<1>7. e[n + 2] = Apply(d, to) BY <1>3
<1> HIDE DEF p, e
<1>8. ASSUME NEW i \in 1..Len(p)
      PROVE  /\ Applicable(p[i], e[i]) /\ e[i + 1] = Apply(p[i], e[i])
             /\ ~Void(p[i], e[i])
  <2>1. CASE i = n + 1
    <3>1. e[i] = to /\ p[i] = d BY <1>1, <1>3, <1>6, <2>1
    <3>2. i + 1 = n + 2 BY <1>3, <2>1
    <3> QED BY <1>7, <3>1, <3>2
  <2>2. CASE i \in 1..n
    <3>1. i \in 1..(n + 1) /\ i + 1 \in 1..(n + 1) BY <1>3, <2>2
    <3>2. e[i] = c[i] /\ e[i + 1] = c[i + 1] BY <1>6, <3>1
    <3>3. p[i] = q[i] BY <1>3, <2>2
    <3> QED BY <1>1, <2>2, <3>2, <3>3
  <2> QED BY <1>3, <2>1, <2>2
<1>9. Owed(V, p, from, Apply(d, to)) BY <1>3, <1>4, <1>5, <1>8 DEF Owed, D, S
<1> QED BY <1>9 DEF p

-----------------------------------------------------------------------------
(* An input that is polled.                                                *)

LEMMA TakenIs ==
    ASSUME NEW V, NEW src, NEW s, Behind(V, src, s), src.queue # <<>>
    PROVE  \E d \in DiffsOver(V) :
              /\ Answer(src) = SomeDiff(d)
              /\ Applicable(d, s) /\ Apply(d, s) \in Seq(V) /\ ~Void(d, s)
              /\ Behind(V, AfterPoll(src), Apply(d, s))
              /\ SameVec(AfterPoll(src), src)
<1> DEFINE d == Head(src.queue)
           a == AfterPoll(src)
<1>1. src \in SourceOf(V) /\ s \in Seq(V) /\ Owed(V, src.queue, s, src.contents)
  BY DEF Behind
<1>2. /\ d \in DiffsOver(V) /\ Applicable(d, s) /\ Apply(d, s) \in Seq(V)
      /\ ~Void(d, s)
      /\ Owed(V, Tail(src.queue), Apply(d, s), src.contents)
  BY <1>1, OwedNext
<1>3. Answer(src) = SomeDiff(d) BY Zenon DEF Answer
<1>4. a = [src EXCEPT !.queue = Tail(@)] BY DEF AfterPoll
<1>5. src.queue \in Seq(DiffsOver(V)) BY <1>1 DEF SourceOf
<1>6. Tail(src.queue) \in Seq(DiffsOver(V)) BY <1>5, HeadTailProperties
<1>7. /\ a \in SourceOf(V) /\ a.queue = Tail(src.queue)
      /\ a.contents = src.contents /\ a.closed = src.closed
  BY <1>1, <1>4, <1>6 DEF SourceOf
<1> HIDE DEF a, d
<1>8. Behind(V, a, Apply(d, s)) BY <1>2, <1>7 DEF Behind, d
<1>9. SameVec(a, src) BY <1>7 DEF SameVec
<1> QED BY <1>2, <1>3, <1>8, <1>9 DEF a

LEMMA NotTakenIs ==
    ASSUME NEW V, NEW src, NEW s, Behind(V, src, s), src.queue = <<>>
    PROVE  /\ Answer(src).poll # "Some"
           /\ s = src.contents
           /\ Behind(V, AfterPoll(src), s)
           /\ AfterPoll(src).queue = <<>>
           /\ SameVec(AfterPoll(src), src)
           /\ Asked(AfterPoll(src))
<1> DEFINE a == AfterPoll(src)
<1>1. src \in SourceOf(V) /\ s \in Seq(V) /\ Owed(V, src.queue, s, src.contents)
  BY DEF Behind
<1>2. s = src.contents BY <1>1, OwedNothing
<1>3. Answer(src) \in {None, Pending} BY Zenon DEF Answer
<1>4. Answer(src).poll # "Some" BY <1>3 DEF None, Pending
<1>5. a = [src EXCEPT !.held = ~src.closed, !.waker = ~src.closed]
  BY DEF AfterPoll
<1>6. PICK x \in BOOLEAN : x = ~src.closed OBVIOUS
<1>7. a = [src EXCEPT !.held = x, !.waker = x] BY <1>5, <1>6
<1>8. /\ a \in SourceOf(V) /\ a.queue = src.queue
      /\ a.contents = src.contents /\ a.closed = src.closed
      /\ a.held = x /\ a.waker = x
  BY <1>1, <1>7 DEF SourceOf
<1> HIDE DEF a
<1>9. Behind(V, a, s) BY <1>1, <1>8 DEF Behind
<1>10. SameVec(a, src) BY <1>8 DEF SameVec
<1>11. Asked(a) BY <1>6, <1>8, Zenon DEF Asked
<1> QED BY <1>2, <1>4, <1>8, <1>9, <1>10, <1>11 DEF a

-----------------------------------------------------------------------------
(* chain with these inputs.                                                *)

LEMMA ChainedIs ==
    ASSUME NEW t, NEW q, NEW m, NEW n, NEW p, NEW z, z = Chained(t, q, m, n, p)
    PROVE  /\ z.top = t /\ z.right = q /\ z.left_len = m /\ z.right_len = n
           /\ z.pending = p
           /\ \A x : [z EXCEPT !.top = x] = Chained(x, q, m, n, p)
           /\ \A x : [z EXCEPT !.right = x] = Chained(t, x, m, n, p)
           /\ \A x : [z EXCEPT !.left_len = x] = Chained(t, q, x, n, p)
           /\ \A x : [z EXCEPT !.right_len = x] = Chained(t, q, m, x, p)
           /\ \A x : [z EXCEPT !.pending = x] = Chained(t, q, m, n, x)
BY DEF Chained

LEMMA SomeIs ==
    ASSUME NEW d
    PROVE  \A e : e = SomeDiff(d) => e.poll = "Some" /\ e.diff = d
BY DEF SomeDiff

LEMMA RightChangeIs ==
    ASSUME NEW V, NEW t, NEW q, NEW l \in Seq(V), NEW r \in Seq(V), NEW w, NEW p,
           Reaches(V, p, w, l \o r),
           NEW d \in DiffsOver(V), Applicable(d, r)
    PROVE  \E p2, o :
              RightGives(V, RightChange(Chained(t, q, Len(l), Len(r), p), SomeDiff(d)),
                         t, q, l, Apply(d, r), p, w, Void(d, r), p2, o)
<1>1. Len(l) \in Nat /\ Len(r) \in Nat BY LenProperties
<1>2. PICK r2 \in Seq(V) : r2 = Apply(d, r) /\ LenAfter(d, Len(r)) = Len(r2)
  BY WholeIs
<1>3. PICK m : m = Len(l) OBVIOUS
<1>4. PICK n : n = Len(r) OBVIOUS
<1>5. PICK z : z = Chained(t, q, m, n, p) OBVIOUS
<1>6. PICK a : a = SomeDiff(d) OBVIOUS
<1>7. a.poll = "Some" /\ a.diff = d BY <1>6, SomeIs
<1>8. PICK y : y = Chained(t, q, m, Len(r2), p) OBVIOUS
<1>9. [z EXCEPT !.right_len = LenAfter(d, @)] = y
  <2>1. [z EXCEPT !.right_len = LenAfter(d, @)]
           = [z EXCEPT !.right_len = LenAfter(d, z.right_len)]
    OBVIOUS
  <2>2. z.right_len = n BY <1>5, ChainedIs
  <2>3. LenAfter(d, n) = Len(r2) BY <1>2, <1>4
  <2>4. \A x : [z EXCEPT !.right_len = x] = Chained(t, q, m, x, p)
    BY <1>5, ChainedIs
  <2> QED BY <1>8, <2>1, <2>2, <2>3, <2>4
<1>10. z.left_len = m /\ z.right_len = n BY <1>5, ChainedIs
<1>11. CASE IsWhole(d) /\ m # 0
  <2>1. PICK x : x = (p \o Pops(n)) \o Pushes(r2) OBVIOUS
  <2>2. NewValues(d) = r2 BY <1>2, <1>11, WholeIs
  <2>3. [y EXCEPT !.pending = @ \o Pops(n) \o Pushes(NewValues(d))]
           = Chained(t, q, m, Len(r2), x)
    <3>1. [y EXCEPT !.pending = @ \o Pops(n) \o Pushes(NewValues(d))]
             = [y EXCEPT !.pending = (y.pending \o Pops(n)) \o Pushes(NewValues(d))]
      OBVIOUS
    <3>2. y.pending = p BY <1>8, ChainedIs
    <3>3. \A u : [y EXCEPT !.pending = u] = Chained(t, q, m, Len(r2), u)
      BY <1>8, ChainedIs
    <3> QED BY <2>1, <2>2, <3>1, <3>2, <3>3
  <2>4. RightChange(z, a) = Fed(Chained(t, q, m, Len(r2), x), <<>>)
    <3>1. d.op \in {"Replace", "Clear"} BY <1>11 DEF IsWhole
    <3>2. RightChange(z, a)
             = Fed([y EXCEPT !.pending = @ \o Pops(n) \o Pushes(NewValues(d))], <<>>)
      BY <1>7, <1>9, <1>10, <1>11, <3>1, Zenon DEF RightChange
    <3> QED BY <2>3, <3>2
  <2>5. Reaches(V, Pops(n), l \o r, l) BY <1>4, PopsReach
  <2>6. Reaches(V, Pushes(r2), l, l \o r2) BY PushesReach
  <2>7. Reaches(V, p \o Pops(n), w, l) BY <2>5, ReachesThen
  <2>8. Reaches(V, x, w, l \o r2) BY <2>1, <2>6, <2>7, ReachesThen
  <2>9. x \o <<>> = x
    <3>1. x \in Seq(DiffsOver(V)) BY <2>8 DEF Reaches
    <3> QED BY <3>1, ConcatEmptySeq
  <2>10. x # <<>> \/ Void(d, r)
    <3> SUFFICES ASSUME x = <<>> PROVE Void(d, r) OBVIOUS
    <3>2. Pops(n) \in Seq(DiffsOver(V)) /\ Pushes(r2) \in Seq(DiffsOver(V))
          /\ p \in Seq(DiffsOver(V)) /\ p \o Pops(n) \in Seq(DiffsOver(V))
      BY <2>5, <2>6, <2>7 DEF Reaches
    <3>3. Len(x) = Len(p \o Pops(n)) + Len(Pushes(r2))
          /\ Len(p \o Pops(n)) = Len(p) + Len(Pops(n))
      BY <2>1, <3>2, ConcatProperties
    <3>4. Len(x) = 0 OBVIOUS
    <3>5. Len(Pops(n)) \in Nat /\ Len(Pushes(r2)) \in Nat /\ Len(p) \in Nat
      BY <3>2, LenProperties
    <3>6. Len(Pops(n)) = 0 /\ Len(Pushes(r2)) = 0 BY <3>3, <3>4, <3>5
    <3>7. Pops(n) = <<>> /\ Pushes(r2) = <<>> BY <3>2, <3>6, EmptySeq
    <3>8. l \o r = l BY <2>5, <3>7, ReachesNothing
    <3>9. l = l \o r2 BY <2>6, <3>7, ReachesNothing
    <3>10. Len(l) = Len(l) + Len(r) /\ Len(l) = Len(l) + Len(r2)
      BY <3>8, <3>9, ConcatProperties
    <3>11. Len(r) = 0 /\ Len(r2) = 0 BY <1>1, <3>10, LenProperties
    <3>12. r = <<>> /\ r2 = <<>> BY <3>11, EmptySeq
    <3> QED BY <1>11, <2>2, <3>12 DEF Void
  <2>11. Reaches(V, x \o <<>>, w, l \o r2) BY <2>8, <2>9
  <2>12. RightGives(V, RightChange(z, a), t, q, l, r2, p, w, Void(d, r), x, <<>>)
    <3>1. x \in Seq(DiffsOver(V)) BY <2>8 DEF Reaches
    <3> QED BY <1>3, <2>4, <2>10, <2>11, <3>1 DEF RightGives
  <2> QED BY <1>2, <1>3, <1>4, <1>5, <1>6, <2>12
<1>12. CASE ~(IsWhole(d) /\ m # 0)
  <2>1. PICK o : o = <<Shift(d, m)>> OBVIOUS
  <2>2. RightChange(z, a) = Fed(y, o)
    <3>1. ~(d.op \in {"Replace", "Clear"} /\ m # 0) BY <1>12 DEF IsWhole
    <3> QED BY <1>7, <1>9, <1>10, <2>1, <3>1, Zenon DEF RightChange
  <2>3. IsWhole(d) => l = <<>> BY <1>3, <1>12, EmptySeq
  <2>4. Reaches(V, o, l \o r, l \o r2) BY <1>2, <1>3, <2>1, <2>3, ShiftReaches
  <2>5. Reaches(V, p \o o, w, l \o r2) BY <2>4, ReachesThen
  <2>6. \E e : o = <<e>> BY <2>1
  <2>7. RightGives(V, RightChange(z, a), t, q, l, r2, p, w, Void(d, r), p, o)
    <3>1. p \in Seq(DiffsOver(V)) BY DEF Reaches
    <3> QED BY <1>3, <1>8, <2>2, <2>5, <2>6, <3>1 DEF RightGives
  <2> QED BY <1>2, <1>3, <1>4, <1>5, <1>6, <2>7
<1> QED BY <1>11, <1>12

LEMMA RightPolled ==
    ASSUME NEW V, NEW t, NEW q, NEW l \in Seq(V), NEW r, NEW w, NEW p,
           Behind(V, q, r), Reaches(V, p, w, l \o r)
    PROVE  \E r2 \in Seq(V) : \E p2, o :
              RightSent(V, RightChange(Chained(t, AfterPoll(q), Len(l), Len(r), p),
                                       Answer(q)),
                        t, q, l, r, p, w, r2, p2, o)
<1>1. r \in Seq(V) BY DEF Behind
<1> DEFINE a == AfterPoll(q)
           z == Chained(t, a, Len(l), Len(r), p)
<1>2. CASE q.queue # <<>>
  <2>1. PICK d \in DiffsOver(V) :
          /\ Answer(q) = SomeDiff(d)
          /\ Applicable(d, r) /\ Apply(d, r) \in Seq(V) /\ ~Void(d, r)
          /\ Behind(V, a, Apply(d, r))
          /\ SameVec(a, q)
    BY <1>2, TakenIs
  <2> HIDE DEF a
  <2>2. PICK p2, o :
          RightGives(V, RightChange(z, SomeDiff(d)), t, a, l, Apply(d, r), p, w,
                     Void(d, r), p2, o)
    BY <1>1, <2>1, RightChangeIs
  <2>3. RightSent(V, RightChange(z, Answer(q)), t, q, l, r, p, w, Apply(d, r), p2, o)
    BY <1>2, <2>1, <2>2, Zenon DEF RightSent, RightGives, a
  <2> QED BY <2>1, <2>3 DEF a
<1>3. CASE q.queue = <<>>
  <2>1. /\ Answer(q).poll # "Some" /\ Behind(V, a, r) /\ SameVec(a, q)
    BY <1>3, NotTakenIs
  <2>2. RightChange(z, Answer(q)) = Fed(z, <<>>) BY <2>1 DEF RightChange
  <2>3. p \o <<>> = p
    <3>1. p \in Seq(DiffsOver(V)) BY DEF Reaches
    <3> QED BY <3>1, ConcatEmptySeq
  <2>4. Reaches(V, p \o <<>>, w, l \o r) /\ p \in Seq(DiffsOver(V))
    BY <2>3 DEF Reaches
  <2> HIDE DEF a
  <2>5. RightSent(V, RightChange(z, Answer(q)), t, q, l, r, p, w, r, p, <<>>)
    BY <1>3, <2>1, <2>2, <2>4, Zenon DEF RightSent, a
  <2> QED BY <1>1, <2>5 DEF a
<1> QED BY <1>2, <1>3

LEMMA TwoEmpty ==
    ASSUME NEW D, NEW p \in Seq(D), NEW q \in Seq(D)
    PROVE  p \o q = <<>> => p = <<>> /\ q = <<>>
<1> SUFFICES ASSUME p \o q = <<>> PROVE p = <<>> /\ q = <<>> OBVIOUS
<1>1. Len(p \o q) = Len(p) + Len(q) /\ Len(p \o q) = 0 BY ConcatProperties
<1>2. Len(p) = 0 /\ Len(q) = 0 BY <1>1, LenProperties
<1> QED BY <1>2, EmptySeq

\* left replaces or clears, and right sends whatever it does.
LEMMA ProcessWholeIs ==
    ASSUME NEW V, NEW t, NEW q, NEW l \in Seq(V), NEW r,
           Behind(V, q, r),
           NEW d \in DiffsOver(V), Applicable(d, l), IsWhole(d), ~Void(d, l),
           NEW x, Behind(V, t, Apply(d, l)), SameVec(t, x)
    PROVE  Found(V, ProcessWhole(Chained(t, q, Len(l), Len(r), <<>>), d),
                 l \o r, x, q)
<1>1. r \in Seq(V) BY DEF Behind
<1>2. Len(l) \in Nat /\ Len(r) \in Nat BY <1>1, LenProperties
<1>3. PICK k \in Seq(V) :
        /\ k = NewValues(d) /\ Apply(d, l) = k
        /\ \A s : Applicable(d, s) /\ Apply(d, s) = k
        /\ d.op = "Replace" => d.values = k
        /\ d.op = "Clear" => k = <<>>
  BY WholeIs
<1>4. PICK e0 : e0 = <<>> OBVIOUS
<1>5. PICK m : m = Len(l) OBVIOUS
<1>6. PICK n : n = Len(r) OBVIOUS
<1>7. PICK z : z = Chained(t, q, m, n, e0) OBVIOUS
<1>8. PICK a : a = AfterPoll(q) OBVIOUS
<1>9. PICK y : y = Chained(t, a, Len(k), n, e0) OBVIOUS
<1>10. [z EXCEPT !.right = AfterPoll(@), !.left_len = Len(NewValues(d))] = y
  <2>1. [z EXCEPT !.right = AfterPoll(@), !.left_len = Len(NewValues(d))]
           = [[z EXCEPT !.right = AfterPoll(z.right)] EXCEPT !.left_len = Len(k)]
    BY <1>3
  <2>2. z.right = q BY <1>7, ChainedIs
  <2>3. PICK s : s = Chained(t, a, m, n, e0) OBVIOUS
  <2>4. [z EXCEPT !.right = a] = s BY <1>7, <2>3, ChainedIs
  <2>5. [s EXCEPT !.left_len = Len(k)] = y BY <1>9, <2>3, ChainedIs
  <2> QED BY <1>8, <2>1, <2>2, <2>4, <2>5
<1>11. z.right = q /\ z.right_len = n /\ z.left_len = m BY <1>7, ChainedIs
<1>12. PICK u : u = Removes(0, m) \o Inserts(0, k) OBVIOUS
<1>13. PICK w \in Seq(V) : w = l \o r BY <1>1, ConcatProperties
<1>14. Reaches(V, u, w, k \o r)
  <2>1. <<>> \in Seq(V) /\ Len(<<>>) = 0 OBVIOUS
  <2>2. PICK b \in Seq(V) : b = <<>> /\ Len(b) = 0 BY <2>1
  <2>3. Reaches(V, Removes(Len(b), Len(l)) \o Inserts(Len(b), k),
                Mid(b, l, r), Mid(b, k, r))
    BY <1>1, WholeReaches
  <2>4. Mid(b, l, r) = w /\ Mid(b, k, r) = k \o r BY <1>1, <1>13, <2>2, MidFirst
  <2> QED BY <1>5, <1>12, <2>2, <2>3, <2>4
<1>15. PICK v : v = IF n = 0 THEN e0 ELSE u OBVIOUS
<1>16. PICK g : g = Chained(t, a, Len(k), n, v) OBVIOUS
<1>17. (IF z.right_len = 0 THEN y
        ELSE [y EXCEPT !.pending =
                 @ \o Removes(0, z.left_len) \o Inserts(0, NewValues(d))]) = g
  <2>1. CASE n = 0 BY <1>9, <1>11, <1>15, <1>16, <2>1
  <2>2. CASE n # 0
    <3>1. [y EXCEPT !.pending =
              @ \o Removes(0, z.left_len) \o Inserts(0, NewValues(d))]
            = [y EXCEPT !.pending = (y.pending \o Removes(0, m)) \o Inserts(0, k)]
      BY <1>3, <1>11
    <3>2. y.pending = e0
          /\ \A s : [y EXCEPT !.pending = s] = Chained(t, a, Len(k), n, s)
      BY <1>9, ChainedIs
    <3>3. e0 \o Removes(0, m) = Removes(0, m)
      <4>1. Removes(0, m) \in Seq(DiffsOver(V))
        <5>1. <<>> \in Seq(V) /\ Len(<<>>) = 0 OBVIOUS
        <5>2. PICK b \in Seq(V) : b = <<>> /\ Len(b) = 0 BY <5>1
        <5>3. Reaches(V, Removes(Len(b), Len(l)), Mid(b, l, r), b \o r)
          BY <1>1, RemovesReach
        <5> QED BY <1>5, <5>2, <5>3 DEF Reaches
      <4> QED BY <1>4, <4>1, ConcatEmptySeq
    <3> QED BY <1>11, <1>12, <1>15, <1>16, <2>2, <3>1, <3>2, <3>3
  <2> QED BY <2>1, <2>2
<1>18. n = 0 => r = <<>> /\ w = l /\ k \o r = k
  <2> SUFFICES ASSUME n = 0 PROVE r = <<>> /\ w = l /\ k \o r = k OBVIOUS
  <2>1. r = <<>> BY <1>1, <1>6, EmptySeq
  <2> QED BY <1>13, <2>1, ConcatEmptySeq
<1>19. u # <<>>
  <2> SUFFICES ASSUME u = <<>> PROVE FALSE OBVIOUS
  <2>1. w = k \o r BY <1>14, ReachesNothing
  <2>2. <<>> \in Seq(V) /\ Len(<<>>) = 0 OBVIOUS
  <2>3. PICK b \in Seq(V) : b = <<>> /\ Len(b) = 0 BY <2>2
  <2>4. Reaches(V, Removes(Len(b), Len(l)), Mid(b, l, r), b \o r)
    BY <1>1, RemovesReach
  <2>5. Reaches(V, Inserts(Len(b), k), b \o r, Mid(b, k, r)) BY <1>1, InsertsReach
  <2>6. Removes(0, m) \in Seq(DiffsOver(V)) /\ Inserts(0, k) \in Seq(DiffsOver(V))
    BY <1>5, <2>3, <2>4, <2>5 DEF Reaches
  <2>7. Removes(0, m) = <<>> /\ Inserts(0, k) = <<>> BY <1>12, <2>6, TwoEmpty
  <2>8. Mid(b, l, r) = b \o r /\ b \o r = Mid(b, k, r)
    BY <1>5, <2>3, <2>4, <2>5, <2>7, ReachesNothing
  <2>9. l \o r = r /\ k \o r = r
    BY <1>1, <2>3, <2>8, MidFirst, ConcatEmptySeq
  <2>10. Len(l) + Len(r) = Len(r) /\ Len(k) + Len(r) = Len(r)
    BY <1>1, <2>9, ConcatProperties
  <2>11. Len(l) = 0 /\ Len(k) = 0 BY <1>2, <2>10, LenProperties
  <2>12. l = <<>> /\ k = <<>> BY <2>11, EmptySeq
  <2> QED BY <1>3, <2>12 DEF Void
\* What is sent before right's diff is taken.
<1>20. PICK first : first = IF n = 0 THEN <<d>> ELSE <<>> OBVIOUS
<1>21. Reaches(V, first \o v, w, k \o r)
  <2>1. CASE n = 0
    <3>1. PICK o : o = <<d>> OBVIOUS
    <3>2. Applicable(d, w) /\ Apply(d, w) = k BY <1>3
    <3>3. Reaches(V, o, w, k) BY <3>1, <3>2, ReachesOne
    <3>4. o \in Seq(DiffsOver(V)) BY <3>3 DEF Reaches
    <3>5. o \o e0 = o BY <1>4, <3>4, ConcatEmptySeq
    <3> QED BY <1>15, <1>18, <1>20, <2>1, <3>1, <3>3, <3>5
  <2>2. CASE n # 0
    <3>1. u \in Seq(DiffsOver(V)) BY <1>14 DEF Reaches
    <3>2. <<>> \o u = u BY <3>1, ConcatEmptySeq
    <3> QED BY <1>14, <1>15, <1>20, <2>2, <3>2
  <2> QED BY <2>1, <2>2
\* It is right's diff alone that v and what follows it reach.
<1>22. PICK from : from = IF n = 0 THEN k \o r ELSE w OBVIOUS
<1>23. Reaches(V, v, from, k \o r)
  <2>1. k \o r \in Seq(V) BY <1>1, ConcatProperties
  <2>2. CASE n = 0
    <3>1. Reaches(V, <<>>, k \o r, k \o r) BY <2>1, ReachesNone
    <3> QED BY <1>4, <1>15, <1>22, <2>2, <3>1
  <2>3. CASE n # 0 BY <1>14, <1>15, <1>22, <2>3
  <2> QED BY <2>2, <2>3
<1>38. PICK r2 \in Seq(V) :
         \E p2, o : RightSent(V, RightChange(g, Answer(q)), t, q, k, r, v, from,
                             r2, p2, o)
  <2>1. \E r2 \in Seq(V) : \E p2, o :
           RightSent(V, RightChange(Chained(t, AfterPoll(q), Len(k), Len(r), v),
                                    Answer(q)),
                     t, q, k, r, v, from, r2, p2, o)
    BY <1>23, RightPolled
  <2> QED BY <1>6, <1>8, <1>16, <2>1
<1>24. PICK p2, o :
         RightSent(V, RightChange(g, Answer(q)), t, q, k, r, v, from, r2, p2, o)
  BY <1>38
<1>25. /\ RightChange(g, Answer(q)) = Fed(Chained(t, a, Len(k), Len(r2), p2), o)
       /\ Behind(V, a, r2) /\ SameVec(a, q)
       /\ Reaches(V, p2 \o o, from, k \o r2)
       /\ \/ o = <<>> /\ p2 # <<>> /\ q.queue # <<>>
          \/ p2 = v /\ q.queue # <<>> /\ \E e : o = <<e>>
          \/ p2 = v /\ o = <<>> /\ q.queue = <<>> /\ r2 = r
  BY <1>8, <1>24 DEF RightSent
<1>26. Behind(V, t, k) BY <1>3
<1>27. CASE Answer(q).poll = "Some" /\ Answer(q).diff.op = d.op
  <2>1. q.queue # <<>> BY <1>27, NotTakenIs
  <2>2. PICK h \in DiffsOver(V) :
          /\ Answer(q) = SomeDiff(h)
          /\ Applicable(h, r) /\ Apply(h, r) \in Seq(V)
          /\ Behind(V, a, Apply(h, r)) /\ SameVec(a, q)
    BY <1>8, <2>1, TakenIs
  <2>3. Answer(q).diff = h BY <2>2, SomeIs
  <2>4. IsWhole(h) /\ h.op = d.op BY <1>27, <2>3 DEF IsWhole
  <2>5. PICK j \in Seq(V) :
          /\ j = NewValues(h) /\ Apply(h, r) = j
          /\ h.op = "Replace" => h.values = j
          /\ h.op = "Clear" => j = <<>>
    BY <1>1, <2>2, <2>4, WholeIs
  <2>6. [y EXCEPT !.right_len = Len(NewValues(Answer(q).diff))]
           = Chained(t, a, Len(k), Len(j), e0)
    BY <1>9, <2>3, <2>5, ChainedIs
  <2>7. PICK c \in DiffsOver(V) :
          /\ c = IF d.op = "Clear" THEN d
                 ELSE ReplaceDiff(d.values \o Answer(q).diff.values)
          /\ \A s : Applicable(c, s) /\ Apply(c, s) = k \o j
    <3>1. CASE d.op = "Clear"
      <4>1. k = <<>> /\ j = <<>> BY <1>3, <2>4, <2>5, <3>1
      <4>2. k \o j = k BY <4>1
      <4> QED BY <1>3, <3>1, <4>2
    <3>2. CASE d.op # "Clear"
      <4>1. d.op = "Replace" BY <3>2 DEF IsWhole
      <4>2. d.values = k /\ h.values = j BY <1>3, <2>4, <2>5, <4>1
      <4>3. k \o j \in Seq(V) BY ConcatProperties
      <4>4. ReplaceDiff(k \o j) \in DiffsOver(V)
        <5>1. PICK vs \in Seq(V) : vs = k \o j BY <4>3
        <5>2. ReplaceDiff(vs) \in DiffsOver(V) BY DEF DiffsOver
        <5> QED BY <5>1, <5>2
      <4>5. \A s : /\ Applicable(ReplaceDiff(k \o j), s)
                   /\ Apply(ReplaceDiff(k \o j), s) = k \o j
        BY ApplyReplace
      <4> QED BY <2>3, <3>2, <4>2, <4>4, <4>5
    <3> QED BY <3>1, <3>2
  <2>8. PICK b : b = <<c>> OBVIOUS
  <2>9. ProcessWhole(z, d) = Fed(Chained(t, a, Len(k), Len(j), e0), b)
    BY <1>10, <1>11, <1>27, <2>6, <2>7, <2>8, Zenon DEF ProcessWhole
  <2>10. Reaches(V, b, w, k \o j)
    <3>1. k \o j \in Seq(V) BY ConcatProperties
    <3>2. Applicable(c, w) /\ Apply(c, w) = k \o j BY <2>7
    <3> QED BY <2>8, <3>1, <3>2, ReachesOne
  <2>11. b \o e0 = b
    <3>1. b \in Seq(DiffsOver(V)) BY <2>10 DEF Reaches
    <3> QED BY <1>4, <3>1, ConcatEmptySeq
  <2>12. FoundAre(V, ProcessWhole(z, d), w, x, q, t, a, k, j, e0, b)
    <3>1. e0 \in Seq(DiffsOver(V)) BY <1>4
    <3> QED BY <1>26, <2>2, <2>5, <2>8, <2>9, <2>10, <2>11, <3>1 DEF FoundAre
  <2>13. Found(V, ProcessWhole(z, d), w, x, q) BY <2>12 DEF Found
  <2> QED BY <1>4, <1>5, <1>6, <1>7, <1>13, <2>13
<1>28. CASE ~(Answer(q).poll = "Some" /\ Answer(q).diff.op = d.op)
  <2>1. PICK s : s = p2 \o o OBVIOUS
  <2>2. PICK f : f = RightChange(g, Answer(q)) OBVIOUS
  <2>3. f.st = Chained(t, a, Len(k), Len(r2), p2) /\ f.out = o
    BY <1>25, <2>2 DEF Fed
  <2>4. [f.st EXCEPT !.pending = @ \o f.out] = Chained(t, a, Len(k), Len(r2), s)
    <3>1. PICK b : b = f.st OBVIOUS
    <3>2. [b EXCEPT !.pending = @ \o f.out] = [b EXCEPT !.pending = b.pending \o o]
      BY <2>3
    <3>3. b.pending = p2
          /\ \A j : [b EXCEPT !.pending = j] = Chained(t, a, Len(k), Len(r2), j)
      BY <2>3, <3>1, ChainedIs
    <3> QED BY <2>1, <3>1, <3>2, <3>3
  <2>5. ProcessWhole(z, d) = Fed(Chained(t, a, Len(k), Len(r2), s), first)
    <3>1. ProcessWhole(z, d)
             = Fed([f.st EXCEPT !.pending = @ \o f.out],
                   IF z.right_len = 0 THEN <<d>> ELSE <<>>)
      BY <1>10, <1>11, <1>17, <1>28, <2>2, Zenon DEF ProcessWhole
    <3> QED BY <1>11, <1>20, <2>4, <3>1
  <2>6. Reaches(V, first \o s, w, k \o r2)
    <3>1. CASE n = 0
      <4>1. Reaches(V, first, w, k \o r)
        <5>1. first \o v = first
          <6>1. PICK b : b = <<d>> OBVIOUS
          <6>2. b \in Seq(DiffsOver(V)) BY <6>1
          <6>3. b \o e0 = b BY <1>4, <6>2, ConcatEmptySeq
          <6> QED BY <1>15, <1>20, <3>1, <6>1, <6>3
        <5> QED BY <1>21, <5>1
      <4>2. Reaches(V, s, k \o r, k \o r2) BY <1>22, <1>25, <2>1, <3>1
      <4> QED BY <4>1, <4>2, ReachesThen
    <3>2. CASE n # 0
      <4>1. Reaches(V, s, w, k \o r2) BY <1>22, <1>25, <2>1, <3>2
      <4>2. s \in Seq(DiffsOver(V)) BY <4>1 DEF Reaches
      <4>3. <<>> \o s = s BY <4>2, ConcatEmptySeq
      <4> QED BY <1>20, <3>2, <4>1, <4>3
    <3> QED BY <3>1, <3>2
  <2>7. \/ first = <<>> /\ s # <<>>
        \/ \E e : first = <<e>>
    <3>1. CASE n = 0 BY <1>20, <3>1
    <3>2. CASE n # 0
      <4>1. s # <<>>
        <5>0. v = u /\ u \in Seq(DiffsOver(V))
          BY <1>14, <1>15, <3>2 DEF Reaches
        <5>1. CASE o = <<>> /\ p2 # <<>>
          <6>1. s = p2 \/ s # <<>>
            BY <2>1, <5>1
          <6> QED BY <5>1, <6>1
        <5>2. CASE p2 = v /\ \E e : o = <<e>>
          <6>1. PICK e : o = <<e>> BY <5>2
          <6>2. Len(s) # 0 BY <2>1, <5>0, <5>2, <6>1
          <6> QED BY <6>2
        <5>3. CASE p2 = v /\ o = <<>>
          <6>1. s = u BY <2>1, <5>0, <5>3, ConcatEmptySeq
          <6> QED BY <1>19, <6>1
        <5> QED BY <1>25, <5>1, <5>2, <5>3
      <4> QED BY <1>20, <3>2, <4>1
    <3> QED BY <3>1, <3>2
  <2>8. FoundAre(V, ProcessWhole(z, d), w, x, q, t, a, k, r2, s, first)
    <3>1. s \in Seq(DiffsOver(V))
      <4>1. Reaches(V, s, from, k \o r2) BY <1>25, <2>1
      <4> QED BY <4>1 DEF Reaches
    <3> QED BY <1>25, <1>26, <2>5, <2>6, <2>7, <3>1 DEF FoundAre
  <2>9. Found(V, ProcessWhole(z, d), w, x, q) BY <2>8 DEF Found
  <2> QED BY <1>4, <1>5, <1>6, <1>7, <1>13, <2>9
<1> QED BY <1>27, <1>28

LEMMA ProcessLeftIs ==
    ASSUME NEW V, NEW t, NEW q, NEW l, NEW r, Behind(V, t, l), Behind(V, q, r)
    PROVE  LeftSent(V, ProcessLeft(Chained(t, q, Len(l), Len(r), <<>>)), t, q, l, r)
<1>1. l \in Seq(V) /\ r \in Seq(V) BY DEF Behind
<1>2. PICK e0 : e0 = <<>> OBVIOUS
<1>3. PICK m : m = Len(l) OBVIOUS
<1>4. PICK n : n = Len(r) OBVIOUS
<1>5. PICK z : z = Chained(t, q, m, n, e0) OBVIOUS
<1>6. PICK a : a = AfterPoll(t) OBVIOUS
<1>7. PICK y : y = Chained(a, q, m, n, e0) OBVIOUS
<1>8. /\ z.top = t /\ z.right_len = n /\ z.left_len = m
      /\ [z EXCEPT !.top = AfterPoll(@)] = y
  <2>1. z.top = t /\ z.right_len = n /\ z.left_len = m BY <1>5, ChainedIs
  <2>2. [z EXCEPT !.top = AfterPoll(@)] = [z EXCEPT !.top = AfterPoll(z.top)]
    OBVIOUS
  <2>3. [z EXCEPT !.top = a] = y BY <1>5, <1>7, ChainedIs
  <2> QED BY <1>6, <2>1, <2>2, <2>3
<1>9. CASE t.queue = <<>>
  <2>1. Answer(t).poll # "Some" BY <1>9, NotTakenIs
  <2>2. ProcessLeft(z) = Fed(y, <<>>) BY <1>8, <2>1, Zenon DEF ProcessLeft
  <2> QED BY <1>2, <1>3, <1>4, <1>5, <1>6, <1>7, <1>9, <2>2 DEF LeftSent
<1>10. CASE t.queue # <<>>
  <2>1. PICK d \in DiffsOver(V) :
          /\ Answer(t) = SomeDiff(d)
          /\ Applicable(d, l) /\ Apply(d, l) \in Seq(V) /\ ~Void(d, l)
          /\ Behind(V, a, Apply(d, l)) /\ SameVec(a, t)
    BY <1>6, <1>10, TakenIs
  <2>2. PICK s : s = Answer(t) OBVIOUS
  <2>3. s.poll = "Some" /\ s.diff = d BY <2>1, <2>2, SomeIs
  <2>4. CASE IsWhole(d)
    <3>1. ProcessLeft(z) = ProcessWhole(y, d)
      <4>1. d.op \in {"Replace", "Clear"} BY <2>4 DEF IsWhole
      <4> QED BY <1>8, <2>2, <2>3, <4>1, Zenon DEF ProcessLeft
    <3>2. Found(V, ProcessWhole(Chained(a, q, Len(l), Len(r), <<>>), d), l \o r, t, q)
      BY <1>1, <2>1, <2>4, ProcessWholeIs
    <3> QED BY <1>2, <1>3, <1>4, <1>5, <1>7, <1>10, <3>1, <3>2 DEF LeftSent
  <2>5. CASE ~IsWhole(d)
    <3>1. PICK k \in Seq(V) : k = Apply(d, l) /\ LenAfter(d, Len(l)) = Len(k)
      BY <1>1, <2>1, WholeIs
    <3>2. PICK o : o = <<LeftDiff(d, m, n)>> OBVIOUS
    <3>3. PICK g : g = Chained(a, q, Len(k), n, e0) OBVIOUS
    <3>4. [y EXCEPT !.left_len = LenAfter(s.diff, @)] = g
      <4>1. [y EXCEPT !.left_len = LenAfter(s.diff, @)]
               = [y EXCEPT !.left_len = LenAfter(d, y.left_len)]
        BY <2>3
      <4>2. y.left_len = m BY <1>7, ChainedIs
      <4>3. [y EXCEPT !.left_len = Len(k)] = g BY <1>7, <3>3, ChainedIs
      <4>4. LenAfter(d, m) = Len(k) BY <1>3, <3>1
      <4> QED BY <4>1, <4>2, <4>3, <4>4
    <3>5. ProcessLeft(z) = Fed(g, o)
      <4>1. ~(s.diff.op \in {"Replace", "Clear"}) BY <2>3, <2>5 DEF IsWhole
      <4>2. ProcessLeft(z)
               = Fed([y EXCEPT !.left_len = LenAfter(s.diff, @)],
                     <<LeftDiff(s.diff, z.left_len, z.right_len)>>)
        BY <1>8, <2>2, <2>3, <4>1, Zenon DEF ProcessLeft, LeftDiff
      <4> QED BY <1>8, <2>3, <3>2, <3>4, <4>2
    <3>6. Reaches(V, o, l \o r, k \o r)
      BY <1>1, <1>3, <1>4, <2>1, <2>5, <3>1, <3>2, LeftReaches
    <3>7. o \o e0 = o
      <4>1. o \in Seq(DiffsOver(V)) BY <3>6 DEF Reaches
      <4> QED BY <1>2, <4>1, ConcatEmptySeq
    <3>8. SameVec(q, q) BY DEF SameVec
    <3>9. FoundAre(V, ProcessLeft(z), l \o r, t, q, a, q, k, r, e0, o)
      <4>1. e0 \in Seq(DiffsOver(V)) BY <1>2
      <4> QED BY <1>4, <2>1, <3>1, <3>2, <3>3, <3>5, <3>6, <3>7, <3>8, <4>1 DEF FoundAre
    <3>10. Found(V, ProcessLeft(z), l \o r, t, q) BY <1>1, <3>9 DEF Found
    <3> QED BY <1>2, <1>3, <1>4, <1>5, <1>10, <3>10 DEF LeftSent
  <2> QED BY <2>4, <2>5
<1> QED BY <1>9, <1>10

LEMMA PolledIs ==
    ASSUME NEW s, NEW a
    PROVE  \A g : g = Polled(s, a) => g.st = s /\ g.answer = a
BY DEF Polled

LEMMA PendingAnswers ==
    ASSUME NEW V, NEW z, NEW w, NEW t, NEW q, NEW l \in Seq(V), NEW r \in Seq(V),
           NEW p, ChainIs(V, z, w, t, q, l, r, p), p # <<>>,
           NEW x, NEW y, SameVec(t, x), SameVec(q, y)
    PROVE  Answered(V, PendingFirst(z), w, x, y)
<1>1. /\ z = Chained(t, q, Len(l), Len(r), p)
      /\ Behind(V, t, l) /\ Behind(V, q, r)
      /\ Reaches(V, p, w, l \o r)
  BY DEF ChainIs
<1>2. PICK d : d = Head(p) OBVIOUS
<1>3. PICK k : k = Tail(p) OBVIOUS
<1>4. Applicable(d, w) /\ Reaches(V, k, Apply(d, w), l \o r)
  BY <1>1, <1>2, <1>3, ReachesNext
<1>5. PICK g : g = Chained(t, q, Len(l), Len(r), k) OBVIOUS
<1>6. z.pending = p BY <1>1, ChainedIs
<1>7. [z EXCEPT !.pending = Tail(@)] = g
  <2>1. [z EXCEPT !.pending = Tail(@)] = [z EXCEPT !.pending = Tail(z.pending)]
    OBVIOUS
  <2>2. [z EXCEPT !.pending = k] = g BY <1>1, <1>5, ChainedIs
  <2> QED BY <1>3, <1>6, <2>1, <2>2
<1>8. PICK h : h = PendingFirst(z) OBVIOUS
<1>9. h = Polled(g, SomeDiff(d)) BY <1>2, <1>6, <1>7, <1>8 DEF PendingFirst
<1>10. h.st = g /\ h.answer = SomeDiff(d) BY <1>9, PolledIs
<1>11. g.top = t /\ g.right = q BY <1>5, ChainedIs
<1>12. ChainIs(V, g, Apply(d, w), t, q, l, r, k) BY <1>1, <1>4, <1>5 DEF ChainIs
<1>13. ChainInv(V, g, Apply(d, w)) BY <1>12 DEF ChainInv
<1> QED BY <1>4, <1>8, <1>10, <1>11, <1>13 DEF Answered

LEMMA FoundAnswers ==
    ASSUME NEW V, NEW f, NEW w, NEW x, NEW y, Found(V, f, w, x, y), NEW other
    PROVE  Answered(V, FoundOr(f, other), w, x, y)
<1>1. PICK t, q, p, o : \E l \in Seq(V), r \in Seq(V) :
        FoundAre(V, f, w, x, y, t, q, l, r, p, o)
  BY DEF Found
<1>2. PICK l \in Seq(V), r \in Seq(V) : FoundAre(V, f, w, x, y, t, q, l, r, p, o)
  BY <1>1
<1>3. /\ f = Fed(Chained(t, q, Len(l), Len(r), p), o)
      /\ Behind(V, t, l) /\ Behind(V, q, r)
      /\ SameVec(t, x) /\ SameVec(q, y)
      /\ Reaches(V, o \o p, w, l \o r) /\ p \in Seq(DiffsOver(V))
      /\ \/ o = <<>> /\ p # <<>>
         \/ \E e : o = <<e>>
  BY <1>2 DEF FoundAre
<1>4. PICK z : z = Chained(t, q, Len(l), Len(r), p) OBVIOUS
<1>5. f.st = z /\ f.out = o BY <1>3, <1>4 DEF Fed
<1>6. z.top = t /\ z.right = q /\ z.pending = p BY <1>4, ChainedIs
<1>7. CASE o = <<>> /\ p # <<>>
  <2>1. FoundOr(f, other) = PendingFirst(z)
    BY <1>5, <1>6, <1>7, Zenon DEF FoundOr
  <2>3. Reaches(V, p, w, l \o r)
    <3>1. o \o p = p BY <1>3, <1>7, ConcatEmptySeq
    <3> QED BY <1>3, <3>1
  <2>4. ChainIs(V, z, w, t, q, l, r, p) BY <1>3, <1>4, <2>3 DEF ChainIs
  <2> QED BY <1>3, <1>7, <2>1, <2>4, PendingAnswers
<1>8. CASE \E e : o = <<e>>
  <2>1. PICK d : o = <<d>> BY <1>8
  <2>2. PICK g : g = Polled(z, SomeDiff(d)) OBVIOUS
  <2>3. FoundOr(f, other) = g
    <3>1. o # <<>> /\ o[1] = d BY <2>1
    <3> QED BY <1>5, <2>2, <3>1, Zenon DEF FoundOr
  <2>4. g.st = z /\ g.answer = SomeDiff(d) BY <2>2, PolledIs
  <2>5. o \o p # <<>> /\ Head(o \o p) = d /\ Tail(o \o p) = p
    BY <1>3, <2>1
  <2>6. Applicable(d, w) /\ Reaches(V, p, Apply(d, w), l \o r)
    BY <1>3, <2>5, ReachesNext
  <2>7. ChainIs(V, z, Apply(d, w), t, q, l, r, p) BY <1>3, <1>4, <2>6 DEF ChainIs
  <2>8. ChainInv(V, z, Apply(d, w)) BY <2>7 DEF ChainInv
  <2> QED BY <1>3, <1>6, <2>3, <2>4, <2>6, <2>8 DEF Answered
<1> QED BY <1>3, <1>7, <1>8

\* Every poll of chain sends diffs that fit, in an order that makes the values
\* of left and then those of right of the output, whichever input has sent
\* diffs, whatever they are, and however many of its own diffs still wait; and
\* it waits for, or tells the end of, both of its inputs.
THEOREM ChainFollows ==
    ASSUME NEW V, NEW z, NEW w, ChainInv(V, z, w)
    PROVE  ChainAnswers(V, z, w, ChainPoll(z))
<1>1. PICK t, q, p : \E l \in Seq(V), r \in Seq(V) : ChainIs(V, z, w, t, q, l, r, p)
  BY DEF ChainInv
<1>2. PICK l \in Seq(V), r \in Seq(V) : ChainIs(V, z, w, t, q, l, r, p) BY <1>1
<1>3. /\ z = Chained(t, q, Len(l), Len(r), p)
      /\ Behind(V, t, l) /\ Behind(V, q, r)
      /\ Reaches(V, p, w, l \o r)
  BY <1>2 DEF ChainIs
<1>4. z.top = t /\ z.right = q /\ z.pending = p BY <1>3, ChainedIs
<1>5. SameVec(t, t) /\ SameVec(q, q) BY DEF SameVec
<1>8. Behind(V, t, l) /\ Behind(V, q, r) BY <1>3
<1>6. CASE p # <<>>
  <2>1. ChainPoll(z) = PendingFirst(z) BY <1>4, <1>6, Zenon DEF ChainPoll
  <2>2. Answered(V, PendingFirst(z), w, t, q)
    BY <1>2, <1>5, <1>6, PendingAnswers
  <2> QED BY <1>4, <2>1, <2>2 DEF ChainAnswers
<1>7. CASE p = <<>>
  <2>1. w = l \o r BY <1>3, <1>7, ReachesNothing
  <2>2. PICK left : left = ProcessLeft(z) OBVIOUS
  <2>3. PICK right : right = ProcessRight(left.st) OBVIOUS
  <2>4. PICK g : g = Polled(right.st, IF right.st.top.held \/ right.st.right.held
                                      THEN Pending ELSE None)
    OBVIOUS
  <2>5. ChainPoll(z) = FoundOr(left, FoundOr(right, g))
    BY <1>4, <1>7, <2>2, <2>3, <2>4, Zenon DEF ChainPoll
  <2>6. CASE t.queue # <<>>
    <3>1. Found(V, left, w, t, q)
      <4>1. LeftSent(V, ProcessLeft(Chained(t, q, Len(l), Len(r), <<>>)), t, q, l, r)
        BY <1>8, ProcessLeftIs
      <4> QED BY <1>3, <1>7, <2>1, <2>2, <2>6, <4>1 DEF LeftSent
    <3>2. Answered(V, FoundOr(left, FoundOr(right, g)), w, t, q)
      BY <3>1, FoundAnswers
    <3> QED BY <1>4, <2>5, <3>2 DEF ChainAnswers
  <2>7. CASE t.queue = <<>>
    <3>1. PICK a : a = AfterPoll(t) OBVIOUS
    <3>2. PICK y : y = Chained(a, q, Len(l), Len(r), <<>>) OBVIOUS
    <3>3. left = Fed(y, <<>>)
      <4>1. LeftSent(V, ProcessLeft(Chained(t, q, Len(l), Len(r), <<>>)), t, q, l, r)
        BY <1>8, ProcessLeftIs
      <4> QED BY <1>3, <1>7, <2>2, <2>7, <3>1, <3>2, <4>1 DEF LeftSent
    <3>4. left.st = y /\ left.out = <<>> BY <3>3 DEF Fed
    <3>5. y.top = a /\ y.right = q /\ y.pending = <<>> BY <3>2, ChainedIs
    <3>6. FoundOr(left, FoundOr(right, g)) = FoundOr(right, g)
      BY <3>4, <3>5, Zenon DEF FoundOr
    <3>7. /\ l = t.contents /\ Behind(V, a, l) /\ SameVec(a, t) /\ Asked(a)
      <4>1. /\ l = t.contents /\ Behind(V, AfterPoll(t), l)
            /\ SameVec(AfterPoll(t), t) /\ Asked(AfterPoll(t))
        BY <1>8, <2>7, NotTakenIs
      <4> QED BY <3>1, <4>1
    <3>8. PICK x : x = Chained(a, AfterPoll(q), Len(l), Len(r), <<>>) OBVIOUS
    <3>9. right = RightChange(x, Answer(q))
      <4>1. [y EXCEPT !.right = AfterPoll(@)] = [y EXCEPT !.right = AfterPoll(y.right)]
        OBVIOUS
      <4>2. [y EXCEPT !.right = AfterPoll(q)] = x BY <3>2, <3>8, ChainedIs
      <4>3. ProcessRight(y)
               = RightChange([y EXCEPT !.right = AfterPoll(@)], Answer(y.right))
        BY DEF ProcessRight
      <4> QED BY <2>3, <3>4, <3>5, <4>1, <4>2, <4>3
    <3>15. PICK r2 \in Seq(V) :
             \E p2, o : RightSent(V, right, a, q, l, r, <<>>, w, r2, p2, o)
      <4>1. Reaches(V, <<>>, w, l \o r) BY <1>3, <1>7
      <4> QED BY <1>3, <3>8, <3>9, <4>1, RightPolled
    <3>10. PICK p2, o : RightSent(V, right, a, q, l, r, <<>>, w, r2, p2, o)
      BY <3>15
    <3>11. /\ right = Fed(Chained(a, AfterPoll(q), Len(l), Len(r2), p2), o)
           /\ Behind(V, AfterPoll(q), r2) /\ SameVec(AfterPoll(q), q)
           /\ Reaches(V, p2 \o o, w, l \o r2) /\ p2 \in Seq(DiffsOver(V))
           /\ \/ o = <<>> /\ p2 # <<>> /\ q.queue # <<>>
              \/ p2 = <<>> /\ q.queue # <<>> /\ \E e : o = <<e>>
              \/ p2 = <<>> /\ o = <<>> /\ q.queue = <<>> /\ r2 = r
      BY <3>10 DEF RightSent
    <3>12. PICK b : b = AfterPoll(q) OBVIOUS
    <3>13. CASE q.queue # <<>>
      <4>1. Reaches(V, o \o p2, w, l \o r2) /\ p2 \in Seq(DiffsOver(V))
        <5>0. p2 \o o \in Seq(DiffsOver(V)) BY <3>11 DEF Reaches
        <5>1. CASE o = <<>> /\ p2 # <<>>
          <6>1. o \o p2 = p2 /\ p2 \o o = p2
            BY <5>1, <3>11, ConcatEmptySeq
          <6> QED BY <3>11, <5>0, <6>1
        <5>2. CASE p2 = <<>> /\ \E e : o = <<e>>
          <6>1. o \o p2 = o /\ p2 \o o = o BY <5>2
          <6> QED BY <3>11, <5>2, <6>1
        <5> QED BY <3>11, <3>13, <5>1, <5>2
      <4>2. FoundAre(V, right, w, t, q, a, b, l, r2, p2, o)
        BY <3>7, <3>11, <3>12, <3>13, <4>1 DEF FoundAre
      <4>3. Found(V, right, w, t, q) BY <4>2 DEF Found
      <4>4. Answered(V, FoundOr(right, g), w, t, q) BY <4>3, FoundAnswers
      <4> QED BY <1>4, <2>5, <3>6, <4>4 DEF ChainAnswers
    <3>14. CASE q.queue = <<>>
      <4>1. r = q.contents /\ Behind(V, b, r) /\ SameVec(b, q) /\ Asked(b)
        <5>1. /\ r = q.contents /\ Behind(V, AfterPoll(q), r)
              /\ SameVec(AfterPoll(q), q) /\ Asked(AfterPoll(q))
          BY <1>3, <3>14, NotTakenIs
        <5> QED BY <3>12, <5>1
      <4>2. PICK h : h = Chained(a, b, Len(l), Len(r), <<>>) OBVIOUS
      <4>3. right.st = h /\ right.out = <<>> BY <3>11, <3>12, <3>14, <4>2 DEF Fed
      <4>4. h.top = a /\ h.right = b /\ h.pending = <<>> BY <4>2, ChainedIs
      <4>5. FoundOr(right, g) = g BY <4>3, <4>4, Zenon DEF FoundOr
      <4>6. /\ g.st = h
            /\ g.answer = IF a.held \/ b.held THEN Pending ELSE None
        BY <2>4, <4>3, <4>4, PolledIs
      <4>7. a.held = ~t.closed /\ b.held = ~q.closed
        BY <3>7, <4>1, Zenon DEF Asked, SameVec
      <4>8. g.answer = IF t.closed /\ q.closed THEN None ELSE Pending
        BY <4>6, <4>7, Zenon
      <4>9. ChainIs(V, h, w, a, b, l, r, <<>>)
        BY <1>3, <1>7, <3>7, <4>1, <4>2 DEF ChainIs
      <4>10. ChainInv(V, h, w) BY <4>9 DEF ChainInv
      <4> QED
        BY <1>4, <2>1, <2>5, <3>6, <3>7, <4>1, <4>4, <4>5, <4>6, <4>8, <4>10
        DEF ChainAnswers
    <3> QED BY <3>13, <3>14
  <2> QED BY <2>6, <2>7
<1> QED BY <1>6, <1>7

-----------------------------------------------------------------------------
(* switch_signal_vec: one SignalVec at a time.                             *)

LEMMA TrailTaken ==
    ASSUME NEW V, NEW src, NEW s, Trails(V, src, s), src.queue # <<>>
    PROVE  \E d :
              /\ Answer(src) = SomeDiff(d) /\ d = Head(src.queue)
              /\ Applicable(d, s)
              /\ LenAfter(d, Len(s)) = Len(Apply(d, s))
              /\ Trails(V, AfterPoll(src), Apply(d, s))
              /\ SameVec(AfterPoll(src), src)
<1> DEFINE d == Head(src.queue)
           a == AfterPoll(src)
<1>1. src \in SourceOf(V) /\ s \in Seq(V) /\ Reaches(V, src.queue, s, src.contents)
  BY DEF Trails
<1>5. src.queue \in Seq(DiffsOver(V)) BY <1>1 DEF SourceOf
<1>2. /\ Applicable(d, s) /\ Apply(d, s) \in Seq(V)
      /\ Reaches(V, Tail(src.queue), Apply(d, s), src.contents)
  BY <1>1, ReachesNext
<1>3. Answer(src) = SomeDiff(d) BY Zenon DEF Answer
<1>4. a = [src EXCEPT !.queue = Tail(@)] BY DEF AfterPoll
<1>6. Tail(src.queue) \in Seq(DiffsOver(V)) BY <1>5, HeadTailProperties
<1>10. d \in DiffsOver(V)
  <2>1. Len(src.queue) \in Nat \ {0} BY <1>5, EmptySeq, LenProperties
  <2>2. src.queue[1] \in DiffsOver(V) BY <1>5, <2>1, ElementOfSeq
  <2> QED BY <1>5, <2>2, HeadTailProperties
<1>7. /\ a \in SourceOf(V) /\ a.queue = Tail(src.queue)
      /\ a.contents = src.contents /\ a.closed = src.closed
  BY <1>1, <1>4, <1>6 DEF SourceOf
<1> HIDE DEF a, d
<1>11. LenAfter(d, Len(s)) = Len(Apply(d, s)) BY <1>1, <1>2, <1>10, WholeIs
<1>8. Trails(V, a, Apply(d, s)) BY <1>2, <1>7 DEF Trails, d
<1>9. SameVec(a, src) BY <1>7 DEF SameVec
<1> QED BY <1>2, <1>3, <1>8, <1>9, <1>11 DEF a, d

LEMMA TrailNotTaken ==
    ASSUME NEW V, NEW src, NEW s, Trails(V, src, s), src.queue = <<>>
    PROVE  /\ Answer(src) = IF src.closed THEN None ELSE Pending
           /\ s = src.contents
           /\ Trails(V, AfterPoll(src), s)
           /\ AfterPoll(src).queue = <<>>
           /\ SameVec(AfterPoll(src), src)
           /\ Asked(AfterPoll(src))
<1> DEFINE a == AfterPoll(src)
<1>1. src \in SourceOf(V) /\ s \in Seq(V) /\ Reaches(V, src.queue, s, src.contents)
  BY DEF Trails
<1>2. s = src.contents BY <1>1, ReachesNothing
<1>3. Answer(src) = IF src.closed THEN None ELSE Pending
  <2>1. CASE src.closed BY <2>1, Zenon DEF Answer
  <2>2. CASE ~src.closed BY <2>2, Zenon DEF Answer
  <2> QED BY <2>1, <2>2
<1>5. a = [src EXCEPT !.held = ~src.closed, !.waker = ~src.closed]
  BY DEF AfterPoll
<1>6. PICK x \in BOOLEAN : x = ~src.closed OBVIOUS
<1>7. a = [src EXCEPT !.held = x, !.waker = x] BY <1>5, <1>6
<1>8. /\ a \in SourceOf(V) /\ a.queue = src.queue
      /\ a.contents = src.contents /\ a.closed = src.closed
      /\ a.held = x /\ a.waker = x
  BY <1>1, <1>7 DEF SourceOf
<1> HIDE DEF a
<1>9. Trails(V, a, s) BY <1>1, <1>8 DEF Trails
<1>10. SameVec(a, src) BY <1>8 DEF SameVec
<1>11. Asked(a) BY <1>6, <1>8, Zenon DEF Asked
<1> QED BY <1>2, <1>3, <1>8, <1>9, <1>10, <1>11 DEF a

\* A receiver of a vector that is first polled now.
LEMMA SourceTrails ==
    ASSUME NEW V, NEW v \in VecsOf(V)
    PROVE  /\ Trails(V, Source(v), <<>>)
           /\ Source(v).contents = v.values /\ Source(v).closed = v.closed
           /\ Source(v).queue = <<>> <=> v.values = <<>>
           /\ v.values # <<>> => Head(Source(v).queue) = ReplaceDiff(v.values)
<1>1. /\ v.values \in Seq(V) /\ v.closed \in BOOLEAN /\ v.alphabet \in SUBSET V
  BY DEF VecsOf
<1>0. <<>> \in Seq(V) OBVIOUS
<1>2. PICK d \in DiffsOver(V) : d = ReplaceDiff(v.values)
  BY <1>1 DEF DiffsOver
<1>3. PICK q : q = IF v.values = <<>> THEN <<>> ELSE <<d>> OBVIOUS
<1>4. q \in Seq(DiffsOver(V)) BY <1>3
<1>5. Source(v) = [contents |-> v.values, closed |-> v.closed, alphabet |-> v.alphabet,
                   queue |-> q, waker |-> FALSE, held |-> TRUE, len |-> 0]
  BY <1>2, <1>3 DEF Source
<1>6. /\ Source(v) \in SourceOf(V) /\ Source(v).queue = q
      /\ Source(v).contents = v.values /\ Source(v).closed = v.closed
  BY <1>1, <1>4, <1>5 DEF SourceOf
<1>7. Reaches(V, q, <<>>, v.values)
  <2>1. PICK e \in Seq(V) : e = <<>> BY <1>0
  <2>2. CASE v.values = <<>>
    <3>1. Reaches(V, <<>>, e, e) BY ReachesNone
    <3> QED BY <1>3, <2>1, <2>2, <3>1
  <2>3. CASE v.values # <<>>
    <3>1. Applicable(d, e) /\ Apply(d, e) = v.values BY <1>2, ApplyReplace
    <3>2. PICK vs \in Seq(V) : vs = v.values BY <1>1
    <3>3. \A p : p = <<d>> => Reaches(V, p, e, vs) BY <3>1, <3>2, ReachesOne
    <3> QED BY <1>3, <2>1, <2>3, <3>2, <3>3
  <2> QED BY <2>2, <2>3
<1>8. Trails(V, Source(v), <<>>) BY <1>0, <1>6, <1>7 DEF Trails
<1>9. v.values # <<>> => q # <<>> /\ Head(q) = d BY <1>3
<1> QED BY <1>2, <1>3, <1>6, <1>8, <1>9

LEMMA OneIs ==
    ASSUME NEW a
    PROVE  /\ One(a) # <<>> /\ One(a)[1] = a /\ DOMAIN One(a) = {1} /\ Len(One(a)) = 1
           /\ [i \in DOMAIN One(a) |-> AfterPoll(One(a)[i])] = One(AfterPoll(a))
           /\ \A b : [One(a) EXCEPT ![1] = b] = One(b)
<1> DEFINE f == [i \in DOMAIN One(a) |-> AfterPoll(One(a)[i])]
<1>1. One(a) # <<>> /\ One(a)[1] = a /\ DOMAIN One(a) = {1} /\ Len(One(a)) = 1
  BY DEF One
<1>2. f = One(AfterPoll(a))
  <2>1. PICK c : c = AfterPoll(a) OBVIOUS
  <2>2. f = [i \in {1} |-> c] BY <1>1, <2>1
  <2>3. [i \in {1} |-> c] = <<c>> OBVIOUS
  <2> QED BY <2>1, <2>2, <2>3 DEF One
<1>3. \A b : [One(a) EXCEPT ![1] = b] = One(b) BY DEF One
<1> QED BY <1>1, <1>2, <1>3

LEMMA SwitchedIs ==
    ASSUME NEW t, NEW ps, NEW n, NEW z, z = Switched(t, ps, n)
    PROVE  /\ z.top = t /\ z.parts = ps /\ z.len = n /\ z.pending = <<>>
           /\ \A x : [z EXCEPT !.top = x] = Switched(x, ps, n)
           /\ \A x : [z EXCEPT !.parts = x] = Switched(t, x, n)
           /\ \A x : [z EXCEPT !.len = x] = Switched(t, ps, x)
BY DEF Switched

LEMMA DrainedIs ==
    ASSUME NEW V, NEW t \in SignalOf(V)
    PROVE  /\ Drained(t) \in SignalOf(V)
           /\ Drained(t).queue = <<>> /\ SameVec(Drained(t), t) /\ Asked(Drained(t))
<1>1. PICK s : s = [t EXCEPT !.queue = <<>>] OBVIOUS
<1>2. PICK x \in BOOLEAN : x = ~t.closed OBVIOUS
<1>3. s \in SignalOf(V) /\ s.queue = <<>> /\ s.closed = t.closed
      /\ s.contents = t.contents
  BY <1>1 DEF SignalOf
<1>4. AfterPoll(s) = [s EXCEPT !.held = ~s.closed, !.waker = ~s.closed]
  BY <1>3 DEF AfterPoll
<1>5. AfterPoll(s) = [s EXCEPT !.held = x, !.waker = x] BY <1>2, <1>3, <1>4
<1>6. PICK a : a = AfterPoll(s) OBVIOUS
<1>7. /\ a \in SignalOf(V) /\ a.queue = <<>> /\ a.closed = t.closed
      /\ a.contents = t.contents /\ a.held = x /\ a.waker = x
  BY <1>3, <1>5, <1>6 DEF SignalOf
<1>8. Drained(t) = a BY <1>1, <1>6 DEF Drained
<1>9. Asked(a) BY <1>2, <1>7, Zenon DEF Asked
<1>10. SameVec(a, t) BY <1>7 DEF SameVec
<1> QED BY <1>7, <1>8, <1>9, <1>10

\* Every poll of switch_signal_vec sends diffs that fit and that lead from what
\* is left of the old SignalVec to the contents of the one that is current.
THEOREM SwitchFollows ==
    ASSUME NEW V, NEW z, NEW w, SwitchInv(V, z, w)
    PROVE  SwitchAnswers(V, z, w, SwitchPoll(z))
<1>1. PICK t, ps : SwitchIs(V, z, w, t, ps) BY DEF SwitchInv
<1>2. /\ z = Switched(t, ps, Len(w))
      /\ t \in SignalOf(V)
      /\ w \in Seq(V)
      /\ \/ ps = <<>> /\ t.queue # <<>>
         \/ \E a \in SourceOf(V) : ps = One(a) /\ (t.queue = <<>> => Trails(V, a, w))
  BY <1>1 DEF SwitchIs
<1>3. z.top = t /\ z.parts = ps /\ z.len = Len(w) BY <1>2, SwitchedIs
<1>4. PICK top : top = Drained(t) OBVIOUS
<1>5. /\ top \in SignalOf(V)
      /\ top.queue = <<>> /\ SameVec(top, t) /\ Asked(top)
  BY <1>2, <1>4, DrainedIs
<1>6. Len(w) \in Nat BY <1>2, LenProperties
<1>20. <<>> \in Seq(V) OBVIOUS
<1>21. PICK e \in Seq(V) : e = <<>> BY <1>20
\* The SignalVec that is polled, and what was taken of it.
<1>7. PICK parts : parts = IF t.queue # <<>> THEN <<Source(Head(t.queue))>> ELSE ps
  OBVIOUS
<1>8. PICK from : from = IF t.queue # <<>> THEN e ELSE w OBVIOUS
<1>9. PICK b : /\ parts = One(b)
               /\ Trails(V, b, from)
               /\ Current(z, b.contents, b.closed)
               /\ t.queue # <<>> =>
                    /\ b.queue = <<>> => ~b.closed
                    /\ b.queue # <<>> => \E vs : Head(b.queue) = ReplaceDiff(vs)
  <2>1. CASE t.queue # <<>>
    <3>1. PICK v \in VecsOf(V) : t.queue = <<v>> BY <1>2, <2>1 DEF SignalOf
    <3>2. Head(t.queue) = v BY <3>1
    <3>3. parts = One(Source(v)) BY <1>7, <2>1, <3>2 DEF One
    <3>4. /\ Trails(V, Source(v), <<>>)
          /\ Source(v).contents = v.values /\ Source(v).closed = v.closed
          /\ Source(v).queue = <<>> <=> v.values = <<>>
          /\ v.values # <<>> => Head(Source(v).queue) = ReplaceDiff(v.values)
      BY SourceTrails
    <3>5. v.closed => v.values # <<>> BY DEF VecsOf
    <3>6. Current(z, v.values, v.closed) BY <1>3, <2>1, <3>2 DEF Current
    <3>7. PICK c : c = Source(v) OBVIOUS
    <3>8. /\ parts = One(c) /\ Trails(V, c, from) /\ Current(z, c.contents, c.closed)
      BY <1>8, <1>21, <2>1, <3>3, <3>4, <3>6, <3>7
    <3>9. c.queue = <<>> => ~c.closed BY <3>4, <3>5, <3>7
    <3>10. c.queue # <<>> => \E vs : Head(c.queue) = ReplaceDiff(vs)
      BY <3>4, <3>7
    <3> QED BY <3>8, <3>9, <3>10
  <2>2. CASE t.queue = <<>>
    <3>1. PICK a \in SourceOf(V) : ps = One(a) /\ Trails(V, a, w) BY <1>2, <2>2
    <3>2. parts = One(a) BY <1>7, <2>2, <3>1
    <3>3. ps[1] = a BY <3>1, OneIs
    <3>4. Current(z, a.contents, a.closed) BY <1>3, <2>2, <3>3 DEF Current
    <3> QED BY <1>8, <2>2, <3>1, <3>2, <3>4
  <2> QED BY <2>1, <2>2
<1>10. PICK a : a = AfterPoll(b) OBVIOUS
<1>11. PICK s : s = Switched(top, One(a), Len(w)) OBVIOUS
<1>12. [z EXCEPT !.top = Drained(z.top),
                 !.parts = [i \in DOMAIN parts |-> AfterPoll(parts[i])]] = s
  <2>1. [i \in DOMAIN parts |-> AfterPoll(parts[i])] = One(a)
    BY <1>9, <1>10, OneIs
  <2>2. PICK c : c = Switched(top, ps, Len(w)) OBVIOUS
  <2>3. [z EXCEPT !.top = top] = c BY <1>2, <2>2, SwitchedIs
  <2>4. [c EXCEPT !.parts = One(a)] = s BY <1>11, <2>2, SwitchedIs
  <2>5. [z EXCEPT !.top = Drained(z.top), !.parts = One(a)]
           = [[z EXCEPT !.top = Drained(z.top)] EXCEPT !.parts = One(a)]
    OBVIOUS
  <2> QED BY <1>3, <1>4, <2>1, <2>3, <2>4, <2>5
<1>13. PICK r : r = Answer(b) OBVIOUS
<1>14. parts # <<>> /\ parts[1] = b BY <1>9, OneIs
<1>15. PICK g : g = SwitchPoll(z) OBVIOUS
<1>16. g = CASE r.poll = "Some" -> SwitchDiff(s, r.diff, t.queue # <<>>)
             [] r.poll = "None" /\ ~top.held -> Polled(s, None)
             [] t.queue # <<>> /\ r.poll # "Some" /\ (r.poll = "None" => top.held) ->
                  NewSignalVec(s)
             [] OTHER -> Polled(s, Pending)
  BY <1>3, <1>4, <1>7, <1>12, <1>13, <1>14, <1>15, Zenon DEF SwitchPoll
<1>17. s.top = top /\ s.parts = One(a) /\ s.len = Len(w) BY <1>11, SwitchedIs
<1>18. One(a)[1] = a BY OneIs
\* The answer is a diff whose application makes x of the output.
<1>19. ASSUME NEW d, NEW x, g = Polled(Switched(top, One(a), Len(x)), SomeDiff(d)),
              Applicable(d, w), Apply(d, w) = x, Trails(V, a, x), SameVec(a, b)
       PROVE  SwitchAnswers(V, z, w, g)
  <2>1. PICK h : h = Switched(top, One(a), Len(x)) OBVIOUS
  <2>2. g.st = h /\ g.answer = SomeDiff(d) BY <1>19, <2>1, PolledIs
  <2>3. h.top = top /\ h.parts = One(a) BY <2>1, SwitchedIs
  <2>4. x \in Seq(V) /\ a \in SourceOf(V) BY <1>19 DEF Trails
  <2>5. SwitchIs(V, h, x, top, One(a)) BY <1>5, <1>19, <2>1, <2>4 DEF SwitchIs
  <2>6. SwitchInv(V, h, x) BY <2>5 DEF SwitchInv
  <2>7. Current(z, a.contents, a.closed) BY <1>9, <1>19 DEF SameVec
  <2> QED BY <1>3, <1>5, <1>18, <1>19, <2>2, <2>3, <2>6, <2>7 DEF SwitchAnswers
<1>22. CASE b.queue # <<>>
  <2>1. PICK d :
          /\ Answer(b) = SomeDiff(d) /\ d = Head(b.queue)
          /\ Applicable(d, from)
          /\ LenAfter(d, Len(from)) = Len(Apply(d, from))
          /\ Trails(V, AfterPoll(b), Apply(d, from))
          /\ SameVec(AfterPoll(b), b)
    BY <1>9, <1>22, TrailTaken
  <2>2. r.poll = "Some" /\ r.diff = d BY <1>13, <2>1, SomeIs
  <2>3. g = SwitchDiff(s, d, t.queue # <<>>) BY <1>16, <2>2, Zenon
  <2>4. PICK x : x = Apply(d, from) OBVIOUS
  <2>5. CASE t.queue # <<>> /\ Len(w) # 0
    <3>1. from = <<>> BY <1>8, <1>21, <2>5
    <3>2. [s EXCEPT !.len = Len(Apply(d, <<>>))] = Switched(top, One(a), Len(x))
      BY <1>11, <2>4, <3>1, SwitchedIs
    <3>3. SwitchDiff(s, d, t.queue # <<>>)
             = Polled([s EXCEPT !.len = Len(Apply(d, <<>>))],
                      SomeDiff(ReplaceDiff(Apply(d, <<>>))))
      BY <1>17, <2>5, Zenon DEF SwitchDiff
    <3>4. g = Polled(Switched(top, One(a), Len(x)), SomeDiff(ReplaceDiff(x)))
      BY <2>3, <2>4, <3>1, <3>2, <3>3
    <3>5. Applicable(ReplaceDiff(x), w) /\ Apply(ReplaceDiff(x), w) = x
      BY ApplyReplace
    <3>6. Trails(V, a, x) /\ SameVec(a, b) BY <1>10, <2>1, <2>4
    <3> QED BY <1>15, <1>19, <3>4, <3>5, <3>6
  <2>6. CASE ~(t.queue # <<>> /\ Len(w) # 0)
    <3>1. from = w
      <4>1. CASE t.queue = <<>> BY <1>8, <4>1
      <4>2. CASE t.queue # <<>> /\ Len(w) = 0 BY <1>2, <1>8, <1>21, <4>2, EmptySeq
      <4> QED BY <2>6, <4>1, <4>2
    <3>2. [s EXCEPT !.len = LenAfter(d, @)] = Switched(top, One(a), Len(x))
      <4>1. [s EXCEPT !.len = LenAfter(d, @)] = [s EXCEPT !.len = LenAfter(d, s.len)]
        OBVIOUS
      <4>2. [s EXCEPT !.len = Len(x)] = Switched(top, One(a), Len(x))
        BY <1>11, SwitchedIs
      <4>3. LenAfter(d, Len(w)) = Len(x) BY <2>1, <2>4, <3>1
      <4> QED BY <1>17, <4>1, <4>2, <4>3
    <3>3. SwitchDiff(s, d, t.queue # <<>>)
             = Polled([s EXCEPT !.len = LenAfter(d, @)], SomeDiff(d))
      BY <1>17, <2>6, Zenon DEF SwitchDiff
    <3>4. g = Polled(Switched(top, One(a), Len(x)), SomeDiff(d))
      BY <2>3, <3>2, <3>3
    <3>5. Applicable(d, w) /\ Apply(d, w) = x BY <2>1, <2>4, <3>1
    <3>6. Trails(V, a, x) /\ SameVec(a, b) BY <1>10, <2>1, <2>4
    <3> QED BY <1>15, <1>19, <3>4, <3>5, <3>6
  <2> QED BY <2>5, <2>6
<1>23. CASE b.queue = <<>>
  <2>1. /\ r = IF b.closed THEN None ELSE Pending
        /\ from = b.contents
        /\ Trails(V, a, from) /\ SameVec(a, b) /\ Asked(a)
    <3>1. /\ Answer(b) = IF b.closed THEN None ELSE Pending
          /\ from = b.contents
          /\ Trails(V, AfterPoll(b), from) /\ SameVec(AfterPoll(b), b)
          /\ Asked(AfterPoll(b))
      BY <1>9, <1>23, TrailNotTaken
    <3> QED BY <1>10, <1>13, <3>1
  <2>2. r.poll # "Some" /\ (r.poll = "None" <=> b.closed)
    BY <2>1 DEF None, Pending
  <2>3. t.queue # <<>> => ~b.closed BY <1>9, <1>23
  <2>4. CASE t.queue # <<>>
    <3>1. g = NewSignalVec(s)
      <4>1. r.poll # "Some" /\ r.poll # "None" BY <2>2, <2>3, <2>4
      <4> QED BY <1>16, <2>4, <4>1, Zenon
    <3>2. from = e /\ Trails(V, a, e) BY <1>8, <2>1, <2>4
    <3>3. CASE Len(w) # 0
      <4>1. [s EXCEPT !.len = 0] = Switched(top, One(a), 0) BY <1>11, SwitchedIs
      <4>2. NewSignalVec(s) = Polled([s EXCEPT !.len = 0], SomeDiff(ReplaceDiff(<<>>)))
        BY <1>17, <3>3, Zenon DEF NewSignalVec
      <4>3. Len(e) = 0 BY <1>21
      <4>4. g = Polled(Switched(top, One(a), Len(e)), SomeDiff(ReplaceDiff(e)))
        BY <1>21, <3>1, <4>1, <4>2, <4>3
      <4>5. Applicable(ReplaceDiff(e), w) /\ Apply(ReplaceDiff(e), w) = e
        BY ApplyReplace
      <4> QED BY <1>15, <1>19, <2>1, <3>2, <4>4, <4>5
    <3>4. CASE Len(w) = 0
      <4>1. w = e BY <1>2, <1>21, <3>4, EmptySeq
      <4>2. NewSignalVec(s) = Polled(s, Pending)
        BY <1>17, <3>4, Zenon DEF NewSignalVec
      <4>3. g.st = s /\ g.answer = Pending BY <3>1, <4>2, PolledIs
      <4>4. a.closed = b.closed /\ a.contents = b.contents BY <2>1 DEF SameVec
      <4>5. a \in SourceOf(V) BY <2>1 DEF Trails
      <4>6. SwitchIs(V, s, w, top, One(a))
        BY <1>2, <1>5, <1>11, <3>2, <4>1, <4>5 DEF SwitchIs
      <4>7. SwitchInv(V, s, w) BY <4>6 DEF SwitchInv
      <4>8. ~(top.closed /\ a.closed) BY <2>3, <2>4, <4>4
      <4>9. Current(z, a.contents, a.closed) BY <1>9, <4>4
      <4>10. w = a.contents BY <2>1, <3>2, <4>1, <4>4
      <4> QED
        BY <1>3, <1>5, <1>15, <1>17, <1>18, <2>1, <4>3, <4>7, <4>8, <4>9, <4>10
        DEF SwitchAnswers
    <3> QED BY <3>3, <3>4
  <2>5. CASE t.queue = <<>>
    <3>1. from = w BY <1>8, <2>5
    <3>2. a.closed = b.closed /\ a.contents = b.contents BY <2>1 DEF SameVec
    <3>3. top.held = ~top.closed BY <1>5, Zenon DEF Asked
    <3>4. g = Polled(s, IF top.closed /\ b.closed THEN None ELSE Pending)
      <4>1. CASE top.closed /\ b.closed
        <5>1. r.poll = "None" /\ ~top.held BY <2>2, <3>3, <4>1
        <5>2. r.poll # "Some" BY <2>2
        <5> QED BY <1>16, <2>5, <4>1, <5>1, <5>2, Zenon
      <4>2. CASE ~(top.closed /\ b.closed)
        <5>1. ~(r.poll = "None" /\ ~top.held) /\ r.poll # "Some"
          BY <2>2, <3>3, <4>2
        <5> QED BY <1>16, <2>5, <4>2, <5>1, Zenon
      <4> QED BY <4>1, <4>2
    <3>5. g.st = s /\ g.answer = IF top.closed /\ b.closed THEN None ELSE Pending
      BY <3>4, PolledIs
    <3>6. a \in SourceOf(V) BY <2>1 DEF Trails
    <3>7. SwitchIs(V, s, w, top, One(a))
      BY <1>2, <1>5, <1>11, <2>1, <3>1, <3>6 DEF SwitchIs
    <3>8. SwitchInv(V, s, w) BY <3>7 DEF SwitchInv
    <3>9. Current(z, a.contents, a.closed) BY <1>9, <3>2
    <3>10. w = a.contents BY <2>1, <3>1, <3>2
    <3> QED
      BY <1>3, <1>5, <1>15, <1>17, <1>18, <2>1, <3>2, <3>5, <3>8, <3>9, <3>10
      DEF SwitchAnswers
  <2> QED BY <2>4, <2>5
<1> QED BY <1>22, <1>23

-----------------------------------------------------------------------------
(* VecJoins, with its chain and its switch_signal_vec, at every step.      *)

\* The operators of the instance are those that the theorems above are about.
LEMMA JoinDiffs ==
    ASSUME NEW d, NEW s
    PROVE  /\ Join!Apply(d, s) = Apply(d, s)
           /\ Join!Applicable(d, s) = Applicable(d, s)
           /\ Join!NewValues(d) = NewValues(d)
           /\ Join!Source(d) = Source(d)
           /\ Join!Polled(d, s) = Polled(d, s)
           /\ Join!Pending = Pending /\ Join!None = None
BY Zenon
   DEF Join!Apply, Apply, Join!Applicable, Applicable, Join!NewValues,
       NewValues, Join!Source, Source, Join!Polled, Polled, Join!Pending,
       Pending, Join!None, None, Join!VecInsert, VecInsert, Join!VecRemove,
       VecRemove, Join!VecPop, VecPop, Join!VecMove, VecMove,
       Join!InsertAt, InsertAt, Join!RemoveAt, RemoveAt, Join!ReplaceAt,
       ReplaceAt, Join!Front, Front, Join!ReplaceDiff, ReplaceDiff

LEMMA JoinLegal ==
    ASSUME NEW s, NEW V, NEW max
    PROVE  Join!LegalDiffs(s, V, max) = LegalDiffs(s, V, max)
BY DEF Join!LegalDiffs, LegalDiffs, Join!SeqOf, SeqOf, Join!ReplaceDiff,
       ReplaceDiff, Join!InsertDiff, InsertDiff, Join!UpdateDiff,
       UpdateDiff, Join!RemoveDiff, RemoveDiff, Join!MoveDiff, MoveDiff,
       Join!PushDiff, PushDiff, Join!PopDiff, PopDiff, Join!ClearDiff,
       ClearDiff

LEMMA JoinParts ==
    ASSUME NEW z, NEW d
    PROVE  /\ Join!RightChange(z, d) = RightChange(z, d)
           /\ Join!ProcessRight(z) = ProcessRight(z)
           /\ Join!ProcessWhole(z, d) = ProcessWhole(z, d)
           /\ Join!PendingFirst(z) = PendingFirst(z)
           /\ Join!FoundOr(z, d) = FoundOr(z, d)
           /\ Join!SwitchPoll(z) = SwitchPoll(z)
BY Zenon
   DEF Join!RightChange, RightChange, Join!ProcessRight, ProcessRight,
       Join!ProcessWhole, ProcessWhole, Join!PendingFirst, PendingFirst,
       Join!FoundOr, FoundOr, Join!SwitchPoll, SwitchPoll,
       Join!NewSignalVec, NewSignalVec, Join!SwitchDiff, SwitchDiff,
       Join!Drained, Drained, Join!Source, Source, Join!Answer, Answer,
       Join!AfterPoll, AfterPoll, Join!LenAfter, LenAfter, Join!Shift,
       Shift, Join!NewValues, NewValues, Join!Pops, Pops, Join!Pushes,
       Pushes, Join!Removes, Removes, Join!Inserts, Inserts, Join!Fed, Fed,
       Join!Polled, Polled, Join!SomeDiff, SomeDiff, Join!None, None,
       Join!Pending, Pending, Join!Apply, Apply, Join!VecInsert, VecInsert,
       Join!VecRemove, VecRemove, Join!VecPop, VecPop, Join!VecMove,
       VecMove, Join!InsertAt, InsertAt, Join!RemoveAt, RemoveAt,
       Join!ReplaceAt, ReplaceAt, Join!Front, Front, Join!ReplaceDiff,
       ReplaceDiff, Join!InsertDiff, InsertDiff, Join!UpdateDiff,
       UpdateDiff, Join!RemoveDiff, RemoveDiff, Join!MoveDiff, MoveDiff,
       Join!PushDiff, PushDiff, Join!PopDiff, PopDiff, Join!ClearDiff,
       ClearDiff

LEMMA JoinLeft ==
    ASSUME NEW z
    PROVE  Join!ProcessLeft(z) = ProcessLeft(z)
BY JoinParts, ZenonT(60)
   DEF Join!ProcessLeft, ProcessLeft, Join!Fed, Fed, Join!Answer, Answer,
       Join!AfterPoll, AfterPoll, Join!SomeDiff, SomeDiff, Join!None, None,
       Join!Pending, Pending, Join!LenAfter, LenAfter, Join!InsertDiff,
       InsertDiff, Join!RemoveDiff, RemoveDiff

LEMMA JoinChain ==
    ASSUME NEW z
    PROVE  Join!ChainPoll(z) = ChainPoll(z)
BY JoinLeft, JoinParts, JoinDiffs, SMT DEF Join!ChainPoll, ChainPoll

-----------------------------------------------------------------------------
(* What the inputs do.                                                     *)

\* The diffs of a SignalVec whose values are in W.
LEMMA LegalOver ==
    ASSUME NEW V, NEW W \in SUBSET V, NEW max \in Nat, NEW s \in Seq(V),
           NEW d \in LegalDiffs(s, W, max)
    PROVE  d \in DiffsOver(V) /\ Applicable(d, s)
<1>1. Len(s) \in Nat BY LenProperties
<1>2. CASE \E vs \in SeqOf(W, max) : d = ReplaceDiff(vs)
  <2> PICK vs \in SeqOf(W, max) : d = ReplaceDiff(vs) BY <1>2
  <2>1. vs \in Seq(W) BY ShortSeqs
  <2>2. vs \in Seq(V)
    <3>1. \A i \in 1..Len(vs) : vs[i] \in V BY <2>1, ElementOfSeq
    <3>2. vs \in [1..Len(vs) -> V] /\ Len(vs) \in Nat
      <4>1. vs \in [1..Len(vs) -> W] /\ Len(vs) \in Nat BY <2>1, LenProperties
      <4> QED BY <3>1, <4>1
    <3> QED BY <3>2
  <2> QED BY <2>2, ApplyReplace DEF DiffsOver
<1>3. CASE \E i \in 0..Len(s), v \in W : d = InsertDiff(i, v)
  <2> PICK i \in 0..Len(s), v \in W : d = InsertDiff(i, v) BY <1>3
  <2>1. i \in Nat /\ v \in V OBVIOUS
  <2> QED BY <2>1, ApplyInsert DEF DiffsOver
<1>4. CASE \E v \in W : d = PushDiff(v)
  <2> PICK v \in W : d = PushDiff(v) BY <1>4
  <2>1. v \in V OBVIOUS
  <2> QED BY <2>1, ApplyPush DEF DiffsOver
<1>5. CASE \E i \in 0..(Len(s) - 1), v \in W : d = UpdateDiff(i, v)
  <2> PICK i \in 0..(Len(s) - 1), v \in W : d = UpdateDiff(i, v) BY <1>5
  <2>1. i \in Nat /\ v \in V OBVIOUS
  <2> QED BY <2>1, ApplyUpdate DEF DiffsOver
<1>6. CASE \E i \in 0..(Len(s) - 1) : d = RemoveDiff(i)
  <2> PICK i \in 0..(Len(s) - 1) : d = RemoveDiff(i) BY <1>6
  <2>1. i \in Nat OBVIOUS
  <2> QED BY <2>1, ApplyRemove DEF DiffsOver
<1>7. CASE \E i, j \in 0..(Len(s) - 1) : d = MoveDiff(i, j)
  <2> PICK i \in 0..(Len(s) - 1), j \in 0..(Len(s) - 1) : d = MoveDiff(i, j)
    BY <1>7
  <2>1. i \in Nat /\ j \in Nat /\ {i, j} \subseteq 0..(Len(s) - 1) OBVIOUS
  <2> QED BY <2>1, ApplyMove DEF DiffsOver
<1>8. CASE (\E i \in 1..Len(s) : TRUE) /\ d = PopDiff
  <2>1. s # <<>> BY <1>8, EmptySeq
  <2> QED BY <1>8, <2>1, ApplyPop DEF DiffsOver
<1>9. CASE d = ClearDiff BY <1>9, ApplyClear DEF DiffsOver
<1> HIDE <1>1
<1> QED BY <1>2, <1>3, <1>4, <1>5, <1>6, <1>7, <1>8, <1>9, LegalIs

LEMMA SentIs ==
    ASSUME NEW V, NEW src \in SourceOf(V),
           NEW d \in DiffsOver(V), Applicable(d, src.contents)
    PROVE  /\ WithSent(src, d) \in SourceOf(V)
           /\ WithSent(src, d).queue = Append(src.queue, d)
           /\ WithSent(src, d).contents = Apply(d, src.contents)
           /\ WithSent(src, d).closed = src.closed
<1>1. src.contents \in Seq(V) /\ src.queue \in Seq(DiffsOver(V)) BY DEF SourceOf
<1>2. PICK s \in Seq(V) : s = Apply(d, src.contents) BY <1>1, WholeIs
<1>3. PICK q \in Seq(DiffsOver(V)) : q = Append(src.queue, d)
  BY <1>1, AppendProperties
<1>4. PICK a : a = [src EXCEPT !.queue = q] OBVIOUS
<1>5. a \in SourceOf(V) /\ a.queue = q /\ a.closed = src.closed
  BY <1>4 DEF SourceOf
<1>6. PICK b : b = [a EXCEPT !.contents = s] OBVIOUS
<1>7. b \in SourceOf(V) /\ b.queue = q /\ b.closed = src.closed /\ b.contents = s
  BY <1>5, <1>6 DEF SourceOf
<1>8. PICK c : c = [b EXCEPT !.waker = FALSE] OBVIOUS
<1>9. c \in SourceOf(V) /\ c.queue = q /\ c.closed = src.closed /\ c.contents = s
  BY <1>7, <1>8 DEF SourceOf
<1>10. c = WithSent(src, d) BY <1>2, <1>3, <1>4, <1>6, <1>8 DEF WithSent
<1> QED BY <1>2, <1>3, <1>9, <1>10

LEMMA EndIs ==
    ASSUME NEW src, NEW V
    PROVE  /\ src \in SourceOf(V) =>
                /\ WithEnd(src) \in SourceOf(V)
                /\ WithEnd(src).queue = src.queue
                /\ WithEnd(src).contents = src.contents
           /\ src \in SignalOf(V) =>
                /\ WithEnd(src) \in SignalOf(V)
                /\ WithEnd(src).queue = src.queue
BY DEF WithEnd, SourceOf, SignalOf

LEMMA SentBehind ==
    ASSUME NEW V, NEW src, NEW s, Behind(V, src, s),
           NEW d \in DiffsOver(V), Applicable(d, src.contents),
           ~Void(d, src.contents)
    PROVE  Behind(V, WithSent(src, d), s)
<1>1. src \in SourceOf(V) /\ s \in Seq(V) /\ Owed(V, src.queue, s, src.contents)
  BY DEF Behind
<1>2. src.contents \in Seq(V) BY <1>1 DEF SourceOf
<1>3. Owed(V, Append(src.queue, d), s, Apply(d, src.contents))
  BY <1>1, <1>2, OwedMore
<1>4. /\ WithSent(src, d) \in SourceOf(V)
      /\ WithSent(src, d).queue = Append(src.queue, d)
      /\ WithSent(src, d).contents = Apply(d, src.contents)
  BY <1>1, SentIs
<1> QED BY <1>1, <1>3, <1>4 DEF Behind

LEMMA EndBehind ==
    ASSUME NEW V, NEW src, NEW s, Behind(V, src, s)
    PROVE  Behind(V, WithEnd(src), s)
BY EndIs DEF Behind

LEMMA SentTrails ==
    ASSUME NEW V, NEW src, NEW s, Trails(V, src, s),
           NEW d \in DiffsOver(V), Applicable(d, src.contents)
    PROVE  Trails(V, WithSent(src, d), s)
<1>1. src \in SourceOf(V) /\ s \in Seq(V) /\ Reaches(V, src.queue, s, src.contents)
  BY DEF Trails
<1>2. src.contents \in Seq(V) /\ src.queue \in Seq(DiffsOver(V)) BY <1>1 DEF SourceOf
<1>3. PICK t \in Seq(V) : t = Apply(d, src.contents) BY <1>2, WholeIs
<1>4. PICK p : p = <<d>> OBVIOUS
<1>5. Reaches(V, p, src.contents, t) BY <1>2, <1>3, <1>4, ReachesOne
<1>6. Reaches(V, src.queue \o p, s, t) BY <1>1, <1>5, ReachesThen
<1>7. src.queue \o p = Append(src.queue, d)
  BY <1>2, <1>4, AppendIsConcat
<1>8. /\ WithSent(src, d) \in SourceOf(V)
      /\ WithSent(src, d).queue = Append(src.queue, d)
      /\ WithSent(src, d).contents = t
  BY <1>1, <1>3, SentIs
<1> QED BY <1>1, <1>6, <1>7, <1>8 DEF Trails

LEMMA EndTrails ==
    ASSUME NEW V, NEW src, NEW s, Trails(V, src, s)
    PROVE  Trails(V, WithEnd(src), s)
BY EndIs DEF Trails

-----------------------------------------------------------------------------
(* chain, its inputs and the task.                                         *)

\* A receiver of an empty vector.
LEMMA NoVecIs ==
    ASSUME NEW V
    PROVE  /\ Behind(V, Source(Join!NoVec), <<>>)
           /\ Source(Join!NoVec).queue = <<>>
<1>1. PICK e : e = <<>> OBVIOUS
<1>2. PICK a : a = Source(Join!NoVec) OBVIOUS
<1>3. a = [contents |-> e, closed |-> FALSE, alphabet |-> {}, queue |-> e,
           waker |-> FALSE, held |-> TRUE, len |-> 0]
  BY <1>1, <1>2 DEF Source, Join!NoVec
<1>4. e \in Seq(V) /\ e \in Seq(DiffsOver(V)) BY <1>1
<1>5. a \in SourceOf(V) /\ a.queue = e /\ a.contents = e BY <1>3, <1>4 DEF SourceOf
<1>6. Owed(V, e, e, e) BY <1>1, <1>4, OwedNothing
<1> QED BY <1>1, <1>2, <1>4, <1>5, <1>6 DEF Behind

LEMMA ChainHoldsFirst ==
    ASSUME Join!Init, Join!BoundsAssumption
    PROVE  ChainHolds
<1> SUFFICES ASSUME kind = "chain" PROVE ChainHolds BY DEF ChainHolds
<1>1. PICK e : e = <<>> OBVIOUS
<1>2. PICK a : a = Source(Join!NoVec) OBVIOUS
<1>3. joined = Chained(a, a, 0, 0, e)
  <2>1. joined = Join!ChainState(Join!Source(Join!NoVec), Join!Source(Join!NoVec))
    BY Zenon DEF Join!Init
  <2> QED BY <1>1, <1>2, <2>1, JoinDiffs DEF Join!ChainState, Chained
<1>4. joinWoken = TRUE /\ joinPc = "waiting" /\ joinView = e
  BY <1>1 DEF Join!Init
<1>5. Behind(ChainValues, a, e) /\ a.queue = e BY <1>1, <1>2, NoVecIs
<1>6. Reaches(ChainValues, e, e, e \o e)
  <2>1. e \in Seq(ChainValues) /\ e \o e = e BY <1>1
  <2> QED BY <1>1, <2>1, ReachesNone
<1>7. Len(e) = 0 /\ e \in Seq(ChainValues) BY <1>1
<1>8. ChainIs(ChainValues, joined, joinView, a, a, e, e, e)
  BY <1>3, <1>4, <1>5, <1>6, <1>7 DEF ChainIs
<1>9. ChainInv(ChainValues, joined, joinView) BY <1>7, <1>8 DEF ChainInv
<1>10. joined.top = a BY <1>3, ChainedIs
<1>11. MaxJoinQueue \in Nat BY DEF Join!BoundsAssumption
<1> QED BY <1>4, <1>5, <1>7, <1>9, <1>10, <1>11 DEF ChainHolds

\* An input that changes does so for what is owed too.
LEMMA TopFollows ==
    ASSUME NEW V, NEW z, NEW w, ChainInv(V, z, w), NEW t,
           \A l : Behind(V, z.top, l) => Behind(V, t, l)
    PROVE  ChainInv(V, [z EXCEPT !.top = t], w)
<1>1. PICK t0, q, p : \E l \in Seq(V), r \in Seq(V) : ChainIs(V, z, w, t0, q, l, r, p)
  BY DEF ChainInv
<1>2. PICK l \in Seq(V), r \in Seq(V) : ChainIs(V, z, w, t0, q, l, r, p) BY <1>1
<1>3. z = Chained(t0, q, Len(l), Len(r), p) /\ Behind(V, t0, l) BY <1>2 DEF ChainIs
<1>4. z.top = t0 /\ [z EXCEPT !.top = t] = Chained(t, q, Len(l), Len(r), p)
  BY <1>3, ChainedIs
<1>5. ChainIs(V, [z EXCEPT !.top = t], w, t, q, l, r, p)
  BY <1>2, <1>3, <1>4 DEF ChainIs
<1> QED BY <1>5 DEF ChainInv

LEMMA TopIs ==
    ASSUME NEW V, NEW z, NEW w, ChainInv(V, z, w), NEW t
    PROVE  [z EXCEPT !.top = t].top = t
<1>1. PICK t0, q, p : \E l \in Seq(V), r \in Seq(V) : ChainIs(V, z, w, t0, q, l, r, p)
  BY DEF ChainInv
<1>2. PICK l \in Seq(V), r \in Seq(V) : ChainIs(V, z, w, t0, q, l, r, p) BY <1>1
<1>3. z = Chained(t0, q, Len(l), Len(r), p) BY <1>2 DEF ChainIs
<1>4. [z EXCEPT !.top = t] = Chained(t, q, Len(l), Len(r), p)
  BY <1>3, ChainedIs
<1> QED BY <1>4, ChainedIs

LEMMA RightFollows ==
    ASSUME NEW V, NEW z, NEW w, ChainInv(V, z, w), NEW q,
           \A r : Behind(V, z.right, r) => Behind(V, q, r)
    PROVE  /\ ChainInv(V, [z EXCEPT !.right = q], w)
           /\ [z EXCEPT !.right = q].top = z.top
<1>1. PICK t, q0, p : \E l \in Seq(V), r \in Seq(V) : ChainIs(V, z, w, t, q0, l, r, p)
  BY DEF ChainInv
<1>2. PICK l \in Seq(V), r \in Seq(V) : ChainIs(V, z, w, t, q0, l, r, p) BY <1>1
<1>3. z = Chained(t, q0, Len(l), Len(r), p) /\ Behind(V, q0, r) BY <1>2 DEF ChainIs
<1>4. /\ z.right = q0 /\ z.top = t
      /\ [z EXCEPT !.right = q] = Chained(t, q, Len(l), Len(r), p)
  BY <1>3, ChainedIs
<1>5. ChainIs(V, [z EXCEPT !.right = q], w, t, q, l, r, p)
  BY <1>2, <1>3, <1>4 DEF ChainIs
<1>6. [z EXCEPT !.right = q].top = z.top BY <1>4, ChainedIs
<1> QED BY <1>5, <1>6 DEF ChainInv

\* The inputs are SignalVecs.
LEMMA InputsAre ==
    ASSUME NEW V, NEW z, NEW w, ChainInv(V, z, w)
    PROVE  z.top \in SourceOf(V) /\ z.right \in SourceOf(V)
<1>1. PICK t, q, p : \E l \in Seq(V), r \in Seq(V) : ChainIs(V, z, w, t, q, l, r, p)
  BY DEF ChainInv
<1>2. PICK l \in Seq(V), r \in Seq(V) : ChainIs(V, z, w, t, q, l, r, p) BY <1>1
<1>3. /\ z = Chained(t, q, Len(l), Len(r), p)
      /\ Behind(V, t, l) /\ Behind(V, q, r)
  BY <1>2 DEF ChainIs
<1>4. z.top = t /\ z.right = q BY <1>3, ChainedIs
<1> QED BY <1>3, <1>4 DEF Behind

\* It waits only with wakers, so that the task will poll after any change.
LEMMA ChangeWakes ==
    ASSUME joinWoken \in BOOLEAN, joinPc = "waiting", NEW src, NEW new,
           ~src.closed, ~joinWoken => Listened(src), Join!Change(new, src)
    PROVE  /\ joined' = new /\ joinWoken' = TRUE
           /\ joinPc' = "waiting" /\ joinView' = joinView /\ kind' = kind
BY DEF Join!Change, Listened

LEMMA JoinSent ==
    ASSUME kind \in {"chain", "switch"}, NEW src, NEW d
    PROVE  Join!Sent(src, d) = WithSent(src, d)
<1>1. Join!Applied(d, src.contents) = Apply(d, src.contents)
  BY JoinDiffs DEF Join!Applied, Join!OfMap
<1>2. [src EXCEPT !.queue = Append(@, d), !.contents = Join!Applied(d, @),
                  !.waker = FALSE]
         = [[[src EXCEPT !.queue = Append(src.queue, d)]
                EXCEPT !.contents = Join!Applied(d, src.contents)]
               EXCEPT !.waker = FALSE]
  OBVIOUS
<1> QED BY <1>1, <1>2 DEF Join!Sent, WithSent

LEMMA JoinEnd ==
    ASSUME NEW src
    PROVE  Join!Close(src) = WithEnd(src)
BY DEF Join!Close, WithEnd

\* What chain gets wrong is what is void.
LEMMA JoinAwkward ==
    ASSUME NothingAwkward, kind = "chain", NEW d, NEW src,
           Join!IsAwkward(d, src) => kind \in Awkward
    PROVE  ~Void(d, src.contents)
<1>1. Join!IsAwkward(d, src) <=> /\ d.op \in {"Replace", "Clear"}
                                 /\ Join!NewValues(d) = <<>>
                                 /\ src.contents = <<>>
  BY Zenon DEF Join!IsAwkward
<1> QED BY <1>1, JoinDiffs DEF NothingAwkward, Void, IsWhole

\* When the task will poll, its output only has to be on the way.
LEMMA ChainAwake ==
    ASSUME ChainInv(ChainValues, joined', joinView'), joinWoken' = TRUE,
           joinPc' = "waiting", Len(joined'.top.queue) <= MaxJoinQueue
    PROVE  ChainHolds'
BY DEF ChainHolds

LEMMA ChainTopSends ==
    ASSUME ChainHolds, NothingAwkward, Join!BoundsAssumption,
           kind = "chain", joinPc = "waiting", Join!TopSends
    PROVE  ChainHolds'
<1> DEFINE V == ChainValues
           src == joined.top
<1>1. /\ ChainInv(V, joined, joinView) /\ joinWoken \in BOOLEAN
      /\ ~joinWoken => Listened(src)
  BY DEF ChainHolds, ChainRests
<1>2. PICK d \in Join!LegalDiffs(src.contents, JoinValues["chain"], MaxJoinLen) :
        /\ Join!CanSend(src)
        /\ Join!IsAwkward(d, src) => kind \in Awkward
        /\ Join!Change([joined EXCEPT !.top = Join!Sent(@, d)], src)
  BY DEF Join!TopSends, Join!OfMap
<1>3. src \in SourceOf(V) BY <1>1, InputsAre
<1>4. src.contents \in Seq(V) /\ src.queue \in Seq(DiffsOver(V)) BY <1>3 DEF SourceOf
<1>5. d \in DiffsOver(V) /\ Applicable(d, src.contents)
  <2>1. JoinValues["chain"] \in SUBSET V BY DEF ChainValues
  <2>2. MaxJoinLen \in Nat BY DEF Join!BoundsAssumption
  <2> HIDE DEF V
  <2> QED BY <1>2, <1>4, <2>1, <2>2, JoinLegal, LegalOver
<1>6. ~Void(d, src.contents) BY <1>2, JoinAwkward
<1>7. ~src.closed /\ Len(src.queue) < MaxJoinQueue BY <1>2 DEF Join!CanSend
<1>8. PICK t : t = WithSent(src, d) OBVIOUS
<1>9. \A l : Behind(V, joined.top, l) => Behind(V, t, l)
  BY <1>5, <1>6, <1>8, SentBehind
<1>10. PICK z : z = [joined EXCEPT !.top = t] OBVIOUS
<1>11. Join!Change(z, src)
  <2>1. [joined EXCEPT !.top = Join!Sent(@, d)]
           = [joined EXCEPT !.top = Join!Sent(joined.top, d)]
    OBVIOUS
  <2> QED BY <1>2, <1>8, <1>10, <2>1, JoinSent
<1>12. ChainInv(V, z, joinView) BY <1>1, <1>9, <1>10, TopFollows
<1>13. z.top = t BY <1>1, <1>10, TopIs
<1>14. Len(z.top.queue) <= MaxJoinQueue
  <2>1. t.queue = Append(src.queue, d) BY <1>3, <1>5, <1>8, SentIs
  <2>2. Len(Append(src.queue, d)) = Len(src.queue) + 1 /\ Len(src.queue) \in Nat
    BY <1>4, <1>5, AppendProperties, LenProperties
  <2>3. MaxJoinQueue \in Nat BY DEF Join!BoundsAssumption
  <2> QED BY <1>7, <1>13, <2>1, <2>2, <2>3
<1> HIDE DEF V, src
<1>15. joined' = z /\ joinWoken' = TRUE /\ joinPc' = "waiting" /\ joinView' = joinView
  BY <1>1, <1>3, <1>7, <1>11, ChangeWakes
<1> QED BY <1>12, <1>14, <1>15, ChainAwake DEF V

LEMMA ChainRightSends ==
    ASSUME ChainHolds, NothingAwkward, Join!BoundsAssumption,
           kind = "chain", joinPc = "waiting", Join!RightSends
    PROVE  ChainHolds'
<1> DEFINE V == ChainValues
           src == joined.right
<1>1. /\ ChainInv(V, joined, joinView) /\ joinWoken \in BOOLEAN
      /\ ~joinWoken => Listened(src)
      /\ Len(joined.top.queue) <= MaxJoinQueue
  BY DEF ChainHolds, ChainRests
<1>2. PICK d \in Join!LegalDiffs(src.contents, RightValues, MaxPart) :
        /\ Join!CanSend(src)
        /\ Join!IsAwkward(d, src) => kind \in Awkward
        /\ Join!Change([joined EXCEPT !.right = Join!Sent(@, d)], src)
  BY DEF Join!RightSends
<1>3. src \in SourceOf(V) BY <1>1, InputsAre
<1>4. src.contents \in Seq(V) BY <1>3 DEF SourceOf
<1>5. d \in DiffsOver(V) /\ Applicable(d, src.contents)
  <2>1. RightValues \in SUBSET V BY DEF ChainValues
  <2>2. MaxPart \in Nat BY DEF Join!BoundsAssumption
  <2> HIDE DEF V
  <2> QED BY <1>2, <1>4, <2>1, <2>2, JoinLegal, LegalOver
<1>6. ~Void(d, src.contents) BY <1>2, JoinAwkward
<1>7. ~src.closed BY <1>2 DEF Join!CanSend
<1>8. PICK t : t = WithSent(src, d) OBVIOUS
<1>9. \A l : Behind(V, joined.right, l) => Behind(V, t, l)
  BY <1>5, <1>6, <1>8, SentBehind
<1>10. PICK z : z = [joined EXCEPT !.right = t] OBVIOUS
<1>11. Join!Change(z, src)
  <2>1. [joined EXCEPT !.right = Join!Sent(@, d)]
           = [joined EXCEPT !.right = Join!Sent(joined.right, d)]
    OBVIOUS
  <2> QED BY <1>2, <1>8, <1>10, <2>1, JoinSent
<1>12. ChainInv(V, z, joinView) /\ z.top = joined.top
  BY <1>1, <1>9, <1>10, RightFollows
<1> HIDE DEF V, src
<1>13. joined' = z /\ joinWoken' = TRUE /\ joinPc' = "waiting" /\ joinView' = joinView
  BY <1>1, <1>3, <1>7, <1>11, ChangeWakes
<1> QED BY <1>1, <1>12, <1>13, ChainAwake DEF V

LEMMA ChainCloses ==
    ASSUME ChainHolds, kind = "chain", joinPc = "waiting", Join!Closes
    PROVE  ChainHolds'
<1> DEFINE V == ChainValues
<1>1. /\ ChainInv(V, joined, joinView) /\ joinWoken \in BOOLEAN
      /\ ~joinWoken => Listened(joined.top) /\ Listened(joined.right)
      /\ Len(joined.top.queue) <= MaxJoinQueue
  BY DEF ChainHolds, ChainRests
<1>2. joined.top \in SourceOf(V) /\ joined.right \in SourceOf(V) BY <1>1, InputsAre
<1>3. CASE /\ ~joined.top.closed
           /\ Join!Change([joined EXCEPT !.top = Join!Close(@)], joined.top)
  <2>1. PICK t : t = WithEnd(joined.top) OBVIOUS
  <2>2. PICK z : z = [joined EXCEPT !.top = t] OBVIOUS
  <2>3. Join!Change(z, joined.top)
    <3>1. [joined EXCEPT !.top = Join!Close(@)]
             = [joined EXCEPT !.top = Join!Close(joined.top)]
      OBVIOUS
    <3> QED BY <1>3, <2>1, <2>2, <3>1, JoinEnd
  <2>4. \A l : Behind(V, joined.top, l) => Behind(V, t, l) BY <2>1, EndBehind
  <2>5. ChainInv(V, z, joinView) BY <1>1, <2>2, <2>4, TopFollows
  <2>6. z.top = t BY <1>1, <2>2, TopIs
  <2>7. t.queue = joined.top.queue BY <1>2, <2>1, EndIs
  <2> HIDE DEF V
  <2>8. joined' = z /\ joinWoken' = TRUE /\ joinPc' = "waiting" /\ joinView' = joinView
    BY <1>1, <1>2, <1>3, <2>3, ChangeWakes
  <2> QED BY <1>1, <2>5, <2>6, <2>7, <2>8, ChainAwake DEF V
<1>4. CASE /\ ~joined.right.closed
           /\ Join!Change([joined EXCEPT !.right = Join!Close(@)], joined.right)
  <2>1. PICK q : q = WithEnd(joined.right) OBVIOUS
  <2>2. PICK z : z = [joined EXCEPT !.right = q] OBVIOUS
  <2>3. Join!Change(z, joined.right)
    <3>1. [joined EXCEPT !.right = Join!Close(@)]
             = [joined EXCEPT !.right = Join!Close(joined.right)]
      OBVIOUS
    <3> QED BY <1>4, <2>1, <2>2, <3>1, JoinEnd
  <2>4. \A r : Behind(V, joined.right, r) => Behind(V, q, r) BY <2>1, EndBehind
  <2>5. ChainInv(V, z, joinView) /\ z.top = joined.top
    BY <1>1, <2>2, <2>4, RightFollows
  <2> HIDE DEF V
  <2>6. joined' = z /\ joinWoken' = TRUE /\ joinPc' = "waiting" /\ joinView' = joinView
    BY <1>1, <1>2, <1>4, <2>3, ChangeWakes
  <2> QED BY <1>1, <2>5, <2>6, ChainAwake DEF V
<1> QED BY <1>3, <1>4 DEF Join!Closes

\* The poll.
LEMMA ChainPolls ==
    ASSUME ChainHolds, Join!BoundsAssumption, kind = "chain", Join!Poll
    PROVE  ChainHolds'
<1> DEFINE V == ChainValues
<1>0. MaxJoinQueue \in Nat BY DEF Join!BoundsAssumption
<1>1. /\ ChainInv(V, joined, joinView) /\ Len(joined.top.queue) <= MaxJoinQueue
      /\ joinPc = "waiting" /\ kind' = kind
  BY DEF ChainHolds, Join!Poll
<1>2. PICK g : g = ChainPoll(joined) OBVIOUS
<1>3. Join!PollResult = g BY <1>2, JoinChain, Zenon DEF Join!PollResult
<1>4. \A d, s : Join!Fits(d, s) = Applicable(d, s) /\ Join!Applied(d, s) = Apply(d, s)
  BY JoinDiffs DEF Join!Fits, Join!Applied, Join!OfMap
<1> DEFINE some == g.answer.poll = "Some"
           fits == some /\ Applicable(g.answer.diff, joinView)
<1>5. /\ joined' = g.st
      /\ joinView' = IF fits THEN Apply(g.answer.diff, joinView) ELSE joinView
      /\ joinWoken' = fits
      /\ joinPc' = CASE g.answer.poll = "None" -> "done"
                     [] some /\ ~fits -> "panicked"
                     [] OTHER -> "waiting"
  BY <1>3, <1>4, Zenon DEF Join!Poll
<1> HIDE DEF V
<1>6. ChainAnswers(V, joined, joinView, g) BY <1>1, <1>2, ChainFollows
<1>7. CASE Answered(V, g, joinView, joined.top, joined.right)
  <2>1. PICK d : /\ g.answer = SomeDiff(d)
                 /\ Applicable(d, joinView)
                 /\ ChainInv(V, g.st, Apply(d, joinView))
    BY <1>7 DEF Answered
  <2>2. g.answer.poll = "Some" /\ g.answer.diff = d BY <2>1, SomeIs
  <2>3. fits BY <2>1, <2>2
  <2>4. joinPc' = "waiting" BY <1>5, <2>2, <2>3, Zenon
  <2>5. joinWoken' = TRUE /\ joinView' = Apply(d, joinView) /\ joined' = g.st
    BY <1>5, <2>2, <2>3
  <2>6. Len(g.st.top.queue) <= MaxJoinQueue
    BY <1>0, <1>1, <1>7 DEF Answered, SameVec
  <2> QED BY <2>1, <2>4, <2>5, <2>6, ChainAwake DEF V
<1>8. CASE /\ SameVec(g.st.top, joined.top) /\ SameVec(g.st.right, joined.right)
           /\ joinView = joined.top.contents \o joined.right.contents
           /\ ChainInv(V, g.st, joinView)
           /\ g.st.pending = <<>>
           /\ Asked(g.st.top) /\ Asked(g.st.right)
           /\ g.answer = IF joined.top.closed /\ joined.right.closed THEN None
                         ELSE Pending
  <2>1. PICK c \in BOOLEAN : c <=> joined.top.closed /\ joined.right.closed OBVIOUS
  <2>2. g.answer.poll = (IF c THEN "None" ELSE "Pending")
    BY <1>8, <2>1 DEF None, Pending
  <2>3. ~some /\ ~fits BY <2>2
  <2>4. joinPc' = (IF c THEN "done" ELSE "waiting") BY <1>5, <2>2, <2>3, Zenon
  <2>5. joinWoken' = FALSE /\ joinView' = joinView /\ joined' = g.st
    BY <1>5, <2>3, Zenon
  <2>6. Len(g.st.top.queue) <= MaxJoinQueue BY <1>0, <1>1, <1>8 DEF SameVec
  <2>7. /\ g.st.top.contents = joined.top.contents
        /\ g.st.right.contents = joined.right.contents
        /\ g.st.top.closed = joined.top.closed
        /\ g.st.right.closed = joined.right.closed
    BY <1>8 DEF SameVec
  <2>8. Listened(g.st.top) /\ Listened(g.st.right)
    BY <1>8, Zenon DEF Asked, Listened
  <2>9. ChainRests(g.st, joinView) BY <1>8, <2>7, <2>8 DEF ChainRests
  <2>10. ~c => ~(g.st.top.closed /\ g.st.right.closed) BY <2>1, <2>7
  <2> QED BY <1>8, <2>4, <2>5, <2>6, <2>9, <2>10 DEF ChainHolds, V
<1> QED BY <1>6, <1>7, <1>8 DEF ChainAnswers

-----------------------------------------------------------------------------
(* switch_signal_vec, its Signal, the SignalVecs and the task.             *)

\* What the state is made of.
LEMMA SwitchParts ==
    ASSUME NEW V, NEW z, NEW w, SwitchInv(V, z, w)
    PROVE  /\ z.top \in SignalOf(V)
           /\ z.top.queue = <<>> => z.parts # <<>>
           /\ z.parts # <<>> => /\ DOMAIN z.parts = {1}
                                /\ z.parts[1] \in SourceOf(V)
           /\ z.pending = <<>> /\ z.len = Len(w)
<1>1. PICK t, ps : SwitchIs(V, z, w, t, ps) BY DEF SwitchInv
<1>2. /\ z = Switched(t, ps, Len(w))
      /\ t \in SignalOf(V)
      /\ \/ ps = <<>> /\ t.queue # <<>>
         \/ \E a \in SourceOf(V) : ps = One(a) /\ (t.queue = <<>> => Trails(V, a, w))
  BY <1>1 DEF SwitchIs
<1>3. z.top = t /\ z.parts = ps /\ z.pending = <<>> /\ z.len = Len(w)
  BY <1>2, SwitchedIs
<1>4. CASE ps = <<>> /\ t.queue # <<>> BY <1>2, <1>3, <1>4
<1>5. CASE \E a \in SourceOf(V) : ps = One(a) /\ (t.queue = <<>> => Trails(V, a, w))
  <2>1. PICK a \in SourceOf(V) : ps = One(a) BY <1>5
  <2>2. ps # <<>> /\ DOMAIN ps = {1} /\ ps[1] = a BY <2>1, OneIs
  <2> QED BY <1>2, <1>3, <2>2
<1> QED BY <1>2, <1>4, <1>5

LEMMA SwitchHoldsFirst ==
    ASSUME NEW V, Join!Init, SwitchesOf(V)
    PROVE  SwitchHolds(V)
<1> SUFFICES ASSUME kind = "switch" PROVE SwitchHolds(V) BY DEF SwitchHolds
<1>1. PICK e : e = <<>> OBVIOUS
<1>2. PICK a : a = Source(Join!NoVec) OBVIOUS
<1>3. PICK v \in JoinValues["switch"] :
        joined = Join!NestedState([Join!Source(Join!NoVec) EXCEPT !.queue = <<v>>])
  BY Zenon DEF Join!Init
<1>4. kind \in Joins /\ joinWoken = TRUE /\ joinPc = "waiting" /\ joinView = e
  BY <1>1 DEF Join!Init
<1>5. v \in VecsOf(V) BY <1>4 DEF SwitchesOf
<1>6. PICK t : t = [a EXCEPT !.queue = <<v>>] OBVIOUS
<1>7. joined = Switched(t, e, 0)
  <2>1. Join!Source(Join!NoVec) = a BY <1>2, JoinDiffs
  <2> QED BY <1>1, <1>3, <1>6, <2>1 DEF Join!NestedState, Switched
<1>8. t \in SignalOf(V) /\ t.queue # <<>>
  <2>1. a \in [contents: Seq(V), closed: BOOLEAN, alphabet: SUBSET V,
               queue: {e}, waker: BOOLEAN, held: BOOLEAN, len: Nat]
    <3>1. a = [contents |-> e, closed |-> FALSE, alphabet |-> {}, queue |-> e,
               waker |-> FALSE, held |-> TRUE, len |-> 0]
      BY <1>1, <1>2 DEF Source, Join!NoVec
    <3>2. e \in Seq(V) BY <1>1
    <3> QED BY <3>1, <3>2
  <2>2. PICK q : q = <<v>> OBVIOUS
  <2>3. q \in {<<x>> : x \in VecsOf(V)} /\ q # <<>> BY <1>5, <2>2
  <2> QED BY <1>6, <2>1, <2>2, <2>3 DEF SignalOf
<1>9. e \in Seq(V) /\ Len(e) = 0 BY <1>1
<1>10. SwitchIs(V, joined, e, t, e) BY <1>1, <1>7, <1>8, <1>9 DEF SwitchIs
<1>11. SwitchInv(V, joined, joinView) BY <1>4, <1>10 DEF SwitchInv
<1> QED BY <1>4, <1>11 DEF SwitchHolds

LEMMA SwitchAwake ==
    ASSUME NEW V, SwitchInv(V, joined', joinView'), joinWoken' = TRUE,
           joinPc' = "waiting"
    PROVE  SwitchHolds(V)'
BY DEF SwitchHolds

\* The Signal changes or ends.
LEMMA SignalFollows ==
    ASSUME NEW V, NEW z, NEW w, SwitchInv(V, z, w), NEW t \in SignalOf(V),
           t.queue = <<>> => z.top.queue = <<>>
    PROVE  SwitchInv(V, [z EXCEPT !.top = t], w)
<1>1. PICK t0, ps : SwitchIs(V, z, w, t0, ps) BY DEF SwitchInv
<1>2. z = Switched(t0, ps, Len(w)) BY <1>1 DEF SwitchIs
<1>3. z.top = t0 /\ [z EXCEPT !.top = t] = Switched(t, ps, Len(w))
  BY <1>2, SwitchedIs
<1>4. SwitchIs(V, [z EXCEPT !.top = t], w, t, ps) BY <1>1, <1>3 DEF SwitchIs
<1> QED BY <1>4 DEF SwitchInv

\* An inner SignalVec sends a diff or ends.
LEMMA PartFollows ==
    ASSUME NEW V, NEW z, NEW w, SwitchInv(V, z, w), z.parts # <<>>,
           NEW b \in SourceOf(V),
           \A s : Trails(V, z.parts[1], s) => Trails(V, b, s)
    PROVE  /\ [z EXCEPT !.parts = [z.parts EXCEPT ![1] = b]] = [z EXCEPT !.parts = One(b)]
           /\ SwitchInv(V, [z EXCEPT !.parts = One(b)], w)
<1>1. PICK t, ps : SwitchIs(V, z, w, t, ps) BY DEF SwitchInv
<1>2. z = Switched(t, ps, Len(w)) BY <1>1 DEF SwitchIs
<1>3. /\ z.parts = ps /\ z.top = t
      /\ [z EXCEPT !.parts = One(b)] = Switched(t, One(b), Len(w))
  BY <1>2, SwitchedIs
<1>4. PICK a \in SourceOf(V) : ps = One(a) /\ (t.queue = <<>> => Trails(V, a, w))
  BY <1>1, <1>3 DEF SwitchIs
<1>5. z.parts[1] = a /\ [z.parts EXCEPT ![1] = b] = One(b) BY <1>3, <1>4, OneIs
<1>6. t.queue = <<>> => Trails(V, b, w) BY <1>4, <1>5
<1>7. SwitchIs(V, [z EXCEPT !.parts = One(b)], w, t, One(b))
  BY <1>1, <1>3, <1>6 DEF SwitchIs
<1> QED BY <1>5, <1>7 DEF SwitchInv

LEMMA SwitchTopChanges ==
    ASSUME NEW V, SwitchHolds(V), SwitchesOf(V), kind \in Joins,
           kind = "switch", joinPc = "waiting", Join!TopChanges
    PROVE  SwitchHolds(V)'
<1>1. /\ SwitchInv(V, joined, joinView) /\ joinWoken \in BOOLEAN
      /\ ~joinWoken => Listened(joined.top)
  BY DEF SwitchHolds, SwitchRests
<1>2. PICK v \in JoinValues["switch"] :
        Join!Change([joined EXCEPT !.top.queue = <<v>>, !.top.waker = FALSE], joined.top)
  BY DEF Join!TopChanges
<1>3. ~joined.top.closed /\ v \in VecsOf(V) BY DEF Join!TopChanges, SwitchesOf
<1>4. joined.top \in SignalOf(V) BY <1>1, SwitchParts
<1>5. PICK q : q = <<v>> OBVIOUS
<1>6. PICK t : t = [joined.top EXCEPT !.queue = q, !.waker = FALSE] OBVIOUS
<1>7. t \in SignalOf(V) /\ t.queue # <<>>
  <2>1. q \in {<<x>> : x \in VecsOf(V)} /\ q # <<>> BY <1>3, <1>5
  <2>2. t.queue = q BY <1>4, <1>6 DEF SignalOf
  <2> QED BY <1>4, <1>6, <2>1, <2>2 DEF SignalOf
<1>8. PICK z : z = [joined EXCEPT !.top = t] OBVIOUS
<1>9. [joined EXCEPT !.top.queue = q, !.top.waker = FALSE] = z
  <2>1. PICK t0, ps : SwitchIs(V, joined, joinView, t0, ps) BY <1>1 DEF SwitchInv
  <2>2. joined = Switched(t0, ps, Len(joinView)) BY <2>1 DEF SwitchIs
  <2>3. joined.top = t0 BY <2>2, SwitchedIs
  <2>4. t0 = [contents |-> t0.contents, closed |-> t0.closed,
              alphabet |-> t0.alphabet, queue |-> t0.queue, waker |-> t0.waker,
              held |-> t0.held, len |-> t0.len]
    BY <1>4, <2>3 DEF SignalOf
  <2> QED BY <1>6, <1>8, <2>2, <2>3, <2>4 DEF Switched
<1>10. SwitchInv(V, z, joinView) BY <1>1, <1>7, <1>8, SignalFollows
<1>11. Join!Change(z, joined.top) BY <1>2, <1>5, <1>9
<1>12. joined' = z /\ joinWoken' = TRUE /\ joinPc' = "waiting" /\ joinView' = joinView
  BY <1>1, <1>3, <1>11, ChangeWakes
<1> QED BY <1>10, <1>12, SwitchAwake

LEMMA SwitchPartSends ==
    ASSUME NEW V, SwitchHolds(V), Join!BoundsAssumption,
           kind = "switch", joinPc = "waiting",
           NEW i \in DOMAIN joined.parts, Join!PartSends(i)
    PROVE  SwitchHolds(V)'
<1> DEFINE src == joined.parts[1]
<1>1. /\ SwitchInv(V, joined, joinView) /\ joinWoken \in BOOLEAN
      /\ ~joinWoken => Listened(src)
  BY DEF SwitchHolds, SwitchRests
<1>2. joined.parts # <<>> OBVIOUS
<1>3. i = 1 /\ src \in SourceOf(V) BY <1>1, <1>2, SwitchParts
<1>4. PICK d \in Join!LegalDiffs(src.contents, src.alphabet, MaxPart) :
        /\ Join!CanSend(src)
        /\ Join!Change([joined EXCEPT !.parts[i] = Join!Sent(@, d)], src)
  BY <1>3 DEF Join!PartSends
<1>5. src.contents \in Seq(V) /\ src.alphabet \in SUBSET V BY <1>3 DEF SourceOf
<1>6. d \in DiffsOver(V) /\ Applicable(d, src.contents)
  <2>1. MaxPart \in Nat BY DEF Join!BoundsAssumption
  <2> QED BY <1>4, <1>5, <2>1, JoinLegal, LegalOver
<1>7. ~src.closed BY <1>4 DEF Join!CanSend
<1>8. PICK b : b = WithSent(src, d) OBVIOUS
<1>9. b \in SourceOf(V) BY <1>3, <1>6, <1>8, SentIs
<1>10. \A s : Trails(V, src, s) => Trails(V, b, s) BY <1>6, <1>8, SentTrails
<1>11. PICK z : z = [joined EXCEPT !.parts = One(b)] OBVIOUS
<1>12. /\ [joined EXCEPT !.parts = [joined.parts EXCEPT ![1] = b]] = z
       /\ SwitchInv(V, z, joinView)
  BY <1>1, <1>2, <1>9, <1>10, <1>11, PartFollows
<1>13. Join!Change(z, src)
  <2>1. [joined EXCEPT !.parts[1] = Join!Sent(@, d)]
           = [joined EXCEPT !.parts = [joined.parts EXCEPT ![1] = Join!Sent(src, d)]]
    OBVIOUS
  <2>2. Join!Sent(src, d) = b BY <1>8, JoinSent
  <2> QED BY <1>3, <1>4, <1>12, <2>1, <2>2
<1> HIDE DEF src
<1>14. joined' = z /\ joinWoken' = TRUE /\ joinPc' = "waiting" /\ joinView' = joinView
  BY <1>1, <1>7, <1>13, ChangeWakes
<1> QED BY <1>12, <1>14, SwitchAwake

LEMMA SwitchCloses ==
    ASSUME NEW V, SwitchHolds(V), kind = "switch", joinPc = "waiting", Join!Closes
    PROVE  SwitchHolds(V)'
<1>1. /\ SwitchInv(V, joined, joinView) /\ joinWoken \in BOOLEAN
      /\ ~joinWoken => Listened(joined.top) /\ Listened(joined.parts[1])
  BY DEF SwitchHolds, SwitchRests
<1>2. CASE /\ ~joined.top.closed
           /\ Join!Change([joined EXCEPT !.top = Join!Close(@)], joined.top)
  <2>1. PICK t : t = WithEnd(joined.top) OBVIOUS
  <2>2. PICK z : z = [joined EXCEPT !.top = t] OBVIOUS
  <2>3. Join!Change(z, joined.top)
    <3>1. [joined EXCEPT !.top = Join!Close(@)]
             = [joined EXCEPT !.top = Join!Close(joined.top)]
      OBVIOUS
    <3> QED BY <1>2, <2>1, <2>2, <3>1, JoinEnd
  <2>4. joined.top \in SignalOf(V) BY <1>1, SwitchParts
  <2>5. t \in SignalOf(V) /\ t.queue = joined.top.queue BY <2>1, <2>4, EndIs
  <2>6. SwitchInv(V, z, joinView) BY <1>1, <2>2, <2>5, SignalFollows
  <2>7. joined' = z /\ joinWoken' = TRUE /\ joinPc' = "waiting" /\ joinView' = joinView
    BY <1>1, <1>2, <2>3, ChangeWakes
  <2> QED BY <2>6, <2>7, SwitchAwake
<1>3. CASE \E i \in DOMAIN joined.parts :
              /\ ~joined.parts[i].closed
              /\ Join!Change([joined EXCEPT !.parts[i] = Join!Close(@)],
                             joined.parts[i])
  <2>1. PICK i \in DOMAIN joined.parts :
              /\ ~joined.parts[i].closed
              /\ Join!Change([joined EXCEPT !.parts[i] = Join!Close(@)],
                             joined.parts[i])
    BY <1>3
  <2>2. joined.parts # <<>> OBVIOUS
  <2> DEFINE src == joined.parts[1]
  <2>3. i = 1 /\ src \in SourceOf(V) BY <1>1, <2>2, SwitchParts
  <2>4. PICK b : b = WithEnd(src) OBVIOUS
  <2>5. b \in SourceOf(V) BY <2>3, <2>4, EndIs
  <2>6. \A s : Trails(V, src, s) => Trails(V, b, s) BY <2>4, EndTrails
  <2>7. PICK z : z = [joined EXCEPT !.parts = One(b)] OBVIOUS
  <2>8. /\ [joined EXCEPT !.parts = [joined.parts EXCEPT ![1] = b]] = z
        /\ SwitchInv(V, z, joinView)
    BY <1>1, <2>2, <2>5, <2>6, <2>7, PartFollows
  <2>9. Join!Change(z, src)
    <3>1. [joined EXCEPT !.parts[1] = Join!Close(@)]
             = [joined EXCEPT !.parts = [joined.parts EXCEPT ![1] = Join!Close(src)]]
      OBVIOUS
    <3>2. Join!Close(src) = b BY <2>4, JoinEnd
    <3> QED BY <2>1, <2>3, <2>8, <3>1, <3>2
  <2>10. ~src.closed /\ (~joinWoken => Listened(src)) BY <1>1, <2>1, <2>3
  <2> HIDE DEF src
  <2>11. joined' = z /\ joinWoken' = TRUE /\ joinPc' = "waiting" /\ joinView' = joinView
    BY <1>1, <2>9, <2>10, ChangeWakes
  <2> QED BY <2>8, <2>11, SwitchAwake
<1> QED BY <1>2, <1>3 DEF Join!Closes

LEMMA SwitchPolls ==
    ASSUME NEW V, SwitchHolds(V), kind = "switch", Join!Poll
    PROVE  SwitchHolds(V)'
<1>1. SwitchInv(V, joined, joinView) /\ joinPc = "waiting" /\ kind' = kind
  BY DEF SwitchHolds, Join!Poll
<1>2. PICK g : g = SwitchPoll(joined) OBVIOUS
<1>3. Join!PollResult = g BY <1>2, JoinParts, Zenon DEF Join!PollResult
<1>4. \A d, s : Join!Fits(d, s) = Applicable(d, s) /\ Join!Applied(d, s) = Apply(d, s)
  BY JoinDiffs DEF Join!Fits, Join!Applied, Join!OfMap
<1> DEFINE some == g.answer.poll = "Some"
           fits == some /\ Applicable(g.answer.diff, joinView)
<1>5. /\ joined' = g.st
      /\ joinView' = IF fits THEN Apply(g.answer.diff, joinView) ELSE joinView
      /\ joinWoken' = fits
      /\ joinPc' = CASE g.answer.poll = "None" -> "done"
                     [] some /\ ~fits -> "panicked"
                     [] OTHER -> "waiting"
  BY <1>3, <1>4, Zenon DEF Join!Poll
<1>6. SwitchAnswers(V, joined, joinView, g) BY <1>1, <1>2, SwitchFollows
<1>7. CASE \E d : /\ g.answer = SomeDiff(d)
                  /\ Applicable(d, joinView)
                  /\ SwitchInv(V, g.st, Apply(d, joinView))
  <2>1. PICK d : /\ g.answer = SomeDiff(d)
                 /\ Applicable(d, joinView)
                 /\ SwitchInv(V, g.st, Apply(d, joinView))
    BY <1>7
  <2>2. g.answer.poll = "Some" /\ g.answer.diff = d BY <2>1, SomeIs
  <2>3. fits BY <2>1, <2>2
  <2>4. joinPc' = "waiting" BY <1>5, <2>2, <2>3, Zenon
  <2>5. joinWoken' = TRUE /\ joinView' = Apply(d, joinView) /\ joined' = g.st
    BY <1>5, <2>2, <2>3
  <2> QED BY <2>1, <2>4, <2>5, SwitchAwake
<1>8. CASE /\ SwitchInv(V, g.st, joinView)
           /\ joinView = g.st.parts[1].contents
           /\ Asked(g.st.top) /\ Asked(g.st.parts[1])
           /\ g.answer = IF g.st.top.closed /\ g.st.parts[1].closed THEN None
                         ELSE Pending
  <2>1. PICK c \in BOOLEAN : c <=> g.st.top.closed /\ g.st.parts[1].closed OBVIOUS
  <2>2. g.answer.poll = (IF c THEN "None" ELSE "Pending")
    BY <1>8, <2>1 DEF None, Pending
  <2>3. ~some /\ ~fits BY <2>2
  <2>4. joinPc' = (IF c THEN "done" ELSE "waiting") BY <1>5, <2>2, <2>3, Zenon
  <2>5. joinWoken' = FALSE /\ joinView' = joinView /\ joined' = g.st
    BY <1>5, <2>3, Zenon
  <2>6. Listened(g.st.top) /\ Listened(g.st.parts[1])
    BY <1>8, Zenon DEF Asked, Listened
  <2>7. SwitchRests(g.st, joinView)
    BY <1>6, <1>8, <2>6 DEF SwitchAnswers, SwitchRests
  <2> QED BY <1>8, <2>1, <2>4, <2>5, <2>7 DEF SwitchHolds
<1> QED BY <1>6, <1>7, <1>8 DEF SwitchAnswers

-----------------------------------------------------------------------------
(* What holds of both, whatever the inputs do.                             *)

LEMMA JoinStep ==
    ASSUME NEW V, JoinHolds(V), NothingAwkward, Join!BoundsAssumption, SwitchesOf(V),
           [Join!Next]_(Join!vars)
    PROVE  JoinHolds(V)'
<1>1. kind \in Joins /\ ChainHolds /\ SwitchHolds(V) BY DEF JoinHolds
<1>2. CASE UNCHANGED Join!vars
  BY <1>1, <1>2, Zenon
  DEF JoinHolds, Join!vars, ChainHolds, ChainRests, SwitchHolds, SwitchRests
<1>3. CASE Join!Inputs
  <2>1. kind' = kind /\ joinPc = "waiting"
    BY <1>3, Zenon
    DEF Join!Inputs, Join!TopSends, Join!TopChanges, Join!RightSends,
        Join!Closes, Join!PartSends, Join!PartChanges, Join!Change
  <2>2. CASE kind = "chain"
    <3>1. Join!TopSends \/ Join!RightSends \/ Join!Closes
      BY <1>3, <2>2 DEF Join!Inputs, Join!TopChanges
    <3>2. ChainHolds'
      BY <1>1, <2>1, <2>2, <3>1, ChainTopSends, ChainRightSends, ChainCloses
    <3> QED BY <1>1, <2>1, <2>2, <3>2 DEF JoinHolds, SwitchHolds
  <2>3. CASE kind = "switch"
    <3>1. \/ Join!TopChanges \/ Join!Closes
          \/ \E i \in DOMAIN joined.parts : Join!PartSends(i)
      BY <1>3, <2>3
      DEF Join!Inputs, Join!TopSends, Join!RightSends, Join!PartChanges,
          Join!OfSignals
    <3>2. SwitchHolds(V)'
      BY <1>1, <2>1, <2>3, <3>1, SwitchTopChanges, SwitchPartSends, SwitchCloses
    <3> QED BY <1>1, <2>1, <2>3, <3>2 DEF JoinHolds, ChainHolds
  <2>4. CASE kind \notin {"chain", "switch"}
    BY <1>1, <2>1, <2>4 DEF JoinHolds, ChainHolds, SwitchHolds
  <2> QED BY <2>2, <2>3, <2>4
<1>4. CASE Join!Poll
  <2>1. kind' = kind BY <1>4 DEF Join!Poll
  <2>2. CASE kind = "chain"
    <3>1. ChainHolds' BY <1>1, <1>4, <2>2, ChainPolls
    <3> QED BY <1>1, <2>1, <2>2, <3>1 DEF JoinHolds, SwitchHolds
  <2>3. CASE kind = "switch"
    <3>1. SwitchHolds(V)' BY <1>1, <1>4, <2>3, SwitchPolls
    <3> QED BY <1>1, <2>1, <2>3, <3>1 DEF JoinHolds, ChainHolds
  <2>4. CASE kind \notin {"chain", "switch"}
    BY <1>1, <2>1, <2>4 DEF JoinHolds, ChainHolds, SwitchHolds
  <2> QED BY <2>2, <2>3, <2>4
<1> QED BY <1>2, <1>3, <1>4 DEF Join!Next

\* The invariant of chain and of switch_signal_vec holds at every step, for any
\* values, bounds and numbers of queued diffs.
THEOREM JoinInvariant ==
    ASSUME NEW V, NothingAwkward, Join!BoundsAssumption, SwitchesOf(V)
    PROVE  Join!Spec => []JoinHolds(V)
<1>1. Join!Init => JoinHolds(V)
  BY ChainHoldsFirst, SwitchHoldsFirst DEF JoinHolds, Join!Init
<1>2. JoinHolds(V) /\ [Join!Next]_(Join!vars) => JoinHolds(V)' BY JoinStep
<1> QED BY <1>1, <1>2, PTL DEF Join!Spec

LEMMA ChainLengths ==
    ASSUME NEW V, NEW z, NEW w, ChainInv(V, z, w), z.pending = <<>>
    PROVE  Len(w) = z.left_len + z.right_len
<1>1. PICK t, q, p : \E l \in Seq(V), r \in Seq(V) : ChainIs(V, z, w, t, q, l, r, p)
  BY DEF ChainInv
<1>2. PICK l \in Seq(V), r \in Seq(V) : ChainIs(V, z, w, t, q, l, r, p) BY <1>1
<1>3. z = Chained(t, q, Len(l), Len(r), p) /\ Reaches(V, p, w, l \o r)
  BY <1>2 DEF ChainIs
<1>4. z.pending = p /\ z.left_len = Len(l) /\ z.right_len = Len(r)
  BY <1>3, ChainedIs
<1>5. w = l \o r BY <1>3, <1>4, ReachesNothing
<1>6. Len(l \o r) = Len(l) + Len(r) BY ConcatProperties
<1> QED BY <1>4, <1>5, <1>6

\* The lengths that chain and switch_signal_vec count are those of the values
\* they have put out, with the diffs that wait: their indexes are right.
THEOREM JoinTypeCorrect ==
    ASSUME NEW V, NothingAwkward, Join!BoundsAssumption, SwitchesOf(V)
    PROVE  Join!Spec => [](kind \in ChainOrSwitch => Join!TypeOK)
<1>1. ASSUME JoinHolds(V), kind = "chain" PROVE Join!TypeOK
  <2>1. /\ kind \in Joins
        /\ ChainInv(ChainValues, joined, joinView)
        /\ joinWoken \in BOOLEAN
        /\ joinPc \in {"waiting", "done"}
        /\ Len(joined.top.queue) <= MaxJoinQueue
        /\ joinPc = "waiting" /\ ~joinWoken => ChainRests(joined, joinView)
    BY <1>1 DEF JoinHolds, ChainHolds
  <2>2. joined.top \in SourceOf(ChainValues) BY <2>1, InputsAre
  <2>3. {joined.top.closed, joined.top.waker, joined.top.held} \subseteq BOOLEAN
    BY <2>2 DEF SourceOf
  <2>4. joined.pending = <<>> => Len(joinView) = joined.left_len + joined.right_len
    BY <2>1, ChainLengths
  <2>5. joined.pending # <<>> => joinWoken \/ joinPc # "waiting"
    BY <2>1 DEF ChainRests
  <2>6. joinPc \in {"waiting", "done", "panicked"} BY <2>1
  <2> QED BY <1>1, <2>1, <2>3, <2>4, <2>5, <2>6, Zenon DEF Join!TypeOK, Join!OfMap
<1>2. ASSUME JoinHolds(V), kind = "switch" PROVE Join!TypeOK
  <2>1. /\ kind \in Joins
        /\ SwitchInv(V, joined, joinView)
        /\ joinWoken \in BOOLEAN
        /\ joinPc \in {"waiting", "done"}
    BY <1>2 DEF JoinHolds, SwitchHolds
  <2>2. /\ joined.top \in SignalOf(V)
        /\ joined.pending = <<>> /\ joined.len = Len(joinView)
    BY <2>1, SwitchParts
  <2>3. {joined.top.closed, joined.top.waker, joined.top.held} \subseteq BOOLEAN
    BY <2>2 DEF SignalOf
  <2>4. Len(joined.top.queue) <= MaxJoinQueue
    <3>1. MaxJoinQueue \in Nat \ {0} BY DEF Join!BoundsAssumption
    <3>2. \/ joined.top.queue = <<>>
          \/ \E v \in VecsOf(V) : joined.top.queue = <<v>>
      BY <2>2 DEF SignalOf
    <3>3. CASE joined.top.queue = <<>>
      <4>1. Len(joined.top.queue) = 0 BY <3>3
      <4> QED BY <3>1, <4>1
    <3>4. CASE \E v \in VecsOf(V) : joined.top.queue = <<v>>
      <4>1. PICK v : joined.top.queue = <<v>> BY <3>4
      <4>2. Len(joined.top.queue) = 1 BY <4>1
      <4> QED BY <3>1, <4>2
    <3> QED BY <3>2, <3>3, <3>4
  <2>5. joinPc \in {"waiting", "done", "panicked"} BY <2>1
  <2> QED BY <1>2, <2>1, <2>2, <2>3, <2>4, <2>5, Zenon DEF Join!TypeOK, Join!OfMap
<1>3. JoinHolds(V) => (kind \in ChainOrSwitch => Join!TypeOK)
  BY <1>1, <1>2 DEF ChainOrSwitch
<1> QED BY <1>3, JoinInvariant, PTL

\* The task of a chain or a switch_signal_vec never gets a diff that panics,
\* and when it sleeps or is told of the end its output has all the values of the
\* inputs, in order, and each input that can still change will wake it.
THEOREM JoinOutputCorrect ==
    ASSUME NEW V, NothingAwkward, Join!BoundsAssumption, SwitchesOf(V)
    PROVE  Join!Spec => [](kind \in ChainOrSwitch => Join!OutputFollowsInputs)
<1>1. ASSUME JoinHolds(V), kind = "chain" PROVE Join!OutputFollowsInputs
  <2>1. /\ joinWoken \in BOOLEAN
        /\ joinPc \in {"waiting", "done"}
        /\ joinPc = "waiting" /\ ~joinWoken => ChainRests(joined, joinView)
        /\ joinPc = "done" => ChainRests(joined, joinView)
    BY <1>1 DEF JoinHolds, ChainHolds
  <2>2. ASSUME ChainRests(joined, joinView)
        PROVE  joinView = Join!Whole /\ Join!PartsFit /\ Join!Listens
    <3>1. joinView = Join!Whole BY <1>1, <2>2, Zenon DEF ChainRests, Join!Whole
    <3>2. Join!PartsFit
      <4>1. kind \notin Join!OfSignals BY <1>1 DEF Join!OfSignals
      <4> QED BY <1>1, <4>1, Zenon DEF Join!PartsFit
    <3>3. Join!Listens
      BY <1>1, <2>2 DEF Join!Listens, ChainRests, Listened, Join!Nested,
                        Join!OfSignals
    <3> QED BY <3>1, <3>2, <3>3
  <2>3. joinPc # "panicked" BY <2>1
  <2> QED BY <2>1, <2>2, <2>3, Zenon DEF Join!OutputFollowsInputs
<1>2. ASSUME JoinHolds(V), kind = "switch" PROVE Join!OutputFollowsInputs
  <2>1. /\ SwitchInv(V, joined, joinView)
        /\ joinWoken \in BOOLEAN
        /\ joinPc \in {"waiting", "done"}
        /\ joinPc = "waiting" /\ ~joinWoken => SwitchRests(joined, joinView)
        /\ joinPc = "done" => SwitchRests(joined, joinView)
    BY <1>2 DEF JoinHolds, SwitchHolds
  <2>2. ASSUME SwitchRests(joined, joinView)
        PROVE  joinView = Join!Whole /\ Join!PartsFit /\ Join!Listens
    <3>1. joinView = Join!Whole BY <1>2, <2>2, Zenon DEF SwitchRests, Join!Whole
    <3>2. Join!PartsFit
      <4>1. kind \notin Join!OfSignals BY <1>2 DEF Join!OfSignals
      <4> QED BY <1>2, <4>1, Zenon DEF Join!PartsFit
    <3>3. DOMAIN joined.parts = {1}
      BY <2>1, <2>2, SwitchParts DEF SwitchRests
    <3>4. Join!Listens
      BY <1>2, <2>2, <3>3 DEF Join!Listens, SwitchRests, Listened
    <3> QED BY <3>1, <3>2, <3>4
  <2>3. joinPc # "panicked" BY <2>1
  <2> QED BY <2>1, <2>2, <2>3, Zenon DEF Join!OutputFollowsInputs
<1>3. JoinHolds(V) => (kind \in ChainOrSwitch => Join!OutputFollowsInputs)
  BY <1>1, <1>2 DEF ChainOrSwitch
<1> QED BY <1>3, JoinInvariant, PTL

\* When all inputs of a chain or a switch_signal_vec have ended, the task is not
\* left asleep without having been told.
THEOREM JoinEndCorrect ==
    ASSUME NEW V, NothingAwkward, Join!BoundsAssumption, SwitchesOf(V)
    PROVE  Join!Spec => [](kind \in ChainOrSwitch => Join!EndIsTold)
<1>1. ASSUME JoinHolds(V), kind = "chain" PROVE Join!EndIsTold
  BY <1>1 DEF JoinHolds, ChainHolds, Join!EndIsTold
<1>2. ASSUME JoinHolds(V), kind = "switch" PROVE Join!EndIsTold
  <2>1. /\ SwitchInv(V, joined, joinView)
        /\ joinPc = "waiting" /\ ~joinWoken =>
              /\ joined.top.queue = <<>>
              /\ ~(joined.top.closed /\ joined.parts[1].closed)
    BY <1>2 DEF JoinHolds, SwitchHolds, SwitchRests
  <2>2. joinPc = "waiting" /\ ~joinWoken => 1 \in DOMAIN joined.parts
    BY <2>1, SwitchParts
  <2> QED BY <1>2, <2>1, <2>2 DEF Join!EndIsTold, Join!Nested
<1>3. JoinHolds(V) => (kind \in ChainOrSwitch => Join!EndIsTold)
  BY <1>1, <1>2 DEF ChainOrSwitch
<1> QED BY <1>3, JoinInvariant, PTL
=============================================================================
