------------------------- MODULE MutableVec_proofs -------------------------
(***************************************************************************)
(* Theorems about MutableVec.                                              *)
(***************************************************************************)
EXTENDS MutableVec, SequenceTheorems, FiniteSetTheorems, TLAPS

-----------------------------------------------------------------------------
(* What the operations of a Vec make of a sequence, element by element.    *)

\* The sequences of at most n elements.
LEMMA ShortSeqs ==
    ASSUME NEW V, NEW n \in Nat, NEW s
    PROVE  s \in SeqOf(V, n) <=> s \in Seq(V) /\ Len(s) <= n
<1>1. ASSUME s \in SeqOf(V, n) PROVE s \in Seq(V) /\ Len(s) <= n
  BY <1>1 DEF SeqOf
<1>2. ASSUME s \in Seq(V), Len(s) <= n PROVE s \in SeqOf(V, n)
  <2>1. Len(s) \in 0..n BY <1>2, LenProperties
  <2>2. s \in [1..Len(s) -> V] BY <1>2, LenProperties
  <2> QED BY <2>1, <2>2 DEF SeqOf
<1> QED BY <1>1, <1>2

\* Vec::insert.
LEMMA Inserted ==
    ASSUME NEW V, NEW s \in Seq(V), NEW v \in V, NEW i \in 0..Len(s)
    PROVE  /\ VecInsert(s, i, v) \in Seq(V)
           /\ Len(VecInsert(s, i, v)) = Len(s) + 1
           /\ \A p \in 1..(Len(s) + 1) :
                 VecInsert(s, i, v)[p] = IF p <= i THEN s[p]
                                         ELSE IF p = i + 1 THEN v ELSE s[p - 1]
<1> DEFINE a == SubSeq(s, 1, i)
           b == SubSeq(s, i + 1, Len(s))
<1>1. Len(s) \in Nat BY LenProperties
<1>2. /\ a \in Seq(V) /\ Len(a) = i
      /\ \A p \in 1..i : a[p] = s[p]
  BY <1>1, SubSeqProperties, ElementOfSeq
<1>3. /\ b \in Seq(V) /\ Len(b) = Len(s) - i
      /\ \A p \in 1..(Len(s) - i) : b[p] = s[p + i]
  BY <1>1, SubSeqProperties, ElementOfSeq
<1>4. /\ a \o <<v>> \in Seq(V) /\ Len(a \o <<v>>) = i + 1
      /\ \A p \in 1..(i + 1) : (a \o <<v>>)[p] = IF p <= i THEN s[p] ELSE v
  <2>1. <<v>> \in Seq(V) /\ Len(<<v>>) = 1 /\ <<v>>[1] = v OBVIOUS
  <2> HIDE DEF a
  <2> QED BY <1>1, <1>2, <2>1, ConcatProperties
<1>5. VecInsert(s, i, v) = (a \o <<v>>) \o b
  <2>1. (i + 1) - 1 = i OBVIOUS
  <2> QED BY <2>1, Zenon DEF VecInsert, InsertAt
<1> HIDE DEF a, b
<1> DEFINE c == a \o <<v>>
<1>6. c \in Seq(V) BY <1>4
<1>7. /\ c \o b \in Seq(V)
      /\ Len(c \o b) = Len(c) + Len(b)
      /\ \A p \in 1..(Len(c) + Len(b)) :
            (c \o b)[p] = IF p <= Len(c) THEN c[p] ELSE b[p - Len(c)]
  <2> HIDE DEF c
  <2> QED BY <1>3, <1>6, ConcatProperties
<1>8. ASSUME NEW p \in 1..(Len(s) + 1)
      PROVE  (c \o b)[p] = IF p <= i THEN s[p]
                           ELSE IF p = i + 1 THEN v ELSE s[p - 1]
  <2>1. CASE p <= i + 1 BY <1>1, <1>3, <1>4, <1>7, <2>1
  <2>2. CASE p > i + 1
    <3>1. p - (i + 1) \in 1..(Len(s) - i) BY <1>1, <2>2
    <3>2. b[p - (i + 1)] = s[p - (i + 1) + i] BY <1>3, <3>1
    <3> QED BY <1>1, <1>3, <1>4, <1>7, <2>2, <3>2
  <2>3. p <= i + 1 \/ p > i + 1 BY <1>1
  <2> QED BY <2>1, <2>2, <2>3
<1> QED BY <1>1, <1>3, <1>4, <1>5, <1>7, <1>8

\* Vec::remove.
LEMMA Removed ==
    ASSUME NEW V, NEW s \in Seq(V), NEW i \in 0..(Len(s) - 1)
    PROVE  /\ VecRemove(s, i) \in Seq(V)
           /\ Len(VecRemove(s, i)) = Len(s) - 1
           /\ \A p \in 1..(Len(s) - 1) :
                 VecRemove(s, i)[p] = IF p <= i THEN s[p] ELSE s[p + 1]
<1> DEFINE a == SubSeq(s, 1, i)
           b == SubSeq(s, i + 2, Len(s))
<1>1. Len(s) \in Nat BY LenProperties
<1>2. /\ a \in Seq(V) /\ Len(a) = i
      /\ \A p \in 1..i : a[p] = s[p]
  BY <1>1, SubSeqProperties, ElementOfSeq
<1>3. /\ b \in Seq(V) /\ Len(b) = Len(s) - i - 1
      /\ \A p \in 1..(Len(s) - i - 1) : b[p] = s[p + i + 1]
  BY <1>1, SubSeqProperties, ElementOfSeq
<1>4. VecRemove(s, i) = a \o b
  <2>1. (i + 1) - 1 = i /\ (i + 1) + 1 = i + 2 OBVIOUS
  <2> QED BY <2>1, Zenon DEF VecRemove, RemoveAt
<1> HIDE DEF a, b
<1>5. /\ a \o b \in Seq(V)
      /\ Len(a \o b) = Len(a) + Len(b)
      /\ \A p \in 1..(Len(a) + Len(b)) :
            (a \o b)[p] = IF p <= Len(a) THEN a[p] ELSE b[p - Len(a)]
  <2>1. a \in Seq(V) /\ b \in Seq(V) BY <1>2, <1>3
  <2> QED BY <2>1, ConcatProperties
<1>6. ASSUME NEW p \in 1..(Len(s) - 1)
      PROVE  (a \o b)[p] = IF p <= i THEN s[p] ELSE s[p + 1]
  <2>1. CASE p <= i BY <1>1, <1>2, <1>3, <1>5, <2>1
  <2>2. CASE p > i
    <3>1. p - i \in 1..(Len(s) - i - 1) BY <1>1, <2>2
    <3>2. b[p - i] = s[p - i + i + 1] BY <1>3, <3>1
    <3> QED BY <1>1, <1>2, <1>3, <1>5, <2>2, <3>2
  <2>3. p <= i \/ p > i BY <1>1
  <2> QED BY <2>1, <2>2, <2>3
<1> QED BY <1>1, <1>2, <1>3, <1>4, <1>5, <1>6

\* Vec::remove and Vec::insert of what was removed.
LEMMA Moved ==
    ASSUME NEW V, NEW s \in Seq(V), NEW old \in 0..(Len(s) - 1),
           NEW new \in 0..(Len(s) - 1)
    PROVE  /\ VecMove(s, old, new) \in Seq(V)
           /\ Len(VecMove(s, old, new)) = Len(s)
           /\ \A p \in 1..Len(s) :
                 VecMove(s, old, new)[p] =
                     IF p = new + 1 THEN s[old + 1]
                     ELSE IF old < p /\ p <= new THEN s[p + 1]
                     ELSE IF new + 1 < p /\ p <= old + 1 THEN s[p - 1]
                     ELSE s[p]
<1> DEFINE t == VecRemove(s, old)
<1>1. Len(s) \in Nat /\ s[old + 1] \in V BY LenProperties, ElementOfSeq
<1>2. /\ t \in Seq(V) /\ Len(t) = Len(s) - 1
      /\ \A p \in 1..(Len(s) - 1) : t[p] = IF p <= old THEN s[p] ELSE s[p + 1]
  BY Removed
<1>3. VecMove(s, old, new) = VecInsert(t, new, s[old + 1]) BY DEF VecMove
<1> HIDE DEF t
<1>4. new \in 0..Len(t) BY <1>1, <1>2
<1>6. PICK v \in V : v = s[old + 1] BY <1>1
<1>5. /\ VecInsert(t, new, v) \in Seq(V)
      /\ Len(VecInsert(t, new, v)) = Len(t) + 1
      /\ \A p \in 1..(Len(t) + 1) :
            VecInsert(t, new, v)[p] =
                IF p <= new THEN t[p]
                ELSE IF p = new + 1 THEN v ELSE t[p - 1]
  <2>1. t \in Seq(V) BY <1>2
  <2> DEFINE Right(u, i, x) ==
                /\ VecInsert(u, i, x) \in Seq(V)
                /\ Len(VecInsert(u, i, x)) = Len(u) + 1
                /\ \A p \in 1..(Len(u) + 1) :
                      VecInsert(u, i, x)[p] = IF p <= i THEN u[p]
                                              ELSE IF p = i + 1 THEN x ELSE u[p - 1]
  <2>2. \A u \in Seq(V), x \in V : \A i \in 0..Len(u) : Right(u, i, x)
    BY Inserted
  <2> HIDE DEF Right
  <2>3. Right(t, new, v) BY <2>1, <2>2, <1>4
  <2> QED BY <2>3 DEF Right
<1> QED BY <1>1, <1>2, <1>3, <1>5, <1>6, SMTT(30)

\* Vec::pop.
LEMMA Popped ==
    ASSUME NEW V, NEW s \in Seq(V), s # <<>>
    PROVE  /\ VecPop(s) \in Seq(V)
           /\ Len(VecPop(s)) = Len(s) - 1
           /\ VecPop(s) = VecRemove(s, Len(s) - 1)
<1>1. Len(s) \in Nat \ {0} BY EmptySeq, LenProperties
<1>2. /\ VecPop(s) \in Seq(V) /\ Len(VecPop(s)) = Len(s) - 1
      /\ \A p \in 1..(Len(s) - 1) : VecPop(s)[p] = s[p]
  <2> PICK n \in Nat : n = Len(s) - 1 BY <1>1
  <2> DEFINE a == SubSeq(s, 1, n)
  <2>1. /\ a \in Seq(V) /\ Len(a) = Len(s) - 1
        /\ \A p \in 1..(Len(s) - 1) : a[p] = s[p]
    BY <1>1, SubSeqProperties, ElementOfSeq
  <2>2. VecPop(s) = a BY DEF VecPop, Front
  <2> QED BY <2>1, <2>2
<1>3. /\ VecRemove(s, Len(s) - 1) \in Seq(V)
      /\ Len(VecRemove(s, Len(s) - 1)) = Len(s) - 1
      /\ \A p \in 1..(Len(s) - 1) : VecRemove(s, Len(s) - 1)[p] = s[p]
  BY <1>1, Removed
<1>4. VecPop(s) = VecRemove(s, Len(s) - 1) BY <1>1, <1>2, <1>3, SeqEqual
<1> QED BY <1>2, <1>4

\* Vec::drain.
LEMMA Drained ==
    ASSUME NEW V, NEW s \in Seq(V), NEW from \in 0..Len(s),
           NEW to \in from..Len(s)
    PROVE  /\ VecDrain(s, from, to) \in Seq(V)
           /\ Len(VecDrain(s, from, to)) = Len(s) - (to - from)
           /\ \A p \in 1..(Len(s) - (to - from)) :
                 VecDrain(s, from, to)[p] =
                     IF p <= from THEN s[p] ELSE s[p + (to - from)]
<1> DEFINE a == SubSeq(s, 1, from)
           b == SubSeq(s, to + 1, Len(s))
<1>1. Len(s) \in Nat BY LenProperties
<1>2. /\ a \in Seq(V) /\ Len(a) = from
      /\ \A p \in 1..from : a[p] = s[p]
  BY <1>1, SubSeqProperties, ElementOfSeq
<1>3. /\ b \in Seq(V) /\ Len(b) = Len(s) - to
      /\ \A p \in 1..(Len(s) - to) : b[p] = s[p + to]
  BY <1>1, SubSeqProperties, ElementOfSeq
<1>4. VecDrain(s, from, to) = a \o b BY DEF VecDrain
<1> HIDE DEF a, b
<1>5. /\ a \o b \in Seq(V)
      /\ Len(a \o b) = Len(a) + Len(b)
      /\ \A p \in 1..(Len(a) + Len(b)) :
            (a \o b)[p] = IF p <= Len(a) THEN a[p] ELSE b[p - Len(a)]
  <2>1. a \in Seq(V) /\ b \in Seq(V) BY <1>2, <1>3
  <2> QED BY <2>1, ConcatProperties
<1>6. ASSUME NEW p \in 1..(Len(s) - (to - from))
      PROVE  (a \o b)[p] = IF p <= from THEN s[p] ELSE s[p + (to - from)]
  <2>1. CASE p <= from BY <1>1, <1>2, <1>3, <1>5, <2>1
  <2>2. CASE p > from
    <3>1. p - from \in 1..(Len(s) - to) BY <1>1, <2>2
    <3>2. b[p - from] = s[p - from + to] BY <1>3, <3>1
    <3>3. p \in 1..(Len(a) + Len(b)) /\ ~(p <= Len(a)) /\ Len(a) = from
      BY <1>1, <1>2, <1>3, <2>2
    <3>4. (a \o b)[p] = b[p - from] BY <1>5, <3>3
    <3>5. p - from + to = p + (to - from) /\ ~(p <= from) BY <2>2
    <3> QED BY <3>2, <3>4, <3>5
  <2>3. p <= from \/ p > from BY <1>1
  <2> QED BY <2>1, <2>2, <2>3
<1>7. Len(a) + Len(b) = Len(s) - (to - from) BY <1>1, <1>2, <1>3
<1>8. Len(a \o b) = Len(s) - (to - from) BY <1>5, <1>7
<1> QED BY <1>4, <1>5, <1>6, <1>8

-----------------------------------------------------------------------------
(* Diffs.                                                                  *)

\* What each diff does, and when it does not panic.
LEMMA ApplyReplace ==
    ASSUME NEW vs, NEW s
    PROVE  Applicable(ReplaceDiff(vs), s) /\ Apply(ReplaceDiff(vs), s) = vs
<1>1. ReplaceDiff(vs).op = "Replace" /\ ReplaceDiff(vs).values = vs
  BY DEF ReplaceDiff
<1> QED BY <1>1, Zenon DEF Applicable, Apply

LEMMA ApplyInsert ==
    ASSUME NEW i, NEW v, NEW s
    PROVE  /\ Applicable(InsertDiff(i, v), s) <=> i \in 0..Len(s)
           /\ Apply(InsertDiff(i, v), s) = VecInsert(s, i, v)
<1>1. /\ InsertDiff(i, v).op = "InsertAt"
      /\ InsertDiff(i, v).index = i /\ InsertDiff(i, v).value = v
  BY DEF InsertDiff
<1> QED BY <1>1, Zenon DEF Applicable, Apply

LEMMA ApplyUpdate ==
    ASSUME NEW i, NEW v, NEW s
    PROVE  /\ Applicable(UpdateDiff(i, v), s) <=> i \in 0..(Len(s) - 1)
           /\ Apply(UpdateDiff(i, v), s) = ReplaceAt(s, i + 1, v)
<1>1. /\ UpdateDiff(i, v).op = "UpdateAt"
      /\ UpdateDiff(i, v).index = i /\ UpdateDiff(i, v).value = v
  BY DEF UpdateDiff
<1> QED BY <1>1, Zenon DEF Applicable, Apply

LEMMA ApplyRemove ==
    ASSUME NEW i, NEW s
    PROVE  /\ Applicable(RemoveDiff(i), s) <=> i \in 0..(Len(s) - 1)
           /\ Apply(RemoveDiff(i), s) = VecRemove(s, i)
<1>1. RemoveDiff(i).op = "RemoveAt" /\ RemoveDiff(i).index = i
  BY DEF RemoveDiff
<1> QED BY <1>1, Zenon DEF Applicable, Apply

LEMMA ApplyMove ==
    ASSUME NEW i, NEW j, NEW s
    PROVE  /\ Applicable(MoveDiff(i, j), s) <=> {i, j} \subseteq 0..(Len(s) - 1)
           /\ Apply(MoveDiff(i, j), s) = VecMove(s, i, j)
<1>1. /\ MoveDiff(i, j).op = "Move"
      /\ MoveDiff(i, j).old = i /\ MoveDiff(i, j).new = j
  BY DEF MoveDiff
<1> QED BY <1>1, Zenon DEF Applicable, Apply

LEMMA ApplyPush ==
    ASSUME NEW v, NEW s
    PROVE  Applicable(PushDiff(v), s) /\ Apply(PushDiff(v), s) = Append(s, v)
<1>1. PushDiff(v).op = "Push" /\ PushDiff(v).value = v BY DEF PushDiff
<1> QED BY <1>1, Zenon DEF Applicable, Apply

LEMMA ApplyPop ==
    ASSUME NEW s
    PROVE  /\ Applicable(PopDiff, s) <=> s # <<>>
           /\ Apply(PopDiff, s) = VecPop(s)
<1>1. PopDiff.op = "Pop" BY DEF PopDiff
<1> QED BY <1>1, Zenon DEF Applicable, Apply

LEMMA ApplyClear ==
    ASSUME NEW s
    PROVE  Applicable(ClearDiff, s) /\ Apply(ClearDiff, s) = <<>>
<1>1. ClearDiff.op = "Clear" BY DEF ClearDiff
<1> QED BY <1>1, Zenon DEF Applicable, Apply

\* The diffs of a removal.
LEMMA ApplyRemoval ==
    ASSUME NEW s \in Contents, NEW i \in 0..(Len(s) - 1)
    PROVE  /\ RemovalDiff(i, Len(s)) \in Diffs
           /\ Applicable(RemovalDiff(i, Len(s)), s)
           /\ Apply(RemovalDiff(i, Len(s)), s) = VecRemove(s, i)
<1>1. s \in Seq(Values) /\ Len(s) <= MaxLen /\ Len(s) \in Nat
  BY ShortSeqs, MaxLenAssumption, LenProperties DEF Contents
<1>2. i \in 0..MaxLen /\ s # <<>> BY <1>1, MaxLenAssumption
<1>3. CASE i = Len(s) - 1
  BY <1>1, <1>2, <1>3, ApplyPop, Popped DEF RemovalDiff, Diffs
<1>4. CASE i # Len(s) - 1
  BY <1>1, <1>2, <1>4, ApplyRemove DEF RemovalDiff, Diffs
<1> QED BY <1>3, <1>4

-----------------------------------------------------------------------------
(* Queues of diffs.                                                        *)

LEMMA LeadsNowhere ==
    ASSUME NEW s \in Contents
    PROVE  \A t : Leads(<<>>, s, t) <=> t = s
<1>1. Len(<<>>) = 0 OBVIOUS
<1>2. ASSUME NEW t, Leads(<<>>, s, t) PROVE t = s
  BY <1>1, <1>2 DEF Leads
<1>3. Leads(<<>>, s, s)
  <2> DEFINE c == [i \in 1..1 |-> s]
  <2>1. c \in [1..(Len(<<>>) + 1) -> Contents] BY <1>1
  <2>2. c[1] = s /\ c[Len(<<>>) + 1] = s BY <1>1
  <2>3. 1..Len(<<>>) = {} BY <1>1
  <2> HIDE DEF c
  <2> QED BY <2>1, <2>2, <2>3 DEF Leads
<1> QED BY <1>2, <1>3

\* A receiver that was told one diff more.
LEMMA LeadsFurther ==
    ASSUME NEW q \in Seq(Diffs), NEW d \in Diffs, NEW from, NEW to,
           Leads(q, from, to), Applicable(d, to), Apply(d, to) \in Contents
    PROVE  Leads(Append(q, d), from, Apply(d, to))
<1>1. PICK c \in [1..(Len(q) + 1) -> Contents] :
        /\ c[1] = from
        /\ c[Len(q) + 1] = to
        /\ \A i \in 1..Len(q) :
              Applicable(q[i], c[i]) /\ c[i + 1] = Apply(q[i], c[i])
  BY DEF Leads
<1> DEFINE p == Append(q, d)
           e == [i \in 1..(Len(q) + 2) |->
                    IF i = Len(q) + 2 THEN Apply(d, to) ELSE c[i]]
<1>2. /\ Len(q) \in Nat /\ Len(p) = Len(q) + 1
      /\ \A i \in 1..Len(q) : p[i] = q[i]
      /\ p[Len(q) + 1] = d
  BY AppendProperties, LenProperties
<1>3. e \in [1..(Len(p) + 1) -> Contents] BY <1>1, <1>2
<1>4. e[1] = from /\ e[Len(p) + 1] = Apply(d, to) BY <1>1, <1>2
<1>5. ASSUME NEW i \in 1..Len(p)
      PROVE  Applicable(p[i], e[i]) /\ e[i + 1] = Apply(p[i], e[i])
  <2>1. CASE i \in 1..Len(q)
    <3>1. p[i] = q[i] /\ e[i] = c[i] /\ e[i + 1] = c[i + 1]
      BY <1>2, <2>1
    <3> QED BY <1>1, <2>1, <3>1
  <2>2. CASE i = Len(q) + 1
    <3>1. p[i] = d /\ e[i] = to /\ e[i + 1] = Apply(d, to)
      BY <1>1, <1>2, <2>2
    <3> QED BY <3>1
  <2> QED BY <1>2, <2>1, <2>2
<1> HIDE DEF p, e
<1>6. Leads(p, from, Apply(d, to)) BY <1>3, <1>4, <1>5 DEF Leads
<1> QED BY <1>6 DEF p

\* A receiver that takes the first diff of its queue.
LEMMA LeadsOn ==
    ASSUME NEW q \in Seq(Diffs), q # <<>>, NEW from, NEW to,
           Leads(q, from, to)
    PROVE  /\ Applicable(Head(q), from)
           /\ Apply(Head(q), from) \in Contents
           /\ Leads(Tail(q), Apply(Head(q), from), to)
<1>1. PICK c \in [1..(Len(q) + 1) -> Contents] :
        /\ c[1] = from
        /\ c[Len(q) + 1] = to
        /\ \A i \in 1..Len(q) :
              Applicable(q[i], c[i]) /\ c[i + 1] = Apply(q[i], c[i])
  BY DEF Leads
<1> DEFINE p == Tail(q)
           e == [i \in 1..Len(q) |-> c[i + 1]]
<1>2. /\ Len(q) \in Nat \ {0} /\ Len(p) = Len(q) - 1
      /\ \A i \in 1..Len(p) : p[i] = q[i + 1]
      /\ Head(q) = q[1]
  BY HeadTailProperties, LenProperties, EmptySeq
<1>3. Applicable(q[1], from) /\ c[2] = Apply(q[1], from) BY <1>1, <1>2
<1>4. c[2] \in Contents BY <1>1, <1>2
<1>5. e \in [1..(Len(p) + 1) -> Contents] BY <1>1, <1>2
<1>6. e[1] = c[2] /\ e[Len(p) + 1] = to BY <1>1, <1>2
<1>7. ASSUME NEW i \in 1..Len(p)
      PROVE  Applicable(p[i], e[i]) /\ e[i + 1] = Apply(p[i], e[i])
  <2>1. i + 1 \in 1..Len(q) BY <1>2
  <2>2. p[i] = q[i + 1] /\ e[i] = c[i + 1] /\ e[i + 1] = c[i + 1 + 1]
    BY <1>2, <2>1
  <2> QED BY <1>1, <2>1, <2>2
<1> HIDE DEF p, e
<1>8. Leads(p, c[2], to) BY <1>5, <1>6, <1>7 DEF Leads
<1> QED BY <1>2, <1>3, <1>4, <1>8 DEF p

-----------------------------------------------------------------------------
(* Removing indexes.                                                       *)

\* Every set of naturals that is not empty has a least element.
LEMMA LeastNat ==
    ASSUME NEW S \in SUBSET Nat, S # {}
    PROVE  \E n \in S : \A k \in S : ~(k < n)
<1> DEFINE R == {p \in Nat \X Nat : p[1] < p[2]}
<1>1. IsWellFoundedOn(R, Nat) BY NatLessThanWellFounded DEF OpToRel
<1> HIDE DEF R
<1>2. PICK n \in S : \A k \in S : ~(<<k, n>> \in R) BY <1>1, WFMin
<1>3. \A k \in S : ~(k < n) BY <1>2 DEF R
<1> QED BY <1>3

\* The greatest of some indexes.
LEMMA MaxIs ==
    ASSUME NEW n \in Nat, NEW S \in SUBSET (0..n), S # {}
    PROVE  Max(S) \in S /\ \A i \in S : i <= Max(S)
<1> DEFINE above == {k \in Nat : \A i \in S : i <= k}
<1>1. n \in above OBVIOUS
<1>2. PICK m \in above : \A k \in above : ~(k < m) BY <1>1, LeastNat
<1>3. m \in S
  <2> SUFFICES ASSUME m \notin S PROVE FALSE OBVIOUS
  <2>1. \A i \in S : i < m BY <1>2
  <2>2. m # 0
    <3>1. PICK i \in S : i < m BY <2>1
    <3> QED BY <3>1
  <2>3. m - 1 \in above BY <1>2, <2>1, <2>2
  <2> QED BY <1>2, <2>3
<1>4. \E x \in S : \A y \in S : x >= y BY <1>2, <1>3
<1>5. Max(S) \in S /\ \A y \in S : Max(S) >= y
  <2> HIDE <1>3
  <2> QED BY <1>4, Zenon DEF Max
<1> QED BY <1>5

\* How CountBelow counts.
LEMMA BelowIs ==
    ASSUME NEW n \in Nat, NEW S \in SUBSET (0..(n - 1)), NEW i \in Nat
    PROVE  /\ IsFiniteSet(S) /\ Cardinality(S) \in 0..n
           /\ CountBelow(S, i) \in 0..Cardinality(S)
           /\ i \in S => CountBelow(S, i) < Cardinality(S)
           /\ (\A j \in S : j < i) => CountBelow(S, i) = Cardinality(S)
           /\ (\A j \in S : ~(j < i)) => CountBelow(S, i) = 0
<1> DEFINE below == {j \in S : j < i}
<1>1. IsFiniteSet(0..(n - 1)) /\ Cardinality(0..(n - 1)) = n
  BY FS_Interval
<1>2. IsFiniteSet(S) /\ Cardinality(S) <= n BY <1>1, FS_Subset
<1>3. IsFiniteSet(below) /\ Cardinality(below) <= Cardinality(S)
  BY <1>2, FS_Subset
<1>4. Cardinality(S) \in Nat /\ Cardinality(below) \in Nat
  BY <1>2, <1>3, FS_CardinalityType
<1>5. CountBelow(S, i) = Cardinality(below) BY DEF CountBelow
<1>6. ASSUME i \in S PROVE Cardinality(below) < Cardinality(S)
  <2>1. i \notin below BY <1>6
  <2>2. Cardinality(S) # Cardinality(below) BY <1>2, <1>6, <2>1, FS_Subset
  <2> QED BY <1>3, <1>4, <2>2
<1>7. ASSUME \A j \in S : j < i PROVE Cardinality(below) = Cardinality(S)
  <2>1. below = S BY <1>7
  <2> QED BY <2>1
<1>8. ASSUME \A j \in S : ~(j < i) PROVE Cardinality(below) = 0
  <2>1. below = {} BY <1>8
  <2> QED BY <2>1, FS_EmptySet
<1> HIDE DEF below
<1> QED BY <1>2, <1>3, <1>4, <1>5, <1>6, <1>7, <1>8

\* Elements of a set have different counts.
LEMMA BelowGrows ==
    ASSUME NEW n \in Nat, NEW S \in SUBSET (0..(n - 1)), NEW i \in S,
           NEW k \in S, i < k
    PROVE  CountBelow(S, i) < CountBelow(S, k)
<1> DEFINE a == {j \in S : j < i}
           b == {j \in S : j < k}
<1>1. IsFiniteSet(S) BY BelowIs
<1>2. IsFiniteSet(b) BY <1>1, FS_Subset
<1>3. a \subseteq b /\ i \in b /\ i \notin a
  <2>1. \A j \in S : j \in Int BY n \in Nat
  <2>2. \A j \in S : j < i => j < k BY <2>1
  <2>3. ~(i < i) BY <2>1
  <2> QED BY <2>2, <2>3
<1>4. IsFiniteSet(a) /\ Cardinality(a) <= Cardinality(b) BY <1>2, <1>3, FS_Subset
<1>5. Cardinality(a) # Cardinality(b) BY <1>2, <1>3, FS_Subset
<1>6. Cardinality(a) \in Nat /\ Cardinality(b) \in Nat
  BY <1>2, <1>4, FS_CardinalityType
<1>7. Cardinality(a) < Cardinality(b)
  <2> HIDE DEF a, b
  <2> QED BY <1>4, <1>5, <1>6
<1> QED BY <1>7 DEF CountBelow

\* What is kept and what is gone, below i.
LEMMA BelowSplits ==
    ASSUME NEW n \in Nat, NEW S \in SUBSET (0..(n - 1)), NEW i \in 0..n
    PROVE  CountBelow(S, i) + CountBelow((0..(n - 1)) \ S, i) = i
<1> DEFINE a == {j \in S : j < i}
           b == {j \in (0..(n - 1)) \ S : j < i}
<1>1. a \cup b = 0..(i - 1) /\ a \cap b = {}
  <2>1. \A j : j \in a \cup b <=> j \in 0..(n - 1) /\ j < i OBVIOUS
  <2>2. \A j : j \in 0..(i - 1) <=> j \in 0..(n - 1) /\ j < i OBVIOUS
  <2>3. a \cap b = {} OBVIOUS
  <2> HIDE DEF a, b
  <2> QED BY <2>1, <2>2, <2>3
<1>2. IsFiniteSet(0..(i - 1)) /\ Cardinality(0..(i - 1)) = i BY FS_Interval
<1>3. IsFiniteSet(a) /\ IsFiniteSet(b) BY <1>1, <1>2, FS_Subset
<1>4. Cardinality(a \cup b) = Cardinality(a) + Cardinality(b) - Cardinality(a \cap b)
  <2> HIDE DEF a, b
  <2> QED BY <1>3, FS_Union
<1>5. Cardinality(a \cap b) = 0 BY <1>1, FS_EmptySet
<1>6. Cardinality(a) \in Nat /\ Cardinality(b) \in Nat
  BY <1>3, FS_CardinalityType
<1>7. Cardinality(a) + Cardinality(b) = i
  <2>1. Cardinality(a \cup b) = i BY <1>1, <1>2, Zenon
  <2> HIDE DEF a, b
  <2> QED BY <2>1, <1>4, <1>5, <1>6
<1> QED BY <1>7 DEF CountBelow

\* A removal of the last of the indexes leaves the others to be removed.
LEMMA LeavesLess ==
    ASSUME NEW s \in Contents, NEW gone, NEW rest \in Contents, gone # {},
           Leaves(s, gone, rest)
    PROVE  /\ Max(gone) \in 0..(Len(s) - 1)
           /\ VecRemove(s, Max(gone)) \in Contents
           /\ Len(VecRemove(s, Max(gone))) = Len(s) - 1
           /\ Leaves(VecRemove(s, Max(gone)), gone \ {Max(gone)}, rest)
<1>1. s \in Seq(Values) /\ Len(s) \in Nat /\ Len(s) <= MaxLen
  BY ShortSeqs, LenProperties, MaxLenAssumption DEF Contents
<1>2. /\ gone \in SUBSET (0..(Len(s) - 1))
      /\ Len(rest) = Len(s) - Cardinality(gone)
      /\ \A i \in (0..(Len(s) - 1)) \ gone :
            rest[i - CountBelow(gone, i) + 1] = s[i + 1]
  BY DEF Leaves
<1>3. Len(s) - 1 \in Nat
  <2>1. PICK i \in gone : i \in 0..(Len(s) - 1) BY <1>2
  <2> QED BY <1>1, <2>1
<1>4. PICK m \in gone : m = Max(gone) /\ \A i \in gone : i <= m
  BY <1>2, <1>3, MaxIs
<1> DEFINE t == VecRemove(s, m)
           less == gone \ {m}
<1>5. m \in 0..(Len(s) - 1) BY <1>2, <1>4
<1>6. /\ t \in Seq(Values) /\ Len(t) = Len(s) - 1
      /\ \A p \in 1..(Len(s) - 1) : t[p] = IF p <= m THEN s[p] ELSE s[p + 1]
  BY <1>1, <1>5, Removed
<1>7. t \in Contents
  <2> HIDE DEF t
  <2> QED BY <1>1, <1>6, ShortSeqs, MaxLenAssumption DEF Contents
<1>8. less \in SUBSET (0..(Len(t) - 1))
  <2>1. \A i \in less : i \in 0..(Len(s) - 1) /\ i < m BY <1>2, <1>4, <1>5
  <2>2. less \subseteq 0..(Len(s) - 1 - 1) BY <1>1, <1>5, <2>1
  <2> QED BY <1>6, <2>2
<1>9. IsFiniteSet(gone) /\ Cardinality(gone) \in Nat
  <2>1. IsFiniteSet(gone) BY <1>1, <1>2, BelowIs
  <2> QED BY <2>1, FS_CardinalityType
<1>10. Cardinality(less) = Cardinality(gone) - 1
  BY <1>4, <1>9, FS_RemoveElement
<1>11. Len(rest) = Len(t) - Cardinality(less)
  <2> HIDE DEF t, less
  <2> QED BY <1>1, <1>2, <1>6, <1>9, <1>10
<1>12. ASSUME NEW i \in (0..(Len(t) - 1)) \ less
       PROVE  rest[i - CountBelow(less, i) + 1] = t[i + 1]
  <2>0. i \in Nat /\ i + 1 \in 1..(Len(s) - 1) /\ i \in 0..(Len(s) - 1)
    BY <1>1, <1>6
  <2>1. CASE i < m
    <3>1. i \notin gone BY <2>1, <1>5
    <3>2. {j \in less : j < i} = {j \in gone : j < i} BY <2>0, <2>1, <1>5
    <3>3. CountBelow(less, i) = CountBelow(gone, i) BY <3>2, Zenon DEF CountBelow
    <3>4. t[i + 1] = s[i + 1] BY <1>5, <1>6, <2>0, <2>1
    <3> QED BY <1>2, <2>0, <3>1, <3>3, <3>4
  <2>2. CASE ~(i < m)
    <3>1. i + 1 \in (0..(Len(s) - 1)) \ gone BY <1>4, <1>5, <2>0, <2>2
    <3>2. CountBelow(gone, i + 1) = Cardinality(gone)
      <4>1. \A j \in gone : j < i + 1
        <5>1. \A j \in gone : j \in Nat /\ j <= m BY <1>2, <1>4
        <5> QED BY <5>1, <1>5, <2>0, <2>2
      <4>2. i + 1 \in Nat BY <2>0
      <4> QED BY <1>1, <1>2, <4>1, <4>2, BelowIs
    <3>3. CountBelow(less, i) = Cardinality(less)
      <4>1. \A j \in less : j < i
        <5>1. \A j \in less : j \in Nat /\ j <= m /\ j # m BY <1>2, <1>4
        <5> QED BY <5>1, <1>5, <2>0, <2>2
      <4>2. Len(t) \in Nat BY <1>6, <1>3
      <4> HIDE DEF less, t
      <4> QED BY <1>8, <2>0, <4>1, <4>2, BelowIs
    <3>4. t[i + 1] = s[i + 1 + 1] BY <1>5, <1>6, <2>0, <2>2
    <3>5. rest[(i + 1) - Cardinality(gone) + 1] = s[i + 1 + 1]
      BY <1>2, <3>1, <3>2
    <3>6. (i + 1) - Cardinality(gone) + 1 = i - Cardinality(less) + 1
      <4> HIDE DEF less
      <4> QED BY <1>9, <1>10, <2>0
    <3> QED BY <3>3, <3>4, <3>5, <3>6
  <2> QED BY <2>1, <2>2
<1>13. Leaves(t, less, rest)
  <2> HIDE DEF t, less
  <2> QED BY <1>8, <1>11, <1>12 DEF Leaves
<1> QED BY <1>4, <1>5, <1>6, <1>7, <1>13

\* Nothing is left to be removed.
LEMMA LeavesNone ==
    ASSUME NEW s \in Contents, NEW rest \in Contents, Leaves(s, {}, rest)
    PROVE  rest = s
<1>1. /\ s \in Seq(Values) /\ Len(s) \in Nat
      /\ rest \in Seq(Values) /\ Len(rest) \in Nat
  BY ShortSeqs, LenProperties, MaxLenAssumption DEF Contents
<1>2. Len(rest) = Len(s) BY <1>1, FS_EmptySet DEF Leaves
<1>3. ASSUME NEW p \in 1..Len(s) PROVE rest[p] = s[p]
  <2>1. PICK i \in Nat : i = p - 1 OBVIOUS
  <2>2. CountBelow({}, i) = 0
    <3>1. {j \in {} : j < i} = {} OBVIOUS
    <3> QED BY <3>1, FS_EmptySet DEF CountBelow
  <2>3. i \in (0..(Len(s) - 1)) \ {} BY <1>1, <2>1
  <2>4. rest[i - CountBelow({}, i) + 1] = s[i + 1] BY <2>3 DEF Leaves
  <2>5. i - CountBelow({}, i) + 1 = p /\ i + 1 = p BY <2>1, <2>2
  <2> QED BY <2>4, <2>5
<1> QED BY <1>1, <1>2, <1>3, SeqEqual

\* retain leaves exactly what is kept.
LEMMA KeptLeaves ==
    ASSUME values \in Contents, NEW keep \in SUBSET (0..(Len(values) - 1))
    PROVE  /\ Kept(keep) \in Contents
           /\ Leaves(values, (0..(Len(values) - 1)) \ keep, Kept(keep))
<1> DEFINE n == Len(values)
           gone == (0..(n - 1)) \ keep
           card == Cardinality(keep)
           f == [i \in keep |-> CountBelow(keep, i)]
<1>1. values \in Seq(Values) /\ n \in Nat /\ n <= MaxLen
  BY ShortSeqs, LenProperties, MaxLenAssumption DEF Contents
<1>2. keep \in SUBSET (0..(n - 1)) /\ gone \in SUBSET (0..(n - 1)) OBVIOUS
<1>3. IsFiniteSet(keep) /\ card \in 0..n BY <1>1, <1>2, BelowIs
<1>4. \A i \in keep : CountBelow(keep, i) \in 0..(card - 1)
  <2> TAKE i \in keep
  <2>1. i \in Nat BY <1>1
  <2>2. CountBelow(keep, i) \in 0..card /\ CountBelow(keep, i) < card
    BY <1>1, <1>2, <2>1, BelowIs
  <2> HIDE DEF card
  <2> QED BY <1>3, <2>2
<1>5. \A i, k \in keep : CountBelow(keep, i) = CountBelow(keep, k) => i = k
  <2> SUFFICES ASSUME NEW i \in keep, NEW k \in keep, i # k
               PROVE  CountBelow(keep, i) # CountBelow(keep, k)
    OBVIOUS
  <2>1. i \in Nat /\ k \in Nat BY <1>1
  <2>2. CountBelow(keep, i) \in Int /\ CountBelow(keep, k) \in Int
    BY <1>3, <1>4
  <2>3. i < k \/ k < i BY <2>1
  <2>4. \/ CountBelow(keep, i) < CountBelow(keep, k)
        \/ CountBelow(keep, k) < CountBelow(keep, i)
    BY <1>1, <1>2, <2>3, BelowGrows
  <2> QED BY <2>2, <2>4
<1>6. \A p \in 1..card : \E i \in keep : CountBelow(keep, i) = p - 1
  <2>1. f \in Injection(keep, 0..(card - 1))
    <3>1. f \in [keep -> 0..(card - 1)] BY <1>4
    <3>2. \A a, b \in keep : f[a] = f[b] => a = b BY <1>5
    <3> HIDE DEF f
    <3> QED BY <3>1, <3>2 DEF Injection, IsInjective
  <2>2. IsFiniteSet(0..(card - 1)) /\ Cardinality(0..(card - 1)) = card
    <3> HIDE DEF card
    <3>1. card \in Nat BY <1>1, <1>3
    <3> QED BY <3>1, FS_Interval
  <2>3. f \in Surjection(keep, 0..(card - 1))
    <3> HIDE DEF f
    <3> QED BY <2>1, <2>2, FS_Injection
  <2>4. \A k \in 0..(card - 1) : \E i \in keep : f[i] = k
    <3> HIDE DEF f
    <3> QED BY <2>3 DEF Surjection
  <2> TAKE p \in 1..card
  <2>5. p - 1 \in 0..(card - 1)
    <3> HIDE DEF card
    <3> QED BY <1>3
  <2>6. PICK i \in keep : f[i] = p - 1 BY <2>4, <2>5
  <2> QED BY <2>6
<1> DEFINE at(p) == CHOOSE i \in keep : CountBelow(keep, i) = p - 1
<1>7. \A p \in 1..card : at(p) \in keep BY <1>6
<1>8. Kept(keep) = [p \in 1..card |-> values[1 + at(p)]] BY DEF Kept
<1>9. \A i \in keep : at(CountBelow(keep, i) + 1) = i
  <2> TAKE i \in keep
  <2>1. CountBelow(keep, i) \in Int BY <1>3, <1>4
  <2>2. (CountBelow(keep, i) + 1) - 1 = CountBelow(keep, i) BY <2>1
  <2> QED BY <1>5, <2>2
<1> HIDE DEF at, f
<1>10. Kept(keep) \in Contents
  <2>1. \A p \in 1..card : values[1 + at(p)] \in Values
    <3> TAKE p \in 1..card
    <3>1. at(p) \in keep BY <1>7
    <3>2. at(p) \in 0..(n - 1) BY <3>1
    <3>3. 1 + at(p) \in 1..n
      <4> HIDE DEF n
      <4> QED BY <1>1, <3>2
    <3> QED BY <1>1, <3>3, ElementOfSeq
  <2>2. Kept(keep) \in [1..card -> Values] BY <1>8, <2>1
  <2>3. card \in 0..MaxLen
    <3> HIDE DEF card
    <3> QED BY <1>1, <1>3, MaxLenAssumption
  <2> HIDE DEF card
  <2> QED BY <2>2, <2>3 DEF Contents, SeqOf
<1>11. Len(Kept(keep)) = card
  <2> HIDE DEF card
  <2> QED BY <1>3, <1>8
<1>12. Cardinality(gone) = n - card
  <2>1. IsFiniteSet(gone) BY <1>1, <1>2, BelowIs
  <2>2. keep \cup gone = 0..(n - 1) /\ keep \cap gone = {} BY <1>2
  <2>3. Cardinality(0..(n - 1)) = n
    <3> HIDE DEF n
    <3> QED BY <1>1, FS_Interval
  <2>4. Cardinality(keep \cup gone) =
            card + Cardinality(gone) - Cardinality(keep \cap gone)
    <3> HIDE DEF gone
    <3> QED BY <1>3, <2>1, FS_Union
  <2>5. Cardinality(keep \cap gone) = 0 BY <2>2, FS_EmptySet
  <2>6. Cardinality(gone) \in Nat BY <2>1, FS_CardinalityType
  <2>7. Cardinality(keep \cup gone) = n BY <2>2, <2>3
  <2> HIDE DEF gone, card, n
  <2> QED BY <1>1, <1>3, <2>4, <2>5, <2>6, <2>7
<1>13. ASSUME NEW i \in (0..(n - 1)) \ gone
       PROVE  Kept(keep)[i - CountBelow(gone, i) + 1] = values[i + 1]
  <2>1. i \in keep /\ i \in 0..n BY <1>1
  <2>2. CountBelow(keep, i) + CountBelow(gone, i) = i
    BY <1>1, <1>2, <2>1, BelowSplits
  <2>3. CountBelow(keep, i) \in 0..(card - 1) BY <1>4, <2>1
  <2>4. CountBelow(gone, i) \in Int
    <3>1. CountBelow(gone, i) \in 0..Cardinality(gone) /\ i \in Nat
      BY <1>1, <1>2, <2>1, BelowIs
    <3> QED BY <3>1
  <2>5. i - CountBelow(gone, i) = CountBelow(keep, i)
    <3> HIDE DEF gone
    <3> QED BY <2>1, <2>2, <2>3, <2>4
  <2>6. CountBelow(keep, i) + 1 \in 1..card
    <3> HIDE DEF card
    <3> QED BY <1>3, <2>3
  <2>7. Kept(keep)[CountBelow(keep, i) + 1] = values[1 + i]
    BY <1>8, <1>9, <2>1, <2>6
  <2> QED BY <2>1, <2>5, <2>7
<1>14. Leaves(values, gone, Kept(keep))
  <2>1. Len(Kept(keep)) = n - Cardinality(gone)
    <3> HIDE DEF gone, card
    <3> QED BY <1>1, <1>3, <1>11, <1>12
  <2> HIDE DEF gone
  <2> QED BY <1>2, <1>13, <2>1 DEF Leaves
<1> QED BY <1>10, <1>14

\* drain leaves exactly what is not in its range.
LEMMA DrainLeaves ==
    ASSUME NEW s \in Contents, NEW from \in 0..Len(s), NEW to \in from..Len(s)
    PROVE  /\ VecDrain(s, from, to) \in Contents
           /\ from..(to - 1) \subseteq 0..(Len(s) - 1)
           /\ Leaves(s, from..(to - 1), VecDrain(s, from, to))
<1> DEFINE gone == from..(to - 1)
<1>1. s \in Seq(Values) /\ Len(s) \in Nat /\ Len(s) <= MaxLen
  BY ShortSeqs, LenProperties, MaxLenAssumption DEF Contents
<1>2. /\ VecDrain(s, from, to) \in Seq(Values)
      /\ Len(VecDrain(s, from, to)) = Len(s) - (to - from)
      /\ \A p \in 1..(Len(s) - (to - from)) :
            VecDrain(s, from, to)[p] =
                IF p <= from THEN s[p] ELSE s[p + (to - from)]
  BY <1>1, Drained
<1>3. VecDrain(s, from, to) \in Contents
  BY <1>1, <1>2, ShortSeqs, MaxLenAssumption DEF Contents
<1>4. Cardinality(gone) = to - from
  <2>1. PICK last \in Int : last = to - 1 BY <1>1
  <2>2. Cardinality(from..last) = IF from > last THEN 0 ELSE last - from + 1
    BY <1>1, FS_Interval
  <2> QED BY <1>1, <2>1, <2>2
<1>5. gone \in SUBSET (0..(Len(s) - 1)) BY <1>1
<1>6. ASSUME NEW i \in (0..(Len(s) - 1)) \ gone
      PROVE  VecDrain(s, from, to)[i - CountBelow(gone, i) + 1] = s[i + 1]
  <2>1. CASE i < from
    <3>1. \A j \in gone : ~(j < i) BY <1>1, <2>1
    <3>2. CountBelow(gone, i) = 0
      <4> HIDE DEF gone
      <4> QED BY <1>1, <1>5, <3>1, BelowIs
    <3>3. i - CountBelow(gone, i) + 1 = i + 1 BY <3>2
    <3>4. i + 1 \in 1..(Len(s) - (to - from)) /\ i + 1 <= from
      BY <1>1, <2>1
    <3> QED BY <1>2, <3>3, <3>4
  <2>2. CASE ~(i < from)
    <3>1. to <= i BY <1>1, <2>2
    <3>2. \A j \in gone : j < i BY <1>1, <3>1
    <3>3. CountBelow(gone, i) = to - from
      <4> HIDE DEF gone
      <4> QED BY <1>1, <1>4, <1>5, <3>2, BelowIs
    <3>4. PICK p \in Int : p = i - (to - from) + 1 BY <1>1
    <3>5. /\ p \in 1..(Len(s) - (to - from)) /\ ~(p <= from)
          /\ p + (to - from) = i + 1
      BY <1>1, <3>1, <3>4
    <3> QED BY <1>2, <3>3, <3>4, <3>5
  <2> QED BY <2>1, <2>2
<1>7. Leaves(s, gone, VecDrain(s, from, to))
  <2> HIDE DEF gone
  <2> QED BY <1>2, <1>4, <1>5, <1>6 DEF Leaves
<1> QED BY <1>3, <1>5, <1>7

-----------------------------------------------------------------------------
(* What the operations tell the receivers.                                 *)

\* The receivers, who were told s, are told t by at most one diff.
Told(s, t) ==
    \/ Silent /\ t = s
    \/ \E d \in Diffs : Applicable(d, s) /\ Apply(d, s) = t /\ Notify(d)

LEMMA ToldKeeps ==
    ASSUME Receiving, handle, NEW s \in Contents, NEW t \in Contents,
           AllLead(s), Told(s, t), UNCHANGED <<Receiver, handle>>
    PROVE  Receiving' /\ AllLead(t)'
<1>1. CASE Silent /\ t = s
  BY <1>1 DEF Receiving, AllLead, Silent, Receiver, Open
<1>2. CASE \E d \in Diffs : Applicable(d, s) /\ Apply(d, s) = t /\ Notify(d)
  <2>1. PICK d \in Diffs : Applicable(d, s) /\ Apply(d, s) = t /\ Notify(d)
    BY <1>2
  <2>2. ASSUME NEW r \in Receivers
        PROVE  /\ queue'[r] = IF r \in senders /\ Open(r)
                              THEN Append(queue[r], d) ELSE queue[r]
               /\ queue'[r] \in Seq(Diffs)
               /\ status[r] # "open" => queue'[r] = <<>>
               /\ Open(r) => Leads(queue'[r], view[r], t)
    <3>1. queue[r] \in Seq(Diffs) BY DEF Receiving
    <3>2. Append(queue[r], d) \in Seq(Diffs) BY <3>1, AppendProperties
    <3>3. queue'[r] = IF r \in senders /\ Open(r)
                      THEN Append(queue[r], d) ELSE queue[r]
      BY <2>1 DEF Notify
    <3>4. ASSUME Open(r) PROVE Leads(queue'[r], view[r], t)
      <4>1. queue'[r] = Append(queue[r], d)
        BY <3>3, <3>4 DEF Receiving
      <4>2. Leads(queue[r], view[r], s) BY <3>4 DEF AllLead
      <4>3. Leads(Append(queue[r], d), view[r], Apply(d, s))
        BY <2>1, <3>1, <4>2, LeadsFurther
      <4> QED BY <2>1, <4>1, <4>3
    <3> QED BY <3>1, <3>2, <3>3, <3>4 DEF Receiving, Open
  <2>3. queue' \in [Receivers -> Seq(Diffs)]
    <3>1. queue' = [r \in Receivers |-> queue'[r]] BY <2>1 DEF Notify
    <3> QED BY <2>2, <3>1
  <2>4. senders' = {r \in senders : Open(r)} BY <2>1 DEF Notify
  <2>5. Receiving' BY <2>2, <2>3, <2>4 DEF Receiving, Receiver, Open
  <2>6. AllLead(t)' BY <2>2 DEF AllLead, Receiver, Open
  <2> QED BY <2>5, <2>6
<1> QED BY <1>1, <1>2 DEF Told

\* Contents as sequences.
LEMMA ContentsAre ==
    ASSUME NEW s
    PROVE  s \in Contents <=> s \in Seq(Values) /\ Len(s) \in 0..MaxLen
<1>1. s \in Contents <=> s \in Seq(Values) /\ Len(s) <= MaxLen
  BY ShortSeqs, MaxLenAssumption DEF Contents
<1>2. s \in Seq(Values) => Len(s) \in Nat BY LenProperties
<1> QED BY <1>1, <1>2, MaxLenAssumption

LEMMA PushTold ==
    ASSUME values \in Contents, NEW v \in Values, Push(v)
    PROVE  values' \in Contents /\ Told(values, values')
<1>1. values' = Append(values, v) /\ Len(values) < MaxLen BY DEF Push
<1>2. values' \in Contents
  <2>1. values \in Seq(Values) /\ Len(values) \in 0..MaxLen BY ContentsAre
  <2>2. values' \in Seq(Values) /\ Len(values') = Len(values) + 1
    BY <1>1, <2>1, AppendProperties
  <2>3. Len(values') \in 0..MaxLen BY <1>1, <2>1, <2>2, MaxLenAssumption
  <2>4. \A s : s \in Seq(Values) /\ Len(s) \in 0..MaxLen => s \in Contents
    BY ContentsAre
  <2> QED BY <2>2, <2>3, <2>4
<1>3. PushDiff(v) \in Diffs BY DEF Diffs
<1>4. Applicable(PushDiff(v), values) /\ Apply(PushDiff(v), values) = values'
  BY <1>1, ApplyPush
<1> QED BY <1>2, <1>3, <1>4 DEF Push, Told

LEMMA PopTold ==
    ASSUME values \in Contents, Pop
    PROVE  values' \in Contents /\ Told(values, values')
<1>1. CASE values = <<>> BY <1>1 DEF Pop, Told
<1>2. CASE values # <<>>
  <2>1. values' = VecPop(values) /\ Notify(PopDiff) BY <1>2 DEF Pop
  <2>2. values \in Seq(Values) /\ Len(values) \in 0..MaxLen BY ContentsAre
  <2>3. values' \in Seq(Values) /\ Len(values') = Len(values) - 1
    BY <1>2, <2>1, <2>2, Popped
  <2>4. Len(values') \in Nat BY <2>3, LenProperties
  <2>5. Len(values') \in 0..MaxLen BY <2>2, <2>3, <2>4, MaxLenAssumption
  <2>6. \A s : s \in Seq(Values) /\ Len(s) \in 0..MaxLen => s \in Contents
    BY ContentsAre
  <2>7. values' \in Contents BY <2>3, <2>5, <2>6
  <2>8. PopDiff \in Diffs BY DEF Diffs
  <2>9. Applicable(PopDiff, values) /\ Apply(PopDiff, values) = values'
    BY <1>2, <2>1, ApplyPop
  <2> QED BY <2>1, <2>7, <2>8, <2>9 DEF Told
<1> QED BY <1>1, <1>2

LEMMA InsertTold ==
    ASSUME values \in Contents, NEW i \in 0..MaxLen, NEW v \in Values,
           InsertOp(i, v)
    PROVE  values' \in Contents /\ Told(values, values')
<1>1. CASE Push(v) BY <1>1, PushTold
<1>2. CASE /\ i < Len(values)
           /\ Len(values) < MaxLen
           /\ values' = VecInsert(values, i, v)
           /\ Notify(InsertDiff(i, v))
  <2>1. values \in Seq(Values) /\ Len(values) \in 0..MaxLen BY ContentsAre
  <2>2. i \in 0..Len(values) BY <1>2, <2>1, MaxLenAssumption
  <2>3. values' \in Seq(Values) /\ Len(values') = Len(values) + 1
    BY <1>2, <2>1, <2>2, Inserted
  <2>4. Len(values') \in 0..MaxLen BY <1>2, <2>1, <2>3, MaxLenAssumption
  <2>5. \A s : s \in Seq(Values) /\ Len(s) \in 0..MaxLen => s \in Contents
    BY ContentsAre
  <2>6. values' \in Contents BY <2>3, <2>4, <2>5
  <2>7. InsertDiff(i, v) \in Diffs BY DEF Diffs
  <2>8. /\ Applicable(InsertDiff(i, v), values)
        /\ Apply(InsertDiff(i, v), values) = values'
    BY <1>2, <2>2, ApplyInsert
  <2> QED BY <1>2, <2>6, <2>7, <2>8 DEF Told
<1> QED BY <1>1, <1>2 DEF InsertOp

LEMMA SetTold ==
    ASSUME values \in Contents, NEW i \in 0..MaxLen, NEW v \in Values, Set(i, v)
    PROVE  values' \in Contents /\ Told(values, values')
<1>1. /\ i < Len(values) /\ values' = ReplaceAt(values, i + 1, v)
      /\ Notify(UpdateDiff(i, v))
  BY DEF Set
<1>2. values \in Seq(Values) /\ Len(values) \in 0..MaxLen BY ContentsAre
<1>3. i \in 0..(Len(values) - 1) /\ i + 1 \in 1..Len(values)
  BY <1>1, <1>2, MaxLenAssumption
<1>4. values' = [values EXCEPT ![i + 1] = v] BY <1>1 DEF ReplaceAt
<1>5. values' \in Seq(Values) /\ Len(values') = Len(values)
  BY <1>2, <1>3, <1>4, ExceptSeq
<1>6. \A s : s \in Seq(Values) /\ Len(s) \in 0..MaxLen => s \in Contents
  BY ContentsAre
<1>7. values' \in Contents BY <1>2, <1>5, <1>6
<1>8. UpdateDiff(i, v) \in Diffs BY DEF Diffs
<1>9. /\ Applicable(UpdateDiff(i, v), values)
      /\ Apply(UpdateDiff(i, v), values) = values'
  BY <1>1, <1>3, ApplyUpdate
<1> QED BY <1>1, <1>7, <1>8, <1>9 DEF Told

\* The contents after a removal and after a move.
LEMMA RemovedContents ==
    ASSUME NEW s \in Contents, NEW i \in 0..(Len(s) - 1)
    PROVE  VecRemove(s, i) \in Contents
<1>1. s \in Seq(Values) /\ Len(s) \in 0..MaxLen BY ContentsAre
<1>2. PICK t : t = VecRemove(s, i) OBVIOUS
<1>3. t \in Seq(Values) /\ Len(t) = Len(s) - 1 BY <1>1, <1>2, Removed
<1>4. Len(t) \in 0..MaxLen BY <1>1, <1>3, MaxLenAssumption
<1> QED BY <1>2, <1>3, <1>4, ContentsAre

LEMMA MovedContents ==
    ASSUME NEW s \in Contents, NEW old \in 0..(Len(s) - 1),
           NEW new \in 0..(Len(s) - 1)
    PROVE  VecMove(s, old, new) \in Contents
<1>1. s \in Seq(Values) /\ Len(s) \in 0..MaxLen BY ContentsAre
<1>2. PICK t : t = VecMove(s, old, new) OBVIOUS
<1>3. t \in Seq(Values) /\ Len(t) = Len(s) BY <1>1, <1>2, Moved
<1> QED BY <1>1, <1>2, <1>3, ContentsAre

LEMMA RemoveTold ==
    ASSUME values \in Contents, NEW i \in 0..MaxLen, RemoveOp(i)
    PROVE  values' \in Contents /\ Told(values, values')
<1>1. values \in Seq(Values) /\ Len(values) \in 0..MaxLen BY ContentsAre
<1>2. /\ i \in 0..(Len(values) - 1)
      /\ values' = VecRemove(values, i)
      /\ Notify(RemovalDiff(i, Len(values)))
  BY <1>1, MaxLenAssumption DEF RemoveOp
<1>3. values' \in Contents BY <1>2, RemovedContents
<1> QED BY <1>2, <1>3, ApplyRemoval DEF Told

\* A move tells nothing if the element stays where it is.
LEMMA MoveTold ==
    ASSUME values \in Contents, NEW old, NEW new, MoveFromTo(old, new)
    PROVE  /\ values' \in Contents /\ Told(values, values')
           /\ old \in 0..(Len(values) - 1) /\ new \in 0..(Len(values) - 1)
           /\ values' = IF old = new THEN values ELSE VecMove(values, old, new)
<1>1. old \in 0..(Len(values) - 1) /\ new \in 0..(Len(values) - 1)
  BY DEF MoveFromTo
<1>2. values \in Seq(Values) /\ Len(values) \in 0..MaxLen BY ContentsAre
<1>3. CASE old = new BY <1>1, <1>3 DEF MoveFromTo, Told
<1>4. CASE old # new
  <2>1. values' = VecMove(values, old, new) /\ Notify(MoveDiff(old, new))
    BY <1>4 DEF MoveFromTo
  <2>2. values' \in Contents BY <1>1, <2>1, MovedContents
  <2>3. old \in 0..MaxLen /\ new \in 0..MaxLen
    BY <1>1, <1>2, MaxLenAssumption
  <2>4. MoveDiff(old, new) \in Diffs BY <2>3 DEF Diffs
  <2>5. {old, new} \subseteq 0..(Len(values) - 1) BY <1>1
  <2>6. /\ Applicable(MoveDiff(old, new), values)
        /\ Apply(MoveDiff(old, new), values) = values'
    BY <2>1, <2>5, ApplyMove
  <2> QED BY <1>1, <1>4, <2>1, <2>2, <2>4, <2>6 DEF Told
<1> QED BY <1>3, <1>4

LEMMA ReplaceTold ==
    ASSUME NEW vs \in Contents, ReplaceOp(vs)
    PROVE  values' \in Contents /\ Told(values, values')
<1>1. values' = vs /\ Notify(ReplaceDiff(vs)) BY DEF ReplaceOp
<1>2. ReplaceDiff(vs) \in Diffs BY DEF Diffs
<1> QED BY <1>1, <1>2, ApplyReplace DEF Told

\* Nothing is left.
LEMMA ClearTold ==
    ASSUME values' = <<>>, Notify(ClearDiff)
    PROVE  values' \in Contents /\ Told(values, values')
<1>1. <<>> \in Contents
  <2>1. Len(<<>>) = 0 /\ <<>> \in Seq(Values) OBVIOUS
  <2>2. Len(<<>>) \in 0..MaxLen BY <2>1, MaxLenAssumption
  <2> QED BY <2>1, <2>2, ContentsAre
<1>2. ClearDiff \in Diffs BY DEF Diffs
<1> QED BY <1>1, <1>2, ApplyClear DEF Told

LEMMA SimpleTold ==
    ASSUME values \in Contents, SimpleOp
    PROVE  values' \in Contents /\ Told(values, values')
<1>1. ASSUME NEW v \in Values, Push(v)
      PROVE  values' \in Contents /\ Told(values, values')
  BY <1>1, PushTold
<1>2. ASSUME ClearOp PROVE values' \in Contents /\ Told(values, values')
  BY <1>2, ClearTold DEF ClearOp, Told
<1>3. ASSUME NEW vs \in SeqOf(Values, MaxLen), ReplaceOp(vs)
      PROVE  values' \in Contents /\ Told(values, values')
  BY <1>3, ReplaceTold DEF Contents
<1> QED BY <1>1, <1>2, <1>3, PopTold, InsertTold, SetTold, RemoveTold, MoveTold
  DEF SimpleOp

\* A legal diff of another SignalVec is one of the operations.
LEMMA ApplyTold ==
    ASSUME values \in Contents, ApplyOp
    PROVE  values' \in Contents /\ Told(values, values')
<1>1. PICK d \in LegalDiffs(values, Values, MaxLen) : ApplyVecDiff(d)
  BY DEF ApplyOp
<1>2. values \in Seq(Values) /\ Len(values) \in 0..MaxLen BY ContentsAre
<1>3. \A i : i \in 0..Len(values) \/ i \in 0..(Len(values) - 1) => i \in 0..MaxLen
  BY <1>2, MaxLenAssumption
<1>4. ASSUME NEW vs \in SeqOf(Values, MaxLen), d = ReplaceDiff(vs)
      PROVE  ReplaceOp(vs)
  <2>1. d.op = "Replace" /\ d.values = vs BY <1>4 DEF ReplaceDiff
  <2> QED BY <1>1, <2>1, Zenon DEF ApplyVecDiff
<1>5. ASSUME NEW i, NEW v, d = UpdateDiff(i, v) PROVE Set(i, v)
  <2>1. d.op = "UpdateAt" /\ d.index = i /\ d.value = v
    BY <1>5 DEF UpdateDiff
  <2> QED BY <1>1, <2>1, Zenon DEF ApplyVecDiff
<1>6. ASSUME NEW i, d = RemoveDiff(i) PROVE RemoveOp(i)
  <2>1. d.op = "RemoveAt" /\ d.index = i BY <1>6 DEF RemoveDiff
  <2> QED BY <1>1, <2>1, Zenon DEF ApplyVecDiff
<1>7. ASSUME NEW i, NEW j, d = MoveDiff(i, j) PROVE MoveFromTo(i, j)
  <2>1. d.op = "Move" /\ d.old = i /\ d.new = j BY <1>7 DEF MoveDiff
  <2> QED BY <1>1, <2>1, Zenon DEF ApplyVecDiff
<1>8. ASSUME d = PopDiff PROVE Pop
  <2>1. d.op = "Pop" BY <1>8 DEF PopDiff
  <2> QED BY <1>1, <2>1, Zenon DEF ApplyVecDiff
<1>9. ASSUME d = ClearDiff PROVE ClearOp
  <2>1. d.op = "Clear" BY <1>9 DEF ClearDiff
  <2> QED BY <1>1, <2>1, Zenon DEF ApplyVecDiff
<1>10. ASSUME NEW i, NEW v, d = InsertDiff(i, v) PROVE InsertOp(i, v)
  <2>1. d.op = "InsertAt" /\ d.index = i /\ d.value = v
    BY <1>10 DEF InsertDiff
  <2> QED BY <1>1, <2>1, Zenon DEF ApplyVecDiff
<1>11. ASSUME NEW v, d = PushDiff(v) PROVE Push(v)
  <2>1. d.op = "Push" /\ d.value = v BY <1>11 DEF PushDiff
  <2> QED BY <1>1, <2>1, Zenon DEF ApplyVecDiff
<1>12. \/ \E vs \in SeqOf(Values, MaxLen) : d = ReplaceDiff(vs)
       \/ \E i \in 0..(Len(values) - 1), v \in Values : d = UpdateDiff(i, v)
       \/ \E i \in 0..(Len(values) - 1) : d = RemoveDiff(i)
       \/ \E i, j \in 0..(Len(values) - 1) : d = MoveDiff(i, j)
       \/ d = PopDiff
       \/ d = ClearDiff
       \/ \E i \in 0..Len(values), v \in Values : d = InsertDiff(i, v)
       \/ \E v \in Values : d = PushDiff(v)
  BY <1>1 DEF LegalDiffs
<1>13. ASSUME NEW vs \in SeqOf(Values, MaxLen), d = ReplaceDiff(vs)
       PROVE  values' \in Contents /\ Told(values, values')
  BY <1>4, <1>13, ReplaceTold DEF Contents
<1>14. ASSUME NEW i \in 0..(Len(values) - 1), NEW v \in Values,
              d = UpdateDiff(i, v)
       PROVE  values' \in Contents /\ Told(values, values')
  BY <1>3, <1>5, <1>14, SetTold
<1>15. ASSUME NEW i \in 0..(Len(values) - 1), d = RemoveDiff(i)
       PROVE  values' \in Contents /\ Told(values, values')
  BY <1>3, <1>6, <1>15, RemoveTold
<1>16. ASSUME NEW i, NEW j, d = MoveDiff(i, j)
       PROVE  values' \in Contents /\ Told(values, values')
  BY <1>7, <1>16, MoveTold
<1>17. ASSUME d = PopDiff PROVE values' \in Contents /\ Told(values, values')
  BY <1>8, <1>17, PopTold
<1>18. ASSUME d = ClearDiff PROVE values' \in Contents /\ Told(values, values')
  BY <1>9, <1>18, ClearTold DEF ClearOp, Told
<1>19. ASSUME NEW i \in 0..Len(values), NEW v \in Values, d = InsertDiff(i, v)
       PROVE  values' \in Contents /\ Told(values, values')
  BY <1>3, <1>10, <1>19, InsertTold
<1>20. ASSUME NEW v \in Values, d = PushDiff(v)
       PROVE  values' \in Contents /\ Told(values, values')
  BY <1>11, <1>20, PushTold
<1> QED BY <1>12, <1>13, <1>14, <1>15, <1>16, <1>17, <1>18, <1>19, <1>20

-----------------------------------------------------------------------------
(* The operations that send several diffs.                                 *)

\* One more element of a reverse is in its place, and the last one brings the
\* other with it.
LEMMA ReverseMoves ==
    ASSUME NEW s \in Contents, NEW goal \in Contents, Len(goal) = Len(s),
           NEW next \in 0..(Len(s) - 2), HalfReversed(s, next, goal)
    PROVE  /\ HalfReversed(VecMove(s, Len(s) - 1, next), next + 1, goal)
           /\ next + 1 = Len(s) - 1 => VecMove(s, Len(s) - 1, next) = goal
<1>1. s \in Seq(Values) /\ goal \in Seq(Values) /\ Len(s) \in Nat
  BY ContentsAre
<1>2. PICK last \in Nat : last = Len(s) - 1 BY <1>1
<1>3. PICK t : t = VecMove(s, last, next) OBVIOUS
<1>4. /\ t \in Seq(Values) /\ Len(t) = Len(s)
      /\ \A p \in 1..Len(s) :
            t[p] = IF p = next + 1 THEN s[last + 1]
                   ELSE IF last < p /\ p <= next THEN s[p + 1]
                   ELSE IF next + 1 < p /\ p <= last + 1 THEN s[p - 1]
                   ELSE s[p]
  <2>1. last \in 0..(Len(s) - 1) /\ next \in 0..(Len(s) - 1) BY <1>1, <1>2
  <2> QED BY <1>1, <1>3, <2>1, Moved
<1>5. \A p \in 1..Len(s) :
         s[p] = goal[IF p <= next THEN p ELSE Len(s) + next + 1 - p]
  BY DEF HalfReversed
<1>6. ASSUME NEW p \in 1..Len(t)
      PROVE  t[p] = goal[IF p <= next + 1 THEN p ELSE Len(t) + (next + 1) + 1 - p]
  <2>1. CASE p <= next
    <3>1. t[p] = s[p] BY <1>1, <1>2, <1>4, <2>1
    <3>2. s[p] = goal[p] BY <1>4, <1>5, <2>1
    <3>3. p <= next + 1 BY <2>1
    <3> QED BY <3>1, <3>2, <3>3
  <2>2. CASE p = next + 1
    <3>1. t[p] = s[Len(s)] BY <1>1, <1>2, <1>4, <2>2
    <3>2. Len(s) \in 1..Len(s) /\ ~(Len(s) <= next)
          /\ Len(s) + next + 1 - Len(s) = p
      BY <1>1, <2>2
    <3>3. s[Len(s)] = goal[p] BY <1>5, <3>2
    <3> QED BY <2>2, <3>1, <3>3
  <2>3. CASE p > next + 1
    <3>1. t[p] = s[p - 1] BY <1>1, <1>2, <1>4, <2>3
    <3>2. /\ p - 1 \in 1..Len(s) /\ ~(p - 1 <= next) /\ ~(p <= next + 1)
          /\ Len(s) + next + 1 - (p - 1) = Len(t) + (next + 1) + 1 - p
      BY <1>1, <1>4, <2>3
    <3>3. s[p - 1] = goal[Len(s) + next + 1 - (p - 1)] BY <1>5, <3>2
    <3> QED BY <3>1, <3>2, <3>3
  <2>4. p <= next \/ p = next + 1 \/ p > next + 1 BY <1>1, <1>4
  <2> QED BY <2>1, <2>2, <2>3, <2>4
<1>7. ASSUME next + 1 = Len(s) - 1 PROVE t = goal
  <2>1. ASSUME NEW p \in 1..Len(t) PROVE t[p] = goal[p]
    <3>1. (IF p <= next + 1 THEN p ELSE Len(t) + (next + 1) + 1 - p) = p
      <4>1. CASE p <= next + 1 BY <4>1
      <4>2. CASE ~(p <= next + 1)
        <5>1. PICK n \in Nat : n = Len(s) BY <1>1
        <5>2. p \in 1..n /\ Len(t) = n /\ next + 1 = n - 1 /\ next \in Nat
          BY <1>1, <1>4, <1>7, <5>1
        <5>3. Len(t) + (next + 1) + 1 - p = p BY <4>2, <5>2
        <5> QED BY <4>2, <5>3
      <4> QED BY <4>1, <4>2
    <3> QED BY <1>6, <3>1
  <2> QED BY <1>1, <1>4, <2>1, SeqEqual
<1> QED BY <1>2, <1>3, <1>6, <1>7 DEF HalfReversed

LEMMA ReverseBegins ==
    ASSUME NEW s \in Contents
    PROVE  /\ Reverse(s) \in Contents
           /\ Len(Reverse(s)) = Len(s)
           /\ HalfReversed(s, 0, Reverse(s))
<1>1. s \in Seq(Values) /\ Len(s) \in 0..MaxLen BY ContentsAre
<1>2. PICK n \in 0..MaxLen : n = Len(s) BY <1>1
<1>3. Reverse(s) = [i \in 1..n |-> s[(n - i) + 1]] BY <1>2 DEF Reverse
<1>4. \A i \in 1..n : s[(n - i) + 1] \in Values
  <2> TAKE i \in 1..n
  <2>1. (n - i) + 1 \in 1..Len(s) BY <1>2, MaxLenAssumption
  <2> QED BY <1>1, <2>1, ElementOfSeq
<1>5. Reverse(s) \in [1..n -> Values] BY <1>3, <1>4
<1>6. Reverse(s) \in Contents BY <1>2, <1>5 DEF Contents, SeqOf
<1>7. Len(Reverse(s)) = n BY <1>3, MaxLenAssumption
<1>8. ASSUME NEW p \in 1..Len(s)
      PROVE  s[p] = Reverse(s)[IF p <= 0 THEN p ELSE Len(s) + 0 + 1 - p]
  <2>1. PICK i \in 1..n : i = n + 1 - p BY <1>2, MaxLenAssumption
  <2>2. /\ (IF p <= 0 THEN p ELSE Len(s) + 0 + 1 - p) = i
        /\ (n - i) + 1 = p
    BY <1>2, <2>1, MaxLenAssumption
  <2>3. Reverse(s)[i] = s[(n - i) + 1] BY <1>3
  <2> QED BY <2>2, <2>3
<1> QED BY <1>2, <1>6, <1>7, <1>8 DEF HalfReversed

\* The two moves of a swap, of which the second may be none, exchange a and b.
LEMMA SwapArrives ==
    ASSUME values \in Contents,
           NEW a \in 0..(Len(values) - 1), NEW b \in 0..(Len(values) - 1),
           a # b, NEW from, from = IF a < b THEN b - 1 ELSE b + 1,
           NEW t, t = VecMove(values, a, b)
    PROVE  /\ from \in 0..(Len(values) - 1)
           /\ Swapped(a, b) = IF from = a THEN t ELSE VecMove(t, from, a)
<1>1. values \in Seq(Values) /\ Len(values) \in Nat BY ContentsAre
<1>2. from \in 0..(Len(values) - 1) BY <1>1
<1>3. /\ t \in Seq(Values) /\ Len(t) = Len(values)
      /\ \A p \in 1..Len(values) :
            t[p] = IF p = b + 1 THEN values[a + 1]
                   ELSE IF a < p /\ p <= b THEN values[p + 1]
                   ELSE IF b + 1 < p /\ p <= a + 1 THEN values[p - 1]
                   ELSE values[p]
  BY <1>1, Moved
<1>4. PICK u : u = Swapped(a, b) OBVIOUS
<1>5. /\ u \in Seq(Values) /\ Len(u) = Len(values)
      /\ \A p \in 1..Len(values) :
            u[p] = IF p = a + 1 THEN values[b + 1]
                   ELSE IF p = b + 1 THEN values[a + 1] ELSE values[p]
  <2>1. a + 1 \in 1..Len(values) /\ b + 1 \in 1..Len(values) BY <1>1
  <2>2. values[a + 1] \in Values /\ values[b + 1] \in Values
    BY <1>1, <2>1, ElementOfSeq
  <2>3. values \in [1..Len(values) -> Values] BY <1>1, LenProperties
  <2>4. u = [p \in 1..Len(values) |->
                IF p = b + 1 THEN values[a + 1]
                ELSE IF p = a + 1 THEN values[b + 1] ELSE values[p]]
    BY <1>4, <2>1, <2>3 DEF Swapped
  <2>5. u \in [1..Len(values) -> Values] BY <2>2, <2>3, <2>4
  <2>6. u \in Seq(Values) /\ Len(u) = Len(values) BY <1>1, <2>4, <2>5
  <2>7. a + 1 # b + 1 BY <1>1
  <2> QED BY <2>4, <2>6, <2>7
<1>6. CASE from = a
  <2>1. b = a + 1 \/ a = b + 1 BY <1>1, <1>6
  <2>2. ASSUME NEW p \in 1..Len(values) PROVE t[p] = u[p]
    <3>1. CASE b = a + 1 BY <1>1, <1>3, <1>5, <3>1
    <3>2. CASE a = b + 1 BY <1>1, <1>3, <1>5, <3>2
    <3> QED BY <2>1, <3>1, <3>2
  <2> QED BY <1>2, <1>3, <1>4, <1>5, <1>6, <2>2, SeqEqual
<1>7. CASE from # a
  <2>1. PICK w : w = VecMove(t, from, a) OBVIOUS
  <2>2. /\ w \in Seq(Values) /\ Len(w) = Len(values)
        /\ \A p \in 1..Len(values) :
              w[p] = IF p = a + 1 THEN t[from + 1]
                     ELSE IF from < p /\ p <= a THEN t[p + 1]
                     ELSE IF a + 1 < p /\ p <= from + 1 THEN t[p - 1]
                     ELSE t[p]
    BY <1>2, <1>3, <2>1, Moved
  <2>3. ASSUME NEW p \in 1..Len(values) PROVE w[p] = u[p]
    <3>1. CASE a < b
      <4>1. from = b - 1 BY <3>1
      <4>2. CASE p = a + 1
        <5>1. w[p] = t[b] BY <1>1, <2>2, <4>1, <4>2
        <5>2. b \in 1..Len(values) /\ b # b + 1 /\ a < b /\ b <= b
          BY <1>1, <3>1
        <5>3. t[b] = values[b + 1] BY <1>3, <5>2
        <5> QED BY <1>5, <4>2, <5>1, <5>3
      <4>3. CASE p = b + 1 BY <1>1, <1>3, <1>5, <2>2, <3>1, <4>1, <4>3
      <4>4. CASE a + 1 < p /\ p <= b
        <5>1. w[p] = t[p - 1] BY <1>1, <2>2, <4>1, <4>4
        <5>2. t[p - 1] = values[p - 1 + 1] BY <1>1, <1>3, <4>4
        <5> QED BY <1>1, <1>5, <4>4, <5>1, <5>2
      <4>5. CASE p < a + 1 \/ p > b + 1
        BY <1>1, <1>3, <1>5, <2>2, <3>1, <4>1, <4>5
      <4>6. p = a + 1 \/ p = b + 1 \/ (a + 1 < p /\ p <= b) \/ p < a + 1 \/ p > b + 1
        BY <1>1
      <4> QED BY <4>2, <4>3, <4>4, <4>5, <4>6
    <3>2. CASE b < a
      <4>1. from = b + 1 BY <1>1, <3>2
      <4>2. CASE p = a + 1
        <5>1. w[p] = t[b + 2] BY <1>1, <2>2, <4>1, <4>2
        <5>2. /\ b + 2 \in 1..Len(values) /\ b + 2 # b + 1 /\ ~(b + 2 <= b)
              /\ b + 1 < b + 2 /\ b + 2 <= a + 1 /\ (b + 2) - 1 = b + 1
          BY <1>1, <3>2
        <5>3. t[b + 2] = values[b + 1] BY <1>3, <5>2
        <5> QED BY <1>5, <4>2, <5>1, <5>3
      <4>3. CASE p = b + 1 BY <1>1, <1>3, <1>5, <2>2, <3>2, <4>1, <4>3
      <4>4. CASE b + 1 < p /\ p <= a
        <5>1. w[p] = t[p + 1] BY <1>1, <2>2, <4>1, <4>4
        <5>2. t[p + 1] = values[p + 1 - 1] BY <1>1, <1>3, <4>4
        <5> QED BY <1>1, <1>5, <4>4, <5>1, <5>2, SMTT(30)
      <4>5. CASE p < b + 1 \/ p > a + 1
        BY <1>1, <1>3, <1>5, <2>2, <3>2, <4>1, <4>5
      <4>6. p = a + 1 \/ p = b + 1 \/ (b + 1 < p /\ p <= a) \/ p < b + 1 \/ p > a + 1
        BY <1>1
      <4> QED BY <4>2, <4>3, <4>4, <4>5, <4>6
    <3> QED BY <1>1, <3>1, <3>2
  <2> QED BY <1>2, <1>4, <1>5, <1>7, <2>1, <2>2, <2>3, SeqEqual
<1>8. from = a \/ from # a OBVIOUS
<1> QED BY <1>6, <1>7, <1>8

-----------------------------------------------------------------------------
(* The inductive invariant.                                                *)

\* When no operation is under way, the receivers are told of the contents.
LEMMA FreeLeads ==
    ASSUME IInv, loop = Free
    PROVE  AllLead(values)
<1>1. PICK s \in Contents : UnderWay(s) /\ AllLead(s) BY DEF IInv
<1>2. loop.op = "none" BY DEF Free
<1>3. s = values
  BY <1>1, <1>2 DEF UnderWay, Swapping, Reversing, Removing
<1> QED BY <1>1, <1>3

LEMMA IInvInit == Init => IInv
<1> SUFFICES ASSUME Init PROVE IInv OBVIOUS
<1>1. <<>> \in Contents
  <2>1. Len(<<>>) = 0 /\ <<>> \in Seq(Values) OBVIOUS
  <2>2. Len(<<>>) \in 0..MaxLen BY <2>1, MaxLenAssumption
  <2> QED BY <2>1, <2>2, ContentsAre
<1>2. values \in Contents BY DEF Init, Contents
<1>3. Receiving BY <1>1 DEF Init, Receiving, Open
<1>4. UnderWay(values) BY DEF Init, UnderWay
<1>5. AllLead(values) BY DEF Init, AllLead, Open
<1> QED BY <1>2, <1>3, <1>4, <1>5 DEF Init, IInv

\* An operation that told from s to t.
LEMMA StepTold ==
    ASSUME IInv, handle, NEW s \in Contents, AllLead(s), NEW t \in Contents,
           Told(s, t), UNCHANGED <<Receiver, handle>>, values' \in Contents,
           UnderWay(t)'
    PROVE  IInv'
<1>1. Receiving' /\ AllLead(t)' BY ToldKeeps DEF IInv
<1>2. \A r \in Receivers : status'[r] # "ended" BY DEF IInv, Receiver
<1> QED BY <1>1, <1>2 DEF IInv

LEMMA IInvSimple ==
    ASSUME IInv, SimpleOp \/ ApplyOp
    PROVE  IInv'
<1>1. /\ loop = Free /\ loop' = loop /\ handle
      /\ UNCHANGED <<Receiver, handle>>
  BY DEF SimpleOp, ApplyOp, Lock
<1>2. values' \in Contents /\ Told(values, values')
  BY SimpleTold, ApplyTold DEF IInv
<1>3. AllLead(values) BY <1>1, FreeLeads
<1>4. PICK s \in Contents : s = values BY DEF IInv
<1>5. PICK t \in Contents : t = values' BY <1>2
<1>6. UnderWay(t)' BY <1>1, <1>5 DEF UnderWay
<1> QED BY <1>1, <1>2, <1>3, <1>4, <1>5, <1>6, StepTold

LEMMA IInvSwapStart ==
    ASSUME IInv, Lock, NEW a, NEW b, SwapStart(a, b),
           UNCHANGED <<Receiver, handle>>
    PROVE  IInv'
<1>1. loop = Free /\ handle BY DEF Lock
<1>2. /\ values \in Contents
      /\ MoveFromTo(a, b)
      /\ values' \in Contents /\ Told(values, values')
      /\ a \in 0..(Len(values) - 1) /\ b \in 0..(Len(values) - 1)
      /\ values' = IF a = b THEN values ELSE VecMove(values, a, b)
  BY MoveTold DEF SwapStart, IInv
<1>3. AllLead(values) BY <1>1, FreeLeads
<1>4. PICK s \in Contents : s = values BY <1>2
<1>5. PICK t \in Contents : t = values' BY <1>2
<1>6. Len(s) \in Nat BY ContentsAre
<1>7. UnderWay(t)'
  <2>1. CASE a = b
    <3>1. loop' = Free BY <1>2, <1>4, <1>6, <2>1 DEF SwapStart
    <3> QED BY <1>5, <3>1 DEF UnderWay
  <2>2. CASE a # b
    <3>1. PICK from : from = IF a < b THEN b - 1 ELSE b + 1 OBVIOUS
    <3>2. t = VecMove(values, a, b) BY <1>2, <1>5, <2>2
    <3>3. /\ from \in 0..(Len(values) - 1)
          /\ Swapped(a, b) = IF from = a THEN t ELSE VecMove(t, from, a)
      BY <1>2, <2>2, <3>1, <3>2, SwapArrives
    <3>4. a < b \/ a > b BY <1>2, <1>4, <1>6, <2>2
    <3>5. loop' = Swapping(from, a, Swapped(a, b))
      BY <1>2, <1>4, <1>6, <3>1, <3>4 DEF SwapStart
    <3>6. Len(t) = Len(values)
      <4>1. values \in Seq(Values) BY <1>2, ContentsAre
      <4> QED BY <1>2, <3>2, <4>1, Moved
    <3>7. from \in 0..(Len(t) - 1) /\ a \in 0..(Len(t) - 1)
      BY <1>2, <3>3, <3>6
    <3>8. loop' = Swapping(from, a, IF from = a THEN t ELSE VecMove(t, from, a))
      BY <3>3, <3>5
    <3> QED BY <1>5, <3>7, <3>8 DEF UnderWay
  <2> QED BY <2>1, <2>2
<1> QED BY <1>1, <1>2, <1>3, <1>4, <1>5, <1>7, StepTold

LEMMA IInvReverseStart ==
    ASSUME IInv, Lock, ReverseStart, UNCHANGED <<Receiver, handle>>
    PROVE  IInv'
<1>1. loop = Free /\ handle BY DEF Lock
<1>2. values \in Contents /\ values' = values /\ Silent
  BY DEF ReverseStart, IInv
<1>3. AllLead(values) BY <1>1, FreeLeads
<1>4. PICK s \in Contents : s = values BY <1>2
<1>5. Len(s) \in Nat BY ContentsAre
<1>6. UnderWay(s)'
  <2>1. CASE Len(values) > 1
    <3>1. loop' = Reversing(0, Reverse(values)) BY <2>1 DEF ReverseStart
    <3>2. PICK goal \in Contents : goal = Reverse(values)
      BY <1>2, ReverseBegins
    <3>3. Len(goal) = Len(values) /\ HalfReversed(values, 0, goal)
      BY <1>2, <3>2, ReverseBegins
    <3>4. 0 \in 0..(Len(values) - 2) BY <1>4, <1>5, <2>1
    <3> QED BY <1>2, <1>4, <3>1, <3>2, <3>3, <3>4 DEF UnderWay
  <2>2. CASE ~(Len(values) > 1)
    <3>1. loop' = Free BY <2>2 DEF ReverseStart
    <3> QED BY <1>2, <1>4, <3>1 DEF UnderWay
  <2> QED BY <2>1, <2>2
<1>7. Told(s, s) BY <1>2 DEF Told
<1> QED BY <1>1, <1>2, <1>3, <1>4, <1>6, <1>7, StepTold

LEMMA IInvRetainStart ==
    ASSUME IInv, Lock, NEW keep \in SUBSET (0..(Len(values) - 1)),
           RetainStart(keep), UNCHANGED <<Receiver, handle>>
    PROVE  IInv'
<1> DEFINE gone == (0..(Len(values) - 1)) \ keep
<1>1. loop = Free /\ handle /\ values \in Contents BY DEF Lock, IInv
<1>2. AllLead(values) BY <1>1, FreeLeads
<1>3. PICK s \in Contents : s = values BY <1>1
<1>4. PICK rest \in Contents : rest = Kept(keep) BY <1>1, KeptLeaves
<1>5. Leaves(s, gone, rest) BY <1>1, <1>3, <1>4, KeptLeaves
<1>6. values' = rest BY <1>4 DEF RetainStart
<1>7. CASE values # <<>> /\ rest = <<>>
  <2>1. Notify(ClearDiff) /\ loop' = Free BY <1>4, <1>7 DEF RetainStart
  <2>2. Told(values, values') BY <1>6, <1>7, <2>1, ClearTold
  <2>3. UnderWay(rest)' BY <1>6, <2>1 DEF UnderWay
  <2> QED BY <1>1, <1>2, <1>3, <1>6, <2>2, <2>3, StepTold
<1>8. CASE ~(values # <<>> /\ rest = <<>>)
  <2>1. /\ Silent
        /\ loop' = IF gone = {} THEN Free ELSE Removing(gone, Len(values), rest)
    BY <1>4, <1>8 DEF RetainStart
  <2>2. Told(s, s) BY <2>1 DEF Told
  <2>3. UnderWay(s)'
    <3>1. CASE gone = {}
      <4>1. rest = s BY <1>5, <3>1, LeavesNone
      <4> QED BY <1>6, <2>1, <3>1, <4>1 DEF UnderWay
    <3>2. CASE gone # {}
      <4>1. loop' = Removing(gone, Len(s), rest) BY <1>3, <2>1, <3>2
      <4>2. gone \in SUBSET (0..(Len(s) - 1)) BY <1>3
      <4> HIDE DEF gone
      <4> QED BY <1>5, <3>2, <4>1, <4>2 DEF UnderWay
    <3> QED BY <3>1, <3>2
  <2> QED BY <1>1, <1>2, <1>3, <1>6, <2>2, <2>3, StepTold
<1> QED BY <1>7, <1>8

LEMMA IInvDrainStart ==
    ASSUME IInv, Lock, NEW from \in 0..Len(values), NEW to \in 0..Len(values),
           from <= to, DrainStart(from, to), UNCHANGED <<Receiver, handle>>
    PROVE  IInv'
<1>1. loop = Free /\ handle /\ values \in Contents BY DEF Lock, IInv
<1>2. AllLead(values) BY <1>1, FreeLeads
<1>3. PICK s \in Contents : s = values BY <1>1
<1>4. CASE from = to
  <2>1. Silent /\ values' = values /\ loop' = Free
    BY <1>1, <1>4 DEF DrainStart
  <2>2. Told(s, s) /\ UnderWay(s)' BY <1>3, <2>1 DEF Told, UnderWay
  <2> QED BY <1>1, <1>2, <1>3, <2>1, <2>2, StepTold
<1>5. CASE from # to /\ from = 0 /\ to = Len(values)
  <2>1. values' = <<>> /\ Notify(ClearDiff) /\ loop' = Free
    BY <1>1, <1>5 DEF DrainStart
  <2>2. values' \in Contents /\ Told(values, values') BY <2>1, ClearTold
  <2>3. PICK t \in Contents : t = values' BY <2>2
  <2>4. UnderWay(t)' BY <2>1, <2>3 DEF UnderWay
  <2> QED BY <1>1, <1>2, <1>3, <2>2, <2>3, <2>4, StepTold
<1>6. CASE from # to /\ ~(from = 0 /\ to = Len(values))
  <2>1. /\ loop' = Removing(from..(to - 1), Len(values),
                            VecDrain(values, from, to))
        /\ values' = values /\ Silent
    BY <1>6 DEF DrainStart
  <2>2. Len(s) \in Nat BY ContentsAre
  <2>3. from \in 0..Len(s) /\ to \in from..Len(s) BY <1>3, <2>2
  <2>4. PICK rest \in Contents : rest = VecDrain(s, from, to)
    BY <2>3, DrainLeaves
  <2>5. PICK gone : gone = from..(to - 1) OBVIOUS
  <2>6. gone \in SUBSET (0..(Len(s) - 1)) /\ Leaves(s, gone, rest)
    BY <2>3, <2>4, <2>5, DrainLeaves
  <2>7. gone # {}
    <3>1. from \in gone BY <1>6, <2>2, <2>3, <2>5
    <3> QED BY <3>1
  <2>8. loop' = Removing(gone, Len(s), rest) BY <1>3, <2>1, <2>4, <2>5
  <2>9. Told(s, s) /\ UnderWay(s)'
    BY <2>1, <2>6, <2>7, <2>8 DEF Told, UnderWay
  <2> QED BY <1>1, <1>2, <1>3, <2>1, <2>9, StepTold
<1> QED BY <1>4, <1>5, <1>6

LEMMA IInvLoopStart == ASSUME IInv, LoopStart PROVE IInv'
<1>1. /\ Lock /\ UNCHANGED <<Receiver, handle>>
      /\ \/ \E i, j \in 0..(Len(values) - 1) : SwapStart(i, j)
         \/ ReverseStart
         \/ \E keep \in SUBSET (0..(Len(values) - 1)) : RetainStart(keep)
         \/ \E i, j \in 0..Len(values) : i <= j /\ DrainStart(i, j)
  BY DEF LoopStart
<1> QED BY <1>1, IInvSwapStart, IInvReverseStart, IInvRetainStart,
           IInvDrainStart

\* What the operation under way is, seen from its name.
LEMMA SwapUnderWay ==
    ASSUME NEW s, UnderWay(s), loop.op = "swap"
    PROVE  \E from, to \in 0..(Len(values) - 1) :
              /\ loop = Swapping(from, to, IF from = to THEN values
                                          ELSE VecMove(values, from, to))
              /\ s = values
BY DEF UnderWay, Free, Swapping, Reversing, Removing

LEMMA ReverseUnderWay ==
    ASSUME NEW s, UnderWay(s), loop.op = "reverse"
    PROVE  \E next \in 0..(Len(values) - 2), goal \in Contents :
              /\ loop = Reversing(next, goal)
              /\ Len(goal) = Len(values)
              /\ HalfReversed(values, next, goal)
              /\ s = values
BY DEF UnderWay, Free, Swapping, Reversing, Removing

LEMMA RemoveUnderWay ==
    ASSUME NEW s, UnderWay(s), loop.op = "remove"
    PROVE  \E indexes \in SUBSET (0..(Len(s) - 1)), goal \in Contents :
              /\ indexes # {}
              /\ loop = Removing(indexes, Len(s), goal)
              /\ Leaves(s, indexes, goal)
BY DEF UnderWay, Free, Swapping, Reversing, Removing

LEMMA IInvSwapEnd ==
    ASSUME IInv, SwapEnd, UNCHANGED <<Receiver, handle>>
    PROVE  IInv' /\ values' = loop.goal
<1>1. PICK s \in Contents : UnderWay(s) /\ AllLead(s) BY DEF IInv
<1>2. loop.op = "swap" /\ MoveFromTo(loop.from, loop.to) /\ loop' = Free
  BY DEF SwapEnd
<1>3. PICK from, to \in 0..(Len(values) - 1) :
        /\ loop = Swapping(from, to, IF from = to THEN values
                                    ELSE VecMove(values, from, to))
        /\ s = values
  BY <1>1, <1>2, SwapUnderWay
<1>4. /\ loop.from = from /\ loop.to = to
      /\ loop.goal = IF from = to THEN values ELSE VecMove(values, from, to)
  BY <1>3 DEF Swapping
<1>5. /\ values' \in Contents /\ Told(values, values')
      /\ values' = IF from = to THEN values ELSE VecMove(values, from, to)
  BY <1>2, <1>4, MoveTold DEF IInv
<1>6. PICK t \in Contents : t = values' BY <1>5
<1>7. UnderWay(t)' BY <1>2, <1>6 DEF UnderWay
<1>8. handle BY <1>2 DEF IInv, Free
<1> QED BY <1>1, <1>3, <1>4, <1>5, <1>6, <1>7, <1>8, StepTold

LEMMA IInvReverseStep ==
    ASSUME IInv, ReverseStep, UNCHANGED <<Receiver, handle>>
    PROVE  IInv' /\ (loop' = Free => values' = loop.goal)
<1>1. PICK s \in Contents : UnderWay(s) /\ AllLead(s) BY DEF IInv
<1>2. /\ loop.op = "reverse"
      /\ MoveFromTo(Len(values) - 1, loop.next)
      /\ loop' = IF loop.next + 1 < Len(values) - 1
                 THEN Reversing(loop.next + 1, loop.goal)
                 ELSE Free
  BY DEF ReverseStep
<1>3. PICK next \in 0..(Len(values) - 2), goal \in Contents :
        /\ loop = Reversing(next, goal)
        /\ Len(goal) = Len(values)
        /\ HalfReversed(values, next, goal)
        /\ s = values
  BY <1>1, <1>2, ReverseUnderWay
<1>4. loop.next = next /\ loop.goal = goal BY <1>3 DEF Reversing
<1>5. s \in Seq(Values) /\ Len(s) \in Nat BY ContentsAre
<1>6. PICK t \in Contents : t = values' BY <1>2, MoveTold DEF IInv
<1>7. t = VecMove(s, Len(s) - 1, next) /\ Told(s, t)
  <2>1. next # Len(s) - 1 BY <1>3, <1>5
  <2> QED BY <1>2, <1>3, <1>4, <1>6, <2>1, MoveTold
<1>8. /\ HalfReversed(t, next + 1, goal)
      /\ next + 1 = Len(s) - 1 => t = goal
  BY <1>3, <1>7, ReverseMoves
<1>9. Len(t) = Len(s)
  <2>1. Len(s) - 1 \in 0..(Len(s) - 1) /\ next \in 0..(Len(s) - 1)
    BY <1>3, <1>5
  <2> QED BY <1>5, <1>7, <2>1, Moved
<1>10. handle BY <1>2 DEF IInv, Free
<1>11. CASE next + 1 < Len(s) - 1
  <2>1. loop' = Reversing(next + 1, goal) BY <1>2, <1>3, <1>4, <1>11
  <2>2. next + 1 \in 0..(Len(t) - 2) BY <1>3, <1>5, <1>9, <1>11
  <2>3. Len(goal) = Len(t) BY <1>3, <1>9
  <2>4. UnderWay(t)' BY <1>6, <1>8, <2>1, <2>2, <2>3 DEF UnderWay
  <2>5. loop' # Free BY <2>1 DEF Reversing, Free
  <2> QED BY <1>1, <1>6, <1>7, <1>10, <2>4, <2>5, StepTold
<1>12. CASE ~(next + 1 < Len(s) - 1)
  <2>1. loop' = Free BY <1>2, <1>3, <1>4, <1>12
  <2>2. next + 1 = Len(s) - 1 BY <1>3, <1>5, <1>12
  <2>3. UnderWay(t)' BY <1>6, <2>1 DEF UnderWay
  <2> QED BY <1>1, <1>4, <1>6, <1>7, <1>8, <1>10, <2>2, <2>3, StepTold
<1> QED BY <1>11, <1>12

LEMMA IInvRemoveStep ==
    ASSUME IInv, RemoveStep, UNCHANGED <<Receiver, handle>>
    PROVE  IInv' /\ (loop' = Free => values' = loop.goal)
<1>1. PICK s \in Contents : UnderWay(s) /\ AllLead(s) BY DEF IInv
<1>2. loop.op = "remove" BY DEF RemoveStep
<1>3. PICK indexes \in SUBSET (0..(Len(s) - 1)), goal \in Contents :
        /\ indexes # {}
        /\ loop = Removing(indexes, Len(s), goal)
        /\ Leaves(s, indexes, goal)
  BY <1>1, <1>2, RemoveUnderWay
<1>4. loop.indexes = indexes /\ loop.len = Len(s) /\ loop.goal = goal
  BY <1>3 DEF Removing
<1>5. PICK i : i = Max(indexes) OBVIOUS
<1>6. /\ Notify(RemovalDiff(i, Len(s)))
      /\ IF indexes = {i}
         THEN loop' = Free /\ values' = goal
         ELSE /\ loop' = Removing(indexes \ {i}, Len(s) - 1, goal)
              /\ UNCHANGED values
  BY <1>4, <1>5 DEF RemoveStep
<1>7. /\ i \in 0..(Len(s) - 1)
      /\ VecRemove(s, i) \in Contents
      /\ Len(VecRemove(s, i)) = Len(s) - 1
      /\ Leaves(VecRemove(s, i), indexes \ {i}, goal)
  BY <1>3, <1>5, LeavesLess
<1>8. PICK t \in Contents : t = VecRemove(s, i) BY <1>7
<1>9. Told(s, t) BY <1>6, <1>7, <1>8, ApplyRemoval DEF Told
<1>10. handle BY <1>2 DEF IInv, Free
<1>11. CASE indexes = {i}
  <2>1. indexes \ {i} = {} BY <1>11
  <2>2. goal = t BY <1>7, <1>8, <2>1, LeavesNone
  <2>3. UnderWay(t)' BY <1>6, <1>11, <2>2 DEF UnderWay
  <2>4. values' = goal BY <1>6, <1>11
  <2> QED BY <1>1, <1>4, <1>9, <1>10, <2>3, <2>4, StepTold
<1>12. CASE indexes # {i}
  <2>1. loop' = Removing(indexes \ {i}, Len(t), goal) /\ values' = values
    BY <1>6, <1>7, <1>8, <1>12
  <2>2. indexes \ {i} # {} BY <1>3, <1>12
  <2>3. indexes \ {i} \in SUBSET (0..(Len(t) - 1)) BY <1>7, <1>8 DEF Leaves
  <2>4. UnderWay(t)' BY <1>7, <1>8, <2>1, <2>2, <2>3 DEF UnderWay
  <2>5. loop' # Free BY <2>1 DEF Removing, Free
  <2>6. values' \in Contents BY <2>1 DEF IInv
  <2> QED BY <1>1, <1>9, <1>10, <2>4, <2>5, <2>6, StepTold
<1> QED BY <1>11, <1>12

\* A new receiver is told of the contents, unless they are empty.
LEMMA IInvSignalVec ==
    ASSUME IInv, NEW r \in Receivers, SignalVec(r)
    PROVE  IInv'
<1>1. /\ handle /\ loop = Free /\ status[r] = "new"
      /\ status' = [status EXCEPT ![r] = "open"]
      /\ queue' = [queue EXCEPT ![r] = IF values = <<>> THEN queue[r]
                                       ELSE <<ReplaceDiff(values)>>]
      /\ senders' = senders \cup {r}
      /\ UNCHANGED <<values, view, loop, handle>>
  BY DEF SignalVec, Lock
<1>2. PICK s \in Contents : s = values BY DEF IInv
<1>3. AllLead(values) BY <1>1, FreeLeads
<1>4. view[r] = <<>> /\ queue[r] = <<>> /\ <<>> \in Contents
  BY <1>1 DEF IInv, Receiving
<1>5. queue'[r] \in Seq(Diffs) /\ Leads(queue'[r], <<>>, s)
  <2>1. queue'[r] = IF s = <<>> THEN <<>> ELSE <<ReplaceDiff(s)>>
    BY <1>1, <1>2, <1>4 DEF IInv, Receiving
  <2>2. <<>> \in Seq(Diffs) /\ Leads(<<>>, <<>>, <<>>) BY <1>4, LeadsNowhere
  <2>3. ReplaceDiff(s) \in Diffs BY DEF Diffs
  <2>4. PICK d \in Diffs : d = ReplaceDiff(s) BY <2>3
  <2>5. Applicable(d, <<>>) /\ Apply(d, <<>>) = s BY <2>4, ApplyReplace
  <2>6. Leads(Append(<<>>, d), <<>>, s) BY <2>2, <2>5, LeadsFurther
  <2>7. Append(<<>>, d) = <<d>> /\ <<d>> \in Seq(Diffs) OBVIOUS
  <2> QED BY <2>1, <2>2, <2>4, <2>6, <2>7
<1>6. queue' \in [Receivers -> Seq(Diffs)]
  <2>1. queue \in [Receivers -> Seq(Diffs)] BY DEF IInv, Receiving
  <2>2. queue' = [queue EXCEPT ![r] = queue'[r]] BY <1>1, <2>1
  <2> QED BY <1>5, <2>1, <2>2
<1>7. \A x \in Receivers : x # r => queue'[x] = queue[x] /\ status'[x] = status[x]
  BY <1>1 DEF IInv, Receiving
<1>8. status'[r] = "open" /\ status' \in [Receivers -> {"new", "open", "dropped", "ended"}]
  BY <1>1 DEF IInv, Receiving
<1>9. Receiving'
  BY <1>1, <1>6, <1>7, <1>8 DEF IInv, Receiving, Open
<1>10. AllLead(s)'
  BY <1>1, <1>2, <1>3, <1>4, <1>5, <1>7 DEF AllLead, Open
<1>11. UnderWay(s)' BY <1>1, <1>2 DEF UnderWay
<1>12. \A x \in Receivers : status'[x] = "ended" => ~handle' /\ view'[x] = values'
  BY <1>1, <1>7, <1>8 DEF IInv
<1> QED BY <1>1, <1>9, <1>10, <1>11, <1>12 DEF IInv

\* Nothing changes in what is under way when its variables do not.
LEMMA StillUnderWay ==
    ASSUME NEW s, UnderWay(s), UNCHANGED <<values, loop>>
    PROVE  UnderWay(s)'
BY DEF UnderWay

LEMMA IInvPollDiff ==
    ASSUME IInv, NEW r \in Receivers, PollDiff(r)
    PROVE  IInv'
<1>1. /\ Open(r) /\ queue[r] # <<>>
      /\ queue' = [queue EXCEPT ![r] = Tail(queue[r])]
      /\ view' = [view EXCEPT ![r] = Apply(Head(queue[r]), view[r])]
      /\ UNCHANGED <<values, senders, status, loop, handle>>
  BY DEF PollDiff
<1>2. PICK s \in Contents : UnderWay(s) /\ AllLead(s) BY DEF IInv
<1>3. queue[r] \in Seq(Diffs) /\ Leads(queue[r], view[r], s)
  BY <1>1, <1>2 DEF IInv, Receiving, AllLead
<1>4. /\ Apply(Head(queue[r]), view[r]) \in Contents
      /\ Leads(Tail(queue[r]), Apply(Head(queue[r]), view[r]), s)
      /\ Tail(queue[r]) \in Seq(Diffs)
  BY <1>1, <1>3, LeadsOn, HeadTailProperties
<1>5. /\ queue' \in [Receivers -> Seq(Diffs)] /\ view' \in [Receivers -> Contents]
      /\ queue'[r] = Tail(queue[r])
      /\ view'[r] = Apply(Head(queue[r]), view[r])
      /\ \A x \in Receivers : x # r => queue'[x] = queue[x] /\ view'[x] = view[x]
  BY <1>1, <1>4 DEF IInv, Receiving
<1>6. Receiving' BY <1>1, <1>5 DEF IInv, Receiving, Open
<1>7. AllLead(s)' BY <1>1, <1>2, <1>4, <1>5 DEF AllLead, Open
<1>8. UnderWay(s)' BY <1>1, <1>2, StillUnderWay
<1>9. \A x \in Receivers : status'[x] = "ended" => ~handle' /\ view'[x] = values'
  BY <1>1, <1>5 DEF IInv, Open
<1> QED BY <1>1, <1>6, <1>7, <1>8, <1>9 DEF IInv

\* A receiver ends with the contents: it has taken every diff, and no
\* operation is under way when the last handle is gone.
LEMMA IInvPollEnd ==
    ASSUME IInv, NEW r \in Receivers, PollEnd(r)
    PROVE  IInv'
<1>1. /\ Open(r) /\ queue[r] = <<>> /\ r \notin senders
      /\ status' = [status EXCEPT ![r] = "ended"]
      /\ UNCHANGED <<values, senders, queue, view, loop, handle>>
  BY DEF PollEnd
<1>2. ~handle BY <1>1 DEF IInv, Receiving
<1>3. loop = Free BY <1>2 DEF IInv
<1>4. AllLead(values) BY <1>3, FreeLeads
<1>5. view[r] = values
  <2>1. Leads(<<>>, view[r], values) BY <1>1, <1>4 DEF AllLead
  <2>2. view[r] \in Contents BY DEF IInv, Receiving
  <2> QED BY <2>1, <2>2, LeadsNowhere
<1>6. /\ status'[r] = "ended"
      /\ status' \in [Receivers -> {"new", "open", "dropped", "ended"}]
      /\ \A x \in Receivers : x # r => status'[x] = status[x]
  BY <1>1 DEF IInv, Receiving
<1>7. Receiving' BY <1>1, <1>6 DEF IInv, Receiving, Open
<1>8. PICK s \in Contents : s = values BY DEF IInv
<1>9. AllLead(s)' BY <1>1, <1>4, <1>6, <1>8 DEF AllLead, Open
<1>10. UnderWay(s)' BY <1>1, <1>3, <1>8 DEF UnderWay
<1>11. \A x \in Receivers : status'[x] = "ended" => ~handle' /\ view'[x] = values'
  BY <1>1, <1>2, <1>5, <1>6 DEF IInv
<1> QED BY <1>1, <1>7, <1>9, <1>10, <1>11 DEF IInv

LEMMA IInvDropReceiver ==
    ASSUME IInv, NEW r \in Receivers, DropReceiver(r)
    PROVE  IInv'
<1>1. /\ Open(r)
      /\ status' = [status EXCEPT ![r] = "dropped"]
      /\ queue' = [queue EXCEPT ![r] = <<>>]
      /\ UNCHANGED <<values, senders, view, loop, handle>>
  BY DEF DropReceiver
<1>2. PICK s \in Contents : UnderWay(s) /\ AllLead(s) BY DEF IInv
<1>3. /\ status'[r] = "dropped" /\ queue'[r] = <<>>
      /\ status' \in [Receivers -> {"new", "open", "dropped", "ended"}]
      /\ \A x \in Receivers : x # r => status'[x] = status[x] /\ queue'[x] = queue[x]
  BY <1>1 DEF IInv, Receiving
<1>4. queue' \in [Receivers -> Seq(Diffs)]
  <2>1. <<>> \in Seq(Diffs) OBVIOUS
  <2> QED BY <1>1, <2>1 DEF IInv, Receiving
<1>5. Receiving' BY <1>1, <1>3, <1>4 DEF IInv, Receiving, Open
<1>6. AllLead(s)' BY <1>1, <1>2, <1>3 DEF AllLead, Open
<1>7. UnderWay(s)' BY <1>1, <1>2, StillUnderWay
<1>8. \A x \in Receivers : status'[x] = "ended" => ~handle' /\ view'[x] = values'
  BY <1>1, <1>3 DEF IInv
<1> QED BY <1>1, <1>5, <1>6, <1>7, <1>8 DEF IInv

LEMMA IInvDropVec == ASSUME IInv, DropVec PROVE IInv'
<1>1. /\ handle /\ loop = Free /\ handle' = FALSE /\ senders' = {}
      /\ UNCHANGED <<values, queue, status, view, loop>>
  BY DEF DropVec
<1>2. PICK s \in Contents : UnderWay(s) /\ AllLead(s) BY DEF IInv
<1>3. Receiving' BY <1>1 DEF IInv, Receiving, Open
<1>4. AllLead(s)' BY <1>1, <1>2 DEF AllLead, Open
<1>5. UnderWay(s)' BY <1>1, <1>2, StillUnderWay
<1>6. \A x \in Receivers : status'[x] = "ended" => ~handle' /\ view'[x] = values'
  BY <1>1 DEF IInv
<1> QED BY <1>1, <1>3, <1>4, <1>5, <1>6 DEF IInv

LEMMA IInvStep == IInv /\ [Next]_vars => IInv'
<1> SUFFICES ASSUME IInv, [Next]_vars PROVE IInv' OBVIOUS
<1>1. CASE SimpleOp BY <1>1, IInvSimple
<1>2. CASE ApplyOp BY <1>2, IInvSimple
<1>3. CASE LoopStart BY <1>3, IInvLoopStart
<1>4. CASE LoopStep
  BY <1>4, IInvSwapEnd, IInvReverseStep, IInvRemoveStep DEF LoopStep
<1>5. CASE DropVec BY <1>5, IInvDropVec
<1>6. ASSUME NEW r \in Receivers,
             SignalVec(r) \/ PollDiff(r) \/ PollEnd(r) \/ DropReceiver(r)
      PROVE  IInv'
  BY <1>6, IInvSignalVec, IInvPollDiff, IInvPollEnd, IInvDropReceiver
<1>7. CASE UNCHANGED vars
  <2>1. PICK s \in Contents : UnderWay(s) /\ AllLead(s) BY DEF IInv
  <2>2. UnderWay(s)' BY <1>7, <2>1, StillUnderWay DEF vars
  <2>3. AllLead(s)' BY <1>7, <2>1 DEF vars, AllLead, Open
  <2>4. Receiving' BY <1>7 DEF vars, IInv, Receiving, Open
  <2> QED BY <1>7, <2>2, <2>3, <2>4 DEF vars, IInv
<1> QED BY <1>1, <1>2, <1>3, <1>4, <1>5, <1>6, <1>7 DEF Next

-----------------------------------------------------------------------------
(* The theorems.                                                           *)

\* The strengthened invariant holds in every run.
THEOREM InductiveInvariant == Spec => []IInv
BY IInvInit, IInvStep, PTL DEF Spec

\* Every variable has its type, and as long as the MutableVec exists no open
\* receiver is off the list of senders.
THEOREM TypeCorrect == Spec => []TypeOK
<1>1. IInv => TypeOK
  <2> SUFFICES ASSUME IInv PROVE TypeOK OBVIOUS
  <2>1. PICK s \in Contents : UnderWay(s) BY DEF IInv
  <2>2. loop.op \in {"none", "swap", "reverse", "remove"}
    BY <2>1 DEF UnderWay, Free, Swapping, Reversing, Removing
  <2> QED BY <2>2 DEF IInv, Receiving, TypeOK, Contents
<1> QED BY <1>1, InductiveInvariant, PTL

\* No diff panics, in whatever state of an operation a receiver polls.
THEOREM NeverPanics == Spec => []DiffsApply
<1>1. IInv => DiffsApply
  <2> SUFFICES ASSUME IInv, NEW r \in Receivers, queue[r] # <<>>
               PROVE  Applicable(Head(queue[r]), view[r])
    BY DEF DiffsApply
  <2>1. PICK s \in Contents : AllLead(s) BY DEF IInv
  <2>2. queue[r] \in Seq(Diffs) /\ Leads(queue[r], view[r], s)
    BY <2>1 DEF IInv, Receiving, AllLead, Open
  <2> QED BY <2>2, LeadsOn
<1> QED BY <1>1, InductiveInvariant, PTL

\* A receiver that has taken every diff has the contents, and so has one that
\* has ended.
THEOREM ViewsCorrect == Spec => []ViewsAgree
<1>1. IInv => ViewsAgree
  <2> SUFFICES ASSUME IInv, NEW r \in Receivers,
                      Open(r), queue[r] = <<>>, loop = Free
               PROVE  view[r] = values
    BY DEF ViewsAgree, IInv
  <2>1. Leads(<<>>, view[r], values) BY FreeLeads DEF AllLead
  <2>2. view[r] \in Contents BY DEF IInv, Receiving
  <2> QED BY <2>1, <2>2, LeadsNowhere
<1> QED BY <1>1, InductiveInvariant, PTL

\* Whatever diffs they are made of, swap exchanges two elements, reverse turns
\* the contents round, and retain and drain leave what they are to leave.
THEOREM LoopsCorrect == Spec => LoopsReachGoal
<1>1. IInv /\ [Next]_vars =>
          [loop # Free /\ loop' = Free => values' = loop.goal]_vars
  <2> SUFFICES ASSUME IInv, Next, loop # Free, loop' = Free
               PROVE  values' = loop.goal
    OBVIOUS
  <2>1. LoopStep
    BY DEF Next, SimpleOp, ApplyOp, LoopStart, DropVec, SignalVec, PollDiff,
           PollEnd, DropReceiver, Lock
  <2> QED BY <2>1, IInvSwapEnd, IInvReverseStep, IInvRemoveStep DEF LoopStep
<1> QED BY <1>1, InductiveInvariant, PTL DEF Spec, LoopsReachGoal
=============================================================================
