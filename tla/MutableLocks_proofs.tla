------------------------- MODULE MutableLocks_proofs -------------------------
(***************************************************************************)
(* Proofs about MutableLocks, for any set of threads, any finite set of    *)
(* Mutables, any ways of nesting locks and any number of calls.            *)
(***************************************************************************)
EXTENDS MutableLocks, FiniteSetTheorems, SequenceTheorems, WellFoundedInduction,
        TLAPS

-----------------------------------------------------------------------------
(* Stacks of calls.                                                        *)

\* The stacks of the other threads, and the outer calls of t, do not change.
OthersKept(t) ==
    /\ stack' \in [Threads -> Seq(Frames)]
    /\ \A u \in Threads \ {t} : stack'[u] = stack[u]
    /\ \A i \in 1..(Len(stack[t]) - 1) : stack'[t][i] = stack[t][i]

\* The innermost call of t becomes f.
Moved(t, f) ==
    /\ OthersKept(t)
    /\ Len(stack'[t]) = Len(stack[t])
    /\ stack'[t][Len(stack[t])] = f

\* The innermost call of t is over.
Popped(t) ==
    /\ OthersKept(t)
    /\ Len(stack'[t]) = Len(stack[t]) - 1

\* A thread that is busy has an innermost call.
LEMMA TopIsLast ==
    ASSUME Typed, NEW t \in Threads, Busy(t)
    PROVE  /\ Len(stack[t]) \in Nat \ {0}
           /\ Len(stack[t]) \in 1..Len(stack[t])
           /\ Top(t) = stack[t][Len(stack[t])]
           /\ Top(t) \in Frames
<1>1. stack[t] \in Seq(Frames) /\ stack[t] # <<>> BY DEF Typed, Busy
<1>2. Len(stack[t]) \in Nat \ {0} BY <1>1, EmptySeq
<1> QED BY <1>1, <1>2, ElementOfSeq DEF Top

LEMMA CallMoves ==
    ASSUME Typed, NEW t \in Threads, Busy(t), NEW f \in Frames,
           stack' = [stack EXCEPT ![t] = [@ EXCEPT ![Len(stack[t])] = f]]
    PROVE  Moved(t, f)
<1>1. /\ stack[t] \in Seq(Frames)
      /\ Len(stack[t]) \in 1..Len(stack[t]) /\ Len(stack[t]) \in Nat
  BY TopIsLast DEF Typed
<1> DEFINE s == [stack[t] EXCEPT ![Len(stack[t])] = f]
<1>2. /\ s \in Seq(Frames) /\ Len(s) = Len(stack[t])
      /\ \A j \in 1..Len(stack[t]) :
            s[j] = IF j = Len(stack[t]) THEN f ELSE stack[t][j]
  BY <1>1, ExceptSeq
<1>3. stack' = [stack EXCEPT ![t] = s] OBVIOUS
<1> HIDE DEF s
<1> QED BY <1>1, <1>2, <1>3 DEF Typed, Moved, OthersKept

LEMMA GoToMoves ==
    ASSUME Typed, NEW t \in Threads, Busy(t), NEW at \in Places, GoTo(t, at)
    PROVE  /\ Moved(t, [Top(t) EXCEPT !.at = at])
           /\ [Top(t) EXCEPT !.at = at] \in Frames
<1>1. Top(t) \in Frames BY TopIsLast
<1>2. [Top(t) EXCEPT !.at = at] \in Frames BY <1>1 DEF Frames
<1>3. stack' = [stack EXCEPT ![t] =
                   [@ EXCEPT ![Len(stack[t])] = [Top(t) EXCEPT !.at = at]]]
  BY DEF GoTo, Top
<1> QED BY <1>2, <1>3, CallMoves

LEMMA ReturnPops ==
    ASSUME Typed, NEW t \in Threads, Busy(t), Return(t)
    PROVE  Popped(t)
<1>1. stack[t] \in Seq(Frames) /\ Len(stack[t]) \in Nat \ {0}
  BY TopIsLast DEF Typed
<1> DEFINE s == SubSeq(stack[t], 1, Len(stack[t]) - 1)
<1>2. \A i \in 1..(Len(stack[t]) - 1) : stack[t][i] \in Frames
  BY <1>1, ElementOfSeq
<1>3. /\ s \in Seq(Frames) /\ Len(s) = Len(stack[t]) - 1
      /\ \A i \in 1..(Len(stack[t]) - 1) : s[i] = stack[t][i]
  <2>1. 1 \in Int /\ Len(stack[t]) - 1 \in Int BY <1>1
  <2>2. /\ s \in Seq(Frames)
        /\ Len(s) = IF 1 <= Len(stack[t]) - 1
                       THEN Len(stack[t]) - 1 - 1 + 1 ELSE 0
        /\ \A i \in 1..(Len(stack[t]) - 1 - 1 + 1) : s[i] = stack[t][1 + i - 1]
    BY <1>2, <2>1, SubSeqProperties
  <2> QED BY <1>1, <2>2
<1>4. stack' = [stack EXCEPT ![t] = s] BY DEF Return
<1> HIDE DEF s
<1> QED BY <1>3, <1>4 DEF Typed, Popped, OthersKept

\* A new call is the innermost one of its thread.
LEMMA CallPushes ==
    ASSUME Typed, NEW t \in Threads, NEW f \in Frames,
           stack' = [stack EXCEPT ![t] = Append(@, f)]
    PROVE  /\ stack' \in [Threads -> Seq(Frames)]
           /\ \A u \in Threads \ {t} : stack'[u] = stack[u]
           /\ Len(stack[t]) \in Nat
           /\ Len(stack'[t]) = Len(stack[t]) + 1
           /\ \A i \in 1..Len(stack[t]) : stack'[t][i] = stack[t][i]
           /\ stack'[t][Len(stack[t]) + 1] = f
<1>1. stack[t] \in Seq(Frames) BY DEF Typed
<1>2. /\ Append(stack[t], f) \in Seq(Frames)
      /\ Len(Append(stack[t], f)) = Len(stack[t]) + 1
      /\ \A i \in 1..Len(stack[t]) : Append(stack[t], f)[i] = stack[t][i]
      /\ Append(stack[t], f)[Len(stack[t]) + 1] = f
      /\ Len(stack[t]) \in Nat
  BY <1>1, AppendProperties, LenProperties
<1>3. stack'[t] = Append(stack[t], f) BY DEF Typed
<1> QED BY <1>2, <1>3 DEF Typed

-----------------------------------------------------------------------------
(* The locks that calls have.                                              *)

WritesOf(f) == {m \in Mutables : HasWrite(f, m)}
ReadsOf(f) == {m \in Mutables : HasRead(f, m)}

Writes(t) == {m \in Mutables :
                 \E i \in 1..Len(stack[t]) : HasWrite(stack[t][i], m)}
Reads(t) == {m \in Mutables :
                \E i \in 1..Len(stack[t]) : HasRead(stack[t][i], m)}

LEMMA HeldBySets ==
    /\ HeldByCalls <=>
          /\ \A m \in Mutables : owner[m] # NoOne => readers[m] = {}
          /\ \A t \in Threads, m \in Mutables :
                /\ owner[m] = t <=> m \in Writes(t)
                /\ t \in readers[m] <=> m \in Reads(t)
    /\ HeldByCalls' <=>
          /\ \A m \in Mutables : owner'[m] # NoOne => readers'[m] = {}
          /\ \A t \in Threads, m \in Mutables :
                /\ owner'[m] = t <=> m \in Writes(t)'
                /\ t \in readers'[m] <=> m \in Reads(t)'
BY DEF HeldByCalls, Writes, Reads

LEMMA MoveLocks ==
    ASSUME Typed, OneCallEach, NEW t \in Threads, Busy(t), NEW f \in Frames,
           Moved(t, f),
           \A m \in WritesOf(f) : m \in Writes(t) => m \in WritesOf(Top(t)),
           \A m \in ReadsOf(f) : m \in Reads(t) => m \in ReadsOf(Top(t)),
           f.call = "swap" /\ f.at \notin {"lock", "other"} => f.on # f.other
    PROVE  /\ Writes(t)' = (Writes(t) \ WritesOf(Top(t))) \cup WritesOf(f)
           /\ Reads(t)' = (Reads(t) \ ReadsOf(Top(t))) \cup ReadsOf(f)
           /\ \A u \in Threads \ {t} :
                 Writes(u)' = Writes(u) /\ Reads(u)' = Reads(u)
           /\ OneCallEach'
<1> DEFINE n == Len(stack[t])
<1>1. /\ n \in Nat \ {0} /\ n \in 1..n /\ Top(t) = stack[t][n]
      /\ Len(stack'[t]) = n /\ stack'[t][n] = f
      /\ \A i \in 1..n : i # n => i \in 1..(n - 1)
      /\ \A i \in 1..n : i # n => stack'[t][i] = stack[t][i]
  BY TopIsLast DEF Moved, OthersKept
<1>2. \A u \in Threads \ {t} : stack'[u] = stack[u] BY DEF Moved, OthersKept
<1> HIDE DEF n
<1>3. /\ Writes(t)' = (Writes(t) \ WritesOf(Top(t))) \cup WritesOf(f)
      /\ Reads(t)' = (Reads(t) \ ReadsOf(Top(t))) \cup ReadsOf(f)
  <2>1. Writes(t) = {m \in Mutables : \E i \in 1..n : HasWrite(stack[t][i], m)}
    BY DEF Writes, n
  <2>2. Reads(t) = {m \in Mutables : \E i \in 1..n : HasRead(stack[t][i], m)}
    BY DEF Reads, n
  <2>3. Writes(t)' = {m \in Mutables : \E i \in 1..n : HasWrite(stack'[t][i], m)}
    BY <1>1 DEF Writes
  <2>4. Reads(t)' = {m \in Mutables : \E i \in 1..n : HasRead(stack'[t][i], m)}
    BY <1>1 DEF Reads
  <2>5. \A i, j \in 1..n, m \in Mutables :
           /\ HasWrite(stack[t][i], m) /\ HasWrite(stack[t][j], m) => i = j
           /\ HasRead(stack[t][i], m) /\ HasRead(stack[t][j], m) => i = j
    BY DEF OneCallEach, n
  <2> QED BY <1>1, <2>1, <2>2, <2>3, <2>4, <2>5 DEF WritesOf, ReadsOf
<1>4. \A u \in Threads \ {t} : Writes(u)' = Writes(u) /\ Reads(u)' = Reads(u)
  BY <1>2 DEF Writes, Reads
<1>5. OneCallEach'
  <2> SUFFICES ASSUME NEW u \in Threads, NEW i \in 1..Len(stack'[u])
               PROVE  /\ \A j \in 1..Len(stack'[u]), m \in Mutables :
                            \/ /\ HasWrite(stack'[u][i], m)
                               /\ HasWrite(stack'[u][j], m)
                            \/ /\ HasRead(stack'[u][i], m)
                               /\ HasRead(stack'[u][j], m)
                            => i = j
                      /\ /\ stack'[u][i].call = "swap"
                         /\ stack'[u][i].at \notin {"lock", "other"}
                         => stack'[u][i].on # stack'[u][i].other
    BY DEF OneCallEach
  <2>1. CASE u # t BY <1>2, <2>1 DEF OneCallEach
  <2>2. CASE u = t
    <3>1. \A j \in 1..n, m \in Mutables : j # n =>
             /\ HasWrite(f, m) /\ HasWrite(stack[t][j], m) => FALSE
             /\ HasRead(f, m) /\ HasRead(stack[t][j], m) => FALSE
      BY <1>1 DEF OneCallEach, Writes, Reads, WritesOf, ReadsOf, n
    <3>2. \A k, j \in 1..n, m \in Mutables :
             /\ HasWrite(stack[t][k], m) /\ HasWrite(stack[t][j], m) => k = j
             /\ HasRead(stack[t][k], m) /\ HasRead(stack[t][j], m) => k = j
      BY DEF OneCallEach, n
    <3>3. \A k \in 1..n :
             stack[t][k].call = "swap" /\ stack[t][k].at \notin {"lock", "other"}
             => stack[t][k].on # stack[t][k].other
      BY DEF OneCallEach, n
    <3> QED BY <1>1, <2>2, <3>1, <3>2, <3>3
  <2> QED BY <2>1, <2>2
<1> QED BY <1>3, <1>4, <1>5

LEMMA PopLocks ==
    ASSUME Typed, OneCallEach, NEW t \in Threads, Busy(t), Popped(t)
    PROVE  /\ Writes(t)' = Writes(t) \ WritesOf(Top(t))
           /\ Reads(t)' = Reads(t) \ ReadsOf(Top(t))
           /\ \A u \in Threads \ {t} :
                 Writes(u)' = Writes(u) /\ Reads(u)' = Reads(u)
           /\ OneCallEach'
<1> DEFINE n == Len(stack[t])
<1>1. /\ n \in Nat \ {0} /\ n \in 1..n /\ Top(t) = stack[t][n]
      /\ Len(stack'[t]) = n - 1
      /\ \A i \in 1..n : i # n => i \in 1..(n - 1)
      /\ \A i \in 1..(n - 1) : i \in 1..n /\ i # n
      /\ \A i \in 1..(n - 1) : stack'[t][i] = stack[t][i]
  BY TopIsLast DEF Popped, OthersKept
<1>2. \A u \in Threads \ {t} : stack'[u] = stack[u] BY DEF Popped, OthersKept
<1> HIDE DEF n
<1>3. /\ Writes(t)' = Writes(t) \ WritesOf(Top(t))
      /\ Reads(t)' = Reads(t) \ ReadsOf(Top(t))
  <2>1. Writes(t) = {m \in Mutables : \E i \in 1..n : HasWrite(stack[t][i], m)}
    BY DEF Writes, n
  <2>2. Reads(t) = {m \in Mutables : \E i \in 1..n : HasRead(stack[t][i], m)}
    BY DEF Reads, n
  <2>3. Writes(t)' = {m \in Mutables :
                         \E i \in 1..(n - 1) : HasWrite(stack'[t][i], m)}
    BY <1>1 DEF Writes
  <2>4. Reads(t)' = {m \in Mutables :
                        \E i \in 1..(n - 1) : HasRead(stack'[t][i], m)}
    BY <1>1 DEF Reads
  <2>5. \A i, j \in 1..n, m \in Mutables :
           /\ HasWrite(stack[t][i], m) /\ HasWrite(stack[t][j], m) => i = j
           /\ HasRead(stack[t][i], m) /\ HasRead(stack[t][j], m) => i = j
    BY DEF OneCallEach, n
  <2> QED BY <1>1, <2>1, <2>2, <2>3, <2>4, <2>5 DEF WritesOf, ReadsOf
<1>4. \A u \in Threads \ {t} : Writes(u)' = Writes(u) /\ Reads(u)' = Reads(u)
  BY <1>2 DEF Writes, Reads
<1>5. OneCallEach'
  <2>1. ASSUME NEW u \in Threads \ {t} PROVE stack'[u] = stack[u]
    BY <1>2
  <2>2. \A i \in 1..Len(stack'[t]) :
           i \in 1..Len(stack[t]) /\ stack'[t][i] = stack[t][i]
    BY <1>1 DEF n
  <2> QED BY <2>1, <2>2 DEF OneCallEach
<1> QED BY <1>3, <1>4, <1>5

-----------------------------------------------------------------------------
(* The calls that signals wait for.                                        *)

PendingOf(f, m) == WillTell(f, m) \/ WillRead(f, m)

Pending(m) ==
    \E t \in Threads : \E i \in 1..Len(stack[t]) : PendingOf(stack[t][i], m)

LEMMA MoveTells ==
    ASSUME Typed, NEW t \in Threads, Busy(t), NEW f \in Frames, Moved(t, f),
           NEW m \in Mutables
    PROVE  /\ PendingOf(f, m) => Pending(m)'
           /\ Pending(m) => Pending(m)' \/ PendingOf(Top(t), m)
<1> DEFINE n == Len(stack[t])
<1>1. /\ n \in 1..n /\ Top(t) = stack[t][n]
      /\ Len(stack'[t]) = n /\ stack'[t][n] = f
      /\ \A i \in 1..n : i # n => stack'[t][i] = stack[t][i]
      /\ \A u \in Threads \ {t} : stack'[u] = stack[u]
  BY TopIsLast DEF Moved, OthersKept
<1> QED BY <1>1 DEF Pending

LEMMA PopTells ==
    ASSUME Typed, NEW t \in Threads, Busy(t), Popped(t), NEW m \in Mutables
    PROVE  Pending(m) => Pending(m)' \/ PendingOf(Top(t), m)
<1> DEFINE n == Len(stack[t])
<1>1. /\ n \in 1..n /\ Top(t) = stack[t][n]
      /\ Len(stack'[t]) = n - 1
      /\ \A i \in 1..n : i # n => i \in 1..(n - 1) /\ stack'[t][i] = stack[t][i]
      /\ \A u \in Threads \ {t} : stack'[u] = stack[u]
  BY TopIsLast DEF Popped, OthersKept
<1> QED BY <1>1 DEF Pending

LEMMA LatestByPending ==
    /\ LatestNotLost <=>
          \A m \in Mutables : seen[m] # value[m] => changed[m] \/ Pending(m)
    /\ LatestNotLost' <=>
          \A m \in Mutables : seen'[m] # value'[m] => changed'[m] \/ Pending(m)'
BY DEF LatestNotLost, Pending, PendingOf

-----------------------------------------------------------------------------
(* What a step of t keeps.                                                 *)

LEMMA ForeignKept ==
    ASSUME Typed, OuterForeign, NEW t \in Threads, Busy(t),
           Popped(t) \/ \E f \in Frames : Moved(t, f)
    PROVE  OuterForeign'
<1>1. /\ Len(stack[t]) \in Nat \ {0}
      /\ Len(stack'[t]) \in {Len(stack[t]), Len(stack[t]) - 1}
      /\ OthersKept(t)
  BY TopIsLast DEF Popped, Moved
<1>2. \A i \in 1..(Len(stack'[t]) - 1) :
         i \in 1..(Len(stack[t]) - 1) /\ stack'[t][i] = stack[t][i]
  BY <1>1 DEF OthersKept
<1>3. \A u \in Threads \ {t} : stack'[u] = stack[u] BY <1>1 DEF OthersKept
<1> QED BY <1>2, <1>3 DEF OuterForeign

\* What a thread is asked by AskedInOrder and by HalfSwapped.
AsksInOrder(t) ==
    Busy(t) =>
        /\ Top(t).at \in {"flag", "lock"} => InOrder(t, Top(t))
        /\ Top(t).at = "other" =>
              \A m \in Holds(t) : <<m, Top(t).other>> \in order

LEMMA OrderKept ==
    ASSUME AskedInOrder, NEW t \in Threads, order' = order,
           \A u \in Threads \ {t} :
              stack'[u] = stack[u] /\ Holds(u)' \subseteq Holds(u),
           AsksInOrder(t)'
    PROVE  AskedInOrder'
<1> SUFFICES ASSUME NEW u \in Threads PROVE AsksInOrder(u)'
  BY DEF AskedInOrder, AsksInOrder
<1>1. CASE u = t BY <1>1
<1>2. CASE u # t
  <2>1. /\ Busy(u)' = Busy(u) /\ Top(u)' = Top(u)
        /\ Holds(u)' \subseteq Holds(u)
    BY <1>2 DEF Busy, Top
  <2>2. AsksInOrder(u) BY DEF AskedInOrder, AsksInOrder
  <2>3. InOrder(u, Top(u)) => InOrder(u, Top(u))'
    BY <2>1 DEF InOrder
  <2> QED BY <2>1, <2>2, <2>3 DEF AsksInOrder
<1> QED BY <1>1, <1>2

LEMMA HalfKept ==
    ASSUME HalfSwapped, NEW t \in Threads,
           \A u \in Threads \ {t} : stack'[u] = stack[u],
           \A u \in Threads \ {t} : In(u, {"swap"}, "half") =>
              /\ value'[Top(u).on] = value[Top(u).on]
              /\ value'[Top(u).other] = value[Top(u).other],
           In(t, {"swap"}, "half")' =>
              value'[Top(t)'.on] = value'[Top(t)'.other]
    PROVE  HalfSwapped'
<1> SUFFICES ASSUME NEW u \in Threads, In(u, {"swap"}, "half")'
             PROVE  value'[Top(u)'.on] = value'[Top(u)'.other]
  BY DEF HalfSwapped
<1>1. CASE u = t BY <1>1
<1>2. CASE u # t
  <2>1. In(u, {"swap"}, "half") /\ Top(u)' = Top(u)
    BY <1>2 DEF In, Busy, Top
  <2> QED BY <1>2, <2>1 DEF HalfSwapped
<1> QED BY <1>1, <1>2

\* The innermost call after a step.
LEMMA TopAfterMove ==
    ASSUME Typed, NEW t \in Threads, Busy(t), NEW f \in Frames, Moved(t, f)
    PROVE  Busy(t)' /\ Top(t)' = f
<1>1. Len(stack[t]) \in Nat \ {0} BY TopIsLast
<1>2. stack'[t] \in Seq(Frames) /\ Len(stack'[t]) # 0
  BY <1>1 DEF Moved, OthersKept
<1>3. stack'[t] # <<>> BY <1>2, EmptySeq
<1> QED BY <1>3 DEF Moved, Busy, Top

LEMMA TopAfterPop ==
    ASSUME Typed, OuterForeign, NEW t \in Threads, Busy(t), Popped(t), Busy(t)'
    PROVE  /\ Top(t)'.at \in {"told", "toldOther", "inside", "dirty"}
           /\ Top(t)'.at \in {"inside", "dirty"} => Top(t)'.call # "swap"
<1>1. Len(stack[t]) \in Nat \ {0} BY TopIsLast
<1>2. stack'[t] \in Seq(Frames) /\ stack'[t] # <<>>
  BY DEF Popped, OthersKept, Busy
<1>3. Len(stack'[t]) \in Nat \ {0} BY <1>2, EmptySeq
<1>4. Len(stack'[t]) = Len(stack[t]) - 1 BY DEF Popped
<1>5. Len(stack'[t]) \in 1..(Len(stack[t]) - 1)
  <2>1. ASSUME NEW i \in Nat \ {0}, NEW j \in Nat \ {0}, j = i - 1
        PROVE  j \in 1..(i - 1)
    BY <2>1
  <2> QED BY <1>1, <1>3, <1>4, <2>1
<1>6. Top(t)' = stack'[t][Len(stack'[t])] BY DEF Top
<1>7. Top(t)' = stack[t][Len(stack'[t])]
  BY <1>5, <1>6 DEF Popped, OthersKept
<1> QED BY <1>5, <1>7 DEF OuterForeign

\* The locks that the innermost call has are its thread's.
LEMMA TopHolds ==
    ASSUME TypeOK, NEW t \in Threads, Busy(t), NEW m \in Mutables
    PROVE  /\ m \in WritesOf(Top(t)) => m \in Writes(t) /\ owner[m] = t
           /\ m \in ReadsOf(Top(t)) => m \in Reads(t) /\ t \in readers[m]
<1>1. /\ Len(stack[t]) \in 1..Len(stack[t])
      /\ Top(t) = stack[t][Len(stack[t])]
  BY TopIsLast DEF TypeOK
<1>2. /\ m \in WritesOf(Top(t)) => m \in Writes(t)
      /\ m \in ReadsOf(Top(t)) => m \in Reads(t)
  BY <1>1 DEF WritesOf, ReadsOf, Writes, Reads
<1> QED BY <1>2, HeldBySets DEF TypeOK

\* A swap that is half done has both locks.
LEMMA HalfOwns ==
    ASSUME TypeOK, NEW t \in Threads, In(t, {"swap"}, "half")
    PROVE  /\ Top(t).on \in Mutables /\ Top(t).other \in Mutables
           /\ owner[Top(t).on] = t /\ owner[Top(t).other] = t
<1>1. Busy(t) /\ Top(t) \in Frames /\ Top(t).call = "swap" /\ Top(t).at = "half"
  BY TopIsLast DEF In, TypeOK
<1>2. Top(t).on \in Mutables /\ Top(t).other \in Mutables BY <1>1 DEF Frames
<1>3. Top(t).on \in WritesOf(Top(t)) /\ Top(t).other \in WritesOf(Top(t))
  BY <1>1, <1>2 DEF WritesOf, HasWrite
<1> QED BY <1>1, <1>2, <1>3, TopHolds

\* A call goes to another place.
LEMMA FrameAt ==
    ASSUME NEW f \in Frames, NEW at \in Places
    PROVE  LET g == [f EXCEPT !.at = at] IN
           /\ g \in Frames /\ g.at = at
           /\ g.call = f.call /\ g.on = f.on /\ g.other = f.other
           /\ g.kept = f.kept
BY DEF Frames

\* A call moves on with the locks that it has.
LEMMA QuietMove ==
    ASSUME IInv, NEW t \in Threads, Busy(t), NEW f \in Frames, Moved(t, f),
           UNCHANGED <<order, lockVars>>,
           WritesOf(f) = WritesOf(Top(t)), ReadsOf(f) = ReadsOf(Top(t)),
           f.call = "swap" /\ f.at \notin {"lock", "other"} => f.on # f.other,
           f.at # "other", f.at \in {"flag", "lock"} => InOrder(t, f)
    PROVE  HeldByCalls' /\ OneCallEach' /\ OuterForeign' /\ AskedInOrder'
<1>1. /\ Typed /\ HeldByCalls /\ OneCallEach /\ OuterForeign /\ AskedInOrder
      /\ TypeOK
  BY DEF IInv, TypeOK
<1>2. /\ OneCallEach'
      /\ Writes(t)' = (Writes(t) \ WritesOf(Top(t))) \cup WritesOf(f)
      /\ Reads(t)' = (Reads(t) \ ReadsOf(Top(t))) \cup ReadsOf(f)
      /\ \A u \in Threads \ {t} :
            Writes(u)' = Writes(u) /\ Reads(u)' = Reads(u)
  BY <1>1, MoveLocks
<1>3. WritesOf(Top(t)) \subseteq Writes(t) /\ ReadsOf(Top(t)) \subseteq Reads(t)
  BY <1>1, TopHolds DEF WritesOf, ReadsOf
<1>4. \A u \in Threads : Writes(u)' = Writes(u) /\ Reads(u)' = Reads(u)
  BY <1>2, <1>3
<1>5. HeldByCalls' BY <1>1, <1>4, HeldBySets DEF lockVars
<1>6. AskedInOrder'
  <2>1. \A u \in Threads : Holds(u)' = Holds(u) BY DEF Holds, lockVars
  <2>2. Busy(t)' /\ Top(t)' = f BY <1>1, TopAfterMove
  <2>3. AsksInOrder(t)' BY <2>1, <2>2 DEF AsksInOrder, InOrder
  <2> QED BY <1>1, <2>1, <2>3, OrderKept DEF Moved, OthersKept
<1> QED BY <1>1, <1>2, <1>5, <1>6, ForeignKept

-----------------------------------------------------------------------------
(* The inductive invariant.                                                *)

LEMMA IInvInit == Init => IInv
<1> SUFFICES ASSUME Init PROVE IInv OBVIOUS
<1>1. Typed
  <2>1. \A t \in Threads : stack[t] = <<>> BY DEF Init
  <2>2. stack \in [Threads -> Seq(Frames)] BY EmptySeq DEF Init
  <2>3. changed \in [Mutables -> BOOLEAN] BY Zenon DEF Init
  <2> QED BY <2>2, <2>3, MutablesAssumption DEF Init, Typed
<1>2. \A t \in Threads : stack[t] = <<>> /\ Len(stack[t]) = 0
  BY EmptySeq DEF Init
<1>3. HeldByCalls
  BY <1>2, ThreadsAssumption DEF Init, HeldByCalls
<1>4. OneCallEach /\ OuterForeign
  BY <1>2 DEF OneCallEach, OuterForeign
<1>5. AskedInOrder /\ HalfSwapped
  BY <1>2 DEF AskedInOrder, HalfSwapped, In, Busy
<1>6. LatestNotLost BY DEF Init, LatestNotLost
<1> QED BY <1>1, <1>3, <1>4, <1>5, <1>6 DEF IInv, TypeOK

\* A thread, or the code of the program in one of its calls, makes a call.
LEMMA CallStep ==
    ASSUME IInv, NEW t \in Threads, NEW c \in Calls, NEW m \in Mutables,
           NEW n \in Mutables, Call(t, c, m, n)
    PROVE  IInv'
<1> DEFINE f == [call |-> c, on |-> m, other |-> n, kept |-> 0,
                 at |-> IF c = "poll" THEN "flag" ELSE "lock"]
           k == Len(stack[t])
<1>0. /\ Typed /\ HeldByCalls /\ OneCallEach /\ OuterForeign /\ AskedInOrder
      /\ HalfSwapped /\ LatestNotLost
  BY DEF IInv, TypeOK
<1>1. /\ Busy(t) => Foreign(t)
      /\ InOrder(t, f)
      /\ calls' = calls + 1
      /\ stack' = [stack EXCEPT ![t] = Append(@, f)]
      /\ UNCHANGED <<order, owner, readers, value, changed, seen, written>>
  BY DEF Call, lockVars, dataVars
<1>2. f \in Frames BY DEF Frames, Places
<1>3. /\ f.on = m /\ f.other = n /\ f.call = c
      /\ f.at \in {"flag", "lock"}
      /\ f.at = "flag" => f.call = "poll"
  OBVIOUS
<1> HIDE DEF f
<1>4. /\ stack' \in [Threads -> Seq(Frames)]
      /\ \A u \in Threads \ {t} : stack'[u] = stack[u]
      /\ k \in Nat /\ Len(stack'[t]) = k + 1
      /\ \A i \in 1..k : stack'[t][i] = stack[t][i]
      /\ stack'[t][k + 1] = f
  BY <1>0, <1>1, <1>2, CallPushes
<1>k. k = Len(stack[t]) OBVIOUS
<1> HIDE DEF k
<1>5. /\ \A i \in 1..(k + 1) : i = k + 1 \/ i \in 1..k
      /\ \A i \in 1..k : i \in 1..(k + 1)
  BY <1>4
<1>6. \A x \in Mutables : ~HasWrite(f, x) /\ ~HasRead(f, x)
  BY <1>3 DEF HasWrite, HasRead
<1>7. Typed' BY <1>0, <1>1, <1>4 DEF Typed
<1>8. HeldByCalls'
  <2>1. \A x \in Mutables :
           /\ (\E i \in 1..(k + 1) : HasWrite(stack'[t][i], x)) <=>
                 (\E i \in 1..k : HasWrite(stack[t][i], x))
           /\ (\E i \in 1..(k + 1) : HasRead(stack'[t][i], x)) <=>
                 (\E i \in 1..k : HasRead(stack[t][i], x))
    BY <1>4, <1>5, <1>6
  <2>2. Writes(t)' = Writes(t) /\ Reads(t)' = Reads(t)
    BY <1>k, <1>4, <2>1 DEF Writes, Reads
  <2>3. \A u \in Threads : Writes(u)' = Writes(u) /\ Reads(u)' = Reads(u)
    BY <1>4, <2>2 DEF Writes, Reads
  <2> QED BY <1>0, <1>1, <2>3, HeldBySets
<1>9. OneCallEach'
  <2>1. ASSUME NEW u \in Threads \ {t} PROVE stack'[u] = stack[u] BY <1>4
  <2>2. \A i, j \in 1..(k + 1), x \in Mutables :
           \/ HasWrite(stack'[t][i], x) /\ HasWrite(stack'[t][j], x)
           \/ HasRead(stack'[t][i], x) /\ HasRead(stack'[t][j], x)
           => i \in 1..k /\ j \in 1..k
    BY <1>4, <1>5, <1>6
  <2>3. \A i \in 1..(k + 1) :
           stack'[t][i].call = "swap" /\ stack'[t][i].at \notin {"lock", "other"}
           => i \in 1..k
    BY <1>3, <1>4, <1>5
  <2>4. \A i \in 1..Len(stack'[t]) : i \in 1..(k + 1) BY <1>4
  <2>5. \A i, j \in 1..k, x \in Mutables :
           \/ HasWrite(stack'[t][i], x) /\ HasWrite(stack'[t][j], x)
           \/ HasRead(stack'[t][i], x) /\ HasRead(stack'[t][j], x)
           => i = j
    BY <1>0, <1>k, <1>4 DEF OneCallEach
  <2>6. \A i \in 1..k :
           stack'[t][i].call = "swap" /\ stack'[t][i].at \notin {"lock", "other"}
           => stack'[t][i].on # stack'[t][i].other
    BY <1>0, <1>k, <1>4 DEF OneCallEach
  <2> QED BY <1>0, <2>1, <2>2, <2>3, <2>4, <2>5, <2>6 DEF OneCallEach
<1>10. OuterForeign'
  <2>1. ASSUME NEW u \in Threads \ {t} PROVE stack'[u] = stack[u] BY <1>4
  <2>2. ASSUME NEW i \in 1..k
        PROVE  \/ stack[t][i].at \in {"told", "toldOther"}
               \/ /\ stack[t][i].at \in {"inside", "dirty"}
                  /\ stack[t][i].call # "swap"
    <3>1. CASE i \in 1..(k - 1) BY <1>0, <1>k, <3>1 DEF OuterForeign
    <3>2. CASE i = k
      <4>1. Busy(t)
        <5>1. k # 0 BY <3>2, <1>4
        <5> QED BY <1>k, <5>1, EmptySeq DEF Busy
      <4> QED BY <1>1, <1>k, <3>2, <4>1 DEF Foreign, Top
    <3> QED BY <1>4, <3>1, <3>2
  <2>3. Len(stack'[t]) - 1 = k BY <1>4
  <2> QED BY <1>0, <1>4, <2>1, <2>2, <2>3 DEF OuterForeign
<1>11. Busy(t)' /\ Top(t)' = f
  <2>1. Len(stack'[t]) # 0 BY <1>4
  <2>2. stack'[t] # <<>> BY <2>1, EmptySeq
  <2> QED BY <1>4, <2>2 DEF Busy, Top
<1>12. \A u \in Threads : Holds(u)' = Holds(u) BY <1>1 DEF Holds
<1>13. AskedInOrder'
  <2>1. AsksInOrder(t)'
    BY <1>1, <1>3, <1>11, <1>12 DEF AsksInOrder, InOrder
  <2> QED BY <1>0, <1>1, <1>4, <1>12, <2>1, OrderKept
<1>14. HalfSwapped'
  BY <1>0, <1>1, <1>3, <1>4, <1>11, HalfKept DEF In
<1>15. LatestNotLost'
  <2>1. ASSUME NEW x \in Mutables, Pending(x) PROVE Pending(x)'
    <3>1. PICK u \in Threads :
             \E i \in 1..Len(stack[u]) : PendingOf(stack[u][i], x)
      BY <2>1 DEF Pending
    <3>2. PICK i \in 1..Len(stack[u]) : PendingOf(stack[u][i], x) BY <3>1
    <3>3. i \in 1..Len(stack'[u]) /\ stack'[u][i] = stack[u][i]
      BY <1>k, <1>4, <1>5, <3>2
    <3> QED BY <3>2, <3>3 DEF Pending
  <2> QED BY <1>0, <1>1, <2>1, LatestByPending
<1> QED
  BY <1>7, <1>8, <1>9, <1>10, <1>13, <1>14, <1>15 DEF IInv, TypeOK

\* A call in progress goes on.
LEMMA GoOnStep == ASSUME IInv, NEW t \in Threads, GoOn(t) PROVE IInv'
<1> DEFINE g(at) == [Top(t) EXCEPT !.at = at]
<1>0. /\ Typed /\ HeldByCalls /\ OneCallEach /\ OuterForeign /\ AskedInOrder
      /\ HalfSwapped /\ LatestNotLost /\ TypeOK /\ t # NoOne
  BY ThreadsAssumption DEF IInv, TypeOK
<1>b. Busy(t)
  BY DEF GoOn, WriteLock, OtherLock, ReadLock, ReadEnd, Write, Notify, WriteEnd,
         SwapFirst, SwapSecond, NotifyOther, UnlockOther, SwapEnd, PollFlag, In
<1>f. /\ Top(t) \in Frames /\ Top(t).on \in Mutables
      /\ Top(t).other \in Mutables
  BY <1>0, <1>b, TopIsLast DEF Frames
<1>o. /\ \A m \in WritesOf(Top(t)) : m \in Writes(t) /\ owner[m] = t
      /\ \A m \in ReadsOf(Top(t)) : m \in Reads(t) /\ t \in readers[m]
  BY <1>0, <1>b, TopHolds DEF WritesOf, ReadsOf
<1>d. Top(t).call = "swap" /\ Top(t).at \notin {"lock", "other"}
      => Top(t).on # Top(t).other
  BY <1>0, <1>b, TopIsLast DEF OneCallEach
<1>g. ASSUME NEW at \in Places, GoTo(t, at)
      PROVE  /\ Moved(t, g(at)) /\ g(at) \in Frames
             /\ stack' \in [Threads -> Seq(Frames)]
             /\ Busy(t)' /\ Top(t)' = g(at)
             /\ g(at).at = at /\ g(at).call = Top(t).call
             /\ g(at).on = Top(t).on /\ g(at).other = Top(t).other
             /\ \A u \in Threads \ {t} : stack'[u] = stack[u]
  <2>1. Moved(t, g(at)) /\ g(at) \in Frames
    BY <1>0, <1>b, <1>g, GoToMoves
  <2>2. Busy(t)' /\ Top(t)' = g(at) BY <1>0, <1>b, <2>1, TopAfterMove
  <2> QED BY <1>f, <2>1, <2>2, FrameAt DEF Moved, OthersKept
<1>h. ASSUME \A u \in Threads \ {t} : stack'[u] = stack[u],
             Busy(t)' => Top(t)'.at # "half",
             \A u \in Threads \ {t}, m \in Mutables :
                 owner[m] = u => value'[m] = value[m]
      PROVE  HalfSwapped'
  BY <1>0, <1>h, HalfKept, HalfOwns DEF In
<1> HIDE DEF g
<1>m. ASSUME NEW at \in Places, GoTo(t, at),
             \A x \in WritesOf(g(at)) : x \in Writes(t) => x \in WritesOf(Top(t)),
             \A x \in ReadsOf(g(at)) : x \in Reads(t) => x \in ReadsOf(Top(t)),
             Top(t).call = "swap" /\ at \notin {"lock", "other"} =>
                Top(t).on # Top(t).other
      PROVE  /\ Writes(t)' = (Writes(t) \ WritesOf(Top(t))) \cup WritesOf(g(at))
             /\ Reads(t)' = (Reads(t) \ ReadsOf(Top(t))) \cup ReadsOf(g(at))
             /\ \A u \in Threads \ {t} :
                   Writes(u)' = Writes(u) /\ Reads(u)' = Reads(u)
             /\ OneCallEach'
  <2>1. /\ Moved(t, g(at)) /\ g(at) \in Frames
        /\ g(at).call = "swap" /\ g(at).at \notin {"lock", "other"} =>
              g(at).on # g(at).other
    BY <1>g, <1>m
  <2> QED BY <1>0, <1>b, <1>m, <2>1, MoveLocks
<1>1. CASE Write(t)
  <2>1. /\ Top(t).call = "write" /\ Top(t).at = "inside"
        /\ GoTo(t, "dirty") /\ "dirty" \in Places
        /\ written' = written + 1
        /\ value' = [value EXCEPT ![Top(t).on] =
                        Cardinality(Mutables) + written + 1]
        /\ UNCHANGED <<order, lockVars, changed, seen, calls>>
    BY <1>1 DEF Write, In, Places
  <2>2. Cardinality(Mutables) \in Nat
    BY MutablesAssumption, FS_CardinalityType
  <2>3. Typed'
    <3>1. Cardinality(Mutables) + written + 1 \in Nat /\ written' \in Nat
      BY <1>0, <2>1, <2>2 DEF Typed
    <3>2. value' \in [Mutables -> Nat] BY <1>0, <2>1, <3>1 DEF Typed
    <3> QED BY <1>0, <1>g, <2>1, <3>1, <3>2 DEF Typed, lockVars
  <2>4. HeldByCalls' /\ OneCallEach' /\ OuterForeign' /\ AskedInOrder'
    <3>1. /\ WritesOf(g("dirty")) = WritesOf(Top(t))
          /\ ReadsOf(g("dirty")) = ReadsOf(Top(t))
      BY <1>g, <2>1 DEF WritesOf, ReadsOf, HasWrite, HasRead
    <3> QED BY <1>b, <1>d, <1>g, <2>1, <3>1, QuietMove
  <2>5. HalfSwapped'
    <3>1. owner[Top(t).on] = t
      BY <1>f, <1>o, <2>1 DEF WritesOf, HasWrite
    <3> QED BY <1>0, <1>g, <1>h, <2>1, <3>1 DEF Typed
  <2>6. LatestNotLost'
    <3>1. PendingOf(g("dirty"), Top(t).on)
      BY <1>g, <2>1 DEF PendingOf, WillTell
    <3>2. \A m \in Mutables : ~PendingOf(Top(t), m)
      BY <2>1 DEF PendingOf, WillTell, WillRead
    <3> QED
      BY <1>0, <1>b, <1>f, <1>g, <2>1, <3>1, <3>2, MoveTells, LatestByPending
      DEF Typed
  <2> QED BY <2>3, <2>4, <2>5, <2>6 DEF IInv, TypeOK
<1>2. CASE Notify(t)
  <2>1. /\ Top(t).call \in {"write", "swap"} /\ Top(t).at = "dirty"
        /\ GoTo(t, "told") /\ "told" \in Places
        /\ changed' = [changed EXCEPT ![Top(t).on] = TRUE]
        /\ UNCHANGED <<order, lockVars, value, seen, written, calls>>
    BY <1>2 DEF Notify, In, Places
  <2>3. Typed'
    BY <1>0, <1>g, <2>1 DEF Typed, lockVars
  <2>4. HeldByCalls' /\ OneCallEach' /\ OuterForeign' /\ AskedInOrder'
    <3>1. /\ WritesOf(g("told")) = WritesOf(Top(t))
          /\ ReadsOf(g("told")) = ReadsOf(Top(t))
      BY <1>g, <2>1 DEF WritesOf, ReadsOf, HasWrite, HasRead
    <3> QED BY <1>b, <1>d, <1>g, <2>1, <3>1, QuietMove
  <2>5. HalfSwapped' BY <1>g, <1>h, <2>1
  <2>6. LatestNotLost'
    <3>1. changed'[Top(t).on] BY <1>0, <1>f, <2>1 DEF Typed
    <3>2. \A m \in Mutables : changed[m] => changed'[m]
      BY <1>0, <1>f, <2>1 DEF Typed
    <3>3. \A m \in Mutables :
             m # Top(t).on /\ PendingOf(Top(t), m) => PendingOf(g("told"), m)
      BY <1>g, <2>1 DEF PendingOf, WillTell, WillRead
    <3> QED
      BY <1>0, <1>b, <1>g, <2>1, <3>1, <3>2, <3>3, MoveTells, LatestByPending
  <2> QED BY <2>3, <2>4, <2>5, <2>6 DEF IInv, TypeOK
<1>3. CASE NotifyOther(t)
  <2>1. /\ Top(t).call = "swap" /\ Top(t).at = "told"
        /\ GoTo(t, "toldOther") /\ "toldOther" \in Places
        /\ changed' = [changed EXCEPT ![Top(t).other] = TRUE]
        /\ UNCHANGED <<order, lockVars, value, seen, written, calls>>
    BY <1>3 DEF NotifyOther, In, Places
  <2>3. Typed'
    BY <1>0, <1>g, <2>1 DEF Typed, lockVars
  <2>4. HeldByCalls' /\ OneCallEach' /\ OuterForeign' /\ AskedInOrder'
    <3>1. /\ WritesOf(g("toldOther")) = WritesOf(Top(t))
          /\ ReadsOf(g("toldOther")) = ReadsOf(Top(t))
      BY <1>g, <2>1 DEF WritesOf, ReadsOf, HasWrite, HasRead
    <3> QED BY <1>b, <1>d, <1>g, <2>1, <3>1, QuietMove
  <2>5. HalfSwapped' BY <1>g, <1>h, <2>1
  <2>6. LatestNotLost'
    <3>1. changed'[Top(t).other] BY <1>0, <1>f, <2>1 DEF Typed
    <3>2. \A m \in Mutables : changed[m] => changed'[m]
      BY <1>0, <1>f, <2>1 DEF Typed
    <3>3. \A m \in Mutables : PendingOf(Top(t), m) => m = Top(t).other
      BY <2>1 DEF PendingOf, WillTell, WillRead
    <3> QED
      BY <1>0, <1>b, <1>g, <2>1, <3>1, <3>2, <3>3, MoveTells, LatestByPending
  <2> QED BY <2>3, <2>4, <2>5, <2>6 DEF IInv, TypeOK
<1>4. CASE SwapFirst(t)
  <2> DEFINE h == [Top(t) EXCEPT !.at = "half", !.kept = value[Top(t).on]]
  <2>1. /\ Top(t).call = "swap" /\ Top(t).at = "inside"
        /\ value' = [value EXCEPT ![Top(t).on] = value[Top(t).other]]
        /\ stack' = [stack EXCEPT ![t] = [@ EXCEPT ![Len(stack[t])] = h]]
        /\ UNCHANGED <<order, lockVars, changed, seen, written, calls>>
    BY <1>4 DEF SwapFirst, In, Top
  <2>2. /\ h \in Frames /\ h.at = "half" /\ h.call = "swap"
        /\ h.on = Top(t).on /\ h.other = Top(t).other
    BY <1>0, <1>f, <2>1 DEF Frames, Places, Typed
  <2> HIDE DEF h
  <2>m. Moved(t, h) BY <1>0, <1>b, <2>1, <2>2, CallMoves
  <2>n. Busy(t)' /\ Top(t)' = h BY <1>0, <1>b, <2>2, <2>m, TopAfterMove
  <2>o. owner[Top(t).on] = t BY <1>f, <1>o, <2>1 DEF WritesOf, HasWrite
  <2>3. Typed'
    <3>1. value' \in [Mutables -> Nat] BY <1>0, <1>f, <2>1 DEF Typed
    <3> QED BY <1>0, <2>1, <2>m, <3>1 DEF Typed, lockVars, Moved, OthersKept
  <2>4. HeldByCalls' /\ OneCallEach' /\ OuterForeign' /\ AskedInOrder'
    <3>1. WritesOf(h) = WritesOf(Top(t)) /\ ReadsOf(h) = ReadsOf(Top(t))
      BY <2>1, <2>2 DEF WritesOf, ReadsOf, HasWrite, HasRead
    <3> QED BY <1>b, <1>d, <2>1, <2>2, <2>m, <3>1, QuietMove
  <2>5. HalfSwapped'
    <3>1. value'[h.on] = value'[h.other]
      BY <1>0, <1>f, <2>1, <2>2 DEF Typed
    <3>2. ASSUME NEW u \in Threads \ {t}, In(u, {"swap"}, "half")
          PROVE  /\ value'[Top(u).on] = value[Top(u).on]
                 /\ value'[Top(u).other] = value[Top(u).other]
      BY <1>0, <2>1, <2>o, <3>2, HalfOwns DEF Typed
    <3> QED BY <1>0, <2>m, <2>n, <3>1, <3>2, HalfKept DEF Moved, OthersKept
  <2>6. LatestNotLost'
    <3>1. PendingOf(h, Top(t).on) BY <2>2 DEF PendingOf, WillTell
    <3>2. \A m \in Mutables : ~PendingOf(Top(t), m)
      BY <2>1 DEF PendingOf, WillTell, WillRead
    <3> QED
      BY <1>0, <1>b, <1>f, <2>1, <2>2, <2>m, <3>1, <3>2, MoveTells,
         LatestByPending
      DEF Typed
  <2> QED BY <2>3, <2>4, <2>5, <2>6 DEF IInv, TypeOK
<1>5. CASE SwapSecond(t)
  <2>1. /\ Top(t).call = "swap" /\ Top(t).at = "half"
        /\ GoTo(t, "dirty") /\ "dirty" \in Places
        /\ value' = [value EXCEPT ![Top(t).other] = Top(t).kept]
        /\ UNCHANGED <<order, lockVars, changed, seen, written, calls>>
    BY <1>5 DEF SwapSecond, In, Places
  <2>3. Typed'
    <3>1. Top(t).kept \in Nat BY <1>f DEF Frames
    <3>2. value' \in [Mutables -> Nat] BY <1>0, <1>f, <2>1, <3>1 DEF Typed
    <3> QED BY <1>0, <1>g, <2>1, <3>2 DEF Typed, lockVars
  <2>4. HeldByCalls' /\ OneCallEach' /\ OuterForeign' /\ AskedInOrder'
    <3>1. /\ WritesOf(g("dirty")) = WritesOf(Top(t))
          /\ ReadsOf(g("dirty")) = ReadsOf(Top(t))
      BY <1>g, <2>1 DEF WritesOf, ReadsOf, HasWrite, HasRead
    <3> QED BY <1>b, <1>d, <1>g, <2>1, <3>1, QuietMove
  <2>5. HalfSwapped'
    <3>1. owner[Top(t).other] = t BY <1>f, <1>o, <2>1 DEF WritesOf, HasWrite
    <3> QED BY <1>0, <1>g, <1>h, <2>1, <3>1 DEF Typed
  <2>6. LatestNotLost'
    <3>1. /\ PendingOf(g("dirty"), Top(t).on)
          /\ PendingOf(g("dirty"), Top(t).other)
      BY <1>g, <2>1 DEF PendingOf, WillTell
    <3>2. \A m \in Mutables : PendingOf(Top(t), m) => m = Top(t).on
      BY <2>1 DEF PendingOf, WillTell, WillRead
    <3> QED
      BY <1>0, <1>b, <1>f, <1>g, <2>1, <3>1, <3>2, MoveTells, LatestByPending
      DEF Typed
  <2> QED BY <2>3, <2>4, <2>5, <2>6 DEF IInv, TypeOK
\* The locks change hands.
<1>6. CASE WriteLock(t)
  <2> DEFINE at == IF Top(t).call = "swap" THEN "other" ELSE "inside"
             x == Top(t).on
  <2>1. /\ Top(t).call \in {"write", "swap"} /\ Top(t).at = "lock"
        /\ GoTo(t, at) /\ at \in Places /\ at \in {"other", "inside"}
        /\ owner' = [owner EXCEPT ![x] = t]
        /\ owner[x] = NoOne /\ readers[x] = {}
        /\ UNCHANGED <<order, readers, value, changed, seen, written, calls>>
    BY <1>6 DEF WriteLock, In, Places, Free, dataVars
  <2>2. at = "other" <=> Top(t).call = "swap" OBVIOUS
  <2> HIDE DEF at
  <2>3. Typed' BY <1>0, <1>f, <1>g, <2>1 DEF Typed
  <2>4. /\ WritesOf(g(at)) = {x} /\ ReadsOf(g(at)) = {}
        /\ WritesOf(Top(t)) = {} /\ ReadsOf(Top(t)) = {}
    BY <1>f, <1>g, <2>1, <2>2 DEF WritesOf, ReadsOf, HasWrite, HasRead
  <2>5. \A u \in Threads : x \notin Writes(u)
    BY <1>0, <1>f, <2>1, ThreadsAssumption, HeldBySets
  <2>6. /\ OneCallEach' /\ Writes(t)' = Writes(t) \cup {x}
        /\ Reads(t)' = Reads(t)
        /\ \A u \in Threads \ {t} :
              Writes(u)' = Writes(u) /\ Reads(u)' = Reads(u)
    <3>1. /\ \A y \in WritesOf(g(at)) : y \in Writes(t) => y \in WritesOf(Top(t))
          /\ \A y \in ReadsOf(g(at)) : y \in Reads(t) => y \in ReadsOf(Top(t))
          /\ Top(t).call = "swap" => at = "other"
      BY <2>2, <2>4, <2>5
    <3>2. /\ Writes(t)' = (Writes(t) \ {}) \cup {x}
          /\ Reads(t)' = (Reads(t) \ {}) \cup {}
          /\ \A u \in Threads \ {t} :
                Writes(u)' = Writes(u) /\ Reads(u)' = Reads(u)
          /\ OneCallEach'
      BY <1>m, <2>1, <2>4, <3>1
    <3> QED BY <3>2
  <2>7. HeldByCalls'
    <3>1. \A m \in Mutables : owner'[m] = IF m = x THEN t ELSE owner[m]
      BY <1>0, <1>f, <2>1 DEF Typed
    <3> QED BY <1>0, <2>1, <2>5, <2>6, <3>1, HeldBySets
  <2>8. OuterForeign' BY <1>0, <1>b, <1>g, <2>1, ForeignKept
  <2>9. AskedInOrder'
    <3>1. /\ \A u \in Threads \ {t} : Holds(u)' \subseteq Holds(u)
          /\ Holds(t)' = Holds(t) \cup {x}
      BY <1>0, <1>f, <2>1 DEF Holds, Typed
    <3>2. InOrder(t, Top(t))
      BY <1>0, <1>b, <2>1 DEF AskedInOrder
    <3>3. AsksInOrder(t)'
      BY <1>g, <2>1, <2>2, <3>1, <3>2 DEF AsksInOrder, InOrder
    <3> QED BY <1>0, <1>g, <2>1, <3>1, <3>3, OrderKept
  <2>10. HalfSwapped' BY <1>g, <1>h, <2>1
  <2>11. LatestNotLost'
    <3>1. \A m \in Mutables : ~PendingOf(Top(t), m)
      BY <2>1 DEF PendingOf, WillTell, WillRead
    <3> QED BY <1>0, <1>b, <1>g, <2>1, <3>1, MoveTells, LatestByPending
  <2> QED BY <2>3, <2>6, <2>7, <2>8, <2>9, <2>10, <2>11 DEF IInv, TypeOK
<1>7. CASE OtherLock(t)
  <2> DEFINE x == Top(t).other
  <2>1. /\ Top(t).call = "swap" /\ Top(t).at = "other"
        /\ GoTo(t, "inside") /\ "inside" \in Places
        /\ owner' = [owner EXCEPT ![x] = t]
        /\ owner[x] = NoOne /\ readers[x] = {}
        /\ UNCHANGED <<order, readers, value, changed, seen, written, calls>>
    BY <1>7 DEF OtherLock, In, Places, Free, dataVars
  <2>3. Typed' BY <1>0, <1>f, <1>g, <2>1 DEF Typed
  <2>4. /\ WritesOf(g("inside")) = {Top(t).on, x} /\ ReadsOf(g("inside")) = {}
        /\ WritesOf(Top(t)) = {Top(t).on} /\ ReadsOf(Top(t)) = {}
    BY <1>f, <1>g, <2>1 DEF WritesOf, ReadsOf, HasWrite, HasRead
  <2>5. /\ \A u \in Threads : x \notin Writes(u)
        /\ Top(t).on \in Writes(t) /\ owner[Top(t).on] = t
    BY <1>0, <1>f, <1>o, <2>1, <2>4, ThreadsAssumption, HeldBySets
  <2>6. /\ OneCallEach' /\ Writes(t)' = Writes(t) \cup {x}
        /\ Reads(t)' = Reads(t)
        /\ \A u \in Threads \ {t} :
              Writes(u)' = Writes(u) /\ Reads(u)' = Reads(u)
    <3>1. Top(t).on # Top(t).other BY <2>1, <1>0, <2>5
    <3>2. /\ \A m \in WritesOf(g("inside")) :
                m \in Writes(t) => m \in WritesOf(Top(t))
          /\ \A m \in ReadsOf(g("inside")) :
                m \in Reads(t) => m \in ReadsOf(Top(t))
      BY <2>4, <2>5
    <3>3. /\ OneCallEach'
          /\ Writes(t)' = (Writes(t) \ {Top(t).on}) \cup {Top(t).on, x}
          /\ Reads(t)' = Reads(t)
          /\ \A u \in Threads \ {t} :
                Writes(u)' = Writes(u) /\ Reads(u)' = Reads(u)
      <4>1. /\ Writes(t)' = (Writes(t) \ {Top(t).on}) \cup {Top(t).on, x}
            /\ Reads(t)' = (Reads(t) \ {}) \cup {}
            /\ \A u \in Threads \ {t} :
                  Writes(u)' = Writes(u) /\ Reads(u)' = Reads(u)
            /\ OneCallEach'
        BY <1>m, <2>1, <2>4, <3>1, <3>2
      <4> QED BY <4>1
    <3> QED BY <2>5, <3>3
  <2>7. HeldByCalls'
    <3>1. \A m \in Mutables : owner'[m] = IF m = x THEN t ELSE owner[m]
      BY <1>0, <1>f, <2>1 DEF Typed
    <3> QED BY <1>0, <2>1, <2>5, <2>6, <3>1, HeldBySets
  <2>8. OuterForeign' BY <1>0, <1>b, <1>g, <2>1, ForeignKept
  <2>9. AskedInOrder'
    <3>1. \A u \in Threads \ {t} : Holds(u)' \subseteq Holds(u)
      BY <1>0, <1>f, <2>1 DEF Holds, Typed
    <3>2. AsksInOrder(t)' BY <1>g, <2>1 DEF AsksInOrder
    <3> QED BY <1>0, <1>g, <2>1, <3>1, <3>2, OrderKept
  <2>10. HalfSwapped' BY <1>g, <1>h, <2>1
  <2>11. LatestNotLost'
    <3>1. \A m \in Mutables : ~PendingOf(Top(t), m)
      BY <2>1 DEF PendingOf, WillTell, WillRead
    <3> QED BY <1>0, <1>b, <1>g, <2>1, <3>1, MoveTells, LatestByPending
  <2> QED BY <2>3, <2>6, <2>7, <2>8, <2>9, <2>10, <2>11 DEF IInv, TypeOK
<1>8. CASE ReadLock(t)
  <2> DEFINE x == Top(t).on
  <2>1. /\ Top(t).call \in {"read", "poll"} /\ Top(t).at = "lock"
        /\ GoTo(t, "inside") /\ "inside" \in Places
        /\ readers' = [readers EXCEPT ![x] = @ \cup {t}]
        /\ owner[x] = NoOne /\ t \notin readers[x]
        /\ seen' = IF Top(t).call = "poll"
                      THEN [seen EXCEPT ![x] = value[x]] ELSE seen
        /\ UNCHANGED <<order, owner, value, changed, written, calls>>
    BY <1>8 DEF ReadLock, In, Places
  <2>3. Typed'
    <3>1. seen' \in [Mutables -> Nat] BY <1>0, <1>f, <2>1 DEF Typed
    <3>2. readers' \in [Mutables -> SUBSET Threads]
      BY <1>0, <1>f, <2>1 DEF Typed
    <3> QED BY <1>0, <1>g, <2>1, <3>1, <3>2 DEF Typed
  <2>4. /\ WritesOf(g("inside")) = {} /\ ReadsOf(g("inside")) = {x}
        /\ WritesOf(Top(t)) = {} /\ ReadsOf(Top(t)) = {}
    BY <1>f, <1>g, <2>1 DEF WritesOf, ReadsOf, HasWrite, HasRead
  <2>5. x \notin Reads(t) BY <1>0, <1>f, <2>1, HeldBySets
  <2>6. /\ OneCallEach' /\ Reads(t)' = Reads(t) \cup {x}
        /\ Writes(t)' = Writes(t)
        /\ \A u \in Threads \ {t} :
              Writes(u)' = Writes(u) /\ Reads(u)' = Reads(u)
    <3>1. /\ \A y \in WritesOf(g("inside")) :
                y \in Writes(t) => y \in WritesOf(Top(t))
          /\ \A y \in ReadsOf(g("inside")) :
                y \in Reads(t) => y \in ReadsOf(Top(t))
          /\ Top(t).call # "swap"
      BY <2>1, <2>4, <2>5
    <3>2. /\ Writes(t)' = (Writes(t) \ {}) \cup {}
          /\ Reads(t)' = (Reads(t) \ {}) \cup {x}
          /\ \A u \in Threads \ {t} :
                Writes(u)' = Writes(u) /\ Reads(u)' = Reads(u)
          /\ OneCallEach'
      BY <1>m, <2>1, <2>4, <3>1
    <3> QED BY <3>2
  <2>7. HeldByCalls'
    BY <1>0, <1>f, <2>1, <2>6, HeldBySets DEF Typed
  <2>8. OuterForeign' BY <1>0, <1>b, <1>g, <2>1, ForeignKept
  <2>9. AskedInOrder'
    <3>1. \A u \in Threads \ {t} : Holds(u)' \subseteq Holds(u)
      BY <1>0, <1>f, <2>1 DEF Holds, Typed
    <3>2. AsksInOrder(t)' BY <1>g, <2>1 DEF AsksInOrder
    <3> QED BY <1>0, <1>g, <2>1, <3>1, <3>2, OrderKept
  <2>10. HalfSwapped' BY <1>g, <1>h, <2>1
  <2>11. LatestNotLost'
    <3>1. \A m \in Mutables :
             PendingOf(Top(t), m) => m = x /\ Top(t).call = "poll"
      BY <2>1 DEF PendingOf, WillTell, WillRead
    <3>2. ASSUME NEW m \in Mutables, PendingOf(Top(t), m)
          PROVE  seen'[m] = value'[m]
      BY <1>0, <1>f, <2>1, <3>1, <3>2 DEF Typed
    <3>3. ASSUME NEW m \in Mutables, seen'[m] # value'[m]
          PROVE  seen[m] # value[m]
      BY <1>0, <1>f, <2>1, <3>3 DEF Typed
    <3> QED
      BY <1>0, <1>b, <1>g, <2>1, <3>2, <3>3, MoveTells, LatestByPending
  <2> QED BY <2>3, <2>6, <2>7, <2>8, <2>9, <2>10, <2>11 DEF IInv, TypeOK
<1>9. CASE UnlockOther(t)
  <2> DEFINE x == Top(t).other
  <2>1. /\ Top(t).call = "swap" /\ Top(t).at = "toldOther"
        /\ GoTo(t, "last") /\ "last" \in Places
        /\ owner' = [owner EXCEPT ![x] = NoOne]
        /\ UNCHANGED <<order, readers, value, changed, seen, written, calls>>
    BY <1>9 DEF UnlockOther, In, Places, dataVars
  <2>2. Top(t).on # x BY <1>d, <2>1
  <2>3. Typed' BY <1>0, <1>f, <1>g, <2>1 DEF Typed
  <2>4. /\ WritesOf(g("last")) = {Top(t).on} /\ ReadsOf(g("last")) = {}
        /\ WritesOf(Top(t)) = {Top(t).on, x} /\ ReadsOf(Top(t)) = {}
    BY <1>f, <1>g, <2>1 DEF WritesOf, ReadsOf, HasWrite, HasRead
  <2>5. owner[x] = t /\ x \in Writes(t) BY <1>o, <2>4
  <2>6. /\ OneCallEach' /\ Writes(t)' = Writes(t) \ {x}
        /\ Reads(t)' = Reads(t)
        /\ \A u \in Threads \ {t} :
              Writes(u)' = Writes(u) /\ Reads(u)' = Reads(u)
    <3>1. /\ OneCallEach'
          /\ Writes(t)' = (Writes(t) \ {Top(t).on, x}) \cup {Top(t).on}
          /\ Reads(t)' = Reads(t)
          /\ \A u \in Threads \ {t} :
                Writes(u)' = Writes(u) /\ Reads(u)' = Reads(u)
      <4>1. /\ \A m \in WritesOf(g("last")) :
                  m \in Writes(t) => m \in WritesOf(Top(t))
            /\ \A m \in ReadsOf(g("last")) :
                  m \in Reads(t) => m \in ReadsOf(Top(t))
        BY <2>4
      <4>2. /\ Writes(t)' = (Writes(t) \ {Top(t).on, x}) \cup {Top(t).on}
            /\ Reads(t)' = (Reads(t) \ {}) \cup {}
            /\ \A u \in Threads \ {t} :
                  Writes(u)' = Writes(u) /\ Reads(u)' = Reads(u)
            /\ OneCallEach'
        BY <1>m, <2>1, <2>2, <2>4, <4>1
      <4> QED BY <4>2
    <3>2. Top(t).on \in Writes(t) BY <1>o, <2>4
    <3> QED BY <2>2, <3>1, <3>2
  <2>7. HeldByCalls'
    BY <1>0, <1>f, <2>1, <2>5, <2>6, ThreadsAssumption, HeldBySets DEF Typed
  <2>8. OuterForeign' BY <1>0, <1>b, <1>g, <2>1, ForeignKept
  <2>9. AskedInOrder'
    <3>1. \A u \in Threads : Holds(u)' \subseteq Holds(u)
      BY <1>0, <1>f, <2>1, ThreadsAssumption DEF Holds, Typed
    <3>2. AsksInOrder(t)' BY <1>g, <2>1 DEF AsksInOrder
    <3> QED BY <1>0, <1>g, <2>1, <3>1, <3>2, OrderKept
  <2>10. HalfSwapped' BY <1>g, <1>h, <2>1
  <2>11. LatestNotLost'
    <3>1. \A m \in Mutables : ~PendingOf(Top(t), m)
      BY <2>1 DEF PendingOf, WillTell, WillRead
    <3> QED BY <1>0, <1>b, <1>g, <2>1, <3>1, MoveTells, LatestByPending
  <2> QED BY <2>3, <2>6, <2>7, <2>8, <2>9, <2>10, <2>11 DEF IInv, TypeOK
\* A call returns.
<1>10. ASSUME Return(t), UNCHANGED <<order, value, seen, written, calls>>,
              changed' \in [Mutables -> BOOLEAN],
              \A m \in Mutables : changed[m] => changed'[m],
              \A m \in Mutables : ~PendingOf(Top(t), m),
              owner' \in [Mutables -> Threads \cup {NoOne}],
              readers' \in [Mutables -> SUBSET Threads],
              \A m \in Mutables :
                  owner'[m] = IF m \in WritesOf(Top(t)) THEN NoOne ELSE owner[m],
              \A m \in Mutables :
                  readers'[m] = IF m \in ReadsOf(Top(t))
                                   THEN readers[m] \ {t} ELSE readers[m]
       PROVE  IInv'
  <2>1. Popped(t) BY <1>0, <1>b, <1>10, ReturnPops
  <2>2. \A u \in Threads \ {t} : stack'[u] = stack[u]
    BY <2>1 DEF Popped, OthersKept
  <2>3. Typed' BY <1>0, <1>10, <2>1 DEF Typed, Popped, OthersKept
  <2>4. /\ OneCallEach' /\ Writes(t)' = Writes(t) \ WritesOf(Top(t))
        /\ Reads(t)' = Reads(t) \ ReadsOf(Top(t))
        /\ \A u \in Threads \ {t} :
              Writes(u)' = Writes(u) /\ Reads(u)' = Reads(u)
    BY <1>0, <1>b, <2>1, PopLocks
  <2>5. HeldByCalls'
    BY <1>0, <1>10, <1>o, <2>4, ThreadsAssumption, HeldBySets
  <2>6. OuterForeign' BY <1>0, <1>b, <2>1, ForeignKept
  <2>7. Busy(t)' => /\ Top(t)'.at \notin {"flag", "lock", "other", "half"}
    BY <1>0, <1>b, <2>1, TopAfterPop
  <2>8. AskedInOrder'
    <3>1. \A u \in Threads : Holds(u)' \subseteq Holds(u)
      BY <1>10, ThreadsAssumption DEF Holds
    <3>2. AsksInOrder(t)' BY <2>7 DEF AsksInOrder
    <3> QED BY <1>0, <1>10, <2>2, <3>1, <3>2, OrderKept
  <2>9. HalfSwapped' BY <1>h, <1>10, <2>2, <2>7
  <2>10. LatestNotLost'
    BY <1>0, <1>b, <1>10, <2>1, PopTells, LatestByPending
  <2> QED BY <2>3, <2>4, <2>5, <2>6, <2>8, <2>9, <2>10 DEF IInv, TypeOK
<1>11. CASE ReadEnd(t)
  <2>1. /\ Top(t).call \in {"read", "poll"} /\ Top(t).at = "inside"
        /\ readers' = [readers EXCEPT ![Top(t).on] = @ \ {t}]
        /\ Return(t)
        /\ UNCHANGED <<order, owner, value, changed, seen, written, calls>>
    BY <1>11 DEF ReadEnd, In, dataVars
  <2>2. WritesOf(Top(t)) = {} /\ ReadsOf(Top(t)) = {Top(t).on}
    BY <1>f, <2>1 DEF WritesOf, ReadsOf, HasWrite, HasRead
  <2>3. \A m \in Mutables : ~PendingOf(Top(t), m)
    BY <2>1 DEF PendingOf, WillTell, WillRead
  <2> QED BY <1>0, <1>f, <1>10, <2>1, <2>2, <2>3 DEF Typed
<1>12. CASE WriteEnd(t)
  <2>1. /\ Top(t).call = "write" /\ Top(t).at \in {"inside", "told"}
        /\ owner' = [owner EXCEPT ![Top(t).on] = NoOne]
        /\ Return(t)
        /\ UNCHANGED <<order, readers, value, changed, seen, written, calls>>
    BY <1>12 DEF WriteEnd, In, dataVars
  <2>2. WritesOf(Top(t)) = {Top(t).on} /\ ReadsOf(Top(t)) = {}
    BY <1>f, <2>1 DEF WritesOf, ReadsOf, HasWrite, HasRead
  <2>3. \A m \in Mutables : ~PendingOf(Top(t), m)
    BY <2>1 DEF PendingOf, WillTell, WillRead
  <2> QED BY <1>0, <1>f, <1>10, <2>1, <2>2, <2>3 DEF Typed
<1>13. CASE SwapEnd(t)
  <2>1. /\ Top(t).call = "swap" /\ Top(t).at = "last"
        /\ owner' = [owner EXCEPT ![Top(t).on] = NoOne]
        /\ Return(t)
        /\ UNCHANGED <<order, readers, value, changed, seen, written, calls>>
    BY <1>13 DEF SwapEnd, In, dataVars
  <2>2. WritesOf(Top(t)) = {Top(t).on} /\ ReadsOf(Top(t)) = {}
    BY <1>f, <2>1 DEF WritesOf, ReadsOf, HasWrite, HasRead
  <2>3. \A m \in Mutables : ~PendingOf(Top(t), m)
    BY <2>1 DEF PendingOf, WillTell, WillRead
  <2> QED BY <1>0, <1>f, <1>10, <2>1, <2>2, <2>3 DEF Typed
<1>14. CASE PollFlag(t)
  <2>1. /\ Top(t).call = "poll" /\ Top(t).at = "flag"
        /\ changed' = [changed EXCEPT ![Top(t).on] = FALSE]
        /\ IF changed[Top(t).on] THEN GoTo(t, "lock") ELSE Return(t)
        /\ UNCHANGED <<order, lockVars, value, seen, written, calls>>
    BY <1>14 DEF PollFlag, In
  <2>2. WritesOf(Top(t)) = {} /\ ReadsOf(Top(t)) = {}
    BY <1>f, <2>1 DEF WritesOf, ReadsOf, HasWrite, HasRead
  <2>3. \A m \in Mutables : ~PendingOf(Top(t), m)
    BY <2>1 DEF PendingOf, WillTell, WillRead
  <2>4. changed' \in [Mutables -> BOOLEAN] BY <1>0, <2>1 DEF Typed
  <2>5. CASE changed[Top(t).on]
    <3>1. GoTo(t, "lock") /\ "lock" \in Places BY <2>1, <2>5 DEF Places
    <3>2. Typed' BY <1>0, <1>g, <2>1, <2>4, <3>1 DEF Typed, lockVars
    <3>3. HeldByCalls' /\ OneCallEach' /\ OuterForeign' /\ AskedInOrder'
      <4>1. WritesOf(g("lock")) = {} /\ ReadsOf(g("lock")) = {}
        BY <1>g, <2>1, <3>1 DEF WritesOf, ReadsOf, HasWrite, HasRead
      <4>2. InOrder(t, Top(t)) BY <1>0, <1>b, <2>1 DEF AskedInOrder
      <4>3. InOrder(t, g("lock")) BY <1>g, <3>1, <4>2 DEF InOrder
      <4>4. /\ Moved(t, g("lock")) /\ g("lock") \in Frames
            /\ g("lock").at = "lock" /\ g("lock").call = "poll"
        BY <1>g, <2>1, <3>1
      <4>5. UNCHANGED <<order, lockVars>> BY <2>1
      <4> QED BY <1>b, <2>2, <4>1, <4>3, <4>4, <4>5, QuietMove
    <3>4. HalfSwapped' BY <1>g, <1>h, <2>1, <3>1
    <3>5. LatestNotLost'
      <4>1. PendingOf(g("lock"), Top(t).on)
        BY <1>g, <2>1, <3>1 DEF PendingOf, WillRead
      <4>2. \A m \in Mutables \ {Top(t).on} : changed'[m] = changed[m]
        BY <1>0, <2>1 DEF Typed
      <4> QED
        BY <1>0, <1>b, <1>g, <2>1, <2>3, <3>1, <4>1, <4>2, MoveTells,
           LatestByPending
    <3> QED BY <3>2, <3>3, <3>4, <3>5 DEF IInv, TypeOK
  <2>6. CASE ~changed[Top(t).on]
    <3>1. Return(t) BY <2>1, <2>6
    <3>2. \A m \in Mutables : changed[m] => changed'[m]
      BY <1>0, <2>1, <2>6 DEF Typed
    <3> QED
      BY <1>0, <1>10, <2>1, <2>2, <2>3, <2>4, <3>1, <3>2 DEF Typed, lockVars
  <2> QED BY <2>5, <2>6
<1> QED
  BY <1>1, <1>2, <1>3, <1>4, <1>5, <1>6, <1>7, <1>8, <1>9, <1>11, <1>12,
     <1>13, <1>14
  DEF GoOn

LEMMA IInvStep == IInv /\ [Next]_vars => IInv'
<1> SUFFICES ASSUME IInv, [Next]_vars PROVE IInv' OBVIOUS
<1>1. CASE Next
  <2>1. PICK t \in Threads :
           GoOn(t) \/ \E c \in Calls, m, n \in Mutables : Call(t, c, m, n)
    BY <1>1 DEF Next
  <2> QED BY <2>1, GoOnStep, CallStep
<1>2. CASE UNCHANGED vars
  <2>1. UNCHANGED <<order, owner, readers, stack, value, changed, seen, written,
                    calls>>
    BY <1>2 DEF vars, lockVars, dataVars
  <2>2. Typed' /\ HeldByCalls'
    BY <2>1 DEF IInv, TypeOK, Typed, HeldByCalls
  <2>3. OneCallEach' /\ OuterForeign'
    BY <2>1 DEF IInv, OneCallEach, OuterForeign
  <2>4. AskedInOrder' /\ HalfSwapped'
    BY <2>1 DEF IInv, AskedInOrder, HalfSwapped, Busy, Top, In, InOrder, Holds
  <2>5. LatestNotLost' BY <2>1 DEF IInv, LatestNotLost
  <2> QED BY <2>2, <2>3, <2>4, <2>5 DEF IInv, TypeOK
<1> QED BY <1>1, <1>2

\* The strengthened invariant holds in every run.
THEOREM InductiveInvariant == Spec => []IInv
BY IInvInit, IInvStep, PTL DEF Spec

\* Every variable keeps its type; each lock is held by exactly the calls that
\* took it and did not release it, and a writer is alone.
THEOREM TypeCorrect == Spec => []TypeOK
<1>1. IInv => TypeOK BY DEF IInv
<1> QED BY <1>1, InductiveInvariant, PTL

\* No signal misses a swap or a write, however calls nest and overlap.
THEOREM LatestCorrect == Spec => []LatestNotLost
<1>1. IInv => LatestNotLost BY DEF IInv
<1> QED BY <1>1, InductiveInvariant, PTL

-----------------------------------------------------------------------------
(* No deadlock.                                                            *)

\* Every non-empty set of numbers has a smallest one.
LEMMA Smallest ==
    ASSUME NEW S \in SUBSET Nat, S # {}
    PROVE  \E n \in S : \A k \in S : n <= k
<1> DEFINE R == {p \in Nat \X Nat : p[1] < p[2]}
<1>1. IsWellFoundedOn(R, Nat) BY NatLessThanWellFounded DEF OpToRel
<1> HIDE DEF R
<1>2. PICK n \in S : \A k \in S : ~(<<k, n>> \in R) BY <1>1, WFMin
<1>3. \A k \in S : ~(k < n) BY <1>2 DEF R
<1> QED BY <1>3

\* A thread asks for at most one lock, and one that it holds is before it in
\* the order.
LEMMA WantsInOrder ==
    ASSUME IInv, NEW t \in Threads, NEW m \in Wants(t)
    PROVE  /\ m \in Mutables /\ Wants(t) = {m}
           /\ \A n \in Mutables :
                 owner[n] = t \/ t \in readers[n] => <<n, m>> \in order
<1>1. Busy(t) BY DEF Wants
<1>2. Top(t) \in Frames BY <1>1, TopIsLast DEF IInv, TypeOK
<1>3. Top(t).on \in Mutables /\ Top(t).other \in Mutables BY <1>2 DEF Frames
<1>4. CASE Top(t).at = "lock"
  <2>1. InOrder(t, Top(t)) BY <1>1, <1>4 DEF IInv, AskedInOrder
  <2> QED BY <1>1, <1>3, <1>4, <2>1 DEF Wants, InOrder, Holds
<1>5. CASE Top(t).at = "other"
  <2>1. \A n \in Holds(t) : <<n, Top(t).other>> \in order
    BY <1>1, <1>5 DEF IInv, AskedInOrder
  <2> QED BY <1>1, <1>3, <1>5, <2>1 DEF Wants, Holds
<1> QED BY <1>1, <1>4, <1>5 DEF Wants

\* In a program that asks for locks in one order no set of threads waits for
\* itself: the nested calls and the second lock of swap included.
THEOREM NoDeadlockHolds == Spec => []NoDeadlock
<1>1. IInv => NoDeadlock
  <2> SUFFICES ASSUME IInv, NEW W \in SUBSET Threads, Deadlocked(W), Ordered
               PROVE  FALSE
    BY DEF NoDeadlock
  <2>1. PICK rank \in [Mutables -> 1..Cardinality(Mutables)] :
           \A m, n \in Mutables : <<m, n>> \in order => rank[m] > rank[n]
    BY DEF Ordered, Acyclic
  <2>2. \A m \in Mutables : rank[m] \in Nat
    BY <2>1, MutablesAssumption, FS_CardinalityType
  <2> DEFINE S == {rank[m] : m \in {n \in Mutables : \E t \in W : n \in Wants(t)}}
  <2>3. \A t \in W : \E m \in Mutables : m \in Wants(t)
    BY WantsInOrder DEF Deadlocked, WaitsFor
  <2>4. S \in SUBSET Nat /\ S # {} BY <2>2, <2>3 DEF Deadlocked
  <2>5. PICK k \in S : \A l \in S : k <= l
    <3> HIDE DEF S
    <3> QED BY <2>4, Smallest
  <2>6. PICK t \in W, m \in Mutables : m \in Wants(t) /\ rank[m] = k
    BY <2>5
  <2>7. ASSUME NEW u \in W, owner[m] = u \/ u \in readers[m] PROVE FALSE
    <3>1. PICK n \in Mutables : n \in Wants(u) BY <2>3
    <3>2. <<m, n>> \in order BY <2>7, <3>1, WantsInOrder
    <3>3. rank[n] \in S /\ rank[m] > rank[n] BY <2>1, <3>1, <3>2
    <3> QED BY <2>2, <2>5, <2>6, <3>3
  <2>8. PICK u \in W : WaitsFor(t, u) BY <2>6 DEF Deadlocked
  <2>9. Wants(t) = {m} BY <2>6, WantsInOrder
  <2>10. m \in Wants(u) /\ Writing(u) BY <2>7, <2>8, <2>9 DEF WaitsFor
  <2>11. Wants(u) = {m} BY <2>10, WantsInOrder
  <2>12. PICK v \in W : WaitsFor(u, v) BY <2>10 DEF Deadlocked
  <2>13. owner[m] = v \/ v \in readers[m]
    BY <2>10, <2>11, <2>12 DEF WaitsFor
  <2> QED BY <2>7, <2>13
<1> QED BY <1>1, InductiveInvariant, PTL

-----------------------------------------------------------------------------
(* Refinement: the second half of mem::swap is the Swap of the cells, the  *)
(* store of a value their Write, the read of a poll their Emit.            *)

\* A swap that is half done is alone on its Mutables.
LEMMA HalfAlone ==
    ASSUME TypeOK, NEW m \in Mutables, NEW t \in HalfOn(m)
    PROVE  HalfOn(m) = {t} /\ owner[m] = t /\ Top(t).on = m
BY HalfOwns DEF HalfOn

\* The content of one cell.
LEMMA ContentOf ==
    ASSUME NEW m \in Mutables
    PROVE  /\ HalfOn(m) = {} => Content[m] = value[m]
           /\ \A t : HalfOn(m) = {t} => Content[m] = Top(t).kept
           /\ HalfOn(m)' = {} => Content'[m] = value'[m]
           /\ \A t : HalfOn(m)' = {t} => Content'[m] = Top(t)'.kept
<1>1. Content[m] = IF HalfOn(m) = {} THEN value[m]
                   ELSE Top(CHOOSE t \in HalfOn(m) : TRUE).kept
  BY DEF Content
<1>2. Content'[m] = (IF HalfOn(m) = {} THEN value[m]
                     ELSE Top(CHOOSE t \in HalfOn(m) : TRUE).kept)'
  BY DEF Content
<1>3. \A t : (CHOOSE u \in {t} : TRUE) = t OBVIOUS
<1>4. ASSUME NEW t, HalfOn(m)' = {t} PROVE Content'[m] = Top(t)'.kept
  BY <1>2, <1>3, <1>4 DEF Top
<1>5. ASSUME NEW t, HalfOn(m) = {t} PROVE Content[m] = Top(t).kept
  BY <1>1, <1>3, <1>5
<1> QED BY <1>1, <1>2, <1>4, <1>5

\* Where the swaps that are half done stay and the value too, so does the
\* content.
LEMMA SameContent ==
    ASSUME TypeOK, NEW m \in Mutables, HalfOn(m)' = HalfOn(m),
           value'[m] = value[m],
           \A t \in HalfOn(m) : Top(t)' = Top(t)
    PROVE  Content'[m] = Content[m]
<1>1. CASE HalfOn(m) = {} BY <1>1, ContentOf
<1>2. CASE HalfOn(m) # {}
  <2>1. PICK t \in HalfOn(m) : TRUE BY <1>2
  <2>2. HalfOn(m) = {t} BY HalfAlone
  <2> QED BY <2>2, ContentOf
<1> QED BY <1>1, <1>2

\* A step of t, whose innermost call is not half a swap after it.
LEMMA HalfAfter ==
    ASSUME NEW t \in Threads, \A u \in Threads \ {t} : stack'[u] = stack[u],
           NEW m \in Mutables
    PROVE  /\ \A u \in Threads \ {t} :
                 /\ u \in HalfOn(m)' <=> u \in HalfOn(m)
                 /\ Top(u)' = Top(u)
           /\ t \in HalfOn(m)' <=> In(t, {"swap"}, "half")' /\ Top(t)'.on = m
BY DEF HalfOn, In, Busy, Top

LEMMA CellInit == Init => Cells!Init
<1> SUFFICES ASSUME Init PROVE Cells!Init OBVIOUS
<1>1. \A m \in Mutables : HalfOn(m) = {} BY DEF Init, HalfOn, In, Busy
<1>2. \A m \in Mutables : Content[m] \in Nat
  BY <1>1, ContentOf, MutablesAssumption DEF Init
<1>3. Content \in [Mutables -> Nat] BY <1>2 DEF Content
<1> QED BY <1>3 DEF Init, Cells!Init

LEMMA CellStep == IInv /\ [Next]_vars => [Cells!Next]_Cells!vars
<1> SUFFICES ASSUME IInv, [Next]_vars PROVE [Cells!Next]_Cells!vars
  OBVIOUS
<1>0. Typed /\ TypeOK /\ HeldByCalls /\ OuterForeign /\ OneCallEach /\ HalfSwapped
  BY DEF IInv, TypeOK
<1>e. /\ Content = [m \in Mutables |-> Content[m]]
      /\ Content' = [m \in Mutables |-> Content'[m]]
  BY DEF Content
<1>s. ASSUME \A m \in Mutables : Content'[m] = Content[m], seen' = seen
      PROVE  UNCHANGED Cells!vars
  BY <1>e, <1>s DEF Cells!vars
<1>1. CASE UNCHANGED vars
  <2>1. /\ UNCHANGED <<stack, value, seen>>
        /\ \A m \in Mutables : HalfOn(m)' = HalfOn(m)
        /\ \A t : Top(t)' = Top(t)
    BY <1>1 DEF vars, dataVars, HalfOn, In, Busy, Top
  <2> QED BY <1>0, <1>s, <2>1, SameContent
<1>2. ASSUME NEW t \in Threads, NEW c \in Calls, NEW m \in Mutables,
             NEW n \in Mutables, Call(t, c, m, n)
      PROVE  UNCHANGED Cells!vars
  <2> DEFINE f == [call |-> c, on |-> m, other |-> n, kept |-> 0,
                   at |-> IF c = "poll" THEN "flag" ELSE "lock"]
  <2>1. /\ stack' = [stack EXCEPT ![t] = Append(@, f)]
        /\ Busy(t) => Foreign(t)
        /\ UNCHANGED <<value, seen>>
    BY <1>2 DEF Call, dataVars
  <2>2. f \in Frames /\ f.at # "half" BY DEF Frames, Places
  <2> HIDE DEF f
  <2>3. /\ \A u \in Threads \ {t} : stack'[u] = stack[u]
        /\ stack'[t][Len(stack'[t])] = f
    BY <1>0, <2>1, <2>2, CallPushes, ZenonT(60)
  <2>4. ASSUME NEW x \in Mutables PROVE t \notin HalfOn(x) /\ t \notin HalfOn(x)'
    BY <2>1, <2>2, <2>3 DEF HalfOn, In, Foreign, Top
  <2>5. ASSUME NEW x \in Mutables PROVE Content'[x] = Content[x]
    <3>1. HalfOn(x)' = HalfOn(x)
      BY <2>3, <2>4, HalfAfter DEF HalfOn
    <3>2. \A u \in HalfOn(x) : Top(u)' = Top(u)
      BY <2>3, <2>4, HalfAfter DEF HalfOn
    <3> QED BY <1>0, <2>1, <3>1, <3>2, SameContent
  <2> QED BY <1>s, <2>1, <2>5
<1>3. ASSUME NEW t \in Threads, GoOn(t) PROVE [Cells!Next]_Cells!vars
  <2> DEFINE g(at) == [Top(t) EXCEPT !.at = at]
  <2>b. Busy(t)
    BY <1>3 DEF GoOn, WriteLock, OtherLock, ReadLock, ReadEnd, Write, Notify,
        WriteEnd, SwapFirst, SwapSecond, NotifyOther, UnlockOther, SwapEnd,
        PollFlag, In
  <2>t. Top(t) \in Frames BY <1>0, <2>b, TopIsLast
  <2>f. PICK x \in Mutables, y \in Mutables :
            /\ Top(t) \in Frames /\ Top(t).on = x /\ Top(t).other = y
            /\ Top(t).kept \in Nat
    BY <2>t DEF Frames
  <2>o. \A m \in WritesOf(Top(t)) : owner[m] = t
    BY <1>0, <2>b, TopHolds DEF WritesOf
  <2>d. Top(t).call = "swap" /\ Top(t).at \notin {"lock", "other"} => x # y
    BY <1>0, <2>b, <2>f, TopIsLast DEF OneCallEach
  \* Afterwards t is not in the middle of a swap.
  <2>g. ASSUME \/ \E at \in Places \ {"half"} : GoTo(t, at)
               \/ Return(t)
        PROVE  /\ \A u \in Threads \ {t} : stack'[u] = stack[u]
               /\ \A m \in Mutables : HalfOn(m)' = HalfOn(m) \ {t}
               /\ \A m \in Mutables : \A u \in HalfOn(m) \ {t} : Top(u)' = Top(u)
    <3>1. CASE Return(t)
      <4>1. Popped(t) BY <1>0, <2>b, <3>1, ReturnPops
      <4>2. Busy(t)' => Top(t)'.at # "half"
        BY <1>0, <2>b, <4>1, TopAfterPop
      <4>3. \A u \in Threads \ {t} : stack'[u] = stack[u]
        BY <4>1 DEF Popped, OthersKept
      <4>4. ASSUME NEW m \in Mutables
            PROVE  /\ HalfOn(m)' = HalfOn(m) \ {t}
                   /\ \A u \in HalfOn(m) \ {t} : Top(u)' = Top(u)
        BY <4>2, <4>3, HalfAfter DEF HalfOn, In
      <4> QED BY <4>3, <4>4
    <3>2. ASSUME NEW at \in Places \ {"half"}, GoTo(t, at)
          PROVE  /\ \A u \in Threads \ {t} : stack'[u] = stack[u]
                 /\ \A m \in Mutables : HalfOn(m)' = HalfOn(m) \ {t}
                 /\ \A m \in Mutables :
                       \A u \in HalfOn(m) \ {t} : Top(u)' = Top(u)
      <4>1. Moved(t, g(at)) /\ g(at) \in Frames
        BY <1>0, <2>b, <3>2, GoToMoves
      <4>2. Top(t)' = g(at) BY <1>0, <2>b, <4>1, TopAfterMove
      <4>3. g(at).at # "half" BY <2>f, <3>2 DEF Frames
      <4>4. \A u \in Threads \ {t} : stack'[u] = stack[u]
        BY <4>1 DEF Moved, OthersKept
      <4>5. ASSUME NEW m \in Mutables
            PROVE  /\ HalfOn(m)' = HalfOn(m) \ {t}
                   /\ \A u \in HalfOn(m) \ {t} : Top(u)' = Top(u)
        <5>1. ~In(t, {"swap"}, "half")' BY <4>2, <4>3 DEF In
        <5>2. t \notin HalfOn(m)' BY <5>1 DEF HalfOn
        <5> QED BY <4>4, <5>2, HalfAfter DEF HalfOn
      <4> QED BY <4>4, <4>5
    <3> QED BY <2>g, <3>1, <3>2
  \* Steps that are not part of mem::swap.
  <2>h. ASSUME Top(t).at # "half",
               \/ \E at \in Places \ {"half"} : GoTo(t, at)
               \/ Return(t),
               NEW m \in Mutables
        PROVE  /\ HalfOn(m)' = HalfOn(m)
               /\ value'[m] = value[m] => Content'[m] = Content[m]
    <3>1. t \notin HalfOn(m) BY <2>h DEF HalfOn, In
    <3>2. /\ HalfOn(m)' = HalfOn(m)
          /\ \A u \in HalfOn(m) : Top(u)' = Top(u)
      BY <2>g, <2>h, <3>1
    <3> QED BY <1>0, <3>2, SameContent
  <2>1. CASE WriteLock(t) \/ OtherLock(t) \/ ReadEnd(t) \/ Notify(t)
             \/ WriteEnd(t) \/ NotifyOther(t) \/ UnlockOther(t) \/ SwapEnd(t)
             \/ PollFlag(t)
    <3>1. /\ Top(t).at # "half" /\ UNCHANGED <<value, seen>>
          /\ (\E at \in Places \ {"half"} : GoTo(t, at)) \/ Return(t)
      BY <2>1 DEF WriteLock, OtherLock, ReadEnd, Notify, WriteEnd, NotifyOther,
          UnlockOther, SwapEnd, PollFlag, In, dataVars, Places
    <3> QED BY <1>s, <2>h, <3>1
  <2>2. CASE ReadLock(t)
    <3>1. /\ Top(t).at = "lock" /\ GoTo(t, "inside") /\ value' = value
          /\ owner[x] = NoOne
          /\ seen' = IF Top(t).call = "poll"
                        THEN [seen EXCEPT ![x] = value[x]] ELSE seen
      BY <2>2, <2>f DEF ReadLock, In
    <3>2. "inside" \in Places \ {"half"} BY DEF Places
    <3>3. \A m \in Mutables : Content'[m] = Content[m] BY <2>h, <3>1, <3>2
    <3>4. HalfOn(x) = {}
      BY <1>0, <2>f, <3>1, HalfAlone, ThreadsAssumption DEF HalfOn
    <3>5. Content[x] = value[x] BY <2>f, <3>4, ContentOf
    <3>6. CASE Top(t).call = "poll"
      <4>1. Content' = Content BY <1>e, <3>3
      <4>2. Cells!Emit(x) BY <3>1, <3>5, <3>6, <4>1 DEF Cells!Emit
      <4> QED BY <2>f, <4>2 DEF Cells!Next
    <3>7. CASE Top(t).call # "poll" BY <1>s, <3>1, <3>3, <3>7
    <3> QED BY <3>6, <3>7
  <2>3. CASE Write(t)
    <3>1. /\ Top(t).call = "write" /\ Top(t).at = "inside" /\ GoTo(t, "dirty")
          /\ value' = [value EXCEPT ![x] = Cardinality(Mutables) + written + 1]
          /\ seen' = seen
      BY <2>3, <2>f DEF Write, In
    <3>2. "dirty" \in Places \ {"half"} BY DEF Places
    <3>3. \A m \in Mutables \ {x} : Content'[m] = Content[m]
      BY <1>0, <2>f, <2>h, <3>1, <3>2 DEF Typed
    <3>4. HalfOn(x)' = {}
      <4>1. owner[x] = t BY <2>f, <2>o, <3>1 DEF WritesOf, HasWrite
      <4>2. t \notin HalfOn(x) BY <3>1 DEF HalfOn, In
      <4>3. HalfOn(x) = {} BY <1>0, <2>f, <4>1, <4>2, HalfAlone
      <4>4. HalfOn(x)' = HalfOn(x) BY <2>f, <2>h, <3>1, <3>2
      <4> QED BY <4>3, <4>4
    <3>5. value'[x] \in Nat
      <4>1. Cardinality(Mutables) \in Nat
        BY MutablesAssumption, FS_CardinalityType
      <4>2. Cardinality(Mutables) + written + 1 \in Nat
        BY <1>0, <4>1 DEF Typed
      <4> QED BY <1>0, <2>f, <3>1, <4>2 DEF Typed
    <3>6. Content'[x] \in Nat BY <2>f, <3>4, <3>5, ContentOf
    <3>7. Cells!Write(x) BY <3>1, <3>3, <3>6 DEF Cells!Write
    <3> QED BY <2>f, <3>7 DEF Cells!Next
  <2>4. CASE SwapFirst(t)
    <3> DEFINE h == [Top(t) EXCEPT !.at = "half", !.kept = value[x]]
    <3>1. /\ Top(t).call = "swap" /\ Top(t).at = "inside" /\ seen' = seen
          /\ value' = [value EXCEPT ![x] = value[y]]
          /\ stack' = [stack EXCEPT ![t] = [@ EXCEPT ![Len(stack[t])] = h]]
      BY <2>4, <2>f DEF SwapFirst, In, Top
    <3>2. /\ h \in Frames /\ h.at = "half" /\ h.call = "swap" /\ h.on = x
          /\ h.kept = value[x]
      BY <1>0, <2>f, <3>1 DEF Frames, Places, Typed
    <3> HIDE DEF h
    <3>3. Moved(t, h) BY <1>0, <2>b, <3>1, <3>2, CallMoves
    <3>4. Busy(t)' /\ Top(t)' = h BY <1>0, <2>b, <3>2, <3>3, TopAfterMove
    <3>5. \A u \in Threads \ {t} : stack'[u] = stack[u]
      BY <3>3 DEF Moved, OthersKept
    <3>6. HalfOn(x) = {}
      <4>1. owner[x] = t BY <2>f, <2>o, <3>1 DEF WritesOf, HasWrite
      <4>2. t \notin HalfOn(x) BY <3>1 DEF HalfOn, In
      <4> QED BY <1>0, <2>f, <4>1, <4>2, HalfAlone
    <3>7. Content'[x] = Content[x]
      <4>1. HalfOn(x)' = {t}
        BY <2>f, <3>2, <3>4, <3>5, <3>6, HalfAfter DEF HalfOn, In
      <4> QED BY <2>f, <3>2, <3>4, <3>6, <4>1, ContentOf
    <3>8. ASSUME NEW m \in Mutables \ {x} PROVE Content'[m] = Content[m]
      <4>1. t \notin HalfOn(m) /\ t \notin HalfOn(m)'
        BY <3>1, <3>2, <3>4 DEF HalfOn, In
      <4>2. /\ HalfOn(m)' = HalfOn(m)
            /\ \A u \in HalfOn(m) : Top(u)' = Top(u)
        BY <3>5, <4>1, HalfAfter DEF HalfOn
      <4>3. value'[m] = value[m] BY <1>0, <3>1 DEF Typed
      <4> QED BY <1>0, <4>2, <4>3, SameContent
    <3> QED BY <1>s, <3>1, <3>7, <3>8
  <2>5. CASE SwapSecond(t)
    <3>1. /\ Top(t).call = "swap" /\ Top(t).at = "half" /\ GoTo(t, "dirty")
          /\ value' = [value EXCEPT ![y] = Top(t).kept] /\ seen' = seen
          /\ t \in HalfOn(x)
      BY <2>5, <2>f DEF SwapSecond, In, HalfOn
    <3>2. "dirty" \in Places \ {"half"} /\ x # y BY <2>d, <3>1 DEF Places
    <3>3. /\ HalfOn(x) = {t} /\ HalfOn(y) = {}
      <4>1. owner[y] = t BY <2>f, <2>o, <3>1 DEF WritesOf, HasWrite
      <4>2. t \notin HalfOn(y) BY <2>f, <3>2 DEF HalfOn
      <4> QED BY <1>0, <2>f, <3>1, <4>1, <4>2, HalfAlone
    <3>4. \A m \in Mutables : HalfOn(m)' = HalfOn(m) \ {t} BY <2>g, <3>1, <3>2
    <3>5. Content[x] = Top(t).kept /\ Content[y] = value[y]
      BY <2>f, <3>3, ContentOf
    <3>6. Content'[x] = Content[y]
      <4>1. value[x] = value[y] BY <1>0, <2>f, <3>1 DEF HalfSwapped, HalfOn
      <4>2. value'[x] = value[x] BY <1>0, <2>f, <3>1, <3>2 DEF Typed
      <4> QED BY <2>f, <3>3, <3>4, <3>5, <4>1, <4>2, ContentOf
    <3>7. Content'[y] = Content[x]
      <4>1. value'[y] = Top(t).kept BY <1>0, <2>f, <3>1 DEF Typed
      <4> QED BY <2>f, <3>3, <3>4, <3>5, <4>1, ContentOf
    <3>8. ASSUME NEW m \in Mutables \ {x, y} PROVE Content'[m] = Content[m]
      <4>1. t \notin HalfOn(m) BY <2>f DEF HalfOn
      <4>2. /\ HalfOn(m)' = HalfOn(m)
            /\ \A u \in HalfOn(m) : Top(u)' = Top(u)
        BY <2>g, <3>1, <3>2, <4>1
      <4>3. value'[m] = value[m] BY <1>0, <3>1 DEF Typed
      <4> QED BY <1>0, <4>2, <4>3, SameContent
    <3>9. Content' = [Content EXCEPT ![x] = Content[y], ![y] = Content[x]]
      BY <1>e, <2>f, <3>2, <3>6, <3>7, <3>8
    <3>10. Cells!Swap(x, y) BY <3>1, <3>9 DEF Cells!Swap
    <3> QED BY <2>f, <3>10 DEF Cells!Next
  <2> QED BY <1>3, <2>1, <2>2, <2>3, <2>4, <2>5 DEF GoOn
<1> QED BY <1>1, <1>2, <1>3 DEF Next

\* Several Mutables implement the cells: a swap is one step for every reader,
\* and no write falls into it.
THEOREM Refinement == Spec => RefinesCells
BY CellInit, CellStep, InductiveInvariant, PTL DEF Spec, RefinesCells, Cells!Spec
=============================================================================
