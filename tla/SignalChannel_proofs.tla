------------------------ MODULE SignalChannel_proofs ------------------------
(***************************************************************************)
(* Proofs about SignalChannel, for any finite set of senders, any number   *)
(* of sends and any word that is large enough to count the senders.        *)
(***************************************************************************)
EXTENDS SignalChannel, FiniteSetTheorems, TLAPS

-----------------------------------------------------------------------------
(* Counting.                                                               *)

\* Every set of Senders has a natural number of elements, at most all of them.
LEMMA SendersCountable ==
    ASSUME NEW S \in SUBSET Senders
    PROVE  /\ IsFiniteSet(S)
           /\ Cardinality(S) \in 0..Cardinality(Senders)
           /\ Cardinality(Senders) \in Nat
BY SendersAssumption, FS_Subset, FS_CardinalityType

\* A Sender enters or leaves a set.
LEMMA OneMore ==
    ASSUME NEW S \in SUBSET Senders, NEW i \in Senders \ S
    PROVE  Cardinality(S \cup {i}) = Cardinality(S) + 1
BY SendersCountable, FS_AddElement

LEMMA OneLess ==
    ASSUME NEW S \in SUBSET Senders, NEW i \in S
    PROVE  /\ Cardinality(S \ {i}) = Cardinality(S) - 1
           /\ Cardinality(S) > 0
<1>1. IsFiniteSet(S) /\ Cardinality(S) \in Nat BY SendersCountable
<1>2. Cardinality(S) # 0 BY <1>1, FS_EmptySet
<1>3. i \in S => Cardinality(S \ {i}) = Cardinality(S) - 1
  BY <1>1, FS_RemoveElement
<1> QED BY <1>1, <1>2, <1>3

\* The wrapping arithmetic of usize is that of numbers, where the model uses it.
LEMMA Wrap ==
    ASSUME NEW n \in Nat
    PROVE  /\ n + 1 < UsizeModulus => (n + 1) % UsizeModulus = n + 1
           /\ n > 0 /\ n < UsizeModulus =>
                 (n + UsizeModulus - 1) % UsizeModulus = n - 1
           /\ (n + 1) % UsizeModulus \in 0..(UsizeModulus - 1)
           /\ (n + UsizeModulus - 1) % UsizeModulus \in 0..(UsizeModulus - 1)
<1>1. UsizeModulus \in Nat \ {0} BY ModulusAssumption, SendersCountable
<1>2. ASSUME n + 1 < UsizeModulus PROVE (n + 1) % UsizeModulus = n + 1
  BY <1>1, <1>2
<1>3. ASSUME n > 0, n < UsizeModulus
      PROVE  (n + UsizeModulus - 1) % UsizeModulus = n - 1
  BY <1>1, <1>3
<1>4. \A m \in Nat : m % UsizeModulus \in 0..(UsizeModulus - 1) BY <1>1
<1>5. n + 1 \in Nat /\ n + UsizeModulus - 1 \in Nat BY <1>1
<1> QED BY <1>2, <1>3, <1>4, <1>5

-----------------------------------------------------------------------------
(* The inductive invariant.                                                *)

LEMMA IInvInit == Init => IInv
<1> SUFFICES ASSUME Init PROVE IInv OBVIOUS
<1>1. PICK i \in Senders :
          call = [j \in Senders |-> IF j = i THEN "idle" ELSE "none"]
  BY DEF Init
<1>2. Counted = {i} /\ Created = {i} /\ Relying = {}
  BY <1>1 DEF Counted, Created, Relying, Gone
<1>3. Cardinality({i}) = 1 /\ Cardinality({}) = 0
  BY FS_Singleton, FS_EmptySet
<1>4. TypeOK
  <2>1. Cardinality(Senders) >= 1
    BY <1>2, <1>3, SendersCountable DEF Created
  <2>2. Cardinality(Senders) \in Nat BY SendersCountable
  <2>3. call \in [Senders -> Calls] BY <1>1 DEF Calls, Gone
  <2>4. /\ mode \in Modes /\ value = 1 /\ waker = FALSE /\ senders = 1
        /\ sent = 1 /\ closed = FALSE /\ overtaken = {} /\ receiver = "idle" /\ woken = TRUE
        /\ seen = 0
    BY DEF Init
  <2>5. value \in 0..sent /\ seen \in 0..sent /\ sent \in Nat BY <2>4
  <2>6. senders \in 0..(UsizeModulus - 1) /\ senders <= Cardinality(Senders)
    BY <2>1, <2>2, <2>4, ModulusAssumption
  <2>7. /\ waker \in BOOLEAN /\ closed \in BOOLEAN /\ woken \in BOOLEAN
        /\ receiver \in ReceiverSteps
    BY <2>4 DEF ReceiverSteps
  <2> QED BY <2>3, <2>4, <2>5, <2>6, <2>7 DEF TypeOK
<1>5. OneCall BY <1>1, <1>2 DEF OneCall, Busy, Gone, Init
<1> QED
  BY <1>2, <1>3, <1>4, <1>5
  DEF Init, IInv, SendersCounted, HoldsLatest, CountedBelow, ClosedForGood

\* Until a close there is a count where a call relies on the channel, or the Arc
\* is there and a handle is counted.
LEMMA NotZero ==
    ASSUME IInv, ~closed, NEW i \in Senders, i \in Counted,
           i \in Relying \/ Alive
    PROVE  senders > 0
<1>1. Alive BY DEF Alive, Relying, Busy, Gone
<1>2. senders = Cardinality(Counted) BY <1>1 DEF IInv, SendersCounted
<1>3. Cardinality(Counted) > 0 BY OneLess DEF Counted
<1> QED BY <1>2, <1>3

\* When the Arc is gone, no Weak can be upgraded any more.
LEMMA StaysGone ==
    ASSUME TypeOK, [Next]_<<mode, vars>>, Alive'
    PROVE  Alive
<1> SUFFICES ASSUME receiver = "dropped", \A i \in Senders : ~Busy(i)
             PROVE  FALSE
  BY DEF Alive
<1>1. ASSUME NEW i \in Senders, NEW step \in {"send", "close", "drop"},
             NEW otherwise \in {"idle", "dropped"}, Start(i, step, otherwise)
      PROVE  FALSE
  BY <1>1 DEF Start, Open, Alive, Goto, Busy, TypeOK, Gone, receiverVars
<1>2. ASSUME NEW i \in Senders, NEW new \in Senders, Clone(i, new)
      PROVE  FALSE
  BY <1>2 DEF Clone, Open, Alive, Busy, TypeOK, Gone, receiverVars
<1>3. ASSUME NEW i \in Senders, SenderStep(i) PROVE FALSE
  BY <1>3 DEF SenderStep, SendStore, CloseStore, DropSub, Notify, CloneAdd,
              Busy, Gone
<1>4. CASE PollTake \/ PollStep \/ DropReceiver
  BY <1>4 DEF PollTake, PollStep, PollSenders, PollStoreWaker, DropReceiver
<1>5. CASE UNCHANGED vars
  BY <1>5 DEF vars, receiverVars, Alive, Busy
<1> QED
  BY <1>1, <1>2, <1>3, <1>4, <1>5 DEF Next, Step, Send, Close, Drop, vars

\* What a step of one call does to the sets that are counted.
LEMMA CallMoves ==
    ASSUME TypeOK, NEW i \in Senders, NEW step \in Calls, Goto(i, step)
    PROVE  /\ call' \in [Senders -> Calls]
           /\ call'[i] = step
           /\ \A j \in Senders \ {i} : call'[j] = call[j]
           /\ Counted' = IF step \in Gone \cup {"dropNotify"}
                         THEN Counted \ {i} ELSE Counted \cup {i}
           /\ Created' = IF step = "none"
                         THEN Created \ {i} ELSE Created \cup {i}
           /\ Relying' = IF step \in {"send", "close", "clone", "drop"}
                         THEN Relying \cup {i} ELSE Relying \ {i}
BY DEF TypeOK, Goto, Counted, Created, Relying

LEMMA IInvStep == IInv /\ [Next]_<<mode, vars>> => IInv'
<1> SUFFICES ASSUME IInv, [Next]_<<mode, vars>> PROVE IInv' OBVIOUS
<1>0. /\ TypeOK /\ SendersCounted /\ HoldsLatest /\ CountedBelow
      /\ ClosedForGood /\ OneCall
  BY DEF IInv
<1>m. mode' = mode /\ mode \in Modes /\ mode \in {"single", "threads"}
  BY <1>0, ModesAssumption DEF Next, TypeOK, vars
<1>a. Alive' => Alive BY <1>0, StaysGone
<1>c. /\ senders \in Nat /\ senders < UsizeModulus
      /\ Cardinality(Senders) \in Nat
      /\ Cardinality(Senders) < UsizeModulus /\ UsizeModulus \in Nat
      /\ Cardinality(Counted) \in Nat /\ Cardinality(Created) \in Nat
  BY <1>0, SendersCountable, ModulusAssumption DEF TypeOK, Counted, Created
<1>k. ASSUME call' = call, senders' = senders, closed' = closed,
             overtaken' = overtaken,
             \/ receiver' = receiver \/ mode = "threads" \/ MayStart
             \/ receiver \in {"senders", "waker"}
             \/ receiver' \notin {"senders", "waker"}
      PROVE  SendersCounted' /\ CountedBelow' /\ ClosedForGood' /\ OneCall'
  <2>1. Counted' = Counted /\ Created' = Created /\ Relying' = Relying
    BY <1>k DEF Counted, Created, Relying
  <2>2. OneCall'
    BY <1>k, <1>0, <1>m, <2>1 DEF OneCall, MayStart, Busy
  <2> QED
    BY <1>k, <1>0, <1>a, <2>1, <2>2
    DEF SendersCounted, CountedBelow, ClosedForGood, CountKept
\* A call that starts relies on the channel from now on.
<1>1. ASSUME NEW i \in Senders, Send(i) \/ Close(i) \/ Drop(i) PROVE IInv'
  <2>1. PICK step \in {"send", "close", "drop"},
             otherwise \in {"idle", "dropped"} :
            /\ Start(i, step, otherwise)
            /\ otherwise = IF step = "drop" THEN "dropped" ELSE "idle"
    BY <1>1 DEF Send, Close, Drop
  <2> DEFINE next == IF Open THEN step ELSE otherwise
  <2>2. /\ MayStart /\ call[i] = "idle" /\ Goto(i, next) /\ next \in Calls
        /\ UNCHANGED <<value, waker, senders, sent, closed, overtaken,
                       receiver, woken, seen>>
    BY <2>1 DEF Start, Calls, Gone, receiverVars, history
  <2>3. i \in Counted /\ i \in Created /\ i \notin Relying
    BY <2>2 DEF Counted, Created, Relying, Gone
  <2>4. CASE Open
    <3>1. /\ call' \in [Senders -> Calls]
          /\ call'[i] = step
          /\ \A j \in Senders \ {i} : call'[j] = call[j]
          /\ Counted' = Counted /\ Created' = Created
      <4>1. Goto(i, step) /\ step \in Calls BY <2>2, <2>4
      <4>2. step \notin Gone \cup {"dropNotify", "none"} BY DEF Gone
      <4> QED BY <1>0, <4>1, <4>2, <2>3, CallMoves, SMTT(30)
    <3>2. ~(closed /\ CountKept)
      BY <2>4, <1>0 DEF SendersCounted, Open
    <3>3. OneCall'
      BY <2>1, <2>2, <3>1, <3>2, <1>0, <1>m
      DEF OneCall, MayStart, Busy, Gone, CountKept
    <3>4. SendersCounted' /\ CountedBelow' /\ ClosedForGood'
      BY <2>2, <3>1, <3>2, <1>0, <1>a
      DEF SendersCounted, CountedBelow, ClosedForGood, CountKept
    <3> QED
      BY <2>2, <3>1, <3>3, <3>4, <1>0, <1>m
      DEF IInv, TypeOK, CountKept, HoldsLatest
  <2>5. CASE ~Open
    <3>1. /\ call' \in [Senders -> Calls]
          /\ call'[i] = otherwise
          /\ \A j \in Senders \ {i} : call'[j] = call[j]
          /\ Created' = Created /\ Relying' = Relying
      BY <1>0, <2>1, <2>2, <2>3, <2>5, CallMoves DEF Gone
    <3>2. SendersCounted'
      <4>1. ~(Alive /\ ~closed) BY <2>3, <2>5, <1>c, NotZero DEF Open
      <4> QED BY <2>2, <4>1, <1>0, <1>a DEF SendersCounted, CountKept
    <3>3. OneCall'
      BY <2>1, <2>2, <3>1, <1>0, <1>m DEF OneCall, MayStart, Busy, Gone
    <3>4. ClosedForGood'
      BY <2>2, <2>3, <3>1, <1>0 DEF ClosedForGood, CountKept, Relying
    <3> QED
      BY <2>2, <3>1, <3>2, <3>3, <3>4, <1>0, <1>m
      DEF IInv, TypeOK, CountKept, HoldsLatest, CountedBelow
  <2> QED BY <2>4, <2>5
<1>2. ASSUME NEW i \in Senders, SendStore(i) PROVE IInv'
  <2>1. /\ call[i] = "send" /\ Goto(i, "notify") /\ "notify" \in Calls
        /\ sent' = sent + 1 /\ value' = sent + 1
        /\ UNCHANGED <<waker, senders, closed, overtaken,
                       receiver, woken, seen>>
    BY <1>2 DEF SendStore, Calls, receiverVars, history
  <2>2. i \in Counted /\ i \in Created /\ i \in Relying
    BY <2>1 DEF Counted, Created, Relying, Gone
  <2>3. /\ call' \in [Senders -> Calls]
        /\ call'[i] = "notify"
        /\ \A j \in Senders \ {i} : call'[j] = call[j]
        /\ Counted' = Counted /\ Created' = Created
        /\ Relying' = Relying \ {i}
    BY <1>0, <2>1, <2>2, CallMoves DEF Gone
  <2>4. ClosedForGood'
    BY <2>1, <2>3, <1>0 DEF ClosedForGood, CountKept, Relying
  <2>5. OneCall' BY <2>1, <2>3, <1>0, <1>m DEF OneCall, Busy, Gone
  <2> QED
    BY <2>1, <2>3, <2>4, <2>5, <1>0, <1>m, <1>a
    DEF IInv, TypeOK, CountKept, SendersCounted, HoldsLatest, CountedBelow
\* Who still relies on the channel after a close is overtaken by it.
<1>3. ASSUME NEW i \in Senders, CloseStore(i) PROVE IInv'
  <2>1. /\ call[i] = "close" /\ Goto(i, "notify") /\ "notify" \in Calls
        /\ senders' = 0 /\ closed' = TRUE
        /\ overtaken' = overtaken \cup Pending(i)
        /\ UNCHANGED <<value, waker, sent, receiver, woken, seen>>
    BY <1>3 DEF CloseStore, Calls, receiverVars
  <2>2. i \in Counted /\ i \in Created /\ i \in Relying
    BY <2>1 DEF Counted, Created, Relying, Gone
  <2>3. /\ call' \in [Senders -> Calls]
        /\ call'[i] = "notify"
        /\ \A j \in Senders \ {i} : call'[j] = call[j]
        /\ Created' = Created /\ Relying' = Relying \ {i}
    BY <1>0, <2>1, <2>2, CallMoves DEF Gone
  <2>4. ClosedForGood'
    BY <2>1, <2>3 DEF ClosedForGood, Pending, Relying
  <2>5. OneCall'
    <3> SUFFICES ASSUME mode = "single" PROVE OneCall'
      BY <1>m DEF OneCall
    <3>1. \A j \in Senders \ {i} : ~Busy(j)
      BY <2>1, <1>0 DEF OneCall, Busy, Gone
    <3>2. Pending(i) = {} BY <3>1 DEF Pending, Busy, Gone
    <3>3. Relying' = {} BY <2>3, <3>1 DEF Relying, Busy, Gone
    <3> QED BY <2>1, <2>3, <3>2, <3>3, <1>0 DEF OneCall, Busy, Gone
  <2>6. SendersCounted' /\ CountedBelow'
    BY <2>1, <2>3, <1>c DEF SendersCounted, CountedBelow
  <2>7. /\ senders' \in 0..(UsizeModulus - 1)
        /\ senders' <= Cardinality(Senders)
        /\ overtaken' \subseteq {"send", "clone", "drop"}
    <3>1. Pending(i) \subseteq {"send", "clone", "drop"} BY DEF Pending
    <3>2. overtaken \subseteq {"send", "clone", "drop"} BY <1>0 DEF TypeOK
    <3>3. overtaken' \subseteq {"send", "clone", "drop"} BY <2>1, <3>1, <3>2
    <3> QED BY <2>1, <3>3, <1>c
  <2>8. TypeOK'
    <3>1. mode' \in Modes /\ value' \in 0..sent' /\ seen' \in 0..sent'
      BY <2>1, <1>0, <1>m DEF TypeOK
    <3>2. /\ sent' \in Nat /\ waker' \in BOOLEAN /\ closed' \in BOOLEAN
          /\ woken' \in BOOLEAN /\ receiver' \in ReceiverSteps
      BY <2>1, <1>0 DEF TypeOK
    <3> QED BY <2>3, <2>7, <3>1, <3>2 DEF TypeOK
  <2> QED
    BY <2>1, <2>4, <2>5, <2>6, <2>8, <1>0 DEF IInv, HoldsLatest
<1>4. ASSUME NEW i \in Senders, DropSub(i) PROVE IInv'
  <2> DEFINE next == IF senders = 1 THEN "dropNotify" ELSE "dropped"
  <2>1. /\ call[i] = "drop" /\ Goto(i, next) /\ next \in Calls
        /\ senders' = (senders + UsizeModulus - 1) % UsizeModulus
        /\ UNCHANGED <<value, waker, sent, closed, overtaken,
                       receiver, woken, seen>>
    BY <1>4 DEF DropSub, Calls, Gone, receiverVars, history
  <2>2. i \in Counted /\ i \in Created /\ i \in Relying
    BY <2>1 DEF Counted, Created, Relying, Gone
  <2>3. /\ call' \in [Senders -> Calls]
        /\ call'[i] = next
        /\ \A j \in Senders \ {i} : call'[j] = call[j]
        /\ Counted' = Counted \ {i} /\ Created' = Created
        /\ Relying' = Relying \ {i}
    <3>1. /\ next \in Gone \cup {"dropNotify"} /\ next # "none"
          /\ next \notin {"send", "close", "clone", "drop"}
      BY DEF Gone
    <3> HIDE DEF next
    <3>2. /\ call' \in [Senders -> Calls]
          /\ call'[i] = next
          /\ \A j \in Senders \ {i} : call'[j] = call[j]
          /\ Counted' = Counted \ {i} /\ Created' = Created \cup {i}
          /\ Relying' = Relying \ {i}
      BY <1>0, <2>1, <3>1, CallMoves
    <3> QED BY <2>2, <3>2
  <2>4. senders' \in 0..(UsizeModulus - 1) BY <2>1, <1>c, Wrap
  <2>5. CountKept' => ~closed /\ CountKept /\ senders' = senders - 1
    <3> SUFFICES ASSUME CountKept
                 PROVE  ~closed /\ senders' = senders - 1
      BY <2>1 DEF CountKept
    <3>1. ~closed BY <2>1, <2>2, <1>0 DEF ClosedForGood, CountKept
    <3>2. senders > 0 BY <2>2, <3>1, NotZero
    <3> QED BY <2>1, <3>1, <3>2, <1>c, Wrap
  <2>6. SendersCounted'
    <3>1. Cardinality(Counted') = Cardinality(Counted) - 1
      BY <2>2, <2>3, OneLess DEF Counted
    <3>2. ~closed => CountKept BY <1>0 DEF ClosedForGood, CountKept
    <3> QED
      BY <2>1, <2>5, <3>1, <3>2, <1>0, <1>a, <1>c
      DEF SendersCounted, CountKept
  <2>7. OneCall' BY <2>1, <2>3, <1>0, <1>m DEF OneCall, Busy, Gone
  <2>8. ClosedForGood'
    BY <2>1, <2>3, <1>0 DEF ClosedForGood, CountKept, Relying
  <2>9. CountedBelow' /\ (CountKept' => senders' <= Cardinality(Senders))
    BY <2>3, <2>5, <1>0, <1>c DEF CountedBelow, TypeOK
  <2> QED
    BY <2>1, <2>3, <2>4, <2>6, <2>7, <2>8, <2>9, <1>0, <1>m
    DEF IInv, TypeOK, HoldsLatest
<1>5. ASSUME NEW i \in Senders, Notify(i) PROVE IInv'
  <2> DEFINE next == IF call[i] = "notify" THEN "idle" ELSE "dropped"
  <2>1. /\ call[i] \in {"notify", "dropNotify"} /\ Goto(i, next)
        /\ next \in Calls /\ waker' = FALSE /\ woken' \in BOOLEAN
        /\ UNCHANGED <<value, senders, sent, closed, overtaken,
                       receiver, seen>>
    BY <1>5, <1>0 DEF Notify, Calls, Gone, TypeOK, history
  <2>2. /\ call' \in [Senders -> Calls]
        /\ call'[i] = next
        /\ \A j \in Senders \ {i} : call'[j] = call[j]
        /\ Counted' = Counted /\ Created' = Created /\ Relying' = Relying
        /\ i \notin Relying
    <3>1. /\ call[i] = "notify" => i \in Counted
          /\ call[i] = "dropNotify" => i \notin Counted
          /\ i \in Created /\ i \notin Relying
      BY <2>1 DEF Counted, Created, Relying, Gone
    <3> QED BY <1>0, <2>1, <3>1, CallMoves, SMTT(30) DEF Gone
  <2>3. OneCall' BY <2>1, <2>2, <1>0, <1>m DEF OneCall, Busy, Gone
  <2>4. ClosedForGood'
    BY <2>1, <2>2, <1>0 DEF ClosedForGood, CountKept, Relying
  <2> QED
    BY <2>1, <2>2, <2>3, <2>4, <1>0, <1>m, <1>a
    DEF IInv, TypeOK, CountKept, SendersCounted, HoldsLatest, CountedBelow
<1>6. ASSUME NEW i \in Senders, NEW new \in Senders, Clone(i, new) PROVE IInv'
  <2>1. /\ MayStart /\ call[i] = "idle" /\ call[new] = "none"
        /\ UNCHANGED <<value, waker, senders, sent, closed, overtaken,
                       receiver, woken, seen>>
    BY <1>6 DEF Clone, receiverVars, history
  <2>2. /\ i \in Counted /\ i \in Created /\ i \notin Relying
        /\ new \notin Counted /\ new \notin Created /\ new \notin Relying
    BY <2>1 DEF Counted, Created, Relying, Gone
  <2>3. CASE Open
    <3>1. Goto(i, "clone") BY <1>6, <2>3 DEF Clone, Goto
    <3>2. /\ call' \in [Senders -> Calls]
          /\ call'[i] = "clone"
          /\ \A j \in Senders \ {i} : call'[j] = call[j]
          /\ Counted' = Counted /\ Created' = Created
      BY <1>0, <2>2, <3>1, CallMoves DEF Gone, Calls
    <3>3. ~(closed /\ CountKept)
      BY <2>3, <1>0 DEF SendersCounted, Open
    <3>4. OneCall'
      BY <2>1, <3>2, <3>3, <1>0, <1>m
      DEF OneCall, MayStart, Busy, Gone, CountKept
    <3>5. SendersCounted' /\ CountedBelow' /\ ClosedForGood'
      BY <2>1, <3>2, <3>3, <1>0, <1>a
      DEF SendersCounted, CountedBelow, ClosedForGood, CountKept
    <3> QED
      BY <2>1, <3>2, <3>4, <3>5, <1>0, <1>m
      DEF IInv, TypeOK, CountKept, HoldsLatest
  <2>4. CASE ~Open
    <3>1. Goto(new, "idle") BY <1>6, <2>4 DEF Clone, Goto
    <3>2. /\ call' \in [Senders -> Calls]
          /\ call'[new] = "idle"
          /\ \A j \in Senders \ {new} : call'[j] = call[j]
          /\ Created' = Created \cup {new} /\ Relying' = Relying
      BY <1>0, <2>2, <3>1, CallMoves DEF Gone, Calls
    <3>3. SendersCounted'
      <4>1. ~(Alive /\ ~closed) BY <2>2, <2>4, <1>c, NotZero DEF Open
      <4> QED BY <2>1, <4>1, <1>0, <1>a DEF SendersCounted, CountKept
    <3>4. CountedBelow'
      <4>1. Cardinality(Created') = Cardinality(Created) + 1
        BY <2>2, <3>2, OneMore DEF Created
      <4> QED BY <2>1, <4>1, <1>0, <1>c DEF CountedBelow, CountKept
    <3>5. OneCall'
      BY <2>1, <3>2, <1>0, <1>m DEF OneCall, MayStart, Busy, Gone
    <3>6. ClosedForGood'
      BY <2>1, <2>2, <3>2, <1>0 DEF ClosedForGood, CountKept, Relying
    <3> QED
      BY <2>1, <3>2, <3>3, <3>4, <3>5, <3>6, <1>0, <1>m
      DEF IInv, TypeOK, CountKept, HoldsLatest
  <2> QED BY <2>3, <2>4
<1>7. ASSUME NEW i \in Senders, NEW new \in Senders, CloneAdd(i, new)
      PROVE  IInv'
  <2>1. /\ call[i] = "clone" /\ call[new] = "none" /\ i # new
        /\ senders' = (senders + 1) % UsizeModulus
        /\ call' = [call EXCEPT ![i] = "idle", ![new] = "idle"]
        /\ UNCHANGED <<value, waker, sent, closed, overtaken,
                       receiver, woken, seen>>
    BY <1>7 DEF CloneAdd, receiverVars, history
  <2>2. /\ i \in Counted /\ i \in Created /\ i \in Relying
        /\ new \notin Counted /\ new \notin Created /\ new \notin Relying
    BY <2>1 DEF Counted, Created, Relying, Gone
  <2>3. /\ call' \in [Senders -> Calls]
        /\ call'[i] = "idle" /\ call'[new] = "idle"
        /\ \A j \in Senders \ {i, new} : call'[j] = call[j]
    BY <1>0, <2>1 DEF TypeOK, Calls
  <2>4. /\ Counted' = Counted \cup {new} /\ Created' = Created \cup {new}
        /\ Relying' = Relying \ {i}
    BY <2>2, <2>3 DEF Counted, Created, Relying, Gone
  <2>5. /\ Cardinality(Counted') = Cardinality(Counted) + 1
        /\ Cardinality(Created') = Cardinality(Created) + 1
        /\ Cardinality(Created') <= Cardinality(Senders)
    BY <2>2, <2>4, OneMore, SendersCountable DEF Counted, Created
  <2>6. senders' \in 0..(UsizeModulus - 1) BY <2>1, <1>c, Wrap
  <2>7. CountKept' => ~closed /\ CountKept /\ senders' = senders + 1
    <3> SUFFICES ASSUME CountKept
                 PROVE  ~closed /\ senders' = senders + 1
      BY <2>1 DEF CountKept
    <3>1. ~closed BY <2>1, <2>2, <1>0 DEF ClosedForGood, CountKept
    <3>2. senders + 1 < UsizeModulus
      BY <2>5, <1>0, <1>c DEF CountedBelow
    <3> QED BY <2>1, <3>1, <3>2, <1>c, Wrap
  <2>8. SendersCounted'
    <3>1. ~closed => CountKept BY <1>0 DEF ClosedForGood, CountKept
    <3> QED
      BY <2>1, <2>5, <2>7, <3>1, <1>0, <1>a, <1>c
      DEF SendersCounted, CountKept
  <2>9. OneCall' BY <2>1, <2>3, <2>4, <1>0, <1>m DEF OneCall, Busy, Gone
  <2>10. ClosedForGood'
    BY <2>1, <2>2, <2>3, <2>4, <1>0 DEF ClosedForGood, CountKept, Relying
  <2>11. CountedBelow' /\ (CountKept' => senders' <= Cardinality(Senders))
    BY <2>5, <2>7, <1>0, <1>c DEF CountedBelow
  <2> QED
    BY <2>1, <2>3, <2>6, <2>8, <2>9, <2>10, <2>11, <1>0, <1>m
    DEF IInv, TypeOK, HoldsLatest
\* The Receiver's steps leave the count and the calls alone.
<1>8. CASE PollTake
  <2>1. /\ call' = call /\ senders' = senders /\ closed' = closed
        /\ overtaken' = overtaken /\ MayStart
    BY <1>8 DEF PollTake, history
  <2>2. /\ value' = 0 /\ woken' \in BOOLEAN /\ waker' = waker /\ sent' = sent
        /\ seen' \in {seen, value} /\ receiver' \in {receiver, "senders"}
    BY <1>8 DEF PollTake
  <2>3. TypeOK' /\ HoldsLatest'
    BY <2>1, <2>2, <1>0, <1>m
    DEF TypeOK, CountKept, HoldsLatest, ReceiverSteps
  <2> QED BY <2>1, <2>3, <1>k DEF IInv
<1>9. CASE PollSenders
  <2>1. /\ call' = call /\ senders' = senders /\ closed' = closed
        /\ overtaken' = overtaken /\ receiver = "senders"
    BY <1>9 DEF PollSenders, history
  <2>2. TypeOK' /\ HoldsLatest'
    BY <1>9, <2>1, <1>0, <1>m
    DEF PollSenders, TypeOK, CountKept, HoldsLatest, ReceiverSteps
  <2> QED BY <2>1, <2>2, <1>k DEF IInv
<1>10. CASE PollStoreWaker
  <2>1. /\ call' = call /\ senders' = senders /\ closed' = closed
        /\ overtaken' = overtaken /\ receiver = "waker" /\ receiver' = "idle"
    BY <1>10 DEF PollStoreWaker, history
  <2>2. TypeOK' /\ HoldsLatest'
    BY <1>10, <2>1, <1>0, <1>m
    DEF PollStoreWaker, TypeOK, CountKept, HoldsLatest, ReceiverSteps
  <2> QED BY <2>1, <2>2, <1>k DEF IInv
<1>11. CASE DropReceiver
  <2>1. /\ call' = call /\ senders' = senders /\ closed' = closed
        /\ overtaken' = overtaken /\ receiver' = "dropped"
    BY <1>11 DEF DropReceiver, history
  <2>2. TypeOK' /\ HoldsLatest'
    BY <1>11, <2>1, <1>0, <1>m
    DEF DropReceiver, TypeOK, CountKept, HoldsLatest, ReceiverSteps
  <2> QED BY <2>1, <2>2, <1>k DEF IInv
<1>12. CASE UNCHANGED vars
  BY <1>12, <1>0, <1>m, <1>k
  DEF vars, receiverVars, history, IInv, TypeOK, CountKept, HoldsLatest
<1> QED
  BY <1>1, <1>2, <1>3, <1>4, <1>5, <1>6, <1>7, <1>8, <1>9, <1>10, <1>11, <1>12
  DEF Next, Step, SenderStep, PollStep

\* The strengthened invariant holds in every run.
THEOREM InductiveInvariant == Spec => []IInv
BY IInvInit, IInvStep, PTL DEF Spec

\* Every variable keeps its type; unless a close overtakes a clone or drop, the
\* count of senders never goes below zero, which would wrap it around, and never
\* above the number of Senders.
THEOREM TypeCorrect == Spec => []TypeOK
<1>1. IInv => TypeOK BY DEF IInv
<1> QED BY <1>1, InductiveInvariant, PTL

\* Until a close, senders is the number of Senders that were not dropped,
\* whatever clones and drops overlap; after a close it is 0 for good, unless the
\* close overtook a clone or drop.
THEOREM SendersCorrect == Spec => []SendersCounted
<1>1. IInv => SendersCounted BY DEF IInv
<1> QED BY <1>1, InductiveInvariant, PTL

-----------------------------------------------------------------------------
(* Refinement: value.store is the Write of the cell, the step that takes   *)
(* the count to zero its Close, value.take its Emit.  A close that         *)
(* overtakes calls is Overtake, what those do LateWrite and Reopen.        *)

LEMMA CellInit == Init => Cell!ClosableInit
<1> SUFFICES ASSUME Init PROVE Cell!ClosableInit OBVIOUS
<1>1. sent = 1 /\ seen = 0 /\ overtaken = {} BY DEF Init
<1>2. (senders = 0) = FALSE BY DEF Init
<1>3. (receiver = "done") = FALSE BY DEF Init
<1> QED BY <1>1, <1>2, <1>3, Zenon DEF Cell!ClosableInit, Cell!Init

\* A clone or drop may change the count.  It is 0 before only if a close overtook
\* calls that count, and 0 after it is a Close.
LEMMA CellCount ==
    ASSUME IInv, NEW i \in Relying, call[i] \in {"clone", "drop"},
           senders' \in Nat,
           UNCHANGED <<sent, overtaken, receiver, seen>>
    PROVE  [Cell!ClosableNext]_<<Cell!vars, overtaken>>
<1>1. CASE (senders = 0) = (senders' = 0)
  BY <1>1 DEF Cell!vars
<1>2. CASE senders # 0 /\ senders' = 0
  <2>1. Cell!Close BY <1>2 DEF Cell!Close
  <2> QED BY <2>1 DEF Cell!ClosableNext, Cell!Next
<1>3. CASE senders = 0 /\ senders' # 0
  <2>1. i \in Senders /\ i \in Counted BY DEF Relying, Counted, Gone
  <2>2. closed BY <2>1, <1>3, NotZero
  <2>3. overtaken \cap {"clone", "drop"} # {}
    <3>1. ~CountKept \/ call[i] \in overtaken
      BY <2>2 DEF IInv, ClosedForGood
    <3> QED BY <3>1 DEF IInv, TypeOK, CountKept
  <2>4. (senders = 0) /\ (senders' = 0) = FALSE BY <1>3
  <2>5. Cell!Reopen BY <2>3, <2>4 DEF Cell!Reopen
  <2> QED BY <2>5 DEF Cell!ClosableNext
<1> QED BY <1>1, <1>2, <1>3

LEMMA CellStep ==
    IInv /\ [Next]_<<mode, vars>> =>
        [Cell!ClosableNext]_<<Cell!vars, overtaken>>
<1> SUFFICES ASSUME IInv, [Next]_<<mode, vars>>
             PROVE  [Cell!ClosableNext]_<<Cell!vars, overtaken>>
  OBVIOUS
<1>0. TypeOK /\ HoldsLatest BY DEF IInv
<1>c. senders \in Nat /\ sent \in Nat /\ UsizeModulus \in Nat
  BY <1>0, ModulusAssumption DEF TypeOK
<1>s. ASSUME senders' = senders, sent' = sent, seen' = seen,
             overtaken' = overtaken,
             (receiver' = "done") = (receiver = "done")
      PROVE  UNCHANGED <<Cell!vars, overtaken>>
  BY <1>s DEF Cell!vars
<1>1. ASSUME NEW i \in Senders, Send(i) \/ Close(i) \/ Drop(i)
      PROVE  UNCHANGED <<Cell!vars, overtaken>>
  BY <1>1, <1>s DEF Send, Close, Drop, Start, receiverVars, history
<1>2. ASSUME NEW i \in Senders, SendStore(i) PROVE Cell!ClosableNext
  <2>1. /\ call[i] = "send" /\ sent' > sent
        /\ UNCHANGED <<senders, closed, overtaken, receiver, seen>>
    BY <1>2, <1>c DEF SendStore, receiverVars, history
  <2>2. i \in Relying /\ i \in Counted
    BY <2>1 DEF Relying, Counted, Gone
  <2>3. senders # 0 \/ overtaken # {}
    <3>1. ~closed => senders > 0 BY <2>2, NotZero
    <3>2. closed => ~CountKept \/ "send" \in overtaken
      BY <2>1, <2>2 DEF IInv, ClosedForGood
    <3> QED BY <3>1, <3>2, <1>c DEF CountKept
  <2>4. CASE senders # 0
    <3>1. Cell!Write BY <2>1, <2>4 DEF Cell!Write
    <3> QED BY <2>1, <3>1 DEF Cell!ClosableNext, Cell!Next
  <2>5. CASE overtaken # {}
    <3>1. Cell!LateWrite BY <2>1, <2>5 DEF Cell!LateWrite
    <3> QED BY <3>1 DEF Cell!ClosableNext
  <2> QED BY <2>3, <2>4, <2>5
<1>3. ASSUME NEW i \in Senders, CloseStore(i)
      PROVE  [Cell!ClosableNext]_<<Cell!vars, overtaken>>
  <2>1. /\ senders' = 0 /\ overtaken \subseteq overtaken'
        /\ UNCHANGED <<sent, receiver, seen>>
    BY <1>3 DEF CloseStore, receiverVars
  <2>2. CASE overtaken' # {}
    <3>1. Cell!Overtake BY <2>1, <2>2 DEF Cell!Overtake
    <3> QED BY <3>1 DEF Cell!ClosableNext
  <2>3. CASE overtaken' = {} /\ senders # 0
    <3>1. Cell!Close /\ overtaken' = overtaken
      BY <2>1, <2>3 DEF Cell!Close
    <3> QED BY <3>1 DEF Cell!ClosableNext, Cell!Next
  <2>4. CASE overtaken' = {} /\ senders = 0 BY <2>1, <2>4, <1>s
  <2> QED BY <2>2, <2>3, <2>4
<1>4. ASSUME NEW i \in Senders, DropSub(i)
      PROVE  [Cell!ClosableNext]_<<Cell!vars, overtaken>>
  <2>1. /\ i \in Relying /\ call[i] = "drop"
        /\ senders' = (senders + UsizeModulus - 1) % UsizeModulus
        /\ UNCHANGED <<sent, overtaken, receiver, seen>>
    BY <1>4 DEF DropSub, Relying, receiverVars, history
  <2>2. senders' \in Nat BY <2>1, <1>c, Wrap
  <2> QED BY <2>1, <2>2, CellCount
<1>5. ASSUME NEW i \in Senders, Notify(i)
      PROVE  UNCHANGED <<Cell!vars, overtaken>>
  BY <1>5, <1>s DEF Notify, history
<1>6. ASSUME NEW i \in Senders, NEW new \in Senders, Clone(i, new)
      PROVE  UNCHANGED <<Cell!vars, overtaken>>
  BY <1>6, <1>s DEF Clone, receiverVars, history
<1>7. ASSUME NEW i \in Senders, NEW new \in Senders, CloneAdd(i, new)
      PROVE  [Cell!ClosableNext]_<<Cell!vars, overtaken>>
  <2>1. /\ i \in Relying /\ call[i] = "clone"
        /\ senders' = (senders + 1) % UsizeModulus
        /\ UNCHANGED <<sent, overtaken, receiver, seen>>
    BY <1>7 DEF CloneAdd, Relying, receiverVars, history
  <2>2. senders' \in Nat BY <2>1, <1>c, Wrap
  <2> QED BY <2>1, <2>2, CellCount
<1>8. CASE PollTake
  <2>1. /\ sent' = sent /\ senders' = senders /\ receiver # "done"
        /\ receiver' # "done" /\ overtaken' = overtaken
    BY <1>8 DEF PollTake, history
  <2>2. CASE value # 0
    <3>1. seen' = sent BY <1>8, <2>2, <1>0 DEF PollTake, HoldsLatest
    <3>2. Cell!Emit("receiver") BY <2>1, <3>1 DEF Cell!Emit
    <3> QED BY <2>1, <3>2 DEF Cell!ClosableNext, Cell!Next
  <2>3. CASE value = 0
    <3>1. seen' = seen BY <1>8, <2>3 DEF PollTake
    <3> QED BY <2>1, <3>1, <1>s
  <2> QED BY <2>2, <2>3
<1>9. CASE PollSenders
  <2>1. /\ sent' = sent /\ senders' = senders /\ seen' = seen
        /\ overtaken' = overtaken /\ receiver = "senders"
        /\ receiver' = IF senders # 0 THEN "waker" ELSE "done"
    BY <1>9 DEF PollSenders, history
  <2>2. CASE senders = 0
    <3>1. Cell!End("receiver") BY <2>1, <2>2 DEF Cell!End
    <3> QED BY <2>1, <3>1 DEF Cell!ClosableNext, Cell!Next
  <2>3. CASE senders # 0 BY <2>1, <2>3, <1>s
  <2> QED BY <2>2, <2>3
<1>10. CASE PollStoreWaker
  BY <1>10, <1>s DEF PollStoreWaker, history
<1>11. CASE DropReceiver
  BY <1>11, <1>s DEF DropReceiver, history
<1>12. CASE UNCHANGED vars
  BY <1>12, <1>s DEF vars, receiverVars, history
<1> QED
  BY <1>1, <1>2, <1>3, <1>4, <1>5, <1>6, <1>7, <1>8, <1>9, <1>10, <1>11, <1>12
  DEF Next, Step, SenderStep, PollStep

\* The channel implements the abstract cell: versions are received in order and
\* none after the end, the end comes while the count is 0, and unless a close
\* overtakes a call nothing is stored after it and the count stays 0.
THEOREM Refinement == Spec => RefinesCell
BY CellInit, CellStep, InductiveInvariant, PTL
DEF Spec, RefinesCell, Cell!ClosableSpec

-----------------------------------------------------------------------------
(* One thread.                                                             *)

LEMMA SingleInvInit == Init => SingleInv
BY DEF Init, SingleInv, AsleepUpToDate, PollFacts

LEMMA SingleInvStep ==
    IInv /\ SingleInv /\ IInv' /\ [Next]_<<mode, vars>> => SingleInv'
<1> SUFFICES ASSUME IInv, SingleInv, IInv', [Next]_<<mode, vars>>,
                    mode = "single"
             PROVE  SingleInv'
  BY DEF SingleInv, AsleepUpToDate, PollFacts, Next, vars
<1>m. mode' = "single" BY DEF Next, vars
<1>0. /\ TypeOK /\ TypeOK' /\ HoldsLatest /\ OneCall
      /\ AsleepUpToDate /\ PollFacts
  BY DEF IInv, SingleInv
<1>c. senders \in Nat /\ sent \in Nat BY <1>0, SendersCountable DEF TypeOK
<1>r. ASSUME NEW i \in Senders, i \in Relying
      PROVE  /\ senders # 0 /\ receiver \in {"idle", "dropped"}
  <2>1. ~closed /\ i \in Counted
    BY <1>r, <1>0, <1>m DEF OneCall, Relying, Counted, Gone
  <2>2. senders > 0 BY <1>r, <2>1, NotZero
  <2> QED
    BY <1>r, <1>0, <1>m, <1>c, <2>2
    DEF OneCall, Busy, Gone, Relying, PollFacts, TypeOK, ReceiverSteps
<1> USE <1>m DEF SingleInv
<1>1. ASSUME NEW i \in Senders, Send(i) \/ Close(i) \/ Drop(i)
      PROVE  SingleInv'
  <2>1. /\ UNCHANGED <<value, waker, senders, sent, receiver, woken, seen>>
        /\ \A j \in Senders : call[j] \in Gone \cup {"idle"}
    BY <1>1 DEF Send, Close, Drop, Start, MayStart, receiverVars
  <2>2. ~Notifying BY <2>1 DEF Notifying, Gone
  <2> QED BY <2>1, <2>2, <1>0 DEF AsleepUpToDate, PollFacts
<1>2. ASSUME NEW i \in Senders, SendStore(i) PROVE SingleInv'
  <2>1. /\ i \in Relying /\ value' = sent + 1 /\ sent' = sent + 1
        /\ UNCHANGED <<waker, senders, receiver, woken, seen>>
    BY <1>2 DEF SendStore, Relying, receiverVars
  <2>2. Notifying' BY <1>2, <1>0 DEF SendStore, Goto, Notifying, TypeOK
  <2> QED BY <2>1, <2>2, <1>0, <1>r, <1>c DEF AsleepUpToDate, PollFacts
<1>3. ASSUME NEW i \in Senders, CloseStore(i) PROVE SingleInv'
  <2>1. /\ i \in Relying
        /\ UNCHANGED <<value, waker, sent, receiver, woken, seen>>
    BY <1>3 DEF CloseStore, Relying, receiverVars
  <2>2. Notifying' BY <1>3, <1>0 DEF CloseStore, Goto, Notifying, TypeOK
  <2> QED BY <2>1, <2>2, <1>0, <1>r DEF AsleepUpToDate, PollFacts
<1>4. ASSUME NEW i \in Senders, DropSub(i) PROVE SingleInv'
  <2>1. /\ i \in Relying
        /\ UNCHANGED <<value, waker, sent, receiver, woken, seen>>
    BY <1>4 DEF DropSub, Relying, receiverVars
  <2>2. senders' = 0 => Notifying'
    <3>1. senders > 0 /\ senders < UsizeModulus
      BY <2>1, <1>0, <1>c, <1>r, ModulusAssumption DEF TypeOK
    <3>2. senders' = senders - 1 BY <1>4, <3>1, <1>c, Wrap DEF DropSub
    <3>3. senders' = 0 => senders = 1 BY <3>2, <1>c
    <3> QED BY <1>4, <3>3, <1>0 DEF DropSub, Goto, Notifying, TypeOK
  <2>3. ~Notifying
    BY <2>1, <1>0, <1>m DEF OneCall, Busy, Gone, Notifying, Relying
  <2> QED BY <2>1, <2>2, <2>3, <1>0, <1>r DEF AsleepUpToDate, PollFacts
<1>5. ASSUME NEW i \in Senders, Notify(i) PROVE SingleInv'
  <2>1. /\ woken' = (woken \/ waker)
        /\ UNCHANGED <<value, senders, sent, receiver, seen>>
    BY <1>5 DEF Notify
  <2>2. receiver = "idle" => woken'
    BY <2>1, <1>0, <1>m DEF AsleepUpToDate
  <2> QED BY <2>1, <2>2, <1>0 DEF AsleepUpToDate, PollFacts
<1>6. ASSUME NEW i \in Senders, NEW new \in Senders, Clone(i, new)
      PROVE  SingleInv'
  <2>1. /\ UNCHANGED <<value, waker, senders, sent, receiver, woken, seen>>
        /\ \A j \in Senders : call[j] \in Gone \cup {"idle"}
    BY <1>6 DEF Clone, MayStart, receiverVars
  <2>2. ~Notifying BY <2>1 DEF Notifying, Gone
  <2> QED BY <2>1, <2>2, <1>0 DEF AsleepUpToDate, PollFacts
<1>7. ASSUME NEW i \in Senders, NEW new \in Senders, CloneAdd(i, new)
      PROVE  SingleInv'
  <2>1. /\ i \in Relying
        /\ UNCHANGED <<value, waker, sent, receiver, woken, seen>>
    BY <1>7 DEF CloneAdd, Relying, receiverVars
  <2>2. ~Notifying
    BY <2>1, <1>0, <1>m DEF OneCall, Busy, Gone, Notifying, Relying
  <2>3. receiver = "idle" /\ ~woken => value' = 0 /\ senders # 0
    BY <2>1, <2>2, <1>0, <1>m DEF AsleepUpToDate
  <2>4. senders' # 0
    <3>1. senders' = (senders + 1) % UsizeModulus /\ call[new] = "none"
      BY <1>7 DEF CloneAdd
    <3>2. Created \in SUBSET Senders /\ Created # Senders
      BY <3>1 DEF Created
    <3>3. /\ Cardinality(Created) < Cardinality(Senders)
          /\ Cardinality(Created) \in Nat
      BY <3>2, SendersCountable, SendersAssumption, FS_Subset
    <3>4. senders + 1 < UsizeModulus
      BY <3>3, <1>0, <1>m, <1>c, SendersCountable, ModulusAssumption
      DEF IInv, CountedBelow, CountKept, OneCall
    <3> QED BY <3>1, <3>4, <1>c, Wrap
  <2> QED BY <2>1, <2>2, <2>3, <2>4, <1>0, <1>r DEF AsleepUpToDate, PollFacts
<1>8. CASE PollTake
  BY <1>8, <1>0 DEF PollTake, HoldsLatest, AsleepUpToDate, PollFacts
<1>9. CASE PollSenders
  BY <1>9, <1>0 DEF PollSenders, AsleepUpToDate, PollFacts
<1>10. CASE PollStoreWaker
  <2>1. ~Notifying
    BY <1>10, <1>0 DEF PollStoreWaker, OneCall, Busy, Gone, Notifying
  <2> QED
    BY <1>10, <2>1, <1>0 DEF PollStoreWaker, AsleepUpToDate, PollFacts
<1>11. CASE DropReceiver
  BY <1>11, <1>0 DEF DropReceiver, AsleepUpToDate, PollFacts
<1>12. CASE UNCHANGED vars
  BY <1>12, <1>0
  DEF vars, receiverVars, AsleepUpToDate, PollFacts, Notifying
<1> QED
  BY <1>1, <1>2, <1>3, <1>4, <1>5, <1>6, <1>7, <1>8, <1>9, <1>10, <1>11, <1>12
  DEF Next, Step, SenderStep, PollStep

LEMMA SingleInvariant == Spec => []SingleInv
BY SingleInvInit, SingleInvStep, InductiveInvariant, PTL DEF Spec

\* On one thread a sleeping receiver has its waker in the channel and nothing
\* to take, or a call that is under way will wake it.
THEOREM SingleNoLostWakeup == Spec => []AsleepUpToDate
<1>1. SingleInv => AsleepUpToDate BY DEF SingleInv
<1> QED BY <1>1, SingleInvariant, PTL

\* On one thread a receiver that ended has received the last value sent.
THEOREM SingleEndsWithLatest ==
    Spec => [](mode = "single" /\ receiver = "done" => seen = sent)
<1>1. SingleInv => (mode = "single" /\ receiver = "done" => seen = sent)
  BY DEF SingleInv, PollFacts
<1> QED BY <1>1, SingleInvariant, PTL
=============================================================================
