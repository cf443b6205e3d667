------------------------ MODULE MutableSignal_proofs ------------------------
(***************************************************************************)
(* Proofs about MutableSignal, for any number of handles, signals and      *)
(* versions, and for both modes of scheduling unless a theorem says so.    *)
(***************************************************************************)
EXTENDS MutableSignal, FiniteSetTheorems, TLAPS

-----------------------------------------------------------------------------
(* Type correctness.                                                       *)

\* Every step keeps the types.  The senders count never goes below zero: that
\* is what the count of live handles is for, so it is proved along.
LEMMA LiveHandlesFinite ==
    IsFiniteSet({h \in Handles : handle[h] = "live"})
BY HandlesAssumption, FS_Subset

\* A live handle is counted.
LEMMA LiveHandleCounted ==
    ASSUME SendersCountsHandles, NEW h \in Handles, handle[h] = "live"
    PROVE  senders \in Nat \ {0}
<1> DEFINE Live == {g \in Handles : handle[g] = "live"}
<1>1. IsFiniteSet(Live) BY LiveHandlesFinite
<1>2. h \in Live OBVIOUS
<1>3. Cardinality(Live) \in Nat BY <1>1, FS_CardinalityType
<1>4. Cardinality(Live) # 0 BY <1>1, <1>2, FS_EmptySet
<1> QED BY <1>3, <1>4 DEF SendersCountsHandles

\* The part of IInv that concerns types, handles and the lock.  It is one
\* lemma because a fetch_sub stays in Nat only when the handle was counted,
\* and the last drop ends a counted handle only if it still owns the lock.
Base == TypeOK /\ SendersCountsHandles /\ LockOwner

LEMMA BaseInit == Init => Base
<1> SUFFICES ASSUME Init PROVE Base OBVIOUS
<1>1. TypeOK
  BY ModeAssumption
  DEF Init, TypeOK, HandleLife, SignalLife, Phases, PollSteps
<1>2. SendersCountsHandles
  <2>1. PICK h \in Handles :
            handle = [g \in Handles |-> IF g = h THEN "live" ELSE "none"]
    BY DEF Init
  <2>2. {g \in Handles : handle[g] = "live"} = {h} BY <2>1
  <2>3. Cardinality({h}) = 1 BY FS_Singleton
  <2> QED BY <2>2, <2>3 DEF SendersCountsHandles, Init
<1>3. LockOwner BY DEF Init, LockOwner
<1> QED BY <1>1, <1>2, <1>3 DEF Base

LEMMA BaseStep == Base /\ [Next]_<<mode, vars>> => Base'
<1> SUFFICES ASSUME Base, [Next]_<<mode, vars>> PROVE Base' OBVIOUS
<1> DEFINE Live == {g \in Handles : handle[g] = "live"}
<1>0. /\ TypeOK /\ SendersCountsHandles /\ LockOwner
      /\ IsFiniteSet(Live) /\ Cardinality(Live) = senders
  BY LiveHandlesFinite DEF Base, SendersCountsHandles
<1>k. ASSUME senders' = senders, Live' = Live PROVE SendersCountsHandles'
  BY <1>k, <1>0 DEF SendersCountsHandles
<1>m. mode' = mode BY DEF Next
<1> USE <1>0, <1>m, ModeAssumption, NoOneAssumption
    DEF TypeOK, HandleLife, SignalLife, Phases, PollSteps, lockVars,
        signalVars, LockOwner
<1>1. ASSUME NEW h \in Handles, Set(h) PROVE Base'
  BY <1>1, <1>k DEF Set, StartNotify, Base
<1>2. ASSUME NEW h \in Handles, LockMut(h) PROVE Base'
  BY <1>2, <1>k DEF LockMut, Acquire, Base
<1>3. ASSUME NEW h \in Handles, GuardWrite(h) PROVE Base'
  BY <1>3, <1>k DEF GuardWrite, Base
<1>4. ASSUME NEW h \in Handles, GuardDrop(h) PROVE Base'
  BY <1>4, <1>k DEF GuardDrop, StartNotify, Base
<1>5. ASSUME NEW h \in Handles, NotifyEnd(h) PROVE Base'
  BY <1>5, <1>k DEF NotifyEnd, Base
<1>6. ASSUME NEW h \in Handles, NEW new \in Handles, Clone(h, new)
      PROVE  Base'
  <2>1. TypeOK' /\ LockOwner' BY <1>6 DEF Clone
  <2>2. Live' = Live \cup {new} /\ new \notin Live BY <1>6 DEF Clone
  <2>3. Cardinality(Live \cup {new}) = Cardinality(Live) + 1
    <3> HIDE DEF Live
    <3> QED BY <2>2, <1>0, FS_AddElement
  <2>4. senders' = senders + 1 BY <1>6 DEF Clone
  <2> QED BY <2>1, <2>2, <2>3, <2>4 DEF Base, SendersCountsHandles
<1>7. ASSUME NEW h \in Handles, DropHandle(h) PROVE Base'
  <2>1. senders \in Nat \ {0} BY <1>7, LiveHandleCounted DEF DropHandle
  <2>2. TypeOK' /\ LockOwner' BY <1>7, <2>1 DEF DropHandle
  <2>3. Live' = Live \ {h} /\ h \in Live BY <1>7 DEF DropHandle
  <2>4. Cardinality(Live \ {h}) = Cardinality(Live) - 1
    <3> HIDE DEF Live
    <3> QED BY <2>3, <1>0, FS_RemoveElement
  <2>5. senders' = senders - 1 BY <1>7 DEF DropHandle
  <2> QED BY <2>2, <2>3, <2>4, <2>5 DEF Base, SendersCountsHandles
<1>8. ASSUME NEW h \in Handles, DropLock(h) PROVE Base'
  <2>1. TypeOK' /\ LockOwner' BY <1>8 DEF DropLock, StartNotify
  <2>2. Live' = Live /\ senders' = senders BY <1>8 DEF DropLock
  <2> QED BY <2>1, <2>2, <1>k DEF Base
<1>9. ASSUME NEW h \in Handles, DropEnd(h) PROVE Base'
  <2>1. TypeOK' /\ LockOwner' BY <1>9 DEF DropEnd
  <2>2. Live' = Live /\ senders' = senders BY <1>9 DEF DropEnd
  <2> QED BY <2>1, <2>2, <1>k DEF Base
<1>10. ASSUME NEW s \in Signals, CreateSignal(s) PROVE Base'
  BY <1>10, <1>k DEF CreateSignal, Base
<1>11. ASSUME NEW s \in Signals, PushSignal(s) PROVE Base'
  BY <1>11, <1>k DEF PushSignal, Base
<1>12. ASSUME NEW s \in Signals, DropSignal(s) PROVE Base'
  BY <1>12, <1>k DEF DropSignal, Base
<1>13. ASSUME NEW s \in Signals, PollChanged(s) PROVE Base'
  BY <1>13, <1>k DEF PollChanged, Base
<1>14. ASSUME NEW s \in Signals, PollRead(s) PROVE Base'
  BY <1>14, <1>k DEF PollRead, Base
<1>15. ASSUME NEW s \in Signals, PollSenders(s) PROVE Base'
  BY <1>15, <1>k DEF PollSenders, Base
<1>16. ASSUME NEW s \in Signals, PollSetWaker(s) PROVE Base'
  BY <1>16, <1>k DEF PollSetWaker, Base
<1>17. ASSUME NEW s \in Signals, NotifyLive(s) PROVE Base'
  BY <1>17, <1>k DEF NotifyLive, Wake, Base
<1>18. ASSUME NEW s \in Signals, NotifyDead(s) PROVE Base'
  BY <1>18, <1>k DEF NotifyDead, Base
<1>19. CASE UNCHANGED vars
  BY <1>19, <1>k DEF vars, Base
<1> QED
  BY <1>1, <1>2, <1>3, <1>4, <1>5, <1>6, <1>7, <1>8, <1>9, <1>10, <1>11,
     <1>12, <1>13, <1>14, <1>15, <1>16, <1>17, <1>18, <1>19
  DEF Next, Step, HandleStep, SignalStep, NotifyVisit

\* Every variable keeps its type, the senders count included.
THEOREM TypeCorrect == Spec => []TypeOK
<1>1. Base => TypeOK BY DEF Base
<1> QED BY <1>1, BaseInit, BaseStep, PTL DEF Spec

\* senders is the number of live Mutables in every reachable state.
THEOREM SendersCorrect == Spec => []SendersCountsHandles
<1>1. Base => SendersCountsHandles BY DEF Base
<1> QED BY <1>1, BaseInit, BaseStep, PTL DEF Spec

-----------------------------------------------------------------------------
(* The invariant for calls of any number of threads.                       *)

\* What waking one entry does to every signal.
LEMMA WakeEffect ==
    ASSUME TypeOK, NEW s \in Signals, NotifyLive(s)
    PROVE  /\ \A t \in Signals :
                 /\ changed'[t] <=> changed[t] \/ (t = s /\ phase = "notify")
                 /\ woken'[t] <=> woken[t] \/ (t = s /\ waker[s])
                 /\ waker'[t] <=> waker[t] /\ t # s
           /\ sig' = sig /\ pc' = pc /\ seen' = seen /\ done' = done
           /\ value' = value /\ senders' = senders /\ handle' = handle
           /\ signals' = signals /\ phase' = phase
           /\ toNotify' = toNotify \ {s}
<1> DEFINE c == changed[s] \/ phase = "notify"
           w == woken[s] \/ waker[s]
<1>1. /\ changed' = [changed EXCEPT ![s] = c]
      /\ woken' = [woken EXCEPT ![s] = w]
      /\ waker' = [waker EXCEPT ![s] = FALSE]
  BY DEF NotifyLive, Wake
<1>2. c \in BOOLEAN /\ w \in BOOLEAN OBVIOUS
<1>3. \A t \in Signals :
          /\ changed'[t] = IF t = s THEN c ELSE changed[t]
          /\ woken'[t] = IF t = s THEN w ELSE woken[t]
          /\ waker'[t] = IF t = s THEN FALSE ELSE waker[t]
  <2> HIDE DEF c, w
  <2> QED BY <1>1 DEF TypeOK
<1>4. \A t \in Signals :
          /\ changed'[t] <=> changed[t] \/ (t = s /\ phase = "notify")
          /\ woken'[t] <=> woken[t] \/ (t = s /\ waker[s])
          /\ waker'[t] <=> waker[t] /\ t # s
  BY <1>3, Zenon
<1> QED BY <1>4 DEF NotifyLive

\* The part of IInv that concerns the signals; it leans on Base, since a call
\* that writes belongs to a live handle, hence finds every signal registered.
SignalPart == Registered /\ FirstPollPending /\ SignalStates /\ LatestNotLost

LEMMA SignalPartInit == Init => SignalPart
BY DEF Init, SignalPart, Registered, FirstPollPending, SignalStates,
       LatestNotLost

LEMMA SignalPartStep ==
    Base /\ SignalPart /\ Base' /\ [Next]_<<mode, vars>> => SignalPart'
<1> SUFFICES ASSUME Base, SignalPart, Base', [Next]_<<mode, vars>>
             PROVE  SignalPart'
  OBVIOUS
<1>0. /\ TypeOK /\ TypeOK' /\ LockOwner
      /\ Registered /\ FirstPollPending /\ SignalStates /\ LatestNotLost
  BY DEF Base, SignalPart
<1>l. ASSUME NEW g \in Handles, handle[g] = "live" PROVE senders # 0
  BY <1>l, LiveHandleCounted DEF Base
<1>w. phase \in {"clean", "dirty", "notify"} => senders # 0
  BY <1>0, <1>l, NoOneAssumption DEF TypeOK, LockOwner
<1> USE <1>0, <1>l, <1>w
    DEF TypeOK, HandleLife, SignalLife, Phases, PollSteps, lockVars,
        signalVars, Registered, FirstPollPending, SignalStates, LatestNotLost
<1>1. ASSUME NEW h \in Handles, Set(h) PROVE SignalPart'
  <2>1. Registered' BY <1>1 DEF Set, StartNotify
  <2>2. FirstPollPending' BY <1>1 DEF Set, StartNotify
  <2>3. SignalStates' BY <1>1 DEF Set, StartNotify
  <2>4. LatestNotLost' BY <1>1 DEF Set, StartNotify
  <2> QED BY <2>1, <2>2, <2>3, <2>4 DEF SignalPart
<1>2. ASSUME NEW h \in Handles, LockMut(h) PROVE SignalPart'
  <2>1. Registered' BY <1>2 DEF LockMut, Acquire
  <2>2. FirstPollPending' BY <1>2 DEF LockMut, Acquire
  <2>3. SignalStates' BY <1>2 DEF LockMut, Acquire
  <2>4. LatestNotLost' BY <1>2 DEF LockMut, Acquire
  <2> QED BY <2>1, <2>2, <2>3, <2>4 DEF SignalPart
<1>3. ASSUME NEW h \in Handles, GuardWrite(h) PROVE SignalPart'
  <2>1. Registered' BY <1>3 DEF GuardWrite
  <2>2. FirstPollPending' BY <1>3 DEF GuardWrite
  <2>3. SignalStates' BY <1>3 DEF GuardWrite
  <2>4. LatestNotLost' BY <1>3 DEF GuardWrite
  <2> QED BY <2>1, <2>2, <2>3, <2>4 DEF SignalPart
<1>4. ASSUME NEW h \in Handles, GuardDrop(h) PROVE SignalPart'
  <2>1. Registered' BY <1>4 DEF GuardDrop, StartNotify
  <2>2. FirstPollPending' BY <1>4 DEF GuardDrop, StartNotify
  <2>3. SignalStates' BY <1>4 DEF GuardDrop, StartNotify
  <2>4. LatestNotLost' BY <1>4 DEF GuardDrop, StartNotify
  <2> QED BY <2>1, <2>2, <2>3, <2>4 DEF SignalPart
<1>5. ASSUME NEW h \in Handles, NotifyEnd(h) PROVE SignalPart'
  <2>1. Registered' BY <1>5 DEF NotifyEnd
  <2>2. FirstPollPending' BY <1>5 DEF NotifyEnd
  <2>3. SignalStates' BY <1>5 DEF NotifyEnd
  <2>4. LatestNotLost' BY <1>5 DEF NotifyEnd
  <2> QED BY <2>1, <2>2, <2>3, <2>4 DEF SignalPart
<1>6. ASSUME NEW h \in Handles, NEW new \in Handles, Clone(h, new)
      PROVE  SignalPart'
  <2>1. Registered' BY <1>6 DEF Clone
  <2>2. FirstPollPending' BY <1>6 DEF Clone
  <2>3. SignalStates' BY <1>6 DEF Clone
  <2>4. LatestNotLost' BY <1>6 DEF Clone
  <2> QED BY <2>1, <2>2, <2>3, <2>4 DEF SignalPart
<1>7. ASSUME NEW h \in Handles, DropHandle(h) PROVE SignalPart'
  <2>1. Registered' BY <1>7 DEF DropHandle
  <2>2. FirstPollPending' BY <1>7 DEF DropHandle
  <2>3. SignalStates' BY <1>7 DEF DropHandle
  <2>4. LatestNotLost' BY <1>7 DEF DropHandle
  <2> QED BY <2>1, <2>2, <2>3, <2>4 DEF SignalPart
<1>8. ASSUME NEW h \in Handles, DropLock(h) PROVE SignalPart'
  <2>1. Registered' BY <1>8 DEF DropLock, StartNotify
  <2>2. FirstPollPending' BY <1>8 DEF DropLock, StartNotify
  <2>3. SignalStates' BY <1>8 DEF DropLock, StartNotify
  <2>4. LatestNotLost' BY <1>8 DEF DropLock, StartNotify
  <2> QED BY <2>1, <2>2, <2>3, <2>4 DEF SignalPart
<1>9. ASSUME NEW h \in Handles, DropEnd(h) PROVE SignalPart'
  <2>1. Registered' BY <1>9 DEF DropEnd, LockOwner
  <2>2. FirstPollPending' BY <1>9 DEF DropEnd
  <2>3. SignalStates' BY <1>9 DEF DropEnd
  <2>4. LatestNotLost' BY <1>9 DEF DropEnd
  <2> QED BY <2>1, <2>2, <2>3, <2>4 DEF SignalPart
<1>10. ASSUME NEW s \in Signals, CreateSignal(s) PROVE SignalPart'
  <2>1. Registered' BY <1>10 DEF CreateSignal
  <2>2. FirstPollPending' BY <1>10 DEF CreateSignal
  <2>3. SignalStates' BY <1>10 DEF CreateSignal
  <2>4. LatestNotLost' BY <1>10 DEF CreateSignal
  <2> QED BY <2>1, <2>2, <2>3, <2>4 DEF SignalPart
<1>11. ASSUME NEW s \in Signals, PushSignal(s) PROVE SignalPart'
  <2>1. Registered' BY <1>11 DEF PushSignal
  <2>2. FirstPollPending' BY <1>11 DEF PushSignal
  <2>3. SignalStates' BY <1>11 DEF PushSignal
  <2>4. LatestNotLost' BY <1>11 DEF PushSignal
  <2> QED BY <2>1, <2>2, <2>3, <2>4 DEF SignalPart
<1>12. ASSUME NEW s \in Signals, DropSignal(s) PROVE SignalPart'
  <2>1. Registered' BY <1>12 DEF DropSignal
  <2>2. FirstPollPending' BY <1>12 DEF DropSignal
  <2>3. SignalStates' BY <1>12 DEF DropSignal
  <2>4. LatestNotLost' BY <1>12 DEF DropSignal
  <2> QED BY <2>1, <2>2, <2>3, <2>4 DEF SignalPart
<1>13. ASSUME NEW s \in Signals, PollChanged(s) PROVE SignalPart'
  <2>1. Registered' BY <1>13 DEF PollChanged
  <2>2. FirstPollPending' BY <1>13 DEF PollChanged
  <2>3. SignalStates' BY <1>13 DEF PollChanged
  <2>4. LatestNotLost' BY <1>13 DEF PollChanged
  <2> QED BY <2>1, <2>2, <2>3, <2>4 DEF SignalPart
<1>14. ASSUME NEW s \in Signals, PollRead(s) PROVE SignalPart'
  <2>1. Registered' BY <1>14 DEF PollRead
  <2>2. FirstPollPending' BY <1>14 DEF PollRead
  <2>3. SignalStates' BY <1>14 DEF PollRead
  <2>4. LatestNotLost' BY <1>14 DEF PollRead
  <2> QED BY <2>1, <2>2, <2>3, <2>4 DEF SignalPart
<1>15. ASSUME NEW s \in Signals, PollSenders(s) PROVE SignalPart'
  <2>1. Registered' BY <1>15 DEF PollSenders
  <2>2. FirstPollPending' BY <1>15 DEF PollSenders
  <2>3. SignalStates' BY <1>15 DEF PollSenders
  <2>4. LatestNotLost' BY <1>15 DEF PollSenders
  <2> QED BY <2>1, <2>2, <2>3, <2>4 DEF SignalPart
<1>16. ASSUME NEW s \in Signals, PollSetWaker(s) PROVE SignalPart'
  <2>1. Registered' BY <1>16 DEF PollSetWaker
  <2>2. FirstPollPending' BY <1>16 DEF PollSetWaker
  <2>3. SignalStates' BY <1>16 DEF PollSetWaker
  <2>4. LatestNotLost' BY <1>16 DEF PollSetWaker
  <2> QED BY <2>1, <2>2, <2>3, <2>4 DEF SignalPart
<1>17. ASSUME NEW s \in Signals, NotifyLive(s) PROVE SignalPart'
  <2> USE WakeEffect, <1>17
  <2>1. Registered' OBVIOUS
  <2>2. FirstPollPending' OBVIOUS
  <2>3. SignalStates' OBVIOUS
  <2>4. LatestNotLost' OBVIOUS
  <2> QED BY <2>1, <2>2, <2>3, <2>4 DEF SignalPart
<1>18. ASSUME NEW s \in Signals, NotifyDead(s) PROVE SignalPart'
  <2>1. Registered' BY <1>18 DEF NotifyDead
  <2>2. FirstPollPending' BY <1>18 DEF NotifyDead
  <2>3. SignalStates' BY <1>18 DEF NotifyDead
  <2>4. LatestNotLost' BY <1>18 DEF NotifyDead
  <2> QED BY <2>1, <2>2, <2>3, <2>4 DEF SignalPart
<1>19. CASE UNCHANGED vars
  BY <1>19 DEF vars, SignalPart
<1> QED
  BY <1>1, <1>2, <1>3, <1>4, <1>5, <1>6, <1>7, <1>8, <1>9, <1>10, <1>11,
     <1>12, <1>13, <1>14, <1>15, <1>16, <1>17, <1>18, <1>19
  DEF Next, Step, HandleStep, SignalStep, NotifyVisit

LEMMA IInvInit == Init => IInv
BY BaseInit, SignalPartInit DEF IInv, Base, SignalPart

LEMMA IInvStep == IInv /\ [Next]_<<mode, vars>> => IInv'
BY BaseStep, SignalPartStep DEF IInv, Base, SignalPart

\* The inductive invariant holds, whatever calls overlap.
THEOREM InductiveInvariant == Spec => []IInv
BY IInvInit, IInvStep, PTL DEF Spec

\* No write is forgotten by the flags, the lock and the list of entries.
THEOREM NoWriteForgotten == Spec => []LatestNotLost
<1>1. IInv => LatestNotLost BY DEF IInv
<1> QED BY <1>1, InductiveInvariant, PTL

\* The first poll of every signal returns a value.
THEOREM FirstPollCorrect == Spec => []FirstPollReturnsValue
<1>1. IInv => FirstPollReturnsValue
  BY DEF IInv, FirstPollPending, FirstPollReturnsValue
<1> QED BY <1>1, InductiveInvariant, PTL

-----------------------------------------------------------------------------
(* One thread: every call runs to its end before the next one starts.      *)

LEMMA SingleInvInit == Init => SingleInv
BY DEF Init, SingleInv, OneCall, PollFacts, EndingRegistered, NoLostWakeup,
       Parked

LEMMA SingleInvStep ==
    ASSUME Repolls
    PROVE  IInv /\ SingleInv /\ IInv' /\ [Next]_<<mode, vars>> =>
               SingleInv'
<1> SUFFICES ASSUME IInv, SingleInv, IInv', [Next]_<<mode, vars>>,
                    mode = "single"
             PROVE  SingleInv'
  BY DEF Next, SingleInv
<1>m. mode' = "single" BY DEF Next
<1>0. /\ TypeOK /\ TypeOK' /\ LockOwner /\ Registered /\ SignalStates
      /\ SignalStates' /\ LatestNotLost
      /\ OneCall /\ PollFacts /\ EndingRegistered /\ NoLostWakeup
  BY DEF IInv, SingleInv
<1>l. ASSUME NEW g \in Handles, handle[g] = "live" PROVE senders # 0
  BY <1>l, LiveHandleCounted DEF IInv
<1>w. phase \in {"clean", "dirty", "notify"} => senders # 0
  BY <1>0, <1>l, NoOneAssumption DEF TypeOK, LockOwner
<1> USE <1>0, <1>l, <1>w, <1>m, ModeAssumption, NoOneAssumption
    DEF TypeOK, HandleLife, SignalLife, Phases, PollSteps, lockVars,
        signalVars, MayStart, Quiet, LockOwner, Registered, SignalStates,
        LatestNotLost, OneCall, PollFacts, EndingRegistered, NoLostWakeup,
        Parked, EndComing
<1>1. ASSUME NEW h \in Handles, Set(h) PROVE SingleInv'
  <2> USE <1>1 DEF Set, StartNotify
  <2>1. OneCall' BY DEF OneCall
  <2>2. PollFacts' BY DEF PollFacts
  <2>3. EndingRegistered' BY DEF EndingRegistered
  <2>4. NoLostWakeup' BY DEF NoLostWakeup, Parked, EndComing
  <2> QED BY <2>1, <2>2, <2>3, <2>4 DEF SingleInv
<1>2. ASSUME NEW h \in Handles, LockMut(h) PROVE SingleInv'
  <2> USE <1>2 DEF LockMut, Acquire
  <2>1. OneCall' BY DEF OneCall
  <2>2. PollFacts' BY DEF PollFacts
  <2>3. EndingRegistered' BY DEF EndingRegistered
  <2>4. NoLostWakeup' BY DEF NoLostWakeup, Parked, EndComing
  <2> QED BY <2>1, <2>2, <2>3, <2>4 DEF SingleInv
<1>3. ASSUME NEW h \in Handles, GuardWrite(h) PROVE SingleInv'
  <2> USE <1>3 DEF GuardWrite
  <2>1. OneCall' BY DEF OneCall
  <2>2. PollFacts' BY DEF PollFacts
  <2>3. EndingRegistered' BY DEF EndingRegistered
  <2>4. NoLostWakeup' BY DEF NoLostWakeup, Parked, EndComing
  <2> QED BY <2>1, <2>2, <2>3, <2>4 DEF SingleInv
<1>4. ASSUME NEW h \in Handles, GuardDrop(h) PROVE SingleInv'
  <2> USE <1>4 DEF GuardDrop, StartNotify
  <2>1. OneCall' BY DEF OneCall
  <2>2. PollFacts' BY DEF PollFacts
  <2>3. EndingRegistered' BY DEF EndingRegistered
  <2>4. NoLostWakeup' BY DEF NoLostWakeup, Parked, EndComing
  <2> QED BY <2>1, <2>2, <2>3, <2>4 DEF SingleInv
<1>5. ASSUME NEW h \in Handles, NotifyEnd(h) PROVE SingleInv'
  <2> USE <1>5 DEF NotifyEnd
  <2>1. OneCall' BY DEF OneCall
  <2>2. PollFacts' BY DEF PollFacts
  <2>3. EndingRegistered' BY DEF EndingRegistered
  <2>4. NoLostWakeup' BY DEF NoLostWakeup, Parked, EndComing
  <2> QED BY <2>1, <2>2, <2>3, <2>4 DEF SingleInv
<1>6. ASSUME NEW h \in Handles, NEW new \in Handles, Clone(h, new)
      PROVE  SingleInv'
  <2> USE <1>6 DEF Clone
  <2>1. OneCall' BY DEF OneCall
  <2>2. PollFacts' BY DEF PollFacts
  <2>3. EndingRegistered' BY DEF EndingRegistered
  <2>4. NoLostWakeup' BY DEF NoLostWakeup, Parked, EndComing
  <2> QED BY <2>1, <2>2, <2>3, <2>4 DEF SingleInv
<1>7. ASSUME NEW h \in Handles, DropHandle(h) PROVE SingleInv'
  <2> USE <1>7 DEF DropHandle
  <2>1. OneCall' BY DEF OneCall
  <2>2. PollFacts' BY DEF PollFacts
  <2>3. EndingRegistered' BY DEF EndingRegistered
  <2>4. NoLostWakeup' BY DEF NoLostWakeup, Parked, EndComing
  <2> QED BY <2>1, <2>2, <2>3, <2>4 DEF SingleInv
<1>8. ASSUME NEW h \in Handles, DropLock(h) PROVE SingleInv'
  <2> USE <1>8 DEF DropLock, StartNotify
  <2>1. OneCall' BY DEF OneCall
  <2>2. PollFacts' BY DEF PollFacts
  <2>3. EndingRegistered' BY DEF EndingRegistered
  <2>4. NoLostWakeup' BY DEF NoLostWakeup, Parked, EndComing
  <2> QED BY <2>1, <2>2, <2>3, <2>4 DEF SingleInv
<1>9. ASSUME NEW h \in Handles, DropEnd(h) PROVE SingleInv'
  <2> USE <1>9 DEF DropEnd
  <2>1. OneCall' BY DEF OneCall
  <2>2. PollFacts' BY DEF PollFacts
  <2>3. EndingRegistered' BY DEF EndingRegistered
  <2>4. NoLostWakeup' BY DEF NoLostWakeup, Parked, EndComing
  <2> QED BY <2>1, <2>2, <2>3, <2>4 DEF SingleInv
<1>10. ASSUME NEW s \in Signals, CreateSignal(s) PROVE SingleInv'
  <2> USE <1>10 DEF CreateSignal
  <2>1. OneCall' BY DEF OneCall
  <2>2. PollFacts' BY DEF PollFacts
  <2>3. EndingRegistered' BY DEF EndingRegistered
  <2>4. NoLostWakeup' BY DEF NoLostWakeup, Parked, EndComing
  <2> QED BY <2>1, <2>2, <2>3, <2>4 DEF SingleInv
<1>11. ASSUME NEW s \in Signals, PushSignal(s) PROVE SingleInv'
  <2> USE <1>11 DEF PushSignal
  <2>1. OneCall' BY DEF OneCall
  <2>2. PollFacts' BY DEF PollFacts
  <2>3. EndingRegistered' BY DEF EndingRegistered
  <2>4. NoLostWakeup' BY DEF NoLostWakeup, Parked, EndComing
  <2> QED BY <2>1, <2>2, <2>3, <2>4 DEF SingleInv
<1>12. ASSUME NEW s \in Signals, DropSignal(s) PROVE SingleInv'
  <2> USE <1>12 DEF DropSignal
  <2>1. OneCall' BY DEF OneCall
  <2>2. PollFacts' BY DEF PollFacts
  <2>3. EndingRegistered' BY DEF EndingRegistered
  <2>4. NoLostWakeup' BY DEF NoLostWakeup, Parked, EndComing
  <2> QED BY <2>1, <2>2, <2>3, <2>4 DEF SingleInv
<1>13. ASSUME NEW s \in Signals, PollChanged(s) PROVE SingleInv'
  <2> USE <1>13 DEF PollChanged
  <2>1. OneCall' BY DEF OneCall
  <2>2. PollFacts'
    <3>1. \A t \in Signals \ {s} :
              changed'[t] = changed[t] /\ pc'[t] = pc[t]
      OBVIOUS
    <3>2. /\ changed'[s] = FALSE
          /\ pc'[s] = IF changed[s] THEN "read" ELSE "senders"
      OBVIOUS
    <3>3. /\ seen' = seen /\ value' = value /\ done' = done
          /\ phase' = phase /\ senders' = senders
      OBVIOUS
    <3> HIDE DEF PollChanged
    <3> QED BY <3>1, <3>2, <3>3
  <2>3. EndingRegistered' BY DEF EndingRegistered
  <2>4. NoLostWakeup'
    <3>1. pc'[s] # "idle" OBVIOUS
    <3>2. \A t \in Signals : Parked(t)' => Parked(t) /\ t # s BY <3>1
    <3>3. \A t \in Signals \ {s} : changed'[t] = changed[t] OBVIOUS
    <3> QED BY <3>2, <3>3
  <2> QED BY <2>1, <2>2, <2>3, <2>4 DEF SingleInv
<1>14. ASSUME NEW s \in Signals, PollRead(s) PROVE SingleInv'
  <2> USE <1>14 DEF PollRead
  <2>1. OneCall' BY DEF OneCall
  <2>2. PollFacts' BY DEF PollFacts
  <2>3. EndingRegistered' BY DEF EndingRegistered
  <2>4. NoLostWakeup'
    <3>1. woken' = [woken EXCEPT ![s] = TRUE]
      <4>1. (woken[s] \/ Repolls) = TRUE OBVIOUS
      <4> QED BY <4>1, Zenon
    <3>2. \A t \in Signals : Parked(t)' => Parked(t) /\ t # s BY <3>1
    <3> QED BY <3>2
  <2> QED BY <2>1, <2>2, <2>3, <2>4 DEF SingleInv
<1>15. ASSUME NEW s \in Signals, PollSenders(s) PROVE SingleInv'
  <2> USE <1>15 DEF PollSenders
  <2>1. OneCall' BY DEF OneCall
  <2>2. PollFacts' BY DEF PollFacts
  <2>3. EndingRegistered' BY DEF EndingRegistered
  <2>4. NoLostWakeup'
    <3>1. CASE senders = 0
      <4>1. (senders = 0) = TRUE BY <3>1
      <4>2. done' = [done EXCEPT ![s] = TRUE] BY <4>1, Zenon
      <4>3. \A t \in Signals : Parked(t)' => Parked(t) /\ t # s BY <4>2
      <4> QED BY <4>3
    <3>2. CASE senders # 0
      <4>1. pc'[s] = "waker" BY <3>2
      <4>2. \A t \in Signals : t # s => done'[t] = done[t] OBVIOUS
      <4>3. \A t \in Signals : Parked(t)' => Parked(t) /\ t # s
        BY <4>1, <4>2
      <4> QED BY <4>3
    <3> QED BY <3>1, <3>2
  <2> QED BY <2>1, <2>2, <2>3, <2>4 DEF SingleInv
<1>16. ASSUME NEW s \in Signals, PollSetWaker(s) PROVE SingleInv'
  <2> USE <1>16 DEF PollSetWaker
  <2>1. OneCall' BY DEF OneCall
  <2>2. PollFacts' BY DEF PollFacts
  <2>3. EndingRegistered' BY DEF EndingRegistered
  <2>4. NoLostWakeup' BY DEF NoLostWakeup, Parked, EndComing
  <2> QED BY <2>1, <2>2, <2>3, <2>4 DEF SingleInv
<1>17. ASSUME NEW s \in Signals, NotifyLive(s) PROVE SingleInv'
  <2> USE WakeEffect, <1>17 DEF NotifyLive
  <2>1. OneCall' BY DEF OneCall
  <2>2. PollFacts' BY DEF PollFacts
  <2>3. EndingRegistered' BY DEF EndingRegistered
  <2>4. NoLostWakeup' BY DEF NoLostWakeup, Parked, EndComing
  <2> QED BY <2>1, <2>2, <2>3, <2>4 DEF SingleInv
<1>18. ASSUME NEW s \in Signals, NotifyDead(s) PROVE SingleInv'
  <2> USE <1>18 DEF NotifyDead
  <2>1. OneCall' BY DEF OneCall
  <2>2. PollFacts' BY DEF PollFacts
  <2>3. EndingRegistered' BY DEF EndingRegistered
  <2>4. NoLostWakeup' BY DEF NoLostWakeup, Parked, EndComing
  <2> QED BY <2>1, <2>2, <2>3, <2>4 DEF SingleInv
<1>19. CASE UNCHANGED vars
  BY <1>19 DEF vars, SingleInv
<1> QED
  BY <1>1, <1>2, <1>3, <1>4, <1>5, <1>6, <1>7, <1>8, <1>9, <1>10, <1>11,
     <1>12, <1>13, <1>14, <1>15, <1>16, <1>17, <1>18, <1>19
  DEF Next, Step, HandleStep, SignalStep, NotifyVisit

LEMMA SingleInvariant ==
    ASSUME Repolls PROVE Spec => []SingleInv
<1>1. IInv /\ SingleInv /\ IInv' /\ [Next]_<<mode, vars>> => SingleInv'
  BY SingleInvStep
<1> QED BY <1>1, SingleInvInit, InductiveInvariant, PTL DEF Spec

\* On one thread no task sleeps through a change or the end.
THEOREM SingleNoLostWakeup ==
    ASSUME Repolls PROVE Spec => []NoLostWakeup
<1>1. SingleInv => NoLostWakeup BY DEF SingleInv, NoLostWakeup
<1> QED BY <1>1, SingleInvariant, PTL

\* On one thread a signal that ended has returned the last value written.
THEOREM SingleEndsWithLatest ==
    ASSUME Repolls PROVE Spec => []EndsWithLatest
<1>1. SingleInv => EndsWithLatest
  BY DEF SingleInv, PollFacts, EndsWithLatest
<1> QED BY <1>1, SingleInvariant, PTL

\* On one thread no version is returned twice.
THEOREM SingleNoRepeat == ASSUME Repolls PROVE Spec => NoRepeat
<1>1. IInv /\ SingleInv =>
          [mode = "single" =>
               \A s \in Signals : PollRead(s) => seen[s] # value]_<<mode, vars>>
  BY DEF IInv, SingleInv, PollFacts, PollRead, TypeOK
<1> QED BY <1>1, SingleInvariant, InductiveInvariant, PTL DEF NoRepeat

-----------------------------------------------------------------------------
(* Refinement.                                                             *)

LEMMA CellInit == Init => Cell!Init
BY DEF Init, Cell!Init

LEMMA CellStep == IInv /\ [Next]_<<mode, vars>> => [Cell!Next]_Cell!vars
<1> SUFFICES ASSUME IInv, [Next]_<<mode, vars>> PROVE [Cell!Next]_Cell!vars OBVIOUS
<1>0. /\ TypeOK /\ LockOwner /\ SignalStates BY DEF IInv
<1>l. ASSUME NEW g \in Handles, handle[g] = "live" PROVE senders # 0
  BY <1>l, LiveHandleCounted DEF IInv
<1>w. phase \in {"clean", "dirty", "notify"} => senders # 0
  BY <1>0, <1>l, NoOneAssumption DEF TypeOK, LockOwner
<1> USE <1>0, <1>l, <1>w DEF TypeOK, Cell!vars, lockVars, signalVars
<1>1. ASSUME NEW h \in Handles, Set(h) \/ GuardWrite(h) PROVE Cell!Write
  BY <1>1 DEF Set, GuardWrite, Cell!Write
<1>2. ASSUME NEW h \in Handles, DropHandle(h)
      PROVE  Cell!Close \/ UNCHANGED Cell!vars
  BY <1>2 DEF DropHandle, Cell!Close
<1>3. ASSUME NEW h \in Handles, NEW new \in Handles, Clone(h, new)
      PROVE  UNCHANGED Cell!vars
  BY <1>3 DEF Clone
<1>4. ASSUME NEW h \in Handles, LockMut(h) \/ HandleStep(h)
      PROVE  UNCHANGED Cell!vars
  BY <1>4
  DEF LockMut, HandleStep, GuardDrop, NotifyEnd, DropLock, DropEnd
<1>5. ASSUME NEW s \in Signals, PollRead(s) PROVE Cell!Emit(s)
  BY <1>5 DEF PollRead, SignalStates, Cell!Emit
<1>6. ASSUME NEW s \in Signals, PollSenders(s)
      PROVE  Cell!End(s) \/ UNCHANGED Cell!vars
  <2>1. CASE senders = 0
    <3>1. done' = [done EXCEPT ![s] = TRUE]
      <4>1. (senders = 0) = TRUE BY <2>1
      <4> QED BY <1>6, <4>1, Zenon DEF PollSenders
    <3>2. ~done[s] BY <1>6 DEF PollSenders, SignalStates
    <3> QED BY <1>6, <2>1, <3>1, <3>2 DEF PollSenders, Cell!End
  <2>2. CASE senders # 0
    <3>1. done' = [done EXCEPT ![s] = FALSE]
      <4>1. (senders = 0) = FALSE BY <2>2
      <4> QED BY <1>6, <4>1, Zenon DEF PollSenders
    <3>2. ~done[s] BY <2>2 DEF SignalStates
    <3>3. done' = done BY <3>1, <3>2
    <3> QED BY <1>6, <3>3 DEF PollSenders
  <2> QED BY <2>1, <2>2
<1>7. ASSUME NEW s \in Signals,
             CreateSignal(s) \/ DropSignal(s) \/ PollChanged(s)
                 \/ NotifyVisit(s) \/ PushSignal(s) \/ PollSetWaker(s)
      PROVE  UNCHANGED Cell!vars
  BY <1>7
  DEF CreateSignal, DropSignal, PollChanged, NotifyVisit, NotifyLive,
      NotifyDead, PushSignal, PollSetWaker
<1>8. CASE UNCHANGED vars BY <1>8 DEF vars
<1> QED
  BY <1>1, <1>2, <1>3, <1>4, <1>5, <1>6, <1>7, <1>8
  DEF Next, Step, SignalStep, Cell!Next

\* The Mutable and its signals implement the abstract cell.
THEOREM Refinement == Spec => RefinesCell
BY CellInit, CellStep, InductiveInvariant, PTL DEF Spec, RefinesCell, Cell!Spec
=============================================================================
