-------------------------- MODULE Broadcaster_proofs --------------------------
(***************************************************************************)
(* Proofs about Broadcaster, for any set of children and any number of     *)
(* versions of the input, and, at the end, about the other part of the     *)
(* crate that is a flag and a waker slot, CancelableFuture, for an inner   *)
(* future of any number of steps.                                          *)
(***************************************************************************)
EXTENDS Broadcaster, TLAPS

-----------------------------------------------------------------------------
(* Any number of threads.                                                  *)

LEMMA IInvInit == Init => IInv
<1> SUFFICES ASSUME Init PROVE IInv OBVIOUS
<1> USE MaxVersionAssumption DEF Init
<1>1. TypeOK
  <2>1. /\ 0 \in 0..MaxVersion /\ 1 \in 1..MaxVersion /\ 0 \in 0..1
        /\ source = 1 /\ delivered = 0 /\ value = 0 /\ epoch = 0
    OBVIOUS
  <2>2. source \in 1..MaxVersion /\ delivered \in 0..source
        /\ value \in 0..source /\ epoch \in 0..MaxVersion
    BY <2>1
  <2>3. /\ child \in [Children -> {"none", "live", "dropped"}]
        /\ pc \in [Children -> {"idle", "write", "read", "polling", "compare",
                                "waker"}]
        /\ childEpoch \in [Children -> 0..MaxVersion]
        /\ seen \in [Children -> 0..MaxVersion]
    BY <2>1
  <2>4. /\ waker \in [Children -> BOOLEAN]
        /\ woken \in [Children -> BOOLEAN]
        /\ done \in [Children -> BOOLEAN]
    OBVIOUS
  <2>5. /\ sourceEnded = FALSE /\ sourceWaker = FALSE /\ isChanged = TRUE
        /\ alive = TRUE /\ fresh = FALSE
    OBVIOUS
  <2> QED BY <2>2, <2>3, <2>4, <2>5 DEF TypeOK
<1>2. LockOwner BY NoOneAssumption DEF LockOwner
<1>3. InputPolled /\ EpochCounts /\ ChildEnds
  BY DEF InputPolled, EpochCounts, ChildEnds
<1> QED BY <1>1, <1>2, <1>3 DEF IInv

LEMMA IInvStep == IInv /\ [Next]_<<mode, vars>> => IInv'
<1> SUFFICES ASSUME IInv, [Next]_<<mode, vars>> PROVE IInv' OBVIOUS
<1>0. /\ TypeOK /\ LockOwner /\ InputPolled /\ EpochCounts /\ ChildEnds
      /\ mode' = mode
  BY DEF IInv, Next, vars
<1> USE <1>0, NoOneAssumption, MaxVersionAssumption
    DEF TypeOK, LockOwner, InputPolled, EpochCounts, ChildEnds, sourceVars,
        notifierVars, innerVars, childVars, Goto, Unlock
<1>1. CASE SourceChange
  <2> USE <1>1 DEF SourceChange
  <2>1. TypeOK'
    <3>1. /\ source' \in 1..MaxVersion
          /\ delivered' \in 0..source' /\ value' \in 0..source'
      OBVIOUS
    <3>2. /\ sourceEnded' \in BOOLEAN /\ sourceWaker' \in BOOLEAN
          /\ waking' \in {"idle", "wake", "notify"}
      OBVIOUS
    <3> QED BY <3>1, <3>2
  <2>2. LockOwner' OBVIOUS
  <2>3. InputPolled' OBVIOUS
  <2>4. EpochCounts' OBVIOUS
  <2>5. ChildEnds' OBVIOUS
  <2> QED BY <2>1, <2>2, <2>3, <2>4, <2>5 DEF IInv
<1>2. CASE NotifyStart
  BY <1>2 DEF NotifyStart, IInv
<1>3. CASE NotifyEnd
  BY <1>3 DEF NotifyEnd, IInv
<1>4. ASSUME NEW c \in Children, NotifyVisit(c) PROVE IInv'
  BY <1>4 DEF NotifyVisit, IInv
<1>5. ASSUME NEW c \in Children, CreateChild(c) PROVE IInv'
  BY <1>5 DEF CreateChild, IInv
<1>6. ASSUME NEW c \in Children, DropChild(c) PROVE IInv'
  BY <1>6 DEF DropChild, IInv
<1>7. ASSUME NEW c \in Children, PollSwap(c) PROVE IInv'
  BY <1>7 DEF PollSwap, IInv
<1>8. ASSUME NEW c \in Children, LockWrite(c) PROVE IInv'
  BY <1>8 DEF LockWrite, Readers, IInv
<1>9. ASSUME NEW c \in Children, LockRead(c) PROVE IInv'
  BY <1>9 DEF LockRead, IInv
<1>10. ASSUME NEW c \in Children, PollValue(c) PROVE IInv'
  BY <1>10 DEF PollValue, IInv
<1>11. ASSUME NEW c \in Children, PollLast(c) PROVE IInv'
  <2> USE <1>11 DEF PollLast
  <2>1. TypeOK'
    <3>1. /\ UNCHANGED <<source, sourceEnded, notifierVars, value, writer, child,
                         waker, woken, childEpoch, seen, done>>
          /\ delivered' = delivered
      OBVIOUS
    <3>2. alive' \in BOOLEAN /\ sourceWaker' \in BOOLEAN /\ fresh' \in BOOLEAN
      OBVIOUS
    <3>3. epoch' \in 0..MaxVersion OBVIOUS
    <3>4. pc' \in [Children -> {"idle", "write", "read", "polling", "compare",
                               "waker"}]
      OBVIOUS
    <3> QED BY <3>1, <3>2, <3>3, <3>4
  <2>2. LockOwner' OBVIOUS
  <2>3. InputPolled' OBVIOUS
  <2>4. EpochCounts' OBVIOUS
  <2>5. ChildEnds' OBVIOUS
  <2> QED BY <2>1, <2>2, <2>3, <2>4, <2>5 DEF IInv
<1>12. ASSUME NEW c \in Children, CompareChanged(c) PROVE IInv'
  BY <1>12 DEF CompareChanged, IInv
<1>13. ASSUME NEW c \in Children, CompareEnded(c) PROVE IInv'
  BY <1>13 DEF CompareEnded, IInv
<1>14. ASSUME NEW c \in Children, CompareSame(c) PROVE IInv'
  BY <1>14 DEF CompareSame, IInv
<1>15. ASSUME NEW c \in Children, SetWaker(c) PROVE IInv'
  BY <1>15 DEF SetWaker, IInv
<1>16. CASE UNCHANGED vars
  BY <1>16 DEF vars, IInv
<1> QED
  BY <1>1, <1>2, <1>3, <1>4, <1>5, <1>6, <1>7, <1>8, <1>9, <1>10, <1>11, <1>12, <1>13, <1>14, <1>15, <1>16
  DEF Next, Step, Notify, PollStep

\* The strengthened invariant holds in every run.
THEOREM InductiveInvariant == Spec => []IInv
BY IInvInit, IInvStep, PTL DEF Spec

\* Every variable keeps its type; the epoch never passes the number of
\* versions of the input.
THEOREM TypeCorrect == Spec => []TypeOK
<1>1. IInv => TypeOK BY DEF IInv
<1> QED BY <1>1, InductiveInvariant, PTL

\* A child that has the epoch has the value, and no other child has it; a child
\* ends with the last version of the input, whichever child polled for it.
THEOREM EpochsCorrect == Spec => []EpochTellsValue
<1>1. IInv => EpochTellsValue
  <2> SUFFICES ASSUME IInv PROVE EpochTellsValue OBVIOUS
  <2>1. writer = NoOne => ~fresh BY DEF IInv, InputPolled
  <2> QED BY <2>1 DEF IInv, EpochCounts, ChildEnds, EpochTellsValue
<1> QED BY <1>1, InductiveInvariant, PTL

-----------------------------------------------------------------------------
(* Refinement: a turn of poll_signal that gets a value is the Write of the *)
(* cell, the one that loses the input its Close, Ready(Some) its Emit.     *)

LEMMA CellInit == Init => Cell!Init
<1> SUFFICES ASSUME Init PROVE Cell!Init OBVIOUS
<1>1. /\ value = 0 /\ seen = [c \in Children |-> 0]
      /\ done = [c \in Children |-> FALSE]
  BY DEF Init
<1>2. (~alive) = FALSE BY DEF Init
<1> QED BY <1>1, <1>2 DEF Cell!Init

LEMMA CellStep == IInv /\ [Next]_<<mode, vars>> => [Cell!Next]_Cell!vars
<1> SUFFICES ASSUME IInv, [Next]_<<mode, vars>>
             PROVE  [Cell!Next]_Cell!vars
  OBVIOUS
<1>0. TypeOK /\ LockOwner /\ InputPolled /\ EpochCounts /\ ChildEnds
  BY DEF IInv
<1>s. ASSUME UNCHANGED <<value, alive, seen, done>> PROVE UNCHANGED Cell!vars
  BY <1>s DEF Cell!vars
<1>1. CASE SourceChange
  BY <1>1, <1>s DEF SourceChange, innerVars, childVars
<1>2. CASE NotifyStart \/ NotifyEnd
  BY <1>2, <1>s DEF NotifyStart, NotifyEnd, innerVars, childVars
<1>3. ASSUME NEW c \in Children,
             NotifyVisit(c) \/ CreateChild(c) \/ DropChild(c) \/ PollSwap(c)
      PROVE  UNCHANGED Cell!vars
  BY <1>3, <1>s DEF NotifyVisit, CreateChild, DropChild, PollSwap, innerVars
<1>4. ASSUME NEW c \in Children,
             LockWrite(c) \/ LockRead(c) \/ CompareSame(c) \/ SetWaker(c)
      PROVE  UNCHANGED Cell!vars
  BY <1>4, <1>s DEF LockWrite, LockRead, CompareSame, SetWaker, innerVars
<1>5. ASSUME NEW c \in Children, PollValue(c) PROVE Cell!Write
  <2>1. value' > value BY <1>5, <1>0 DEF PollValue, TypeOK, InputPolled
  <2>2. alive BY <1>5, <1>0, NoOneAssumption
              DEF PollValue, InputPolled, LockOwner
  <2> QED BY <1>5, <2>1, <2>2 DEF PollValue, childVars, Cell!Write
<1>6. ASSUME NEW c \in Children, PollLast(c)
      PROVE  Cell!Close \/ UNCHANGED Cell!vars
  <2>1. alive BY <1>6, <1>0, NoOneAssumption
              DEF PollLast, InputPolled, LockOwner
  <2>2. value' = value /\ seen' = seen /\ done' = done
    BY <1>6 DEF PollLast
  <2>3. CASE alive' BY <2>1, <2>2, <2>3 DEF Cell!vars
  <2>4. CASE ~alive' BY <2>1, <2>2, <2>4 DEF Cell!Close
  <2> QED BY <2>3, <2>4
<1>7. ASSUME NEW c \in Children, CompareChanged(c) PROVE Cell!Emit(c)
  <2>1. ~done[c] BY <1>7, <1>0 DEF CompareChanged, ChildEnds
  <2>2. ~fresh
    BY <1>7, <1>0, NoOneAssumption DEF CompareChanged, LockOwner, InputPolled
  <2>3. seen[c] # value /\ seen[c] <= value
    BY <1>7, <1>0, <2>2 DEF CompareChanged, EpochCounts
  <2> QED BY <1>7, <2>1, <2>3, <1>0 DEF CompareChanged, TypeOK, Cell!Emit
<1>8. ASSUME NEW c \in Children, CompareEnded(c) PROVE Cell!End(c)
  <2>1. ~done[c] BY <1>8, <1>0 DEF CompareEnded, ChildEnds
  <2>2. ~fresh
    BY <1>8, <1>0, NoOneAssumption DEF CompareEnded, LockOwner, InputPolled
  <2>3. seen[c] = value
    BY <1>8, <1>0, <2>2 DEF CompareEnded, EpochCounts
  <2> QED BY <1>8, <2>1, <2>3, <1>0 DEF CompareEnded, TypeOK, Cell!End
<1>9. CASE UNCHANGED vars
  BY <1>9, <1>s DEF vars, innerVars, childVars
<1> QED
  BY <1>1, <1>2, <1>3, <1>4, <1>5, <1>6, <1>7, <1>8, <1>9
  DEF Next, Step, Notify, PollStep, Cell!Next

\* The children see the abstract cell: each gets versions in order, and ends
\* with the last one after the input ended.
THEOREM Refinement == Spec => RefinesCell
BY CellInit, CellStep, InductiveInvariant, PTL DEF Spec, RefinesCell, Cell!Spec

-----------------------------------------------------------------------------
(* One thread.                                                             *)

LEMMA SingleInvInit == Init => SingleInv
BY DEF Init, SingleInv, NoChildForgotten, Asleep, OneCall, FlagTells,
       Registered, SleepersUndisturbed

LEMMA SingleInvStep ==
    IInv /\ SingleInv /\ [Next]_<<mode, vars>> => SingleInv'
<1> SUFFICES ASSUME IInv, SingleInv, [Next]_<<mode, vars>>, mode = "single"
             PROVE  SingleInv'
  BY DEF SingleInv, NoChildForgotten, Next, vars
<1>m. mode' = "single" BY DEF Next, vars
<1>0. /\ TypeOK /\ LockOwner /\ InputPolled /\ EpochCounts /\ ChildEnds
      /\ NoChildForgotten /\ OneCall /\ FlagTells /\ Registered
      /\ SleepersUndisturbed
  BY DEF IInv, SingleInv
<1> USE <1>0, <1>m, NoOneAssumption
    DEF TypeOK, LockOwner, InputPolled, EpochCounts, ChildEnds,
        NoChildForgotten, OneCall, FlagTells, Registered, SleepersUndisturbed,
        Asleep, sourceVars, notifierVars, innerVars, childVars, Goto, Unlock,
        MayStart, Quiet
<1>1. CASE SourceChange
  BY <1>1 DEF SourceChange, SingleInv
<1>2. CASE NotifyStart
  BY <1>2 DEF NotifyStart, SingleInv
<1>3. CASE NotifyEnd
  BY <1>3 DEF NotifyEnd, SingleInv
<1>4. ASSUME NEW c \in Children, NotifyVisit(c) PROVE SingleInv'
  BY <1>4 DEF NotifyVisit, SingleInv
<1>5. ASSUME NEW c \in Children, CreateChild(c) PROVE SingleInv'
  BY <1>5 DEF CreateChild, SingleInv
<1>6. ASSUME NEW c \in Children, DropChild(c) PROVE SingleInv'
  BY <1>6 DEF DropChild, SingleInv
<1>7. ASSUME NEW c \in Children, PollSwap(c) PROVE SingleInv'
  BY <1>7 DEF PollSwap, SingleInv
<1>8. ASSUME NEW c \in Children, LockWrite(c) PROVE SingleInv'
  BY <1>8 DEF LockWrite, Readers, SingleInv
<1>9. ASSUME NEW c \in Children, LockRead(c) PROVE SingleInv'
  BY <1>9 DEF LockRead, SingleInv
<1>10. ASSUME NEW c \in Children, PollValue(c) PROVE SingleInv'
  BY <1>10 DEF PollValue, SingleInv
<1>11. ASSUME NEW c \in Children, PollLast(c) PROVE SingleInv'
  BY <1>11 DEF PollLast, SingleInv
<1>12. ASSUME NEW c \in Children, CompareChanged(c) PROVE SingleInv'
  BY <1>12 DEF CompareChanged, SingleInv
<1>13. ASSUME NEW c \in Children, CompareEnded(c) PROVE SingleInv'
  BY <1>13 DEF CompareEnded, SingleInv
<1>14. ASSUME NEW c \in Children, CompareSame(c) PROVE SingleInv'
  BY <1>14 DEF CompareSame, SingleInv
<1>15. ASSUME NEW c \in Children, SetWaker(c) PROVE SingleInv'
  BY <1>15 DEF SetWaker, SingleInv
<1>16. CASE UNCHANGED vars
  BY <1>16 DEF vars, SingleInv
<1> QED
  BY <1>1, <1>2, <1>3, <1>4, <1>5, <1>6, <1>7, <1>8, <1>9, <1>10, <1>11, <1>12, <1>13, <1>14, <1>15, <1>16
  DEF Next, Step, Notify, PollStep

LEMMA SingleInvariant == Spec => []SingleInv
BY SingleInvInit, SingleInvStep, InductiveInvariant, PTL DEF Spec

\* On one thread no child is forgotten: one that sleeps has its waker in place,
\* and has the version of the input or is about to be visited by notify,
\* whichever child polled the input in between.
THEOREM SingleNoLostWakeup == Spec => []NoChildForgotten
<1>1. SingleInv => NoChildForgotten BY DEF SingleInv
<1> QED BY <1>1, SingleInvariant, PTL

-----------------------------------------------------------------------------
(* cancelable_future, on one thread and on several.                        *)

CONSTANTS Steps, FutureModes

VARIABLES futureMode, progress, innerWaker, isCancelled, futureWaker, handle,
          futurePc, futureWoken, result

Future == INSTANCE CancelableFuture
            WITH Modes <- FutureModes, mode <- futureMode,
                 waker <- futureWaker, pc <- futurePc, woken <- futureWoken

LEMMA FutureInit ==
    ASSUME Future!StepsAssumption
    PROVE  Future!Init => Future!IInv
<1> SUFFICES ASSUME Future!Init PROVE Future!IInv OBVIOUS
<1>1. Future!TypeOK
  <2>1. progress \in 0..Steps BY Future!StepsAssumption DEF Future!Init
  <2>2. {innerWaker, isCancelled, futureWaker, handle, futureWoken}
           \subseteq BOOLEAN
    BY DEF Future!Init
  <2> QED BY <2>1, <2>2 DEF Future!Init, Future!TypeOK
<1>2. Future!AsleepHeld /\ Future!MidPoll /\ Future!OnlyHandleCancels
      /\ ~innerWaker
  BY DEF Future!Init, Future!AsleepHeld, Future!MidPoll,
         Future!OnlyHandleCancels
<1> QED BY <1>1, <1>2 DEF Future!IInv

\* Every step of the handle, the inner future, the task and the owner preserves
\* the invariant.
LEMMA FutureNext ==
    ASSUME Future!StepsAssumption, Future!ModesAssumption
    PROVE  Future!IInv /\ [Future!Next]_<<futureMode, Future!vars>>
              => Future!IInv'
<1> SUFFICES ASSUME Future!IInv, [Future!Next]_<<futureMode, Future!vars>>
             PROVE  Future!IInv'
  OBVIOUS
<1> USE DEF Future!IInv, Future!TypeOK, Future!AsleepHeld, Future!MidPoll,
            Future!OnlyHandleCancels, Future!StepsAssumption,
            Future!ModesAssumption
<1>1. CASE Future!Discard /\ UNCHANGED futureMode
  BY <1>1 DEF Future!Discard, Future!MayStart
<1>2. CASE Future!InnerStep /\ UNCHANGED futureMode
  <2>1. progress' \in 0..Steps BY <1>2 DEF Future!InnerStep
  <2>2. futureWoken' \in BOOLEAN /\ innerWaker' = FALSE
    BY <1>2 DEF Future!InnerStep
  <2>3. Future!TypeOK' BY <1>2, <2>1, <2>2 DEF Future!InnerStep
  <2>4. ~futureWoken' => ~futureWoken /\ ~innerWaker
    BY <1>2 DEF Future!InnerStep
  <2>5. Future!AsleepHeld' /\ Future!MidPoll'
    BY <1>2, <2>4 DEF Future!InnerStep, Future!MayStart
  <2> QED BY <1>2, <2>2, <2>3, <2>5 DEF Future!InnerStep
<1>3. CASE Future!PollFlag /\ UNCHANGED futureMode
  BY <1>3 DEF Future!PollFlag, Future!MayStart
<1>4. CASE Future!PollInner /\ UNCHANGED futureMode
  <2>1. CASE progress = Steps BY <1>4, <2>1 DEF Future!PollInner
  <2>2. CASE progress < Steps BY <1>4, <2>2 DEF Future!PollInner
  <2> QED BY <2>1, <2>2, <1>4 DEF Future!PollInner
<1>5. CASE Future!PollStoreWaker /\ UNCHANGED futureMode
  BY <1>5 DEF Future!PollStoreWaker
<1>6. CASE Future!DropFuture /\ UNCHANGED futureMode
  BY <1>6 DEF Future!DropFuture, Future!MayStart
<1>7. CASE UNCHANGED <<futureMode, Future!vars>> BY <1>7 DEF Future!vars
<1> QED
  BY <1>1, <1>2, <1>3, <1>4, <1>5, <1>6, <1>7
  DEF Future!Next, Future!Step, Future!PollStep

\* The strengthened invariant of a cancelable_future holds in every run.
THEOREM FutureInvariant ==
    ASSUME Future!StepsAssumption, Future!ModesAssumption
    PROVE  Future!Spec => []Future!IInv
BY FutureInit, FutureNext, PTL DEF Future!Spec

\* In every run of a cancelable_future the variables have their types, and a poll
\* that has its result is over.
THEOREM FutureTypeCorrect ==
    ASSUME Future!StepsAssumption, Future!ModesAssumption
    PROVE  Future!Spec => []Future!TypeOK
<1>1. Future!IInv => Future!TypeOK BY DEF Future!IInv
<1> QED BY <1>1, FutureInvariant, PTL

\* A future is never forgotten: one that sleeps is known to what can wake it,
\* whatever discard, the inner future and the polls did at the same time.
THEOREM FutureNeverForgotten ==
    ASSUME Future!StepsAssumption, Future!ModesAssumption
    PROVE  Future!Spec => []Future!AsleepHeld
<1>1. Future!IInv => Future!AsleepHeld BY DEF Future!IInv
<1> QED BY <1>1, FutureInvariant, PTL

\* A future is cancelled only after its handle was discarded.
THEOREM FutureCancelledByHandle ==
    ASSUME Future!StepsAssumption, Future!ModesAssumption
    PROVE  Future!Spec => []Future!OnlyHandleCancels
<1>1. Future!IInv => Future!OnlyHandleCancels BY DEF Future!IInv
<1> QED BY <1>1, FutureInvariant, PTL

\* A future that finds the flag never polls its inner future again: only a poll
\* that was under way when discard ran can still return an output.
THEOREM FutureCancelIsFinal ==
    ASSUME Future!StepsAssumption, Future!ModesAssumption
    PROVE  Future!Spec => Future!NoPollAfterCancel
<1> DEFINE Kept == isCancelled /\ futurePc = "idle" =>
                  /\ futurePc' = "idle"
                  /\ result' = "output" => result = "output"
<1>1. ASSUME Future!TypeOK, Future!Step PROVE Kept
  BY <1>1
  DEF Future!Step, Future!PollStep, Future!Discard, Future!InnerStep,
      Future!PollFlag, Future!PollInner, Future!PollStoreWaker,
      Future!DropFuture, Future!TypeOK
<1>2. Future!TypeOK /\ [Future!Next]_<<futureMode, Future!vars>>
         => [Kept]_<<futureMode, Future!vars>>
  BY <1>1 DEF Future!Next
<1> QED BY <1>2, FutureTypeCorrect, PTL
        DEF Future!Spec, Future!NoPollAfterCancel
=============================================================================
