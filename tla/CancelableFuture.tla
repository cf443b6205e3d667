-------------------------- MODULE CancelableFuture --------------------------
(***************************************************************************)
(* cancelable_future (src/future.rs): a future and the handle that cancels *)
(* it, which share an is_cancelled flag and a waker slot under a mutex.    *)
(* The inner future makes progress in steps, and its last step completes   *)
(* it; it stores the waker of the poll that found it pending.              *)
(***************************************************************************)
EXTENDS Naturals

CONSTANTS
    Steps,          \* the inner future is ready after so many steps
    Modes           \* "single" thread or several "threads"

ASSUME StepsAssumption == Steps \in Nat
ASSUME ModesAssumption == Modes \subseteq {"single", "threads"}

VARIABLES
    mode,           \* chosen at the start
    progress,       \* steps the inner future has made
    innerWaker,     \* the inner future holds a waker
    isCancelled,    \* CancelableFutureState.is_cancelled
    waker,          \* CancelableFutureState.waker is Some
    handle,         \* the CancelableFutureHandle was not discarded yet
    pc,             \* where the running poll is
    woken,          \* the task will poll the future
    result          \* what poll returned, or that the future was dropped

vars == <<progress, innerWaker, isCancelled, waker, handle, pc, woken,
          result>>

Init ==
    /\ mode \in Modes
    /\ progress = 0
    /\ innerWaker = FALSE
    /\ isCancelled = FALSE
    /\ waker = FALSE
    /\ handle = TRUE
    /\ pc = "idle"
    /\ woken = TRUE
    /\ result = "none"

\* On one thread a call starts only when none is under way.
MayStart == mode = "threads" \/ pc = "idle"

\* Slip: the flag is set but the stored waker is not called.
Discard_Silent ==
    /\ MayStart
    /\ handle
    /\ handle' = FALSE
    /\ isCancelled' = (result = "none")
    /\ UNCHANGED <<progress, innerWaker, waker, pc, woken, result>>

\* discard, also run when the handle is dropped: under the mutex it sets the
\* flag and takes the waker, then wakes.  The Weak of a future that was
\* dropped or consumed cannot be upgraded.
Discard ==
    /\ MayStart
    /\ handle
    /\ handle' = FALSE
    /\ \/ /\ result = "none"
          /\ isCancelled' = TRUE
          /\ waker' = FALSE
          /\ woken' = (woken \/ waker)
       \/ /\ result # "none"
          /\ UNCHANGED <<isCancelled, waker, woken>>
    /\ UNCHANGED <<progress, innerWaker, pc, result>>

\* The inner future makes a step and wakes whoever polled it.
InnerStep ==
    /\ MayStart
    /\ progress < Steps
    /\ result = "none"
    /\ progress' = progress + 1
    /\ innerWaker' = FALSE
    /\ woken' = (woken \/ innerWaker)
    /\ UNCHANGED <<isCancelled, waker, handle, pc, result>>

\* poll loads the flag: a cancelled future drops the inner one, calls
\* when_cancelled and returns its output.
PollFlag ==
    /\ MayStart
    /\ pc = "idle"
    /\ result = "none"
    /\ woken' = FALSE
    /\ \/ /\ isCancelled
          /\ result' = "cancelled"
          /\ UNCHANGED pc
       \/ /\ ~isCancelled
          /\ pc' = "inner"
          /\ UNCHANGED result
    /\ UNCHANGED <<progress, innerWaker, isCancelled, waker, handle>>

\* Slip: the waker is stored even if the inner future is ready.
PollInner_StoresAlways ==
    /\ pc = "inner"
    /\ pc' = "waker"
    /\ innerWaker' = (innerWaker \/ progress < Steps)
    /\ result' = IF progress = Steps THEN "output" ELSE result
    /\ UNCHANGED <<progress, isCancelled, waker, handle, woken>>

\* The inner future is polled: its output is returned, or it keeps the waker.
PollInner ==
    /\ pc = "inner"
    /\ \/ /\ progress = Steps
          /\ result' = "output"
          /\ pc' = "idle"
          /\ UNCHANGED innerWaker
       \/ /\ progress < Steps
          /\ innerWaker' = TRUE
          /\ pc' = "waker"
          /\ UNCHANGED result
    /\ UNCHANGED <<progress, isCancelled, waker, handle, woken>>

\* Pending: the waker is stored for the handle as well.
PollStoreWaker ==
    /\ pc = "waker"
    /\ waker' = TRUE
    /\ pc' = "idle"
    /\ UNCHANGED <<progress, innerWaker, isCancelled, handle, woken, result>>

\* The owner drops the future before it is done.
DropFuture ==
    /\ MayStart
    /\ pc = "idle"
    /\ result = "none"
    /\ result' = "dropped"
    /\ UNCHANGED <<progress, innerWaker, isCancelled, waker, handle, pc, woken>>

PollStep == PollInner \/ PollStoreWaker

Step ==
    \/ Discard
    \/ InnerStep
    \/ PollFlag
    \/ PollStep
    \/ DropFuture

Next == Step /\ UNCHANGED mode

\* A poll that started ends, and a woken task is some day polled.
Fairness == WF_vars(PollStep) /\ SF_vars(woken /\ PollFlag)

Spec == Init /\ [][Next]_<<mode, vars>>

FairSpec == Spec /\ Fairness

-----------------------------------------------------------------------------
(* Properties.                                                             *)

\* Every variable has its type, and a poll that has its result is over.
TypeOK ==
    /\ mode \in Modes
    /\ progress \in 0..Steps
    /\ pc \in {"idle", "inner", "waker"}
    /\ result \in {"none", "output", "cancelled", "dropped"}
    /\ {innerWaker, isCancelled, waker, handle, woken} \subseteq BOOLEAN
    /\ result # "none" => pc = "idle"

\* Whatever calls overlap, a future whose inner future is ready is done; on one
\* thread one that is cancelled is done soon after, even if the inner future
\* never is.
EventuallyDone ==
    /\ progress = Steps ~> result # "none"
    /\ mode = "single" /\ isCancelled ~> result # "none"

-----------------------------------------------------------------------------
(* What the proofs need.                                                   *)

\* A future that is not done and will not be polled again by itself: the inner
\* future is not ready and holds the waker, and on one thread so does the
\* handle's side, which has not cancelled.
AsleepHeld ==
    /\ pc = "idle"
    /\ result = "none"
    /\ ~woken
    => /\ progress < Steps /\ innerWaker
       /\ mode = "single" => waker /\ ~isCancelled

\* The same while a poll is about to store the waker, and a poll on one thread
\* started because nothing was cancelled.
MidPoll ==
    /\ pc = "waker" /\ ~woken => progress < Steps /\ innerWaker
    /\ mode = "single" /\ pc # "idle" => ~isCancelled

\* Only the handle cancels, and only it explains a future that gave up.
OnlyHandleCancels ==
    /\ isCancelled => ~handle
    /\ result = "cancelled" => isCancelled

\* The strengthened invariant.
IInv ==
    /\ TypeOK
    /\ AsleepHeld
    /\ MidPoll
    /\ OnlyHandleCancels
    /\ innerWaker => progress < Steps

\* Once the flag is set no poll reaches the inner future any more, except the
\* one that is under way.
NoPollAfterCancel ==
    [][isCancelled /\ pc = "idle" =>
          /\ pc' = "idle"
          /\ result' = "output" => result = "output"]_<<mode, vars>>
=============================================================================
