--------------------------- MODULE MutableSignal ---------------------------
(***************************************************************************)
(* Mutable<A> and the signals made from it (src/signal/mutable.rs): the    *)
(* handles that share one MutableState, the RwLock around the value and    *)
(* the list of weak signal entries, and for every signal its ChangedWaker  *)
(* (an atomic flag and a waker slot under a mutex).                        *)
(*                                                                         *)
(* The value is known by its version.  Every atomic access and every lock  *)
(* acquisition of a poll, a clone, a drop and a signal() call is a step of *)
(* its own, so that calls of different threads interleave as they can in   *)
(* the program.                                                            *)
(***************************************************************************)
EXTENDS Naturals, FiniteSets

CONSTANTS
    Handles,        \* the Mutable handles that ever exist
    Signals,        \* the signals that are ever created
    NoOne,          \* nobody holds the write lock
    MaxVersion,     \* bound: the writers stop at this version
    Modes,          \* "threads": calls may overlap; "single": one at a time
    Repolls         \* TRUE when the owner polls again after Ready(Some)

ASSUME HandlesAssumption == IsFiniteSet(Handles) /\ Handles # {}
ASSUME NoOneAssumption == NoOne \notin Handles
ASSUME ModeAssumption ==
    Modes \subseteq {"single", "threads"} /\ Repolls \in BOOLEAN

VARIABLES
    mode,       \* chosen at the start, see Scheduling
    value,      \* MutableLockState.value, as a version
    senders,    \* MutableState.senders
    handle,     \* handle[h]: life of a Mutable handle
    signals,    \* MutableLockState.signals, the registered weak entries
    writer,     \* the handle whose call holds the write lock
    phase,      \* what that call is doing under the lock
    toNotify,   \* entries that notify has still to visit
    sig,        \* sig[s]: life of a signal
    changed,    \* ChangedWaker.changed
    waker,      \* a waker is stored in ChangedWaker.waker
    woken,      \* the task that owns the signal will poll it again
    pc,         \* where the running poll_change of a signal is
    seen,       \* last version the signal returned, 0 for none
    done        \* the signal returned Ready(None)

lockVars == <<writer, phase, toNotify>>
signalVars == <<sig, changed, waker, woken, pc, seen, done>>
vars == <<value, senders, handle, signals, lockVars, signalVars>>

HandleLife == {"none", "live", "ending", "dropped"}
SignalLife == {"none", "creating", "live", "dropped"}
Phases == {"free", "clean", "dirty", "notify", "closing"}
PollSteps == {"idle", "read", "senders", "waker"}

\* Slip: ChangedWaker::new starts with the flag cleared.
Init_FlagClear ==
    /\ mode \in Modes
    /\ value = 1
    /\ senders = 1
    /\ \E h \in Handles :
           handle = [g \in Handles |-> IF g = h THEN "live" ELSE "none"]
    /\ signals = {}
    /\ writer = NoOne
    /\ phase = "free"
    /\ toNotify = {}
    /\ sig = [s \in Signals |-> "none"]
    /\ changed = [s \in Signals |-> FALSE]
    /\ waker = [s \in Signals |-> FALSE]
    /\ woken = [s \in Signals |-> TRUE]
    /\ pc = [s \in Signals |-> "idle"]
    /\ seen = [s \in Signals |-> 0]
    /\ done = [s \in Signals |-> FALSE]

\* One handle exists (Mutable::new); a ChangedWaker starts with changed set,
\* and a task polls its signal as soon as it is spawned.
Init ==
    /\ mode \in Modes
    /\ value = 1
    /\ senders = 1
    /\ \E h \in Handles :
           handle = [g \in Handles |-> IF g = h THEN "live" ELSE "none"]
    /\ signals = {}
    /\ writer = NoOne
    /\ phase = "free"
    /\ toNotify = {}
    /\ sig = [s \in Signals |-> "none"]
    /\ changed = [s \in Signals |-> TRUE]
    /\ waker = [s \in Signals |-> FALSE]
    /\ woken = [s \in Signals |-> TRUE]
    /\ pc = [s \in Signals |-> "idle"]
    /\ seen = [s \in Signals |-> 0]
    /\ done = [s \in Signals |-> FALSE]

-----------------------------------------------------------------------------
(* Scheduling.  In mode "threads" calls overlap as they like.  On one      *)
(* thread a call runs to its end before the next one starts; a call is     *)
(* under way while the lock is held, while the last handle is being        *)
(* dropped, and while a signal is created or polled.                       *)

Quiet ==
    /\ phase = "free"
    /\ \A h \in Handles : handle[h] # "ending"
    /\ \A s \in Signals : pc[s] = "idle" /\ sig[s] # "creating"

MayStart == mode = "threads" \/ Quiet

-----------------------------------------------------------------------------
(* Writers.                                                                *)

Acquire(h, p) ==
    /\ phase = "free"
    /\ writer' = h
    /\ phase' = p

\* MutableLockState::notify starts: retain will visit every entry.
StartNotify(p) ==
    /\ phase' = p
    /\ toNotify' = signals

\* set, replace, replace_with, and set_if or set_neq when they do write: the
\* value is replaced and notify(true) starts under the same lock.  A set_if
\* whose condition is false changes nothing.
Set(h) ==
    /\ MayStart
    /\ handle[h] = "live"
    /\ value < MaxVersion
    /\ phase = "free"
    /\ writer' = h
    /\ value' = value + 1
    /\ StartNotify("notify")
    /\ UNCHANGED <<senders, handle, signals, signalVars>>

\* lock_mut: the guard holds the write lock until it is dropped.
LockMut(h) ==
    /\ MayStart
    /\ handle[h] = "live"
    /\ Acquire(h, "clean")
    /\ UNCHANGED <<value, senders, handle, signals, toNotify, signalVars>>

\* A write through the guard's deref_mut, which records that it mutated.
GuardWrite(h) ==
    /\ writer = h
    /\ phase \in {"clean", "dirty"}
    /\ value < MaxVersion
    /\ value' = value + 1
    /\ phase' = "dirty"
    /\ UNCHANGED <<senders, handle, signals, writer, toNotify, signalVars>>

\* Drop of the guard: notify(true) only if it mutated.
GuardDrop(h) ==
    /\ writer = h
    /\ \/ /\ phase = "clean"
          /\ writer' = NoOne
          /\ phase' = "free"
          /\ UNCHANGED toNotify
       \/ /\ phase = "dirty"
          /\ StartNotify("notify")
          /\ UNCHANGED writer
    /\ UNCHANGED <<value, senders, handle, signals, signalVars>>

\* Slip: the flag is stored only when a waker is there to be woken.
Wake_OnlyWithWaker(s, hasChanged) ==
    /\ changed' = [changed EXCEPT ![s] = @ \/ (hasChanged /\ waker[s])]
    /\ woken' = [woken EXCEPT ![s] = @ \/ waker[s]]
    /\ waker' = [waker EXCEPT ![s] = FALSE]

\* Slip: the waker is taken but not called.
Wake_Silent(s, hasChanged) ==
    /\ changed' = [changed EXCEPT ![s] = @ \/ hasChanged]
    /\ waker' = [waker EXCEPT ![s] = FALSE]
    /\ UNCHANGED woken

\* ChangedWaker::wake.  The flag and the taken waker change under the waker's
\* mutex, and no poll of the same signal gets past the read lock meanwhile, so
\* they are one step with the wake-up of the task.
Wake(s, hasChanged) ==
    /\ changed' = [changed EXCEPT ![s] = @ \/ hasChanged]
    /\ woken' = [woken EXCEPT ![s] = @ \/ waker[s]]
    /\ waker' = [waker EXCEPT ![s] = FALSE]

\* notify visits an entry whose signal is alive: wake it, keep the entry.
NotifyLive(s) ==
    /\ phase \in {"notify", "closing"}
    /\ s \in toNotify
    /\ sig[s] # "dropped"
    /\ Wake(s, phase = "notify")
    /\ toNotify' = toNotify \ {s}
    /\ UNCHANGED <<value, senders, handle, signals, writer, phase>>
    /\ UNCHANGED <<sig, pc, seen, done>>

\* notify visits an entry whose signal is gone: retain forgets it.
NotifyDead(s) ==
    /\ phase \in {"notify", "closing"}
    /\ s \in toNotify
    /\ sig[s] = "dropped"
    /\ signals' = signals \ {s}
    /\ toNotify' = toNotify \ {s}
    /\ UNCHANGED <<value, senders, handle, writer, phase, signalVars>>

\* Every entry was visited: the call returns and releases the lock.
NotifyEnd(h) ==
    /\ writer = h
    /\ phase = "notify"
    /\ toNotify = {}
    /\ writer' = NoOne
    /\ phase' = "free"
    /\ UNCHANGED <<value, senders, handle, signals, toNotify, signalVars>>

-----------------------------------------------------------------------------
(* Handles.                                                                *)

\* Slip: clone forgets the fetch_add.
Clone_NotCounted(h, new) ==
    /\ MayStart
    /\ handle[h] = "live"
    /\ handle[new] = "none"
    /\ handle' = [handle EXCEPT ![new] = "live"]
    /\ UNCHANGED <<value, senders, signals, lockVars, signalVars>>

\* Clone for Mutable: fetch_add, then the Arc is cloned.
Clone(h, new) ==
    /\ MayStart
    /\ handle[h] = "live"
    /\ handle[new] = "none"
    /\ senders' = senders + 1
    /\ handle' = [handle EXCEPT ![new] = "live"]
    /\ UNCHANGED <<value, signals, lockVars, signalVars>>

\* Drop for Mutable: fetch_sub; only the drop of the last handle goes on.
\* A guard borrows its handle, which therefore outlives it.
DropHandle(h) ==
    /\ MayStart
    /\ handle[h] = "live"
    /\ writer # h
    /\ senders' = senders - 1
    /\ handle' = [handle EXCEPT ![h] =
                     IF senders = 1 THEN "ending" ELSE "dropped"]
    /\ UNCHANGED <<value, signals, lockVars, signalVars>>

\* Slip: the last drop empties the list and notifies nobody.
DropLock_Silent(h) ==
    /\ handle[h] = "ending"
    /\ phase = "free"
    /\ signals' = {}
    /\ handle' = [handle EXCEPT ![h] = "dropped"]
    /\ UNCHANGED <<value, senders, lockVars, signalVars>>

\* The last drop takes the lock: with no entry there is nothing to do.
DropLock(h) ==
    /\ handle[h] = "ending"
    /\ phase = "free"
    /\ \/ /\ signals = {}
          /\ handle' = [handle EXCEPT ![h] = "dropped"]
          /\ UNCHANGED lockVars
       \/ /\ signals # {}
          /\ writer' = h
          /\ StartNotify("closing")
          /\ UNCHANGED handle
    /\ UNCHANGED <<value, senders, signals, signalVars>>

\* The last drop has notified everyone and empties the list.
DropEnd(h) ==
    /\ writer = h
    /\ phase = "closing"
    /\ toNotify = {}
    /\ signals' = {}
    /\ handle' = [handle EXCEPT ![h] = "dropped"]
    /\ writer' = NoOne
    /\ phase' = "free"
    /\ UNCHANGED <<value, senders, toNotify, signalVars>>

-----------------------------------------------------------------------------
(* Signals.                                                                *)

\* signal_state: the signal is registered only if a Mutable is left.  It is
\* called on a handle or on a ReadOnlyMutable, which may outlive them all.
CreateSignal(s) ==
    /\ MayStart
    /\ sig[s] = "none"
    /\ sig' = [sig EXCEPT ![s] = IF senders # 0 THEN "creating" ELSE "live"]
    /\ UNCHANGED <<value, senders, handle, signals, lockVars>>
    /\ UNCHANGED <<changed, waker, woken, pc, seen, done>>

\* signal_state takes the write lock and calls push_signal.
PushSignal(s) ==
    /\ sig[s] = "creating"
    /\ phase = "free"
    /\ signals' = signals \cup {s}
    /\ sig' = [sig EXCEPT ![s] = "live"]
    /\ UNCHANGED <<value, senders, handle, lockVars>>
    /\ UNCHANGED <<changed, waker, woken, pc, seen, done>>

\* The owner drops the signal: its weak entry stays until a notify meets it.
DropSignal(s) ==
    /\ MayStart
    /\ sig[s] = "live"
    /\ pc[s] = "idle"
    /\ sig' = [sig EXCEPT ![s] = "dropped"]
    /\ UNCHANGED <<value, senders, handle, signals, lockVars>>
    /\ UNCHANGED <<changed, waker, woken, pc, seen, done>>

\* Slip: the senders are looked at before the flag.
PollChanged_SendersFirst(s) ==
    /\ MayStart
    /\ sig[s] = "live"
    /\ pc[s] = "idle"
    /\ ~done[s]
    /\ woken' = [woken EXCEPT ![s] = FALSE]
    /\ changed' = [changed EXCEPT ![s] = FALSE]
    /\ pc' = [pc EXCEPT ![s] =
                 IF senders # 0 /\ changed[s] THEN "read" ELSE "senders"]
    /\ UNCHANGED <<value, senders, handle, signals, lockVars>>
    /\ UNCHANGED <<sig, waker, seen, done>>

\* poll_change, first step: is_changed() swaps the flag with false.
PollChanged(s) ==
    /\ MayStart
    /\ sig[s] = "live"
    /\ pc[s] = "idle"
    /\ ~done[s]
    /\ woken' = [woken EXCEPT ![s] = FALSE]
    /\ changed' = [changed EXCEPT ![s] = FALSE]
    /\ pc' = [pc EXCEPT ![s] = IF changed[s] THEN "read" ELSE "senders"]
    /\ UNCHANGED <<value, senders, handle, signals, lockVars>>
    /\ UNCHANGED <<sig, waker, seen, done>>

\* The value is read under the read lock and returned.  Ready leaves no waker
\* behind: the consumers of the crate (for_each, to_stream) then poll again.
PollRead(s) ==
    /\ pc[s] = "read"
    /\ phase = "free"
    /\ seen' = [seen EXCEPT ![s] = value]
    /\ woken' = [woken EXCEPT ![s] = @ \/ Repolls]
    /\ pc' = [pc EXCEPT ![s] = "idle"]
    /\ UNCHANGED <<value, senders, handle, signals, lockVars>>
    /\ UNCHANGED <<sig, changed, waker, done>>

\* Slip: the signal counts itself among the senders.
PollSenders_OneLeft(s) ==
    /\ pc[s] = "senders"
    /\ done' = [done EXCEPT ![s] = senders <= 1]
    /\ pc' = [pc EXCEPT ![s] = IF senders <= 1 THEN "idle" ELSE "waker"]
    /\ UNCHANGED <<value, senders, handle, signals, lockVars>>
    /\ UNCHANGED <<sig, changed, waker, woken, seen>>

\* Nothing changed: Ready(None) if no sender is left.
PollSenders(s) ==
    /\ pc[s] = "senders"
    /\ done' = [done EXCEPT ![s] = senders = 0]
    /\ pc' = [pc EXCEPT ![s] = IF senders = 0 THEN "idle" ELSE "waker"]
    /\ UNCHANGED <<value, senders, handle, signals, lockVars>>
    /\ UNCHANGED <<sig, changed, waker, woken, seen>>

\* set_waker, then Pending.
PollSetWaker(s) ==
    /\ pc[s] = "waker"
    /\ waker' = [waker EXCEPT ![s] = TRUE]
    /\ pc' = [pc EXCEPT ![s] = "idle"]
    /\ UNCHANGED <<value, senders, handle, signals, lockVars>>
    /\ UNCHANGED <<sig, changed, woken, seen, done>>

-----------------------------------------------------------------------------

\* Steps of a call that holds or waits for the write lock.
HandleStep(h) ==
    \/ GuardDrop(h)
    \/ NotifyEnd(h)
    \/ DropLock(h)
    \/ DropEnd(h)

\* A notify visits the entry of s.
NotifyVisit(s) == NotifyLive(s) \/ NotifyDead(s)

\* Steps of a signal() call and of a poll that have started.
SignalStep(s) ==
    \/ PushSignal(s)
    \/ PollRead(s)
    \/ PollSenders(s)
    \/ PollSetWaker(s)

Step ==
    \/ \E h \in Handles :
          \/ Set(h)
          \/ LockMut(h)
          \/ GuardWrite(h)
          \/ DropHandle(h)
          \/ HandleStep(h)
          \/ \E new \in Handles : Clone(h, new)
    \/ \E s \in Signals :
          \/ CreateSignal(s)
          \/ DropSignal(s)
          \/ PollChanged(s)
          \/ NotifyVisit(s)
          \/ SignalStep(s)

Next == Step /\ UNCHANGED mode

\* A call that has started is run to its end, a lock that is released again
\* and again is acquired some day by each call that waits for it, and the
\* executor some day polls a task that was woken, whatever else it runs in
\* between.  Nothing forces a task that was not woken to be polled, nor the
\* program to start a call.
Fairness ==
    /\ \A h \in Handles : SF_vars(HandleStep(h))
    /\ \A s \in Signals :
          /\ WF_vars(NotifyVisit(s))
          /\ SF_vars(SignalStep(s))
          /\ SF_vars(woken[s] /\ PollChanged(s))

Spec == Init /\ [][Next]_<<mode, vars>>

FairSpec == Spec /\ Fairness

-----------------------------------------------------------------------------
(* Properties.                                                             *)

\* Every variable has its type.
TypeOK ==
    /\ mode \in Modes
    /\ value \in Nat \ {0}
    /\ senders \in Nat
    /\ handle \in [Handles -> HandleLife]
    /\ signals \subseteq Signals
    /\ writer \in Handles \cup {NoOne}
    /\ phase \in Phases
    /\ toNotify \subseteq Signals
    /\ sig \in [Signals -> SignalLife]
    /\ changed \in [Signals -> BOOLEAN]
    /\ waker \in [Signals -> BOOLEAN]
    /\ woken \in [Signals -> BOOLEAN]
    /\ pc \in [Signals -> PollSteps]
    /\ seen \in [Signals -> Nat]
    /\ done \in [Signals -> BOOLEAN]

\* A write is never forgotten by the ChangedWaker protocol, whatever calls
\* overlap: a live signal that has not returned the current value has its flag
\* set, is about to read the value, or is still to be visited by the call that
\* wrote it.
LatestNotLost ==
    \A s \in Signals : sig[s] = "live" /\ seen[s] # value =>
        \/ changed[s]
        \/ pc[s] = "read"
        \/ phase = "dirty"
        \/ phase = "notify" /\ s \in toNotify

\* The count of Mutables is right through clones and drops of all threads, so
\* the signals end neither early nor never.
SendersCountsHandles ==
    senders = Cardinality({h \in Handles : handle[h] = "live"})

\* The first result of poll_change is Ready(Some): a signal that ended or left
\* a waker has returned a value before.
FirstPollReturnsValue ==
    \A s \in Signals : waker[s] \/ done[s] => seen[s] # 0

\* The task of s sleeps until it is woken.
Parked(s) ==
    sig[s] = "live" /\ pc[s] = "idle" /\ ~woken[s] /\ ~done[s]

\* The last Mutable is being dropped and its notify(false) will reach s.
EndComing(s) ==
    /\ \E h \in Handles : handle[h] = "ending"
    /\ phase = "closing" => s \in toNotify

\* On one thread no wake-up is lost: a sleeping task has left a waker, and it
\* has nothing to see, unless the last Mutable is about to wake it.
NoLostWakeup ==
    mode = "single" =>
        \A s \in Signals : Parked(s) =>
            \/ waker[s] /\ ~changed[s] /\ senders # 0
            \/ waker[s] /\ EndComing(s)

\* On one thread a signal that ended has returned the last value that was
\* ever written.
EndsWithLatest ==
  mode = "single" => \A s \in Signals : done[s] => seen[s] = value

\* On one thread a signal never returns the same version twice: a change is
\* reported once.
NoRepeat ==
    [][mode = "single" =>
           \A s \in Signals : PollRead(s) => seen[s] # value]_<<mode, vars>>

\* The abstract cell: reading under the lock is Emit, Ready(None) is End.
Cell == INSTANCE LatestValue WITH
    Observers <- Signals,
    version <- value,
    closed <- senders = 0,
    output <- seen,
    ended <- done

\* The signals show their Mutable as the abstract cell is shown: no value is
\* made up, none comes back, and no write follows the end.
RefinesCell == Cell!Spec

\* Every live signal is updated with the most recent value.
EventuallyLatest ==
    \A s \in Signals :
        sig[s] = "live" /\ seen[s] # value ~>
            seen[s] = value \/ sig[s] = "dropped"

\* When the last Mutable is dropped, every signal left ends.
EventuallyEnds ==
    \A s \in Signals :
        sig[s] = "live" /\ senders = 0 ~> done[s] \/ sig[s] = "dropped"

\* On one thread every live signal catches up with the most recent value, and
\* ends some day after the last Mutable was dropped.
SingleCatchesUp == mode = "single" => EventuallyLatest /\ EventuallyEnds

-----------------------------------------------------------------------------
(* The inductive invariant behind the properties above, in named parts.    *)

\* The write lock is held exactly while a call works under it: by a live
\* handle, or by the last one while it is dropped.
LockOwner ==
    /\ phase = "free" <=> writer = NoOne
    /\ phase \in {"clean", "dirty", "notify"} => handle[writer] = "live"
    /\ phase = "closing" => handle[writer] = "ending"

\* While a Mutable is left, every live signal is in the list of entries.
Registered ==
    \A s \in Signals : sig[s] = "live" /\ senders # 0 => s \in signals

\* A signal that has returned nothing yet has its flag set or reads the value.
FirstPollPending ==
    \A s \in Signals : seen[s] = 0 =>
        /\ changed[s] \/ pc[s] = "read"
        /\ pc[s] \in {"idle", "read"}
        /\ ~waker[s] /\ ~done[s]

\* A signal is polled only while it lives; one that ended has no sender.
SignalStates ==
    /\ \A h \in Handles : handle[h] = "ending" => senders = 0
    /\ \A s \in Signals :
          /\ sig[s] \in {"none", "creating"} =>
                 /\ changed[s] /\ woken[s]
                 /\ pc[s] = "idle" /\ seen[s] = 0
          /\ pc[s] # "idle" => sig[s] = "live" /\ ~done[s]
          /\ done[s] => senders = 0
          /\ seen[s] <= value

\* The inductive invariant, for calls of any number of threads.
IInv ==
    /\ TypeOK
    /\ SendersCountsHandles
    /\ LockOwner
    /\ Registered
    /\ FirstPollPending
    /\ SignalStates
    /\ LatestNotLost

\* One call at a time: what is under way excludes everything else.
OneCall ==
    /\ \A h \in Handles : handle[h] = "ending" => phase \in {"free", "closing"}
    /\ \A g, h \in Handles :
           handle[g] = "ending" /\ handle[h] = "ending" => g = h
    /\ \A s \in Signals : pc[s] # "idle" \/ sig[s] = "creating" =>
          /\ phase = "free"
          /\ \A h \in Handles : handle[h] # "ending"
          /\ \A t \in Signals \ {s} : pc[t] = "idle" /\ sig[t] # "creating"
          /\ sig[s] = "creating" => pc[s] = "idle"

\* On one thread, between its steps a poll still holds what it found; a flag
\* that is set announces a version the signal has not returned.
PollFacts ==
    /\ phase \in {"dirty", "notify"} => \A s \in Signals : seen[s] < value
    /\ \A s \in Signals :
          /\ changed[s] \/ pc[s] = "read" => seen[s] < value
          /\ pc[s] # "idle" => ~changed[s]
          /\ pc[s] = "waker" => senders # 0
          /\ done[s] => ~changed[s] /\ seen[s] = value

\* While the last Mutable is dropped, the signals are still registered.
EndingRegistered ==
    (\E h \in Handles : handle[h] = "ending") =>
        \A s \in Signals : sig[s] = "live" => s \in signals

\* The inductive invariant of one thread, on top of IInv.
SingleInv ==
    mode = "single" =>
        OneCall /\ PollFacts /\ EndingRegistered /\ NoLostWakeup
=============================================================================
