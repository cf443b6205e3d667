---------------------------- MODULE Broadcaster ----------------------------
(***************************************************************************)
(* Broadcaster (src/signal/broadcaster.rs): one input signal shared by     *)
(* many child signals.  A child whose swap of is_changed finds it set      *)
(* polls the input under the write lock, all others only look under the    *)
(* read lock; an epoch tells each child whether there is a new value.      *)
(* The input wakes the BroadcasterNotifier, which wakes every child.       *)
(*                                                                         *)
(* The input is a signal that keeps its own contract: it checks for a      *)
(* change and stores the waker in one step.                                *)
(***************************************************************************)
EXTENDS Naturals

CONSTANTS
    Children,       \* the child signals that are ever created
    NoOne,          \* nobody holds the write lock
    MaxVersion,     \* bound: the input stops at this version
    Modes           \* "single" thread or several "threads"

ASSUME NoOneAssumption == NoOne \notin Children
ASSUME MaxVersionAssumption == MaxVersion \in Nat \ {0}
ASSUME ModesAssumption == Modes \subseteq {"single", "threads"}

VARIABLES
    mode,           \* chosen at the start
    source,         \* version the input holds
    sourceEnded,    \* the input has no further version
    delivered,      \* last version the input returned to poll_signal
    sourceWaker,    \* the input holds the notifier's waker
    waking,         \* what the input's call of the waker is doing
    toWake,         \* children that notify has still to visit
    isChanged,      \* BroadcasterNotifier.is_changed
    wakers,         \* BroadcasterNotifier.wakers
    value,          \* BroadcasterInnerState.value, 0 for None
    alive,          \* BroadcasterInnerState.signal is Some
    epoch,          \* BroadcasterInnerState.epoch
    fresh,          \* changed in poll_signal
    writer,         \* the child that holds the write lock
    child,          \* child[c]: life of a child signal
    pc,             \* where the running poll_change of a child is
    waker,          \* a waker is stored in the child's ChangedWaker
    woken,          \* the task that owns the child will poll it
    childEpoch,     \* BroadcasterState.epoch
    seen,           \* last version the child returned, 0 for none
    done            \* the child returned Ready(None)

sourceVars == <<source, sourceEnded, delivered, sourceWaker>>
notifierVars == <<waking, toWake, isChanged, wakers>>
innerVars == <<value, alive, epoch, fresh, writer>>
childVars == <<child, pc, waker, woken, childEpoch, seen, done>>
vars == <<sourceVars, notifierVars, innerVars, childVars>>

Init ==
    /\ mode \in Modes
    /\ source = 1
    /\ sourceEnded = FALSE
    /\ delivered = 0
    /\ sourceWaker = FALSE
    /\ waking = "idle"
    /\ toWake = {}
    /\ isChanged = TRUE
    /\ wakers = {}
    /\ value = 0
    /\ alive = TRUE
    /\ epoch = 0
    /\ fresh = FALSE
    /\ writer = NoOne
    /\ child = [c \in Children |-> "none"]
    /\ pc = [c \in Children |-> "idle"]
    /\ waker = [c \in Children |-> FALSE]
    /\ woken = [c \in Children |-> TRUE]
    /\ childEpoch = [c \in Children |-> 0]
    /\ seen = [c \in Children |-> 0]
    /\ done = [c \in Children |-> FALSE]

\* On one thread a call starts only when none is under way.
Quiet == waking = "idle" /\ \A c \in Children : pc[c] = "idle"

MayStart == mode = "threads" \/ Quiet

-----------------------------------------------------------------------------
(* The input signal and the notifier.                                      *)

\* The input changes or ends, and takes the waker to call it.
SourceChange ==
    /\ MayStart
    /\ waking = "idle"
    /\ ~sourceEnded
    /\ \/ /\ source < MaxVersion
          /\ source' = source + 1
          /\ UNCHANGED sourceEnded
       \/ /\ sourceEnded' = TRUE
          /\ UNCHANGED source
    /\ sourceWaker' = FALSE
    /\ waking' = IF sourceWaker THEN "wake" ELSE "idle"
    /\ UNCHANGED <<delivered, toWake, isChanged, wakers, innerVars, childVars>>

\* notify locks the list of wakers and sets is_changed.
NotifyStart ==
    /\ waking = "wake"
    /\ waking' = "notify"
    /\ isChanged' = TRUE
    /\ toWake' = wakers
    /\ UNCHANGED <<wakers, sourceVars, innerVars, childVars>>

\* Slip: the visited entry is not kept.
NotifyVisit_Forgets(c) ==
    /\ waking = "notify"
    /\ c \in toWake
    /\ toWake' = toWake \ {c}
    /\ wakers' = wakers \ {c}
    /\ waker' = [waker EXCEPT ![c] = FALSE]
    /\ woken' = [woken EXCEPT ![c] = @ \/ waker[c]]
    /\ UNCHANGED <<waking, isChanged, sourceVars, innerVars>>
    /\ UNCHANGED <<child, pc, childEpoch, seen, done>>

\* retain visits an entry: a live child is woken with wake(false), a dead one
\* is forgotten.
NotifyVisit(c) ==
    /\ waking = "notify"
    /\ c \in toWake
    /\ toWake' = toWake \ {c}
    /\ \/ /\ child[c] # "dropped"
          /\ waker' = [waker EXCEPT ![c] = FALSE]
          /\ woken' = [woken EXCEPT ![c] = @ \/ waker[c]]
          /\ UNCHANGED wakers
       \/ /\ child[c] = "dropped"
          /\ wakers' = wakers \ {c}
          /\ UNCHANGED <<waker, woken>>
    /\ UNCHANGED <<waking, isChanged, sourceVars, innerVars>>
    /\ UNCHANGED <<child, pc, childEpoch, seen, done>>

\* notify releases the list.
NotifyEnd ==
    /\ waking = "notify"
    /\ toWake = {}
    /\ waking' = "idle"
    /\ UNCHANGED <<toWake, isChanged, wakers, sourceVars, innerVars, childVars>>

-----------------------------------------------------------------------------
(* Children.                                                               *)

\* BroadcasterState::new registers the child under the lock of the list.
CreateChild(c) ==
    /\ MayStart
    /\ child[c] = "none"
    /\ waking # "notify"
    /\ wakers' = wakers \cup {c}
    /\ child' = [child EXCEPT ![c] = "live"]
    /\ UNCHANGED <<waking, toWake, isChanged, sourceVars, innerVars>>
    /\ UNCHANGED <<pc, waker, woken, childEpoch, seen, done>>

DropChild(c) ==
    /\ MayStart
    /\ child[c] = "live"
    /\ pc[c] = "idle"
    /\ child' = [child EXCEPT ![c] = "dropped"]
    /\ UNCHANGED <<sourceVars, notifierVars, innerVars>>
    /\ UNCHANGED <<pc, waker, woken, childEpoch, seen, done>>

Goto(c, step) == pc' = [pc EXCEPT ![c] = step]

\* poll starts: notifier.is_changed() swaps the flag with false.
PollSwap(c) ==
    /\ MayStart
    /\ child[c] = "live"
    /\ pc[c] = "idle"
    /\ ~done[c]
    /\ isChanged' = FALSE
    /\ woken' = [woken EXCEPT ![c] = FALSE]
    /\ Goto(c, IF isChanged THEN "write" ELSE "read")
    /\ UNCHANGED <<waking, toWake, wakers, sourceVars, innerVars>>
    /\ UNCHANGED <<child, waker, childEpoch, seen, done>>

\* The children that hold the read lock.
Readers == {c \in Children : pc[c] \in {"compare", "waker"} /\ c # writer}

\* inner.write(): poll_signal has nothing to poll once the input ended.
LockWrite(c) ==
    /\ pc[c] = "write"
    /\ writer = NoOne /\ Readers = {}
    /\ writer' = c
    /\ Goto(c, IF alive THEN "polling" ELSE "compare")
    /\ UNCHANGED <<sourceVars, notifierVars, value, alive, epoch, fresh>>
    /\ UNCHANGED <<child, waker, woken, childEpoch, seen, done>>

\* inner.read().
LockRead(c) ==
    /\ pc[c] = "read"
    /\ writer = NoOne
    /\ Goto(c, "compare")
    /\ UNCHANGED <<sourceVars, notifierVars, innerVars>>
    /\ UNCHANGED <<child, waker, woken, childEpoch, seen, done>>

\* One turn of the loop in poll_signal that gets a value.
PollValue(c) ==
    /\ pc[c] = "polling"
    /\ delivered # source
    /\ delivered' = source
    /\ value' = source
    /\ fresh' = TRUE
    /\ UNCHANGED <<source, sourceEnded, sourceWaker, notifierVars>>
    /\ UNCHANGED <<alive, epoch, writer, childVars>>

\* Slip: the epoch moves even if the loop got no value.
PollLast_AlwaysMoves(c) ==
    /\ pc[c] = "polling"
    /\ delivered = source
    /\ alive' = ~sourceEnded
    /\ sourceWaker' = ~sourceEnded
    /\ epoch' = epoch + 1
    /\ fresh' = FALSE
    /\ Goto(c, "compare")
    /\ UNCHANGED <<source, sourceEnded, delivered, notifierVars>>
    /\ UNCHANGED <<value, writer, child, waker, woken, childEpoch, seen, done>>

\* The last turn: Ready(None) drops the input, Pending leaves the waker with
\* it.  The epoch moves once, however many values the loop got.
PollLast(c) ==
    /\ pc[c] = "polling"
    /\ delivered = source
    /\ alive' = ~sourceEnded
    /\ sourceWaker' = ~sourceEnded
    /\ epoch' = IF fresh THEN epoch + 1 ELSE epoch
    /\ fresh' = FALSE
    /\ Goto(c, "compare")
    /\ UNCHANGED <<source, sourceEnded, delivered, notifierVars>>
    /\ UNCHANGED <<value, writer, child, waker, woken, childEpoch, seen, done>>

\* The lock that c holds is released when poll returns.
Unlock(c) == writer' = IF writer = c THEN NoOne ELSE writer

\* Slip: Ready(Some) forgets to take over the epoch.
CompareChanged_Stays(c) ==
    /\ pc[c] = "compare"
    /\ epoch # childEpoch[c]
    /\ seen' = [seen EXCEPT ![c] = value]
    /\ woken' = [woken EXCEPT ![c] = TRUE]
    /\ Goto(c, "idle")
    /\ Unlock(c)
    /\ UNCHANGED <<sourceVars, notifierVars, value, alive, epoch, fresh>>
    /\ UNCHANGED <<child, waker, childEpoch, done>>

\* The epoch moved: Ready(Some), after which the task polls again.
CompareChanged(c) ==
    /\ pc[c] = "compare"
    /\ epoch # childEpoch[c]
    /\ childEpoch' = [childEpoch EXCEPT ![c] = epoch]
    /\ seen' = [seen EXCEPT ![c] = value]
    /\ woken' = [woken EXCEPT ![c] = TRUE]
    /\ Goto(c, "idle")
    /\ Unlock(c)
    /\ UNCHANGED <<sourceVars, notifierVars, value, alive, epoch, fresh>>
    /\ UNCHANGED <<child, waker, done>>

\* Slip: the input is asked whether it ended, not poll_signal's record of it.
CompareEnded_AsksInput(c) ==
    /\ pc[c] = "compare"
    /\ epoch = childEpoch[c]
    /\ sourceEnded
    /\ done' = [done EXCEPT ![c] = TRUE]
    /\ Goto(c, "idle")
    /\ Unlock(c)
    /\ UNCHANGED <<sourceVars, notifierVars, value, alive, epoch, fresh>>
    /\ UNCHANGED <<child, waker, woken, childEpoch, seen>>

\* The epoch did not move and the input is gone: Ready(None).
CompareEnded(c) ==
    /\ pc[c] = "compare"
    /\ epoch = childEpoch[c]
    /\ ~alive
    /\ done' = [done EXCEPT ![c] = TRUE]
    /\ Goto(c, "idle")
    /\ Unlock(c)
    /\ UNCHANGED <<sourceVars, notifierVars, value, alive, epoch, fresh>>
    /\ UNCHANGED <<child, waker, woken, childEpoch, seen>>

\* The epoch did not move: the waker has to be stored, under the same lock.
CompareSame(c) ==
    /\ pc[c] = "compare"
    /\ epoch = childEpoch[c]
    /\ alive
    /\ Goto(c, "waker")
    /\ UNCHANGED <<sourceVars, notifierVars, innerVars>>
    /\ UNCHANGED <<child, waker, woken, childEpoch, seen, done>>

\* set_waker, then Pending.
SetWaker(c) ==
    /\ pc[c] = "waker"
    /\ waker' = [waker EXCEPT ![c] = TRUE]
    /\ Goto(c, "idle")
    /\ Unlock(c)
    /\ UNCHANGED <<sourceVars, notifierVars, value, alive, epoch, fresh>>
    /\ UNCHANGED <<child, woken, childEpoch, seen, done>>

-----------------------------------------------------------------------------

Notify == NotifyStart \/ NotifyEnd \/ \E c \in Children : NotifyVisit(c)

PollStep(c) ==
    \/ LockWrite(c)
    \/ LockRead(c)
    \/ PollValue(c)
    \/ PollLast(c)
    \/ CompareChanged(c)
    \/ CompareEnded(c)
    \/ CompareSame(c)
    \/ SetWaker(c)

Step ==
    \/ SourceChange
    \/ Notify
    \/ \E c \in Children :
          \/ CreateChild(c)
          \/ DropChild(c)
          \/ PollSwap(c)
          \/ PollStep(c)

Next == Step /\ UNCHANGED mode

\* Calls that started run to their end, locks are granted some day, and a
\* woken task is some day polled whatever else the executor runs in between.
Fairness ==
    /\ WF_vars(Notify)
    /\ \A c \in Children :
          /\ SF_vars(PollStep(c))
          /\ SF_vars(woken[c] /\ PollSwap(c))

Spec == Init /\ [][Next]_<<mode, vars>>

FairSpec == Spec /\ Fairness

-----------------------------------------------------------------------------
(* Properties.                                                             *)

\* Every variable has its type.
TypeOK ==
    /\ mode \in Modes
    /\ source \in 1..MaxVersion
    /\ delivered \in 0..source
    /\ value \in 0..source
    /\ sourceEnded \in BOOLEAN /\ sourceWaker \in BOOLEAN
    /\ waking \in {"idle", "wake", "notify"}
    /\ toWake \subseteq Children /\ wakers \subseteq Children
    /\ isChanged \in BOOLEAN /\ alive \in BOOLEAN /\ fresh \in BOOLEAN
    /\ epoch \in 0..MaxVersion
    /\ writer \in Children \cup {NoOne}
    /\ child \in [Children -> {"none", "live", "dropped"}]
    /\ pc \in [Children -> {"idle", "write", "read", "polling", "compare",
                            "waker"}]
    /\ waker \in [Children -> BOOLEAN]
    /\ woken \in [Children -> BOOLEAN]
    /\ childEpoch \in [Children -> 0..MaxVersion]
    /\ seen \in [Children -> 0..MaxVersion]
    /\ done \in [Children -> BOOLEAN]

\* Whoever polls the input, comparing epochs is comparing values: a child has
\* the epoch of the broadcaster exactly when it has returned its value, and it
\* ends with the last value of the input.
EpochTellsValue ==
    \A c \in Children :
        /\ writer = NoOne => (childEpoch[c] = epoch <=> seen[c] = value)
        /\ done[c] => seen[c] = source

\* The broadcaster as the abstract cell whose writer is poll_signal.
Cell == INSTANCE LatestValue WITH
    Observers <- Children,
    version <- value,
    closed <- ~alive,
    output <- seen,
    ended <- done

\* The children see the abstract cell, whatever calls overlap.
RefinesCell == Cell!Spec

\* On one thread every child is updated with the most recent value of the input.
EventuallyLatest ==
    \A c \in Children :
        mode = "single" /\ child[c] = "live" /\ seen[c] # source ~>
            seen[c] = source \/ child[c] = "dropped"

\* On one thread, when the input ends, every child ends.
EventuallyEnds ==
    \A c \in Children :
        mode = "single" /\ child[c] = "live" /\ sourceEnded ~>
            done[c] \/ child[c] = "dropped"

\* On one thread no child is left asleep by what another child did.
SingleCatchesUp == EventuallyLatest /\ EventuallyEnds

-----------------------------------------------------------------------------
(* What the proofs need beside the properties: the invariants are          *)
(* inductive.                                                              *)

\* The lock: a writer is alone, and whoever polls the input is the writer.
LockOwner ==
    /\ writer # NoOne => pc[writer] \in {"polling", "compare", "waker"}
    /\ \A c \in Children :
          /\ pc[c] = "polling" => writer = c
          /\ writer \notin {c, NoOne} => pc[c] \in {"idle", "write", "read"}

\* The input is polled only while it is there, and is gone only when it has
\* ended and its last version was taken.
InputPolled ==
    /\ value = delivered
    /\ writer # NoOne /\ pc[writer] = "polling" => alive
    /\ ~alive => sourceEnded /\ delivered = source
    /\ fresh => writer # NoOne /\ pc[writer] = "polling"

\* The epoch counts the loops that got a value, the running one not included;
\* a child that has the epoch has the value, unless the loop just got one.
EpochCounts ==
    /\ epoch + (IF fresh THEN 1 ELSE 0) <= value
    /\ \A c \in Children :
          /\ childEpoch[c] <= epoch
          /\ IF fresh THEN seen[c] < value
             ELSE seen[c] <= value /\ (childEpoch[c] = epoch <=> seen[c] = value)

ChildEnds ==
    \A c \in Children :
        done[c] => pc[c] = "idle" /\ seen[c] = source /\ ~alive

\* The inductive invariant.
IInv == TypeOK /\ LockOwner /\ InputPolled /\ EpochCounts /\ ChildEnds

\* On one thread either the input calls the waker, or one child is polled.
OneCall ==
    \A c \in Children : pc[c] # "idle" =>
        /\ waking = "idle"
        /\ ~isChanged
        /\ \A d \in Children : pc[d] # "idle" => d = c

\* On one thread a clear flag means that the input has been asked since it
\* last changed, or is being asked: it has the notifier's waker, or has ended.
FlagTells ==
    /\ waking = "notify" => isChanged
    /\ /\ waking = "idle"
       /\ ~isChanged
       /\ \A c \in Children : pc[c] \notin {"write", "polling"}
       => /\ delivered = source
          /\ alive <=> ~sourceEnded
          /\ alive => sourceWaker
    /\ \A c \in Children :
          pc[c] = "waker" => alive /\ childEpoch[c] = epoch

\* Live children are on the list; the task of a child still to come is awake.
Registered ==
    \A c \in Children :
        /\ child[c] = "live" => c \in wakers
        /\ child[c] = "none" => woken[c]

\* A child whose task sleeps.
Asleep(c) == child[c] = "live" /\ pc[c] = "idle" /\ ~woken[c] /\ ~done[c]

\* On one thread a sleeping child can be woken; and it has the version of the
\* input and the next change will wake it, or notify has it still to visit.
NoChildForgotten ==
    mode = "single" => \A c \in Children : Asleep(c) =>
        /\ waker[c]
        /\ \/ waking = "wake"
           \/ waking = "notify" /\ c \in toWake
           \/ /\ waking = "idle"
              /\ seen[c] = source
              /\ ~sourceEnded /\ sourceWaker

\* Whatever the input may owe to sleepers, no flag is set and no poll running.
SleepersUndisturbed ==
    \A c \in Children : Asleep(c) /\ waking = "idle" =>
        /\ ~isChanged
        /\ \A d \in Children : pc[d] \notin {"write", "polling"}

SingleInv ==
    /\ NoChildForgotten
    /\ mode = "single" =>
          OneCall /\ FlagTells /\ Registered /\ SleepersUndisturbed
=============================================================================
