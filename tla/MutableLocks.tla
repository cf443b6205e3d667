---------------------------- MODULE MutableLocks ----------------------------
(***************************************************************************)
(* Several Mutables at once (src/signal/mutable.rs).  Each has a RwLock.   *)
(* Mutable::swap takes two of them.  Code that is not the crate's runs     *)
(* while a lock is held: the callbacks of replace_with, set_if and         *)
(* signal_ref, what the program does while it keeps a guard, and the waker *)
(* that notify calls; it may call a Mutable again.  So locks nest, and     *)
(* this module is about which programs that is safe for, and about what    *)
(* readers and signals see of a swap.  What a signal does without the lock *)
(* is modelled in MutableSignal; here each Mutable has one signal, of      *)
(* which only the flag matters.                                            *)
(***************************************************************************)
EXTENDS Naturals, Sequences, FiniteSets

CONSTANTS
    Mutables,
    Threads,
    NoOne,          \* nobody holds a write lock
    Initial,        \* the values at the start
    Orders,         \* the ways of nesting locks that programs may have
    MaxCalls        \* bound: the program makes this many calls

ASSUME MutablesAssumption ==
    /\ IsFiniteSet(Mutables)
    /\ Initial \in [Mutables -> Nat \ {0}]
ASSUME ThreadsAssumption == NoOne \notin Threads
ASSUME OrdersAssumption == Orders \subseteq SUBSET (Mutables \X Mutables)

VARIABLES
    order,      \* <<m, n>>: the program may ask for n while it holds m
    owner,      \* owner[m]: the thread that has m's write lock
    readers,    \* readers[m]: the threads that have m's read lock
    stack,      \* stack[t]: the nested calls of a thread, innermost last
    value,      \* MutableLockState.value
    changed,    \* ChangedWaker.changed of the signal of a Mutable
    seen,       \* the value that signal returned last, 0 for none
    calls,      \* number of calls made so far
    written     \* number of values written so far, and name of the last

lockVars == <<owner, readers>>
dataVars == <<value, changed, seen, written>>
vars == <<order, lockVars, stack, dataVars, calls>>

\* A call in progress.  "write" is set, replace, replace_with, set_if or the
\* life of a lock_mut guard; signal(), and the drop of the last handle, whose
\* notify(false) calls wakers, are one that changes nothing.  "read" is get or
\* the life of a lock_ref guard, "poll" the poll_change of the signal.
Calls == {"write", "swap", "read", "poll"}

\* Where a call is:
\*   "flag"       a poll, before it swaps the flag
\*   "lock"       waits for its lock
\*   "other"      a swap that has the first lock waits for the second
\*   "inside"     has its lock and has changed nothing
\*   "half"       a swap in the middle of mem::swap
\*   "dirty"      the value is changed, no signal knows
\*   "told"       the signal is told, its waker is called
\*   "toldOther"  a swap has told the second signal too
\*   "last"       a swap has released the second lock
Places == {"flag", "lock", "other", "inside", "half", "dirty", "told",
           "toldOther", "last"}

\* on is the Mutable called, other the argument of swap, kept what mem::swap
\* holds in its hand.
Frames == [call : Calls, on : Mutables, other : Mutables, at : Places,
           kept : Nat]

Init ==
    /\ order \in Orders
    /\ owner = [m \in Mutables |-> NoOne]
    /\ readers = [m \in Mutables |-> {}]
    /\ stack = [t \in Threads |-> <<>>]
    /\ value = Initial
    /\ changed = [m \in Mutables |-> TRUE]
    /\ seen = [m \in Mutables |-> 0]
    /\ calls = 0
    /\ written = 0

-----------------------------------------------------------------------------

Busy(t) == stack[t] # <<>>
Top(t) == stack[t][Len(stack[t])]

\* The innermost call of t is a call of this kind, at this place.
In(t, kinds, at) == Busy(t) /\ Top(t).call \in kinds /\ Top(t).at = at

Holds(t) == {m \in Mutables : owner[m] = t \/ t \in readers[m]}
Free(m) == owner[m] = NoOne /\ readers[m] = {}

\* The innermost call goes on to another place, or returns.
GoTo(t, at) == stack' = [stack EXCEPT ![t][Len(stack[t])].at = at]
Return(t) == stack' = [stack EXCEPT ![t] = SubSeq(@, 1, Len(@) - 1)]

\* The code of the program runs inside the innermost call: a callback, the
\* scope of a guard, or a waker.
Foreign(t) ==
    \/ Top(t).at \in {"told", "toldOther"}
    \/ Top(t).at \in {"inside", "dirty"} /\ Top(t).call # "swap"

\* The program asks for the locks of f, now or later, only in its order.
InOrder(t, f) ==
    /\ \A m \in Holds(t) : <<m, f.on>> \in order
    /\ f.call = "swap" =>
          \A m \in Holds(t) \cup {f.on} : <<m, f.other>> \in order

\* A signal is polled by one task at a time.
Polled(m) ==
    \E t \in Threads : \E i \in 1..Len(stack[t]) :
        stack[t][i].call = "poll" /\ stack[t][i].on = m

\* A thread, or the code that one of its calls runs, calls a Mutable.
Call(t, c, m, n) ==
    LET f == [call |-> c, on |-> m, other |-> n, kept |-> 0,
              at |-> IF c = "poll" THEN "flag" ELSE "lock"]
    IN  /\ calls < MaxCalls
        /\ Busy(t) => Foreign(t)
        /\ c # "swap" => m = n
        /\ c = "poll" => ~Polled(m)
        /\ InOrder(t, f)
        /\ calls' = calls + 1
        /\ stack' = [stack EXCEPT ![t] = Append(@, f)]
        /\ UNCHANGED <<order, lockVars, dataVars>>

-----------------------------------------------------------------------------
(* Locks.  Whether a reader gets past a writer that waits is left to the   *)
(* platform by RwLock: here it may.                                        *)

\* Slip: swap takes the lock of its argument first.
WriteLock_OtherFirst(t) ==
    LET f == Top(t)
        first == IF f.call = "swap" THEN f.other ELSE f.on
    IN  /\ In(t, {"write", "swap"}, "lock")
        /\ Free(first)
        /\ owner' = [owner EXCEPT ![first] = t]
        /\ stack' = [stack EXCEPT ![t][Len(stack[t])] =
                         [f EXCEPT !.on = first, !.other = f.on,
                            !.at = IF f.call = "swap" THEN "other"
                                                      ELSE "inside"]]
        /\ UNCHANGED <<order, readers, dataVars, calls>>

WriteLock(t) ==
    /\ In(t, {"write", "swap"}, "lock")
    /\ Free(Top(t).on)
    /\ owner' = [owner EXCEPT ![Top(t).on] = t]
    /\ GoTo(t, IF Top(t).call = "swap" THEN "other" ELSE "inside")
    /\ UNCHANGED <<order, readers, dataVars, calls>>

\* Slip: swap works on its argument without the lock.
OtherLock_NotTaken(t) ==
    /\ In(t, {"swap"}, "other")
    /\ GoTo(t, "inside")
    /\ UNCHANGED <<order, lockVars, dataVars, calls>>

\* The second lock of swap.
OtherLock(t) ==
    /\ In(t, {"swap"}, "other")
    /\ Free(Top(t).other)
    /\ owner' = [owner EXCEPT ![Top(t).other] = t]
    /\ GoTo(t, "inside")
    /\ UNCHANGED <<order, readers, dataVars, calls>>

\* The read lock of get, lock_ref and of a poll, which reads the value at once.
\* A thread that reads already does not get the lock again: RwLock promises
\* that to nobody.
ReadLock(t) ==
    LET m == Top(t).on
    IN  /\ In(t, {"read", "poll"}, "lock")
        /\ owner[m] = NoOne
        /\ t \notin readers[m]
        /\ readers' = [readers EXCEPT ![m] = @ \cup {t}]
        /\ seen' = IF Top(t).call = "poll"
                      THEN [seen EXCEPT ![m] = value[m]]
                      ELSE seen
        /\ GoTo(t, "inside")
        /\ UNCHANGED <<order, owner, value, changed, written, calls>>

\* The read lock is released when the callback has returned.
ReadEnd(t) ==
    /\ In(t, {"read", "poll"}, "inside")
    /\ readers' = [readers EXCEPT ![Top(t).on] = @ \ {t}]
    /\ Return(t)
    /\ UNCHANGED <<order, owner, dataVars, calls>>

-----------------------------------------------------------------------------
(* set, replace, replace_with, set_if, lock_mut.                           *)

\* The value is replaced.
Write(t) ==
    /\ In(t, {"write"}, "inside")
    /\ written' = written + 1
    /\ value' = [value EXCEPT ![Top(t).on] =
                     Cardinality(Mutables) + written + 1]
    /\ GoTo(t, "dirty")
    /\ UNCHANGED <<order, lockVars, changed, seen, calls>>

\* notify(true) stores the flag and calls the waker.
Notify(t) ==
    /\ In(t, {"write", "swap"}, "dirty")
    /\ changed' = [changed EXCEPT ![Top(t).on] = TRUE]
    /\ GoTo(t, "told")
    /\ UNCHANGED <<order, lockVars, value, seen, written, calls>>

\* Slip: the lock is released by notify only.
WriteEnd_OnlyTold(t) ==
    /\ In(t, {"write"}, "inside") \/ In(t, {"write"}, "told")
    /\ owner' = [owner EXCEPT ![Top(t).on] =
                     IF Top(t).at = "told" THEN NoOne ELSE @]
    /\ Return(t)
    /\ UNCHANGED <<order, readers, dataVars, calls>>

\* The call returns: notify is done, or the guard or set_if changed nothing.
WriteEnd(t) ==
    /\ In(t, {"write"}, "inside") \/ In(t, {"write"}, "told")
    /\ owner' = [owner EXCEPT ![Top(t).on] = NoOne]
    /\ Return(t)
    /\ UNCHANGED <<order, readers, dataVars, calls>>

-----------------------------------------------------------------------------
(* swap, with both locks.                                                  *)

\* mem::swap, which only the locks make one step: the first value is
\* overwritten, then the second.
SwapFirst(t) ==
    /\ In(t, {"swap"}, "inside")
    /\ value' = [value EXCEPT ![Top(t).on] = value[Top(t).other]]
    /\ stack' = [stack EXCEPT ![t][Len(stack[t])].at = "half",
                              ![t][Len(stack[t])].kept = value[Top(t).on]]
    /\ UNCHANGED <<order, lockVars, changed, seen, written, calls>>

SwapSecond(t) ==
    /\ In(t, {"swap"}, "half")
    /\ value' = [value EXCEPT ![Top(t).other] = Top(t).kept]
    /\ GoTo(t, "dirty")
    /\ UNCHANGED <<order, lockVars, changed, seen, written, calls>>

\* Slip: swap tells the signals of its own Mutable only.
NotifyOther_Silent(t) ==
    /\ In(t, {"swap"}, "told")
    /\ GoTo(t, "toldOther")
    /\ UNCHANGED <<order, lockVars, dataVars, calls>>

NotifyOther(t) ==
    /\ In(t, {"swap"}, "told")
    /\ changed' = [changed EXCEPT ![Top(t).other] = TRUE]
    /\ GoTo(t, "toldOther")
    /\ UNCHANGED <<order, lockVars, value, seen, written, calls>>

\* The guards go in the reverse order of their making.
UnlockOther(t) ==
    /\ In(t, {"swap"}, "toldOther")
    /\ owner' = [owner EXCEPT ![Top(t).other] = NoOne]
    /\ GoTo(t, "last")
    /\ UNCHANGED <<order, readers, dataVars, calls>>

SwapEnd(t) ==
    /\ In(t, {"swap"}, "last")
    /\ owner' = [owner EXCEPT ![Top(t).on] = NoOne]
    /\ Return(t)
    /\ UNCHANGED <<order, readers, dataVars, calls>>

-----------------------------------------------------------------------------
(* poll_change.                                                            *)

\* is_changed: the flag is swapped with false.  A flag that was clear ends
\* the poll, with Pending as far as this module goes.
PollFlag(t) ==
    /\ In(t, {"poll"}, "flag")
    /\ changed' = [changed EXCEPT ![Top(t).on] = FALSE]
    /\ IF changed[Top(t).on] THEN GoTo(t, "lock") ELSE Return(t)
    /\ UNCHANGED <<order, lockVars, value, seen, written, calls>>

-----------------------------------------------------------------------------

\* A call that has started goes on.
GoOn(t) ==
    \/ WriteLock(t)
    \/ OtherLock(t)
    \/ ReadLock(t)
    \/ ReadEnd(t)
    \/ Write(t)
    \/ Notify(t)
    \/ WriteEnd(t)
    \/ SwapFirst(t)
    \/ SwapSecond(t)
    \/ NotifyOther(t)
    \/ UnlockOther(t)
    \/ SwapEnd(t)
    \/ PollFlag(t)

Next ==
    \E t \in Threads :
        \/ GoOn(t)
        \/ \E c \in Calls, m, n \in Mutables : Call(t, c, m, n)

\* Threads that can go on do so.
Fairness == \A t \in Threads : WF_vars(GoOn(t))

Spec == Init /\ [][Next]_vars

FairSpec == Spec /\ Fairness

-----------------------------------------------------------------------------
(* Properties.                                                             *)

\* The call f has the write lock of m, or the read lock.
HasWrite(f, m) ==
    \/ /\ f.call \in {"write", "swap"} /\ f.on = m
       /\ f.at # "lock"
    \/ /\ f.call = "swap" /\ f.other = m
       /\ f.at \notin {"lock", "other", "last"}

HasRead(f, m) == f.call \in {"read", "poll"} /\ f.on = m /\ f.at = "inside"

Typed ==
    /\ order \in Orders
    /\ owner \in [Mutables -> Threads \cup {NoOne}]
    /\ readers \in [Mutables -> SUBSET Threads]
    /\ stack \in [Threads -> Seq(Frames)]
    /\ value \in [Mutables -> Nat]
    /\ changed \in [Mutables -> BOOLEAN]
    /\ seen \in [Mutables -> Nat]
    /\ calls \in Nat
    /\ written \in Nat

\* The locks are held by calls at work, and a writer is alone.
HeldByCalls ==
    /\ \A m \in Mutables : owner[m] # NoOne => readers[m] = {}
    /\ \A t \in Threads, m \in Mutables :
          /\ owner[m] = t <=>
                 \E i \in 1..Len(stack[t]) : HasWrite(stack[t][i], m)
          /\ t \in readers[m] <=>
                 \E i \in 1..Len(stack[t]) : HasRead(stack[t][i], m)

\* Every variable has its type, a lock that is held is held by a call at work,
\* and a writer is alone.
TypeOK == Typed /\ HeldByCalls

\* The Mutable whose lock t waits for, if any.
Wants(t) ==
    IF ~Busy(t) THEN {}
    ELSE IF Top(t).at = "lock" THEN {Top(t).on}
    ELSE IF Top(t).at = "other" THEN {Top(t).other}
    ELSE {}

Writing(t) == Top(t).call \in {"write", "swap"}

\* t waits for u: for its lock, or, when t reads, for its turn behind u.
WaitsFor(t, u) ==
    \E m \in Wants(t) :
        \/ owner[m] = u
        \/ u \in readers[m] /\ (Writing(t) \/ u = t)
        \/ ~Writing(t) /\ m \in Wants(u) /\ Writing(u)

Deadlocked(W) == W # {} /\ \A t \in W : \E u \in W : WaitsFor(t, u)

\* Orders for which the Mutables can be numbered so that locks are asked for
\* downwards only.
Acyclic ==
    {o \in Orders : \E rank \in [Mutables -> 1..Cardinality(Mutables)] :
        \A m, n \in Mutables : <<m, n>> \in o => rank[m] > rank[n]}

Ordered == order \in Acyclic

\* The answer to the question in swap: it can dead lock, but not in a program
\* that asks for locks, swap's second and those of nested calls included, in
\* one order.
NoDeadlock ==
    \A W \in SUBSET Threads : Deadlocked(W) => ~Ordered

\* In such a program every call returns, whatever it nests.
CallsReturn == \A t \in Threads : Ordered /\ Busy(t) ~> ~Busy(t)

\* The call f will tell the signal of m.
WillTell(f, m) ==
    \/ f.on = m /\ f.at \in {"half", "dirty"}
    \/ f.call = "swap" /\ f.other = m /\ f.at \in {"dirty", "told"}

\* The poll f will read the value of m.
WillRead(f, m) == f.call = "poll" /\ f.on = m /\ f.at = "lock"

\* Neither signal misses a swap, nor a write: one that has not returned the
\* value has its flag set, will be told, or reads the value.
LatestNotLost ==
    \A m \in Mutables : seen[m] # value[m] =>
        \/ changed[m]
        \/ \E t \in Threads : \E i \in 1..Len(stack[t]) :
              WillTell(stack[t][i], m) \/ WillRead(stack[t][i], m)

\* The threads whose innermost call has overwritten m and not yet the other
\* Mutable of its swap.
HalfOn(m) == {t \in Threads : In(t, {"swap"}, "half") /\ Top(t).on = m}

\* What the Mutables hold when a swap that is half done is not counted.
Content ==
    [m \in Mutables |->
        IF HalfOn(m) = {} THEN value[m]
        ELSE Top(CHOOSE t \in HalfOn(m) : TRUE).kept]

Cells == INSTANCE AtomicCells WITH
    Cells <- Mutables, content <- Content, output <- seen

\* A swap is one step for every reader: no signal shows a value that a half
\* done swap has duplicated, and no write falls into it.
RefinesCells == Cells!Spec

-----------------------------------------------------------------------------
(* What the proofs need beside the properties: the invariant is inductive. *)

\* No two calls of a thread have the same lock, nor one call twice.
OneCallEach ==
    \A t \in Threads : \A i \in 1..Len(stack[t]) :
        /\ \A j \in 1..Len(stack[t]), m \in Mutables :
              \/ HasWrite(stack[t][i], m) /\ HasWrite(stack[t][j], m)
              \/ HasRead(stack[t][i], m) /\ HasRead(stack[t][j], m)
              => i = j
        /\ stack[t][i].call = "swap" /\ stack[t][i].at \notin {"lock", "other"}
              => stack[t][i].on # stack[t][i].other

\* A call in which others are nested runs code of the program.
OuterForeign ==
    \A t \in Threads : \A i \in 1..(Len(stack[t]) - 1) :
        \/ stack[t][i].at \in {"told", "toldOther"}
        \/ stack[t][i].at \in {"inside", "dirty"} /\ stack[t][i].call # "swap"

\* A call that has still to get its locks asks for them in the order.
AskedInOrder ==
    \A t \in Threads : Busy(t) =>
        /\ Top(t).at \in {"flag", "lock"} => InOrder(t, Top(t))
        /\ Top(t).at = "other" =>
              \A m \in Holds(t) : <<m, Top(t).other>> \in order

\* A swap that is half done has made its two values equal.
HalfSwapped ==
    \A t \in Threads : In(t, {"swap"}, "half") =>
        value[Top(t).on] = value[Top(t).other]

\* The inductive invariant.
IInv ==
    /\ TypeOK
    /\ OneCallEach
    /\ OuterForeign
    /\ AskedInOrder
    /\ HalfSwapped
    /\ LatestNotLost

=============================================================================
