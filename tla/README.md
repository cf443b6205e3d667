# futures-signals in TLA+

TLA+ models of [futures-signals](../src/README.md) (`src/src/`), the TLC
configurations that check them on small instances, and TLAPS proofs that hold for
every instance. The crate is a library of *signals*: values and collections
that change over time, polled by tasks of an executor. What it has to get right
is seldom in one function. It is in the agreement between a writer, a flag, a
waker and a poll, between a diff and the contents that a consumer has built so
far, and between the several inputs of a combinator.

Contents:
[1 The system](#1-the-system) ·
[2 The modules](#2-the-modules) ·
[3 What the runs check](#3-what-the-runs-check) ·
[4 Fairness](#4-fairness) ·
[5 What is proved](#5-what-is-proved) ·
[6 What the code gets wrong](#6-what-the-code-gets-wrong) ·
[7 What is not modelled](#7-what-is-not-modelled) ·
[8 Plan](#8-plan)

    tlc -workers 2 -config MCMutableSignal.cfg MCMutableSignal
    tlapm MutableSignal_proofs.tla

## 1 The system

### Contracts

A `Signal` (`signal/signal.rs:16`) returns `Ready(Some(v))` when it is first
polled, later `Pending` until its value changes, `Ready(Some(v))` for a change,
and `Ready(None)` when it has ended; it may skip values but never the latest. A
`SignalVec` returns `VecDiff`s, a `SignalMap` `MapDiff`s, none of which may be
skipped: the consumer rebuilds the collection from them. A poll that returns
`Pending` has stored the task's waker wherever something can still change. Each
consumer of the crate (`to_future`, `for_each`, `to_stream`) polls again after a
value, until `Pending`; `Ready` leaves no waker behind.

### Components

| component | source | state | operations | interacts with |
|---|---|---|---|---|
| `Mutable`, `ReadOnlyMutable` and their signals | `signal/mutable.rs` | count of handles (`senders`, atomic); behind an `RwLock` the value and a list of weak entries; for each signal a `ChangedWaker` (atomic flag, waker under a mutex) | `set`, `replace`, `replace_with`, `set_if`, `set_neq`, `lock_mut` and its guard, `swap`, `clone`, drop, `signal*`, `poll_change` | writers wake the tasks of signals under the write lock |
| `channel` | `signal/channel.rs`, `atomic.rs` | three atomics: the cell (`AtomicOption`), the waker, the count of `Sender`s; the receiver's weak link | `send`, `close`, `clone`, drop, `poll_change` of the `Receiver` | the same hand-shake with no lock at all |
| `Broadcaster` | `signal/broadcaster.rs` | the input signal, its last value and an epoch under an `RwLock`; a `BroadcasterNotifier` (flag and list of weak `ChangedWaker`s); per child a `ChangedWaker` and an epoch | creation and drop of children, `poll_change` of a child, `notify` by the input's waker | whichever child is polled first polls the input for all |
| `cancelable_future` | `future.rs` | shared flag and waker slot, the inner future | `poll`, `discard` by the handle (or its drop) | handle and task on different threads |
| `MutableVec` | `signal_vec.rs` | behind an `RwLock` the `Vec` and the list of queues' senders | `push`, `insert`, `set`, `remove`, `pop`, `move_from_to`, `swap`, `reverse`, `retain`, `truncate`, `drain`, `clear`, `replace`, `apply_vec_diff`, `signal_vec*`, drop | sends every diff to every receiver |
| `SignalVec` filter, sort, enumerate | `signal_vec.rs` | what was let through; values and sorted indexes; the `Mutable` index of each value | `poll_vec_change` | translate the diffs of one input |
| `SignalVec` to `Signal` | `signal_vec.rs` | `len`, last answer, contents | `poll_change` of `Len`, `IsEmpty`, `ToSignalMap`, `SumSignal` | as above |
| `MutableBTreeMap` | `signal_map.rs` | behind an `RwLock` the map and the senders | `insert`, `remove`, `clear`, `replace`, `get_mut`, `signal_map`, `signal_vec_keys`, `entries`, `key_cloned`, drop | as `MutableVec`; the readers keep sorted keys or the value of one key |
| `Signal` combinators | `signal/signal.rs` | the input signals or futures still alive, last value, a "first" flag | `poll_change`/`poll` of each | one or two inputs, each may change between two turns of one poll |
| `map_ref!`, `map_mut!`, `and`, `or`, `not` | `internal.rs`, `signal/macros.rs` | for each input the signal while it lives and its last value | `poll_change` | left, then right |
| `chain`, `flatten`, `switch_signal_vec` | `signal_vec.rs`, `signal/signal.rs` | lengths of the inputs, pending diffs | `poll_vec_change` | several `SignalVec`s at once |
| `map_signal`, `filter_signal_cloned`, `map_value_signal`, `delay_remove` | `signal_vec.rs`, `signal_map.rs` | a `Signal` or `Future` for every value, pending diffs | `poll_vec_change` | a `SignalVec` or `SignalMap` and the signals or futures of its values |
| `SignalVec` map and conversions | `signal_vec.rs` | none of their own | `poll_vec_change` | apply a callback to each diff, or delegate |
| `SignalMap` combinators | `signal_map.rs` | `map_value`: none; `map_value_signal`: see above; `key_cloned`: a "first" flag | `poll_map_change`, `poll_change` | one input |
| crate root, tutorial | `lib.rs`, `signal/mod.rs` | — | — | quoted where a property is about it |

### What is hard

* **Interleaving.** `Mutable`, `channel`, `Broadcaster` and `cancelable_future`
  are shared by threads and coordinate with a few atomic accesses: the order of
  the flag, the value, the count of senders and the waker decides whether a
  change is lost (`mutable.rs:104-117`, `channel.rs:118-136`,
  `broadcaster.rs:96-195`, `future.rs:25-80`).
* **Ordering of events on one thread.** Executors poll when they like: between
  two polls, and between two turns of a poll of a combinator, inputs change, end,
  or both (`signal.rs:1280`, `:1344`, `:1608`, `internal.rs:69`).
* **Stale state.** A queue of diffs holds the past; an adapter that translates
  an index has to count with the contents of the moment the diff was made, and
  its own bookkeeping may be ahead (`signal_vec.rs:815`, `:1195`, `:2073`).
* **Locks that nest.** `swap` takes the locks of two Mutables, and the crate calls
  callbacks and wakers while it holds one: other Mutables, or the same, may be
  asked for in between, and threads may wait for each other in a circle
  (`mutable.rs:69`, `:281`).
* **Compound operations.** `retain`, `drain`, `swap`, `reverse` send several
  diffs of which receivers see any prefix (`signal_vec.rs:2940`, `:3244`).
* **Liveness.** Returning `Pending` without asking every live input for a
  wake-up leaves the task asleep for ever (`signal_vec.rs:964`, `:1899`, `:2040`).
* **Life cycles.** Signals and receivers come and go at any time, handles are
  cloned and dropped, a `ReadOnlyMutable` outlives all `Mutable`s.

Nothing is persisted and there is no network: crashes, restarts and message loss
do not occur. A dropped receiver is the only "failed" party. `PROJECT.json`
lists each hazard with its line and with the properties that cover it.

### What correct means

* `Mutable`, `channel`, `Broadcaster`: each is a *most-recent-value cell*: an
  observer is given only versions that were written, never an older one after a
  newer one, and the end only after the last writer is gone (`LatestValue`). The
  `close` of a channel weakens that, if it overtakes a call (`ClosableCell`).
  A live observer is some day given the latest version, and some day told of the
  end, after the last value.
* Several `Mutable`s: a `swap` is one step for every reader and both signals learn
  of it (`AtomicCells`); a program that asks for locks in one order does not
  deadlock, whatever it nests.
* `cancelable_future`: done when the inner future is; done soon after `discard`.
* `MutableVec`, `MutableBTreeMap`: at any time the next diff fits what a receiver
  has built, and a receiver that has taken every diff has the contents.
* Adapters: the output is the input mapped, filtered, sorted, joined, ... as a function
  of the *contents*, although computed diff by diff; no diff panics; a sleeping
  task is up to date and every input that can change has its waker; the end is
  passed on.

## 2 The modules

One version number stands for a written value where only its identity and age
matter (`Mutable`, `channel`, `Broadcaster`); in the collections values come from
a small set. A task is a flag `woken`: a waker sets it, a poll clears it.

| module | models | built from |
|---|---|---|
| `LatestValue` | the abstract most-recent-value cell: `Write`, `Close`, `Emit`, `End` | |
| `ClosableCell` | the same with a `close` that may overtake calls under way | extends `LatestValue` |
| `MutableSignal` | `Mutable` and its signals | refines `LatestValue` |
| `AtomicCells` | the abstract cells: write one, exchange two, show one, each a step | |
| `MutableLocks` | several `Mutable`s, their locks, `swap`, nested calls | refines `AtomicCells` |
| `SignalChannel` | `channel`, `AtomicOption` | refines `ClosableCell` |
| `Broadcaster` | `Broadcaster` and its children | refines `LatestValue` |
| `CancelableFuture` | `cancelable_future` | |
| `VecDiffs` | `VecDiff`: `Apply`, `Applicable`, `LegalDiffs`, `MapVecDiff` | |
| `MapDiffs` | `MapDiff`: the same for maps | |
| `MutableVec` | `MutableVec` and its receivers | `VecDiffs` |
| `VecFilter`, `VecSort`, `VecEnumerate`, `VecValue` | the adapters of one input as pure step functions | `VecDiffs` |
| `VecAdapters` | an input, `map` or one of those adapters, a task | the four above |
| `VecSources` | inputs that a combinator polls: queue, waker, end | `VecDiffs` |
| `VecChain`, `VecNested`, `VecSignals`, `VecDelay` | `Chain`; `Flatten`, `SwitchSignalVec`; `MapSignal`, `FilterSignalCloned`; `DelayRemove`, as pure step functions | `VecSources` |
| `MapSignals` | `MapValueSignal`, likewise | `VecSignals`, `MapDiffs` |
| `VecJoins` | the inputs, one of those combinators, a task | the five above |
| `MutableBTreeMap` | the map, its senders and five kinds of readers | `VecDiffs`, `MapDiffs` |
| `SignalTurns` | what every `Signal` combinator makes of one answer of an input, as pure functions | |
| `SignalAdapters` | the inputs, one combinator, a task | `SignalTurns` |
| `VecFollows` | no code: the notions in which the proofs about `VecAdapters` and `VecJoins` are written, and the invariants of chain and switch_signal_vec | `VecAdapters`, `VecChain`, `VecNested` |
| `MC*` | values of the constants for TLC | the module they are named after |
| `*_proofs` | theorems (section 5); those about `CancelableFuture` are in `Broadcaster_proofs`, those about `VecChain`, `VecNested` and `VecJoins` in `VecAdapters_proofs` | the module they are named after |

**`MutableSignal`.** `senders`, `value`, `signals` are the fields of
`MutableState` and `MutableLockState`; `writer`, `phase` and `toNotify` say who
holds the write lock and how far its call is; `changed`, `waker` are a
`ChangedWaker`. `Set` is every call that writes and notifies, `LockMut`,
`GuardWrite`, `GuardDrop` a guard (which notifies only if it was written
through), `NotifyLive`/`NotifyDead`/`NotifyEnd` the `retain` of `notify`,
`DropHandle`, `DropLock`, `DropEnd` the drop, `CreateSignal` and `PushSignal`
`signal_state` (the count is loaded *before* the lock is taken), and
`PollChanged`, `PollRead`, `PollSenders`, `PollSetWaker` are `poll_change` access
by access. `ChangedWaker::wake` is one step: its accesses are under the mutex, in
the writer's critical section. The variable `mode`, chosen at the start and never
changed, is `"threads"`, or `"single"`: no call starts while another is under way.
`Repolls` says that the consumer polls again
after a value; `FALSE` is a consumer that waits to be woken instead.

**`SignalChannel`, `Broadcaster`, `CancelableFuture`** do the same with the
accesses of their sources, and have a `mode` too. The counter of
`SignalChannel` is an unsigned word (`UsizeModulus`); its history variables
`closed` and `overtaken` are written by `CloseStore`, and no guard reads them. The input of a `Broadcaster`
is any signal that keeps its contract: it changes (`SourceChange`), wakes the
notifier if it has its waker, and ends.

**`MutableLocks`** looks at what `MutableSignal` takes for granted, the locks. Every
thread has a stack of calls; a frame says which `Mutable` the call is on and how far
it is. Where code of the program runs under a lock (the callbacks of
`replace_with`, `set_if` and `signal_ref`, the life of a guard, a waker called by
`notify`) the thread may make another call, on any `Mutable`. `swap` takes its own
lock, then the other's, exchanges the values in two assignments, tells both
signals, and releases in the reverse order. `order`, chosen at the start, says
which `Mutable` the program may ask for while it holds which. Of a signal only the
flag and the last value are left, and `poll_change` is the flag and the read.

**`MutableVec`** has the contents, the senders and, for each receiver, its queue
and the copy that it built. Operations of one diff are one action. Those of
several (`loop`) go on one diff at a time under the write lock while receivers
poll. `values` keeps what `retain` and `drain` leave only at their end; the
receivers follow the diffs. **`MutableBTreeMap`** is like it; `kind` selects
what its readers are, `map_value` among them.

**`VecAdapters`, `SignalAdapters`, `VecJoins`** close a combinator with an
environment: inputs that do whatever their contract allows, and a task that is
woken, polls until `Pending` or the end, and applies what it gets. The
combinator is chosen at the start (`adapter`, `kind`), so that one run covers
them all. In `SignalAdapters` a poll has a step for each input polled, and the
inputs may change in between. In `VecAdapters` it has a step for each diff. A
poll of `VecJoins` is one step; there the inputs act only when the combinator has
no pending diff, because a poll that merely returns one touches no input, so that
whatever happens before it may as well happen after it.

## 3 What the runs check

| run | instance | distinct states | properties |
|---|---|---|---|
| `MCMutableSignal` | 2 handles, 2 signals, 3 versions, both modes, with fairness | 313,748 | `TypeOK`, `LatestNotLost`, `SendersCountsHandles`, `FirstPollReturnsValue`, `NoLostWakeup`, `EndsWithLatest`, `RefinesCell`, `SingleCatchesUp` |
| `MCMutableSignal_lost_wakeup` | 1 signal, overlapping calls | — | `EventuallyLatest` is violated (section 6) |
| `MCMutableLocks` | 3 Mutables, 3 threads, 3 calls, 4 orders of locks | 491,030 | `TypeOK`, `NoDeadlock`, `LatestNotLost`, `RefinesCells`, `CallsReturn` |
| `MCSignalChannel` | 3 senders, 3 sends, word of 8, both modes | 392,608 | `TypeOK`, `SendersCounted`, `RefinesCell`, `SingleCatchesUp` |
| `MCBroadcaster` | 2 children, 3 versions, both modes | 119,382 | `TypeOK`, `EpochTellsValue`, `RefinesCell`, `SingleCatchesUp` |
| `MCCancelableFuture` | 8 steps of the inner future, both modes | 511 | `TypeOK`, `EventuallyDone` |
| `MCMutableVec` | 2 receivers, 2 values, length 3, queue 1, symmetry | 465,621 | `TypeOK`, `DiffsApply`, `ViewsAgree`, `LoopsReachGoal` |
| `MCVecAdapters` | 8 adapters, length 3, queue 1 | 453,487 | `TypeOK`, `OutputFollowsInput`, `EventuallyTaken` |
| `MCVecAdapters_filter_move` | filter with `Move` | — | `OutputFollowsInput` is violated (section 6) |
| `MCMutableBTreeMap` | 2 readers of 5 kinds, 3 keys, 2 values, queue 1, symmetry | 5,221,937 | `TypeOK`, `ReadersAgree` |
| `MCSignalAdapters` | every combinator, 3 values | 45,748 | `TypeOK`, `AsleepUpToDate`, `EndsRight`, `ReturnsNews`, `EventuallyEnds` |
| `MCVecJoins` | 7 combinators, length 2 or 2 keys, inner vectors of 2, 2 queued diffs | 2,929,956 | `TypeOK`, `OutputFollowsInputs`, `EndIsTold` |

**Across threads** (mode `"threads"`): no write is forgotten by the flags and
lists, the senders are counted right, the cells never show an older value after a
newer one, and nothing is written after the end, with one exception. `close` of a
`channel` overlaps the other calls too, and may store 0 when a send, clone or drop has
passed `has_senders` (`overtaken`): `RefinesCell` and `SendersCounted` of
`SignalChannel` say that only then a value is stored after the end, or the count
is not 0 after a close. **On one thread** (`mode =
"single"`, where `NoLostWakeup`, `EndsWithLatest` and `SingleCatchesUp` say
something) no wake-up is lost: every observer catches up with the last value and
ends. `EpochTellsValue` says that comparing epochs is comparing values, the idea on
which `Broadcaster` rests.

**Locks.** The code asks of `swap` whether it can deadlock (`mutable.rs:280`). It
can: the run reaches it for orders with a cycle, a cycle of one among them
(a callback or waker that calls its own `Mutable`). `NoDeadlock` and `CallsReturn`
answer when it cannot: `Ordered` programs, in which the pairs of `swap` and all
nested calls go down in one numbering of the Mutables. `RefinesCells` says that
the exchange is one step for every reader, although it is two assignments, and
`LatestNotLost` that neither signal misses it.

`DiffsApply`, `ViewsAgree` and `ReadersAgree` hold in the *middle* of a compound
operation too, for receivers created and dropped at any time. `LoopsReachGoal`
compares the Moves that `swap` and `reverse` send with a swap and a reversal.

`OutputFollowsInput(s)` compares the output, built diff by diff, with a function
of the contents (`Expected`, `Whole`): the values that pass for filter, a stable sort,
concatenation, and so on. `Passed` and `SumOf` are
written without recursive operators, for the proofs; TLC compares them with `SelectSeq` and
`FoldLeft` in `MCVecAdapters`. Whenever the task sleeps `AsleepUpToDate`, `Listens` and
`EndIsTold` demand that nothing is owed to it and that every input that can still
change has its waker.

### Bounds, and why they are enough

* Two handles, two signals: one clone that overlaps the last drop, one signal
  that is notified while another is created, polled or dropped. Three versions:
  the one seen, one missed, one that arrives during a poll. All properties speak
  of one or two signals at a time; the theorems of section 5 are for any number.
* Locks: three threads and three Mutables are needed for a circle of three, two for
  the pair that is swapped both ways, one for a call from a callback. Three calls
  are one for each of three threads, or three nested ones of one thread, or two
  nested ones and a third in the way. A reader may get past a waiting writer or not, as `RwLock`
  leaves it to the platform: `WaitsFor` counts both as waiting.
* Channel: three `Sender`s let two drops and a clone overlap, or a close and two
  calls that it overtakes. Word of 8: larger
  than any count that is reached, except by wrapping around, so that shows as a wrong count.
* `Broadcaster`: two children let one poll the input while the other is in the
  middle of `poll_change`.
* Length 3 makes first, middle and last positions different, and a `Move` over
  an element; queue 1 (or 2 in `VecJoins`) makes receivers lag behind, which is
  all that the queue can do, since the sender never looks at it. A receiver that
  is further behind sees the same diffs in the same order.
* Three keys: below, at and above the watched one.
* Values: the sets have elements that the callbacks treat alike and ones that
  they tell apart (kept or not, equal rank, same image, the target or not).
* `MaxVersion`, `MaxSent`, `MaxCalls`, `Steps`, `MaxLen`, `MaxQueue`, `MaxQueued`,
  `MaxPart`, `MaxDelayed` only stop the *environment* (writers and inputs) from
  doing more; no step of the code's own is cut off by them.

`CHECK_DEADLOCK FALSE` is set because these systems stop when the bounded writers
are done and the tasks sleep or have ended; that nobody sleeps who should not is
what the liveness properties and `NoLostWakeup`, `AsleepUpToDate` and `EndIsTold` say.

Every property is broken by at least one small change of the modelled code, such
as a dropped `fetch_add`, an index off by one, a flag that is set too late. Those
changed operators stand before the ones they are variants of, in comments called
*Slip*, and are listed under `mutants`.

## 4 Fairness

Nothing forces the program to write, to clone or to drop; nobody polls a task
that was not woken. What is assumed:

* a call that has started runs to its end, and a notification visits every
  entry: the code has no unbounded loop and waits only for locks. Where a call
  waits for a lock that others may take again and again, strong fairness says
  that it is granted some day;
* a task that was woken is polled some day (`SF` where the executor and other
  threads may repeatedly get in between, `WF` where nothing disables the poll).

Inputs write only finitely often (the bounds), as the documentation asks for no
promise to a consumer that is always behind. In `MutableLocks` a thread that can go
on does (`WF`): with finitely many calls no lock is taken from a waiting thread
for ever, so `CallsReturn` is about deadlock, not about the fairness of `RwLock`.

## 5 What is proved

TLC checks the instances of section 3. The theorems of the `*_proofs` modules are
about any instance: any set of signals, receivers, threads, keys or values, any
bound. What they assume is named in the modules: sets that are counted
are finite (`HandlesAssumption`, `SendersAssumption`, `MutablesAssumption`), bounds
are numbers, names for "nobody" and "nothing" stand for nothing else (`NoOneAssumption`,
`NoValueAssumption`), the word can count the `Sender`s (`ModulusAssumption`), and keys
are ordered like integers (`KeysAssumption`). TLC evaluates each of them in a run.

The theorems about the instances `Future` and `Join` have the assumptions of
`CancelableFuture` and `VecJoins` that they need as hypotheses, since an instance does not
bring them. Three further hypotheses leave out what the code gets wrong (section 6), and
no more: `NoFilteredMoves` (filter gets no `Move`), `NothingAwkward` (no input of chain sends
a `Replace` or `Clear` of nothing by nothing) and `SwitchesOf` (no vector of the Signal
of switch_signal_vec is both empty and gone). The passing runs make the same choices.

Every module has the same skeleton. `IInv`, at the end of the modelling module, is
the property strengthened until one step preserves it; TLC has checked it on a
small instance. In the proof module there is a lemma for `Init`, one for each action,
and `InductiveInvariant` (`Spec => []IInv`) that joins them; each further theorem
follows from `IInv`, or from `IInv` and one step. For chain and switch_signal_vec the
invariant (`JoinHolds`) speaks of sequences of any length that are not in the state; it stands in
`VecFollows`, and TLC has only checked what follows from it.

| module | theorems about the runs' properties | and |
|---|---|---|
| `MutableSignal_proofs` | `TypeOK`, `SendersCountsHandles`, `LatestNotLost`, `FirstPollReturnsValue`, `RefinesCell`; on one thread and if the consumer repolls `NoLostWakeup`, `EndsWithLatest` | `SingleNoRepeat`: on one thread no version is returned twice |
| `MutableLocks_proofs` | `TypeOK`, `LatestNotLost`, `NoDeadlock`, `RefinesCells` | |
| `SignalChannel_proofs` | `TypeOK`, `SendersCounted`, `RefinesCell` | on one thread no receiver sleeps through a value or the end, and it ends with the last value |
| `Broadcaster_proofs` | `TypeOK`, `EpochTellsValue`, `RefinesCell` | on one thread no sleeping child is forgotten |
| the same, `Future!` | `TypeOK` of `CancelableFuture` | a sleeping future is held by what can wake it; only the handle cancels; after `discard` no new poll reaches the inner future |
| `MutableVec_proofs` | `TypeOK`, `DiffsApply`, `ViewsAgree`, `LoopsReachGoal` | |
| `MutableBTreeMap_proofs` | `TypeOK`, `ReadersAgree` | `KeyInserted`, `EntryInserted`: where the search puts a new key |
| `SignalAdapters_proofs` | `TypeOK`, `AsleepUpToDate`, `EndsRight`, `ReturnsNews` | |
| `VecAdapters_proofs` | `TypeOK`, `OutputFollowsInput`, if filter gets no `Move` | `MapFollows`, `FilterFollows`, `ValueFollows`, `EnumerateFollows`, `SortFollows`: what each adapter makes of one diff |
| the same, `Join!` | `TypeOK`, `OutputFollowsInputs`, `EndIsTold` of `VecJoins`, when `kind` is chain or switch_signal_vec | `ChainFollows`, `SwitchFollows`: what a poll makes of any state; `InnerFollows`: what flatten makes of a diff of an inner vector |

### Why the invariants hold

**`Mutable`**, in three layers. `Base`: types, `SendersCountsHandles` and `LockOwner`.
The count needs the lock's owner: a guard borrows its handle, so a live handle is
behind every write; `senders - 1` stays a natural number because the handle that is
dropped is one of those counted (`LiveHandleCounted`). `SignalPart`: `LatestNotLost`
is not inductive. A write must meet every live signal in the list of
entries (`Registered`), which holds because `signal_state` skips the registration only
when no sender is left; a signal that has returned nothing has its flag set
(`FirstPollPending`); one that is not live is not polled (`SignalStates`).
`SingleInv`, in mode `"single"` with `Repolls`: `OneCall` says that what is under way
excludes everything else, `PollFacts` that between its steps a poll still holds what
it found, `EndingRegistered` that the last drop meets every live signal. Across
threads `PollFacts` is precisely what fails (section 6).

**Several `Mutable`s.** `OneCallEach` says that no two calls of a thread have the same
lock; `OuterForeign` that a call under another is made where code of the program
runs; `AskedInOrder` that who waits for a lock holds only locks from which the order
allows it; `HalfSwapped` that the two values are equal between the two assignments
of `swap`. That makes the refinement go through: of the two
assignments one is the exchange, and no reader sees the other. `NoDeadlock`: suppose that a
set of threads waits for itself. An order without a cycle numbers the Mutables; take
the lowest that one of the threads wants. Whoever of them holds it would want a
lower one. So none does, and the wait can only be a reader's for a *writer* that
waits for the same lock; and that one waits for a holder.

**`channel`.** The count is modular, so the proof that a drop does not wrap it around is
a proof that the calls which found the channel open are among those counted
(`NotZero`), that the count is not above the number of `Sender`s ever made
(`CountedBelow`), and that after a `close` only the calls it overtook, and other
closes, rely on it (`ClosedForGood`). So a store after the end, or a count that leaves
0, is by a call that was overtaken, the exception that `ClosableCell` makes.

**`Broadcaster`.** `EpochCounts` relates each child's epoch to the value it returned, off
by one while the loop that got a value has not ended; that needs `LockOwner` (whoever is
in the loop holds the write lock, no child compares meanwhile) and `InputPolled` (what
the loop has found is what the state holds). On one thread `FlagTells` gives the flag
its meaning: when it is clear the input has been asked since it last changed.

**`cancelable_future`.** `AsleepHeld` needs its like in the middle of a poll, `MidPoll`.

**`MutableVec`.** What is invariant is not the copy of a receiver but what its queue
leads to: there are contents `s` such that the diffs in *every* queue, applied one
after the other, lead from the receiver's copy to `s`, each fitting what it is applied
to (`AllLead`). `Leads` says this with the sequence of intermediate contents, so that no
recursion is needed: `LeadsFurther` adds a diff behind, `LeadsOn` takes one from the
front, and that one fits. `UnderWay` says how far `s` is from `values` in
the middle of an operation: the removals that are still to be told turn `s` into what
retain and drain leave (`Leaves`), the Moves of reverse have put the first elements
in their places and left the others in their old order (`HalfReversed`), the second
Move of swap completes the first.

**`MutableBTreeMap`.** Likewise, but a reader keeps something else than the map: `Knows`
says what each kind holds for the contents it was told, and a lemma for each kind
(`KeysFollow`, `EntriesFollow`, `ImagesFollow`, `WatchFollows`) that taking a diff keeps
it so. For keys and entries the heart of it is that the binary search finds the rank of the
key: `Ascending` puts a key where its rank says, an insertion raises the
rank of the greater keys by one and of no other (`SortedMore`), a removal lowers it
(`SortedLess`). `NoPanic` concludes that the key to insert is not among the sorted
ones and that a key to update or remove is.

**`Signal` combinators.** `Typed` and `SingleInv` hold for all of them, and then each has an
invariant of its own, which says what it has kept of the inputs it has taken
(`MapRefInv`, `FlattenInv`, `ThrottleInv`, ...), in particular in the middle of a poll,
when the left input has been asked and the right one may still change.

**`SignalVec` adapters.** `IInv` of `VecAdapters` speaks of three contents: those the input
has, those the adapter has `seen`, and those the task's `view` is the output for. The
diffs in the queue lead from the second to the first (`Leads`), the one or two that the
adapter owes from the third to the second (`Yields`). So it is enough to show of each
adapter, as a pure function, that what it puts out for *one* diff makes `Expected` of the
old contents into `Expected` of the new. For filter the index of a value in
the output is the number of flags before it that are set. For sort the `indexes` are
the one arrangement of the places that is sorted by value and then by place
(`Sorted`); the binary search finds where it goes on; and all indexes at or above the place
are moved by one, which keeps their order. For enumerate the `Mutable`s are told apart
(`Numbered`, `Labelled`): each in the output holds its place, every other `None`. The sum is
a function on prefixes, and that it goes up by what is inserted and down by what is removed is shown
without induction over sequences: among the lengths at which the two sides differ there would be a least one.

**`chain`, `switch_signal_vec`.** A part of the output is described by what stands before and
after it (`Mid`), and diffs of the part become diffs of the whole (`Reaches`). `ChainInv`
says that there are contents `l` and `r` of which the inputs' queues know how they became
what they are now, that `left_len` and `right_len` are *their* lengths, and that the pending diffs
lead from the output to `l \o r`: hence a diff may be shifted by `left_len` although the
consumer is behind. A poll that finds an input's diff always makes at least one of it,
which needs that the diff is not one of nothing by nothing (`Void`); without that the poll would return
`Pending` and forget the input, as it does. `SwitchInv` says the same of the current
vector, unless the Signal has a new value that was not taken yet: then only the length
matters, since a `Replace` will follow. `Rests` in both is what a sleeping task relies on.

Definitions were chosen with the proofs in mind: `Ascending`, `CountBelow` and `Kept` count
instead of recurring, `Passed` finds a value by how many pass before it, `SumOf` is a function of the
length, and the mutually exclusive cases of an `IF` are not left to a `CASE`
with overlapping conditions.

### What is only model-checked

* The properties of `VecJoins` for flatten, map_signal, filter_signal_cloned,
  map_value_signal and delay_remove. One poll of theirs takes whole queues, or asks every
  part, with folds; what a fold makes of any queue needs induction over data, which the
  installed provers cannot instantiate. For flatten one step of the fold is proved
  (`InnerFollows`). chain and switch_signal_vec take one diff a poll, and are proved.
* filter for inputs that send a `Move`: false (section 6).
* Liveness (`CallsReturn`, `SingleCatchesUp`, `EventuallyDone`, `EventuallyTaken`,
  `EventuallyEnds`): fairness speaks of `ENABLED`, which the prover does not handle. The
  `Single...` theorems and `NeverForgotten` are the safety half: who sleeps can be woken.
* The operators on sequences and sets of the community modules are used by their
  definitions or by theorems of the TLAPS library.

## 6 What the code gets wrong

Two disagreements between the code and what the repository says, each with a
run whose counterexample shows it:

* **A wake-up is lost across threads** (`MCMutableSignal_lost_wakeup`).
  `poll_change` (`mutable.rs:114`) stores the waker after it has swapped the flag
  and loaded `senders`, and does not look at the flag again. A `set` of another
  thread in between finds no waker: the task sleeps with the flag set. It is up
  to date again only after a later write.
* **filter and `Move`** (`MCVecAdapters_filter_move`). The old index of the `Move`
  that filter sends is counted in indexes that already have the value at its new
  place (`signal_vec.rs:2073`).

The same kind of thing, met while modelling and kept out of the passing runs by
the switch that is named, or inside them as an exception that a property makes:

* the waker windows of `channel.rs:127`, `broadcaster.rs:190` and `future.rs:73`
  are like that of `Mutable`: their liveness properties start with
  `mode = "single"` (`EventuallyDone` does not need it);
* across threads a `Mutable`'s signal may end without the last value
  (`mutable.rs:110`: the flag is read before the senders), hence
  `EndsWithLatest` is for one thread; so for `channel.rs:126`;
* a consumer that waits for a wake-up after a value, as the comment at
  `signal.rs:20` reads, is never woken, since `Ready` stores no waker:
  `Repolls = FALSE`;
* `close` of a channel, on another thread than a drop or clone that has passed
  `has_senders`, leaves a count other than zero (`channel.rs:85-86`, `:100-102`,
  against the comment at `:21`): the drop wraps it around to `usize::MAX`, the clone
  makes it 1, and the receiver may wait for ever. Overlapping a send
  (`channel.rs:57-58`), it lets the value be stored after the receiver has ended;
  `send` returns `Ok`, and nobody gets the value. `MCSignalChannel` explores all
  of this; what its properties except is in the history variable `overtaken`;
* across threads a child's first poll of a `Broadcaster` may be `Pending`
  (`broadcaster.rs:129`, `:191`), when another child has taken the flag and is
  not done with the input;
* `IsEmpty` (`signal_vec.rs:1899`) answers `Pending` when `Len` had a length that
  changes nothing, although the input has ended: `EventuallyTaken` of
  `VecAdapters` leaves its end out;
* the constant `Awkward` of `VecJoins`: after a `Replace` or `Clear` of nothing by
  nothing, `chain` returns `Pending` without a waker (`signal_vec.rs:964`);
  `flatten` sends no diff for values of an inner vector that goes or moves
  (`:1147`); filter_signal_cloned translates a `Move` as filter does (`:1775`);
* `switch_signal_vec` ends without a `Clear` when the last vector is empty and
  gone (`signal.rs:1731`): such a vector is not among the run's values.

## 7 What is not modelled

* `always`, `from_stream`, `to_signal_vec`, `inspect`, `for_each`, `to_stream`, boxes
  and debug wrappers of `Signal`, `SignalVec` and `SignalMap` as actions of their
  own: they send one value or diff, wrap each in a `Replace` or `Push`, look at it,
  or delegate, and keep no other state. What the first two send is among what the
  inputs of `VecAdapters` send; the tasks of the models are `for_each`.
* Comparison, slices, capacity, formatting, serde.
* A panicking callback and a poisoned lock. A waker that polls inside `wake`, hence
  under the writer's lock, is in `MutableLocks` only.
* Weak memory. `Mutable`, `Broadcaster` and `cancelable_future` use sequentially
  consistent accesses, as the models do. `channel` and `atomic.rs` use acquire
  and release: what its run shows for several threads (`SendersCounted`,
  `RefinesCell`) rests on the order of the accesses to one atomic at a time and on
  a drop's `fetch_sub` being after the sender's own stores; its liveness is
  stated for one thread only.
* The inputs of combinators keep the contract of `Signal` and `SignalVec`;
  whether the crate's own sources do is what the other modules are about.

## 8 Plan

Done, in this order: `MutableSignal` with its refinement and proofs, `MutableLocks`,
`SignalChannel`, `Broadcaster`, `CancelableFuture`, `MutableVec`, the adapters,
`MutableBTreeMap`, `Signal` combinators, the joins.

More of the system:

1. The comment at `channel.rs:21` against an overtaking `close`, and a
   `Broadcaster`'s first poll: findings of section 6 that have no violation run.
2. `Mutable` and `Broadcaster` composed: the input is a `MutableSignal`, no longer
   any signal that keeps its contract.

More proofs:

1. `MutableVec` and `MutableBTreeMap` as refinements of a cell that is read late.
2. The other combinators of `VecJoins`, with a step for each diff instead of a fold.
