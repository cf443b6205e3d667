---------------------------- MODULE VecAdapters -----------------------------
(***************************************************************************)
(* A SignalVec, an adapter of src/signal_vec.rs on top of it, and the task *)
(* that polls the adapter.  The input sends any diffs its contents allow,  *)
(* through a queue that wakes the task, and may end.  The task polls until *)
(* Pending or the end, as for_each does, and applies the diffs it gets.    *)
(***************************************************************************)
EXTENDS VecFilter, VecSort, VecEnumerate, VecValue

CONSTANTS
    Values,         \* the values of the input of each adapter, numbers for sum
    Image,          \* what the callback of map makes of a value
    Keep,           \* those the filter's callback lets through
    Rank,           \* how the compare callback of sort_by_cloned sees them
    MaxLen,         \* bound on the length of the contents
    MaxQueue,       \* the input waits while it has that many diffs queued
    Moves,          \* the input of filter sends Move too
    Adapters        \* which adapters are looked at

ASSUME AdaptersAssumption ==
    Adapters \subseteq {"map", "filter", "sort", "enumerate"} \cup Signals
ASSUME ValuesAssumption == Values \in [Adapters -> SUBSET Nat]
ASSUME RankAssumption ==
    "sort" \in Adapters => \A v \in Values["sort"] : Rank[v] \in Nat
ASSUME BoundsAssumption == MaxLen \in Nat /\ MaxQueue \in Nat \ {0}

VARIABLES
    adapter,        \* chosen at the start
    contents,       \* of the input
    queue,          \* the diffs the input has sent
    closed,         \* the input has ended
    registered,     \* the queue holds the task's waker
    woken,          \* the task will poll
    pc,             \* what the task is doing
    st,             \* the adapter's fields
    seen,           \* the contents by the diffs that the adapter has taken
    out,            \* diffs about to be returned, one per poll
    view            \* what the task made of them, or the last value it got

input == <<contents, closed>>
task  == <<pc, woken>>
vars  == <<input, queue, registered, task, st, seen, out, view>>

IsSignal == adapter \in Signals

Init ==
    /\ adapter \in Adapters
    /\ contents = <<>>
    /\ queue = <<>>
    /\ closed = FALSE
    /\ registered = FALSE
    /\ woken = TRUE
    /\ pc = "idle"
    /\ seen = <<>>
    /\ out = <<>>
    /\ st = CASE adapter \in {"map", "filter"} -> <<>>
              [] adapter = "sort" -> SortState(<<>>, <<>>)
              [] adapter = "enumerate" ->
                    EnumerateState(<<>>, [m \in 1..(2 * MaxLen) |-> NoIndex])
              [] IsSignal -> FirstState
    /\ view = IF IsSignal THEN NoValue ELSE <<>>

-----------------------------------------------------------------------------
(* The input: a queue like that of MutableSignalVec.                       *)

WakeTask ==
    /\ woken' = (woken \/ registered)
    /\ registered' = FALSE

\* What the input may send when its contents are s.
Diffs(s) ==
    {d \in LegalDiffs(s, Values[adapter], MaxLen) :
        adapter = "filter" /\ d.op = "Move" => Moves}

Send ==
    /\ ~closed
    /\ Len(queue) < MaxQueue
    /\ \E d \in Diffs(contents) :
          /\ contents' = Apply(d, contents)
          /\ queue' = Append(queue, d)
    /\ WakeTask
    /\ UNCHANGED <<closed, pc, st, seen, out, view>>

End ==
    /\ ~closed
    /\ closed' = TRUE
    /\ WakeTask
    /\ UNCHANGED <<contents, queue, pc, st, seen, out, view>>

-----------------------------------------------------------------------------
(* The task and the adapter's poll.                                        *)

StartPoll ==
    /\ pc = "idle"
    /\ woken
    /\ woken' = FALSE
    /\ pc' = "polling"
    /\ UNCHANGED <<input, queue, registered, st, seen, out, view>>

Feed(d) ==
    CASE adapter = "map" -> Fed(<<>>, <<MapVecDiff(d, Image)>>)
      [] adapter = "filter" -> FilterFeed(st, d, Keep)
      [] adapter = "sort" -> SortFeed(st, d, Rank)
      [] adapter = "enumerate" -> EnumerateFeed(st, d)
      [] IsSignal -> ValueFeed(adapter, st, d)

\* Slip: a diff that leaves the output alone is reported as Pending.
Take_ReturnsPending ==
    /\ pc = "polling" /\ out = <<>> /\ queue # <<>>
    /\ LET fed == Feed(Head(queue))
       IN  /\ st' = fed.st
           /\ out' = fed.out
           /\ pc' = IF fed.out = <<>> /\ ~IsSignal THEN "idle" ELSE pc
    /\ seen' = Apply(Head(queue), seen)
    /\ queue' = Tail(queue)
    /\ UNCHANGED <<input, registered, woken, view>>

\* The input has a diff: a turn of the adapter's loop.
Take ==
    /\ pc = "polling" /\ out = <<>> /\ queue # <<>>
    /\ LET fed == Feed(Head(queue))
       IN  /\ st' = fed.st
           /\ out' = fed.out
    /\ seen' = Apply(Head(queue), seen)
    /\ queue' = Tail(queue)
    /\ UNCHANGED <<input, registered, task, view>>

\* A poll returns a diff, and the task, having applied it, polls again.  A diff
\* that does not fit panics.
Return ==
    /\ pc = "polling"
    /\ out # <<>>
    /\ \/ /\ Applicable(Head(out), view)
          /\ view' = Apply(Head(out), view)
          /\ UNCHANGED pc
       \/ /\ ~Applicable(Head(out), view)
          /\ pc' = "panicked"
          /\ UNCHANGED view
    /\ out' = Tail(out)
    /\ UNCHANGED <<input, queue, registered, woken, st, seen>>

\* The input has no diff: a signal returns its new value.
ReturnValue ==
    /\ pc = "polling" /\ queue = <<>>
    /\ IsSignal /\ Returns(adapter, st)
    /\ view' = Value(adapter, st.values)
    /\ st' = AfterEnd(adapter, st)
    /\ registered' = (registered \/ ~closed)
    /\ UNCHANGED <<input, queue, task, seen, out>>

\* Neither diff nor value: Pending.  IsEmpty does so even at the end, if Len
\* returned a length that does not matter to it.
ReturnPending ==
    /\ pc = "polling" /\ out = <<>> /\ queue = <<>>
    /\ IsSignal => ~Returns(adapter, st)
    /\ ~closed \/ (IsSignal /\ Emits(st))
    /\ pc' = "idle"
    /\ st' = IF IsSignal THEN AfterEnd(adapter, st) ELSE st
    /\ registered' = (registered \/ ~closed)
    /\ UNCHANGED <<input, queue, woken, seen, out, view>>

\* The input has ended and the adapter has nothing left: None.
ReturnEnd ==
    /\ pc = "polling" /\ out = <<>> /\ queue = <<>>
    /\ closed
    /\ IsSignal => ~Emits(st)
    /\ pc' = "done"
    /\ UNCHANGED <<input, queue, registered, woken, st, seen, out, view>>

PollTurn == Take \/ Return \/ ReturnValue \/ ReturnPending \/ ReturnEnd

Step == Send \/ End \/ StartPoll \/ PollTurn

Next == Step /\ UNCHANGED adapter

\* A poll ends and a woken task is polled.
Fairness == WF_vars(PollTurn) /\ WF_vars(StartPoll)

Spec == Init /\ [][Next]_<<adapter, vars>>

FairSpec == Spec /\ Fairness

-----------------------------------------------------------------------------
(* Properties.                                                             *)

\* What the output has to be when the input's contents are s: what the
\* operators promise, computed at once instead of diff by diff.
Expected(s) ==
    CASE adapter = "map" -> [i \in DOMAIN s |-> Image[s[i]]]
      [] adapter = "filter" -> Passed(s, Keep)
      [] adapter = "sort" ->
            LET order == SortedIndexes(s, Rank)
            IN  [p \in DOMAIN order |-> s[order[p] + 1]]
      [] adapter = "enumerate" -> [i \in DOMAIN s |-> <<i - 1, s[i]>>]
      [] IsSignal -> Value(adapter, s)

\* The output as the task sees it: an enumerated value shows its index now.
Shown ==
    IF adapter = "enumerate"
    THEN [i \in DOMAIN view |-> <<st.index[view[i][1]], view[i][2]>>]
    ELSE view

\* Every variable has its type, and the adapter's fields stay in step with the
\* contents it has seen: filter knows what it let through, sort's indexes are
\* sorted, a Mutable of enumerate has an index while its value is there.
TypeOK ==
    /\ adapter \in Adapters
    /\ {contents, seen} \subseteq SeqOf(Values[adapter], MaxLen)
    /\ Len(queue) <= MaxQueue
    /\ Len(out) <= 2
    /\ {closed, registered, woken} \subseteq BOOLEAN
    /\ pc \in {"idle", "polling", "done", "panicked"}
    /\ adapter = "filter" => st = [i \in DOMAIN seen |-> seen[i] \in Keep]
    /\ adapter = "sort" => st = SortState(seen, SortedIndexes(seen, Rank))
    /\ adapter = "enumerate" =>
          \A m \in DOMAIN st.index :
              IF m \in ToSet(st.mutables)
              THEN st.mutables[st.index[m] + 1] = m
              ELSE st.index[m] = NoIndex
    /\ IsSignal => st.values = seen

\* The output is the input mapped, filtered, sorted, enumerated or valued whenever the
\* adapter owes nothing: between the diffs of a poll, and for a signal when a
\* poll is over.  No diff panics.
OutputFollowsInput ==
    /\ pc # "panicked"
    /\ IF IsSignal
       THEN pc = "done" \/ (pc = "idle" /\ ~st.first)
            => view = Expected(seen)
       ELSE out = <<>> => Shown = Expected(seen)

\* A diff of the input is some day taken: a poll that says Pending has left a
\* waker with the input, whatever the adapter made of the diffs before.  And an
\* adapter ends after its input, but for IsEmpty.
EventuallyTaken ==
    /\ queue # <<>> ~> queue = <<>>
    /\ closed /\ adapter # "is_empty" ~> pc = "done"
-----------------------------------------------------------------------------
(* What the proofs need.                                                   *)

Contents == SeqOf(Values[adapter], MaxLen)

\* The diffs q are some that the input may send one after the other, and make
\* the contents to of the contents from.
Leads(q, from, to) ==
    \E c \in [1..(Len(q) + 1) -> Contents] :
        /\ c[1] = from
        /\ c[Len(q) + 1] = to
        /\ \A i \in 1..Len(q) :
              q[i] \in Diffs(c[i]) /\ c[i + 1] = Apply(q[i], c[i])

\* The diffs o, two at most, fit one after the other and make to of from.
Yields(o, from, to) ==
    \/ o = <<>> /\ from = to
    \/ /\ Len(o) = 1 /\ o = <<o[1]>>
       /\ Applicable(o[1], from) /\ Apply(o[1], from) = to
    \/ /\ Len(o) = 2 /\ o = <<o[1], o[2]>>
       /\ Applicable(o[1], from)
       /\ Applicable(o[2], Apply(o[1], from))
       /\ Apply(o[2], Apply(o[1], from)) = to

\* What enumerate puts out: each value with its Mutable.
Labelled(mutables, s) == [k \in DOMAIN s |-> <<mutables[k], s[k]>>]

\* The Mutables of n values hold 0, 1, ..., and all others None.
Numbered(e, n) ==
    /\ e = EnumerateState(e.mutables, e.index)
    /\ e.mutables \in Seq(1..(2 * MaxLen))
    /\ Len(e.mutables) = n
    /\ e.index \in [1..(2 * MaxLen) -> NoIndex..MaxLen]
    /\ \A k \in 1..n : e.index[e.mutables[k]] = k - 1
    /\ \A m \in 1..(2 * MaxLen) :
          (\A k \in 1..n : e.mutables[k] # m) => e.index[m] = NoIndex

\* A signal has returned the value for what it has seen, unless it is still to
\* return one; IsEmpty remembers what it returned.
Valued ==
    /\ out = <<>>
    /\ st = [values |-> seen, changed |-> st.changed, first |-> st.first,
             old |-> st.old]
    /\ {st.changed, st.first} \subseteq BOOLEAN
    /\ ~st.first /\ ~st.changed => view = Value(adapter, seen)
    /\ adapter = "is_empty" => st.old = IF st.first THEN NoValue ELSE view
    /\ pc \in {"idle", "done"} => ~st.changed
    /\ pc = "done" => ~st.first

\* What each adapter owes is in out.
Following ==
    /\ adapter = "map" => st = <<>>
    /\ adapter = "filter" => st = [i \in DOMAIN seen |-> seen[i] \in Keep]
    /\ adapter = "sort" => st = SortState(seen, SortedIndexes(seen, Rank))
    /\ adapter \in {"map", "filter", "sort"} => Yields(out, view, Expected(seen))
    /\ adapter = "enumerate" =>
          /\ Numbered(st, Len(seen))
          /\ Yields(out, view, Labelled(st.mutables, seen))
    /\ IsSignal => Valued

\* The strengthened invariant.
IInv ==
    /\ adapter \in Adapters
    /\ {contents, seen} \subseteq Contents
    /\ queue \in Seq(UNION {Diffs(s) : s \in Contents})
    /\ Len(queue) <= MaxQueue
    /\ Leads(queue, seen, contents)
    /\ {closed, registered, woken} \subseteq BOOLEAN
    /\ pc \in {"idle", "polling", "done"}
    /\ Following
=============================================================================
