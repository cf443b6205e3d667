----------------------------- MODULE VecSignals -----------------------------
(***************************************************************************)
(* MapSignal and FilterSignalCloned (src/signal_vec.rs): every value of    *)
(* the input has a Signal, the value itself or whether it is in the        *)
(* output.  parts are the values and their Signals.                        *)
(***************************************************************************)
EXTENDS VecSources, VecFilter

\* A Signal that the callback makes for v is first, and is polled at once.
\* value is what the Signal holds now, known what its last poll returned.
Signal(v, first) ==
    [item |-> v, value |-> first, known |-> first, fresh |-> FALSE,
     closed |-> FALSE, waker |-> FALSE, held |-> TRUE]

\* A poll of each part's Signal until it is not ready, or once only.
PollSignal(part) ==
    IF part.fresh THEN [part EXCEPT !.fresh = FALSE, !.known = part.value]
    ELSE [part EXCEPT !.held = ~part.closed, !.waker = ~part.closed]
PollSignalAll(part) == PollSignal(PollSignal(part))

\* What a diff of the input makes of the parts.
PartsDiff(d, first(_)) ==
    CASE d.op = "Replace" ->
            ReplaceDiff([k \in DOMAIN d.values |->
                            Signal(d.values[k], first(d.values[k]))])
      [] d.op \in {"InsertAt", "UpdateAt", "Push"} ->
            [d EXCEPT !.value = Signal(d.value, first(d.value))]
      [] OTHER -> d

\* Whether no Signal can change any more.
NoneHeld(parts) == \A i \in DOMAIN parts : ~parts[i].held

-----------------------------------------------------------------------------

\* First all diffs of the input, then one poll of each Signal.  The first value
\* of a Signal is the value of the input here.
MapSignalPoll(st) ==
    LET parts == FoldLeft(LAMBDA ps, d : Apply(PartsDiff(d, LAMBDA v : v), ps),
                          st.parts, st.top.queue)
        changed == SelectSeq([i \in DOMAIN parts |-> i],
                             LAMBDA i : parts[i].fresh)
        top == Drained(st.top)
        polled == [i \in DOMAIN parts |-> PollSignal(parts[i])]
    IN  IF st.pending # <<>> THEN PendingFirst(st)
        ELSE ReturnFirst([st EXCEPT !.top = top, !.parts = polled],
                st.top.queue \o [k \in DOMAIN changed |->
                    UpdateDiff(changed[k] - 1, parts[changed[k]].value)],
                ~top.held /\ NoneHeld(polled))

-----------------------------------------------------------------------------

Exists(parts) == [i \in DOMAIN parts |-> parts[i].known]

\* A diff of the input: what becomes of it is like Filter's, with the last
\* value of each Signal for what the callback said.
FilterSignalFeed(fed, d, keep) ==
    Fed(Apply(PartsDiff(d, LAMBDA v : v \in keep), fed.st),
        fed.out \o FilterFeed(Exists(fed.st), d, keep).out)

\* The Signals whose value is another than before, by insertions and removals
\* at the place that the values before it leave.
FilterSignalChanges(old, new) ==
    LET at(i) == FindIndex(Exists(new), i - 1)
        changed == SelectSeq([i \in DOMAIN new |-> i],
                             LAMBDA i : old[i].known # new[i].known)
    IN  [k \in DOMAIN changed |->
            IF new[changed[k]].known
            THEN InsertDiff(at(changed[k]), new[changed[k]].item)
            ELSE RemoveDiff(at(changed[k]))]

\* First all diffs of the input, then each Signal until it is not ready.
FilterSignalPoll(st, keep) ==
    LET fed == FoldLeft(LAMBDA f, d : FilterSignalFeed(f, d, keep),
                        Fed(st.parts, <<>>), st.top.queue)
        top == Drained(st.top)
        polled == [i \in DOMAIN fed.st |-> PollSignalAll(fed.st[i])]
    IN  IF st.pending # <<>> THEN PendingFirst(st)
        ELSE ReturnFirst([st EXCEPT !.top = top, !.parts = polled],
                         fed.out \o FilterSignalChanges(fed.st, polled),
                         ~top.held /\ NoneHeld(polled))
=============================================================================
