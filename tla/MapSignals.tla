----------------------------- MODULE MapSignals -----------------------------
(***************************************************************************)
(* MapValueSignal (src/signal_map.rs): every value of a SignalMap has a    *)
(* Signal, which is the value in the output.  parts are the values and     *)
(* their Signals by key.                                                   *)
(***************************************************************************)
EXTENDS VecSignals, MapDiffs

\* The callback: a Signal that starts with v.
NewSignal == [v \in Nat |-> Signal(v, v)]

\* What a diff of the input makes of the parts: new values get new Signals, the
\* Signal of a value that goes is dropped.
MapPartsDiff(parts, d) ==
    ApplyMap(MapMapDiff(d, NewSignal), parts)

\* First all diffs of the input, then one poll of each Signal, by key.
MapValueSignalPoll(st) ==
    LET parts == FoldLeft(MapPartsDiff, st.parts, st.top.queue)
        changed == SelectSeq(Ascending(DOMAIN parts), LAMBDA k : parts[k].fresh)
        top == Drained(st.top)
        polled == [k \in DOMAIN parts |-> PollSignal(parts[k])]
    IN  IF st.pending # <<>> THEN PendingFirst(st)
        ELSE ReturnFirst([st EXCEPT !.top = top, !.parts = polled],
                st.top.queue \o [i \in DOMAIN changed |->
                    UpdateKey(changed[i], parts[changed[i]].value)],
                ~top.held /\ NoneHeld(polled))
=============================================================================
