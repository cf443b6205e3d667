----------------------------- MODULE VecNested ------------------------------
(***************************************************************************)
(* SignalVecs inside a SignalVec or a Signal: Flatten (src/signal_vec.rs)  *)
(* and SwitchSignalVec (src/signal/signal.rs).  parts are the inner ones.  *)
(***************************************************************************)
EXTENDS VecSources

NestedState(top) == [top |-> top, parts |-> <<>>, len |-> 0, pending |-> <<>>]

-----------------------------------------------------------------------------
(* Flatten.                                                                *)

\* A diff of the outer SignalVec adds and drops inner ones, without a word to
\* the output about the values of those that go or move.
OuterDiff(d) ==
    CASE d.op = "Replace" -> ReplaceDiff([k \in DOMAIN d.values |-> Source(d.values[k])])
      [] d.op \in {"InsertAt", "UpdateAt", "Push"} -> [d EXCEPT !.value = Source(d.value)]
      [] OTHER -> d

\* poll_pending: the diffs an inner one sends, for the output: prev values
\* come before its own.
InnerDiffs(d, prev, len) ==
    CASE d.op \in {"Replace", "Clear"} ->
            Removes(prev, len) \o Inserts(prev, NewValues(d))
      [] d.op = "Push" -> <<InsertDiff(prev + len, d.value)>>
      [] d.op = "Pop" -> <<RemoveDiff(prev + len - 1)>>
      [] OTHER -> <<Shift(d, prev)>>

\* All that one inner SignalVec has sent.
PollPending(part, prev) ==
    FoldLeft(LAMBDA fed, d :
                Fed([fed.st EXCEPT !.len = LenAfter(d, @)],
                    fed.out \o InnerDiffs(d, prev, fed.st.len)),
             Fed(Drained(part), <<>>), part.queue)

\* poll_values: the contents of a new inner one, taken at once.
PollValues(part) == [Drained(part) EXCEPT !.len = Len(part.contents)]

\* The parts in turn; each starts where those before it end now.
PollParts(parts) ==
    FoldLeft(LAMBDA fed, part :
                LET polled == PollPending(part,
                                FoldLeft(LAMBDA n, p : n + p.len, 0, fed.st))
                IN  Fed(Append(fed.st, polled.st), fed.out \o polled.out),
             Fed(<<>>, <<>>), parts)

\* The outer diffs up to the first that replaces or clears, which is answered
\* at once; then what the inner ones have sent.
FlattenPoll(st) ==
    LET queue == st.top.queue
        whole == SelectInSeq(queue, LAMBDA d : d.op \in {"Replace", "Clear"})
        taken == IF whole = 0 THEN queue ELSE SubSeq(queue, 1, whole)
        parts == FoldLeft(LAMBDA ps, d : Apply(OuterDiff(d), ps), st.parts, taken)
        fresh == [i \in DOMAIN parts |-> PollValues(parts[i])]
        top == IF whole = 0 THEN Drained(st.top)
               ELSE [st.top EXCEPT !.queue = SubSeq(@, whole + 1, Len(@))]
        fed == PollParts(parts)
    IN  CASE st.pending # <<>> -> PendingFirst(st)
          [] st.pending = <<>> /\ whole # 0 ->
                Polled([st EXCEPT !.top = top, !.parts = fresh],
                       SomeDiff(IF queue[whole].op = "Clear" THEN ClearDiff
                                ELSE ReplaceDiff(FlattenSeq(
                                    [i \in DOMAIN fresh |-> fresh[i].contents]))))
          [] OTHER ->
                ReturnFirst([st EXCEPT !.top = top, !.parts = fed.st], fed.out,
                            /\ ~top.held
                            /\ \A i \in DOMAIN fed.st : ~fed.st[i].held)

-----------------------------------------------------------------------------
(* SwitchSignalVec: parts has the current SignalVec, if any, the queue of  *)
(* top the latest value of the Signal, if it is new.                       *)

\* Slip: the values are cleared, their number is not.
NewSignalVec_KeepsLen(st) ==
    IF st.len = 0 THEN Polled(st, Pending)
    ELSE Polled(st, SomeDiff(ReplaceDiff(<<>>)))

\* new_signal_vec: the values of the old SignalVec go.
NewSignalVec(st) ==
    IF st.len = 0 THEN Polled(st, Pending)
    ELSE Polled([st EXCEPT !.len = 0], SomeDiff(ReplaceDiff(<<>>)))

\* A diff of the current SignalVec; the first one of a new one is applied to
\* nothing, and replaces what is left of the old one.
SwitchDiff(st, d, new) ==
    IF new /\ st.len # 0
    THEN LET values == Apply(d, <<>>)
         IN  Polled([st EXCEPT !.len = Len(values)],
                    SomeDiff(ReplaceDiff(values)))
    ELSE Polled([st EXCEPT !.len = LenAfter(d, @)], SomeDiff(d))

SwitchPoll(st) ==
    LET new == st.top.queue # <<>>
        top == Drained(st.top)
        parts == IF new THEN <<Source(Head(st.top.queue))>> ELSE st.parts
        r == IF parts = <<>> THEN None ELSE Answer(parts[1])
        s == [st EXCEPT !.top = top,
                        !.parts = [i \in DOMAIN parts |-> AfterPoll(parts[i])]]
    IN  CASE r.poll = "Some" -> SwitchDiff(s, r.diff, new)
          [] r.poll = "None" /\ ~top.held -> Polled(s, None)
          [] new /\ r.poll # "Some" /\ (r.poll = "None" => top.held) ->
                NewSignalVec(s)
          [] OTHER -> Polled(s, Pending)
=============================================================================
