------------------------------ MODULE VecDelay ------------------------------
(***************************************************************************)
(* DelayRemove (src/signal_vec.rs): a value that the input removes stays   *)
(* in the output until its future is over.  parts are the values of the    *)
(* output with their futures; the input counts only those that are not     *)
(* being removed.                                                          *)
(***************************************************************************)
EXTENDS VecSources, FiniteSetsExt

Delayed(v) == [item |-> v, over |-> FALSE, is_removing |-> FALSE, waker |-> FALSE]

\* The places of the values the input still has, in order.
Live(parts) == SelectSeq([i \in DOMAIN parts |-> i],
                         LAMBDA i : ~parts[i].is_removing)

\* Slip: the values being removed are counted.
Locate_CountsAll(parts, i) == IF i + 1 \in DOMAIN parts THEN i ELSE Len(parts)

\* The input's index in the output; the end if there is no such value.
Locate(parts, i) ==
    IF i + 1 \in DOMAIN Live(parts) THEN Live(parts)[i + 1] - 1 ELSE Len(parts)

\* remove_index: a Pop at the end.
RemoveIndex(fed, i) ==
    Fed(VecRemove(fed.st, i),
        Append(fed.out, IF i = Len(fed.st) - 1 THEN PopDiff ELSE RemoveDiff(i)))

\* The values at the places S go, the last one first.
RemoveEach(fed, S) ==
    FoldLeft(LAMBDA f, i : RemoveIndex(f, i - 1), fed,
             Reverse(SetToSortSeq(S, LAMBDA i, j : i < j)))

\* should_remove for the places S: those whose future is over go, the futures
\* of the others are waited for.
WaitFor(parts, S) ==
    FoldSet(LAMBDA i, ps : [ps EXCEPT ![i].is_removing = TRUE], parts, S)

RemoveOrWait(fed, S) ==
    LET over == {i \in S : fed.st[i].over}
    IN  RemoveEach(Fed(WaitFor(fed.st, S \ over), fed.out), over)

\* The diff d, its index translated, changes parts and is sent.
Send(fed, d, part(_)) ==
    Fed(Apply(IF "value" \in DOMAIN d THEN [d EXCEPT !.value = part(d.value)] ELSE d,
              fed.st),
        Append(fed.out, d))

AllDelayed(values) == [k \in DOMAIN values |-> Delayed(values[k])]

DelayFeed(fed, d) ==
    LET parts == fed.st
        live == ToSet(Live(parts))
        without(i) == VecRemove(parts, Locate(parts, i))
    IN  CASE d.op = "Replace" /\ parts = <<>> ->
                Fed(AllDelayed(d.values), Append(fed.out, d))
          [] d.op = "Replace" /\ parts # <<>> ->
                LET removed == RemoveOrWait(fed, live)
                IN  Fed(removed.st \o AllDelayed(d.values),
                        removed.out \o [k \in DOMAIN d.values |->
                                           PushDiff(d.values[k])])
          [] d.op \in {"InsertAt", "UpdateAt"} ->
                Send(fed, [d EXCEPT !.index = Locate(parts, @)], Delayed)
          [] d.op = "Push" -> Send(fed, d, Delayed)
          [] d.op = "Move" ->
                Send(fed, MoveDiff(Locate(parts, d.old),
                                   Locate(without(d.old), d.new)), Delayed)
          [] d.op = "RemoveAt" -> RemoveOrWait(fed, {Locate(parts, d.index) + 1})
          [] d.op = "Pop" -> RemoveOrWait(fed, {Last(Live(parts))})
          [] d.op = "Clear" -> RemoveOrWait(fed, live)

\* The futures of values being removed are polled last.
DelayPoll(st) ==
    LET fed == FoldLeft(DelayFeed, Fed(st.parts, <<>>), st.top.queue)
        gone == RemoveEach(fed, {i \in DOMAIN fed.st :
                                    fed.st[i].is_removing /\ fed.st[i].over})
        polled == [i \in DOMAIN gone.st |->
                      [gone.st[i] EXCEPT !.waker = gone.st[i].is_removing]]
        top == Drained(st.top)
    IN  IF st.pending # <<>> THEN PendingFirst(st)
        ELSE ReturnFirst([st EXCEPT !.top = top, !.parts = polled], gone.out,
                 ~top.held /\ \A i \in DOMAIN polled : ~polled[i].is_removing)
=============================================================================
