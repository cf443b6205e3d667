------------------------------ MODULE VecChain ------------------------------
(***************************************************************************)
(* Chain (src/signal_vec.rs): the values of two SignalVecs one after the   *)
(* other.  left is "top" here.  A diff of one that cannot be sent as it is *)
(* becomes several, which wait in "pending".                               *)
(***************************************************************************)
EXTENDS VecSources

ChainState(left, right) ==
    [top |-> left, right |-> right, left_len |-> 0, right_len |-> 0,
     pending |-> <<>>]

Pops(n)    == [k \in 1..n |-> PopDiff]
Pushes(vs) == [k \in DOMAIN vs |-> PushDiff(vs[k])]

\* right answered r: it replaces or clears by pops and pushes if left has
\* values, and sends its other diffs after them.
RightChange(st, r) ==
    IF r.poll # "Some" THEN Fed(st, <<>>)
    ELSE LET d == r.diff
             new == [st EXCEPT !.right_len = LenAfter(d, @)]
         IN  IF d.op \in {"Replace", "Clear"} /\ st.left_len # 0
             THEN Fed([new EXCEPT !.pending =
                          @ \o Pops(st.right_len) \o Pushes(NewValues(d))],
                      <<>>)
             ELSE Fed(new, <<Shift(d, st.left_len)>>)

ProcessRight(st) ==
    RightChange([st EXCEPT !.right = AfterPoll(@)], Answer(st.right))

\* left replaces or clears: as one diff if right does too, or has no values.
ProcessWhole(st, d) ==
    LET r == Answer(st.right)
        new == [st EXCEPT !.right = AfterPoll(@),
                          !.left_len = Len(NewValues(d))]
        one == st.right_len = 0
        before == IF one THEN new
                  ELSE [new EXCEPT !.pending =
                           @ \o Removes(0, st.left_len)
                             \o Inserts(0, NewValues(d))]
        after == RightChange(before, r)
    IN  IF r.poll = "Some" /\ r.diff.op = d.op
        THEN Fed([new EXCEPT !.right_len = Len(NewValues(r.diff))],
                 <<IF d.op = "Clear" THEN d
                   ELSE ReplaceDiff(d.values \o r.diff.values)>>)
        ELSE Fed([after.st EXCEPT !.pending = @ \o after.out],
                 IF one THEN <<d>> ELSE <<>>)

\* A push or a pop of left is in the middle if right has values.
ProcessLeft(st) ==
    LET r == Answer(st.top)
        polled == [st EXCEPT !.top = AfterPoll(@)]
        resized == [polled EXCEPT !.left_len = LenAfter(r.diff, @)]
    IN  CASE r.poll # "Some" -> Fed(polled, <<>>)
          [] r.poll = "Some" /\ r.diff.op \in {"Replace", "Clear"} ->
                ProcessWhole(polled, r.diff)
          [] OTHER ->
                Fed(resized,
                    <<CASE r.diff.op = "Push" /\ st.right_len # 0 ->
                              InsertDiff(st.left_len, r.diff.value)
                        [] r.diff.op = "Pop" /\ st.right_len # 0 ->
                              RemoveDiff(st.left_len - 1)
                        [] OTHER -> r.diff>>)

\* What was found after polling left or right is returned, if anything.
FoundOr(fed, otherwise) ==
    CASE fed.out # <<>> -> Polled(fed.st, SomeDiff(fed.out[1]))
      [] fed.out = <<>> /\ fed.st.pending # <<>> -> PendingFirst(fed.st)
      [] OTHER -> otherwise

\* Slip: whether right is over is looked at before it is polled.
ChainPoll_StaleRight(st) ==
    LET left == ProcessLeft(st)
        right == ProcessRight(left.st)
    IN  IF st.pending # <<>> THEN PendingFirst(st)
        ELSE FoundOr(left, FoundOr(right,
                Polled(right.st, IF right.st.top.held \/ st.right.held
                                 THEN Pending ELSE None)))

ChainPoll(st) ==
    LET left == ProcessLeft(st)
        right == ProcessRight(left.st)
    IN  IF st.pending # <<>> THEN PendingFirst(st)
        ELSE FoundOr(left, FoundOr(right,
                Polled(right.st, IF right.st.top.held \/ right.st.right.held
                                 THEN Pending ELSE None)))
=============================================================================
