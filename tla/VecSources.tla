----------------------------- MODULE VecSources -----------------------------
(***************************************************************************)
(* The SignalVecs that the combinators of src/signal_vec.rs with more than *)
(* one input poll, and how diffs of a part become diffs of the whole.      *)
(***************************************************************************)
EXTENDS VecDiffs

\* A receiver just made of a vector (MutableVec::signal_vec): the first diff
\* gives its contents, unless it is empty; closed, the vector is gone; alphabet
\* are the values it may get.  "held" is the combinator's Option being Some.
Source(vec) ==
    [contents |-> vec.values, closed |-> vec.closed, alphabet |-> vec.alphabet,
     queue |-> IF vec.values = <<>> THEN <<>> ELSE <<ReplaceDiff(vec.values)>>,
     waker |-> FALSE, held |-> TRUE, len |-> 0]

SomeDiff(d) == [poll |-> "Some", diff |-> d]
None        == [poll |-> "None"]
Pending     == [poll |-> "Pending"]

\* What a poll of src answers; None also if it is not held any more.
Answer(src) ==
    CASE src.queue # <<>> -> SomeDiff(Head(src.queue))
      [] src.queue = <<>> /\ src.closed -> None
      [] OTHER -> Pending

\* What a poll makes of src: None drops it, Pending leaves the waker.
AfterPoll(src) ==
    IF src.queue # <<>> THEN [src EXCEPT !.queue = Tail(@)]
    ELSE [src EXCEPT !.held = ~src.closed, !.waker = ~src.closed]

\* What polling src until it is not ready makes of it.
Drained(src) == AfterPoll([src EXCEPT !.queue = <<>>])

\* calculate_len, update_len: the length after a diff.
LenAfter(d, n) ==
    CASE d.op = "Replace" -> Len(d.values)
      [] d.op \in {"InsertAt", "Push"} -> n + 1
      [] d.op \in {"RemoveAt", "Pop"} -> n - 1
      [] d.op = "Clear" -> 0
      [] OTHER -> n

\* A diff of a part that comes after the first by values.
Shift(d, by) ==
    CASE d.op \in {"InsertAt", "UpdateAt", "RemoveAt"} ->
            [d EXCEPT !.index = @ + by]
      [] d.op = "Move" -> MoveDiff(d.old + by, d.new + by)
      [] OTHER -> d

\* The n values from index at on are removed, the last one first; vs inserted.
Removes(at, n)  == [k \in 1..n |-> RemoveDiff(at + n - k)]
Inserts(at, vs) == [k \in DOMAIN vs |-> InsertDiff(at + k - 1, vs[k])]

\* What a diff that replaces or clears gives.
NewValues(d) == IF d.op = "Replace" THEN d.values ELSE <<>>

\* A poll of the combinator: its state afterwards, and the answer.
Polled(st, r) == [st |-> st, answer |-> r]

\* The end of a poll that collects diffs: the first is returned, the others
\* wait for the next polls.
ReturnFirst(st, diffs, ended) ==
    IF diffs # <<>>
    THEN Polled([st EXCEPT !.pending = Tail(diffs)], SomeDiff(Head(diffs)))
    ELSE Polled(st, IF ended THEN None ELSE Pending)

\* A poll that finds diffs waiting polls nothing.
PendingFirst(st) ==
    Polled([st EXCEPT !.pending = Tail(@)], SomeDiff(Head(st.pending)))
=============================================================================
