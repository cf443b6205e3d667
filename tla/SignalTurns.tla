---------------------------- MODULE SignalTurns -----------------------------
(***************************************************************************)
(* The combinators of src/signal/signal.rs and map_ref!, turn by turn.  A  *)
(* turn is what a combinator's poll does with the answer of one of its two *)
(* inputs: it goes on to poll an input, or returns.  "outer" is the Signal *)
(* (Future, Stream) it was made from; "inner" the Future or Signal it made *)
(* from a value, the Stream it samples or the second Signal of map_ref!.   *)
(***************************************************************************)
CONSTANTS
    Target,     \* the value eq, neq and wait_for look for
    Keep,       \* filter_map's callback returns Some, stop_if's test is true
    Image(_),   \* map's callback
    NoValue     \* an Option that is None

\* What a poll answers: Poll and Option in one.  Gone is the None of an input
\* that was dropped; Finish the Ready of a Future.
Some(v)   == [poll |-> "Some", value |-> v]
Finish(v) == [poll |-> "Finish", value |-> v]
None      == [poll |-> "None"]
Pending   == [poll |-> "Pending"]
Gone      == [poll |-> "Gone"]

IsSome(r) == r.poll = "Some"
Over(r)   == r.poll \in {"None", "Gone"}

\* The fields of the structs, and the locals of a poll: signal and inner are
\* Some, first, the value or values kept, done and changed.
Fields(first) ==
    [signal |-> TRUE, inner |-> FALSE, first |-> first,
     old |-> NoValue, done |-> FALSE, changed |-> FALSE]

Go(st, at)  == [st |-> st, at |-> at, poll |-> Gone]
Return(st, r) ==
    [st |-> [st EXCEPT !.done = FALSE, !.changed = FALSE],
     at |-> "return", poll |-> r]

-----------------------------------------------------------------------------
(* One Signal in, one Signal or Future out.                                *)

MapTurn(st, r) == Return(st, IF IsSome(r) THEN Some(Image(r.value)) ELSE r)

CompareTurn(st, r, equal) ==
    IF ~IsSome(r) THEN Return(st, r)
    ELSE LET new == (r.value = Target) = equal
         IN  IF new = st.old THEN Go(st, "outer")
             ELSE Return([st EXCEPT !.old = new], Some(new))

DedupeTurn(st, r) ==
    IF ~IsSome(r) THEN Return(st, r)
    ELSE IF r.value = st.old THEN Go(st, "outer")
    ELSE Return([st EXCEPT !.old = r.value], r)

\* Slip: a value that is kept leaves first as it is.
FilterMapTurn_KeepsFirst(st, r) ==
    IF ~IsSome(r) THEN Return(st, r)
    ELSE IF r.value \notin Keep /\ ~st.first THEN Go(st, "outer")
    ELSE Return([st EXCEPT !.first = @ /\ r.value \in Keep],
                IF r.value \in Keep THEN r ELSE Some(NoValue))

FilterMapTurn(st, r) ==
    IF ~IsSome(r) THEN Return(st, r)
    ELSE IF r.value \notin Keep /\ ~st.first THEN Go(st, "outer")
    ELSE Return([st EXCEPT !.first = FALSE],
                IF r.value \in Keep THEN r ELSE Some(NoValue))

\* "stopped" is the signal not being polled again.
StopIfTurn(st, r) ==
    Return([st EXCEPT !.signal = ~Over(r) /\ (IsSome(r) => r.value \notin Keep)],
           IF Over(r) THEN None ELSE r)

FirstTurn(st, r) ==
    Return([st EXCEPT !.signal = FALSE], IF Over(r) THEN None ELSE r)

\* OptionSignal and ResultSignal: "signal" is false for the plain value.
MaybeTurn(st, r) ==
    IF st.signal THEN Return(st, r)
    ELSE Return([st EXCEPT !.first = FALSE],
                IF st.first THEN Some(NoValue) ELSE None)

SignalFutureTurn(st, r) ==
    IF IsSome(r) THEN Go([st EXCEPT !.old = r.value], "outer")
    ELSE Return(st, IF Over(r) THEN Finish(st.old) ELSE r)

WaitForTurn(st, r) ==
    IF IsSome(r) /\ r.value # Target THEN Go(st, "outer")
    ELSE Return(st, IF IsSome(r) THEN Finish(r.value)
                    ELSE IF Over(r) THEN Finish(NoValue) ELSE r)

FromFutureTurn(st, r) ==
    IF Over(r) THEN Return(st, None)
    ELSE IF IsSome(r) THEN Return([st EXCEPT !.signal = FALSE], r)
    ELSE Return([st EXCEPT !.first = FALSE],
                IF st.first THEN Some(NoValue) ELSE Pending)

\* "old" is the local that keeps the last item until the stream is Pending.
FromStreamTurn(st, r) ==
    IF IsSome(r) THEN Go([st EXCEPT !.old = r.value], "outer")
    ELSE LET rest == [st EXCEPT !.signal = ~Over(r),
                                !.first = FALSE, !.old = NoValue]
         IN  IF st.old # NoValue \/ st.first THEN Return(rest, Some(st.old))
             ELSE Return(rest, IF Over(r) THEN None ELSE Pending)

-----------------------------------------------------------------------------
(* Two inputs.                                                             *)

\* Left, then right; both are polled each time.
MapRefLeft(st, r) ==
    Go([st EXCEPT !.signal = ~Over(r), !.done = Over(r), !.changed = IsSome(r),
                  !.old = IF IsSome(r) THEN <<r.value, @[2]>> ELSE @], "inner")

\* The end of the expansion of map_ref!: done and changed are the merged ones.
MapRefResult(changed, done, values) ==
    IF changed THEN Some(values) ELSE IF done THEN None ELSE Pending

MapRefRight(st, r) ==
    LET old == IF IsSome(r) THEN <<st.old[1], r.value>> ELSE st.old
    IN  Return([st EXCEPT !.inner = ~Over(r), !.old = old],
               MapRefResult(st.changed \/ IsSome(r), st.done /\ Over(r), old))

\* Slip: the signal is not polled again after a value.
MapFutureSignal_OneValue(st, r) ==
    Go([st EXCEPT !.signal = ~Over(r), !.done = Over(r),
                  !.inner = @ \/ IsSome(r)], "inner")

\* A value of the signal replaces the future, and the signal is polled again.
MapFutureSignal(st, r) ==
    IF IsSome(r) THEN Go([st EXCEPT !.inner = TRUE], "outer")
    ELSE Go([st EXCEPT !.signal = ~Over(r), !.done = Over(r)], "inner")

\* Slip: it ends with the signal, a future that is running notwithstanding.
MapFutureFuture_EndsEarly(st, r) ==
    LET rest == [st EXCEPT !.inner = @ /\ ~IsSome(r), !.first = FALSE]
    IN  IF IsSome(r) THEN Return(rest, r)
        ELSE IF st.first THEN Return(rest, Some(NoValue))
        ELSE Return(rest, IF st.done THEN None ELSE Pending)

MapFutureFuture(st, r) ==
    LET rest == [st EXCEPT !.inner = @ /\ ~IsSome(r), !.first = FALSE]
    IN  IF IsSome(r) THEN Return(rest, r)
        ELSE IF st.first THEN Return(rest, Some(NoValue))
        ELSE Return(rest, IF st.done /\ ~rest.inner THEN None ELSE Pending)

\* Slip: the signal is polled although the future is not over.
ThrottleFuture_PollsSignal(st, r) ==
    LET rest == [st EXCEPT !.inner = @ /\ ~IsSome(r), !.old = NoValue]
    IN  IF st.old # NoValue THEN Return(rest, Some(st.old)) ELSE Go(rest, "outer")

\* The future comes first.  Its callback is called for a value of the signal
\* ("old"), and the new future is polled before the value is returned.
ThrottleFuture(st, r) ==
    LET rest == [st EXCEPT !.inner = @ /\ ~IsSome(r), !.old = NoValue]
    IN  IF st.old # NoValue THEN Return(rest, Some(st.old))
        ELSE IF rest.inner THEN Return(rest, Pending)
        ELSE Go(rest, "outer")

ThrottleSignal(st, r) ==
    IF IsSome(r) THEN Go([st EXCEPT !.inner = TRUE, !.old = r.value], "inner")
    ELSE Return([st EXCEPT !.signal = ~Over(r)],
                IF Over(r) THEN None ELSE Pending)

\* Slip: done only from the poll after the one that dropped the parent.
FlattenParent_LateDone(st, r) ==
    Go([st EXCEPT !.signal = ~Over(r), !.inner = @ \/ IsSome(r),
                  !.done = ~st.signal], "inner")

\* Flatten polls the parent once, and then the inner signal, new or old.
FlattenParent(st, r) ==
    Go([st EXCEPT !.signal = ~Over(r), !.inner = @ \/ IsSome(r),
                  !.done = Over(r)], "inner")

FlattenInner(st, r) ==
    IF ~Over(r) THEN Return(st, r)
    ELSE Return([st EXCEPT !.inner = FALSE],
                IF st.done THEN None ELSE Pending)

\* The stream comes first; an item is paired with the signal's latest value.
SampleStream(st, r) ==
    IF IsSome(r) THEN Go([st EXCEPT !.old = <<@[1], r.value>>], "outer")
    ELSE Return(st, r)

SampleSignal(st, r) ==
    IF IsSome(r) THEN Go([st EXCEPT !.old = <<r.value, @[2]>>], "outer")
    ELSE Return([st EXCEPT !.signal = ~Over(r)], Some(st.old))
=============================================================================
