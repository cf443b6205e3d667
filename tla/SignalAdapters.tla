--------------------------- MODULE SignalAdapters ---------------------------
(***************************************************************************)
(* A combinator of src/signal/signal.rs or a map_ref!, its inputs, which   *)
(* other threads may change between two turns of a poll, and the task that *)
(* polls it until it is Pending or ends.  The inputs keep the contract of  *)
(* Signal, Future and Stream: a Signal answers its first poll with a value *)
(* and then with the latest one, and a poll that is Pending registers the  *)
(* waker.                                                                  *)
(***************************************************************************)
EXTENDS SignalTurns

CONSTANTS
    Values,     \* the values of the inputs
    Kinds       \* the combinators looked at

\* Made from one input; from a Future or Stream; with an inner Future; with an
\* inner Signal of which it takes every value; with a Stream beside the Signal.
Singles == {"map", "eq", "neq", "dedupe", "filter_map", "stop_if", "first",
            "maybe", "to_future", "wait_for", "from_future", "from_stream"}
Timed   == {"map_future", "throttle"}
Joined  == {"flatten", "map_ref"}

ASSUME KindsAssumption ==
    Kinds \subseteq Singles \cup Timed \cup Joined \cup {"sample"}
ASSUME ValuesAssumption ==
    /\ Target \in Values /\ Keep \subseteq Values /\ NoValue \notin Values
    /\ \A v \in Values : Image(v) \in Values
\* No combinator returns a pair or a Boolean that is None.
ASSUME NoValueAssumption ==
    /\ NoValue \notin BOOLEAN
    /\ NoValue \notin (Values \cup {NoValue}) \X (Values \cup {NoValue})

VARIABLES
    kind,       \* chosen at the start
    outer,      \* the first input
    inner,      \* the second one, if the combinator holds one
    woken,      \* the task will poll
    pc,         \* the input polled next, or "idle", "done"
    st,         \* the combinator's fields
    out,        \* the last value it returned, NoValue for none or for None
    kept        \* the last value taken from outer that filter_map's callback keeps

vars == <<kind, outer, inner, woken, pc, st, out, kept>>

\* An input: its value, whether that is still to be returned, whether it will
\* not change again, and whether it holds the task's waker.  An inner Signal or
\* Future belongs to the value of the outer signal it was made for.
Input(v, fresh, closed) ==
    [value |-> v, fresh |-> fresh, closed |-> closed, waker |-> FALSE,
     of |-> NoValue]

\* The callback makes a Future that may be complete or a Signal of any value.
NewInner(v) ==
    IF kind = "flatten"
    THEN [value : Values, fresh : {TRUE}, closed : BOOLEAN, waker : {FALSE},
          of : {v}]
    ELSE [value : {v}, fresh : BOOLEAN, closed : {FALSE}, waker : {FALSE},
          of : {v}]

Init ==
    /\ kind \in Kinds
    /\ outer \in IF kind \in {"from_future", "from_stream"}
                 THEN {Input(NoValue, FALSE, FALSE)}
                 ELSE {Input(v, TRUE, FALSE) : v \in Values}
    /\ inner \in IF kind = "map_ref" THEN {Input(v, TRUE, FALSE) : v \in Values}
                 ELSE {Input(NoValue, FALSE, FALSE)}
    /\ st \in LET s == Fields(kind \in {"filter_map", "maybe", "from_future",
                                        "from_stream", "map_future"})
              IN  CASE kind \in {"map_ref", "sample"} ->
                         {[s EXCEPT !.inner = TRUE, !.old = <<NoValue, NoValue>>]}
                    [] kind = "maybe" -> {[s EXCEPT !.signal = b] : b \in BOOLEAN}
                    [] OTHER -> {s}
    /\ woken = TRUE
    /\ pc = "idle"
    /\ out = NoValue
    /\ kept = NoValue

-----------------------------------------------------------------------------
(* The inputs.  A change wakes the task if it left its waker.              *)

Wake(input) == woken' = (woken \/ input.waker)

IsQueue == kind \in {"from_stream", "sample"}

\* A Signal may change at any time, a Stream when its item was taken; the
\* Future of from_future completes once.
ChangeOuter ==
    /\ ~outer.closed
    /\ kind = "from_stream" => ~outer.fresh
    /\ \E v \in Values :
          outer' = [outer EXCEPT !.value = v, !.fresh = TRUE, !.waker = FALSE,
                                 !.closed = kind = "from_future"]
    /\ Wake(outer)
    /\ UNCHANGED <<kind, inner, pc, st, out, kept>>

CloseOuter ==
    /\ ~outer.closed
    /\ kind # "from_future"
    /\ outer' = [outer EXCEPT !.closed = TRUE, !.waker = FALSE]
    /\ Wake(outer)
    /\ UNCHANGED <<kind, inner, pc, st, out, kept>>

ChangeInner ==
    /\ st.inner
    /\ ~inner.closed
    /\ \/ /\ kind \in Timed
          /\ ~inner.fresh
          /\ inner' = [inner EXCEPT !.fresh = TRUE, !.waker = FALSE]
       \/ /\ kind \notin Timed
          /\ kind = "sample" => ~inner.fresh
          /\ \E v \in Values :
                inner' = [inner EXCEPT !.value = v, !.fresh = TRUE,
                                       !.waker = FALSE]
    /\ Wake(inner)
    /\ UNCHANGED <<kind, outer, pc, st, out, kept>>

CloseInner ==
    /\ st.inner
    /\ ~inner.closed
    /\ kind \notin Timed
    /\ inner' = [inner EXCEPT !.closed = TRUE, !.waker = FALSE]
    /\ Wake(inner)
    /\ UNCHANGED <<kind, outer, pc, st, out, kept>>

-----------------------------------------------------------------------------
(* The task.                                                               *)

FirstPolled == IF kind \in {"throttle", "sample"} THEN "inner" ELSE "outer"

StartPoll ==
    /\ pc = "idle"
    /\ woken
    /\ woken' = FALSE
    /\ pc' = FirstPolled
    /\ UNCHANGED <<kind, outer, inner, st, out, kept>>

\* What an input answers, and what the poll leaves of it.
Answer(input, held) ==
    IF ~held THEN Gone
    ELSE IF input.fresh
    THEN Some(IF kind = "flatten" /\ pc = "inner"
              THEN <<input.of, input.value>> ELSE input.value)
    ELSE IF input.closed THEN None ELSE Pending

Polled(input, r) ==
    [input EXCEPT !.fresh = @ /\ ~IsSome(r),
                  !.waker = @ \/ r = Pending]

OuterTurn(r) ==
    CASE kind = "map" -> MapTurn(st, r)
      [] kind = "eq" -> CompareTurn(st, r, TRUE)
      [] kind = "neq" -> CompareTurn(st, r, FALSE)
      [] kind = "dedupe" -> DedupeTurn(st, r)
      [] kind = "filter_map" -> FilterMapTurn(st, r)
      [] kind = "stop_if" -> StopIfTurn(st, r)
      [] kind = "first" -> FirstTurn(st, r)
      [] kind = "maybe" -> MaybeTurn(st, r)
      [] kind = "to_future" -> SignalFutureTurn(st, r)
      [] kind = "wait_for" -> WaitForTurn(st, r)
      [] kind = "from_future" -> FromFutureTurn(st, r)
      [] kind = "from_stream" -> FromStreamTurn(st, r)
      [] kind = "map_ref" -> MapRefLeft(st, r)
      [] kind = "map_future" -> MapFutureSignal(st, r)
      [] kind = "throttle" -> ThrottleSignal(st, r)
      [] kind = "flatten" -> FlattenParent(st, r)
      [] kind = "sample" -> SampleSignal(st, r)

InnerTurn(r) ==
    CASE kind = "map_ref" -> MapRefRight(st, r)
      [] kind = "map_future" -> MapFutureFuture(st, r)
      [] kind = "throttle" -> ThrottleFuture(st, r)
      [] kind = "flatten" -> FlattenInner(st, r)
      [] kind = "sample" -> SampleStream(st, r)

\* The poll goes on, or returns: a value is used and the combinator polled
\* again, as ForEach does; None and the Ready of a Future end the task.
Follow(turn) ==
    /\ st' = turn.st
    /\ pc' = IF turn.at # "return" THEN turn.at
             ELSE IF IsSome(turn.poll) THEN FirstPolled
             ELSE IF turn.poll = Pending THEN "idle" ELSE "done"
    /\ out' = IF turn.poll.poll \in {"Some", "Finish"} THEN turn.poll.value
              ELSE out

PollOuter ==
    /\ pc = "outer"
    /\ LET r == Answer(outer, st.signal)
       IN  /\ Follow(OuterTurn(r))
           /\ outer' = Polled(outer, r)
           /\ IF kind \in Timed \cup {"flatten"} /\ IsSome(r)
              THEN inner' \in NewInner(r.value)
              ELSE UNCHANGED inner
           /\ kept' = IF IsSome(r) /\ r.value \in Keep THEN r.value ELSE kept
    /\ UNCHANGED <<kind, woken>>

PollInner ==
    /\ pc = "inner"
    /\ LET r == Answer(inner, st.inner)
       IN  /\ Follow(InnerTurn(r))
           /\ inner' = Polled(inner, r)
    /\ UNCHANGED <<kind, outer, woken, kept>>

Turn == PollOuter \/ PollInner

Next == ChangeOuter \/ CloseOuter \/ ChangeInner \/ CloseInner \/ StartPoll
        \/ Turn

Spec == Init /\ [][Next]_vars

\* A poll ends and a woken task is polled.
FairSpec == Spec /\ WF_vars(Turn) /\ WF_vars(StartPoll)

-----------------------------------------------------------------------------
(* Properties.                                                             *)

Answers == Values \cup {NoValue}
Outputs ==
    CASE kind \in {"eq", "neq"} -> BOOLEAN \cup {NoValue}
      [] kind \in {"map_ref", "sample", "flatten"} ->
            (Answers \X Answers) \cup {NoValue}
      [] OTHER -> Answers

InputOK(input) ==
    /\ {input.value, input.of} \subseteq Answers
    /\ {input.fresh, input.closed, input.waker} \subseteq BOOLEAN

\* Every variable has its type, and the combinator's fields agree with its
\* inputs: what it kept of a Signal is the last value taken from it, a future of
\* throttle is over before the signal is polled.
TypeOK ==
    /\ kind \in Kinds
    /\ InputOK(outer) /\ InputOK(inner)
    /\ woken \in BOOLEAN
    /\ pc \in {"idle", "outer", "inner", "done"}
    /\ {st.signal, st.inner, st.first, st.done, st.changed} \subseteq BOOLEAN
    /\ {st.old, out} \subseteq Outputs
    /\ kept \in Keep \cup {NoValue}
    /\ kind \in {"dedupe", "to_future"} /\ ~outer.fresh => st.old = outer.value
    /\ kind \in {"eq", "neq"} => out = st.old
    /\ kind = "throttle" /\ pc = "outer" => ~st.inner
    /\ kind \in {"map_future", "flatten"} /\ st.inner /\ ~outer.fresh =>
          inner.of = outer.value

\* What a combinator that has returned everything shows of its inputs.  While
\* an inner future is running map_future shows what it showed before, and
\* throttle may owe a value.
Shows ==
    CASE kind = "map" -> out = Image(outer.value)
      [] kind = "eq" -> out = (outer.value = Target)
      [] kind = "neq" -> out = (outer.value # Target)
      [] kind \in {"dedupe", "from_future", "from_stream"} -> out = outer.value
      [] kind = "filter_map" -> out = kept
      [] kind = "stop_if" -> out = outer.value /\ out \notin Keep
      [] kind = "first" -> out \in Values
      [] kind = "maybe" -> out = outer.value
      [] kind = "to_future" -> out = NoValue
      [] kind = "wait_for" -> outer.value # Target
      [] kind = "map_ref" -> out = <<outer.value, inner.value>>
      [] kind = "flatten" -> out = <<outer.value, inner.value>>
      [] kind = "map_future" -> st.inner \/ out = outer.value
      [] kind = "throttle" -> st.inner \/ out = outer.value
      [] kind = "sample" -> inner.value # NoValue =>
                                /\ out[1] = st.old[1] /\ out[1] \in Values
                                /\ out[2] = inner.value

\* An input that may still change holds the waker, unless the combinator does
\* not look at it yet: the signal of throttle while its future runs, the signal
\* that is sampled.
Listens ==
    /\ st.signal /\ ~outer.closed =>
          outer.waker \/ kind = "sample" \/ (kind = "throttle" /\ st.inner)
    /\ st.inner /\ ~inner.closed => inner.waker

\* A task sleeps only when it has been given what its inputs make of the
\* combinator now and will be woken by the next change of one of them.  Whatever
\* changes between two turns of a poll is not lost.
AsleepUpToDate == pc = "idle" /\ ~woken => Shows /\ Listens

\* What a future or a signal that ends has returned last: the latest value for
\* SignalFuture, the value looked for or nothing for WaitFor, the first value
\* that passed the test for StopIf; the others end with what they showed.
EndsRight ==
    pc = "done" =>
        CASE kind = "to_future" -> out = outer.value
          [] kind = "wait_for" -> out = Target
                                  \/ (out = NoValue /\ outer.value # Target)
          [] kind = "stop_if" -> out \in Keep \/ (outer.closed /\ Shows)
          [] kind \in {"map_future", "throttle"} -> out = outer.value
          [] kind = "maybe" -> out = (IF st.signal THEN outer.value ELSE NoValue)
          [] OTHER -> Shows

\* A value that is returned is news: dedupe, eq and neq never return the same
\* value twice in a row, stop_if returns nothing after the value that stopped
\* it, first nothing after its value, and None is returned only at the start.
Returns(v) ==
    \E turn \in {IF pc = "outer" THEN OuterTurn(Answer(outer, st.signal))
                 ELSE InnerTurn(Answer(inner, st.inner))} :
        turn.at = "return" /\ turn.poll = Some(v)

News(v) ==
    /\ kind \in {"dedupe", "eq", "neq"} => v # out
    /\ kind = "stop_if" => out \notin Keep
    /\ kind = "first" => out = NoValue
    /\ v = NoValue => out = NoValue

ReturnsNews ==
    [][Turn => \A v \in Outputs : Returns(v) => News(v)]_vars

\* When the inputs have ended and no future is running, the combinator ends.
InputsEnded ==
    /\ outer.closed
    /\ st.inner => inner.closed \/ (kind \in Timed /\ inner.fresh)

EventuallyEnds == <>[]InputsEnded => <>(pc = "done")

-----------------------------------------------------------------------------
(* What the proofs need: TypeOK, AsleepUpToDate and EndsRight are not      *)
(* inductive, because they say nothing of a poll that is under way.        *)

Inputs == [value : Answers, fresh : BOOLEAN, closed : BOOLEAN, waker : BOOLEAN,
           of : Answers]

Structs == [signal : BOOLEAN, inner : BOOLEAN, first : BOOLEAN, old : Outputs,
            done : BOOLEAN, changed : BOOLEAN]

\* The types of everything a turn reads.
Typed ==
    /\ kind \in Kinds
    /\ outer \in Inputs /\ inner \in Inputs
    /\ woken \in BOOLEAN
    /\ pc \in {"idle", "outer", "inner", "done"}
    /\ st \in Structs
    /\ out \in Outputs
    /\ kept \in Keep \cup {NoValue}
    /\ outer.value \in Values
       \/ (kind \in {"from_future", "from_stream"} /\ ~outer.fresh)
    /\ inner.fresh \/ (kind \in Timed /\ st.inner) => inner.value \in Values

\* An input whose next change wakes the task, and one that has said all.
Listening(input) == ~input.fresh /\ ~input.closed /\ input.waker
Finished(input)  == ~input.fresh /\ input.closed

Asleep == pc = "idle" /\ ~woken

\* What every combinator with one input keeps to.
SingleInv ==
    /\ ~st.inner
    /\ pc # "inner"
    /\ Asleep => st.signal /\ Listening(outer)
    /\ pc = "done" /\ st.signal =>
          Finished(outer) \/ (kind = "wait_for" /\ out = Target)

\* A plain signal: what was taken last was returned last.
PlainInv ==
    /\ kind # "maybe" => st.signal
    /\ kind = "map" /\ ~outer.fresh => out = Image(outer.value)
    /\ kind = "eq" /\ ~outer.fresh => out = (outer.value = Target)
    /\ kind = "neq" /\ ~outer.fresh => out = (outer.value # Target)
    /\ kind = "dedupe" /\ ~outer.fresh => out = outer.value
    /\ kind \in {"eq", "neq", "dedupe"} => out = st.old
    /\ kind = "filter_map" => out = kept /\ (st.first => out = NoValue)
    /\ kind = "maybe" /\ st.signal /\ ~outer.fresh => out = outer.value
    /\ kind = "maybe" /\ ~st.signal => out = NoValue
    /\ kind = "to_future" /\ ~outer.fresh => st.old = outer.value
    /\ kind = "to_future" => out = IF pc = "done" THEN st.old ELSE NoValue

\* wait_for looks at every value until it finds its target.
WaitForInv ==
    /\ st.signal
    /\ pc # "done" => out = NoValue
    /\ ~outer.fresh /\ out = NoValue => outer.value # Target
    /\ out \in {NoValue, Target}

\* stop_if and first end after the value they wait for.
StopIfInv ==
    IF st.signal
    THEN out \notin Keep /\ (~outer.fresh => out = outer.value)
    ELSE out \in Keep \/ (Finished(outer) /\ out = outer.value)

FirstInv ==
    IF st.signal THEN outer.fresh /\ out = NoValue ELSE out \in Values

\* A Future is taken once, and the items of a Stream one after the other.
FromFutureInv ==
    IF st.signal
    THEN /\ out = NoValue /\ outer.closed = outer.fresh
         /\ ~outer.fresh => outer.value = NoValue
    ELSE Finished(outer) /\ out = outer.value

FromStreamInv ==
    /\ ~outer.fresh => outer.value = IF st.old = NoValue THEN out ELSE st.old
    /\ pc # "outer" \/ ~st.signal => st.old = NoValue
    /\ st.first => out = NoValue /\ st.signal
    /\ ~st.signal => Finished(outer)

\* map_ref!: the values are those taken, and they are returned unless the poll
\* has still to look at the right signal.
MapRefInv ==
    /\ st.old \in Answers \X Answers
    /\ ~outer.fresh => st.old[1] = outer.value
    /\ ~inner.fresh => st.old[2] = inner.value
    /\ inner.value \in Values
    /\ st.signal \/ Finished(outer)
    /\ st.inner \/ Finished(inner)
    /\ pc = "inner" => st.old[1] \in Values /\ st.done = ~st.signal
    /\ pc # "inner" \/ ~st.changed =>
          out = st.old \/ (out = NoValue /\ st.old = <<NoValue, NoValue>>)
    /\ Asleep \/ (pc = "inner" /\ ~st.changed /\ ~woken) =>
          (st.signal => Listening(outer))
    /\ Asleep => (st.inner => Listening(inner))
    /\ pc = "done" => ~st.signal /\ ~st.inner

\* flatten: the inner signal belongs to the value taken last from the parent,
\* and it is new if the parent was not found pending.
FlattenInv ==
    /\ ~outer.fresh => inner.of = outer.value
    /\ ~inner.fresh /\ inner.of # NoValue => out = <<inner.of, inner.value>>
    /\ st.signal \/ Finished(outer)
    /\ ~st.inner => ~inner.fresh
    /\ ~st.inner /\ inner.of # NoValue => inner.closed
    /\ pc = "inner" => inner.of # NoValue /\ (st.done => ~st.signal)
    /\ Asleep \/ (pc = "inner" /\ ~woken /\ ~inner.fresh) =>
          (st.signal => Listening(outer))
    /\ Asleep => (st.inner => Listening(inner))
    /\ pc = "done" => ~st.signal /\ ~st.inner

\* map_future: the future belongs to the value taken last, and the signal was
\* found pending or over before the future is polled.
MapFutureInv ==
    /\ ~outer.fresh => inner.of = outer.value
    /\ inner.value = inner.of
    /\ ~inner.closed
    /\ st.signal \/ Finished(outer)
    /\ ~st.inner => ~inner.fresh /\ out = inner.value
    /\ st.first => out = NoValue
    /\ pc = "inner" => (st.done => ~st.signal)
    /\ Asleep \/ (pc = "inner" /\ ~woken) => (st.signal => Listening(outer))
    /\ Asleep => (st.inner => Listening(inner))
    /\ pc = "done" => ~st.signal /\ ~st.inner

\* throttle: a value that was taken is returned at the next turn, and the signal
\* is looked at only between two futures.
ThrottleInv ==
    /\ ~outer.fresh => outer.value = IF st.old = NoValue THEN out ELSE st.old
    /\ st.old # NoValue => pc = "inner"
    /\ pc = "outer" => ~st.inner
    /\ ~inner.closed
    /\ st.signal \/ (pc = "done" /\ Finished(outer))
    /\ pc = "done" => ~st.signal
    /\ Asleep => IF st.inner THEN Listening(inner) ELSE Listening(outer)

\* sample_stream: an item is paired with the signal's value before the stream is
\* looked at again.
SampleInv ==
    /\ st.old \in Answers \X Answers
    /\ st.inner
    /\ st.signal \/ Finished(outer)
    /\ ~outer.fresh => st.old[1] = outer.value
    /\ ~inner.fresh /\ inner.value # NoValue =>
          /\ st.old[2] = inner.value
          /\ pc # "outer" => out = st.old /\ st.old[1] \in Values
    /\ Asleep => Listening(inner)
    /\ pc = "done" => Finished(inner)

\* The strengthened invariant.
Plain == {"map", "eq", "neq", "dedupe", "filter_map", "maybe", "to_future"}

IInv ==
    /\ Typed
    /\ kind \in Singles => SingleInv
    /\ kind \in Plain => PlainInv
    /\ kind = "wait_for" => WaitForInv
    /\ kind = "stop_if" => StopIfInv
    /\ kind = "first" => FirstInv
    /\ kind = "from_future" => FromFutureInv
    /\ kind = "from_stream" => FromStreamInv
    /\ kind = "map_ref" => MapRefInv
    /\ kind = "flatten" => FlattenInv
    /\ kind = "map_future" => MapFutureInv
    /\ kind = "throttle" => ThrottleInv
    /\ kind = "sample" => SampleInv
=============================================================================
