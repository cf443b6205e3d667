------------------------------ MODULE VecJoins ------------------------------
(***************************************************************************)
(* A combinator of several SignalVecs, or of a SignalVec or SignalMap and  *)
(* the Signals or Futures of its values, its inputs and the task.  The     *)
(* inputs send any diffs, change and end in any order between two polls;   *)
(* the task polls until Pending or the end and applies what it gets.       *)
(***************************************************************************)
EXTENDS VecChain, VecNested, VecSignals, VecDelay, MapSignals

CONSTANTS
    Joins,      \* the combinators looked at
    Values,     \* the values of the input of each: vectors for flatten, switch
    RightValues, \* the values of the right input of chain
    Keys,       \* the keys of the input of map_value_signal
    PartValues, \* those of map_signal's and map_value_signal's Signals
    Keep,       \* those whose first Signal of filter_signal is true
    MaxLen,     \* bound on the length of the input's contents
    MaxPart,    \* bound on the length of right and of the inner vectors
    MaxDelayed, \* no more values are sent to a delay_remove that holds so many
    MaxQueue,   \* an input waits while it has that many diffs queued
    MaxQueued,  \* or while all inputs together have that many
    Awkward     \* the combinators whose inputs also send what they get wrong

ASSUME JoinsAssumption ==
    Joins \subseteq {"chain", "flatten", "switch", "map_signal",
                     "filter_signal", "map_value_signal", "delay_remove"}
ASSUME ValuesAssumption == Joins \subseteq DOMAIN Values /\ Awkward \subseteq Joins
ASSUME BoundsAssumption ==
    {MaxLen, MaxPart, MaxDelayed, MaxQueue, MaxQueued} \subseteq Nat \ {0}

VARIABLES
    kind,       \* chosen at the start
    st,         \* the combinator's fields, its inputs among them
    woken,      \* the task will poll
    pc,         \* "waiting", "done" or "panicked"
    view        \* what the task made of the diffs

vars == <<kind, st, woken, pc, view>>

NoVec == [values |-> <<>>, closed |-> FALSE, alphabet |-> {}]

\* The Signal of switch has a value from the start.  An empty sequence is an
\* empty map too.
Init ==
    /\ kind \in Joins
    /\ st \in CASE kind = "chain" -> {ChainState(Source(NoVec), Source(NoVec))}
                [] kind = "switch" ->
                      {NestedState([Source(NoVec) EXCEPT !.queue = <<v>>]) :
                          v \in Values["switch"]}
                [] OTHER -> {NestedState(Source(NoVec))}
    /\ woken = TRUE
    /\ pc = "waiting"
    /\ view = <<>>

-----------------------------------------------------------------------------
(* The inputs: what they do wakes the task if they have its waker.         *)

Change(new, input) ==
    /\ st' = new
    /\ woken' = (woken \/ input.waker)
    /\ UNCHANGED <<kind, pc, view>>

OfMap == kind = "map_value_signal"

Applied(d, c) == IF OfMap THEN ApplyMap(d, c) ELSE Apply(d, c)
Fits(d, c) == IF OfMap THEN ApplicableMap(d, c) ELSE Applicable(d, c)

Sent(src, d) ==
    [src EXCEPT !.queue = Append(@, d), !.contents = Applied(d, @), !.waker = FALSE]

\* What a combinator gets wrong: chain a Replace of nothing by nothing, flatten
\* inner vectors that go or move, filter_signal a Move.
IsAwkward(d, src) ==
    CASE kind = "chain" ->
            /\ d.op \in {"Replace", "Clear"}
            /\ NewValues(d) = <<>> /\ src.contents = <<>>
      [] kind = "flatten" -> d.op \in {"UpdateAt", "RemoveAt", "Move", "Pop"}
      [] kind = "filter_signal" -> d.op = "Move"
      [] OTHER -> FALSE

Nested == {"flatten", "switch"}

\* Those with a Signal for every value.
OfSignals == {"map_signal", "filter_signal", "map_value_signal"}

Queued ==
    CASE kind = "chain" -> Len(st.top.queue) + Len(st.right.queue)
      [] kind \in Nested ->
            FoldLeft(LAMBDA n, p : n + Len(p.queue), Len(st.top.queue), st.parts)
      [] OTHER -> Len(st.top.queue)

CanSend(src) ==
    /\ ~src.closed
    /\ Len(src.queue) < MaxQueue
    /\ Queued < MaxQueued
    /\ kind = "delay_remove" => Len(st.parts) < MaxDelayed

TopSends ==
    /\ kind # "switch"
    /\ \E d \in IF OfMap
                THEN LegalMapDiffs(st.top.contents, Keys, Values[kind])
                ELSE LegalDiffs(st.top.contents, Values[kind], MaxLen) :
          /\ CanSend(st.top)
          /\ IsAwkward(d, st.top) => kind \in Awkward
          /\ Change([st EXCEPT !.top = Sent(@, d)], st.top)

\* The Signal of switch: the last value is the one that counts.
TopChanges ==
    /\ kind = "switch"
    /\ ~st.top.closed
    /\ \E v \in Values["switch"] :
          Change([st EXCEPT !.top.queue = <<v>>, !.top.waker = FALSE], st.top)

RightSends ==
    /\ kind = "chain"
    /\ \E d \in LegalDiffs(st.right.contents, RightValues, MaxPart) :
          /\ CanSend(st.right)
          /\ IsAwkward(d, st.right) => kind \in Awkward
          /\ Change([st EXCEPT !.right = Sent(@, d)], st.right)

\* An inner vector.
PartSends(i) ==
    /\ kind \in Nested
    /\ LET part == st.parts[i]
       IN  \E d \in LegalDiffs(part.contents, part.alphabet, MaxPart) :
              /\ CanSend(part)
              /\ Change([st EXCEPT !.parts[i] = Sent(@, d)], part)

\* A value's Signal changes, or its Future is over.
PartChanges(i) ==
    \/ /\ kind \in OfSignals
       /\ ~st.parts[i].closed
       /\ \E v \in IF kind = "filter_signal" THEN BOOLEAN ELSE PartValues :
             Change([st EXCEPT !.parts[i] =
                        [@ EXCEPT !.value = v, !.fresh = TRUE, !.waker = FALSE]],
                    st.parts[i])
    \/ /\ kind = "delay_remove"
       /\ ~st.parts[i].over
       /\ Change([st EXCEPT !.parts[i] = [@ EXCEPT !.over = TRUE, !.waker = FALSE]],
                 st.parts[i])

Close(src) == [src EXCEPT !.closed = TRUE, !.waker = FALSE]

Closes ==
    \/ ~st.top.closed /\ Change([st EXCEPT !.top = Close(@)], st.top)
    \/ /\ kind = "chain"
       /\ ~st.right.closed
       /\ Change([st EXCEPT !.right = Close(@)], st.right)
    \/ /\ kind \notin {"chain", "delay_remove"}
       /\ \E i \in DOMAIN st.parts :
             /\ ~st.parts[i].closed
             /\ Change([st EXCEPT !.parts[i] = Close(@)], st.parts[i])

\* A poll that only returns a pending diff looks at no input and leaves them as
\* they are: what an input does before it, it may as well do after the last of
\* them, before the next poll.
Inputs ==
    /\ pc = "waiting"
    /\ st.pending = <<>>
    /\ \/ TopSends \/ TopChanges \/ RightSends \/ Closes
       \/ /\ kind # "chain"
          /\ \E i \in DOMAIN st.parts : PartSends(i) \/ PartChanges(i)

-----------------------------------------------------------------------------
(* The task.                                                               *)

PollResult ==
    CASE kind = "chain" -> ChainPoll(st)
      [] kind = "flatten" -> FlattenPoll(st)
      [] kind = "switch" -> SwitchPoll(st)
      [] kind = "map_signal" -> MapSignalPoll(st)
      [] kind = "filter_signal" -> FilterSignalPoll(st, Keep)
      [] kind = "map_value_signal" -> MapValueSignalPoll(st)
      [] kind = "delay_remove" -> DelayPoll(st)

\* One poll.  After a diff the task polls again; one that does not fit panics.
Poll ==
    /\ pc = "waiting"
    /\ woken
    /\ \E r \in {PollResult} :
          LET some == r.answer.poll = "Some"
              fits == some /\ Fits(r.answer.diff, view)
          IN  /\ st' = r.st
              /\ view' = IF fits THEN Applied(r.answer.diff, view) ELSE view
              /\ woken' = fits
              /\ pc' = CASE r.answer.poll = "None" -> "done"
                         [] some /\ ~fits -> "panicked"
                         [] OTHER -> "waiting"
    /\ UNCHANGED kind

Next == Inputs \/ Poll

Spec == Init /\ [][Next]_vars

-----------------------------------------------------------------------------
(* Properties.                                                             *)

Contents(parts) == [i \in DOMAIN parts |-> parts[i].contents]
ValuesOf(parts) == [i \in DOMAIN parts |-> parts[i].value]
Items(parts)    == [i \in DOMAIN parts |-> parts[i].item]

\* What the output is when everything the inputs sent was taken.
Whole ==
    CASE kind = "chain" -> st.top.contents \o st.right.contents
      [] kind = "flatten" -> FlattenSeq(Contents(st.parts))
      [] kind = "switch" -> st.parts[1].contents
      [] kind \in {"map_signal", "map_value_signal"} -> ValuesOf(st.parts)
      [] kind = "filter_signal" ->
            Items(SelectSeq(st.parts, LAMBDA p : p.value))
      [] kind = "delay_remove" -> Items(st.parts)

\* The combinator holds a part for every value of its input; the input's values
\* of delay_remove are those not being removed, which are waited for.
PartsFit ==
    CASE kind = "flatten" -> Len(st.parts) = Len(st.top.contents)
      [] kind \in OfSignals ->
            Items(st.parts) = st.top.contents
      [] kind = "delay_remove" ->
            /\ [k \in DOMAIN Live(st.parts) |-> st.parts[Live(st.parts)[k]].item]
                  = st.top.contents
            /\ \A i \in DOMAIN st.parts :
                  st.parts[i].is_removing => ~st.parts[i].over
      [] OTHER -> TRUE

\* Every variable has its type, and the lengths that the combinator counts are
\* those of its output with the diffs that are still pending.
TypeOK ==
    /\ kind \in Joins
    /\ woken \in BOOLEAN
    /\ pc \in {"waiting", "done", "panicked"}
    /\ {st.top.closed, st.top.waker, st.top.held} \subseteq BOOLEAN
    /\ Len(st.top.queue) <= MaxQueue
    /\ st.pending # <<>> => woken \/ pc # "waiting"
    /\ st.pending = <<>> /\ pc # "panicked" =>
          CASE kind = "chain" -> Len(view) = st.left_len + st.right_len
            [] kind = "switch" -> Len(view) = st.len
            [] kind = "flatten" ->
                  Len(view) = FoldLeft(LAMBDA n, p : n + p.len, 0, st.parts)
            [] kind \in {"map_signal", "delay_remove"} ->
                  Len(view) = Len(st.parts)
            [] OfMap -> DOMAIN view = DOMAIN st.parts
            [] kind = "filter_signal" ->
                  Len(view) = FindIndex(Exists(st.parts), Len(st.parts))

\* An input that can still change has the waker of a task that sleeps.  The
\* future of a value matters to delay_remove once the value is removed.
Listens ==
    /\ st.top.closed \/ st.top.waker
    /\ kind = "chain" => st.right.closed \/ st.right.waker
    /\ kind \in Nested \cup OfSignals =>
          \A i \in DOMAIN st.parts : st.parts[i].closed \/ st.parts[i].waker
    /\ kind = "delay_remove" =>
          \A i \in DOMAIN st.parts : st.parts[i].is_removing => st.parts[i].waker

\* No diff of the output panics; the task sleeps, or is told of the end, only
\* when it has the inputs' values in the right order, and will be woken when
\* one of them changes.
OutputFollowsInputs ==
    /\ pc # "panicked"
    /\ pc = "done" \/ ~woken => view = Whole /\ PartsFit
    /\ pc = "waiting" /\ ~woken => Listens

\* When all inputs have ended, and the futures of removed values are over, the
\* task is not asleep until it was told of the end: nobody would wake it again.
EndIsTold ==
    pc = "waiting" /\ ~woken =>
        \/ ~st.top.closed
        \/ kind = "chain" /\ ~st.right.closed
        \/ /\ kind \in Nested \cup OfSignals
           /\ \E i \in DOMAIN st.parts : ~st.parts[i].closed
        \/ /\ kind = "delay_remove"
           /\ \E i \in DOMAIN st.parts :
                 st.parts[i].is_removing /\ ~st.parts[i].over
=============================================================================
