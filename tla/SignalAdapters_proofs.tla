------------------------ MODULE SignalAdapters_proofs -----------------------
(***************************************************************************)
(* Proofs about SignalAdapters: every combinator, any set of values, any   *)
(* callbacks.                                                              *)
(***************************************************************************)
EXTENDS SignalAdapters, TLAPS

-----------------------------------------------------------------------------
(* Polls of the inputs.                                                    *)

\* An answer r, with the value v, to a poll that leaves the input j of i.
Answered(i, j, held, r, v) ==
    \/ held /\ i.fresh /\ r = Some(v) /\ j = [i EXCEPT !.fresh = FALSE]
    \/ ~held /\ r = Gone /\ j = i
    \/ held /\ Finished(i) /\ r = None /\ j = i
    \/ held /\ ~i.fresh /\ ~i.closed /\ r = Pending
       /\ j = [i EXCEPT !.waker = TRUE]

\* The answers are told apart by their poll.
LEMMA Answers3 ==
    /\ \A v : IsSome(Some(v)) /\ ~Over(Some(v)) /\ Some(v).value = v
    /\ ~IsSome(Pending) /\ ~Over(Pending)
    /\ ~IsSome(None) /\ Over(None)
    /\ ~IsSome(Gone) /\ Over(Gone)
BY DEF IsSome, Over, Some, Pending, None, Gone

LEMMA AnswerBooleans == \A r : Over(r) \in BOOLEAN /\ IsSome(r) \in BOOLEAN
BY DEF Over, IsSome

\* The four answers of an input.
LEMMA PollAnswered ==
    ASSUME NEW i \in Inputs, NEW held \in BOOLEAN, NEW r, NEW v,
           r = IF ~held THEN Gone ELSE IF i.fresh THEN Some(v)
               ELSE IF i.closed THEN None ELSE Pending
    PROVE  Answered(i, Polled(i, r), held, r, v) /\ Polled(i, r) \in Inputs
<1>1. /\ IsSome(r) \in BOOLEAN /\ (r = Pending) \in BOOLEAN
      /\ i.fresh \in BOOLEAN /\ i.closed \in BOOLEAN /\ i.waker \in BOOLEAN
  BY DEF IsSome, Inputs
<1>2. CASE ~held
  <2>1. r = Gone /\ r # Pending BY <1>2 DEF Gone, Pending
  <2>2. Polled(i, r) = i BY <2>1, <1>1, Answers3 DEF Polled, Inputs
  <2> QED BY <1>2, <2>1, <2>2 DEF Answered
<1>3. CASE held /\ i.fresh
  <2>1. r = Some(v) BY <1>3
  <2>2. r # Pending BY <2>1 DEF Some, Pending
  <2>3. Polled(i, r) = [i EXCEPT !.fresh = FALSE]
    BY <2>1, <2>2, <1>1, <1>3, Answers3 DEF Polled, Inputs
  <2> QED BY <1>3, <2>1, <2>3 DEF Answered, Inputs
<1>4. CASE held /\ ~i.fresh /\ i.closed
  <2>1. r = None BY <1>4
  <2>2. r # Pending BY <2>1 DEF None, Pending
  <2>3. Polled(i, r) = i BY <2>1, <2>2, <1>1, <1>4, Answers3 DEF Polled, Inputs
  <2> QED BY <1>4, <2>1, <2>3 DEF Answered, Finished
<1>5. CASE held /\ ~i.fresh /\ ~i.closed
  <2>1. r = Pending BY <1>5
  <2>2. Polled(i, r) = [i EXCEPT !.waker = TRUE]
    BY <2>1, <1>1, <1>5, Answers3 DEF Polled, Inputs
  <2> QED BY <1>5, <2>1, <2>2 DEF Answered, Inputs
<1> QED BY <1>2, <1>3, <1>4, <1>5

\* What PollOuter does with the answer r.
LEMMA OuterAnswered ==
    ASSUME Typed, PollOuter
    PROVE  \E r : /\ Answered(outer, outer', st.signal, r, outer.value)
                  /\ outer' \in Inputs
                  /\ Follow(OuterTurn(r))
                  /\ r = Answer(outer, st.signal)
<1> DEFINE r == Answer(outer, st.signal)
<1>1. outer' = Polled(outer, r) /\ Follow(OuterTurn(r)) /\ pc = "outer"
  BY DEF PollOuter
<1>2. outer \in Inputs /\ st.signal \in BOOLEAN BY DEF Typed, Structs
<1>3. r = IF ~st.signal THEN Gone ELSE IF outer.fresh THEN Some(outer.value)
          ELSE IF outer.closed THEN None ELSE Pending
  BY <1>1 DEF Answer
<1>4. Answered(outer, Polled(outer, r), st.signal, r, outer.value)
      /\ Polled(outer, r) \in Inputs
  BY <1>2, <1>3, PollAnswered
<1> QED BY <1>1, <1>4

\* What PollInner does with the answer r; the inner Signal of flatten answers
\* with the pair of the outer value and its own.
InnerAnswer ==
    IF kind = "flatten" THEN <<inner.of, inner.value>> ELSE inner.value

LEMMA InnerAnswered ==
    ASSUME Typed, PollInner
    PROVE  \E r : /\ Answered(inner, inner', st.inner, r, InnerAnswer)
                  /\ inner' \in Inputs
                  /\ Follow(InnerTurn(r))
                  /\ r = Answer(inner, st.inner)
<1> DEFINE r == Answer(inner, st.inner)
<1>1. inner' = Polled(inner, r) /\ Follow(InnerTurn(r)) /\ pc = "inner"
  BY DEF PollInner
<1>2. inner \in Inputs /\ st.inner \in BOOLEAN BY DEF Typed, Structs
<1>3. r = IF ~st.inner THEN Gone ELSE IF inner.fresh THEN Some(InnerAnswer)
          ELSE IF inner.closed THEN None ELSE Pending
  BY <1>1 DEF Answer, InnerAnswer
<1>4. Answered(inner, Polled(inner, r), st.inner, r, InnerAnswer)
      /\ Polled(inner, r) \in Inputs
  BY <1>2, <1>3, PollAnswered
<1> QED BY <1>1, <1>4

-----------------------------------------------------------------------------
(* Turns.                                                                  *)

\* Which turn a combinator takes, and what its poll starts with.
LEMMA OuterTurns ==
    ASSUME NEW r
    PROVE  /\ kind = "map" => OuterTurn(r) = MapTurn(st, r)
           /\ kind = "eq" => OuterTurn(r) = CompareTurn(st, r, TRUE)
           /\ kind = "neq" => OuterTurn(r) = CompareTurn(st, r, FALSE)
           /\ kind = "dedupe" => OuterTurn(r) = DedupeTurn(st, r)
           /\ kind = "filter_map" => OuterTurn(r) = FilterMapTurn(st, r)
           /\ kind = "stop_if" => OuterTurn(r) = StopIfTurn(st, r)
           /\ kind = "first" => OuterTurn(r) = FirstTurn(st, r)
           /\ kind = "maybe" => OuterTurn(r) = MaybeTurn(st, r)
           /\ kind = "to_future" => OuterTurn(r) = SignalFutureTurn(st, r)
           /\ kind = "wait_for" => OuterTurn(r) = WaitForTurn(st, r)
           /\ kind = "from_future" => OuterTurn(r) = FromFutureTurn(st, r)
           /\ kind = "from_stream" => OuterTurn(r) = FromStreamTurn(st, r)
           /\ kind = "map_ref" => OuterTurn(r) = MapRefLeft(st, r)
           /\ kind = "map_future" => OuterTurn(r) = MapFutureSignal(st, r)
           /\ kind = "throttle" => OuterTurn(r) = ThrottleSignal(st, r)
           /\ kind = "flatten" => OuterTurn(r) = FlattenParent(st, r)
           /\ kind = "sample" => OuterTurn(r) = SampleSignal(st, r)
<1>1. kind = "map" => OuterTurn(r) = MapTurn(st, r) BY Zenon DEF OuterTurn
<1>2. kind = "eq" => OuterTurn(r) = CompareTurn(st, r, TRUE) BY Zenon DEF OuterTurn
<1>3. kind = "neq" => OuterTurn(r) = CompareTurn(st, r, FALSE) BY Zenon DEF OuterTurn
<1>4. kind = "dedupe" => OuterTurn(r) = DedupeTurn(st, r) BY Zenon DEF OuterTurn
<1>5. kind = "filter_map" => OuterTurn(r) = FilterMapTurn(st, r) BY Zenon DEF OuterTurn
<1>6. kind = "stop_if" => OuterTurn(r) = StopIfTurn(st, r) BY Zenon DEF OuterTurn
<1>7. kind = "first" => OuterTurn(r) = FirstTurn(st, r) BY Zenon DEF OuterTurn
<1>8. kind = "maybe" => OuterTurn(r) = MaybeTurn(st, r) BY Zenon DEF OuterTurn
<1>9. kind = "to_future" => OuterTurn(r) = SignalFutureTurn(st, r) BY Zenon DEF OuterTurn
<1>10. kind = "wait_for" => OuterTurn(r) = WaitForTurn(st, r) BY Zenon DEF OuterTurn
<1>11. kind = "from_future" => OuterTurn(r) = FromFutureTurn(st, r) BY Zenon DEF OuterTurn
<1>12. kind = "from_stream" => OuterTurn(r) = FromStreamTurn(st, r) BY Zenon DEF OuterTurn
<1>13. kind = "map_ref" => OuterTurn(r) = MapRefLeft(st, r) BY Zenon DEF OuterTurn
<1>14. kind = "map_future" => OuterTurn(r) = MapFutureSignal(st, r) BY Zenon DEF OuterTurn
<1>15. kind = "throttle" => OuterTurn(r) = ThrottleSignal(st, r) BY Zenon DEF OuterTurn
<1>16. kind = "flatten" => OuterTurn(r) = FlattenParent(st, r) BY Zenon DEF OuterTurn
<1>17. kind = "sample" => OuterTurn(r) = SampleSignal(st, r) BY Zenon DEF OuterTurn
<1> QED BY <1>1, <1>2, <1>3, <1>4, <1>5, <1>6, <1>7, <1>8, <1>9, <1>10, <1>11, <1>12, <1>13, <1>14, <1>15, <1>16, <1>17

LEMMA InnerTurns ==
    ASSUME NEW r
    PROVE  /\ kind = "map_ref" => InnerTurn(r) = MapRefRight(st, r)
           /\ kind = "map_future" => InnerTurn(r) = MapFutureFuture(st, r)
           /\ kind = "throttle" => InnerTurn(r) = ThrottleFuture(st, r)
           /\ kind = "flatten" => InnerTurn(r) = FlattenInner(st, r)
           /\ kind = "sample" => InnerTurn(r) = SampleStream(st, r)
<1>1. kind = "map_ref" => InnerTurn(r) = MapRefRight(st, r) BY Zenon DEF InnerTurn
<1>2. kind = "map_future" => InnerTurn(r) = MapFutureFuture(st, r) BY Zenon DEF InnerTurn
<1>3. kind = "throttle" => InnerTurn(r) = ThrottleFuture(st, r) BY Zenon DEF InnerTurn
<1>4. kind = "flatten" => InnerTurn(r) = FlattenInner(st, r) BY Zenon DEF InnerTurn
<1>5. kind = "sample" => InnerTurn(r) = SampleStream(st, r) BY Zenon DEF InnerTurn
<1> QED BY <1>1, <1>2, <1>3, <1>4, <1>5

LEMMA OutputsAre ==
    /\ kind \in {"eq", "neq"} => Outputs = BOOLEAN \cup {NoValue}
    /\ kind \in {"map_ref", "sample", "flatten"} =>
          Outputs = (Answers \X Answers) \cup {NoValue}
    /\ kind \notin {"eq", "neq", "map_ref", "sample", "flatten"} =>
          Outputs = Answers
<1>1. kind \in {"eq", "neq"} => Outputs = BOOLEAN \cup {NoValue}
  BY Zenon DEF Outputs
<1>2. kind \in {"map_ref", "sample", "flatten"} =>
          Outputs = (Answers \X Answers) \cup {NoValue}
  BY Zenon DEF Outputs
<1>3. kind \notin {"eq", "neq", "map_ref", "sample", "flatten"} =>
          Outputs = Answers
  BY Zenon DEF Outputs
<1> QED BY <1>1, <1>2, <1>3

LEMMA OutputsKept ==
    ASSUME kind' = kind PROVE Outputs' = Outputs /\ Structs' = Structs
<1>1. Outputs' = Outputs BY Zenon DEF Outputs
<1> QED BY <1>1 DEF Structs

\* A turn that goes on, and the four ways to return.
LEMMA FollowGo ==
    ASSUME NEW s, NEW at, at # "return", Follow(Go(s, at))
    PROVE  st' = s /\ pc' = at /\ out' = out
<1> DEFINE turn == Go(s, at)
<1>1. turn.st = s /\ turn.at = at /\ turn.poll = Gone BY DEF Go
<1>2. turn.poll.poll = "Gone" BY <1>1 DEF Gone
<1>3. st' = s /\ out' = out BY <1>1, <1>2 DEF Follow
<1>4. pc' = at BY <1>1 DEF Follow
<1> QED BY <1>3, <1>4

LEMMA FollowReturn ==
    ASSUME NEW s, NEW r, Follow(Return(s, r))
    PROVE  /\ st' = [s EXCEPT !.done = FALSE, !.changed = FALSE]
           /\ IsSome(r) => pc' = FirstPolled /\ out' = r.value
           /\ r = Pending => pc' = "idle" /\ out' = out
           /\ Over(r) => pc' = "done" /\ out' = out
           /\ \A v : r = Finish(v) => pc' = "done" /\ out' = v
<1> DEFINE turn == Return(s, r)
<1>1. /\ turn.st = [s EXCEPT !.done = FALSE, !.changed = FALSE]
      /\ turn.at = "return" /\ turn.poll = r
  BY DEF Return
<1>2. st' = [s EXCEPT !.done = FALSE, !.changed = FALSE] BY <1>1 DEF Follow
<1>3. out' = IF r.poll \in {"Some", "Finish"} THEN r.value ELSE out
  BY <1>1 DEF Follow
<1>4. IsSome(r) => pc' = FirstPolled BY <1>1 DEF Follow
<1>5. ~IsSome(r) /\ r = Pending => pc' = "idle" BY <1>1 DEF Follow
<1>6. ~IsSome(r) /\ r # Pending => pc' = "done" BY <1>1 DEF Follow
<1>7. IsSome(r) => out' = r.value BY <1>3 DEF IsSome
<1>8. r = Pending => ~IsSome(r) /\ out' = out BY <1>3 DEF IsSome, Pending
<1>9. Over(r) => ~IsSome(r) /\ r # Pending /\ out' = out
  BY <1>3 DEF IsSome, Pending, Over
<1>10. \A v : r = Finish(v) => ~IsSome(r) /\ r # Pending /\ out' = v
  BY <1>3 DEF IsSome, Pending, Finish
<1> QED
  BY <1>2, <1>4, <1>5, <1>6, <1>7, <1>8, <1>9, <1>10

LEMMA FollowFinish ==
    ASSUME NEW s, NEW v, Follow(Return(s, Finish(v)))
    PROVE  /\ st' = [s EXCEPT !.done = FALSE, !.changed = FALSE]
           /\ pc' = "done" /\ out' = v
BY FollowReturn

-----------------------------------------------------------------------------
(* The steps between two turns.                                            *)

\* The fields of a combinator that was just made.
LEMMA FirstFields ==
    ASSUME Init
    PROVE  /\ st \in Structs
           /\ kind # "maybe" => st.signal
           /\ kind \in {"map_ref", "sample"} => st.inner
           /\ kind \notin {"map_ref", "sample"} => ~st.inner
           /\ kind \in {"map_ref", "sample"} => st.old = <<NoValue, NoValue>>
           /\ kind \notin {"map_ref", "sample"} => st.old = NoValue
           /\ NoValue \in Outputs
<1>1. NoValue \in Outputs BY OutputsAre DEF Answers
<1>2. PICK f \in BOOLEAN :
          f = (kind \in {"filter_map", "maybe", "from_future", "from_stream",
                         "map_future"})
  <2>1. (kind \in {"filter_map", "maybe", "from_future", "from_stream",
                   "map_future"}) \in BOOLEAN
    OBVIOUS
  <2> QED BY <2>1
<1>3. PICK s \in Structs : s = Fields(f)
  <2>1. Fields(f) \in Structs BY <1>1 DEF Fields, Structs
  <2> QED BY <2>1
<1>4. s.signal = TRUE /\ s.inner = FALSE /\ s.old = NoValue
  BY <1>3 DEF Fields
<1>5. CASE kind \in {"map_ref", "sample"}
  <2>1. st = [s EXCEPT !.inner = TRUE, !.old = <<NoValue, NoValue>>]
    BY Zenon, <1>2, <1>3, <1>5 DEF Init
  <2>2. <<NoValue, NoValue>> \in Outputs BY <1>5, OutputsAre DEF Answers
  <2>3. /\ st \in Structs /\ st.inner = TRUE /\ st.signal = TRUE
        /\ st.old = <<NoValue, NoValue>>
    BY <1>4, <2>1, <2>2 DEF Structs
  <2> QED BY <1>1, <1>5, <2>3
<1>6. CASE kind = "maybe"
  <2>1. st \in {[s EXCEPT !.signal = b] : b \in BOOLEAN}
    BY Zenon, <1>2, <1>3, <1>6 DEF Init
  <2>2. st \in Structs /\ st.inner = FALSE /\ st.old = NoValue
    BY <1>4, <2>1 DEF Structs
  <2> QED BY <1>1, <1>6, <2>2
<1>7. CASE kind \notin {"map_ref", "sample", "maybe"}
  <2>1. st = s BY Zenon, <1>2, <1>3, <1>7 DEF Init
  <2> QED BY <1>1, <1>4, <1>7, <2>1
<1> QED BY <1>5, <1>6, <1>7

LEMMA IInvInit == Init => IInv
<1> SUFFICES ASSUME Init PROVE IInv OBVIOUS
<1>1. /\ kind \in Kinds /\ woken = TRUE /\ pc = "idle"
      /\ out = NoValue /\ kept = NoValue
  BY DEF Init
<1>2. /\ outer \in Inputs /\ inner \in Inputs
      /\ ~outer.closed /\ ~inner.closed
      /\ inner.of = NoValue
      /\ IF kind \in {"from_future", "from_stream"}
         THEN outer.value = NoValue /\ ~outer.fresh
         ELSE outer.value \in Values /\ outer.fresh
      /\ IF kind = "map_ref" THEN inner.value \in Values /\ inner.fresh
         ELSE inner.value = NoValue /\ ~inner.fresh
  <2> DEFINE rest == Input(NoValue, FALSE, FALSE)
  <2>1. \A v \in Answers, f \in BOOLEAN :
            /\ Input(v, f, FALSE) \in Inputs
            /\ Input(v, f, FALSE).value = v /\ Input(v, f, FALSE).fresh = f
            /\ Input(v, f, FALSE).closed = FALSE
            /\ Input(v, f, FALSE).of = NoValue
    BY DEF Input, Inputs, Answers
  <2>5. rest \in Inputs /\ rest.value = NoValue /\ rest.fresh = FALSE
        /\ rest.closed = FALSE /\ rest.of = NoValue
    BY <2>1 DEF Answers
  <2>2. Values \subseteq Answers /\ NoValue \in Answers BY DEF Answers
  <2>3. IF kind \in {"from_future", "from_stream"} THEN outer = rest
        ELSE \E v \in Values : outer = Input(v, TRUE, FALSE)
    BY DEF Init
  <2>4. IF kind = "map_ref" THEN \E v \in Values : inner = Input(v, TRUE, FALSE)
        ELSE inner = rest
    BY DEF Init
  <2> HIDE DEF rest
  <2>6. /\ outer \in Inputs /\ ~outer.closed
        /\ IF kind \in {"from_future", "from_stream"}
           THEN outer.value = NoValue /\ ~outer.fresh
           ELSE outer.value \in Values /\ outer.fresh
    BY <2>1, <2>2, <2>3, <2>5
  <2>7. /\ inner \in Inputs /\ ~inner.closed /\ inner.of = NoValue
        /\ IF kind = "map_ref" THEN inner.value \in Values /\ inner.fresh
           ELSE inner.value = NoValue /\ ~inner.fresh
    BY <2>1, <2>2, <2>4, <2>5
  <2> QED BY <2>6, <2>7
<1>3. Typed BY <1>1, <1>2, FirstFields DEF Typed, Timed
<1>4. Keep \subseteq Values /\ NoValue \notin Values BY ValuesAssumption
<1> USE <1>1, <1>2, <1>3, <1>4, FirstFields DEF Asleep
<1>5. kind \in Singles => SingleInv BY DEF SingleInv, Singles
<1>6. kind \in Plain => PlainInv BY DEF PlainInv, Plain
<1>7. kind = "wait_for" => WaitForInv BY DEF WaitForInv
<1>8. kind = "stop_if" => StopIfInv BY DEF StopIfInv
<1>9. kind = "first" => FirstInv BY DEF FirstInv
<1>10. kind = "from_future" => FromFutureInv BY DEF FromFutureInv, Inputs
<1>11. kind = "from_stream" => FromStreamInv BY DEF FromStreamInv
<1>12. kind = "map_ref" => MapRefInv BY DEF MapRefInv, Answers
<1>13. kind = "flatten" => FlattenInv BY DEF FlattenInv
<1>14. kind = "map_future" => MapFutureInv BY DEF MapFutureInv
<1>15. kind = "throttle" => ThrottleInv BY DEF ThrottleInv
<1>16. kind = "sample" => SampleInv BY DEF SampleInv, Answers
<1> QED
  BY <1>3, <1>5, <1>6, <1>7, <1>8, <1>9, <1>10, <1>11, <1>12, <1>13, <1>14,
     <1>15, <1>16
  DEF IInv

\* What the steps of the inputs do, as far as the invariant tells them apart.
OuterChanges ==
    /\ ~outer.closed
    /\ ~outer'.waker /\ woken' = (woken \/ outer.waker)
    /\ pc' = pc /\ inner' = inner
    /\ outer'.of = outer.of
    /\ \/ /\ outer'.fresh /\ outer'.value \in Values
          /\ outer'.closed = (kind = "from_future")
          /\ kind = "from_stream" => ~outer.fresh
       \/ /\ outer'.closed /\ kind # "from_future"
          /\ outer'.fresh = outer.fresh /\ outer'.value = outer.value

InnerChanges ==
    /\ st.inner /\ ~inner.closed
    /\ ~inner'.waker /\ woken' = (woken \/ inner.waker)
    /\ pc' = pc /\ outer' = outer
    /\ inner'.of = inner.of
    /\ \/ /\ kind \in Timed /\ ~inner.fresh
          /\ inner'.fresh /\ inner'.value = inner.value
          /\ inner'.closed = inner.closed
       \/ /\ kind \notin Timed /\ (kind = "sample" => ~inner.fresh)
          /\ inner'.fresh /\ inner'.value \in Values
          /\ inner'.closed = inner.closed
       \/ /\ kind \notin Timed
          /\ inner'.closed
          /\ inner'.fresh = inner.fresh /\ inner'.value = inner.value

Starts ==
    /\ pc = "idle" /\ woken' = FALSE
    /\ pc' = FirstPolled
    /\ outer' = outer /\ inner' = inner

Quiet ==
    ChangeOuter \/ CloseOuter \/ ChangeInner \/ CloseInner \/ StartPoll
    \/ UNCHANGED vars

LEMMA QuietSteps ==
    ASSUME Typed, Quiet
    PROVE  /\ kind' = kind /\ st' = st /\ out' = out /\ kept' = kept
           /\ outer' \in Inputs /\ inner' \in Inputs
           /\ \/ OuterChanges
              \/ InnerChanges
              \/ Starts
              \/ UNCHANGED <<outer, inner, woken, pc>>
<1>1. /\ outer \in Inputs /\ inner \in Inputs /\ Values \subseteq Answers
  BY DEF Typed, Answers
<1>2. CASE ChangeOuter
  <2>1. PICK v \in Values :
            outer' = [outer EXCEPT !.value = v, !.fresh = TRUE, !.waker = FALSE,
                                   !.closed = (kind = "from_future")]
    BY <1>2 DEF ChangeOuter
  <2>2. /\ outer'.value = v /\ outer'.fresh = TRUE /\ outer'.waker = FALSE
        /\ outer'.closed = (kind = "from_future") /\ outer'.of = outer.of
        /\ outer' \in Inputs
    BY <1>1, <2>1 DEF Inputs
  <2> QED BY <1>1, <1>2, <2>2 DEF ChangeOuter, OuterChanges, Wake
<1>3. CASE CloseOuter
  <2>1. /\ outer'.value = outer.value /\ outer'.fresh = outer.fresh
        /\ outer'.waker = FALSE /\ outer'.closed = TRUE
        /\ outer'.of = outer.of /\ outer' \in Inputs
    BY <1>1, <1>3 DEF Inputs, CloseOuter
  <2> QED BY <1>1, <1>3, <2>1 DEF CloseOuter, OuterChanges, Wake
<1>4. CASE ChangeInner
  <2>1. CASE kind \in Timed
    <3>1. inner' = [inner EXCEPT !.fresh = TRUE, !.waker = FALSE]
      BY <1>4, <2>1 DEF ChangeInner
    <3>2. /\ inner'.value = inner.value /\ inner'.fresh = TRUE
          /\ inner'.waker = FALSE /\ inner'.closed = inner.closed
          /\ inner'.of = inner.of /\ inner' \in Inputs
      BY <1>1, <3>1 DEF Inputs
    <3> QED BY <1>1, <1>4, <2>1, <3>2 DEF ChangeInner, InnerChanges, Wake
  <2>2. CASE kind \notin Timed
    <3>1. PICK v \in Values :
              inner' = [inner EXCEPT !.value = v, !.fresh = TRUE,
                                     !.waker = FALSE]
      BY <1>4, <2>2 DEF ChangeInner
    <3>2. /\ inner'.value = v /\ inner'.fresh = TRUE
          /\ inner'.waker = FALSE /\ inner'.closed = inner.closed
          /\ inner'.of = inner.of /\ inner' \in Inputs
      BY <1>1, <3>1 DEF Inputs
    <3> QED BY <1>1, <1>4, <2>2, <3>2 DEF ChangeInner, InnerChanges, Wake
  <2> QED BY <2>1, <2>2
<1>5. CASE CloseInner
  <2>1. /\ inner'.value = inner.value /\ inner'.fresh = inner.fresh
        /\ inner'.waker = FALSE /\ inner'.closed = TRUE
        /\ inner'.of = inner.of /\ inner' \in Inputs
    BY <1>1, <1>5 DEF Inputs, CloseInner
  <2> QED BY <1>1, <1>5, <2>1 DEF CloseInner, InnerChanges, Wake
<1>6. CASE StartPoll BY <1>1, <1>6 DEF StartPoll, Starts
<1>7. CASE UNCHANGED vars BY <1>1, <1>7 DEF vars
<1> QED BY <1>2, <1>3, <1>4, <1>5, <1>6, <1>7 DEF Quiet

\* They keep the types, and the invariant of each combinator.
LEMMA QuietTyped == ASSUME Typed, Quiet PROVE Typed'
<1> USE DEF OuterChanges, InnerChanges, Starts
<1>1. /\ kind' = kind /\ st' = st /\ out' = out /\ kept' = kept
      /\ outer' \in Inputs /\ inner' \in Inputs
      /\ \/ OuterChanges
         \/ InnerChanges
         \/ Starts
         \/ UNCHANGED <<outer, inner, woken, pc>>
  BY QuietSteps
<1>2. Outputs' = Outputs /\ Structs' = Structs BY <1>1, OutputsKept
<1>3. woken' \in BOOLEAN
  <2>1. CASE OuterChanges BY Zenon, <2>1
  <2>2. CASE InnerChanges BY Zenon, <2>2
  <2>3. CASE Starts BY <2>3
  <2>4. CASE UNCHANGED <<outer, inner, woken, pc>> BY <2>4 DEF Typed
  <2> QED BY <1>1, <2>1, <2>2, <2>3, <2>4
<1>4. pc' \in {"idle", "outer", "inner", "done"}
  BY <1>1 DEF Typed, FirstPolled
<1>5. outer'.value \in Values
      \/ (kind \in {"from_future", "from_stream"} /\ ~outer'.fresh)
  BY <1>1 DEF Typed
<1>6. inner'.fresh \/ (kind \in Timed /\ st.inner) => inner'.value \in Values
  BY <1>1 DEF Typed
<1> QED BY <1>1, <1>2, <1>3, <1>4, <1>5, <1>6 DEF Typed

LEMMA QuietSingle ==
    ASSUME Typed, Quiet, kind \in Singles, SingleInv
    PROVE  SingleInv'
<1>1. /\ kind' = kind /\ st' = st /\ out' = out /\ kept' = kept
      /\ \/ OuterChanges
         \/ InnerChanges
         \/ Starts
         \/ UNCHANGED <<outer, inner, woken, pc>>
  BY QuietSteps
<1> USE <1>1 DEF Typed, Inputs, SingleInv, Asleep, Listening, Finished, Singles, Timed
<1>2. CASE OuterChanges BY <1>2 DEF OuterChanges
<1>3. CASE InnerChanges BY <1>3 DEF InnerChanges
<1>4. CASE Starts BY <1>4 DEF Starts, FirstPolled
<1>5. CASE UNCHANGED <<outer, inner, woken, pc>> BY <1>5
<1> QED BY <1>1, <1>2, <1>3, <1>4, <1>5

LEMMA QuietPlain ==
    ASSUME Typed, Quiet, kind \in Plain, PlainInv
    PROVE  PlainInv'
<1>1. /\ kind' = kind /\ st' = st /\ out' = out /\ kept' = kept
      /\ \/ OuterChanges
         \/ InnerChanges
         \/ Starts
         \/ UNCHANGED <<outer, inner, woken, pc>>
  BY QuietSteps
<1> USE <1>1 DEF Typed, Inputs, PlainInv, Asleep, Listening, Finished, Plain, Timed
<1>2. CASE OuterChanges BY <1>2 DEF OuterChanges
<1>3. CASE InnerChanges BY <1>3 DEF InnerChanges
<1>4. CASE Starts BY <1>4 DEF Starts, FirstPolled
<1>5. CASE UNCHANGED <<outer, inner, woken, pc>> BY <1>5
<1> QED BY <1>1, <1>2, <1>3, <1>4, <1>5

LEMMA QuietWaitFor ==
    ASSUME Typed, Quiet, kind = "wait_for", WaitForInv
    PROVE  WaitForInv'
<1>1. /\ kind' = kind /\ st' = st /\ out' = out /\ kept' = kept
      /\ \/ OuterChanges
         \/ InnerChanges
         \/ Starts
         \/ UNCHANGED <<outer, inner, woken, pc>>
  BY QuietSteps
<1> USE <1>1 DEF Typed, Inputs, WaitForInv, Asleep, Listening, Finished, Timed
<1>2. CASE OuterChanges BY <1>2 DEF OuterChanges
<1>3. CASE InnerChanges BY <1>3 DEF InnerChanges
<1>4. CASE Starts BY <1>4 DEF Starts, FirstPolled
<1>5. CASE UNCHANGED <<outer, inner, woken, pc>> BY <1>5
<1> QED BY <1>1, <1>2, <1>3, <1>4, <1>5

LEMMA QuietStopIf ==
    ASSUME Typed, Quiet, kind = "stop_if", StopIfInv
    PROVE  StopIfInv'
<1>1. /\ kind' = kind /\ st' = st /\ out' = out /\ kept' = kept
      /\ \/ OuterChanges
         \/ InnerChanges
         \/ Starts
         \/ UNCHANGED <<outer, inner, woken, pc>>
  BY QuietSteps
<1> USE <1>1 DEF Typed, Inputs, StopIfInv, Asleep, Listening, Finished, Timed
<1>2. CASE OuterChanges BY <1>2 DEF OuterChanges
<1>3. CASE InnerChanges BY <1>3 DEF InnerChanges
<1>4. CASE Starts BY <1>4 DEF Starts, FirstPolled
<1>5. CASE UNCHANGED <<outer, inner, woken, pc>> BY <1>5
<1> QED BY <1>1, <1>2, <1>3, <1>4, <1>5

LEMMA QuietFirst ==
    ASSUME Typed, Quiet, kind = "first", FirstInv
    PROVE  FirstInv'
<1>1. /\ kind' = kind /\ st' = st /\ out' = out /\ kept' = kept
      /\ \/ OuterChanges
         \/ InnerChanges
         \/ Starts
         \/ UNCHANGED <<outer, inner, woken, pc>>
  BY QuietSteps
<1> USE <1>1 DEF Typed, Inputs, FirstInv, Asleep, Listening, Finished, Timed
<1>2. CASE OuterChanges BY <1>2 DEF OuterChanges
<1>3. CASE InnerChanges BY <1>3 DEF InnerChanges
<1>4. CASE Starts BY <1>4 DEF Starts, FirstPolled
<1>5. CASE UNCHANGED <<outer, inner, woken, pc>> BY <1>5
<1> QED BY <1>1, <1>2, <1>3, <1>4, <1>5

LEMMA QuietFromFuture ==
    ASSUME Typed, Quiet, kind = "from_future", FromFutureInv
    PROVE  FromFutureInv'
<1>1. /\ kind' = kind /\ st' = st /\ out' = out /\ kept' = kept
      /\ \/ OuterChanges
         \/ InnerChanges
         \/ Starts
         \/ UNCHANGED <<outer, inner, woken, pc>>
  BY QuietSteps
<1> USE <1>1 DEF Typed, Inputs, FromFutureInv, Asleep, Listening, Finished, Timed
<1>2. CASE OuterChanges BY <1>2 DEF OuterChanges
<1>3. CASE InnerChanges BY <1>3 DEF InnerChanges
<1>4. CASE Starts BY <1>4 DEF Starts, FirstPolled
<1>5. CASE UNCHANGED <<outer, inner, woken, pc>> BY <1>5
<1> QED BY <1>1, <1>2, <1>3, <1>4, <1>5

LEMMA QuietFromStream ==
    ASSUME Typed, Quiet, kind = "from_stream", FromStreamInv
    PROVE  FromStreamInv'
<1>1. /\ kind' = kind /\ st' = st /\ out' = out /\ kept' = kept
      /\ \/ OuterChanges
         \/ InnerChanges
         \/ Starts
         \/ UNCHANGED <<outer, inner, woken, pc>>
  BY QuietSteps
<1> USE <1>1 DEF Typed, Inputs, FromStreamInv, Asleep, Listening, Finished, Timed
<1>2. CASE OuterChanges BY <1>2 DEF OuterChanges
<1>3. CASE InnerChanges BY <1>3 DEF InnerChanges
<1>4. CASE Starts BY <1>4 DEF Starts, FirstPolled
<1>5. CASE UNCHANGED <<outer, inner, woken, pc>> BY <1>5
<1> QED BY <1>1, <1>2, <1>3, <1>4, <1>5

LEMMA QuietMapRef ==
    ASSUME Typed, Quiet, kind = "map_ref", MapRefInv
    PROVE  MapRefInv'
<1>1. /\ kind' = kind /\ st' = st /\ out' = out /\ kept' = kept
      /\ \/ OuterChanges
         \/ InnerChanges
         \/ Starts
         \/ UNCHANGED <<outer, inner, woken, pc>>
  BY QuietSteps
<1> USE <1>1 DEF Typed, Inputs, MapRefInv, Asleep, Listening, Finished, Timed
<1>2. CASE OuterChanges BY <1>2 DEF OuterChanges
<1>3. CASE InnerChanges BY <1>3 DEF InnerChanges
<1>4. CASE Starts BY <1>4 DEF Starts, FirstPolled
<1>5. CASE UNCHANGED <<outer, inner, woken, pc>> BY <1>5
<1> QED BY <1>1, <1>2, <1>3, <1>4, <1>5

LEMMA QuietFlatten ==
    ASSUME Typed, Quiet, kind = "flatten", FlattenInv
    PROVE  FlattenInv'
<1>1. /\ kind' = kind /\ st' = st /\ out' = out /\ kept' = kept
      /\ \/ OuterChanges
         \/ InnerChanges
         \/ Starts
         \/ UNCHANGED <<outer, inner, woken, pc>>
  BY QuietSteps
<1> USE <1>1 DEF Typed, Inputs, FlattenInv, Asleep, Listening, Finished, Timed
<1>2. CASE OuterChanges BY <1>2 DEF OuterChanges
<1>3. CASE InnerChanges BY <1>3 DEF InnerChanges
<1>4. CASE Starts BY <1>4 DEF Starts, FirstPolled
<1>5. CASE UNCHANGED <<outer, inner, woken, pc>> BY <1>5
<1> QED BY <1>1, <1>2, <1>3, <1>4, <1>5

LEMMA QuietMapFuture ==
    ASSUME Typed, Quiet, kind = "map_future", MapFutureInv
    PROVE  MapFutureInv'
<1>1. /\ kind' = kind /\ st' = st /\ out' = out /\ kept' = kept
      /\ \/ OuterChanges
         \/ InnerChanges
         \/ Starts
         \/ UNCHANGED <<outer, inner, woken, pc>>
  BY QuietSteps
<1> USE <1>1 DEF Typed, Inputs, MapFutureInv, Asleep, Listening, Finished, Timed
<1>2. CASE OuterChanges BY <1>2 DEF OuterChanges
<1>3. CASE InnerChanges BY <1>3 DEF InnerChanges
<1>4. CASE Starts BY <1>4 DEF Starts, FirstPolled
<1>5. CASE UNCHANGED <<outer, inner, woken, pc>> BY <1>5
<1> QED BY <1>1, <1>2, <1>3, <1>4, <1>5

LEMMA QuietThrottle ==
    ASSUME Typed, Quiet, kind = "throttle", ThrottleInv
    PROVE  ThrottleInv'
<1>1. /\ kind' = kind /\ st' = st /\ out' = out /\ kept' = kept
      /\ \/ OuterChanges
         \/ InnerChanges
         \/ Starts
         \/ UNCHANGED <<outer, inner, woken, pc>>
  BY QuietSteps
<1> USE <1>1 DEF Typed, Inputs, ThrottleInv, Asleep, Listening, Finished, Timed
<1>2. CASE OuterChanges BY <1>2 DEF OuterChanges
<1>3. CASE InnerChanges BY <1>3 DEF InnerChanges
<1>4. CASE Starts BY <1>4 DEF Starts, FirstPolled
<1>5. CASE UNCHANGED <<outer, inner, woken, pc>> BY <1>5
<1> QED BY <1>1, <1>2, <1>3, <1>4, <1>5

LEMMA QuietSample ==
    ASSUME Typed, Quiet, kind = "sample", SampleInv
    PROVE  SampleInv'
<1>1. /\ kind' = kind /\ st' = st /\ out' = out /\ kept' = kept
      /\ \/ OuterChanges
         \/ InnerChanges
         \/ Starts
         \/ UNCHANGED <<outer, inner, woken, pc>>
  BY QuietSteps
<1> USE <1>1 DEF Typed, Inputs, SampleInv, Asleep, Listening, Finished, Timed
<1>2. CASE OuterChanges BY <1>2 DEF OuterChanges
<1>3. CASE InnerChanges BY <1>3 DEF InnerChanges
<1>4. CASE Starts BY <1>4 DEF Starts, FirstPolled
<1>5. CASE UNCHANGED <<outer, inner, woken, pc>> BY <1>5
<1> QED BY <1>1, <1>2, <1>3, <1>4, <1>5

-----------------------------------------------------------------------------
(* The polls of one input.                                                 *)

LEMMA FirstPolls ==
    /\ kind \in {"throttle", "sample"} => FirstPolled = "inner"
    /\ kind \notin {"throttle", "sample"} => FirstPolled = "outer"
BY DEF FirstPolled

\* What an answer leaves of an input.
LEMMA AnsweredFields ==
    ASSUME NEW i \in Inputs, NEW j \in Inputs, NEW held \in BOOLEAN, NEW r, NEW v,
           Answered(i, j, held, r, v)
    PROVE  /\ j.value = i.value /\ j.closed = i.closed /\ j.of = i.of
           /\ \/ /\ held /\ i.fresh /\ ~j.fresh /\ j.waker = i.waker
                 /\ r = Some(v)
              \/ /\ ~held /\ j = i /\ r = Gone
              \/ /\ held /\ Finished(i) /\ Finished(j) /\ j = i /\ r = None
              \/ /\ held /\ ~i.fresh /\ ~i.closed /\ Listening(j)
                 /\ r = Pending
<1> USE DEF Inputs
<1>1. CASE held /\ i.fresh /\ r = Some(v) /\ j = [i EXCEPT !.fresh = FALSE]
  BY <1>1
<1>2. CASE ~held /\ r = Gone /\ j = i BY <1>2
<1>3. CASE held /\ Finished(i) /\ r = None /\ j = i BY <1>3
<1>4. CASE held /\ ~i.fresh /\ ~i.closed /\ r = Pending
           /\ j = [i EXCEPT !.waker = TRUE]
  BY <1>4 DEF Listening
<1> QED BY <1>1, <1>2, <1>3, <1>4 DEF Answered

\* The Future or Signal that a callback makes of the value v.
LEMMA NewInners ==
    ASSUME NEW v \in Values, NEW i \in NewInner(v)
    PROVE  /\ i \in Inputs /\ i.of = v /\ i.value \in Values
           /\ kind = "flatten" => i.fresh
           /\ kind # "flatten" => i.value = v /\ ~i.closed
BY DEF NewInner, Inputs, Answers

\* A poll of an input keeps the types if the turn does.
LEMMA PollTyped ==
    ASSUME Typed, PollOuter \/ PollInner,
           st' \in Structs, out' \in Outputs,
           pc' \in {"idle", "outer", "inner", "done"},
           st'.inner => st.inner \/ inner'.value \in Values
    PROVE  Typed'
<1>1. kind' = kind /\ woken' = woken BY DEF PollOuter, PollInner
<1>2. /\ outer \in Inputs /\ inner \in Inputs
      /\ st.signal \in BOOLEAN /\ st.inner \in BOOLEAN
  BY DEF Typed, Structs
<1>3. CASE PollOuter
  <2>1. PICK r : /\ Answered(outer, outer', st.signal, r, outer.value)
                 /\ outer' \in Inputs
                 /\ r = Answer(outer, st.signal)
    BY <1>3, OuterAnswered
  <2>2. outer'.value = outer.value /\ (outer'.fresh => outer.fresh)
    BY <1>2, <2>1, AnsweredFields DEF Listening, Finished
  <2>3. IsSome(r) => outer.fresh /\ r.value = outer.value
    BY <1>2, <2>1, AnsweredFields, Answers3
  <2>4. kept' \in Keep \cup {NoValue} BY <1>3, <2>1 DEF PollOuter, Typed
  <2>5. inner' # inner => inner' \in Inputs /\ inner'.value \in Values
    <3>1. SUFFICES ASSUME inner' # inner
                   PROVE  inner' \in Inputs /\ inner'.value \in Values
      OBVIOUS
    <3>2. IsSome(r) /\ inner' \in NewInner(r.value)
      BY <1>3, <2>1, <3>1 DEF PollOuter
    <3>3. outer.value \in Values BY <2>3, <3>2 DEF Typed
    <3> QED BY <2>3, <3>2, <3>3, NewInners
  <2> QED BY <1>1, <1>2, <2>1, <2>2, <2>4, <2>5, OutputsKept DEF Typed
<1>4. CASE PollInner
  <2>1. PICK r : /\ Answered(inner, inner', st.inner, r, InnerAnswer)
                 /\ inner' \in Inputs
    BY <1>4, InnerAnswered
  <2>2. inner'.value = inner.value /\ (inner'.fresh => inner.fresh)
    BY <1>2, <2>1, AnsweredFields DEF Listening, Finished
  <2>3. outer' = outer /\ kept' = kept BY <1>4 DEF PollInner
  <2> QED BY <1>1, <1>2, <2>1, <2>2, <2>3, OutputsKept DEF Typed
<1> QED BY <1>3, <1>4
\* A poll of map.
LEMMA PollMap ==
    ASSUME IInv, PollOuter, kind = "map"
    PROVE  IInv'
<1>1. PICK r : /\ Answered(outer, outer', st.signal, r, outer.value)
               /\ outer' \in Inputs
               /\ Follow(MapTurn(st, r))
               /\ r = Answer(outer, st.signal)
  BY OuterAnswered, OuterTurns DEF IInv
<1>2. /\ kind' = kind /\ woken' = woken /\ inner' = inner /\ pc = "outer"
      /\ kept' = IF IsSome(r) /\ r.value \in Keep THEN r.value ELSE kept
  BY <1>1 DEF PollOuter, Timed
<1>3. Typed /\ SingleInv /\ PlainInv BY DEF IInv, Singles, Plain
<1>4. /\ outer \in Inputs /\ outer'.value = outer.value
      /\ outer'.closed = outer.closed
      /\ \/ st.signal /\ outer.fresh /\ ~outer'.fresh /\ r = Some(outer.value)
         \/ ~st.signal /\ r = Gone /\ outer' = outer
         \/ st.signal /\ r = None /\ outer' = outer /\ Finished(outer)
         \/ st.signal /\ ~outer.fresh /\ ~outer.closed /\ Listening(outer') /\ r = Pending
  BY <1>1, <1>3, AnsweredFields DEF Typed, Structs
<1>5. /\ st \in Structs /\ out \in Outputs
      /\ outer.fresh => outer.value \in Values
      /\ \A v \in Values \cup {NoValue} : v \in Outputs
      /\ Target \in Values /\ Keep \subseteq Values /\ NoValue \notin Values
      /\ NoValue \notin BOOLEAN
  BY <1>3, OutputsAre, ValuesAssumption, NoValueAssumption DEF Typed, Answers
<1>6. CASE /\ st.signal
           /\ outer.fresh
           /\ ~outer'.fresh
           /\ r = Some(outer.value)
  <2>1. Follow(Return(st, Some(Image(outer.value))))
    BY <1>1, <1>3, <1>4, <1>5, <1>6, Answers3 DEF MapTurn, PlainInv, Structs
  <2>2. /\ st' = [st EXCEPT !.done = FALSE, !.changed = FALSE]
        /\ pc' = "outer" /\ out' = Image(outer.value)
    BY <1>2, <2>1, FollowReturn, FirstPolls, Answers3
  <2>3. /\ st' \in Structs /\ st'.inner = st.inner
        /\ st'.signal = st.signal /\ st'.first = st.first
        /\ st'.old = st.old
    BY <1>5, <2>2, <1>6 DEF Structs
  <2>4. out' \in Outputs BY <1>3, <1>5, <2>2, <1>6, ValuesAssumption DEF Structs
  <2>5. Typed' BY <1>3, <2>2, <2>3, <2>4, PollTyped
  <2>6. SingleInv' BY <1>2, <1>3, <1>4, <1>6, <2>2, <2>3 DEF SingleInv, Asleep, Finished
  <2>7. PlainInv' BY <1>2, <1>3, <1>4, <1>5, <1>6, <2>2, <2>3, Answers3 DEF PlainInv, Finished, Inputs
  <2> QED BY <1>2, <2>5, <2>6, <2>7 DEF IInv, Singles, Plain
<1>7. CASE /\ st.signal
           /\ r = None
           /\ outer' = outer
           /\ Finished(outer)
  <2>1. Follow(Return(st, None))
    BY <1>1, <1>3, <1>4, <1>5, <1>7, Answers3 DEF MapTurn, PlainInv, Structs
  <2>2. /\ st' = [st EXCEPT !.done = FALSE, !.changed = FALSE]
        /\ pc' = "done" /\ out' = out
    BY <1>2, <2>1, FollowReturn, FirstPolls, Answers3
  <2>3. /\ st' \in Structs /\ st'.inner = st.inner
        /\ st'.signal = st.signal /\ st'.first = st.first
        /\ st'.old = st.old
    BY <1>5, <2>2, <1>7 DEF Structs
  <2>4. out' \in Outputs BY <1>3, <1>5, <2>2, <1>7, ValuesAssumption DEF Structs
  <2>5. Typed' BY <1>3, <2>2, <2>3, <2>4, PollTyped
  <2>6. SingleInv' BY <1>2, <1>3, <1>4, <1>7, <2>2, <2>3 DEF SingleInv, Asleep, Finished
  <2>7. PlainInv' BY <1>2, <1>3, <1>4, <1>5, <1>7, <2>2, <2>3, Answers3 DEF PlainInv, Finished, Inputs
  <2> QED BY <1>2, <2>5, <2>6, <2>7 DEF IInv, Singles, Plain
<1>8. CASE /\ ~st.signal
           /\ r = Gone
           /\ outer' = outer
  <2>1. Follow(Return(st, Gone))
    BY <1>1, <1>3, <1>4, <1>5, <1>8, Answers3 DEF MapTurn, PlainInv, Structs
  <2>2. /\ st' = [st EXCEPT !.done = FALSE, !.changed = FALSE]
        /\ pc' = "done" /\ out' = out
    BY <1>2, <2>1, FollowReturn, FirstPolls, Answers3
  <2>3. /\ st' \in Structs /\ st'.inner = st.inner
        /\ st'.signal = st.signal /\ st'.first = st.first
        /\ st'.old = st.old
    BY <1>5, <2>2, <1>8 DEF Structs
  <2>4. out' \in Outputs BY <1>3, <1>5, <2>2, <1>8, ValuesAssumption DEF Structs
  <2>5. Typed' BY <1>3, <2>2, <2>3, <2>4, PollTyped
  <2>6. SingleInv' BY <1>2, <1>3, <1>4, <1>8, <2>2, <2>3 DEF SingleInv, Asleep, Finished
  <2>7. PlainInv' BY <1>2, <1>3, <1>4, <1>5, <1>8, <2>2, <2>3, Answers3 DEF PlainInv, Finished, Inputs
  <2> QED BY <1>2, <2>5, <2>6, <2>7 DEF IInv, Singles, Plain
<1>9. CASE /\ st.signal
           /\ ~outer.fresh
           /\ ~outer.closed
           /\ Listening(outer')
           /\ r = Pending
  <2>1. Follow(Return(st, Pending))
    BY <1>1, <1>3, <1>4, <1>5, <1>9, Answers3 DEF MapTurn, PlainInv, Structs
  <2>2. /\ st' = [st EXCEPT !.done = FALSE, !.changed = FALSE]
        /\ pc' = "idle" /\ out' = out
    BY <1>2, <2>1, FollowReturn, FirstPolls, Answers3
  <2>3. /\ st' \in Structs /\ st'.inner = st.inner
        /\ st'.signal = st.signal /\ st'.first = st.first
        /\ st'.old = st.old
    BY <1>5, <2>2, <1>9 DEF Structs
  <2>4. out' \in Outputs BY <1>3, <1>5, <2>2, <1>9, ValuesAssumption DEF Structs
  <2>5. Typed' BY <1>3, <2>2, <2>3, <2>4, PollTyped
  <2>6. SingleInv' BY <1>2, <1>3, <1>4, <1>9, <2>2, <2>3 DEF SingleInv, Asleep, Finished
  <2>7. PlainInv' BY <1>2, <1>3, <1>4, <1>5, <1>9, <2>2, <2>3, Answers3 DEF PlainInv, Finished, Inputs
  <2> QED BY <1>2, <2>5, <2>6, <2>7 DEF IInv, Singles, Plain
<1> QED BY <1>3, <1>4, <1>5, <1>6, <1>7, <1>8, <1>9 DEF PlainInv, Finished, Structs

\* A poll of eq.
LEMMA PollEq ==
    ASSUME IInv, PollOuter, kind = "eq"
    PROVE  IInv'
<1>1. PICK r : /\ Answered(outer, outer', st.signal, r, outer.value)
               /\ outer' \in Inputs
               /\ Follow(CompareTurn(st, r, TRUE))
               /\ r = Answer(outer, st.signal)
  BY OuterAnswered, OuterTurns DEF IInv
<1>2. /\ kind' = kind /\ woken' = woken /\ inner' = inner /\ pc = "outer"
      /\ kept' = IF IsSome(r) /\ r.value \in Keep THEN r.value ELSE kept
  BY <1>1 DEF PollOuter, Timed
<1>3. Typed /\ SingleInv /\ PlainInv BY DEF IInv, Singles, Plain
<1>4. /\ outer \in Inputs /\ outer'.value = outer.value
      /\ outer'.closed = outer.closed
      /\ \/ st.signal /\ outer.fresh /\ ~outer'.fresh /\ r = Some(outer.value)
         \/ ~st.signal /\ r = Gone /\ outer' = outer
         \/ st.signal /\ r = None /\ outer' = outer /\ Finished(outer)
         \/ st.signal /\ ~outer.fresh /\ ~outer.closed /\ Listening(outer') /\ r = Pending
  BY <1>1, <1>3, AnsweredFields DEF Typed, Structs
<1>5. /\ st \in Structs /\ out \in Outputs
      /\ outer.fresh => outer.value \in Values
      /\ \A v \in Values \cup {NoValue} : NoValue \in Outputs /\ BOOLEAN \subseteq Outputs
      /\ Target \in Values /\ Keep \subseteq Values /\ NoValue \notin Values
      /\ NoValue \notin BOOLEAN
  BY <1>3, OutputsAre, ValuesAssumption, NoValueAssumption DEF Typed, Answers
<1>6. PICK new \in BOOLEAN : new = ((outer.value = Target) = TRUE)
  BY Zenon
<1>7. CASE /\ st.signal
           /\ outer.fresh
           /\ ~outer'.fresh
           /\ r = Some(outer.value)
           /\ new = st.old
  <2>8. IsSome(r) /\ r.value = outer.value BY <1>7, Answers3
  <2>9. CompareTurn(st, r, TRUE) = Go(st, "outer")
    BY Zenon, <1>7, <1>6, <2>8 DEF CompareTurn
  <2>1. Follow(Go(st, "outer")) BY <1>1, <2>9
  <2>2. /\ st' = st
        /\ pc' = "outer" /\ out' = out
    BY <1>2, <2>1, FollowGo, FirstPolls, Answers3
  <2>3. /\ st' \in Structs /\ st'.inner = st.inner
        /\ st'.signal = st.signal /\ st'.first = st.first
        /\ st'.old = st.old
    BY <1>5, <2>2, <1>7, <1>6 DEF Structs
  <2>4. out' \in Outputs BY <1>3, <1>5, <2>2, <1>7, <1>6, ValuesAssumption DEF Structs
  <2>5. Typed' BY <1>3, <2>2, <2>3, <2>4, PollTyped
  <2>6. SingleInv' BY <1>2, <1>3, <1>4, <1>7, <2>2, <2>3 DEF SingleInv, Asleep, Finished
  <2>7. PlainInv' BY <1>2, <1>3, <1>4, <1>5, <1>7, <1>6, <2>2, <2>3, Answers3 DEF PlainInv, Finished, Inputs
  <2> QED BY <1>2, <2>5, <2>6, <2>7 DEF IInv, Singles, Plain
<1>8. CASE /\ st.signal
           /\ outer.fresh
           /\ ~outer'.fresh
           /\ r = Some(outer.value)
           /\ new # st.old
  <2>8. IsSome(r) /\ r.value = outer.value BY <1>8, Answers3
  <2>9. CompareTurn(st, r, TRUE) = Return([st EXCEPT !.old = new], Some(new))
    BY Zenon, <1>8, <1>6, <2>8 DEF CompareTurn
  <2>1. Follow(Return([st EXCEPT !.old = new], Some(new))) BY <1>1, <2>9
  <2>2. /\ st' = [[st EXCEPT !.old = new] EXCEPT !.done = FALSE, !.changed = FALSE]
        /\ pc' = "outer" /\ out' = new
    BY <1>2, <2>1, FollowReturn, FirstPolls, Answers3
  <2>3. /\ st' \in Structs /\ st'.inner = st.inner
        /\ st'.signal = st.signal /\ st'.first = st.first
        /\ st'.old = new
    BY <1>5, <2>2, <1>8, <1>6 DEF Structs
  <2>4. out' \in Outputs BY <1>3, <1>5, <2>2, <1>8, <1>6, ValuesAssumption DEF Structs
  <2>5. Typed' BY <1>3, <2>2, <2>3, <2>4, PollTyped
  <2>6. SingleInv' BY <1>2, <1>3, <1>4, <1>8, <2>2, <2>3 DEF SingleInv, Asleep, Finished
  <2>7. PlainInv' BY <1>2, <1>3, <1>4, <1>5, <1>8, <1>6, <2>2, <2>3, Answers3 DEF PlainInv, Finished, Inputs
  <2> QED BY <1>2, <2>5, <2>6, <2>7 DEF IInv, Singles, Plain
<1>9. CASE /\ st.signal
           /\ r = None
           /\ outer' = outer
           /\ Finished(outer)
  <2>1. Follow(Return(st, None))
    BY <1>1, <1>3, <1>4, <1>5, <1>9, <1>6, Answers3 DEF CompareTurn, PlainInv, Structs
  <2>2. /\ st' = [st EXCEPT !.done = FALSE, !.changed = FALSE]
        /\ pc' = "done" /\ out' = out
    BY <1>2, <2>1, FollowReturn, FirstPolls, Answers3
  <2>3. /\ st' \in Structs /\ st'.inner = st.inner
        /\ st'.signal = st.signal /\ st'.first = st.first
        /\ st'.old = st.old
    BY <1>5, <2>2, <1>9, <1>6 DEF Structs
  <2>4. out' \in Outputs BY <1>3, <1>5, <2>2, <1>9, <1>6, ValuesAssumption DEF Structs
  <2>5. Typed' BY <1>3, <2>2, <2>3, <2>4, PollTyped
  <2>6. SingleInv' BY <1>2, <1>3, <1>4, <1>9, <2>2, <2>3 DEF SingleInv, Asleep, Finished
  <2>7. PlainInv' BY <1>2, <1>3, <1>4, <1>5, <1>9, <1>6, <2>2, <2>3, Answers3 DEF PlainInv, Finished, Inputs
  <2> QED BY <1>2, <2>5, <2>6, <2>7 DEF IInv, Singles, Plain
<1>10. CASE /\ ~st.signal
            /\ r = Gone
            /\ outer' = outer
  <2>1. Follow(Return(st, Gone))
    BY <1>1, <1>3, <1>4, <1>5, <1>10, <1>6, Answers3 DEF CompareTurn, PlainInv, Structs
  <2>2. /\ st' = [st EXCEPT !.done = FALSE, !.changed = FALSE]
        /\ pc' = "done" /\ out' = out
    BY <1>2, <2>1, FollowReturn, FirstPolls, Answers3
  <2>3. /\ st' \in Structs /\ st'.inner = st.inner
        /\ st'.signal = st.signal /\ st'.first = st.first
        /\ st'.old = st.old
    BY <1>5, <2>2, <1>10, <1>6 DEF Structs
  <2>4. out' \in Outputs BY <1>3, <1>5, <2>2, <1>10, <1>6, ValuesAssumption DEF Structs
  <2>5. Typed' BY <1>3, <2>2, <2>3, <2>4, PollTyped
  <2>6. SingleInv' BY <1>2, <1>3, <1>4, <1>10, <2>2, <2>3 DEF SingleInv, Asleep, Finished
  <2>7. PlainInv' BY <1>2, <1>3, <1>4, <1>5, <1>10, <1>6, <2>2, <2>3, Answers3 DEF PlainInv, Finished, Inputs
  <2> QED BY <1>2, <2>5, <2>6, <2>7 DEF IInv, Singles, Plain
<1>11. CASE /\ st.signal
            /\ ~outer.fresh
            /\ ~outer.closed
            /\ Listening(outer')
            /\ r = Pending
  <2>1. Follow(Return(st, Pending))
    BY <1>1, <1>3, <1>4, <1>5, <1>11, <1>6, Answers3 DEF CompareTurn, PlainInv, Structs
  <2>2. /\ st' = [st EXCEPT !.done = FALSE, !.changed = FALSE]
        /\ pc' = "idle" /\ out' = out
    BY <1>2, <2>1, FollowReturn, FirstPolls, Answers3
  <2>3. /\ st' \in Structs /\ st'.inner = st.inner
        /\ st'.signal = st.signal /\ st'.first = st.first
        /\ st'.old = st.old
    BY <1>5, <2>2, <1>11, <1>6 DEF Structs
  <2>4. out' \in Outputs BY <1>3, <1>5, <2>2, <1>11, <1>6, ValuesAssumption DEF Structs
  <2>5. Typed' BY <1>3, <2>2, <2>3, <2>4, PollTyped
  <2>6. SingleInv' BY <1>2, <1>3, <1>4, <1>11, <2>2, <2>3 DEF SingleInv, Asleep, Finished
  <2>7. PlainInv' BY <1>2, <1>3, <1>4, <1>5, <1>11, <1>6, <2>2, <2>3, Answers3 DEF PlainInv, Finished, Inputs
  <2> QED BY <1>2, <2>5, <2>6, <2>7 DEF IInv, Singles, Plain
<1> QED BY <1>3, <1>4, <1>5, <1>7, <1>8, <1>9, <1>10, <1>11, <1>6 DEF PlainInv, Finished, Structs

\* A poll of neq.
LEMMA PollNeq ==
    ASSUME IInv, PollOuter, kind = "neq"
    PROVE  IInv'
<1>1. PICK r : /\ Answered(outer, outer', st.signal, r, outer.value)
               /\ outer' \in Inputs
               /\ Follow(CompareTurn(st, r, FALSE))
               /\ r = Answer(outer, st.signal)
  BY OuterAnswered, OuterTurns DEF IInv
<1>2. /\ kind' = kind /\ woken' = woken /\ inner' = inner /\ pc = "outer"
      /\ kept' = IF IsSome(r) /\ r.value \in Keep THEN r.value ELSE kept
  BY <1>1 DEF PollOuter, Timed
<1>3. Typed /\ SingleInv /\ PlainInv BY DEF IInv, Singles, Plain
<1>4. /\ outer \in Inputs /\ outer'.value = outer.value
      /\ outer'.closed = outer.closed
      /\ \/ st.signal /\ outer.fresh /\ ~outer'.fresh /\ r = Some(outer.value)
         \/ ~st.signal /\ r = Gone /\ outer' = outer
         \/ st.signal /\ r = None /\ outer' = outer /\ Finished(outer)
         \/ st.signal /\ ~outer.fresh /\ ~outer.closed /\ Listening(outer') /\ r = Pending
  BY <1>1, <1>3, AnsweredFields DEF Typed, Structs
<1>5. /\ st \in Structs /\ out \in Outputs
      /\ outer.fresh => outer.value \in Values
      /\ \A v \in Values \cup {NoValue} : NoValue \in Outputs /\ BOOLEAN \subseteq Outputs
      /\ Target \in Values /\ Keep \subseteq Values /\ NoValue \notin Values
      /\ NoValue \notin BOOLEAN
  BY <1>3, OutputsAre, ValuesAssumption, NoValueAssumption DEF Typed, Answers
<1>6. PICK new \in BOOLEAN : new = ((outer.value = Target) = FALSE)
  BY Zenon
<1>7. CASE /\ st.signal
           /\ outer.fresh
           /\ ~outer'.fresh
           /\ r = Some(outer.value)
           /\ new = st.old
  <2>8. IsSome(r) /\ r.value = outer.value BY <1>7, Answers3
  <2>9. CompareTurn(st, r, FALSE) = Go(st, "outer")
    BY Zenon, <1>7, <1>6, <2>8 DEF CompareTurn
  <2>1. Follow(Go(st, "outer")) BY <1>1, <2>9
  <2>2. /\ st' = st
        /\ pc' = "outer" /\ out' = out
    BY <1>2, <2>1, FollowGo, FirstPolls, Answers3
  <2>3. /\ st' \in Structs /\ st'.inner = st.inner
        /\ st'.signal = st.signal /\ st'.first = st.first
        /\ st'.old = st.old
    BY <1>5, <2>2, <1>7, <1>6 DEF Structs
  <2>4. out' \in Outputs BY <1>3, <1>5, <2>2, <1>7, <1>6, ValuesAssumption DEF Structs
  <2>5. Typed' BY <1>3, <2>2, <2>3, <2>4, PollTyped
  <2>6. SingleInv' BY <1>2, <1>3, <1>4, <1>7, <2>2, <2>3 DEF SingleInv, Asleep, Finished
  <2>7. PlainInv' BY <1>2, <1>3, <1>4, <1>5, <1>7, <1>6, <2>2, <2>3, Answers3 DEF PlainInv, Finished, Inputs
  <2> QED BY <1>2, <2>5, <2>6, <2>7 DEF IInv, Singles, Plain
<1>8. CASE /\ st.signal
           /\ outer.fresh
           /\ ~outer'.fresh
           /\ r = Some(outer.value)
           /\ new # st.old
  <2>8. IsSome(r) /\ r.value = outer.value BY <1>8, Answers3
  <2>9. CompareTurn(st, r, FALSE) = Return([st EXCEPT !.old = new], Some(new))
    BY Zenon, <1>8, <1>6, <2>8 DEF CompareTurn
  <2>1. Follow(Return([st EXCEPT !.old = new], Some(new))) BY <1>1, <2>9
  <2>2. /\ st' = [[st EXCEPT !.old = new] EXCEPT !.done = FALSE, !.changed = FALSE]
        /\ pc' = "outer" /\ out' = new
    BY <1>2, <2>1, FollowReturn, FirstPolls, Answers3
  <2>3. /\ st' \in Structs /\ st'.inner = st.inner
        /\ st'.signal = st.signal /\ st'.first = st.first
        /\ st'.old = new
    BY <1>5, <2>2, <1>8, <1>6 DEF Structs
  <2>4. out' \in Outputs BY <1>3, <1>5, <2>2, <1>8, <1>6, ValuesAssumption DEF Structs
  <2>5. Typed' BY <1>3, <2>2, <2>3, <2>4, PollTyped
  <2>6. SingleInv' BY <1>2, <1>3, <1>4, <1>8, <2>2, <2>3 DEF SingleInv, Asleep, Finished
  <2>7. PlainInv' BY <1>2, <1>3, <1>4, <1>5, <1>8, <1>6, <2>2, <2>3, Answers3 DEF PlainInv, Finished, Inputs
  <2> QED BY <1>2, <2>5, <2>6, <2>7 DEF IInv, Singles, Plain
<1>9. CASE /\ st.signal
           /\ r = None
           /\ outer' = outer
           /\ Finished(outer)
  <2>1. Follow(Return(st, None))
    BY <1>1, <1>3, <1>4, <1>5, <1>9, <1>6, Answers3 DEF CompareTurn, PlainInv, Structs
  <2>2. /\ st' = [st EXCEPT !.done = FALSE, !.changed = FALSE]
        /\ pc' = "done" /\ out' = out
    BY <1>2, <2>1, FollowReturn, FirstPolls, Answers3
  <2>3. /\ st' \in Structs /\ st'.inner = st.inner
        /\ st'.signal = st.signal /\ st'.first = st.first
        /\ st'.old = st.old
    BY <1>5, <2>2, <1>9, <1>6 DEF Structs
  <2>4. out' \in Outputs BY <1>3, <1>5, <2>2, <1>9, <1>6, ValuesAssumption DEF Structs
  <2>5. Typed' BY <1>3, <2>2, <2>3, <2>4, PollTyped
  <2>6. SingleInv' BY <1>2, <1>3, <1>4, <1>9, <2>2, <2>3 DEF SingleInv, Asleep, Finished
  <2>7. PlainInv' BY <1>2, <1>3, <1>4, <1>5, <1>9, <1>6, <2>2, <2>3, Answers3 DEF PlainInv, Finished, Inputs
  <2> QED BY <1>2, <2>5, <2>6, <2>7 DEF IInv, Singles, Plain
<1>10. CASE /\ ~st.signal
            /\ r = Gone
            /\ outer' = outer
  <2>1. Follow(Return(st, Gone))
    BY <1>1, <1>3, <1>4, <1>5, <1>10, <1>6, Answers3 DEF CompareTurn, PlainInv, Structs
  <2>2. /\ st' = [st EXCEPT !.done = FALSE, !.changed = FALSE]
        /\ pc' = "done" /\ out' = out
    BY <1>2, <2>1, FollowReturn, FirstPolls, Answers3
  <2>3. /\ st' \in Structs /\ st'.inner = st.inner
        /\ st'.signal = st.signal /\ st'.first = st.first
        /\ st'.old = st.old
    BY <1>5, <2>2, <1>10, <1>6 DEF Structs
  <2>4. out' \in Outputs BY <1>3, <1>5, <2>2, <1>10, <1>6, ValuesAssumption DEF Structs
  <2>5. Typed' BY <1>3, <2>2, <2>3, <2>4, PollTyped
  <2>6. SingleInv' BY <1>2, <1>3, <1>4, <1>10, <2>2, <2>3 DEF SingleInv, Asleep, Finished
  <2>7. PlainInv' BY <1>2, <1>3, <1>4, <1>5, <1>10, <1>6, <2>2, <2>3, Answers3 DEF PlainInv, Finished, Inputs
  <2> QED BY <1>2, <2>5, <2>6, <2>7 DEF IInv, Singles, Plain
<1>11. CASE /\ st.signal
            /\ ~outer.fresh
            /\ ~outer.closed
            /\ Listening(outer')
            /\ r = Pending
  <2>1. Follow(Return(st, Pending))
    BY <1>1, <1>3, <1>4, <1>5, <1>11, <1>6, Answers3 DEF CompareTurn, PlainInv, Structs
  <2>2. /\ st' = [st EXCEPT !.done = FALSE, !.changed = FALSE]
        /\ pc' = "idle" /\ out' = out
    BY <1>2, <2>1, FollowReturn, FirstPolls, Answers3
  <2>3. /\ st' \in Structs /\ st'.inner = st.inner
        /\ st'.signal = st.signal /\ st'.first = st.first
        /\ st'.old = st.old
    BY <1>5, <2>2, <1>11, <1>6 DEF Structs
  <2>4. out' \in Outputs BY <1>3, <1>5, <2>2, <1>11, <1>6, ValuesAssumption DEF Structs
  <2>5. Typed' BY <1>3, <2>2, <2>3, <2>4, PollTyped
  <2>6. SingleInv' BY <1>2, <1>3, <1>4, <1>11, <2>2, <2>3 DEF SingleInv, Asleep, Finished
  <2>7. PlainInv' BY <1>2, <1>3, <1>4, <1>5, <1>11, <1>6, <2>2, <2>3, Answers3 DEF PlainInv, Finished, Inputs
  <2> QED BY <1>2, <2>5, <2>6, <2>7 DEF IInv, Singles, Plain
<1> QED BY <1>3, <1>4, <1>5, <1>7, <1>8, <1>9, <1>10, <1>11, <1>6 DEF PlainInv, Finished, Structs

\* A poll of dedupe.
LEMMA PollDedupe ==
    ASSUME IInv, PollOuter, kind = "dedupe"
    PROVE  IInv'
<1>1. PICK r : /\ Answered(outer, outer', st.signal, r, outer.value)
               /\ outer' \in Inputs
               /\ Follow(DedupeTurn(st, r))
               /\ r = Answer(outer, st.signal)
  BY OuterAnswered, OuterTurns DEF IInv
<1>2. /\ kind' = kind /\ woken' = woken /\ inner' = inner /\ pc = "outer"
      /\ kept' = IF IsSome(r) /\ r.value \in Keep THEN r.value ELSE kept
  BY <1>1 DEF PollOuter, Timed
<1>3. Typed /\ SingleInv /\ PlainInv BY DEF IInv, Singles, Plain
<1>4. /\ outer \in Inputs /\ outer'.value = outer.value
      /\ outer'.closed = outer.closed
      /\ \/ st.signal /\ outer.fresh /\ ~outer'.fresh /\ r = Some(outer.value)
         \/ ~st.signal /\ r = Gone /\ outer' = outer
         \/ st.signal /\ r = None /\ outer' = outer /\ Finished(outer)
         \/ st.signal /\ ~outer.fresh /\ ~outer.closed /\ Listening(outer') /\ r = Pending
  BY <1>1, <1>3, AnsweredFields DEF Typed, Structs
<1>5. /\ st \in Structs /\ out \in Outputs
      /\ outer.fresh => outer.value \in Values
      /\ \A v \in Values \cup {NoValue} : v \in Outputs
      /\ Target \in Values /\ Keep \subseteq Values /\ NoValue \notin Values
      /\ NoValue \notin BOOLEAN
  BY <1>3, OutputsAre, ValuesAssumption, NoValueAssumption DEF Typed, Answers
<1>6. CASE /\ st.signal
           /\ outer.fresh
           /\ ~outer'.fresh
           /\ r = Some(outer.value)
           /\ outer.value = st.old
  <2>1. Follow(Go(st, "outer"))
    BY <1>1, <1>3, <1>4, <1>5, <1>6, Answers3 DEF DedupeTurn, PlainInv, Structs
  <2>2. /\ st' = st
        /\ pc' = "outer" /\ out' = out
    BY <1>2, <2>1, FollowGo, FirstPolls, Answers3
  <2>3. /\ st' \in Structs /\ st'.inner = st.inner
        /\ st'.signal = st.signal /\ st'.first = st.first
        /\ st'.old = st.old
    BY <1>5, <2>2, <1>6 DEF Structs
  <2>4. out' \in Outputs BY <1>3, <1>5, <2>2, <1>6, ValuesAssumption DEF Structs
  <2>5. Typed' BY <1>3, <2>2, <2>3, <2>4, PollTyped
  <2>6. SingleInv' BY <1>2, <1>3, <1>4, <1>6, <2>2, <2>3 DEF SingleInv, Asleep, Finished
  <2>7. PlainInv' BY <1>2, <1>3, <1>4, <1>5, <1>6, <2>2, <2>3, Answers3 DEF PlainInv, Finished, Inputs
  <2> QED BY <1>2, <2>5, <2>6, <2>7 DEF IInv, Singles, Plain
<1>7. CASE /\ st.signal
           /\ outer.fresh
           /\ ~outer'.fresh
           /\ r = Some(outer.value)
           /\ outer.value # st.old
  <2>1. Follow(Return([st EXCEPT !.old = outer.value], Some(outer.value)))
    BY <1>1, <1>3, <1>4, <1>5, <1>7, Answers3 DEF DedupeTurn, PlainInv, Structs
  <2>2. /\ st' = [[st EXCEPT !.old = outer.value] EXCEPT !.done = FALSE, !.changed = FALSE]
        /\ pc' = "outer" /\ out' = outer.value
    BY <1>2, <2>1, FollowReturn, FirstPolls, Answers3
  <2>3. /\ st' \in Structs /\ st'.inner = st.inner
        /\ st'.signal = st.signal /\ st'.first = st.first
        /\ st'.old = outer.value
    BY <1>5, <2>2, <1>7 DEF Structs
  <2>4. out' \in Outputs BY <1>3, <1>5, <2>2, <1>7, ValuesAssumption DEF Structs
  <2>5. Typed' BY <1>3, <2>2, <2>3, <2>4, PollTyped
  <2>6. SingleInv' BY <1>2, <1>3, <1>4, <1>7, <2>2, <2>3 DEF SingleInv, Asleep, Finished
  <2>7. PlainInv' BY <1>2, <1>3, <1>4, <1>5, <1>7, <2>2, <2>3, Answers3 DEF PlainInv, Finished, Inputs
  <2> QED BY <1>2, <2>5, <2>6, <2>7 DEF IInv, Singles, Plain
<1>8. CASE /\ st.signal
           /\ r = None
           /\ outer' = outer
           /\ Finished(outer)
  <2>1. Follow(Return(st, None))
    BY <1>1, <1>3, <1>4, <1>5, <1>8, Answers3 DEF DedupeTurn, PlainInv, Structs
  <2>2. /\ st' = [st EXCEPT !.done = FALSE, !.changed = FALSE]
        /\ pc' = "done" /\ out' = out
    BY <1>2, <2>1, FollowReturn, FirstPolls, Answers3
  <2>3. /\ st' \in Structs /\ st'.inner = st.inner
        /\ st'.signal = st.signal /\ st'.first = st.first
        /\ st'.old = st.old
    BY <1>5, <2>2, <1>8 DEF Structs
  <2>4. out' \in Outputs BY <1>3, <1>5, <2>2, <1>8, ValuesAssumption DEF Structs
  <2>5. Typed' BY <1>3, <2>2, <2>3, <2>4, PollTyped
  <2>6. SingleInv' BY <1>2, <1>3, <1>4, <1>8, <2>2, <2>3 DEF SingleInv, Asleep, Finished
  <2>7. PlainInv' BY <1>2, <1>3, <1>4, <1>5, <1>8, <2>2, <2>3, Answers3 DEF PlainInv, Finished, Inputs
  <2> QED BY <1>2, <2>5, <2>6, <2>7 DEF IInv, Singles, Plain
<1>9. CASE /\ ~st.signal
           /\ r = Gone
           /\ outer' = outer
  <2>1. Follow(Return(st, Gone))
    BY <1>1, <1>3, <1>4, <1>5, <1>9, Answers3 DEF DedupeTurn, PlainInv, Structs
  <2>2. /\ st' = [st EXCEPT !.done = FALSE, !.changed = FALSE]
        /\ pc' = "done" /\ out' = out
    BY <1>2, <2>1, FollowReturn, FirstPolls, Answers3
  <2>3. /\ st' \in Structs /\ st'.inner = st.inner
        /\ st'.signal = st.signal /\ st'.first = st.first
        /\ st'.old = st.old
    BY <1>5, <2>2, <1>9 DEF Structs
  <2>4. out' \in Outputs BY <1>3, <1>5, <2>2, <1>9, ValuesAssumption DEF Structs
  <2>5. Typed' BY <1>3, <2>2, <2>3, <2>4, PollTyped
  <2>6. SingleInv' BY <1>2, <1>3, <1>4, <1>9, <2>2, <2>3 DEF SingleInv, Asleep, Finished
  <2>7. PlainInv' BY <1>2, <1>3, <1>4, <1>5, <1>9, <2>2, <2>3, Answers3 DEF PlainInv, Finished, Inputs
  <2> QED BY <1>2, <2>5, <2>6, <2>7 DEF IInv, Singles, Plain
<1>10. CASE /\ st.signal
            /\ ~outer.fresh
            /\ ~outer.closed
            /\ Listening(outer')
            /\ r = Pending
  <2>1. Follow(Return(st, Pending))
    BY <1>1, <1>3, <1>4, <1>5, <1>10, Answers3 DEF DedupeTurn, PlainInv, Structs
  <2>2. /\ st' = [st EXCEPT !.done = FALSE, !.changed = FALSE]
        /\ pc' = "idle" /\ out' = out
    BY <1>2, <2>1, FollowReturn, FirstPolls, Answers3
  <2>3. /\ st' \in Structs /\ st'.inner = st.inner
        /\ st'.signal = st.signal /\ st'.first = st.first
        /\ st'.old = st.old
    BY <1>5, <2>2, <1>10 DEF Structs
  <2>4. out' \in Outputs BY <1>3, <1>5, <2>2, <1>10, ValuesAssumption DEF Structs
  <2>5. Typed' BY <1>3, <2>2, <2>3, <2>4, PollTyped
  <2>6. SingleInv' BY <1>2, <1>3, <1>4, <1>10, <2>2, <2>3 DEF SingleInv, Asleep, Finished
  <2>7. PlainInv' BY <1>2, <1>3, <1>4, <1>5, <1>10, <2>2, <2>3, Answers3 DEF PlainInv, Finished, Inputs
  <2> QED BY <1>2, <2>5, <2>6, <2>7 DEF IInv, Singles, Plain
<1> QED BY <1>3, <1>4, <1>5, <1>6, <1>7, <1>8, <1>9, <1>10 DEF PlainInv, Finished, Structs

\* A poll of filter_map.
LEMMA PollFilterMap ==
    ASSUME IInv, PollOuter, kind = "filter_map"
    PROVE  IInv'
<1>1. PICK r : /\ Answered(outer, outer', st.signal, r, outer.value)
               /\ outer' \in Inputs
               /\ Follow(FilterMapTurn(st, r))
               /\ r = Answer(outer, st.signal)
  BY OuterAnswered, OuterTurns DEF IInv
<1>2. /\ kind' = kind /\ woken' = woken /\ inner' = inner /\ pc = "outer"
      /\ kept' = IF IsSome(r) /\ r.value \in Keep THEN r.value ELSE kept
  BY <1>1 DEF PollOuter, Timed
<1>3. Typed /\ SingleInv /\ PlainInv BY DEF IInv, Singles, Plain
<1>4. /\ outer \in Inputs /\ outer'.value = outer.value
      /\ outer'.closed = outer.closed
      /\ \/ st.signal /\ outer.fresh /\ ~outer'.fresh /\ r = Some(outer.value)
         \/ ~st.signal /\ r = Gone /\ outer' = outer
         \/ st.signal /\ r = None /\ outer' = outer /\ Finished(outer)
         \/ st.signal /\ ~outer.fresh /\ ~outer.closed /\ Listening(outer') /\ r = Pending
  BY <1>1, <1>3, AnsweredFields DEF Typed, Structs
<1>5. /\ st \in Structs /\ out \in Outputs
      /\ outer.fresh => outer.value \in Values
      /\ \A v \in Values \cup {NoValue} : v \in Outputs
      /\ Target \in Values /\ Keep \subseteq Values /\ NoValue \notin Values
      /\ NoValue \notin BOOLEAN
  BY <1>3, OutputsAre, ValuesAssumption, NoValueAssumption DEF Typed, Answers
<1>6. CASE /\ st.signal
           /\ outer.fresh
           /\ ~outer'.fresh
           /\ r = Some(outer.value)
           /\ outer.value \notin Keep
           /\ ~st.first
  <2>1. Follow(Go(st, "outer"))
    BY <1>1, <1>3, <1>4, <1>5, <1>6, Answers3 DEF FilterMapTurn, PlainInv, Structs
  <2>2. /\ st' = st
        /\ pc' = "outer" /\ out' = out
    BY <1>2, <2>1, FollowGo, FirstPolls, Answers3
  <2>3. /\ st' \in Structs /\ st'.inner = st.inner
        /\ st'.signal = st.signal /\ st'.first = st.first
        /\ st'.old = st.old
    BY <1>5, <2>2, <1>6 DEF Structs
  <2>4. out' \in Outputs BY <1>3, <1>5, <2>2, <1>6, ValuesAssumption DEF Structs
  <2>5. Typed' BY <1>3, <2>2, <2>3, <2>4, PollTyped
  <2>6. SingleInv' BY <1>2, <1>3, <1>4, <1>6, <2>2, <2>3 DEF SingleInv, Asleep, Finished
  <2>7. PlainInv' BY <1>2, <1>3, <1>4, <1>5, <1>6, <2>2, <2>3, Answers3 DEF PlainInv, Finished, Inputs
  <2> QED BY <1>2, <2>5, <2>6, <2>7 DEF IInv, Singles, Plain
<1>7. CASE /\ st.signal
           /\ outer.fresh
           /\ ~outer'.fresh
           /\ r = Some(outer.value)
           /\ outer.value \in Keep
  <2>1. Follow(Return([st EXCEPT !.first = FALSE], Some(outer.value)))
    BY <1>1, <1>3, <1>4, <1>5, <1>7, Answers3 DEF FilterMapTurn, PlainInv, Structs
  <2>2. /\ st' = [[st EXCEPT !.first = FALSE] EXCEPT !.done = FALSE, !.changed = FALSE]
        /\ pc' = "outer" /\ out' = outer.value
    BY <1>2, <2>1, FollowReturn, FirstPolls, Answers3
  <2>3. /\ st' \in Structs /\ st'.inner = st.inner
        /\ st'.signal = st.signal /\ st'.first = FALSE
        /\ st'.old = st.old
    BY <1>5, <2>2, <1>7 DEF Structs
  <2>4. out' \in Outputs BY <1>3, <1>5, <2>2, <1>7, ValuesAssumption DEF Structs
  <2>5. Typed' BY <1>3, <2>2, <2>3, <2>4, PollTyped
  <2>6. SingleInv' BY <1>2, <1>3, <1>4, <1>7, <2>2, <2>3 DEF SingleInv, Asleep, Finished
  <2>7. PlainInv' BY <1>2, <1>3, <1>4, <1>5, <1>7, <2>2, <2>3, Answers3 DEF PlainInv, Finished, Inputs
  <2> QED BY <1>2, <2>5, <2>6, <2>7 DEF IInv, Singles, Plain
<1>8. CASE /\ st.signal
           /\ outer.fresh
           /\ ~outer'.fresh
           /\ r = Some(outer.value)
           /\ outer.value \notin Keep
           /\ st.first
  <2>1. Follow(Return([st EXCEPT !.first = FALSE], Some(NoValue)))
    BY <1>1, <1>3, <1>4, <1>5, <1>8, Answers3 DEF FilterMapTurn, PlainInv, Structs
  <2>2. /\ st' = [[st EXCEPT !.first = FALSE] EXCEPT !.done = FALSE, !.changed = FALSE]
        /\ pc' = "outer" /\ out' = NoValue
    BY <1>2, <2>1, FollowReturn, FirstPolls, Answers3
  <2>3. /\ st' \in Structs /\ st'.inner = st.inner
        /\ st'.signal = st.signal /\ st'.first = FALSE
        /\ st'.old = st.old
    BY <1>5, <2>2, <1>8 DEF Structs
  <2>4. out' \in Outputs BY <1>3, <1>5, <2>2, <1>8, ValuesAssumption DEF Structs
  <2>5. Typed' BY <1>3, <2>2, <2>3, <2>4, PollTyped
  <2>6. SingleInv' BY <1>2, <1>3, <1>4, <1>8, <2>2, <2>3 DEF SingleInv, Asleep, Finished
  <2>7. PlainInv' BY <1>2, <1>3, <1>4, <1>5, <1>8, <2>2, <2>3, Answers3 DEF PlainInv, Finished, Inputs
  <2> QED BY <1>2, <2>5, <2>6, <2>7 DEF IInv, Singles, Plain
<1>9. CASE /\ st.signal
           /\ r = None
           /\ outer' = outer
           /\ Finished(outer)
  <2>1. Follow(Return(st, None))
    BY <1>1, <1>3, <1>4, <1>5, <1>9, Answers3 DEF FilterMapTurn, PlainInv, Structs
  <2>2. /\ st' = [st EXCEPT !.done = FALSE, !.changed = FALSE]
        /\ pc' = "done" /\ out' = out
    BY <1>2, <2>1, FollowReturn, FirstPolls, Answers3
  <2>3. /\ st' \in Structs /\ st'.inner = st.inner
        /\ st'.signal = st.signal /\ st'.first = st.first
        /\ st'.old = st.old
    BY <1>5, <2>2, <1>9 DEF Structs
  <2>4. out' \in Outputs BY <1>3, <1>5, <2>2, <1>9, ValuesAssumption DEF Structs
  <2>5. Typed' BY <1>3, <2>2, <2>3, <2>4, PollTyped
  <2>6. SingleInv' BY <1>2, <1>3, <1>4, <1>9, <2>2, <2>3 DEF SingleInv, Asleep, Finished
  <2>7. PlainInv' BY <1>2, <1>3, <1>4, <1>5, <1>9, <2>2, <2>3, Answers3 DEF PlainInv, Finished, Inputs
  <2> QED BY <1>2, <2>5, <2>6, <2>7 DEF IInv, Singles, Plain
<1>10. CASE /\ ~st.signal
            /\ r = Gone
            /\ outer' = outer
  <2>1. Follow(Return(st, Gone))
    BY <1>1, <1>3, <1>4, <1>5, <1>10, Answers3 DEF FilterMapTurn, PlainInv, Structs
  <2>2. /\ st' = [st EXCEPT !.done = FALSE, !.changed = FALSE]
        /\ pc' = "done" /\ out' = out
    BY <1>2, <2>1, FollowReturn, FirstPolls, Answers3
  <2>3. /\ st' \in Structs /\ st'.inner = st.inner
        /\ st'.signal = st.signal /\ st'.first = st.first
        /\ st'.old = st.old
    BY <1>5, <2>2, <1>10 DEF Structs
  <2>4. out' \in Outputs BY <1>3, <1>5, <2>2, <1>10, ValuesAssumption DEF Structs
  <2>5. Typed' BY <1>3, <2>2, <2>3, <2>4, PollTyped
  <2>6. SingleInv' BY <1>2, <1>3, <1>4, <1>10, <2>2, <2>3 DEF SingleInv, Asleep, Finished
  <2>7. PlainInv' BY <1>2, <1>3, <1>4, <1>5, <1>10, <2>2, <2>3, Answers3 DEF PlainInv, Finished, Inputs
  <2> QED BY <1>2, <2>5, <2>6, <2>7 DEF IInv, Singles, Plain
<1>11. CASE /\ st.signal
            /\ ~outer.fresh
            /\ ~outer.closed
            /\ Listening(outer')
            /\ r = Pending
  <2>1. Follow(Return(st, Pending))
    BY <1>1, <1>3, <1>4, <1>5, <1>11, Answers3 DEF FilterMapTurn, PlainInv, Structs
  <2>2. /\ st' = [st EXCEPT !.done = FALSE, !.changed = FALSE]
        /\ pc' = "idle" /\ out' = out
    BY <1>2, <2>1, FollowReturn, FirstPolls, Answers3
  <2>3. /\ st' \in Structs /\ st'.inner = st.inner
        /\ st'.signal = st.signal /\ st'.first = st.first
        /\ st'.old = st.old
    BY <1>5, <2>2, <1>11 DEF Structs
  <2>4. out' \in Outputs BY <1>3, <1>5, <2>2, <1>11, ValuesAssumption DEF Structs
  <2>5. Typed' BY <1>3, <2>2, <2>3, <2>4, PollTyped
  <2>6. SingleInv' BY <1>2, <1>3, <1>4, <1>11, <2>2, <2>3 DEF SingleInv, Asleep, Finished
  <2>7. PlainInv' BY <1>2, <1>3, <1>4, <1>5, <1>11, <2>2, <2>3, Answers3 DEF PlainInv, Finished, Inputs
  <2> QED BY <1>2, <2>5, <2>6, <2>7 DEF IInv, Singles, Plain
<1> QED BY <1>3, <1>4, <1>5, <1>6, <1>7, <1>8, <1>9, <1>10, <1>11 DEF PlainInv, Finished, Structs

\* A poll of stop_if.
LEMMA PollStopIf ==
    ASSUME IInv, PollOuter, kind = "stop_if"
    PROVE  IInv'
<1>1. PICK r : /\ Answered(outer, outer', st.signal, r, outer.value)
               /\ outer' \in Inputs
               /\ Follow(StopIfTurn(st, r))
               /\ r = Answer(outer, st.signal)
  BY OuterAnswered, OuterTurns DEF IInv
<1>2. /\ kind' = kind /\ woken' = woken /\ inner' = inner /\ pc = "outer"
      /\ kept' = IF IsSome(r) /\ r.value \in Keep THEN r.value ELSE kept
  BY <1>1 DEF PollOuter, Timed
<1>3. Typed /\ SingleInv /\ StopIfInv BY DEF IInv, Singles, Plain
<1>4. /\ outer \in Inputs /\ outer'.value = outer.value
      /\ outer'.closed = outer.closed
      /\ \/ st.signal /\ outer.fresh /\ ~outer'.fresh /\ r = Some(outer.value)
         \/ ~st.signal /\ r = Gone /\ outer' = outer
         \/ st.signal /\ r = None /\ outer' = outer /\ Finished(outer)
         \/ st.signal /\ ~outer.fresh /\ ~outer.closed /\ Listening(outer') /\ r = Pending
  BY <1>1, <1>3, AnsweredFields DEF Typed, Structs
<1>5. /\ st \in Structs /\ out \in Outputs
      /\ outer.fresh => outer.value \in Values
      /\ \A v \in Values \cup {NoValue} : v \in Outputs
      /\ Target \in Values /\ Keep \subseteq Values /\ NoValue \notin Values
      /\ NoValue \notin BOOLEAN
  BY <1>3, OutputsAre, ValuesAssumption, NoValueAssumption DEF Typed, Answers
<1>6. CASE /\ st.signal
           /\ outer.fresh
           /\ ~outer'.fresh
           /\ r = Some(outer.value)
           /\ outer.value \in Keep
  <2>1. Follow(Return([st EXCEPT !.signal = FALSE], Some(outer.value)))
    BY <1>1, <1>3, <1>4, <1>5, <1>6, Answers3, ZenonT(60) DEF StopIfTurn, StopIfInv, Structs
  <2>2. /\ st' = [[st EXCEPT !.signal = FALSE] EXCEPT !.done = FALSE, !.changed = FALSE]
        /\ pc' = "outer" /\ out' = outer.value
    BY <1>2, <2>1, FollowReturn, FirstPolls, Answers3
  <2>3. /\ st' \in Structs /\ st'.inner = st.inner
        /\ st'.signal = FALSE /\ st'.first = st.first
        /\ st'.old = st.old
    BY <1>5, <2>2, <1>6 DEF Structs
  <2>4. out' \in Outputs BY <1>3, <1>5, <2>2, <1>6, ValuesAssumption DEF Structs
  <2>5. Typed' BY <1>3, <2>2, <2>3, <2>4, PollTyped
  <2>6. SingleInv' BY <1>2, <1>3, <1>4, <1>6, <2>2, <2>3 DEF SingleInv, Asleep, Finished
  <2>7. StopIfInv' BY <1>2, <1>3, <1>4, <1>5, <1>6, <2>2, <2>3, Answers3 DEF StopIfInv, Finished, Inputs
  <2> QED BY <1>2, <2>5, <2>6, <2>7 DEF IInv, Singles, Plain
<1>7. CASE /\ st.signal
           /\ outer.fresh
           /\ ~outer'.fresh
           /\ r = Some(outer.value)
           /\ outer.value \notin Keep
  <2>1. Follow(Return([st EXCEPT !.signal = TRUE], Some(outer.value)))
    BY <1>1, <1>3, <1>4, <1>5, <1>7, Answers3, ZenonT(60) DEF StopIfTurn, StopIfInv, Structs
  <2>2. /\ st' = [[st EXCEPT !.signal = TRUE] EXCEPT !.done = FALSE, !.changed = FALSE]
        /\ pc' = "outer" /\ out' = outer.value
    BY <1>2, <2>1, FollowReturn, FirstPolls, Answers3
  <2>3. /\ st' \in Structs /\ st'.inner = st.inner
        /\ st'.signal = TRUE /\ st'.first = st.first
        /\ st'.old = st.old
    BY <1>5, <2>2, <1>7 DEF Structs
  <2>4. out' \in Outputs BY <1>3, <1>5, <2>2, <1>7, ValuesAssumption DEF Structs
  <2>5. Typed' BY <1>3, <2>2, <2>3, <2>4, PollTyped
  <2>6. SingleInv' BY <1>2, <1>3, <1>4, <1>7, <2>2, <2>3 DEF SingleInv, Asleep, Finished
  <2>7. StopIfInv' BY <1>2, <1>3, <1>4, <1>5, <1>7, <2>2, <2>3, Answers3 DEF StopIfInv, Finished, Inputs
  <2> QED BY <1>2, <2>5, <2>6, <2>7 DEF IInv, Singles, Plain
<1>8. CASE /\ st.signal
           /\ r = None
           /\ outer' = outer
           /\ Finished(outer)
  <2>1. Follow(Return([st EXCEPT !.signal = FALSE], None))
    BY <1>1, <1>3, <1>4, <1>5, <1>8, Answers3, ZenonT(60) DEF StopIfTurn, StopIfInv, Structs
  <2>2. /\ st' = [[st EXCEPT !.signal = FALSE] EXCEPT !.done = FALSE, !.changed = FALSE]
        /\ pc' = "done" /\ out' = out
    BY <1>2, <2>1, FollowReturn, FirstPolls, Answers3
  <2>3. /\ st' \in Structs /\ st'.inner = st.inner
        /\ st'.signal = FALSE /\ st'.first = st.first
        /\ st'.old = st.old
    BY <1>5, <2>2, <1>8 DEF Structs
  <2>4. out' \in Outputs BY <1>3, <1>5, <2>2, <1>8, ValuesAssumption DEF Structs
  <2>5. Typed' BY <1>3, <2>2, <2>3, <2>4, PollTyped
  <2>6. SingleInv' BY <1>2, <1>3, <1>4, <1>8, <2>2, <2>3 DEF SingleInv, Asleep, Finished
  <2>7. StopIfInv' BY <1>2, <1>3, <1>4, <1>5, <1>8, <2>2, <2>3, Answers3 DEF StopIfInv, Finished, Inputs
  <2> QED BY <1>2, <2>5, <2>6, <2>7 DEF IInv, Singles, Plain
<1>9. CASE /\ ~st.signal
           /\ r = Gone
           /\ outer' = outer
  <2>1. Follow(Return([st EXCEPT !.signal = FALSE], None))
    BY <1>1, <1>3, <1>4, <1>5, <1>9, Answers3, ZenonT(60) DEF StopIfTurn, StopIfInv, Structs
  <2>2. /\ st' = [[st EXCEPT !.signal = FALSE] EXCEPT !.done = FALSE, !.changed = FALSE]
        /\ pc' = "done" /\ out' = out
    BY <1>2, <2>1, FollowReturn, FirstPolls, Answers3
  <2>3. /\ st' \in Structs /\ st'.inner = st.inner
        /\ st'.signal = FALSE /\ st'.first = st.first
        /\ st'.old = st.old
    BY <1>5, <2>2, <1>9 DEF Structs
  <2>4. out' \in Outputs BY <1>3, <1>5, <2>2, <1>9, ValuesAssumption DEF Structs
  <2>5. Typed' BY <1>3, <2>2, <2>3, <2>4, PollTyped
  <2>6. SingleInv' BY <1>2, <1>3, <1>4, <1>9, <2>2, <2>3 DEF SingleInv, Asleep, Finished
  <2>7. StopIfInv' BY <1>2, <1>3, <1>4, <1>5, <1>9, <2>2, <2>3, Answers3 DEF StopIfInv, Finished, Inputs
  <2> QED BY <1>2, <2>5, <2>6, <2>7 DEF IInv, Singles, Plain
<1>10. CASE /\ st.signal
            /\ ~outer.fresh
            /\ ~outer.closed
            /\ Listening(outer')
            /\ r = Pending
  <2>1. Follow(Return([st EXCEPT !.signal = TRUE], Pending))
    BY <1>1, <1>3, <1>4, <1>5, <1>10, Answers3, ZenonT(60) DEF StopIfTurn, StopIfInv, Structs
  <2>2. /\ st' = [[st EXCEPT !.signal = TRUE] EXCEPT !.done = FALSE, !.changed = FALSE]
        /\ pc' = "idle" /\ out' = out
    BY <1>2, <2>1, FollowReturn, FirstPolls, Answers3
  <2>3. /\ st' \in Structs /\ st'.inner = st.inner
        /\ st'.signal = TRUE /\ st'.first = st.first
        /\ st'.old = st.old
    BY <1>5, <2>2, <1>10 DEF Structs
  <2>4. out' \in Outputs BY <1>3, <1>5, <2>2, <1>10, ValuesAssumption DEF Structs
  <2>5. Typed' BY <1>3, <2>2, <2>3, <2>4, PollTyped
  <2>6. SingleInv' BY <1>2, <1>3, <1>4, <1>10, <2>2, <2>3 DEF SingleInv, Asleep, Finished
  <2>7. StopIfInv' BY <1>2, <1>3, <1>4, <1>5, <1>10, <2>2, <2>3, Answers3 DEF StopIfInv, Finished, Inputs
  <2> QED BY <1>2, <2>5, <2>6, <2>7 DEF IInv, Singles, Plain
<1> QED BY <1>3, <1>4, <1>5, <1>6, <1>7, <1>8, <1>9, <1>10 DEF StopIfInv, Finished, Structs

\* A poll of first.
LEMMA PollFirst ==
    ASSUME IInv, PollOuter, kind = "first"
    PROVE  IInv'
<1>1. PICK r : /\ Answered(outer, outer', st.signal, r, outer.value)
               /\ outer' \in Inputs
               /\ Follow(FirstTurn(st, r))
               /\ r = Answer(outer, st.signal)
  BY OuterAnswered, OuterTurns DEF IInv
<1>2. /\ kind' = kind /\ woken' = woken /\ inner' = inner /\ pc = "outer"
      /\ kept' = IF IsSome(r) /\ r.value \in Keep THEN r.value ELSE kept
  BY <1>1 DEF PollOuter, Timed
<1>3. Typed /\ SingleInv /\ FirstInv BY DEF IInv, Singles, Plain
<1>4. /\ outer \in Inputs /\ outer'.value = outer.value
      /\ outer'.closed = outer.closed
      /\ \/ st.signal /\ outer.fresh /\ ~outer'.fresh /\ r = Some(outer.value)
         \/ ~st.signal /\ r = Gone /\ outer' = outer
         \/ st.signal /\ r = None /\ outer' = outer /\ Finished(outer)
         \/ st.signal /\ ~outer.fresh /\ ~outer.closed /\ Listening(outer') /\ r = Pending
  BY <1>1, <1>3, AnsweredFields DEF Typed, Structs
<1>5. /\ st \in Structs /\ out \in Outputs
      /\ outer.fresh => outer.value \in Values
      /\ \A v \in Values \cup {NoValue} : v \in Outputs
      /\ Target \in Values /\ Keep \subseteq Values /\ NoValue \notin Values
      /\ NoValue \notin BOOLEAN
  BY <1>3, OutputsAre, ValuesAssumption, NoValueAssumption DEF Typed, Answers
<1>6. CASE /\ st.signal
           /\ outer.fresh
           /\ ~outer'.fresh
           /\ r = Some(outer.value)
  <2>1. Follow(Return([st EXCEPT !.signal = FALSE], Some(outer.value)))
    BY <1>1, <1>3, <1>4, <1>5, <1>6, Answers3 DEF FirstTurn, FirstInv, Structs
  <2>2. /\ st' = [[st EXCEPT !.signal = FALSE] EXCEPT !.done = FALSE, !.changed = FALSE]
        /\ pc' = "outer" /\ out' = outer.value
    BY <1>2, <2>1, FollowReturn, FirstPolls, Answers3
  <2>3. /\ st' \in Structs /\ st'.inner = st.inner
        /\ st'.signal = FALSE /\ st'.first = st.first
        /\ st'.old = st.old
    BY <1>5, <2>2, <1>6 DEF Structs
  <2>4. out' \in Outputs BY <1>3, <1>5, <2>2, <1>6, ValuesAssumption DEF Structs
  <2>5. Typed' BY <1>3, <2>2, <2>3, <2>4, PollTyped
  <2>6. SingleInv' BY <1>2, <1>3, <1>4, <1>6, <2>2, <2>3 DEF SingleInv, Asleep, Finished
  <2>7. FirstInv' BY <1>2, <1>3, <1>4, <1>5, <1>6, <2>2, <2>3, Answers3 DEF FirstInv, Finished, Inputs
  <2> QED BY <1>2, <2>5, <2>6, <2>7 DEF IInv, Singles, Plain
<1>7. CASE /\ ~st.signal
           /\ r = Gone
           /\ outer' = outer
  <2>1. Follow(Return([st EXCEPT !.signal = FALSE], None))
    BY <1>1, <1>3, <1>4, <1>5, <1>7, Answers3 DEF FirstTurn, FirstInv, Structs
  <2>2. /\ st' = [[st EXCEPT !.signal = FALSE] EXCEPT !.done = FALSE, !.changed = FALSE]
        /\ pc' = "done" /\ out' = out
    BY <1>2, <2>1, FollowReturn, FirstPolls, Answers3
  <2>3. /\ st' \in Structs /\ st'.inner = st.inner
        /\ st'.signal = FALSE /\ st'.first = st.first
        /\ st'.old = st.old
    BY <1>5, <2>2, <1>7 DEF Structs
  <2>4. out' \in Outputs BY <1>3, <1>5, <2>2, <1>7, ValuesAssumption DEF Structs
  <2>5. Typed' BY <1>3, <2>2, <2>3, <2>4, PollTyped
  <2>6. SingleInv' BY <1>2, <1>3, <1>4, <1>7, <2>2, <2>3 DEF SingleInv, Asleep, Finished
  <2>7. FirstInv' BY <1>2, <1>3, <1>4, <1>5, <1>7, <2>2, <2>3, Answers3 DEF FirstInv, Finished, Inputs
  <2> QED BY <1>2, <2>5, <2>6, <2>7 DEF IInv, Singles, Plain
<1> QED BY <1>3, <1>4, <1>5, <1>6, <1>7 DEF FirstInv, Finished, Structs

\* A poll of maybe.
LEMMA PollMaybe ==
    ASSUME IInv, PollOuter, kind = "maybe"
    PROVE  IInv'
<1>1. PICK r : /\ Answered(outer, outer', st.signal, r, outer.value)
               /\ outer' \in Inputs
               /\ Follow(MaybeTurn(st, r))
               /\ r = Answer(outer, st.signal)
  BY OuterAnswered, OuterTurns DEF IInv
<1>2. /\ kind' = kind /\ woken' = woken /\ inner' = inner /\ pc = "outer"
      /\ kept' = IF IsSome(r) /\ r.value \in Keep THEN r.value ELSE kept
  BY <1>1 DEF PollOuter, Timed
<1>3. Typed /\ SingleInv /\ PlainInv BY DEF IInv, Singles, Plain
<1>4. /\ outer \in Inputs /\ outer'.value = outer.value
      /\ outer'.closed = outer.closed
      /\ \/ st.signal /\ outer.fresh /\ ~outer'.fresh /\ r = Some(outer.value)
         \/ ~st.signal /\ r = Gone /\ outer' = outer
         \/ st.signal /\ r = None /\ outer' = outer /\ Finished(outer)
         \/ st.signal /\ ~outer.fresh /\ ~outer.closed /\ Listening(outer') /\ r = Pending
  BY <1>1, <1>3, AnsweredFields DEF Typed, Structs
<1>5. /\ st \in Structs /\ out \in Outputs
      /\ outer.fresh => outer.value \in Values
      /\ \A v \in Values \cup {NoValue} : v \in Outputs
      /\ Target \in Values /\ Keep \subseteq Values /\ NoValue \notin Values
      /\ NoValue \notin BOOLEAN
  BY <1>3, OutputsAre, ValuesAssumption, NoValueAssumption DEF Typed, Answers
<1>6. CASE /\ st.signal
           /\ outer.fresh
           /\ ~outer'.fresh
           /\ r = Some(outer.value)
  <2>1. Follow(Return(st, Some(outer.value)))
    BY <1>1, <1>3, <1>4, <1>5, <1>6, Answers3 DEF MaybeTurn, PlainInv, Structs
  <2>2. /\ st' = [st EXCEPT !.done = FALSE, !.changed = FALSE]
        /\ pc' = "outer" /\ out' = outer.value
    BY <1>2, <2>1, FollowReturn, FirstPolls, Answers3
  <2>3. /\ st' \in Structs /\ st'.inner = st.inner
        /\ st'.signal = st.signal /\ st'.first = st.first
        /\ st'.old = st.old
    BY <1>5, <2>2, <1>6 DEF Structs
  <2>4. out' \in Outputs BY <1>3, <1>5, <2>2, <1>6, ValuesAssumption DEF Structs
  <2>5. Typed' BY <1>3, <2>2, <2>3, <2>4, PollTyped
  <2>6. SingleInv' BY <1>2, <1>3, <1>4, <1>6, <2>2, <2>3 DEF SingleInv, Asleep, Finished
  <2>7. PlainInv' BY <1>2, <1>3, <1>4, <1>5, <1>6, <2>2, <2>3, Answers3 DEF PlainInv, Finished, Inputs
  <2> QED BY <1>2, <2>5, <2>6, <2>7 DEF IInv, Singles, Plain
<1>7. CASE /\ st.signal
           /\ r = None
           /\ outer' = outer
           /\ Finished(outer)
  <2>1. Follow(Return(st, None))
    BY <1>1, <1>3, <1>4, <1>5, <1>7, Answers3 DEF MaybeTurn, PlainInv, Structs
  <2>2. /\ st' = [st EXCEPT !.done = FALSE, !.changed = FALSE]
        /\ pc' = "done" /\ out' = out
    BY <1>2, <2>1, FollowReturn, FirstPolls, Answers3
  <2>3. /\ st' \in Structs /\ st'.inner = st.inner
        /\ st'.signal = st.signal /\ st'.first = st.first
        /\ st'.old = st.old
    BY <1>5, <2>2, <1>7 DEF Structs
  <2>4. out' \in Outputs BY <1>3, <1>5, <2>2, <1>7, ValuesAssumption DEF Structs
  <2>5. Typed' BY <1>3, <2>2, <2>3, <2>4, PollTyped
  <2>6. SingleInv' BY <1>2, <1>3, <1>4, <1>7, <2>2, <2>3 DEF SingleInv, Asleep, Finished
  <2>7. PlainInv' BY <1>2, <1>3, <1>4, <1>5, <1>7, <2>2, <2>3, Answers3 DEF PlainInv, Finished, Inputs
  <2> QED BY <1>2, <2>5, <2>6, <2>7 DEF IInv, Singles, Plain
<1>8. CASE /\ ~st.signal
           /\ r = Gone
           /\ outer' = outer
           /\ st.first
  <2>1. Follow(Return([st EXCEPT !.first = FALSE], Some(NoValue)))
    BY <1>1, <1>3, <1>4, <1>5, <1>8, Answers3 DEF MaybeTurn, PlainInv, Structs
  <2>2. /\ st' = [[st EXCEPT !.first = FALSE] EXCEPT !.done = FALSE, !.changed = FALSE]
        /\ pc' = "outer" /\ out' = NoValue
    BY <1>2, <2>1, FollowReturn, FirstPolls, Answers3
  <2>3. /\ st' \in Structs /\ st'.inner = st.inner
        /\ st'.signal = st.signal /\ st'.first = FALSE
        /\ st'.old = st.old
    BY <1>5, <2>2, <1>8 DEF Structs
  <2>4. out' \in Outputs BY <1>3, <1>5, <2>2, <1>8, ValuesAssumption DEF Structs
  <2>5. Typed' BY <1>3, <2>2, <2>3, <2>4, PollTyped
  <2>6. SingleInv' BY <1>2, <1>3, <1>4, <1>8, <2>2, <2>3 DEF SingleInv, Asleep, Finished
  <2>7. PlainInv' BY <1>2, <1>3, <1>4, <1>5, <1>8, <2>2, <2>3, Answers3 DEF PlainInv, Finished, Inputs
  <2> QED BY <1>2, <2>5, <2>6, <2>7 DEF IInv, Singles, Plain
<1>9. CASE /\ ~st.signal
           /\ r = Gone
           /\ outer' = outer
           /\ ~st.first
  <2>1. Follow(Return([st EXCEPT !.first = FALSE], None))
    BY <1>1, <1>3, <1>4, <1>5, <1>9, Answers3 DEF MaybeTurn, PlainInv, Structs
  <2>2. /\ st' = [[st EXCEPT !.first = FALSE] EXCEPT !.done = FALSE, !.changed = FALSE]
        /\ pc' = "done" /\ out' = out
    BY <1>2, <2>1, FollowReturn, FirstPolls, Answers3
  <2>3. /\ st' \in Structs /\ st'.inner = st.inner
        /\ st'.signal = st.signal /\ st'.first = FALSE
        /\ st'.old = st.old
    BY <1>5, <2>2, <1>9 DEF Structs
  <2>4. out' \in Outputs BY <1>3, <1>5, <2>2, <1>9, ValuesAssumption DEF Structs
  <2>5. Typed' BY <1>3, <2>2, <2>3, <2>4, PollTyped
  <2>6. SingleInv' BY <1>2, <1>3, <1>4, <1>9, <2>2, <2>3 DEF SingleInv, Asleep, Finished
  <2>7. PlainInv' BY <1>2, <1>3, <1>4, <1>5, <1>9, <2>2, <2>3, Answers3 DEF PlainInv, Finished, Inputs
  <2> QED BY <1>2, <2>5, <2>6, <2>7 DEF IInv, Singles, Plain
<1>10. CASE /\ st.signal
            /\ ~outer.fresh
            /\ ~outer.closed
            /\ Listening(outer')
            /\ r = Pending
  <2>1. Follow(Return(st, Pending))
    BY <1>1, <1>3, <1>4, <1>5, <1>10, Answers3 DEF MaybeTurn, PlainInv, Structs
  <2>2. /\ st' = [st EXCEPT !.done = FALSE, !.changed = FALSE]
        /\ pc' = "idle" /\ out' = out
    BY <1>2, <2>1, FollowReturn, FirstPolls, Answers3
  <2>3. /\ st' \in Structs /\ st'.inner = st.inner
        /\ st'.signal = st.signal /\ st'.first = st.first
        /\ st'.old = st.old
    BY <1>5, <2>2, <1>10 DEF Structs
  <2>4. out' \in Outputs BY <1>3, <1>5, <2>2, <1>10, ValuesAssumption DEF Structs
  <2>5. Typed' BY <1>3, <2>2, <2>3, <2>4, PollTyped
  <2>6. SingleInv' BY <1>2, <1>3, <1>4, <1>10, <2>2, <2>3 DEF SingleInv, Asleep, Finished
  <2>7. PlainInv' BY <1>2, <1>3, <1>4, <1>5, <1>10, <2>2, <2>3, Answers3 DEF PlainInv, Finished, Inputs
  <2> QED BY <1>2, <2>5, <2>6, <2>7 DEF IInv, Singles, Plain
<1> QED BY <1>3, <1>4, <1>5, <1>6, <1>7, <1>8, <1>9, <1>10 DEF PlainInv, Finished, Structs

\* A poll of to_future.
LEMMA PollToFuture ==
    ASSUME IInv, PollOuter, kind = "to_future"
    PROVE  IInv'
<1>1. PICK r : /\ Answered(outer, outer', st.signal, r, outer.value)
               /\ outer' \in Inputs
               /\ Follow(SignalFutureTurn(st, r))
               /\ r = Answer(outer, st.signal)
  BY OuterAnswered, OuterTurns DEF IInv
<1>2. /\ kind' = kind /\ woken' = woken /\ inner' = inner /\ pc = "outer"
      /\ kept' = IF IsSome(r) /\ r.value \in Keep THEN r.value ELSE kept
  BY <1>1 DEF PollOuter, Timed
<1>3. Typed /\ SingleInv /\ PlainInv BY DEF IInv, Singles, Plain
<1>4. /\ outer \in Inputs /\ outer'.value = outer.value
      /\ outer'.closed = outer.closed
      /\ \/ st.signal /\ outer.fresh /\ ~outer'.fresh /\ r = Some(outer.value)
         \/ ~st.signal /\ r = Gone /\ outer' = outer
         \/ st.signal /\ r = None /\ outer' = outer /\ Finished(outer)
         \/ st.signal /\ ~outer.fresh /\ ~outer.closed /\ Listening(outer') /\ r = Pending
  BY <1>1, <1>3, AnsweredFields DEF Typed, Structs
<1>5. /\ st \in Structs /\ out \in Outputs
      /\ outer.fresh => outer.value \in Values
      /\ \A v \in Values \cup {NoValue} : v \in Outputs
      /\ Target \in Values /\ Keep \subseteq Values /\ NoValue \notin Values
      /\ NoValue \notin BOOLEAN
  BY <1>3, OutputsAre, ValuesAssumption, NoValueAssumption DEF Typed, Answers
<1>6. CASE /\ st.signal
           /\ outer.fresh
           /\ ~outer'.fresh
           /\ r = Some(outer.value)
  <2>1. Follow(Go([st EXCEPT !.old = outer.value], "outer"))
    BY <1>1, <1>3, <1>4, <1>5, <1>6, Answers3 DEF SignalFutureTurn, PlainInv, Structs
  <2>2. /\ st' = [st EXCEPT !.old = outer.value]
        /\ pc' = "outer" /\ out' = out
    BY <1>2, <2>1, FollowGo, FirstPolls, Answers3
  <2>3. /\ st' \in Structs /\ st'.inner = st.inner
        /\ st'.signal = st.signal /\ st'.first = st.first
        /\ st'.old = outer.value
    BY <1>5, <2>2, <1>6 DEF Structs
  <2>4. out' \in Outputs BY <1>3, <1>5, <2>2, <1>6, ValuesAssumption DEF Structs
  <2>5. Typed' BY <1>3, <2>2, <2>3, <2>4, PollTyped
  <2>6. SingleInv' BY <1>2, <1>3, <1>4, <1>6, <2>2, <2>3 DEF SingleInv, Asleep, Finished
  <2>7. PlainInv' BY <1>2, <1>3, <1>4, <1>5, <1>6, <2>2, <2>3, Answers3 DEF PlainInv, Finished, Inputs
  <2> QED BY <1>2, <2>5, <2>6, <2>7 DEF IInv, Singles, Plain
<1>7. CASE /\ st.signal
           /\ r = None
           /\ outer' = outer
           /\ Finished(outer)
  <2>1. Follow(Return(st, Finish(st.old)))
    BY <1>1, <1>3, <1>4, <1>5, <1>7, Answers3 DEF SignalFutureTurn, PlainInv, Structs
  <2>2. /\ st' = [st EXCEPT !.done = FALSE, !.changed = FALSE]
        /\ pc' = "done" /\ out' = st.old
    BY <1>2, <2>1, FollowFinish, FirstPolls, Answers3
  <2>3. /\ st' \in Structs /\ st'.inner = st.inner
        /\ st'.signal = st.signal /\ st'.first = st.first
        /\ st'.old = st.old
    BY <1>5, <2>2, <1>7 DEF Structs
  <2>4. out' \in Outputs BY <1>3, <1>5, <2>2, <1>7, ValuesAssumption DEF Structs
  <2>5. Typed' BY <1>3, <2>2, <2>3, <2>4, PollTyped
  <2>6. SingleInv' BY <1>2, <1>3, <1>4, <1>7, <2>2, <2>3 DEF SingleInv, Asleep, Finished
  <2>7. PlainInv' BY <1>2, <1>3, <1>4, <1>5, <1>7, <2>2, <2>3, Answers3 DEF PlainInv, Finished, Inputs
  <2> QED BY <1>2, <2>5, <2>6, <2>7 DEF IInv, Singles, Plain
<1>8. CASE /\ st.signal
           /\ ~outer.fresh
           /\ ~outer.closed
           /\ Listening(outer')
           /\ r = Pending
  <2>1. Follow(Return(st, Pending))
    BY <1>1, <1>3, <1>4, <1>5, <1>8, Answers3 DEF SignalFutureTurn, PlainInv, Structs
  <2>2. /\ st' = [st EXCEPT !.done = FALSE, !.changed = FALSE]
        /\ pc' = "idle" /\ out' = out
    BY <1>2, <2>1, FollowReturn, FirstPolls, Answers3
  <2>3. /\ st' \in Structs /\ st'.inner = st.inner
        /\ st'.signal = st.signal /\ st'.first = st.first
        /\ st'.old = st.old
    BY <1>5, <2>2, <1>8 DEF Structs
  <2>4. out' \in Outputs BY <1>3, <1>5, <2>2, <1>8, ValuesAssumption DEF Structs
  <2>5. Typed' BY <1>3, <2>2, <2>3, <2>4, PollTyped
  <2>6. SingleInv' BY <1>2, <1>3, <1>4, <1>8, <2>2, <2>3 DEF SingleInv, Asleep, Finished
  <2>7. PlainInv' BY <1>2, <1>3, <1>4, <1>5, <1>8, <2>2, <2>3, Answers3 DEF PlainInv, Finished, Inputs
  <2> QED BY <1>2, <2>5, <2>6, <2>7 DEF IInv, Singles, Plain
<1> QED BY <1>3, <1>4, <1>5, <1>6, <1>7, <1>8 DEF PlainInv, Finished, Structs

\* A poll of wait_for.
LEMMA PollWaitFor ==
    ASSUME IInv, PollOuter, kind = "wait_for"
    PROVE  IInv'
<1>1. PICK r : /\ Answered(outer, outer', st.signal, r, outer.value)
               /\ outer' \in Inputs
               /\ Follow(WaitForTurn(st, r))
               /\ r = Answer(outer, st.signal)
  BY OuterAnswered, OuterTurns DEF IInv
<1>2. /\ kind' = kind /\ woken' = woken /\ inner' = inner /\ pc = "outer"
      /\ kept' = IF IsSome(r) /\ r.value \in Keep THEN r.value ELSE kept
  BY <1>1 DEF PollOuter, Timed
<1>3. Typed /\ SingleInv /\ WaitForInv BY DEF IInv, Singles, Plain
<1>4. /\ outer \in Inputs /\ outer'.value = outer.value
      /\ outer'.closed = outer.closed
      /\ \/ st.signal /\ outer.fresh /\ ~outer'.fresh /\ r = Some(outer.value)
         \/ ~st.signal /\ r = Gone /\ outer' = outer
         \/ st.signal /\ r = None /\ outer' = outer /\ Finished(outer)
         \/ st.signal /\ ~outer.fresh /\ ~outer.closed /\ Listening(outer') /\ r = Pending
  BY <1>1, <1>3, AnsweredFields DEF Typed, Structs
<1>5. /\ st \in Structs /\ out \in Outputs
      /\ outer.fresh => outer.value \in Values
      /\ \A v \in Values \cup {NoValue} : v \in Outputs
      /\ Target \in Values /\ Keep \subseteq Values /\ NoValue \notin Values
      /\ NoValue \notin BOOLEAN
  BY <1>3, OutputsAre, ValuesAssumption, NoValueAssumption DEF Typed, Answers
<1>6. CASE /\ st.signal
           /\ outer.fresh
           /\ ~outer'.fresh
           /\ r = Some(outer.value)
           /\ outer.value # Target
  <2>1. Follow(Go(st, "outer"))
    BY <1>1, <1>3, <1>4, <1>5, <1>6, Answers3 DEF WaitForTurn, WaitForInv, Structs
  <2>2. /\ st' = st
        /\ pc' = "outer" /\ out' = out
    BY <1>2, <2>1, FollowGo, FirstPolls, Answers3
  <2>3. /\ st' \in Structs /\ st'.inner = st.inner
        /\ st'.signal = st.signal /\ st'.first = st.first
        /\ st'.old = st.old
    BY <1>5, <2>2, <1>6 DEF Structs
  <2>4. out' \in Outputs BY <1>3, <1>5, <2>2, <1>6, ValuesAssumption DEF Structs
  <2>5. Typed' BY <1>3, <2>2, <2>3, <2>4, PollTyped
  <2>6. SingleInv' BY <1>2, <1>3, <1>4, <1>6, <2>2, <2>3 DEF SingleInv, Asleep, Finished
  <2>7. WaitForInv' BY <1>2, <1>3, <1>4, <1>5, <1>6, <2>2, <2>3, Answers3 DEF WaitForInv, Finished, Inputs
  <2> QED BY <1>2, <2>5, <2>6, <2>7 DEF IInv, Singles, Plain
<1>7. CASE /\ st.signal
           /\ outer.fresh
           /\ ~outer'.fresh
           /\ r = Some(outer.value)
           /\ outer.value = Target
  <2>1. Follow(Return(st, Finish(Target)))
    BY <1>1, <1>3, <1>4, <1>5, <1>7, Answers3, ZenonT(60) DEF WaitForTurn, WaitForInv, Structs
  <2>2. /\ st' = [st EXCEPT !.done = FALSE, !.changed = FALSE]
        /\ pc' = "done" /\ out' = Target
    BY <1>2, <2>1, FollowFinish, FirstPolls, Answers3
  <2>3. /\ st' \in Structs /\ st'.inner = st.inner
        /\ st'.signal = st.signal /\ st'.first = st.first
        /\ st'.old = st.old
    BY <1>5, <2>2, <1>7 DEF Structs
  <2>4. out' \in Outputs BY <1>3, <1>5, <2>2, <1>7, ValuesAssumption DEF Structs
  <2>5. Typed' BY <1>3, <2>2, <2>3, <2>4, PollTyped
  <2>6. SingleInv' BY <1>2, <1>3, <1>4, <1>7, <2>2, <2>3 DEF SingleInv, Asleep, Finished
  <2>7. WaitForInv' BY <1>2, <1>3, <1>4, <1>5, <1>7, <2>2, <2>3, Answers3 DEF WaitForInv, Finished, Inputs
  <2> QED BY <1>2, <2>5, <2>6, <2>7 DEF IInv, Singles, Plain
<1>8. CASE /\ st.signal
           /\ r = None
           /\ outer' = outer
           /\ Finished(outer)
  <2>1. Follow(Return(st, Finish(NoValue)))
    BY <1>1, <1>3, <1>4, <1>5, <1>8, Answers3 DEF WaitForTurn, WaitForInv, Structs
  <2>2. /\ st' = [st EXCEPT !.done = FALSE, !.changed = FALSE]
        /\ pc' = "done" /\ out' = NoValue
    BY <1>2, <2>1, FollowFinish, FirstPolls, Answers3
  <2>3. /\ st' \in Structs /\ st'.inner = st.inner
        /\ st'.signal = st.signal /\ st'.first = st.first
        /\ st'.old = st.old
    BY <1>5, <2>2, <1>8 DEF Structs
  <2>4. out' \in Outputs BY <1>3, <1>5, <2>2, <1>8, ValuesAssumption DEF Structs
  <2>5. Typed' BY <1>3, <2>2, <2>3, <2>4, PollTyped
  <2>6. SingleInv' BY <1>2, <1>3, <1>4, <1>8, <2>2, <2>3 DEF SingleInv, Asleep, Finished
  <2>7. WaitForInv' BY <1>2, <1>3, <1>4, <1>5, <1>8, <2>2, <2>3, Answers3 DEF WaitForInv, Finished, Inputs
  <2> QED BY <1>2, <2>5, <2>6, <2>7 DEF IInv, Singles, Plain
<1>9. CASE /\ st.signal
           /\ ~outer.fresh
           /\ ~outer.closed
           /\ Listening(outer')
           /\ r = Pending
  <2>1. Follow(Return(st, Pending))
    BY <1>1, <1>3, <1>4, <1>5, <1>9, Answers3 DEF WaitForTurn, WaitForInv, Structs
  <2>2. /\ st' = [st EXCEPT !.done = FALSE, !.changed = FALSE]
        /\ pc' = "idle" /\ out' = out
    BY <1>2, <2>1, FollowReturn, FirstPolls, Answers3
  <2>3. /\ st' \in Structs /\ st'.inner = st.inner
        /\ st'.signal = st.signal /\ st'.first = st.first
        /\ st'.old = st.old
    BY <1>5, <2>2, <1>9 DEF Structs
  <2>4. out' \in Outputs BY <1>3, <1>5, <2>2, <1>9, ValuesAssumption DEF Structs
  <2>5. Typed' BY <1>3, <2>2, <2>3, <2>4, PollTyped
  <2>6. SingleInv' BY <1>2, <1>3, <1>4, <1>9, <2>2, <2>3 DEF SingleInv, Asleep, Finished
  <2>7. WaitForInv' BY <1>2, <1>3, <1>4, <1>5, <1>9, <2>2, <2>3, Answers3 DEF WaitForInv, Finished, Inputs
  <2> QED BY <1>2, <2>5, <2>6, <2>7 DEF IInv, Singles, Plain
<1> QED BY <1>3, <1>4, <1>5, <1>6, <1>7, <1>8, <1>9 DEF WaitForInv, Finished, Structs

\* A poll of from_future.
LEMMA PollFromFuture ==
    ASSUME IInv, PollOuter, kind = "from_future"
    PROVE  IInv'
<1>1. PICK r : /\ Answered(outer, outer', st.signal, r, outer.value)
               /\ outer' \in Inputs
               /\ Follow(FromFutureTurn(st, r))
               /\ r = Answer(outer, st.signal)
  BY OuterAnswered, OuterTurns DEF IInv
<1>2. /\ kind' = kind /\ woken' = woken /\ inner' = inner /\ pc = "outer"
      /\ kept' = IF IsSome(r) /\ r.value \in Keep THEN r.value ELSE kept
  BY <1>1 DEF PollOuter, Timed
<1>3. Typed /\ SingleInv /\ FromFutureInv BY DEF IInv, Singles, Plain
<1>4. /\ outer \in Inputs /\ outer'.value = outer.value
      /\ outer'.closed = outer.closed
      /\ \/ st.signal /\ outer.fresh /\ ~outer'.fresh /\ r = Some(outer.value)
         \/ ~st.signal /\ r = Gone /\ outer' = outer
         \/ st.signal /\ r = None /\ outer' = outer /\ Finished(outer)
         \/ st.signal /\ ~outer.fresh /\ ~outer.closed /\ Listening(outer') /\ r = Pending
  BY <1>1, <1>3, AnsweredFields DEF Typed, Structs
<1>5. /\ st \in Structs /\ out \in Outputs
      /\ outer.fresh => outer.value \in Values
      /\ \A v \in Values \cup {NoValue} : v \in Outputs
      /\ Target \in Values /\ Keep \subseteq Values /\ NoValue \notin Values
      /\ NoValue \notin BOOLEAN
  BY <1>3, OutputsAre, ValuesAssumption, NoValueAssumption DEF Typed, Answers
<1>6. CASE /\ st.signal
           /\ outer.fresh
           /\ ~outer'.fresh
           /\ r = Some(outer.value)
  <2>1. Follow(Return([st EXCEPT !.signal = FALSE], Some(outer.value)))
    BY <1>1, <1>3, <1>4, <1>5, <1>6, Answers3 DEF FromFutureTurn, FromFutureInv, Structs
  <2>2. /\ st' = [[st EXCEPT !.signal = FALSE] EXCEPT !.done = FALSE, !.changed = FALSE]
        /\ pc' = "outer" /\ out' = outer.value
    BY <1>2, <2>1, FollowReturn, FirstPolls, Answers3
  <2>3. /\ st' \in Structs /\ st'.inner = st.inner
        /\ st'.signal = FALSE /\ st'.first = st.first
        /\ st'.old = st.old
    BY <1>5, <2>2, <1>6 DEF Structs
  <2>4. out' \in Outputs BY <1>3, <1>5, <2>2, <1>6, ValuesAssumption DEF Structs
  <2>5. Typed' BY <1>3, <2>2, <2>3, <2>4, PollTyped
  <2>6. SingleInv' BY <1>2, <1>3, <1>4, <1>6, <2>2, <2>3 DEF SingleInv, Asleep, Finished
  <2>7. FromFutureInv' BY <1>1, <1>2, <1>3, <1>4, <1>5, <1>6, <2>2, <2>3, Answers3 DEF FromFutureInv, Finished, Inputs, Listening
  <2> QED BY <1>2, <2>5, <2>6, <2>7 DEF IInv, Singles, Plain
<1>7. CASE /\ ~st.signal
           /\ r = Gone
           /\ outer' = outer
  <2>1. Follow(Return(st, None))
    BY <1>1, <1>3, <1>4, <1>5, <1>7, Answers3 DEF FromFutureTurn, FromFutureInv, Structs
  <2>2. /\ st' = [st EXCEPT !.done = FALSE, !.changed = FALSE]
        /\ pc' = "done" /\ out' = out
    BY <1>2, <2>1, FollowReturn, FirstPolls, Answers3
  <2>3. /\ st' \in Structs /\ st'.inner = st.inner
        /\ st'.signal = st.signal /\ st'.first = st.first
        /\ st'.old = st.old
    BY <1>5, <2>2, <1>7 DEF Structs
  <2>4. out' \in Outputs BY <1>3, <1>5, <2>2, <1>7, ValuesAssumption DEF Structs
  <2>5. Typed' BY <1>3, <2>2, <2>3, <2>4, PollTyped
  <2>6. SingleInv' BY <1>2, <1>3, <1>4, <1>7, <2>2, <2>3 DEF SingleInv, Asleep, Finished
  <2>7. FromFutureInv' BY <1>1, <1>2, <1>3, <1>4, <1>5, <1>7, <2>2, <2>3, Answers3 DEF FromFutureInv, Finished, Inputs, Listening
  <2> QED BY <1>2, <2>5, <2>6, <2>7 DEF IInv, Singles, Plain
<1>8. CASE /\ st.signal
           /\ ~outer.fresh
           /\ ~outer.closed
           /\ Listening(outer')
           /\ r = Pending
           /\ st.first
  <2>1. Follow(Return([st EXCEPT !.first = FALSE], Some(NoValue)))
    BY <1>1, <1>3, <1>4, <1>5, <1>8, Answers3 DEF FromFutureTurn, FromFutureInv, Structs
  <2>2. /\ st' = [[st EXCEPT !.first = FALSE] EXCEPT !.done = FALSE, !.changed = FALSE]
        /\ pc' = "outer" /\ out' = NoValue
    BY <1>2, <2>1, FollowReturn, FirstPolls, Answers3
  <2>3. /\ st' \in Structs /\ st'.inner = st.inner
        /\ st'.signal = st.signal /\ st'.first = FALSE
        /\ st'.old = st.old
    BY <1>5, <2>2, <1>8 DEF Structs
  <2>4. out' \in Outputs BY <1>3, <1>5, <2>2, <1>8, ValuesAssumption DEF Structs
  <2>5. Typed' BY <1>3, <2>2, <2>3, <2>4, PollTyped
  <2>6. SingleInv' BY <1>2, <1>3, <1>4, <1>8, <2>2, <2>3 DEF SingleInv, Asleep, Finished
  <2>7. FromFutureInv' BY <1>1, <1>2, <1>3, <1>4, <1>5, <1>8, <2>2, <2>3, Answers3 DEF FromFutureInv, Finished, Inputs, Listening
  <2> QED BY <1>2, <2>5, <2>6, <2>7 DEF IInv, Singles, Plain
<1>9. CASE /\ st.signal
           /\ ~outer.fresh
           /\ ~outer.closed
           /\ Listening(outer')
           /\ r = Pending
           /\ ~st.first
  <2>1. Follow(Return([st EXCEPT !.first = FALSE], Pending))
    BY <1>1, <1>3, <1>4, <1>5, <1>9, Answers3 DEF FromFutureTurn, FromFutureInv, Structs
  <2>2. /\ st' = [[st EXCEPT !.first = FALSE] EXCEPT !.done = FALSE, !.changed = FALSE]
        /\ pc' = "idle" /\ out' = out
    BY <1>2, <2>1, FollowReturn, FirstPolls, Answers3
  <2>3. /\ st' \in Structs /\ st'.inner = st.inner
        /\ st'.signal = st.signal /\ st'.first = FALSE
        /\ st'.old = st.old
    BY <1>5, <2>2, <1>9 DEF Structs
  <2>4. out' \in Outputs BY <1>3, <1>5, <2>2, <1>9, ValuesAssumption DEF Structs
  <2>5. Typed' BY <1>3, <2>2, <2>3, <2>4, PollTyped
  <2>6. SingleInv' BY <1>2, <1>3, <1>4, <1>9, <2>2, <2>3 DEF SingleInv, Asleep, Finished
  <2>7. FromFutureInv' BY <1>1, <1>2, <1>3, <1>4, <1>5, <1>9, <2>2, <2>3, Answers3 DEF FromFutureInv, Finished, Inputs, Listening
  <2> QED BY <1>2, <2>5, <2>6, <2>7 DEF IInv, Singles, Plain
<1> QED BY <1>3, <1>4, <1>5, <1>6, <1>7, <1>8, <1>9 DEF FromFutureInv, Finished, Structs

\* A poll of from_stream.
LEMMA PollFromStream ==
    ASSUME IInv, PollOuter, kind = "from_stream"
    PROVE  IInv'
<1>1. PICK r : /\ Answered(outer, outer', st.signal, r, outer.value)
               /\ outer' \in Inputs
               /\ Follow(FromStreamTurn(st, r))
               /\ r = Answer(outer, st.signal)
  BY OuterAnswered, OuterTurns DEF IInv
<1>2. /\ kind' = kind /\ woken' = woken /\ inner' = inner /\ pc = "outer"
      /\ kept' = IF IsSome(r) /\ r.value \in Keep THEN r.value ELSE kept
  BY <1>1 DEF PollOuter, Timed
<1>3. Typed /\ SingleInv /\ FromStreamInv BY DEF IInv, Singles, Plain
<1>4. /\ outer \in Inputs /\ outer'.value = outer.value
      /\ outer'.closed = outer.closed
      /\ \/ st.signal /\ outer.fresh /\ ~outer'.fresh /\ r = Some(outer.value)
         \/ ~st.signal /\ r = Gone /\ outer' = outer
         \/ st.signal /\ r = None /\ outer' = outer /\ Finished(outer)
         \/ st.signal /\ ~outer.fresh /\ ~outer.closed /\ Listening(outer') /\ r = Pending
  BY <1>1, <1>3, AnsweredFields DEF Typed, Structs
<1>5. /\ st \in Structs /\ out \in Outputs
      /\ outer.fresh => outer.value \in Values
      /\ \A v \in Values \cup {NoValue} : v \in Outputs
      /\ Target \in Values /\ Keep \subseteq Values /\ NoValue \notin Values
      /\ NoValue \notin BOOLEAN
  BY <1>3, OutputsAre, ValuesAssumption, NoValueAssumption DEF Typed, Answers
<1>6. CASE /\ st.signal
           /\ outer.fresh
           /\ ~outer'.fresh
           /\ r = Some(outer.value)
  <2>1. Follow(Go([st EXCEPT !.old = outer.value], "outer"))
    BY <1>1, <1>3, <1>4, <1>5, <1>6, Answers3 DEF FromStreamTurn, FromStreamInv, Structs
  <2>2. /\ st' = [st EXCEPT !.old = outer.value]
        /\ pc' = "outer" /\ out' = out
    BY <1>2, <2>1, FollowGo, FirstPolls, Answers3
  <2>3. /\ st' \in Structs /\ st'.inner = st.inner
        /\ st'.signal = st.signal /\ st'.first = st.first
        /\ st'.old = outer.value
    BY <1>5, <2>2, <1>6 DEF Structs
  <2>4. out' \in Outputs BY <1>3, <1>5, <2>2, <1>6, ValuesAssumption DEF Structs
  <2>5. Typed' BY <1>3, <2>2, <2>3, <2>4, PollTyped
  <2>6. SingleInv' BY <1>2, <1>3, <1>4, <1>6, <2>2, <2>3 DEF SingleInv, Asleep, Finished
  <2>7. FromStreamInv' BY <1>2, <1>3, <1>4, <1>5, <1>6, <2>2, <2>3, Answers3 DEF FromStreamInv, Finished, Inputs
  <2> QED BY <1>2, <2>5, <2>6, <2>7 DEF IInv, Singles, Plain
<1>7. CASE /\ st.signal
           /\ r = None
           /\ outer' = outer
           /\ Finished(outer)
           /\ (st.old # NoValue \/ st.first)
  <2>1. Follow(Return([st EXCEPT !.signal = FALSE, !.first = FALSE, !.old = NoValue], Some(st.old)))
    BY <1>1, <1>3, <1>4, <1>5, <1>7, Answers3 DEF FromStreamTurn, FromStreamInv, Structs
  <2>2. /\ st' = [[st EXCEPT !.signal = FALSE, !.first = FALSE, !.old = NoValue] EXCEPT !.done = FALSE, !.changed = FALSE]
        /\ pc' = "outer" /\ out' = st.old
    BY <1>2, <2>1, FollowReturn, FirstPolls, Answers3
  <2>3. /\ st' \in Structs /\ st'.inner = st.inner
        /\ st'.signal = FALSE /\ st'.first = FALSE
        /\ st'.old = NoValue
    BY <1>5, <2>2, <1>7 DEF Structs
  <2>4. out' \in Outputs BY <1>3, <1>5, <2>2, <1>7, ValuesAssumption DEF Structs
  <2>5. Typed' BY <1>3, <2>2, <2>3, <2>4, PollTyped
  <2>6. SingleInv' BY <1>2, <1>3, <1>4, <1>7, <2>2, <2>3 DEF SingleInv, Asleep, Finished
  <2>7. FromStreamInv' BY <1>2, <1>3, <1>4, <1>5, <1>7, <2>2, <2>3, Answers3 DEF FromStreamInv, Finished, Inputs
  <2> QED BY <1>2, <2>5, <2>6, <2>7 DEF IInv, Singles, Plain
<1>8. CASE /\ st.signal
           /\ r = None
           /\ outer' = outer
           /\ Finished(outer)
           /\ st.old = NoValue
           /\ ~st.first
  <2>1. Follow(Return([st EXCEPT !.signal = FALSE, !.first = FALSE, !.old = NoValue], None))
    BY <1>1, <1>3, <1>4, <1>5, <1>8, Answers3 DEF FromStreamTurn, FromStreamInv, Structs
  <2>2. /\ st' = [[st EXCEPT !.signal = FALSE, !.first = FALSE, !.old = NoValue] EXCEPT !.done = FALSE, !.changed = FALSE]
        /\ pc' = "done" /\ out' = out
    BY <1>2, <2>1, FollowReturn, FirstPolls, Answers3
  <2>3. /\ st' \in Structs /\ st'.inner = st.inner
        /\ st'.signal = FALSE /\ st'.first = FALSE
        /\ st'.old = NoValue
    BY <1>5, <2>2, <1>8 DEF Structs
  <2>4. out' \in Outputs BY <1>3, <1>5, <2>2, <1>8, ValuesAssumption DEF Structs
  <2>5. Typed' BY <1>3, <2>2, <2>3, <2>4, PollTyped
  <2>6. SingleInv' BY <1>2, <1>3, <1>4, <1>8, <2>2, <2>3 DEF SingleInv, Asleep, Finished
  <2>7. FromStreamInv' BY <1>2, <1>3, <1>4, <1>5, <1>8, <2>2, <2>3, Answers3 DEF FromStreamInv, Finished, Inputs
  <2> QED BY <1>2, <2>5, <2>6, <2>7 DEF IInv, Singles, Plain
<1>9. CASE /\ ~st.signal
           /\ r = Gone
           /\ outer' = outer
  <2>1. Follow(Return([st EXCEPT !.signal = FALSE, !.first = FALSE, !.old = NoValue], None))
    BY <1>1, <1>3, <1>4, <1>5, <1>9, Answers3 DEF FromStreamTurn, FromStreamInv, Structs
  <2>2. /\ st' = [[st EXCEPT !.signal = FALSE, !.first = FALSE, !.old = NoValue] EXCEPT !.done = FALSE, !.changed = FALSE]
        /\ pc' = "done" /\ out' = out
    BY <1>2, <2>1, FollowReturn, FirstPolls, Answers3
  <2>3. /\ st' \in Structs /\ st'.inner = st.inner
        /\ st'.signal = FALSE /\ st'.first = FALSE
        /\ st'.old = NoValue
    BY <1>5, <2>2, <1>9 DEF Structs
  <2>4. out' \in Outputs BY <1>3, <1>5, <2>2, <1>9, ValuesAssumption DEF Structs
  <2>5. Typed' BY <1>3, <2>2, <2>3, <2>4, PollTyped
  <2>6. SingleInv' BY <1>2, <1>3, <1>4, <1>9, <2>2, <2>3 DEF SingleInv, Asleep, Finished
  <2>7. FromStreamInv' BY <1>2, <1>3, <1>4, <1>5, <1>9, <2>2, <2>3, Answers3 DEF FromStreamInv, Finished, Inputs
  <2> QED BY <1>2, <2>5, <2>6, <2>7 DEF IInv, Singles, Plain
<1>10. CASE /\ st.signal
            /\ ~outer.fresh
            /\ ~outer.closed
            /\ Listening(outer')
            /\ r = Pending
            /\ (st.old # NoValue \/ st.first)
  <2>1. Follow(Return([st EXCEPT !.signal = TRUE, !.first = FALSE, !.old = NoValue], Some(st.old)))
    BY <1>1, <1>3, <1>4, <1>5, <1>10, Answers3 DEF FromStreamTurn, FromStreamInv, Structs
  <2>2. /\ st' = [[st EXCEPT !.signal = TRUE, !.first = FALSE, !.old = NoValue] EXCEPT !.done = FALSE, !.changed = FALSE]
        /\ pc' = "outer" /\ out' = st.old
    BY <1>2, <2>1, FollowReturn, FirstPolls, Answers3
  <2>3. /\ st' \in Structs /\ st'.inner = st.inner
        /\ st'.signal = TRUE /\ st'.first = FALSE
        /\ st'.old = NoValue
    BY <1>5, <2>2, <1>10 DEF Structs
  <2>4. out' \in Outputs BY <1>3, <1>5, <2>2, <1>10, ValuesAssumption DEF Structs
  <2>5. Typed' BY <1>3, <2>2, <2>3, <2>4, PollTyped
  <2>6. SingleInv' BY <1>2, <1>3, <1>4, <1>10, <2>2, <2>3 DEF SingleInv, Asleep, Finished
  <2>7. FromStreamInv' BY <1>2, <1>3, <1>4, <1>5, <1>10, <2>2, <2>3, Answers3 DEF FromStreamInv, Finished, Inputs
  <2> QED BY <1>2, <2>5, <2>6, <2>7 DEF IInv, Singles, Plain
<1>11. CASE /\ st.signal
            /\ ~outer.fresh
            /\ ~outer.closed
            /\ Listening(outer')
            /\ r = Pending
            /\ st.old = NoValue
            /\ ~st.first
  <2>1. Follow(Return([st EXCEPT !.signal = TRUE, !.first = FALSE, !.old = NoValue], Pending))
    BY <1>1, <1>3, <1>4, <1>5, <1>11, Answers3 DEF FromStreamTurn, FromStreamInv, Structs
  <2>2. /\ st' = [[st EXCEPT !.signal = TRUE, !.first = FALSE, !.old = NoValue] EXCEPT !.done = FALSE, !.changed = FALSE]
        /\ pc' = "idle" /\ out' = out
    BY <1>2, <2>1, FollowReturn, FirstPolls, Answers3
  <2>3. /\ st' \in Structs /\ st'.inner = st.inner
        /\ st'.signal = TRUE /\ st'.first = FALSE
        /\ st'.old = NoValue
    BY <1>5, <2>2, <1>11 DEF Structs
  <2>4. out' \in Outputs BY <1>3, <1>5, <2>2, <1>11, ValuesAssumption DEF Structs
  <2>5. Typed' BY <1>3, <2>2, <2>3, <2>4, PollTyped
  <2>6. SingleInv' BY <1>2, <1>3, <1>4, <1>11, <2>2, <2>3 DEF SingleInv, Asleep, Finished
  <2>7. FromStreamInv' BY <1>2, <1>3, <1>4, <1>5, <1>11, <2>2, <2>3, Answers3 DEF FromStreamInv, Finished, Inputs
  <2> QED BY <1>2, <2>5, <2>6, <2>7 DEF IInv, Singles, Plain
<1> QED BY <1>3, <1>4, <1>5, <1>6, <1>7, <1>8, <1>9, <1>10, <1>11 DEF FromStreamInv, Finished, Structs

-----------------------------------------------------------------------------
(* The polls of two inputs.                                                 *)

\* A poll of the outer input of map_ref.
LEMMA PollMapRefOuter ==
    ASSUME IInv, PollOuter, kind = "map_ref"
    PROVE  IInv'
<1>1. PICK r : /\ Answered(outer, outer', st.signal, r, outer.value)
               /\ outer' \in Inputs
               /\ Follow(MapRefLeft(st, r))
               /\ r = Answer(outer, st.signal)
  BY OuterAnswered, OuterTurns DEF IInv
<1>2. /\ kind' = kind /\ woken' = woken /\ pc = "outer"
      /\ inner' = inner
  BY <1>1 DEF PollOuter, Timed
<1>3. Typed /\ MapRefInv BY DEF IInv
<1>4. /\ outer \in Inputs /\ outer'.value = outer.value
      /\ outer'.closed = outer.closed /\ outer'.of = outer.of
      /\ \/ st.signal /\ outer.fresh /\ ~outer'.fresh /\ outer'.waker = outer.waker /\ r = Some(outer.value)
         \/ ~st.signal /\ r = Gone /\ outer' = outer
         \/ st.signal /\ r = None /\ outer' = outer /\ Finished(outer)
         \/ st.signal /\ ~outer.fresh /\ ~outer.closed /\ Listening(outer') /\ r = Pending
  BY <1>1, <1>3, AnsweredFields DEF Typed, Structs
<1>5. /\ st \in Structs /\ out \in Outputs
      /\ outer \in Inputs /\ inner \in Inputs
      /\ outer.value \in Values
      /\ inner.fresh => inner.value \in Values
      /\ inner.of \in Values \cup {NoValue} /\ inner.value \in Values \cup {NoValue}
      /\ \A v, w \in Values \cup {NoValue} : <<v, w>> \in Outputs
      /\ NoValue \in Outputs /\ NoValue \notin Values
  BY <1>3, OutputsAre, ValuesAssumption DEF Typed, Inputs, Answers, Timed
<1>6. /\ st.old = <<st.old[1], st.old[2]>>
      /\ st.old[1] \in Values \cup {NoValue} /\ st.old[2] \in Values \cup {NoValue}
  BY <1>3 DEF MapRefInv, Answers
<1>7. CASE /\ st.signal
           /\ outer.fresh
           /\ ~outer'.fresh
           /\ outer'.waker = outer.waker
           /\ r = Some(outer.value)
  <2>1. Follow(Go([st EXCEPT !.signal = ~Over(r), !.done = Over(r), !.changed = IsSome(r), !.old = IF IsSome(r) THEN <<r.value, @[2]>> ELSE @], "inner"))
    BY <1>1, <1>7, Answers3 DEF MapRefLeft
  <2>2. /\ st' = [st EXCEPT !.signal = ~Over(r), !.done = Over(r), !.changed = IsSome(r), !.old = IF IsSome(r) THEN <<r.value, @[2]>> ELSE @]
        /\ pc' = "inner" /\ out' = out
    BY <1>2, <2>1, FollowGo, FirstPolls, Answers3
  <2>3. /\ st' \in Structs /\ st'.inner = st.inner /\ st'.signal = TRUE
        /\ st'.first = st.first /\ st'.old = <<outer.value, st.old[2]>>
        /\ st'.done = FALSE /\ st'.changed = TRUE
    BY <1>5, <2>2, <1>7, <1>6, Answers3, AnswerBooleans DEF Structs
  <2>4. out' \in Outputs BY <1>3, <1>5, <2>2, <1>7, <1>6 DEF Structs
  <2>5. Typed'
    <3>1. st'.inner => st.inner \/ inner'.value \in Values BY <1>2, <1>3, <1>4, <1>5, <2>3, <1>7, <1>6, Answers3 DEF MapRefInv, Inputs
    <3> QED BY <1>3, <2>2, <2>3, <2>4, <3>1, PollTyped
  <2>6. MapRefInv' BY <1>1, <1>2, <1>3, <1>4, <1>5, <1>7, <1>6, <2>2, <2>3, Answers3 DEF MapRefInv, Asleep, Finished, Listening, Inputs, Structs
  <2> QED BY <1>2, <2>5, <2>6 DEF IInv, Singles, Plain
<1>8. CASE /\ ~st.signal
           /\ r = Gone
           /\ outer' = outer
  <2>1. Follow(Go([st EXCEPT !.signal = ~Over(r), !.done = Over(r), !.changed = IsSome(r), !.old = IF IsSome(r) THEN <<r.value, @[2]>> ELSE @], "inner"))
    BY <1>1, <1>8, Answers3 DEF MapRefLeft
  <2>2. /\ st' = [st EXCEPT !.signal = ~Over(r), !.done = Over(r), !.changed = IsSome(r), !.old = IF IsSome(r) THEN <<r.value, @[2]>> ELSE @]
        /\ pc' = "inner" /\ out' = out
    BY <1>2, <2>1, FollowGo, FirstPolls, Answers3
  <2>3. /\ st' \in Structs /\ st'.inner = st.inner /\ st'.signal = FALSE
        /\ st'.first = st.first /\ st'.old = st.old
        /\ st'.done = TRUE /\ st'.changed = FALSE
    BY <1>5, <2>2, <1>8, <1>6, Answers3, AnswerBooleans DEF Structs
  <2>4. out' \in Outputs BY <1>3, <1>5, <2>2, <1>8, <1>6 DEF Structs
  <2>5. Typed'
    <3>1. st'.inner => st.inner \/ inner'.value \in Values BY <1>2, <1>3, <1>4, <1>5, <2>3, <1>8, <1>6, Answers3 DEF MapRefInv, Inputs
    <3> QED BY <1>3, <2>2, <2>3, <2>4, <3>1, PollTyped
  <2>6. MapRefInv' BY <1>1, <1>2, <1>3, <1>4, <1>5, <1>8, <1>6, <2>2, <2>3, Answers3 DEF MapRefInv, Asleep, Finished, Listening, Inputs, Structs
  <2> QED BY <1>2, <2>5, <2>6 DEF IInv, Singles, Plain
<1>9. CASE /\ st.signal
           /\ r = None
           /\ outer' = outer
           /\ Finished(outer)
  <2>1. Follow(Go([st EXCEPT !.signal = ~Over(r), !.done = Over(r), !.changed = IsSome(r), !.old = IF IsSome(r) THEN <<r.value, @[2]>> ELSE @], "inner"))
    BY <1>1, <1>9, Answers3 DEF MapRefLeft
  <2>2. /\ st' = [st EXCEPT !.signal = ~Over(r), !.done = Over(r), !.changed = IsSome(r), !.old = IF IsSome(r) THEN <<r.value, @[2]>> ELSE @]
        /\ pc' = "inner" /\ out' = out
    BY <1>2, <2>1, FollowGo, FirstPolls, Answers3
  <2>3. /\ st' \in Structs /\ st'.inner = st.inner /\ st'.signal = FALSE
        /\ st'.first = st.first /\ st'.old = st.old
        /\ st'.done = TRUE /\ st'.changed = FALSE
    BY <1>5, <2>2, <1>9, <1>6, Answers3, AnswerBooleans DEF Structs
  <2>4. out' \in Outputs BY <1>3, <1>5, <2>2, <1>9, <1>6 DEF Structs
  <2>5. Typed'
    <3>1. st'.inner => st.inner \/ inner'.value \in Values BY <1>2, <1>3, <1>4, <1>5, <2>3, <1>9, <1>6, Answers3 DEF MapRefInv, Inputs
    <3> QED BY <1>3, <2>2, <2>3, <2>4, <3>1, PollTyped
  <2>6. MapRefInv' BY <1>1, <1>2, <1>3, <1>4, <1>5, <1>9, <1>6, <2>2, <2>3, Answers3 DEF MapRefInv, Asleep, Finished, Listening, Inputs, Structs
  <2> QED BY <1>2, <2>5, <2>6 DEF IInv, Singles, Plain
<1>10. CASE /\ st.signal
            /\ ~outer.fresh
            /\ ~outer.closed
            /\ Listening(outer')
            /\ r = Pending
  <2>1. Follow(Go([st EXCEPT !.signal = ~Over(r), !.done = Over(r), !.changed = IsSome(r), !.old = IF IsSome(r) THEN <<r.value, @[2]>> ELSE @], "inner"))
    BY <1>1, <1>10, Answers3 DEF MapRefLeft
  <2>2. /\ st' = [st EXCEPT !.signal = ~Over(r), !.done = Over(r), !.changed = IsSome(r), !.old = IF IsSome(r) THEN <<r.value, @[2]>> ELSE @]
        /\ pc' = "inner" /\ out' = out
    BY <1>2, <2>1, FollowGo, FirstPolls, Answers3
  <2>3. /\ st' \in Structs /\ st'.inner = st.inner /\ st'.signal = TRUE
        /\ st'.first = st.first /\ st'.old = st.old
        /\ st'.done = FALSE /\ st'.changed = FALSE
    BY <1>5, <2>2, <1>10, <1>6, Answers3, AnswerBooleans DEF Structs
  <2>4. out' \in Outputs BY <1>3, <1>5, <2>2, <1>10, <1>6 DEF Structs
  <2>5. Typed'
    <3>1. st'.inner => st.inner \/ inner'.value \in Values BY <1>2, <1>3, <1>4, <1>5, <2>3, <1>10, <1>6, Answers3 DEF MapRefInv, Inputs
    <3> QED BY <1>3, <2>2, <2>3, <2>4, <3>1, PollTyped
  <2>6. MapRefInv' BY <1>1, <1>2, <1>3, <1>4, <1>5, <1>10, <1>6, <2>2, <2>3, Answers3 DEF MapRefInv, Asleep, Finished, Listening, Inputs, Structs
  <2> QED BY <1>2, <2>5, <2>6 DEF IInv, Singles, Plain
<1> QED BY <1>2, <1>3, <1>4, <1>5, <1>7, <1>8, <1>9, <1>10, <1>6 DEF MapRefInv, Finished, Structs

\* A poll of the inner input of map_ref.
LEMMA PollMapRefInner ==
    ASSUME IInv, PollInner, kind = "map_ref"
    PROVE  IInv'
<1>1. PICK r : /\ Answered(inner, inner', st.inner, r, InnerAnswer)
               /\ inner' \in Inputs
               /\ Follow(MapRefRight(st, r))
               /\ r = Answer(inner, st.inner)
  BY InnerAnswered, InnerTurns DEF IInv
<1>2. /\ kind' = kind /\ woken' = woken /\ pc = "inner"
      /\ outer' = outer
  BY <1>1 DEF PollInner, Timed
<1>3. Typed /\ MapRefInv BY DEF IInv
<1>4. /\ inner \in Inputs /\ inner'.value = inner.value
      /\ inner'.closed = inner.closed /\ inner'.of = inner.of
      /\ \/ st.inner /\ inner.fresh /\ ~inner'.fresh /\ inner'.waker = inner.waker /\ r = Some(InnerAnswer)
         \/ ~st.inner /\ r = Gone /\ inner' = inner
         \/ st.inner /\ r = None /\ inner' = inner /\ Finished(inner)
         \/ st.inner /\ ~inner.fresh /\ ~inner.closed /\ Listening(inner') /\ r = Pending
  BY <1>1, <1>3, AnsweredFields DEF Typed, Structs
<1>5. /\ st \in Structs /\ out \in Outputs
      /\ outer \in Inputs /\ inner \in Inputs
      /\ outer.value \in Values
      /\ inner.fresh => inner.value \in Values
      /\ inner.of \in Values \cup {NoValue} /\ inner.value \in Values \cup {NoValue}
      /\ \A v, w \in Values \cup {NoValue} : <<v, w>> \in Outputs
      /\ NoValue \in Outputs /\ NoValue \notin Values
  BY <1>3, OutputsAre, ValuesAssumption DEF Typed, Inputs, Answers, Timed
<1>6. /\ st.old = <<st.old[1], st.old[2]>>
      /\ st.old[1] \in Values \cup {NoValue} /\ st.old[2] \in Values \cup {NoValue}
  BY <1>3 DEF MapRefInv, Answers
<1>7. InnerAnswer = inner.value BY DEF InnerAnswer
<1>8. CASE /\ st.inner
           /\ inner.fresh
           /\ ~inner'.fresh
           /\ inner'.waker = inner.waker
           /\ r = Some(InnerAnswer)
  <2>1. Follow(Return([st EXCEPT !.inner = ~Over(r), !.old = IF IsSome(r) THEN <<st.old[1], r.value>> ELSE st.old], Some(<<st.old[1], inner.value>>)))
    BY <1>1, <1>3, <1>5, <1>8, <1>6, <1>7, Answers3, AnswerBooleans DEF MapRefRight, MapRefResult, Structs
  <2>2. /\ st' = [[st EXCEPT !.inner = ~Over(r), !.old = IF IsSome(r) THEN <<st.old[1], r.value>> ELSE st.old] EXCEPT !.done = FALSE, !.changed = FALSE]
        /\ pc' = "outer" /\ out' = <<st.old[1], inner.value>>
    BY <1>2, <2>1, FollowReturn, FirstPolls, Answers3
  <2>3. /\ st' \in Structs /\ st'.inner = TRUE /\ st'.signal = st.signal
        /\ st'.first = st.first /\ st'.old = <<st.old[1], inner.value>>
        /\ st'.done = FALSE /\ st'.changed = FALSE
    BY <1>5, <2>2, <1>8, <1>6, <1>7, Answers3, AnswerBooleans DEF Structs
  <2>4. out' \in Outputs BY <1>3, <1>5, <2>2, <1>8, <1>6, <1>7 DEF Structs
  <2>5. Typed'
    <3>1. st'.inner => st.inner \/ inner'.value \in Values BY <1>2, <1>3, <1>4, <1>5, <2>3, <1>8, <1>6, <1>7, Answers3 DEF MapRefInv, Inputs
    <3> QED BY <1>3, <2>2, <2>3, <2>4, <3>1, PollTyped
  <2>6. MapRefInv' BY <1>1, <1>2, <1>3, <1>4, <1>5, <1>8, <1>6, <1>7, <2>2, <2>3, Answers3 DEF MapRefInv, Asleep, Finished, Listening, Inputs, Structs
  <2> QED BY <1>2, <2>5, <2>6 DEF IInv, Singles, Plain
<1>9. CASE /\ ~st.inner
           /\ r = Gone
           /\ inner' = inner
           /\ st.changed
  <2>1. Follow(Return([st EXCEPT !.inner = ~Over(r), !.old = IF IsSome(r) THEN <<st.old[1], r.value>> ELSE st.old], Some(st.old)))
    BY <1>1, <1>3, <1>5, <1>9, <1>6, <1>7, Answers3, AnswerBooleans DEF MapRefRight, MapRefResult, Structs
  <2>2. /\ st' = [[st EXCEPT !.inner = ~Over(r), !.old = IF IsSome(r) THEN <<st.old[1], r.value>> ELSE st.old] EXCEPT !.done = FALSE, !.changed = FALSE]
        /\ pc' = "outer" /\ out' = st.old
    BY <1>2, <2>1, FollowReturn, FirstPolls, Answers3
  <2>3. /\ st' \in Structs /\ st'.inner = FALSE /\ st'.signal = st.signal
        /\ st'.first = st.first /\ st'.old = st.old
        /\ st'.done = FALSE /\ st'.changed = FALSE
    BY <1>5, <2>2, <1>9, <1>6, <1>7, Answers3, AnswerBooleans DEF Structs
  <2>4. out' \in Outputs BY <1>3, <1>5, <2>2, <1>9, <1>6, <1>7 DEF Structs
  <2>5. Typed'
    <3>1. st'.inner => st.inner \/ inner'.value \in Values BY <1>2, <1>3, <1>4, <1>5, <2>3, <1>9, <1>6, <1>7, Answers3 DEF MapRefInv, Inputs
    <3> QED BY <1>3, <2>2, <2>3, <2>4, <3>1, PollTyped
  <2>6. MapRefInv' BY <1>1, <1>2, <1>3, <1>4, <1>5, <1>9, <1>6, <1>7, <2>2, <2>3, Answers3 DEF MapRefInv, Asleep, Finished, Listening, Inputs, Structs
  <2> QED BY <1>2, <2>5, <2>6 DEF IInv, Singles, Plain
<1>10. CASE /\ ~st.inner
            /\ r = Gone
            /\ inner' = inner
            /\ ~st.changed
            /\ st.done
  <2>1. Follow(Return([st EXCEPT !.inner = ~Over(r), !.old = IF IsSome(r) THEN <<st.old[1], r.value>> ELSE st.old], None))
    BY <1>1, <1>3, <1>5, <1>10, <1>6, <1>7, Answers3, AnswerBooleans DEF MapRefRight, MapRefResult, Structs
  <2>2. /\ st' = [[st EXCEPT !.inner = ~Over(r), !.old = IF IsSome(r) THEN <<st.old[1], r.value>> ELSE st.old] EXCEPT !.done = FALSE, !.changed = FALSE]
        /\ pc' = "done" /\ out' = out
    BY <1>2, <2>1, FollowReturn, FirstPolls, Answers3
  <2>3. /\ st' \in Structs /\ st'.inner = FALSE /\ st'.signal = st.signal
        /\ st'.first = st.first /\ st'.old = st.old
        /\ st'.done = FALSE /\ st'.changed = FALSE
    BY <1>5, <2>2, <1>10, <1>6, <1>7, Answers3, AnswerBooleans DEF Structs
  <2>4. out' \in Outputs BY <1>3, <1>5, <2>2, <1>10, <1>6, <1>7 DEF Structs
  <2>5. Typed'
    <3>1. st'.inner => st.inner \/ inner'.value \in Values BY <1>2, <1>3, <1>4, <1>5, <2>3, <1>10, <1>6, <1>7, Answers3 DEF MapRefInv, Inputs
    <3> QED BY <1>3, <2>2, <2>3, <2>4, <3>1, PollTyped
  <2>6. MapRefInv' BY <1>1, <1>2, <1>3, <1>4, <1>5, <1>10, <1>6, <1>7, <2>2, <2>3, Answers3, ZenonT(60) DEF MapRefInv, Asleep, Finished, Listening, Inputs, Structs
  <2> QED BY <1>2, <2>5, <2>6 DEF IInv, Singles, Plain
<1>11. CASE /\ ~st.inner
            /\ r = Gone
            /\ inner' = inner
            /\ ~st.changed
            /\ ~st.done
  <2>1. Follow(Return([st EXCEPT !.inner = ~Over(r), !.old = IF IsSome(r) THEN <<st.old[1], r.value>> ELSE st.old], Pending))
    BY <1>1, <1>3, <1>5, <1>11, <1>6, <1>7, Answers3, AnswerBooleans DEF MapRefRight, MapRefResult, Structs
  <2>2. /\ st' = [[st EXCEPT !.inner = ~Over(r), !.old = IF IsSome(r) THEN <<st.old[1], r.value>> ELSE st.old] EXCEPT !.done = FALSE, !.changed = FALSE]
        /\ pc' = "idle" /\ out' = out
    BY <1>2, <2>1, FollowReturn, FirstPolls, Answers3
  <2>3. /\ st' \in Structs /\ st'.inner = FALSE /\ st'.signal = st.signal
        /\ st'.first = st.first /\ st'.old = st.old
        /\ st'.done = FALSE /\ st'.changed = FALSE
    BY <1>5, <2>2, <1>11, <1>6, <1>7, Answers3, AnswerBooleans DEF Structs
  <2>4. out' \in Outputs BY <1>3, <1>5, <2>2, <1>11, <1>6, <1>7 DEF Structs
  <2>5. Typed'
    <3>1. st'.inner => st.inner \/ inner'.value \in Values BY <1>2, <1>3, <1>4, <1>5, <2>3, <1>11, <1>6, <1>7, Answers3 DEF MapRefInv, Inputs
    <3> QED BY <1>3, <2>2, <2>3, <2>4, <3>1, PollTyped
  <2>6. MapRefInv' BY <1>1, <1>2, <1>3, <1>4, <1>5, <1>11, <1>6, <1>7, <2>2, <2>3, Answers3 DEF MapRefInv, Asleep, Finished, Listening, Inputs, Structs
  <2> QED BY <1>2, <2>5, <2>6 DEF IInv, Singles, Plain
<1>12. CASE /\ st.inner
            /\ r = None
            /\ inner' = inner
            /\ Finished(inner)
            /\ st.changed
  <2>1. Follow(Return([st EXCEPT !.inner = ~Over(r), !.old = IF IsSome(r) THEN <<st.old[1], r.value>> ELSE st.old], Some(st.old)))
    BY <1>1, <1>3, <1>5, <1>12, <1>6, <1>7, Answers3, AnswerBooleans DEF MapRefRight, MapRefResult, Structs
  <2>2. /\ st' = [[st EXCEPT !.inner = ~Over(r), !.old = IF IsSome(r) THEN <<st.old[1], r.value>> ELSE st.old] EXCEPT !.done = FALSE, !.changed = FALSE]
        /\ pc' = "outer" /\ out' = st.old
    BY <1>2, <2>1, FollowReturn, FirstPolls, Answers3
  <2>3. /\ st' \in Structs /\ st'.inner = FALSE /\ st'.signal = st.signal
        /\ st'.first = st.first /\ st'.old = st.old
        /\ st'.done = FALSE /\ st'.changed = FALSE
    BY <1>5, <2>2, <1>12, <1>6, <1>7, Answers3, AnswerBooleans DEF Structs
  <2>4. out' \in Outputs BY <1>3, <1>5, <2>2, <1>12, <1>6, <1>7 DEF Structs
  <2>5. Typed'
    <3>1. st'.inner => st.inner \/ inner'.value \in Values BY <1>2, <1>3, <1>4, <1>5, <2>3, <1>12, <1>6, <1>7, Answers3 DEF MapRefInv, Inputs
    <3> QED BY <1>3, <2>2, <2>3, <2>4, <3>1, PollTyped
  <2>6. MapRefInv' BY <1>1, <1>2, <1>3, <1>4, <1>5, <1>12, <1>6, <1>7, <2>2, <2>3, Answers3 DEF MapRefInv, Asleep, Finished, Listening, Inputs, Structs
  <2> QED BY <1>2, <2>5, <2>6 DEF IInv, Singles, Plain
<1>13. CASE /\ st.inner
            /\ r = None
            /\ inner' = inner
            /\ Finished(inner)
            /\ ~st.changed
            /\ st.done
  <2>1. Follow(Return([st EXCEPT !.inner = ~Over(r), !.old = IF IsSome(r) THEN <<st.old[1], r.value>> ELSE st.old], None))
    BY <1>1, <1>3, <1>5, <1>13, <1>6, <1>7, Answers3, AnswerBooleans DEF MapRefRight, MapRefResult, Structs
  <2>2. /\ st' = [[st EXCEPT !.inner = ~Over(r), !.old = IF IsSome(r) THEN <<st.old[1], r.value>> ELSE st.old] EXCEPT !.done = FALSE, !.changed = FALSE]
        /\ pc' = "done" /\ out' = out
    BY <1>2, <2>1, FollowReturn, FirstPolls, Answers3
  <2>3. /\ st' \in Structs /\ st'.inner = FALSE /\ st'.signal = st.signal
        /\ st'.first = st.first /\ st'.old = st.old
        /\ st'.done = FALSE /\ st'.changed = FALSE
    BY <1>5, <2>2, <1>13, <1>6, <1>7, Answers3, AnswerBooleans DEF Structs
  <2>4. out' \in Outputs BY <1>3, <1>5, <2>2, <1>13, <1>6, <1>7 DEF Structs
  <2>5. Typed'
    <3>1. st'.inner => st.inner \/ inner'.value \in Values BY <1>2, <1>3, <1>4, <1>5, <2>3, <1>13, <1>6, <1>7, Answers3 DEF MapRefInv, Inputs
    <3> QED BY <1>3, <2>2, <2>3, <2>4, <3>1, PollTyped
  <2>6. MapRefInv' BY <1>1, <1>2, <1>3, <1>4, <1>5, <1>13, <1>6, <1>7, <2>2, <2>3, Answers3, ZenonT(60) DEF MapRefInv, Asleep, Finished, Listening, Inputs, Structs
  <2> QED BY <1>2, <2>5, <2>6 DEF IInv, Singles, Plain
<1>14. CASE /\ st.inner
            /\ r = None
            /\ inner' = inner
            /\ Finished(inner)
            /\ ~st.changed
            /\ ~st.done
  <2>1. Follow(Return([st EXCEPT !.inner = ~Over(r), !.old = IF IsSome(r) THEN <<st.old[1], r.value>> ELSE st.old], Pending))
    BY <1>1, <1>3, <1>5, <1>14, <1>6, <1>7, Answers3, AnswerBooleans DEF MapRefRight, MapRefResult, Structs
  <2>2. /\ st' = [[st EXCEPT !.inner = ~Over(r), !.old = IF IsSome(r) THEN <<st.old[1], r.value>> ELSE st.old] EXCEPT !.done = FALSE, !.changed = FALSE]
        /\ pc' = "idle" /\ out' = out
    BY <1>2, <2>1, FollowReturn, FirstPolls, Answers3
  <2>3. /\ st' \in Structs /\ st'.inner = FALSE /\ st'.signal = st.signal
        /\ st'.first = st.first /\ st'.old = st.old
        /\ st'.done = FALSE /\ st'.changed = FALSE
    BY <1>5, <2>2, <1>14, <1>6, <1>7, Answers3, AnswerBooleans DEF Structs
  <2>4. out' \in Outputs BY <1>3, <1>5, <2>2, <1>14, <1>6, <1>7 DEF Structs
  <2>5. Typed'
    <3>1. st'.inner => st.inner \/ inner'.value \in Values BY <1>2, <1>3, <1>4, <1>5, <2>3, <1>14, <1>6, <1>7, Answers3 DEF MapRefInv, Inputs
    <3> QED BY <1>3, <2>2, <2>3, <2>4, <3>1, PollTyped
  <2>6. MapRefInv' BY <1>1, <1>2, <1>3, <1>4, <1>5, <1>14, <1>6, <1>7, <2>2, <2>3, Answers3 DEF MapRefInv, Asleep, Finished, Listening, Inputs, Structs
  <2> QED BY <1>2, <2>5, <2>6 DEF IInv, Singles, Plain
<1>15. CASE /\ st.inner
            /\ ~inner.fresh
            /\ ~inner.closed
            /\ Listening(inner')
            /\ r = Pending
            /\ st.changed
  <2>1. Follow(Return([st EXCEPT !.inner = ~Over(r), !.old = IF IsSome(r) THEN <<st.old[1], r.value>> ELSE st.old], Some(st.old)))
    BY <1>1, <1>3, <1>5, <1>15, <1>6, <1>7, Answers3, AnswerBooleans DEF MapRefRight, MapRefResult, Structs
  <2>2. /\ st' = [[st EXCEPT !.inner = ~Over(r), !.old = IF IsSome(r) THEN <<st.old[1], r.value>> ELSE st.old] EXCEPT !.done = FALSE, !.changed = FALSE]
        /\ pc' = "outer" /\ out' = st.old
    BY <1>2, <2>1, FollowReturn, FirstPolls, Answers3
  <2>3. /\ st' \in Structs /\ st'.inner = TRUE /\ st'.signal = st.signal
        /\ st'.first = st.first /\ st'.old = st.old
        /\ st'.done = FALSE /\ st'.changed = FALSE
    BY <1>5, <2>2, <1>15, <1>6, <1>7, Answers3, AnswerBooleans DEF Structs
  <2>4. out' \in Outputs BY <1>3, <1>5, <2>2, <1>15, <1>6, <1>7 DEF Structs
  <2>5. Typed'
    <3>1. st'.inner => st.inner \/ inner'.value \in Values BY <1>2, <1>3, <1>4, <1>5, <2>3, <1>15, <1>6, <1>7, Answers3 DEF MapRefInv, Inputs
    <3> QED BY <1>3, <2>2, <2>3, <2>4, <3>1, PollTyped
  <2>6. MapRefInv' BY <1>1, <1>2, <1>3, <1>4, <1>5, <1>15, <1>6, <1>7, <2>2, <2>3, Answers3 DEF MapRefInv, Asleep, Finished, Listening, Inputs, Structs
  <2> QED BY <1>2, <2>5, <2>6 DEF IInv, Singles, Plain
<1>16. CASE /\ st.inner
            /\ ~inner.fresh
            /\ ~inner.closed
            /\ Listening(inner')
            /\ r = Pending
            /\ ~st.changed
  <2>1. Follow(Return([st EXCEPT !.inner = ~Over(r), !.old = IF IsSome(r) THEN <<st.old[1], r.value>> ELSE st.old], Pending))
    BY <1>1, <1>3, <1>5, <1>16, <1>6, <1>7, Answers3, AnswerBooleans DEF MapRefRight, MapRefResult, Structs
  <2>2. /\ st' = [[st EXCEPT !.inner = ~Over(r), !.old = IF IsSome(r) THEN <<st.old[1], r.value>> ELSE st.old] EXCEPT !.done = FALSE, !.changed = FALSE]
        /\ pc' = "idle" /\ out' = out
    BY <1>2, <2>1, FollowReturn, FirstPolls, Answers3
  <2>3. /\ st' \in Structs /\ st'.inner = TRUE /\ st'.signal = st.signal
        /\ st'.first = st.first /\ st'.old = st.old
        /\ st'.done = FALSE /\ st'.changed = FALSE
    BY <1>5, <2>2, <1>16, <1>6, <1>7, Answers3, AnswerBooleans DEF Structs
  <2>4. out' \in Outputs BY <1>3, <1>5, <2>2, <1>16, <1>6, <1>7 DEF Structs
  <2>5. Typed'
    <3>1. st'.inner => st.inner \/ inner'.value \in Values BY <1>2, <1>3, <1>4, <1>5, <2>3, <1>16, <1>6, <1>7, Answers3 DEF MapRefInv, Inputs
    <3> QED BY <1>3, <2>2, <2>3, <2>4, <3>1, PollTyped
  <2>6. MapRefInv' BY <1>1, <1>2, <1>3, <1>4, <1>5, <1>16, <1>6, <1>7, <2>2, <2>3, Answers3 DEF MapRefInv, Asleep, Finished, Listening, Inputs, Structs
  <2> QED BY <1>2, <2>5, <2>6 DEF IInv, Singles, Plain
<1> QED BY <1>2, <1>3, <1>4, <1>5, <1>8, <1>9, <1>10, <1>11, <1>12, <1>13, <1>14, <1>15, <1>16, <1>6, <1>7 DEF MapRefInv, Finished, Structs

\* A poll of the outer input of flatten.
LEMMA PollFlattenOuter ==
    ASSUME IInv, PollOuter, kind = "flatten"
    PROVE  IInv'
<1>1. PICK r : /\ Answered(outer, outer', st.signal, r, outer.value)
               /\ outer' \in Inputs
               /\ Follow(FlattenParent(st, r))
               /\ r = Answer(outer, st.signal)
  BY OuterAnswered, OuterTurns DEF IInv
<1>2. /\ kind' = kind /\ woken' = woken /\ pc = "outer"
      /\ IF IsSome(r) THEN inner' \in NewInner(r.value) ELSE inner' = inner
  BY <1>1 DEF PollOuter, Timed
<1>3. Typed /\ FlattenInv BY DEF IInv
<1>4. /\ outer \in Inputs /\ outer'.value = outer.value
      /\ outer'.closed = outer.closed /\ outer'.of = outer.of
      /\ \/ st.signal /\ outer.fresh /\ ~outer'.fresh /\ outer'.waker = outer.waker /\ r = Some(outer.value)
         \/ ~st.signal /\ r = Gone /\ outer' = outer
         \/ st.signal /\ r = None /\ outer' = outer /\ Finished(outer)
         \/ st.signal /\ ~outer.fresh /\ ~outer.closed /\ Listening(outer') /\ r = Pending
  BY <1>1, <1>3, AnsweredFields DEF Typed, Structs
<1>5. /\ st \in Structs /\ out \in Outputs
      /\ outer \in Inputs /\ inner \in Inputs
      /\ outer.value \in Values
      /\ inner.fresh => inner.value \in Values
      /\ inner.of \in Values \cup {NoValue} /\ inner.value \in Values \cup {NoValue}
      /\ \A v, w \in Values \cup {NoValue} : <<v, w>> \in Outputs
      /\ NoValue \in Outputs /\ NoValue \notin Values
  BY <1>3, OutputsAre, ValuesAssumption DEF Typed, Inputs, Answers, Timed
<1>6. IsSome(r) =>
          /\ inner' \in Inputs /\ inner'.of = outer.value
          /\ inner'.value \in Values
          /\ kind = "flatten" => inner'.fresh
          /\ kind # "flatten" => inner'.value = outer.value /\ ~inner'.closed
  BY <1>2, <1>4, <1>5, NewInners, Answers3
<1>7. CASE /\ st.signal
           /\ outer.fresh
           /\ ~outer'.fresh
           /\ outer'.waker = outer.waker
           /\ r = Some(outer.value)
  <2>1. Follow(Go([st EXCEPT !.signal = ~Over(r), !.inner = @ \/ IsSome(r), !.done = Over(r)], "inner"))
    BY <1>1, <1>7, Answers3 DEF FlattenParent
  <2>2. /\ st' = [st EXCEPT !.signal = ~Over(r), !.inner = @ \/ IsSome(r), !.done = Over(r)]
        /\ pc' = "inner" /\ out' = out
    BY <1>2, <2>1, FollowGo, FirstPolls, Answers3
  <2>3. /\ st' \in Structs /\ st'.inner = TRUE /\ st'.signal = TRUE
        /\ st'.first = st.first /\ st'.old = st.old
        /\ st'.done = FALSE /\ st'.changed = st.changed
    BY <1>5, <2>2, <1>7, <1>6, Answers3, AnswerBooleans DEF Structs
  <2>4. out' \in Outputs BY <1>3, <1>5, <2>2, <1>7, <1>6 DEF Structs
  <2>5. Typed'
    <3>1. st'.inner => st.inner \/ inner'.value \in Values BY <1>2, <1>3, <1>4, <1>5, <2>3, <1>7, <1>6, Answers3 DEF FlattenInv, Inputs
    <3> QED BY <1>3, <2>2, <2>3, <2>4, <3>1, PollTyped
  <2>7. IsSome(r) BY <1>7, Answers3
  <2>6. FlattenInv' BY <1>1, <1>2, <1>3, <1>4, <1>5, <1>7, <1>6, <2>2, <2>3, <2>7 DEF FlattenInv, Asleep, Finished
  <2> QED BY <1>2, <2>5, <2>6 DEF IInv, Singles, Plain
<1>8. CASE /\ ~st.signal
           /\ r = Gone
           /\ outer' = outer
  <2>1. Follow(Go([st EXCEPT !.signal = ~Over(r), !.inner = @ \/ IsSome(r), !.done = Over(r)], "inner"))
    BY <1>1, <1>8, Answers3 DEF FlattenParent
  <2>2. /\ st' = [st EXCEPT !.signal = ~Over(r), !.inner = @ \/ IsSome(r), !.done = Over(r)]
        /\ pc' = "inner" /\ out' = out
    BY <1>2, <2>1, FollowGo, FirstPolls, Answers3
  <2>3. /\ st' \in Structs /\ st'.inner = st.inner /\ st'.signal = FALSE
        /\ st'.first = st.first /\ st'.old = st.old
        /\ st'.done = TRUE /\ st'.changed = st.changed
    BY <1>5, <2>2, <1>8, <1>6, Answers3, AnswerBooleans DEF Structs
  <2>4. out' \in Outputs BY <1>3, <1>5, <2>2, <1>8, <1>6 DEF Structs
  <2>5. Typed'
    <3>1. st'.inner => st.inner \/ inner'.value \in Values BY <1>2, <1>3, <1>4, <1>5, <2>3, <1>8, <1>6, Answers3 DEF FlattenInv, Inputs
    <3> QED BY <1>3, <2>2, <2>3, <2>4, <3>1, PollTyped
  <2>6. FlattenInv' BY <1>1, <1>2, <1>3, <1>4, <1>5, <1>8, <1>6, <2>2, <2>3, Answers3 DEF FlattenInv, Asleep, Finished, Listening, Inputs, Structs
  <2> QED BY <1>2, <2>5, <2>6 DEF IInv, Singles, Plain
<1>9. CASE /\ st.signal
           /\ r = None
           /\ outer' = outer
           /\ Finished(outer)
  <2>1. Follow(Go([st EXCEPT !.signal = ~Over(r), !.inner = @ \/ IsSome(r), !.done = Over(r)], "inner"))
    BY <1>1, <1>9, Answers3 DEF FlattenParent
  <2>2. /\ st' = [st EXCEPT !.signal = ~Over(r), !.inner = @ \/ IsSome(r), !.done = Over(r)]
        /\ pc' = "inner" /\ out' = out
    BY <1>2, <2>1, FollowGo, FirstPolls, Answers3
  <2>3. /\ st' \in Structs /\ st'.inner = st.inner /\ st'.signal = FALSE
        /\ st'.first = st.first /\ st'.old = st.old
        /\ st'.done = TRUE /\ st'.changed = st.changed
    BY <1>5, <2>2, <1>9, <1>6, Answers3, AnswerBooleans DEF Structs
  <2>4. out' \in Outputs BY <1>3, <1>5, <2>2, <1>9, <1>6 DEF Structs
  <2>5. Typed'
    <3>1. st'.inner => st.inner \/ inner'.value \in Values BY <1>2, <1>3, <1>4, <1>5, <2>3, <1>9, <1>6, Answers3 DEF FlattenInv, Inputs
    <3> QED BY <1>3, <2>2, <2>3, <2>4, <3>1, PollTyped
  <2>6. FlattenInv' BY <1>1, <1>2, <1>3, <1>4, <1>5, <1>9, <1>6, <2>2, <2>3, Answers3, ZenonT(60) DEF FlattenInv, Asleep, Finished, Listening, Inputs, Structs
  <2> QED BY <1>2, <2>5, <2>6 DEF IInv, Singles, Plain
<1>10. CASE /\ st.signal
            /\ ~outer.fresh
            /\ ~outer.closed
            /\ Listening(outer')
            /\ r = Pending
  <2>1. Follow(Go([st EXCEPT !.signal = ~Over(r), !.inner = @ \/ IsSome(r), !.done = Over(r)], "inner"))
    BY <1>1, <1>10, Answers3 DEF FlattenParent
  <2>2. /\ st' = [st EXCEPT !.signal = ~Over(r), !.inner = @ \/ IsSome(r), !.done = Over(r)]
        /\ pc' = "inner" /\ out' = out
    BY <1>2, <2>1, FollowGo, FirstPolls, Answers3
  <2>3. /\ st' \in Structs /\ st'.inner = st.inner /\ st'.signal = TRUE
        /\ st'.first = st.first /\ st'.old = st.old
        /\ st'.done = FALSE /\ st'.changed = st.changed
    BY <1>5, <2>2, <1>10, <1>6, Answers3, AnswerBooleans DEF Structs
  <2>4. out' \in Outputs BY <1>3, <1>5, <2>2, <1>10, <1>6 DEF Structs
  <2>5. Typed'
    <3>1. st'.inner => st.inner \/ inner'.value \in Values BY <1>2, <1>3, <1>4, <1>5, <2>3, <1>10, <1>6, Answers3 DEF FlattenInv, Inputs
    <3> QED BY <1>3, <2>2, <2>3, <2>4, <3>1, PollTyped
  <2>6. FlattenInv' BY <1>1, <1>2, <1>3, <1>4, <1>5, <1>10, <1>6, <2>2, <2>3, Answers3, ZenonT(60) DEF FlattenInv, Asleep, Finished, Listening, Inputs, Structs
  <2> QED BY <1>2, <2>5, <2>6 DEF IInv, Singles, Plain
<1> QED BY <1>2, <1>3, <1>4, <1>5, <1>7, <1>8, <1>9, <1>10, <1>6 DEF FlattenInv, Finished, Structs

\* A poll of the inner input of flatten.
LEMMA PollFlattenInner ==
    ASSUME IInv, PollInner, kind = "flatten"
    PROVE  IInv'
<1>1. PICK r : /\ Answered(inner, inner', st.inner, r, InnerAnswer)
               /\ inner' \in Inputs
               /\ Follow(FlattenInner(st, r))
               /\ r = Answer(inner, st.inner)
  BY InnerAnswered, InnerTurns DEF IInv
<1>2. /\ kind' = kind /\ woken' = woken /\ pc = "inner"
      /\ outer' = outer
  BY <1>1 DEF PollInner, Timed
<1>3. Typed /\ FlattenInv BY DEF IInv
<1>4. /\ inner \in Inputs /\ inner'.value = inner.value
      /\ inner'.closed = inner.closed /\ inner'.of = inner.of
      /\ \/ st.inner /\ inner.fresh /\ ~inner'.fresh /\ inner'.waker = inner.waker /\ r = Some(InnerAnswer)
         \/ ~st.inner /\ r = Gone /\ inner' = inner
         \/ st.inner /\ r = None /\ inner' = inner /\ Finished(inner)
         \/ st.inner /\ ~inner.fresh /\ ~inner.closed /\ Listening(inner') /\ r = Pending
  BY <1>1, <1>3, AnsweredFields DEF Typed, Structs
<1>5. /\ st \in Structs /\ out \in Outputs
      /\ outer \in Inputs /\ inner \in Inputs
      /\ outer.value \in Values
      /\ inner.fresh => inner.value \in Values
      /\ inner.of \in Values \cup {NoValue} /\ inner.value \in Values \cup {NoValue}
      /\ \A v, w \in Values \cup {NoValue} : <<v, w>> \in Outputs
      /\ NoValue \in Outputs /\ NoValue \notin Values
  BY <1>3, OutputsAre, ValuesAssumption DEF Typed, Inputs, Answers, Timed
<1>6. InnerAnswer = <<inner.of, inner.value>> BY DEF InnerAnswer
<1>7. CASE /\ st.inner
           /\ inner.fresh
           /\ ~inner'.fresh
           /\ inner'.waker = inner.waker
           /\ r = Some(InnerAnswer)
  <2>1. Follow(Return(st, Some(<<inner.of, inner.value>>)))
    BY <1>1, <1>3, <1>5, <1>7, <1>6, Answers3, AnswerBooleans DEF FlattenInner, Structs
  <2>2. /\ st' = [st EXCEPT !.done = FALSE, !.changed = FALSE]
        /\ pc' = "outer" /\ out' = <<inner.of, inner.value>>
    BY <1>2, <2>1, FollowReturn, FirstPolls, Answers3
  <2>3. /\ st' \in Structs /\ st'.inner = st.inner /\ st'.signal = st.signal
        /\ st'.first = st.first /\ st'.old = st.old
        /\ st'.done = FALSE /\ st'.changed = FALSE
    BY <1>5, <2>2, <1>7, <1>6, Answers3, AnswerBooleans DEF Structs
  <2>4. out' \in Outputs BY <1>3, <1>5, <2>2, <1>7, <1>6 DEF Structs
  <2>5. Typed'
    <3>1. st'.inner => st.inner \/ inner'.value \in Values BY <1>2, <1>3, <1>4, <1>5, <2>3, <1>7, <1>6, Answers3 DEF FlattenInv, Inputs
    <3> QED BY <1>3, <2>2, <2>3, <2>4, <3>1, PollTyped
  <2>6. FlattenInv' BY <1>1, <1>2, <1>3, <1>4, <1>5, <1>7, <1>6, <2>2, <2>3, Answers3 DEF FlattenInv, Asleep, Finished, Listening, Inputs, Structs
  <2> QED BY <1>2, <2>5, <2>6 DEF IInv, Singles, Plain
<1>8. CASE /\ ~st.inner
           /\ r = Gone
           /\ inner' = inner
           /\ st.done
  <2>1. Follow(Return([st EXCEPT !.inner = FALSE], None))
    BY <1>1, <1>3, <1>5, <1>8, <1>6, Answers3, AnswerBooleans DEF FlattenInner, Structs
  <2>2. /\ st' = [[st EXCEPT !.inner = FALSE] EXCEPT !.done = FALSE, !.changed = FALSE]
        /\ pc' = "done" /\ out' = out
    BY <1>2, <2>1, FollowReturn, FirstPolls, Answers3
  <2>3. /\ st' \in Structs /\ st'.inner = FALSE /\ st'.signal = st.signal
        /\ st'.first = st.first /\ st'.old = st.old
        /\ st'.done = FALSE /\ st'.changed = FALSE
    BY <1>5, <2>2, <1>8, <1>6, Answers3, AnswerBooleans DEF Structs
  <2>4. out' \in Outputs BY <1>3, <1>5, <2>2, <1>8, <1>6 DEF Structs
  <2>5. Typed'
    <3>1. st'.inner => st.inner \/ inner'.value \in Values BY <1>2, <1>3, <1>4, <1>5, <2>3, <1>8, <1>6, Answers3 DEF FlattenInv, Inputs
    <3> QED BY <1>3, <2>2, <2>3, <2>4, <3>1, PollTyped
  <2>6. FlattenInv' BY <1>1, <1>2, <1>3, <1>4, <1>5, <1>8, <1>6, <2>2, <2>3, Answers3 DEF FlattenInv, Asleep, Finished, Listening, Inputs, Structs
  <2> QED BY <1>2, <2>5, <2>6 DEF IInv, Singles, Plain
<1>9. CASE /\ ~st.inner
           /\ r = Gone
           /\ inner' = inner
           /\ ~st.done
  <2>1. Follow(Return([st EXCEPT !.inner = FALSE], Pending))
    BY <1>1, <1>3, <1>5, <1>9, <1>6, Answers3, AnswerBooleans DEF FlattenInner, Structs
  <2>2. /\ st' = [[st EXCEPT !.inner = FALSE] EXCEPT !.done = FALSE, !.changed = FALSE]
        /\ pc' = "idle" /\ out' = out
    BY <1>2, <2>1, FollowReturn, FirstPolls, Answers3
  <2>3. /\ st' \in Structs /\ st'.inner = FALSE /\ st'.signal = st.signal
        /\ st'.first = st.first /\ st'.old = st.old
        /\ st'.done = FALSE /\ st'.changed = FALSE
    BY <1>5, <2>2, <1>9, <1>6, Answers3, AnswerBooleans DEF Structs
  <2>4. out' \in Outputs BY <1>3, <1>5, <2>2, <1>9, <1>6 DEF Structs
  <2>5. Typed'
    <3>1. st'.inner => st.inner \/ inner'.value \in Values BY <1>2, <1>3, <1>4, <1>5, <2>3, <1>9, <1>6, Answers3 DEF FlattenInv, Inputs
    <3> QED BY <1>3, <2>2, <2>3, <2>4, <3>1, PollTyped
  <2>6. FlattenInv' BY <1>1, <1>2, <1>3, <1>4, <1>5, <1>9, <1>6, <2>2, <2>3, Answers3 DEF FlattenInv, Asleep, Finished, Listening, Inputs, Structs
  <2> QED BY <1>2, <2>5, <2>6 DEF IInv, Singles, Plain
<1>10. CASE /\ st.inner
            /\ r = None
            /\ inner' = inner
            /\ Finished(inner)
            /\ st.done
  <2>1. Follow(Return([st EXCEPT !.inner = FALSE], None))
    BY <1>1, <1>3, <1>5, <1>10, <1>6, Answers3, AnswerBooleans DEF FlattenInner, Structs
  <2>2. /\ st' = [[st EXCEPT !.inner = FALSE] EXCEPT !.done = FALSE, !.changed = FALSE]
        /\ pc' = "done" /\ out' = out
    BY <1>2, <2>1, FollowReturn, FirstPolls, Answers3
  <2>3. /\ st' \in Structs /\ st'.inner = FALSE /\ st'.signal = st.signal
        /\ st'.first = st.first /\ st'.old = st.old
        /\ st'.done = FALSE /\ st'.changed = FALSE
    BY <1>5, <2>2, <1>10, <1>6, Answers3, AnswerBooleans DEF Structs
  <2>4. out' \in Outputs BY <1>3, <1>5, <2>2, <1>10, <1>6 DEF Structs
  <2>5. Typed'
    <3>1. st'.inner => st.inner \/ inner'.value \in Values BY <1>2, <1>3, <1>4, <1>5, <2>3, <1>10, <1>6, Answers3 DEF FlattenInv, Inputs
    <3> QED BY <1>3, <2>2, <2>3, <2>4, <3>1, PollTyped
  <2>6. FlattenInv' BY <1>1, <1>2, <1>3, <1>4, <1>5, <1>10, <1>6, <2>2, <2>3, Answers3 DEF FlattenInv, Asleep, Finished, Listening, Inputs, Structs
  <2> QED BY <1>2, <2>5, <2>6 DEF IInv, Singles, Plain
<1>11. CASE /\ st.inner
            /\ r = None
            /\ inner' = inner
            /\ Finished(inner)
            /\ ~st.done
  <2>1. Follow(Return([st EXCEPT !.inner = FALSE], Pending))
    BY <1>1, <1>3, <1>5, <1>11, <1>6, Answers3, AnswerBooleans DEF FlattenInner, Structs
  <2>2. /\ st' = [[st EXCEPT !.inner = FALSE] EXCEPT !.done = FALSE, !.changed = FALSE]
        /\ pc' = "idle" /\ out' = out
    BY <1>2, <2>1, FollowReturn, FirstPolls, Answers3
  <2>3. /\ st' \in Structs /\ st'.inner = FALSE /\ st'.signal = st.signal
        /\ st'.first = st.first /\ st'.old = st.old
        /\ st'.done = FALSE /\ st'.changed = FALSE
    BY <1>5, <2>2, <1>11, <1>6, Answers3, AnswerBooleans DEF Structs
  <2>4. out' \in Outputs BY <1>3, <1>5, <2>2, <1>11, <1>6 DEF Structs
  <2>5. Typed'
    <3>1. st'.inner => st.inner \/ inner'.value \in Values BY <1>2, <1>3, <1>4, <1>5, <2>3, <1>11, <1>6, Answers3 DEF FlattenInv, Inputs
    <3> QED BY <1>3, <2>2, <2>3, <2>4, <3>1, PollTyped
  <2>6. FlattenInv' BY <1>1, <1>2, <1>3, <1>4, <1>5, <1>11, <1>6, <2>2, <2>3, Answers3 DEF FlattenInv, Asleep, Finished, Listening, Inputs, Structs
  <2> QED BY <1>2, <2>5, <2>6 DEF IInv, Singles, Plain
<1>12. CASE /\ st.inner
            /\ ~inner.fresh
            /\ ~inner.closed
            /\ Listening(inner')
            /\ r = Pending
  <2>1. Follow(Return(st, Pending))
    BY <1>1, <1>3, <1>5, <1>12, <1>6, Answers3, AnswerBooleans DEF FlattenInner, Structs
  <2>2. /\ st' = [st EXCEPT !.done = FALSE, !.changed = FALSE]
        /\ pc' = "idle" /\ out' = out
    BY <1>2, <2>1, FollowReturn, FirstPolls, Answers3
  <2>3. /\ st' \in Structs /\ st'.inner = st.inner /\ st'.signal = st.signal
        /\ st'.first = st.first /\ st'.old = st.old
        /\ st'.done = FALSE /\ st'.changed = FALSE
    BY <1>5, <2>2, <1>12, <1>6, Answers3, AnswerBooleans DEF Structs
  <2>4. out' \in Outputs BY <1>3, <1>5, <2>2, <1>12, <1>6 DEF Structs
  <2>5. Typed'
    <3>1. st'.inner => st.inner \/ inner'.value \in Values BY <1>2, <1>3, <1>4, <1>5, <2>3, <1>12, <1>6, Answers3 DEF FlattenInv, Inputs
    <3> QED BY <1>3, <2>2, <2>3, <2>4, <3>1, PollTyped
  <2>6. FlattenInv' BY <1>1, <1>2, <1>3, <1>4, <1>5, <1>12, <1>6, <2>2, <2>3, Answers3 DEF FlattenInv, Asleep, Finished, Listening, Inputs, Structs
  <2> QED BY <1>2, <2>5, <2>6 DEF IInv, Singles, Plain
<1> QED BY <1>2, <1>3, <1>4, <1>5, <1>7, <1>8, <1>9, <1>10, <1>11, <1>12, <1>6 DEF FlattenInv, Finished, Structs

\* A poll of the outer input of map_future.
LEMMA PollMapFutureOuter ==
    ASSUME IInv, PollOuter, kind = "map_future"
    PROVE  IInv'
<1>1. PICK r : /\ Answered(outer, outer', st.signal, r, outer.value)
               /\ outer' \in Inputs
               /\ Follow(MapFutureSignal(st, r))
               /\ r = Answer(outer, st.signal)
  BY OuterAnswered, OuterTurns DEF IInv
<1>2. /\ kind' = kind /\ woken' = woken /\ pc = "outer"
      /\ IF IsSome(r) THEN inner' \in NewInner(r.value) ELSE inner' = inner
  BY <1>1 DEF PollOuter, Timed
<1>3. Typed /\ MapFutureInv BY DEF IInv
<1>4. /\ outer \in Inputs /\ outer'.value = outer.value
      /\ outer'.closed = outer.closed /\ outer'.of = outer.of
      /\ \/ st.signal /\ outer.fresh /\ ~outer'.fresh /\ outer'.waker = outer.waker /\ r = Some(outer.value)
         \/ ~st.signal /\ r = Gone /\ outer' = outer
         \/ st.signal /\ r = None /\ outer' = outer /\ Finished(outer)
         \/ st.signal /\ ~outer.fresh /\ ~outer.closed /\ Listening(outer') /\ r = Pending
  BY <1>1, <1>3, AnsweredFields DEF Typed, Structs
<1>5. /\ st \in Structs /\ out \in Outputs
      /\ outer \in Inputs /\ inner \in Inputs
      /\ outer.value \in Values
      /\ inner.fresh \/ st.inner => inner.value \in Values
      /\ inner.of \in Values \cup {NoValue} /\ inner.value \in Values \cup {NoValue}
      /\ \A v \in Values \cup {NoValue} : v \in Outputs
      /\ NoValue \in Outputs /\ NoValue \notin Values
  BY <1>3, OutputsAre, ValuesAssumption DEF Typed, Inputs, Answers, Timed
<1>6. IsSome(r) =>
          /\ inner' \in Inputs /\ inner'.of = outer.value
          /\ inner'.value \in Values
          /\ kind = "flatten" => inner'.fresh
          /\ kind # "flatten" => inner'.value = outer.value /\ ~inner'.closed
  BY <1>2, <1>4, <1>5, NewInners, Answers3
<1>7. CASE /\ st.signal
           /\ outer.fresh
           /\ ~outer'.fresh
           /\ outer'.waker = outer.waker
           /\ r = Some(outer.value)
  <2>1. Follow(Go([st EXCEPT !.inner = TRUE], "outer"))
    BY <1>1, <1>3, <1>5, <1>7, <1>6, Answers3, AnswerBooleans DEF MapFutureSignal, Structs
  <2>2. /\ st' = [st EXCEPT !.inner = TRUE]
        /\ pc' = "outer" /\ out' = out
    BY <1>2, <2>1, FollowGo, FirstPolls, Answers3
  <2>3. /\ st' \in Structs /\ st'.inner = TRUE /\ st'.signal = st.signal
        /\ st'.first = st.first /\ st'.old = st.old
        /\ st'.done = st.done /\ st'.changed = st.changed
    BY <1>5, <2>2, <1>7, <1>6, Answers3, AnswerBooleans DEF Structs
  <2>4. out' \in Outputs BY <1>3, <1>5, <2>2, <1>7, <1>6 DEF Structs
  <2>5. Typed'
    <3>1. st'.inner => st.inner \/ inner'.value \in Values BY <1>2, <1>3, <1>4, <1>5, <2>3, <1>7, <1>6, Answers3 DEF MapFutureInv, Inputs
    <3> QED BY <1>3, <2>2, <2>3, <2>4, <3>1, PollTyped
  <2>7. IsSome(r) BY <1>7, Answers3
  <2>6. MapFutureInv' BY <1>1, <1>2, <1>3, <1>4, <1>5, <1>7, <1>6, <2>2, <2>3, <2>7 DEF MapFutureInv, Asleep, Finished
  <2> QED BY <1>2, <2>5, <2>6 DEF IInv, Singles, Plain
<1>8. CASE /\ ~st.signal
           /\ r = Gone
           /\ outer' = outer
  <2>1. Follow(Go([st EXCEPT !.signal = FALSE, !.done = TRUE], "inner"))
    BY <1>1, <1>3, <1>5, <1>8, <1>6, Answers3, AnswerBooleans DEF MapFutureSignal, Structs
  <2>2. /\ st' = [st EXCEPT !.signal = FALSE, !.done = TRUE]
        /\ pc' = "inner" /\ out' = out
    BY <1>2, <2>1, FollowGo, FirstPolls, Answers3
  <2>3. /\ st' \in Structs /\ st'.inner = st.inner /\ st'.signal = FALSE
        /\ st'.first = st.first /\ st'.old = st.old
        /\ st'.done = TRUE /\ st'.changed = st.changed
    BY <1>5, <2>2, <1>8, <1>6, Answers3, AnswerBooleans DEF Structs
  <2>4. out' \in Outputs BY <1>3, <1>5, <2>2, <1>8, <1>6 DEF Structs
  <2>5. Typed'
    <3>1. st'.inner => st.inner \/ inner'.value \in Values BY <1>2, <1>3, <1>4, <1>5, <2>3, <1>8, <1>6, Answers3 DEF MapFutureInv, Inputs
    <3> QED BY <1>3, <2>2, <2>3, <2>4, <3>1, PollTyped
  <2>6. MapFutureInv' BY <1>1, <1>2, <1>3, <1>4, <1>5, <1>8, <1>6, <2>2, <2>3, Answers3 DEF MapFutureInv, Asleep, Finished, Listening, Inputs, Structs
  <2> QED BY <1>2, <2>5, <2>6 DEF IInv, Singles, Plain
<1>9. CASE /\ st.signal
           /\ r = None
           /\ outer' = outer
           /\ Finished(outer)
  <2>1. Follow(Go([st EXCEPT !.signal = FALSE, !.done = TRUE], "inner"))
    BY <1>1, <1>3, <1>5, <1>9, <1>6, Answers3, AnswerBooleans DEF MapFutureSignal, Structs
  <2>2. /\ st' = [st EXCEPT !.signal = FALSE, !.done = TRUE]
        /\ pc' = "inner" /\ out' = out
    BY <1>2, <2>1, FollowGo, FirstPolls, Answers3
  <2>3. /\ st' \in Structs /\ st'.inner = st.inner /\ st'.signal = FALSE
        /\ st'.first = st.first /\ st'.old = st.old
        /\ st'.done = TRUE /\ st'.changed = st.changed
    BY <1>5, <2>2, <1>9, <1>6, Answers3, AnswerBooleans DEF Structs
  <2>4. out' \in Outputs BY <1>3, <1>5, <2>2, <1>9, <1>6 DEF Structs
  <2>5. Typed'
    <3>1. st'.inner => st.inner \/ inner'.value \in Values BY <1>2, <1>3, <1>4, <1>5, <2>3, <1>9, <1>6, Answers3 DEF MapFutureInv, Inputs
    <3> QED BY <1>3, <2>2, <2>3, <2>4, <3>1, PollTyped
  <2>6. MapFutureInv' BY <1>1, <1>2, <1>3, <1>4, <1>5, <1>9, <1>6, <2>2, <2>3, Answers3 DEF MapFutureInv, Asleep, Finished, Listening, Inputs, Structs
  <2> QED BY <1>2, <2>5, <2>6 DEF IInv, Singles, Plain
<1>10. CASE /\ st.signal
            /\ ~outer.fresh
            /\ ~outer.closed
            /\ Listening(outer')
            /\ r = Pending
  <2>1. Follow(Go([st EXCEPT !.signal = TRUE, !.done = FALSE], "inner"))
    BY <1>1, <1>3, <1>5, <1>10, <1>6, Answers3, AnswerBooleans DEF MapFutureSignal, Structs
  <2>2. /\ st' = [st EXCEPT !.signal = TRUE, !.done = FALSE]
        /\ pc' = "inner" /\ out' = out
    BY <1>2, <2>1, FollowGo, FirstPolls, Answers3
  <2>3. /\ st' \in Structs /\ st'.inner = st.inner /\ st'.signal = TRUE
        /\ st'.first = st.first /\ st'.old = st.old
        /\ st'.done = FALSE /\ st'.changed = st.changed
    BY <1>5, <2>2, <1>10, <1>6, Answers3, AnswerBooleans DEF Structs
  <2>4. out' \in Outputs BY <1>3, <1>5, <2>2, <1>10, <1>6 DEF Structs
  <2>5. Typed'
    <3>1. st'.inner => st.inner \/ inner'.value \in Values BY <1>2, <1>3, <1>4, <1>5, <2>3, <1>10, <1>6, Answers3 DEF MapFutureInv, Inputs
    <3> QED BY <1>3, <2>2, <2>3, <2>4, <3>1, PollTyped
  <2>6. MapFutureInv' BY <1>1, <1>2, <1>3, <1>4, <1>5, <1>10, <1>6, <2>2, <2>3, Answers3 DEF MapFutureInv, Asleep, Finished, Listening, Inputs, Structs
  <2> QED BY <1>2, <2>5, <2>6 DEF IInv, Singles, Plain
<1> QED BY <1>2, <1>3, <1>4, <1>5, <1>7, <1>8, <1>9, <1>10, <1>6 DEF MapFutureInv, Finished, Structs

\* A poll of the inner input of map_future.
LEMMA PollMapFutureInner ==
    ASSUME IInv, PollInner, kind = "map_future"
    PROVE  IInv'
<1>1. PICK r : /\ Answered(inner, inner', st.inner, r, InnerAnswer)
               /\ inner' \in Inputs
               /\ Follow(MapFutureFuture(st, r))
               /\ r = Answer(inner, st.inner)
  BY InnerAnswered, InnerTurns DEF IInv
<1>2. /\ kind' = kind /\ woken' = woken /\ pc = "inner"
      /\ outer' = outer
  BY <1>1 DEF PollInner, Timed
<1>3. Typed /\ MapFutureInv BY DEF IInv
<1>4. /\ inner \in Inputs /\ inner'.value = inner.value
      /\ inner'.closed = inner.closed /\ inner'.of = inner.of
      /\ \/ st.inner /\ inner.fresh /\ ~inner'.fresh /\ inner'.waker = inner.waker /\ r = Some(InnerAnswer)
         \/ ~st.inner /\ r = Gone /\ inner' = inner
         \/ st.inner /\ r = None /\ inner' = inner /\ Finished(inner)
         \/ st.inner /\ ~inner.fresh /\ ~inner.closed /\ Listening(inner') /\ r = Pending
  BY <1>1, <1>3, AnsweredFields DEF Typed, Structs
<1>5. /\ st \in Structs /\ out \in Outputs
      /\ outer \in Inputs /\ inner \in Inputs
      /\ outer.value \in Values
      /\ inner.fresh \/ st.inner => inner.value \in Values
      /\ inner.of \in Values \cup {NoValue} /\ inner.value \in Values \cup {NoValue}
      /\ \A v \in Values \cup {NoValue} : v \in Outputs
      /\ NoValue \in Outputs /\ NoValue \notin Values
  BY <1>3, OutputsAre, ValuesAssumption DEF Typed, Inputs, Answers, Timed
<1>6. InnerAnswer = inner.value BY DEF InnerAnswer
<1>7. CASE /\ st.inner
           /\ inner.fresh
           /\ ~inner'.fresh
           /\ inner'.waker = inner.waker
           /\ r = Some(InnerAnswer)
  <2>1. Follow(Return([st EXCEPT !.inner = FALSE, !.first = FALSE], Some(inner.value)))
    BY <1>1, <1>3, <1>5, <1>7, <1>6, Answers3, AnswerBooleans DEF MapFutureFuture, Structs
  <2>2. /\ st' = [[st EXCEPT !.inner = FALSE, !.first = FALSE] EXCEPT !.done = FALSE, !.changed = FALSE]
        /\ pc' = "outer" /\ out' = inner.value
    BY <1>2, <2>1, FollowReturn, FirstPolls, Answers3
  <2>3. /\ st' \in Structs /\ st'.inner = FALSE /\ st'.signal = st.signal
        /\ st'.first = FALSE /\ st'.old = st.old
        /\ st'.done = FALSE /\ st'.changed = FALSE
    BY <1>5, <2>2, <1>7, <1>6, Answers3, AnswerBooleans DEF Structs
  <2>4. out' \in Outputs BY <1>3, <1>5, <2>2, <1>7, <1>6 DEF Structs
  <2>5. Typed'
    <3>1. st'.inner => st.inner \/ inner'.value \in Values BY <1>2, <1>3, <1>4, <1>5, <2>3, <1>7, <1>6, Answers3 DEF MapFutureInv, Inputs
    <3> QED BY <1>3, <2>2, <2>3, <2>4, <3>1, PollTyped
  <2>6. MapFutureInv' BY <1>1, <1>2, <1>3, <1>4, <1>5, <1>7, <1>6, <2>2, <2>3, Answers3 DEF MapFutureInv, Asleep, Finished, Listening, Inputs, Structs
  <2> QED BY <1>2, <2>5, <2>6 DEF IInv, Singles, Plain
<1>8. CASE /\ ~st.inner
           /\ r = Gone
           /\ inner' = inner
           /\ st.first
  <2>1. Follow(Return([st EXCEPT !.inner = FALSE, !.first = FALSE], Some(NoValue)))
    BY <1>1, <1>3, <1>5, <1>8, <1>6, Answers3, AnswerBooleans DEF MapFutureFuture, Structs
  <2>2. /\ st' = [[st EXCEPT !.inner = FALSE, !.first = FALSE] EXCEPT !.done = FALSE, !.changed = FALSE]
        /\ pc' = "outer" /\ out' = NoValue
    BY <1>2, <2>1, FollowReturn, FirstPolls, Answers3
  <2>3. /\ st' \in Structs /\ st'.inner = FALSE /\ st'.signal = st.signal
        /\ st'.first = FALSE /\ st'.old = st.old
        /\ st'.done = FALSE /\ st'.changed = FALSE
    BY <1>5, <2>2, <1>8, <1>6, Answers3, AnswerBooleans DEF Structs
  <2>4. out' \in Outputs BY <1>3, <1>5, <2>2, <1>8, <1>6 DEF Structs
  <2>5. Typed'
    <3>1. st'.inner => st.inner \/ inner'.value \in Values BY <1>2, <1>3, <1>4, <1>5, <2>3, <1>8, <1>6, Answers3 DEF MapFutureInv, Inputs
    <3> QED BY <1>3, <2>2, <2>3, <2>4, <3>1, PollTyped
  <2>6. MapFutureInv' BY <1>1, <1>2, <1>3, <1>4, <1>5, <1>8, <1>6, <2>2, <2>3, Answers3 DEF MapFutureInv, Asleep, Finished, Listening, Inputs, Structs
  <2> QED BY <1>2, <2>5, <2>6 DEF IInv, Singles, Plain
<1>9. CASE /\ st.inner
           /\ ~inner.fresh
           /\ ~inner.closed
           /\ Listening(inner')
           /\ r = Pending
           /\ st.first
  <2>1. Follow(Return([st EXCEPT !.inner = TRUE, !.first = FALSE], Some(NoValue)))
    BY <1>1, <1>3, <1>5, <1>9, <1>6, Answers3, AnswerBooleans DEF MapFutureFuture, Structs
  <2>2. /\ st' = [[st EXCEPT !.inner = TRUE, !.first = FALSE] EXCEPT !.done = FALSE, !.changed = FALSE]
        /\ pc' = "outer" /\ out' = NoValue
    BY <1>2, <2>1, FollowReturn, FirstPolls, Answers3
  <2>3. /\ st' \in Structs /\ st'.inner = TRUE /\ st'.signal = st.signal
        /\ st'.first = FALSE /\ st'.old = st.old
        /\ st'.done = FALSE /\ st'.changed = FALSE
    BY <1>5, <2>2, <1>9, <1>6, Answers3, AnswerBooleans DEF Structs
  <2>4. out' \in Outputs BY <1>3, <1>5, <2>2, <1>9, <1>6 DEF Structs
  <2>5. Typed'
    <3>1. st'.inner => st.inner \/ inner'.value \in Values BY <1>2, <1>3, <1>4, <1>5, <2>3, <1>9, <1>6, Answers3 DEF MapFutureInv, Inputs
    <3> QED BY <1>3, <2>2, <2>3, <2>4, <3>1, PollTyped
  <2>6. MapFutureInv' BY <1>1, <1>2, <1>3, <1>4, <1>5, <1>9, <1>6, <2>2, <2>3, Answers3 DEF MapFutureInv, Asleep, Finished, Listening, Inputs, Structs
  <2> QED BY <1>2, <2>5, <2>6 DEF IInv, Singles, Plain
<1>10. CASE /\ ~st.inner
            /\ r = Gone
            /\ inner' = inner
            /\ ~st.first
            /\ st.done
  <2>1. Follow(Return([st EXCEPT !.inner = FALSE, !.first = FALSE], None))
    BY <1>1, <1>3, <1>5, <1>10, <1>6, Answers3, AnswerBooleans DEF MapFutureFuture, Structs
  <2>2. /\ st' = [[st EXCEPT !.inner = FALSE, !.first = FALSE] EXCEPT !.done = FALSE, !.changed = FALSE]
        /\ pc' = "done" /\ out' = out
    BY <1>2, <2>1, FollowReturn, FirstPolls, Answers3
  <2>3. /\ st' \in Structs /\ st'.inner = FALSE /\ st'.signal = st.signal
        /\ st'.first = FALSE /\ st'.old = st.old
        /\ st'.done = FALSE /\ st'.changed = FALSE
    BY <1>5, <2>2, <1>10, <1>6, Answers3, AnswerBooleans DEF Structs
  <2>4. out' \in Outputs BY <1>3, <1>5, <2>2, <1>10, <1>6 DEF Structs
  <2>5. Typed'
    <3>1. st'.inner => st.inner \/ inner'.value \in Values BY <1>2, <1>3, <1>4, <1>5, <2>3, <1>10, <1>6, Answers3 DEF MapFutureInv, Inputs
    <3> QED BY <1>3, <2>2, <2>3, <2>4, <3>1, PollTyped
  <2>6. MapFutureInv' BY <1>1, <1>2, <1>3, <1>4, <1>5, <1>10, <1>6, <2>2, <2>3, Answers3 DEF MapFutureInv, Asleep, Finished, Listening, Inputs, Structs
  <2> QED BY <1>2, <2>5, <2>6 DEF IInv, Singles, Plain
<1>11. CASE /\ ~st.inner
            /\ r = Gone
            /\ inner' = inner
            /\ ~st.first
            /\ ~st.done
  <2>1. Follow(Return([st EXCEPT !.inner = FALSE, !.first = FALSE], Pending))
    BY <1>1, <1>3, <1>5, <1>11, <1>6, Answers3, AnswerBooleans DEF MapFutureFuture, Structs
  <2>2. /\ st' = [[st EXCEPT !.inner = FALSE, !.first = FALSE] EXCEPT !.done = FALSE, !.changed = FALSE]
        /\ pc' = "idle" /\ out' = out
    BY <1>2, <2>1, FollowReturn, FirstPolls, Answers3
  <2>3. /\ st' \in Structs /\ st'.inner = FALSE /\ st'.signal = st.signal
        /\ st'.first = FALSE /\ st'.old = st.old
        /\ st'.done = FALSE /\ st'.changed = FALSE
    BY <1>5, <2>2, <1>11, <1>6, Answers3, AnswerBooleans DEF Structs
  <2>4. out' \in Outputs BY <1>3, <1>5, <2>2, <1>11, <1>6 DEF Structs
  <2>5. Typed'
    <3>1. st'.inner => st.inner \/ inner'.value \in Values BY <1>2, <1>3, <1>4, <1>5, <2>3, <1>11, <1>6, Answers3 DEF MapFutureInv, Inputs
    <3> QED BY <1>3, <2>2, <2>3, <2>4, <3>1, PollTyped
  <2>6. MapFutureInv' BY <1>1, <1>2, <1>3, <1>4, <1>5, <1>11, <1>6, <2>2, <2>3, Answers3 DEF MapFutureInv, Asleep, Finished, Listening, Inputs, Structs
  <2> QED BY <1>2, <2>5, <2>6 DEF IInv, Singles, Plain
<1>12. CASE /\ st.inner
            /\ ~inner.fresh
            /\ ~inner.closed
            /\ Listening(inner')
            /\ r = Pending
            /\ ~st.first
  <2>1. Follow(Return([st EXCEPT !.inner = TRUE, !.first = FALSE], Pending))
    BY <1>1, <1>3, <1>5, <1>12, <1>6, Answers3, AnswerBooleans DEF MapFutureFuture, Structs
  <2>2. /\ st' = [[st EXCEPT !.inner = TRUE, !.first = FALSE] EXCEPT !.done = FALSE, !.changed = FALSE]
        /\ pc' = "idle" /\ out' = out
    BY <1>2, <2>1, FollowReturn, FirstPolls, Answers3
  <2>3. /\ st' \in Structs /\ st'.inner = TRUE /\ st'.signal = st.signal
        /\ st'.first = FALSE /\ st'.old = st.old
        /\ st'.done = FALSE /\ st'.changed = FALSE
    BY <1>5, <2>2, <1>12, <1>6, Answers3, AnswerBooleans DEF Structs
  <2>4. out' \in Outputs BY <1>3, <1>5, <2>2, <1>12, <1>6 DEF Structs
  <2>5. Typed'
    <3>1. st'.inner => st.inner \/ inner'.value \in Values BY <1>2, <1>3, <1>4, <1>5, <2>3, <1>12, <1>6, Answers3 DEF MapFutureInv, Inputs
    <3> QED BY <1>3, <2>2, <2>3, <2>4, <3>1, PollTyped
  <2>6. MapFutureInv' BY <1>1, <1>2, <1>3, <1>4, <1>5, <1>12, <1>6, <2>2, <2>3, Answers3 DEF MapFutureInv, Asleep, Finished, Listening, Inputs, Structs
  <2> QED BY <1>2, <2>5, <2>6 DEF IInv, Singles, Plain
<1> QED BY <1>2, <1>3, <1>4, <1>5, <1>7, <1>8, <1>9, <1>10, <1>11, <1>12, <1>6 DEF MapFutureInv, Finished, Structs

\* A poll of the outer input of throttle.
LEMMA PollThrottleOuter ==
    ASSUME IInv, PollOuter, kind = "throttle"
    PROVE  IInv'
<1>1. PICK r : /\ Answered(outer, outer', st.signal, r, outer.value)
               /\ outer' \in Inputs
               /\ Follow(ThrottleSignal(st, r))
               /\ r = Answer(outer, st.signal)
  BY OuterAnswered, OuterTurns DEF IInv
<1>2. /\ kind' = kind /\ woken' = woken /\ pc = "outer"
      /\ IF IsSome(r) THEN inner' \in NewInner(r.value) ELSE inner' = inner
  BY <1>1 DEF PollOuter, Timed
<1>3. Typed /\ ThrottleInv BY DEF IInv
<1>4. /\ outer \in Inputs /\ outer'.value = outer.value
      /\ outer'.closed = outer.closed /\ outer'.of = outer.of
      /\ \/ st.signal /\ outer.fresh /\ ~outer'.fresh /\ outer'.waker = outer.waker /\ r = Some(outer.value)
         \/ ~st.signal /\ r = Gone /\ outer' = outer
         \/ st.signal /\ r = None /\ outer' = outer /\ Finished(outer)
         \/ st.signal /\ ~outer.fresh /\ ~outer.closed /\ Listening(outer') /\ r = Pending
  BY <1>1, <1>3, AnsweredFields DEF Typed, Structs
<1>5. /\ st \in Structs /\ out \in Outputs
      /\ outer \in Inputs /\ inner \in Inputs
      /\ outer.value \in Values
      /\ inner.fresh \/ st.inner => inner.value \in Values
      /\ inner.of \in Values \cup {NoValue} /\ inner.value \in Values \cup {NoValue}
      /\ \A v \in Values \cup {NoValue} : v \in Outputs
      /\ NoValue \in Outputs /\ NoValue \notin Values
  BY <1>3, OutputsAre, ValuesAssumption DEF Typed, Inputs, Answers, Timed
<1>6. IsSome(r) =>
          /\ inner' \in Inputs /\ inner'.of = outer.value
          /\ inner'.value \in Values
          /\ kind = "flatten" => inner'.fresh
          /\ kind # "flatten" => inner'.value = outer.value /\ ~inner'.closed
  BY <1>2, <1>4, <1>5, NewInners, Answers3
<1>7. CASE /\ st.signal
           /\ outer.fresh
           /\ ~outer'.fresh
           /\ outer'.waker = outer.waker
           /\ r = Some(outer.value)
  <2>1. Follow(Go([st EXCEPT !.inner = TRUE, !.old = outer.value], "inner"))
    BY <1>1, <1>3, <1>5, <1>7, <1>6, Answers3, AnswerBooleans DEF ThrottleSignal, Structs
  <2>2. /\ st' = [st EXCEPT !.inner = TRUE, !.old = outer.value]
        /\ pc' = "inner" /\ out' = out
    BY <1>2, <2>1, FollowGo, FirstPolls, Answers3
  <2>3. /\ st' \in Structs /\ st'.inner = TRUE /\ st'.signal = st.signal
        /\ st'.first = st.first /\ st'.old = outer.value
        /\ st'.done = st.done /\ st'.changed = st.changed
    BY <1>5, <2>2, <1>7, <1>6, Answers3, AnswerBooleans DEF Structs
  <2>4. out' \in Outputs BY <1>3, <1>5, <2>2, <1>7, <1>6 DEF Structs
  <2>5. Typed'
    <3>1. st'.inner => st.inner \/ inner'.value \in Values BY <1>2, <1>3, <1>4, <1>5, <2>3, <1>7, <1>6, Answers3 DEF ThrottleInv, Inputs
    <3> QED BY <1>3, <2>2, <2>3, <2>4, <3>1, PollTyped
  <2>7. IsSome(r) BY <1>7, Answers3
  <2>6. ThrottleInv' BY <1>1, <1>2, <1>3, <1>4, <1>5, <1>7, <1>6, <2>2, <2>3, <2>7 DEF ThrottleInv, Asleep, Finished
  <2> QED BY <1>2, <2>5, <2>6 DEF IInv, Singles, Plain
<1>8. CASE /\ st.signal
           /\ r = None
           /\ outer' = outer
           /\ Finished(outer)
  <2>1. Follow(Return([st EXCEPT !.signal = FALSE], None))
    BY <1>1, <1>3, <1>5, <1>8, <1>6, Answers3, AnswerBooleans DEF ThrottleSignal, Structs
  <2>2. /\ st' = [[st EXCEPT !.signal = FALSE] EXCEPT !.done = FALSE, !.changed = FALSE]
        /\ pc' = "done" /\ out' = out
    BY <1>2, <2>1, FollowReturn, FirstPolls, Answers3
  <2>3. /\ st' \in Structs /\ st'.inner = st.inner /\ st'.signal = FALSE
        /\ st'.first = st.first /\ st'.old = st.old
        /\ st'.done = FALSE /\ st'.changed = FALSE
    BY <1>5, <2>2, <1>8, <1>6, Answers3, AnswerBooleans DEF Structs
  <2>4. out' \in Outputs BY <1>3, <1>5, <2>2, <1>8, <1>6 DEF Structs
  <2>5. Typed'
    <3>1. st'.inner => st.inner \/ inner'.value \in Values BY <1>2, <1>3, <1>4, <1>5, <2>3, <1>8, <1>6, Answers3 DEF ThrottleInv, Inputs
    <3> QED BY <1>3, <2>2, <2>3, <2>4, <3>1, PollTyped
  <2>6. ThrottleInv' BY <1>1, <1>2, <1>3, <1>4, <1>5, <1>8, <1>6, <2>2, <2>3, Answers3 DEF ThrottleInv, Asleep, Finished, Listening, Inputs, Structs
  <2> QED BY <1>2, <2>5, <2>6 DEF IInv, Singles, Plain
<1>9. CASE /\ st.signal
           /\ ~outer.fresh
           /\ ~outer.closed
           /\ Listening(outer')
           /\ r = Pending
  <2>1. Follow(Return([st EXCEPT !.signal = TRUE], Pending))
    BY <1>1, <1>3, <1>5, <1>9, <1>6, Answers3, AnswerBooleans DEF ThrottleSignal, Structs
  <2>2. /\ st' = [[st EXCEPT !.signal = TRUE] EXCEPT !.done = FALSE, !.changed = FALSE]
        /\ pc' = "idle" /\ out' = out
    BY <1>2, <2>1, FollowReturn, FirstPolls, Answers3
  <2>3. /\ st' \in Structs /\ st'.inner = st.inner /\ st'.signal = TRUE
        /\ st'.first = st.first /\ st'.old = st.old
        /\ st'.done = FALSE /\ st'.changed = FALSE
    BY <1>5, <2>2, <1>9, <1>6, Answers3, AnswerBooleans DEF Structs
  <2>4. out' \in Outputs BY <1>3, <1>5, <2>2, <1>9, <1>6 DEF Structs
  <2>5. Typed'
    <3>1. st'.inner => st.inner \/ inner'.value \in Values BY <1>2, <1>3, <1>4, <1>5, <2>3, <1>9, <1>6, Answers3 DEF ThrottleInv, Inputs
    <3> QED BY <1>3, <2>2, <2>3, <2>4, <3>1, PollTyped
  <2>6. ThrottleInv' BY <1>1, <1>2, <1>3, <1>4, <1>5, <1>9, <1>6, <2>2, <2>3, Answers3 DEF ThrottleInv, Asleep, Finished, Listening, Inputs, Structs
  <2> QED BY <1>2, <2>5, <2>6 DEF IInv, Singles, Plain
<1> QED BY <1>2, <1>3, <1>4, <1>5, <1>7, <1>8, <1>9, <1>6 DEF ThrottleInv, Finished, Structs

\* A poll of the inner input of throttle.
LEMMA PollThrottleInner ==
    ASSUME IInv, PollInner, kind = "throttle"
    PROVE  IInv'
<1>1. PICK r : /\ Answered(inner, inner', st.inner, r, InnerAnswer)
               /\ inner' \in Inputs
               /\ Follow(ThrottleFuture(st, r))
               /\ r = Answer(inner, st.inner)
  BY InnerAnswered, InnerTurns DEF IInv
<1>2. /\ kind' = kind /\ woken' = woken /\ pc = "inner"
      /\ outer' = outer
  BY <1>1 DEF PollInner, Timed
<1>3. Typed /\ ThrottleInv BY DEF IInv
<1>4. /\ inner \in Inputs /\ inner'.value = inner.value
      /\ inner'.closed = inner.closed /\ inner'.of = inner.of
      /\ \/ st.inner /\ inner.fresh /\ ~inner'.fresh /\ inner'.waker = inner.waker /\ r = Some(InnerAnswer)
         \/ ~st.inner /\ r = Gone /\ inner' = inner
         \/ st.inner /\ r = None /\ inner' = inner /\ Finished(inner)
         \/ st.inner /\ ~inner.fresh /\ ~inner.closed /\ Listening(inner') /\ r = Pending
  BY <1>1, <1>3, AnsweredFields DEF Typed, Structs
<1>5. /\ st \in Structs /\ out \in Outputs
      /\ outer \in Inputs /\ inner \in Inputs
      /\ outer.value \in Values
      /\ inner.fresh \/ st.inner => inner.value \in Values
      /\ inner.of \in Values \cup {NoValue} /\ inner.value \in Values \cup {NoValue}
      /\ \A v \in Values \cup {NoValue} : v \in Outputs
      /\ NoValue \in Outputs /\ NoValue \notin Values
  BY <1>3, OutputsAre, ValuesAssumption DEF Typed, Inputs, Answers, Timed
<1>6. InnerAnswer = inner.value BY DEF InnerAnswer
<1>7. CASE /\ st.inner
           /\ inner.fresh
           /\ ~inner'.fresh
           /\ inner'.waker = inner.waker
           /\ r = Some(InnerAnswer)
           /\ st.old # NoValue
  <2>1. Follow(Return([st EXCEPT !.inner = FALSE, !.old = NoValue], Some(st.old)))
    BY <1>1, <1>3, <1>5, <1>7, <1>6, Answers3, AnswerBooleans DEF ThrottleFuture, Structs
  <2>2. /\ st' = [[st EXCEPT !.inner = FALSE, !.old = NoValue] EXCEPT !.done = FALSE, !.changed = FALSE]
        /\ pc' = "inner" /\ out' = st.old
    BY <1>2, <2>1, FollowReturn, FirstPolls, Answers3
  <2>3. /\ st' \in Structs /\ st'.inner = FALSE /\ st'.signal = st.signal
        /\ st'.first = st.first /\ st'.old = NoValue
        /\ st'.done = FALSE /\ st'.changed = FALSE
    BY <1>5, <2>2, <1>7, <1>6, Answers3, AnswerBooleans DEF Structs
  <2>4. out' \in Outputs BY <1>3, <1>5, <2>2, <1>7, <1>6 DEF Structs
  <2>5. Typed'
    <3>1. st'.inner => st.inner \/ inner'.value \in Values BY <1>2, <1>3, <1>4, <1>5, <2>3, <1>7, <1>6, Answers3 DEF ThrottleInv, Inputs
    <3> QED BY <1>3, <2>2, <2>3, <2>4, <3>1, PollTyped
  <2>6. ThrottleInv' BY <1>1, <1>2, <1>3, <1>4, <1>5, <1>7, <1>6, <2>2, <2>3, Answers3 DEF ThrottleInv, Asleep, Finished, Listening, Inputs, Structs
  <2> QED BY <1>2, <2>5, <2>6 DEF IInv, Singles, Plain
<1>8. CASE /\ st.inner
           /\ inner.fresh
           /\ ~inner'.fresh
           /\ inner'.waker = inner.waker
           /\ r = Some(InnerAnswer)
           /\ st.old = NoValue
  <2>1. Follow(Go([st EXCEPT !.inner = FALSE, !.old = NoValue], "outer"))
    BY <1>1, <1>3, <1>5, <1>8, <1>6, Answers3, AnswerBooleans DEF ThrottleFuture, Structs
  <2>2. /\ st' = [st EXCEPT !.inner = FALSE, !.old = NoValue]
        /\ pc' = "outer" /\ out' = out
    BY <1>2, <2>1, FollowGo, FirstPolls, Answers3
  <2>3. /\ st' \in Structs /\ st'.inner = FALSE /\ st'.signal = st.signal
        /\ st'.first = st.first /\ st'.old = NoValue
        /\ st'.done = st.done /\ st'.changed = st.changed
    BY <1>5, <2>2, <1>8, <1>6, Answers3, AnswerBooleans DEF Structs
  <2>4. out' \in Outputs BY <1>3, <1>5, <2>2, <1>8, <1>6 DEF Structs
  <2>5. Typed'
    <3>1. st'.inner => st.inner \/ inner'.value \in Values BY <1>2, <1>3, <1>4, <1>5, <2>3, <1>8, <1>6, Answers3 DEF ThrottleInv, Inputs
    <3> QED BY <1>3, <2>2, <2>3, <2>4, <3>1, PollTyped
  <2>6. ThrottleInv' BY <1>1, <1>2, <1>3, <1>4, <1>5, <1>8, <1>6, <2>2, <2>3, Answers3 DEF ThrottleInv, Asleep, Finished, Listening, Inputs, Structs
  <2> QED BY <1>2, <2>5, <2>6 DEF IInv, Singles, Plain
<1>9. CASE /\ ~st.inner
           /\ r = Gone
           /\ inner' = inner
           /\ st.old # NoValue
  <2>1. Follow(Return([st EXCEPT !.inner = FALSE, !.old = NoValue], Some(st.old)))
    BY <1>1, <1>3, <1>5, <1>9, <1>6, Answers3, AnswerBooleans DEF ThrottleFuture, Structs
  <2>2. /\ st' = [[st EXCEPT !.inner = FALSE, !.old = NoValue] EXCEPT !.done = FALSE, !.changed = FALSE]
        /\ pc' = "inner" /\ out' = st.old
    BY <1>2, <2>1, FollowReturn, FirstPolls, Answers3
  <2>3. /\ st' \in Structs /\ st'.inner = FALSE /\ st'.signal = st.signal
        /\ st'.first = st.first /\ st'.old = NoValue
        /\ st'.done = FALSE /\ st'.changed = FALSE
    BY <1>5, <2>2, <1>9, <1>6, Answers3, AnswerBooleans DEF Structs
  <2>4. out' \in Outputs BY <1>3, <1>5, <2>2, <1>9, <1>6 DEF Structs
  <2>5. Typed'
    <3>1. st'.inner => st.inner \/ inner'.value \in Values BY <1>2, <1>3, <1>4, <1>5, <2>3, <1>9, <1>6, Answers3 DEF ThrottleInv, Inputs
    <3> QED BY <1>3, <2>2, <2>3, <2>4, <3>1, PollTyped
  <2>6. ThrottleInv' BY <1>1, <1>2, <1>3, <1>4, <1>5, <1>9, <1>6, <2>2, <2>3, Answers3 DEF ThrottleInv, Asleep, Finished, Listening, Inputs, Structs
  <2> QED BY <1>2, <2>5, <2>6 DEF IInv, Singles, Plain
<1>10. CASE /\ ~st.inner
            /\ r = Gone
            /\ inner' = inner
            /\ st.old = NoValue
  <2>1. Follow(Go([st EXCEPT !.inner = FALSE, !.old = NoValue], "outer"))
    BY <1>1, <1>3, <1>5, <1>10, <1>6, Answers3, AnswerBooleans DEF ThrottleFuture, Structs
  <2>2. /\ st' = [st EXCEPT !.inner = FALSE, !.old = NoValue]
        /\ pc' = "outer" /\ out' = out
    BY <1>2, <2>1, FollowGo, FirstPolls, Answers3
  <2>3. /\ st' \in Structs /\ st'.inner = FALSE /\ st'.signal = st.signal
        /\ st'.first = st.first /\ st'.old = NoValue
        /\ st'.done = st.done /\ st'.changed = st.changed
    BY <1>5, <2>2, <1>10, <1>6, Answers3, AnswerBooleans DEF Structs
  <2>4. out' \in Outputs BY <1>3, <1>5, <2>2, <1>10, <1>6 DEF Structs
  <2>5. Typed'
    <3>1. st'.inner => st.inner \/ inner'.value \in Values BY <1>2, <1>3, <1>4, <1>5, <2>3, <1>10, <1>6, Answers3 DEF ThrottleInv, Inputs
    <3> QED BY <1>3, <2>2, <2>3, <2>4, <3>1, PollTyped
  <2>6. ThrottleInv' BY <1>1, <1>2, <1>3, <1>4, <1>5, <1>10, <1>6, <2>2, <2>3, Answers3 DEF ThrottleInv, Asleep, Finished, Listening, Inputs, Structs
  <2> QED BY <1>2, <2>5, <2>6 DEF IInv, Singles, Plain
<1>11. CASE /\ st.inner
            /\ ~inner.fresh
            /\ ~inner.closed
            /\ Listening(inner')
            /\ r = Pending
            /\ st.old # NoValue
  <2>1. Follow(Return([st EXCEPT !.inner = TRUE, !.old = NoValue], Some(st.old)))
    BY <1>1, <1>3, <1>5, <1>11, <1>6, Answers3, AnswerBooleans DEF ThrottleFuture, Structs
  <2>2. /\ st' = [[st EXCEPT !.inner = TRUE, !.old = NoValue] EXCEPT !.done = FALSE, !.changed = FALSE]
        /\ pc' = "inner" /\ out' = st.old
    BY <1>2, <2>1, FollowReturn, FirstPolls, Answers3
  <2>3. /\ st' \in Structs /\ st'.inner = TRUE /\ st'.signal = st.signal
        /\ st'.first = st.first /\ st'.old = NoValue
        /\ st'.done = FALSE /\ st'.changed = FALSE
    BY <1>5, <2>2, <1>11, <1>6, Answers3, AnswerBooleans DEF Structs
  <2>4. out' \in Outputs BY <1>3, <1>5, <2>2, <1>11, <1>6 DEF Structs
  <2>5. Typed'
    <3>1. st'.inner => st.inner \/ inner'.value \in Values BY <1>2, <1>3, <1>4, <1>5, <2>3, <1>11, <1>6, Answers3 DEF ThrottleInv, Inputs
    <3> QED BY <1>3, <2>2, <2>3, <2>4, <3>1, PollTyped
  <2>6. ThrottleInv' BY <1>1, <1>2, <1>3, <1>4, <1>5, <1>11, <1>6, <2>2, <2>3, Answers3 DEF ThrottleInv, Asleep, Finished, Listening, Inputs, Structs
  <2> QED BY <1>2, <2>5, <2>6 DEF IInv, Singles, Plain
<1>12. CASE /\ st.inner
            /\ ~inner.fresh
            /\ ~inner.closed
            /\ Listening(inner')
            /\ r = Pending
            /\ st.old = NoValue
  <2>1. Follow(Return([st EXCEPT !.inner = TRUE, !.old = NoValue], Pending))
    BY <1>1, <1>3, <1>5, <1>12, <1>6, Answers3, AnswerBooleans DEF ThrottleFuture, Structs
  <2>2. /\ st' = [[st EXCEPT !.inner = TRUE, !.old = NoValue] EXCEPT !.done = FALSE, !.changed = FALSE]
        /\ pc' = "idle" /\ out' = out
    BY <1>2, <2>1, FollowReturn, FirstPolls, Answers3
  <2>3. /\ st' \in Structs /\ st'.inner = TRUE /\ st'.signal = st.signal
        /\ st'.first = st.first /\ st'.old = NoValue
        /\ st'.done = FALSE /\ st'.changed = FALSE
    BY <1>5, <2>2, <1>12, <1>6, Answers3, AnswerBooleans DEF Structs
  <2>4. out' \in Outputs BY <1>3, <1>5, <2>2, <1>12, <1>6 DEF Structs
  <2>5. Typed'
    <3>1. st'.inner => st.inner \/ inner'.value \in Values BY <1>2, <1>3, <1>4, <1>5, <2>3, <1>12, <1>6, Answers3 DEF ThrottleInv, Inputs
    <3> QED BY <1>3, <2>2, <2>3, <2>4, <3>1, PollTyped
  <2>6. ThrottleInv' BY <1>1, <1>2, <1>3, <1>4, <1>5, <1>12, <1>6, <2>2, <2>3, Answers3 DEF ThrottleInv, Asleep, Finished, Listening, Inputs, Structs
  <2> QED BY <1>2, <2>5, <2>6 DEF IInv, Singles, Plain
<1> QED BY <1>2, <1>3, <1>4, <1>5, <1>7, <1>8, <1>9, <1>10, <1>11, <1>12, <1>6 DEF ThrottleInv, Finished, Structs

\* A poll of the outer input of sample.
LEMMA PollSampleOuter ==
    ASSUME IInv, PollOuter, kind = "sample"
    PROVE  IInv'
<1>1. PICK r : /\ Answered(outer, outer', st.signal, r, outer.value)
               /\ outer' \in Inputs
               /\ Follow(SampleSignal(st, r))
               /\ r = Answer(outer, st.signal)
  BY OuterAnswered, OuterTurns DEF IInv
<1>2. /\ kind' = kind /\ woken' = woken /\ pc = "outer"
      /\ inner' = inner
  BY <1>1 DEF PollOuter, Timed
<1>3. Typed /\ SampleInv BY DEF IInv
<1>4. /\ outer \in Inputs /\ outer'.value = outer.value
      /\ outer'.closed = outer.closed /\ outer'.of = outer.of
      /\ \/ st.signal /\ outer.fresh /\ ~outer'.fresh /\ outer'.waker = outer.waker /\ r = Some(outer.value)
         \/ ~st.signal /\ r = Gone /\ outer' = outer
         \/ st.signal /\ r = None /\ outer' = outer /\ Finished(outer)
         \/ st.signal /\ ~outer.fresh /\ ~outer.closed /\ Listening(outer') /\ r = Pending
  BY <1>1, <1>3, AnsweredFields DEF Typed, Structs
<1>5. /\ st \in Structs /\ out \in Outputs
      /\ outer \in Inputs /\ inner \in Inputs
      /\ outer.value \in Values
      /\ inner.fresh => inner.value \in Values
      /\ inner.of \in Values \cup {NoValue} /\ inner.value \in Values \cup {NoValue}
      /\ \A v, w \in Values \cup {NoValue} : <<v, w>> \in Outputs
      /\ NoValue \in Outputs /\ NoValue \notin Values
  BY <1>3, OutputsAre, ValuesAssumption DEF Typed, Inputs, Answers, Timed
<1>6. /\ st.old = <<st.old[1], st.old[2]>>
      /\ st.old[1] \in Values \cup {NoValue} /\ st.old[2] \in Values \cup {NoValue}
  BY <1>3 DEF SampleInv, Answers
<1>7. CASE /\ st.signal
           /\ outer.fresh
           /\ ~outer'.fresh
           /\ outer'.waker = outer.waker
           /\ r = Some(outer.value)
  <2>1. Follow(Go([st EXCEPT !.old = <<r.value, @[2]>>], "outer"))
    BY <1>1, <1>7, Answers3 DEF SampleSignal
  <2>2. /\ st' = [st EXCEPT !.old = <<r.value, @[2]>>]
        /\ pc' = "outer" /\ out' = out
    BY <1>2, <2>1, FollowGo, FirstPolls, Answers3
  <2>3. /\ st' \in Structs /\ st'.inner = st.inner /\ st'.signal = st.signal
        /\ st'.first = st.first /\ st'.old = <<outer.value, st.old[2]>>
        /\ st'.done = st.done /\ st'.changed = st.changed
    BY <1>5, <2>2, <1>7, <1>6, Answers3, AnswerBooleans DEF Structs
  <2>4. out' \in Outputs BY <1>3, <1>5, <2>2, <1>7, <1>6 DEF Structs
  <2>5. Typed'
    <3>1. st'.inner => st.inner \/ inner'.value \in Values BY <1>2, <1>3, <1>4, <1>5, <2>3, <1>7, <1>6, Answers3 DEF SampleInv, Inputs
    <3> QED BY <1>3, <2>2, <2>3, <2>4, <3>1, PollTyped
  <2>6. SampleInv' BY <1>1, <1>2, <1>3, <1>4, <1>5, <1>7, <1>6, <2>2, <2>3, Answers3 DEF SampleInv, Asleep, Finished, Listening, Inputs, Structs
  <2> QED BY <1>2, <2>5, <2>6 DEF IInv, Singles, Plain
<1>8. CASE /\ ~st.signal
           /\ r = Gone
           /\ outer' = outer
  <2>1. Follow(Return([st EXCEPT !.signal = FALSE], Some(st.old)))
    BY <1>1, <1>3, <1>5, <1>8, <1>6, Answers3, AnswerBooleans DEF SampleSignal, Structs
  <2>2. /\ st' = [[st EXCEPT !.signal = FALSE] EXCEPT !.done = FALSE, !.changed = FALSE]
        /\ pc' = "inner" /\ out' = st.old
    BY <1>2, <2>1, FollowReturn, FirstPolls, Answers3
  <2>3. /\ st' \in Structs /\ st'.inner = st.inner /\ st'.signal = FALSE
        /\ st'.first = st.first /\ st'.old = st.old
        /\ st'.done = FALSE /\ st'.changed = FALSE
    BY <1>5, <2>2, <1>8, <1>6, Answers3, AnswerBooleans DEF Structs
  <2>4. out' \in Outputs BY <1>3, <1>5, <2>2, <1>8, <1>6 DEF Structs
  <2>5. Typed'
    <3>1. st'.inner => st.inner \/ inner'.value \in Values BY <1>2, <1>3, <1>4, <1>5, <2>3, <1>8, <1>6, Answers3 DEF SampleInv, Inputs
    <3> QED BY <1>3, <2>2, <2>3, <2>4, <3>1, PollTyped
  <2>6. SampleInv' BY <1>1, <1>2, <1>3, <1>4, <1>5, <1>8, <1>6, <2>2, <2>3, Answers3 DEF SampleInv, Asleep, Finished, Listening, Inputs, Structs
  <2> QED BY <1>2, <2>5, <2>6 DEF IInv, Singles, Plain
<1>9. CASE /\ st.signal
           /\ r = None
           /\ outer' = outer
           /\ Finished(outer)
  <2>1. Follow(Return([st EXCEPT !.signal = FALSE], Some(st.old)))
    BY <1>1, <1>3, <1>5, <1>9, <1>6, Answers3, AnswerBooleans DEF SampleSignal, Structs
  <2>2. /\ st' = [[st EXCEPT !.signal = FALSE] EXCEPT !.done = FALSE, !.changed = FALSE]
        /\ pc' = "inner" /\ out' = st.old
    BY <1>2, <2>1, FollowReturn, FirstPolls, Answers3
  <2>3. /\ st' \in Structs /\ st'.inner = st.inner /\ st'.signal = FALSE
        /\ st'.first = st.first /\ st'.old = st.old
        /\ st'.done = FALSE /\ st'.changed = FALSE
    BY <1>5, <2>2, <1>9, <1>6, Answers3, AnswerBooleans DEF Structs
  <2>4. out' \in Outputs BY <1>3, <1>5, <2>2, <1>9, <1>6 DEF Structs
  <2>5. Typed'
    <3>1. st'.inner => st.inner \/ inner'.value \in Values BY <1>2, <1>3, <1>4, <1>5, <2>3, <1>9, <1>6, Answers3 DEF SampleInv, Inputs
    <3> QED BY <1>3, <2>2, <2>3, <2>4, <3>1, PollTyped
  <2>6. SampleInv' BY <1>1, <1>2, <1>3, <1>4, <1>5, <1>9, <1>6, <2>2, <2>3, Answers3 DEF SampleInv, Asleep, Finished, Listening, Inputs, Structs
  <2> QED BY <1>2, <2>5, <2>6 DEF IInv, Singles, Plain
<1>10. CASE /\ st.signal
            /\ ~outer.fresh
            /\ ~outer.closed
            /\ Listening(outer')
            /\ r = Pending
  <2>1. Follow(Return([st EXCEPT !.signal = TRUE], Some(st.old)))
    BY <1>1, <1>3, <1>5, <1>10, <1>6, Answers3, AnswerBooleans DEF SampleSignal, Structs
  <2>2. /\ st' = [[st EXCEPT !.signal = TRUE] EXCEPT !.done = FALSE, !.changed = FALSE]
        /\ pc' = "inner" /\ out' = st.old
    BY <1>2, <2>1, FollowReturn, FirstPolls, Answers3
  <2>3. /\ st' \in Structs /\ st'.inner = st.inner /\ st'.signal = TRUE
        /\ st'.first = st.first /\ st'.old = st.old
        /\ st'.done = FALSE /\ st'.changed = FALSE
    BY <1>5, <2>2, <1>10, <1>6, Answers3, AnswerBooleans DEF Structs
  <2>4. out' \in Outputs BY <1>3, <1>5, <2>2, <1>10, <1>6 DEF Structs
  <2>5. Typed'
    <3>1. st'.inner => st.inner \/ inner'.value \in Values BY <1>2, <1>3, <1>4, <1>5, <2>3, <1>10, <1>6, Answers3 DEF SampleInv, Inputs
    <3> QED BY <1>3, <2>2, <2>3, <2>4, <3>1, PollTyped
  <2>6. SampleInv' BY <1>1, <1>2, <1>3, <1>4, <1>5, <1>10, <1>6, <2>2, <2>3, Answers3 DEF SampleInv, Asleep, Finished, Listening, Inputs, Structs
  <2> QED BY <1>2, <2>5, <2>6 DEF IInv, Singles, Plain
<1> QED BY <1>2, <1>3, <1>4, <1>5, <1>7, <1>8, <1>9, <1>10, <1>6 DEF SampleInv, Finished, Structs

\* A poll of the inner input of sample.
LEMMA PollSampleInner ==
    ASSUME IInv, PollInner, kind = "sample"
    PROVE  IInv'
<1>1. PICK r : /\ Answered(inner, inner', st.inner, r, InnerAnswer)
               /\ inner' \in Inputs
               /\ Follow(SampleStream(st, r))
               /\ r = Answer(inner, st.inner)
  BY InnerAnswered, InnerTurns DEF IInv
<1>2. /\ kind' = kind /\ woken' = woken /\ pc = "inner"
      /\ outer' = outer
  BY <1>1 DEF PollInner, Timed
<1>3. Typed /\ SampleInv BY DEF IInv
<1>4. /\ inner \in Inputs /\ inner'.value = inner.value
      /\ inner'.closed = inner.closed /\ inner'.of = inner.of
      /\ \/ st.inner /\ inner.fresh /\ ~inner'.fresh /\ inner'.waker = inner.waker /\ r = Some(InnerAnswer)
         \/ ~st.inner /\ r = Gone /\ inner' = inner
         \/ st.inner /\ r = None /\ inner' = inner /\ Finished(inner)
         \/ st.inner /\ ~inner.fresh /\ ~inner.closed /\ Listening(inner') /\ r = Pending
  BY <1>1, <1>3, AnsweredFields DEF Typed, Structs
<1>5. /\ st \in Structs /\ out \in Outputs
      /\ outer \in Inputs /\ inner \in Inputs
      /\ outer.value \in Values
      /\ inner.fresh => inner.value \in Values
      /\ inner.of \in Values \cup {NoValue} /\ inner.value \in Values \cup {NoValue}
      /\ \A v, w \in Values \cup {NoValue} : <<v, w>> \in Outputs
      /\ NoValue \in Outputs /\ NoValue \notin Values
  BY <1>3, OutputsAre, ValuesAssumption DEF Typed, Inputs, Answers, Timed
<1>6. /\ st.old = <<st.old[1], st.old[2]>>
      /\ st.old[1] \in Values \cup {NoValue} /\ st.old[2] \in Values \cup {NoValue}
  BY <1>3 DEF SampleInv, Answers
<1>7. InnerAnswer = inner.value BY DEF InnerAnswer
<1>8. CASE /\ st.inner
           /\ inner.fresh
           /\ ~inner'.fresh
           /\ inner'.waker = inner.waker
           /\ r = Some(InnerAnswer)
  <2>1. Follow(Go([st EXCEPT !.old = <<@[1], r.value>>], "outer"))
    BY <1>1, <1>8, Answers3 DEF SampleStream
  <2>2. /\ st' = [st EXCEPT !.old = <<@[1], r.value>>]
        /\ pc' = "outer" /\ out' = out
    BY <1>2, <2>1, FollowGo, FirstPolls, Answers3
  <2>3. /\ st' \in Structs /\ st'.inner = st.inner /\ st'.signal = st.signal
        /\ st'.first = st.first /\ st'.old = <<st.old[1], inner.value>>
        /\ st'.done = st.done /\ st'.changed = st.changed
    BY <1>5, <2>2, <1>8, <1>6, <1>7, Answers3, AnswerBooleans DEF Structs
  <2>4. out' \in Outputs BY <1>3, <1>5, <2>2, <1>8, <1>6, <1>7 DEF Structs
  <2>5. Typed'
    <3>1. st'.inner => st.inner \/ inner'.value \in Values BY <1>2, <1>3, <1>4, <1>5, <2>3, <1>8, <1>6, <1>7, Answers3 DEF SampleInv, Inputs
    <3> QED BY <1>3, <2>2, <2>3, <2>4, <3>1, PollTyped
  <2>6. SampleInv' BY <1>1, <1>2, <1>3, <1>4, <1>5, <1>8, <1>6, <1>7, <2>2, <2>3, Answers3 DEF SampleInv, Asleep, Finished, Listening, Inputs, Structs
  <2> QED BY <1>2, <2>5, <2>6 DEF IInv, Singles, Plain
<1>9. CASE /\ st.inner
           /\ r = None
           /\ inner' = inner
           /\ Finished(inner)
  <2>1. Follow(Return(st, None))
    BY <1>1, <1>3, <1>5, <1>9, <1>6, <1>7, Answers3, AnswerBooleans DEF SampleStream, Structs
  <2>2. /\ st' = [st EXCEPT !.done = FALSE, !.changed = FALSE]
        /\ pc' = "done" /\ out' = out
    BY <1>2, <2>1, FollowReturn, FirstPolls, Answers3
  <2>3. /\ st' \in Structs /\ st'.inner = st.inner /\ st'.signal = st.signal
        /\ st'.first = st.first /\ st'.old = st.old
        /\ st'.done = FALSE /\ st'.changed = FALSE
    BY <1>5, <2>2, <1>9, <1>6, <1>7, Answers3, AnswerBooleans DEF Structs
  <2>4. out' \in Outputs BY <1>3, <1>5, <2>2, <1>9, <1>6, <1>7 DEF Structs
  <2>5. Typed'
    <3>1. st'.inner => st.inner \/ inner'.value \in Values BY <1>2, <1>3, <1>4, <1>5, <2>3, <1>9, <1>6, <1>7, Answers3 DEF SampleInv, Inputs
    <3> QED BY <1>3, <2>2, <2>3, <2>4, <3>1, PollTyped
  <2>6. SampleInv' BY <1>1, <1>2, <1>3, <1>4, <1>5, <1>9, <1>6, <1>7, <2>2, <2>3, Answers3 DEF SampleInv, Asleep, Finished, Listening, Inputs, Structs
  <2> QED BY <1>2, <2>5, <2>6 DEF IInv, Singles, Plain
<1>10. CASE /\ st.inner
            /\ ~inner.fresh
            /\ ~inner.closed
            /\ Listening(inner')
            /\ r = Pending
  <2>1. Follow(Return(st, Pending))
    BY <1>1, <1>3, <1>5, <1>10, <1>6, <1>7, Answers3, AnswerBooleans DEF SampleStream, Structs
  <2>2. /\ st' = [st EXCEPT !.done = FALSE, !.changed = FALSE]
        /\ pc' = "idle" /\ out' = out
    BY <1>2, <2>1, FollowReturn, FirstPolls, Answers3
  <2>3. /\ st' \in Structs /\ st'.inner = st.inner /\ st'.signal = st.signal
        /\ st'.first = st.first /\ st'.old = st.old
        /\ st'.done = FALSE /\ st'.changed = FALSE
    BY <1>5, <2>2, <1>10, <1>6, <1>7, Answers3, AnswerBooleans DEF Structs
  <2>4. out' \in Outputs BY <1>3, <1>5, <2>2, <1>10, <1>6, <1>7 DEF Structs
  <2>5. Typed'
    <3>1. st'.inner => st.inner \/ inner'.value \in Values BY <1>2, <1>3, <1>4, <1>5, <2>3, <1>10, <1>6, <1>7, Answers3 DEF SampleInv, Inputs
    <3> QED BY <1>3, <2>2, <2>3, <2>4, <3>1, PollTyped
  <2>6. SampleInv' BY <1>1, <1>2, <1>3, <1>4, <1>5, <1>10, <1>6, <1>7, <2>2, <2>3, Answers3 DEF SampleInv, Asleep, Finished, Listening, Inputs, Structs
  <2> QED BY <1>2, <2>5, <2>6 DEF IInv, Singles, Plain
<1> QED BY <1>2, <1>3, <1>4, <1>5, <1>8, <1>9, <1>10, <1>6, <1>7 DEF SampleInv, Finished, Structs

-----------------------------------------------------------------------------
(* The theorems.                                                           *)

LEMMA IInvQuiet == ASSUME IInv, Quiet PROVE IInv'
<1>1. Typed' /\ kind' = kind BY QuietTyped, QuietSteps DEF IInv
<1>2. kind \in Singles => SingleInv' BY QuietSingle DEF IInv
<1>3. kind \in Plain => PlainInv' BY QuietPlain DEF IInv
<1>4. kind = "wait_for" => WaitForInv' BY QuietWaitFor DEF IInv
<1>5. kind = "stop_if" => StopIfInv' BY QuietStopIf DEF IInv
<1>6. kind = "first" => FirstInv' BY QuietFirst DEF IInv
<1>7. kind = "from_future" => FromFutureInv' BY QuietFromFuture DEF IInv
<1>8. kind = "from_stream" => FromStreamInv' BY QuietFromStream DEF IInv
<1>9. kind = "map_ref" => MapRefInv' BY QuietMapRef DEF IInv
<1>10. kind = "flatten" => FlattenInv' BY QuietFlatten DEF IInv
<1>11. kind = "map_future" => MapFutureInv' BY QuietMapFuture DEF IInv
<1>12. kind = "throttle" => ThrottleInv' BY QuietThrottle DEF IInv
<1>13. kind = "sample" => SampleInv' BY QuietSample DEF IInv
<1> QED
  BY <1>1, <1>2, <1>3, <1>4, <1>5, <1>6, <1>7, <1>8, <1>9, <1>10, <1>11, <1>12, <1>13
  DEF IInv

\* The combinators there are.
LEMMA KindIs ==
    ASSUME Typed
    PROVE  kind \in {"map", "eq", "neq", "dedupe", "filter_map", "stop_if", "first",
                  "maybe", "to_future", "wait_for", "from_future", "from_stream"} \cup {"map_ref", "flatten", "map_future", "throttle", "sample"}
BY KindsAssumption DEF Typed, Singles, Timed, Joined

\* The changes of the inputs, the start of a poll and every turn of every
\* combinator preserve the invariant.
LEMMA IInvNext == IInv /\ [Next]_vars => IInv'
<1> SUFFICES ASSUME IInv, [Next]_vars PROVE IInv' OBVIOUS
<1>1. kind \in {"map", "eq", "neq", "dedupe", "filter_map", "stop_if", "first",
                  "maybe", "to_future", "wait_for", "from_future", "from_stream"} \cup {"map_ref", "flatten", "map_future", "throttle", "sample"}
  BY KindIs DEF IInv
<1>2. CASE Quiet BY <1>2, IInvQuiet
<1>3. CASE PollOuter
  BY <1>1, <1>3, PollMap, PollEq, PollNeq, PollDedupe, PollFilterMap, PollStopIf,
     PollFirst, PollMaybe, PollToFuture, PollWaitFor, PollFromFuture,
     PollFromStream, PollMapRefOuter, PollFlattenOuter,
     PollMapFutureOuter, PollThrottleOuter, PollSampleOuter
<1>4. CASE PollInner
  <2>1. kind \notin Singles BY <1>4 DEF IInv, SingleInv, PollInner
  <2> QED
    BY <1>1, <1>4, <2>1, PollMapRefInner, PollFlattenInner, PollMapFutureInner,
       PollThrottleInner, PollSampleInner DEF Singles
<1> QED BY <1>2, <1>3, <1>4 DEF Next, Turn, Quiet

\* The strengthened invariant holds in every run.
THEOREM InductiveInvariant == Spec => []IInv
BY IInvInit, IInvNext, PTL DEF Spec

\* The variables have their types, and what a combinator kept agrees with its
\* inputs.
THEOREM TypeCorrect == Spec => []TypeOK
<1>1. IInv => TypeOK
  <2> SUFFICES ASSUME IInv PROVE TypeOK OBVIOUS
  <2>1. Typed BY DEF IInv
  <2>2. InputOK(outer) /\ InputOK(inner) BY <2>1 DEF Typed, Inputs, InputOK
  <2>3. /\ {st.signal, st.inner, st.first, st.done, st.changed} \subseteq BOOLEAN
        /\ {st.old, out} \subseteq Outputs
    BY <2>1 DEF Typed, Structs
  <2>4. kind \in {"dedupe", "to_future"} /\ ~outer.fresh => st.old = outer.value
    BY DEF IInv, Plain, PlainInv
  <2>5. kind \in {"eq", "neq"} => out = st.old BY DEF IInv, Plain, PlainInv
  <2>6. kind = "throttle" /\ pc = "outer" => ~st.inner
    BY DEF IInv, ThrottleInv
  <2>7. kind \in {"map_future", "flatten"} /\ ~outer.fresh =>
            inner.of = outer.value
    BY DEF IInv, MapFutureInv, FlattenInv
  <2> QED BY <2>1, <2>2, <2>3, <2>4, <2>5, <2>6, <2>7 DEF Typed, TypeOK
<1> QED BY <1>1, InductiveInvariant, PTL

\* What a combinator is to show.
LEMMA ShowsAre ==
    /\ kind = "map" => (Shows <=> out = Image(outer.value))
    /\ kind = "eq" => (Shows <=> out = (outer.value = Target))
    /\ kind = "neq" => (Shows <=> out = (outer.value # Target))
    /\ kind = "dedupe" => (Shows <=> out = outer.value)
    /\ kind = "from_future" => (Shows <=> out = outer.value)
    /\ kind = "from_stream" => (Shows <=> out = outer.value)
    /\ kind = "filter_map" => (Shows <=> out = kept)
    /\ kind = "stop_if" => (Shows <=> out = outer.value /\ out \notin Keep)
    /\ kind = "first" => (Shows <=> out \in Values)
    /\ kind = "maybe" => (Shows <=> out = outer.value)
    /\ kind = "to_future" => (Shows <=> out = NoValue)
    /\ kind = "wait_for" => (Shows <=> outer.value # Target)
    /\ kind = "map_ref" => (Shows <=> out = <<outer.value, inner.value>>)
    /\ kind = "flatten" => (Shows <=> out = <<outer.value, inner.value>>)
    /\ kind = "map_future" => (Shows <=> st.inner \/ out = outer.value)
    /\ kind = "throttle" => (Shows <=> st.inner \/ out = outer.value)
    /\ kind = "sample" => (Shows <=> (inner.value # NoValue =>
              out[1] = st.old[1] /\ out[1] \in Values /\ out[2] = inner.value))
<1>1. kind = "map" => (Shows <=> out = Image(outer.value))
  BY Zenon DEF Shows
<1>2. kind = "eq" => (Shows <=> out = (outer.value = Target))
  BY Zenon DEF Shows
<1>3. kind = "neq" => (Shows <=> out = (outer.value # Target))
  BY Zenon DEF Shows
<1>4. kind = "dedupe" => (Shows <=> out = outer.value)
  BY Zenon DEF Shows
<1>5. kind = "from_future" => (Shows <=> out = outer.value)
  BY Zenon DEF Shows
<1>6. kind = "from_stream" => (Shows <=> out = outer.value)
  BY Zenon DEF Shows
<1>7. kind = "filter_map" => (Shows <=> out = kept)
  BY Zenon DEF Shows
<1>8. kind = "stop_if" => (Shows <=> out = outer.value /\ out \notin Keep)
  BY Zenon DEF Shows
<1>9. kind = "first" => (Shows <=> out \in Values)
  BY Zenon DEF Shows
<1>10. kind = "maybe" => (Shows <=> out = outer.value)
  BY Zenon DEF Shows
<1>11. kind = "to_future" => (Shows <=> out = NoValue)
  BY Zenon DEF Shows
<1>12. kind = "wait_for" => (Shows <=> outer.value # Target)
  BY Zenon DEF Shows
<1>13. kind = "map_ref" => (Shows <=> out = <<outer.value, inner.value>>)
  BY Zenon DEF Shows
<1>14. kind = "flatten" => (Shows <=> out = <<outer.value, inner.value>>)
  BY Zenon DEF Shows
<1>15. kind = "map_future" => (Shows <=> st.inner \/ out = outer.value)
  BY Zenon DEF Shows
<1>16. kind = "throttle" => (Shows <=> st.inner \/ out = outer.value)
  BY Zenon DEF Shows
<1>17. kind = "sample" => (Shows <=> (inner.value # NoValue =>
              out[1] = st.old[1] /\ out[1] \in Values /\ out[2] = inner.value))
  BY Zenon DEF Shows
<1> QED BY <1>1, <1>2, <1>3, <1>4, <1>5, <1>6, <1>7, <1>8, <1>9, <1>10, <1>11, <1>12, <1>13, <1>14, <1>15, <1>16, <1>17

LEMMA AsleepShows == IInv /\ Asleep => Shows /\ Listens
<1> SUFFICES ASSUME IInv, Asleep PROVE Shows /\ Listens OBVIOUS
<1>1. Typed /\ NoValue \notin Values BY ValuesAssumption DEF IInv
<1>2. CASE kind \in Singles
  <2>1. SingleInv /\ st.signal /\ Listening(outer)
    BY <1>2 DEF IInv, SingleInv
  <2>2. Listens BY <1>2, <2>1 DEF Listens, SingleInv, Listening
  <2>3. kind \in Plain => Shows
    BY <1>2, <2>1, ShowsAre DEF IInv, Plain, PlainInv, Listening, Asleep
  <2>4. kind = "wait_for" => Shows
    BY <1>2, <2>1, ShowsAre DEF IInv, WaitForInv, Listening, Asleep
  <2>5. kind = "stop_if" => Shows
    BY <1>2, <2>1, ShowsAre DEF IInv, StopIfInv, Listening
  <2>6. kind = "first" => Shows
    BY <1>2, <2>1, ShowsAre DEF IInv, FirstInv, Listening
  <2>7. kind = "from_future" => Shows
    BY <1>2, <2>1, ShowsAre DEF IInv, FromFutureInv, Listening
  <2>8. kind = "from_stream" => Shows
    BY <1>2, <2>1, ShowsAre DEF IInv, FromStreamInv, Listening, Asleep
  <2> QED
    BY <1>2, <2>2, <2>3, <2>4, <2>5, <2>6, <2>7, <2>8 DEF Singles, Plain
<1>3. CASE kind = "map_ref"
  <2>1. /\ MapRefInv
        /\ st.signal => Listening(outer)
        /\ st.inner => Listening(inner)
    BY <1>3 DEF IInv, MapRefInv
  <2>2. ~outer.fresh /\ ~inner.fresh
    BY <2>1 DEF MapRefInv, Listening, Finished
  <2>3. /\ st.old = <<st.old[1], st.old[2]>>
        /\ st.old[1] = outer.value /\ st.old[2] = inner.value
    BY <2>1, <2>2 DEF MapRefInv, Answers
  <2>4. out = st.old \/ (out = NoValue /\ st.old = <<NoValue, NoValue>>)
    BY <2>1 DEF MapRefInv, Asleep
  <2>5. inner.value # NoValue BY <1>1, <2>1 DEF MapRefInv
  <2>6. out = <<outer.value, inner.value>> BY <2>3, <2>4, <2>5
  <2>7. Shows BY <1>3, <2>6, ShowsAre
  <2> QED BY <1>3, <2>1, <2>7 DEF Listens, Listening
<1>4. CASE kind = "flatten"
  <2>1. /\ FlattenInv
        /\ st.signal => Listening(outer)
        /\ st.inner => Listening(inner)
    BY <1>4 DEF IInv, FlattenInv
  <2>2. ~outer.fresh /\ ~inner.fresh
    BY <2>1 DEF FlattenInv, Listening, Finished
  <2>3. inner.of = outer.value /\ outer.value \in Values
    BY <1>1, <1>4, <2>1, <2>2 DEF FlattenInv, Typed
  <2>4. out = <<outer.value, inner.value>>
    BY <1>1, <2>1, <2>2, <2>3 DEF FlattenInv
  <2>5. Shows BY <1>4, <2>4, ShowsAre
  <2> QED BY <1>4, <2>1, <2>5 DEF Listens, Listening
<1>5. CASE kind = "map_future"
  <2>1. /\ MapFutureInv
        /\ st.signal => Listening(outer)
        /\ st.inner => Listening(inner)
    BY <1>5 DEF IInv, MapFutureInv
  <2>2. st.inner \/ out = outer.value
    BY <2>1 DEF MapFutureInv, Listening, Finished
  <2>3. Shows BY <1>5, <2>2, ShowsAre
  <2> QED BY <1>5, <2>1, <2>3 DEF Listens, Listening
<1>6. CASE kind = "throttle"
  <2>1. /\ ThrottleInv
        /\ IF st.inner THEN Listening(inner) ELSE Listening(outer)
    BY <1>6 DEF IInv, ThrottleInv
  <2>2. st.inner \/ out = outer.value
    BY <2>1 DEF ThrottleInv, Listening, Asleep
  <2>3. Shows BY <1>6, <2>2, ShowsAre
  <2> QED BY <1>6, <2>1, <2>3 DEF Listens, Listening
<1>7. CASE kind = "sample"
  <2>1. SampleInv /\ Listening(inner) BY <1>7 DEF IInv, SampleInv
  <2>2. inner.value # NoValue =>
            out[1] = st.old[1] /\ out[1] \in Values /\ out[2] = inner.value
    BY <2>1 DEF SampleInv, Listening, Asleep
  <2>3. Shows BY <1>7, <2>2, ShowsAre
  <2> QED BY <1>7, <2>1, <2>3 DEF Listens, Listening
<1> QED
  BY <1>1, <1>2, <1>3, <1>4, <1>5, <1>6, <1>7, KindIs DEF Singles

\* No wake-up is lost in any combinator: a task that sleeps was given what the
\* inputs make of the combinator, and every input whose change could make a
\* difference holds its waker.
THEOREM NoLostWakeup == Spec => []AsleepUpToDate
<1>1. IInv => AsleepUpToDate BY AsleepShows DEF AsleepUpToDate, Asleep
<1> QED BY <1>1, InductiveInvariant, PTL

\* What is to hold at the end.
LEMMA EndsAre ==
    /\ kind = "to_future" =>
          (EndsRight <=> (pc = "done" => out = outer.value))
    /\ kind = "wait_for" =>
          (EndsRight <=> (pc = "done" =>
              out = Target \/ (out = NoValue /\ outer.value # Target)))
    /\ kind = "stop_if" =>
          (EndsRight <=> (pc = "done" => out \in Keep \/ (outer.closed /\ Shows)))
    /\ kind \in {"map_future", "throttle"} =>
          (EndsRight <=> (pc = "done" => out = outer.value))
    /\ kind = "maybe" =>
          (EndsRight <=> (pc = "done" =>
              out = IF st.signal THEN outer.value ELSE NoValue))
    /\ kind \notin {"to_future", "wait_for", "stop_if", "map_future",
                    "throttle", "maybe"} =>
          (EndsRight <=> (pc = "done" => Shows))
<1>1. kind = "to_future" => (EndsRight <=> (pc = "done" => out = outer.value))
  BY Zenon DEF EndsRight
<1>2. kind = "wait_for" =>
          (EndsRight <=> (pc = "done" =>
              out = Target \/ (out = NoValue /\ outer.value # Target)))
  BY Zenon DEF EndsRight
<1>3. kind = "stop_if" =>
          (EndsRight <=> (pc = "done" => out \in Keep \/ (outer.closed /\ Shows)))
  BY Zenon DEF EndsRight
<1>4. kind \in {"map_future", "throttle"} =>
          (EndsRight <=> (pc = "done" => out = outer.value))
  BY Zenon DEF EndsRight
<1>5. kind = "maybe" =>
          (EndsRight <=> (pc = "done" =>
              out = IF st.signal THEN outer.value ELSE NoValue))
  BY Zenon DEF EndsRight
<1>6. kind \notin {"to_future", "wait_for", "stop_if", "map_future",
                   "throttle", "maybe"} =>
          (EndsRight <=> (pc = "done" => Shows))
  BY Zenon DEF EndsRight
<1> QED BY <1>1, <1>2, <1>3, <1>4, <1>5, <1>6

\* A combinator ends with the right value: what it showed last is what its
\* inputs ended with, or the value it was to stop at.
THEOREM EndsCorrect == Spec => []EndsRight
<1>1. IInv => EndsRight
  <2> SUFFICES ASSUME IInv, pc = "done" PROVE EndsRight
    BY DEF EndsRight
  <2>1. Typed /\ NoValue \notin Values BY ValuesAssumption DEF IInv
  <2>2. CASE kind \in Plain
    BY <2>2, ShowsAre, EndsAre
    DEF IInv, Plain, Singles, SingleInv, PlainInv, Finished
  <2>3. CASE kind = "wait_for"
    BY <2>3, EndsAre DEF IInv, Singles, SingleInv, WaitForInv, Finished
  <2>4. CASE kind = "stop_if"
    BY <2>4, ShowsAre, EndsAre
    DEF IInv, Singles, SingleInv, StopIfInv, Finished
  <2>5. CASE kind = "first"
    BY <2>5, ShowsAre, EndsAre DEF IInv, Singles, SingleInv, FirstInv, Finished
  <2>6. CASE kind = "from_future"
    BY <2>6, ShowsAre, EndsAre
    DEF IInv, Singles, SingleInv, FromFutureInv, Finished
  <2>7. CASE kind = "from_stream"
    BY <2>7, ShowsAre, EndsAre
    DEF IInv, Singles, SingleInv, FromStreamInv, Finished
  <2>8. CASE kind = "map_ref"
    <3>1. MapRefInv /\ Finished(outer) /\ Finished(inner)
      BY <2>8 DEF IInv, MapRefInv
    <3>2. /\ st.old = <<st.old[1], st.old[2]>>
          /\ st.old[1] = outer.value /\ st.old[2] = inner.value
      BY <3>1 DEF MapRefInv, Answers, Finished
    <3>3. out = st.old \/ (out = NoValue /\ st.old = <<NoValue, NoValue>>)
      BY <3>1 DEF MapRefInv
    <3>4. inner.value # NoValue BY <2>1, <3>1 DEF MapRefInv
    <3>5. out = <<outer.value, inner.value>> BY <3>2, <3>3, <3>4
    <3> QED BY <2>8, <3>5, ShowsAre, EndsAre
  <2>9. CASE kind = "flatten"
    <3>1. FlattenInv /\ Finished(outer) /\ ~st.inner /\ ~inner.fresh
      BY <2>9 DEF IInv, FlattenInv
    <3>2. inner.of = outer.value /\ outer.value \in Values
      BY <2>1, <2>9, <3>1 DEF FlattenInv, Typed, Finished
    <3>3. out = <<outer.value, inner.value>>
      BY <2>1, <3>1, <3>2 DEF FlattenInv
    <3> QED BY <2>9, <3>3, ShowsAre, EndsAre
  <2>10. CASE kind = "map_future"
    BY <2>10, EndsAre DEF IInv, MapFutureInv, Finished
  <2>11. CASE kind = "throttle"
    BY <2>11, EndsAre DEF IInv, ThrottleInv, Finished
  <2>12. CASE kind = "sample"
    BY <2>12, ShowsAre, EndsAre DEF IInv, SampleInv, Finished
  <2> QED
    BY <2>1, <2>2, <2>3, <2>4, <2>5, <2>6, <2>7, <2>8, <2>9, <2>10, <2>11,
       <2>12, KindIs
    DEF Plain
<1> QED BY <1>1, InductiveInvariant, PTL

\* Where a turn goes and what it returns.
LEMMA TurnParts ==
    /\ \A s, r : Return(s, r).at = "return" /\ Return(s, r).poll = r
    /\ \A s, at : Go(s, at).at = at
    /\ \A v, w : (Some(v) = Some(w) => v = w) /\ Some(v) # Finish(w)
    /\ \A v : Some(v) \notin {Pending, None, Gone}
BY DEF Return, Go, Some, Finish, Pending, None, Gone

LEMMA NewsOuter ==
    ASSUME IInv, PollOuter, NEW v, Returns(v)
    PROVE  News(v)
<1>1. PICK r : /\ Answered(outer, outer', st.signal, r, outer.value)
               /\ outer' \in Inputs
               /\ r = Answer(outer, st.signal)
  BY OuterAnswered DEF IInv
<1>2. /\ OuterTurn(r).at = "return" /\ OuterTurn(r).poll = Some(v)
      /\ pc = "outer"
  BY <1>1 DEF Returns, PollOuter
<1>3. \/ st.signal /\ outer.fresh /\ r = Some(outer.value)
      \/ ~st.signal /\ r = Gone
      \/ st.signal /\ Finished(outer) /\ r = None
      \/ st.signal /\ ~outer.fresh /\ ~outer.closed /\ r = Pending
  BY <1>1, AnsweredFields DEF IInv, Typed, Structs
<1>4. /\ Typed /\ NoValue \notin Values /\ NoValue \notin BOOLEAN
      /\ Keep \subseteq Values
      /\ \A w \in Values : Image(w) \in Values
      /\ kind \in {"map_ref", "sample", "flatten"} => NoValue \notin Answers \X Answers
      /\ outer.fresh => outer.value \in Values
      /\ inner.fresh => inner.value \in Values
  BY ValuesAssumption, NoValueAssumption DEF IInv, Typed, Answers
<1>5. CASE kind = "map"
  <2>1. MapTurn(st, r).at = "return" /\ MapTurn(st, r).poll = Some(v) BY <1>2, <1>5, OuterTurns
  <2>2. PlainInv /\ SingleInv BY <1>5 DEF IInv, Singles, Plain
  <2> QED
    BY <1>2, <1>3, <1>4, <1>5, <2>1, <2>2, TurnParts, Answers3
    DEF MapTurn, PlainInv, News
<1>6. CASE kind = "eq"
  <2>9. PICK turn : turn = CompareTurn(st, r, TRUE) OBVIOUS
  <2>1. turn.at = "return" /\ turn.poll = Some(v)
    BY Zenon, <1>2, <1>6, <2>9, OuterTurns
  <2>2. out = st.old BY <1>6 DEF IInv, Plain, PlainInv
  <2>3. PICK new \in BOOLEAN : new = ((r.value = Target) = TRUE) BY Zenon
  <2>4. IsSome(r) =>
            turn = IF new = st.old THEN Go(st, "outer")
                ELSE Return([st EXCEPT !.old = new], Some(new))
    BY Zenon, <2>3, <2>9 DEF CompareTurn
  <2>5. IsSome(r)
    <3>1. ~IsSome(r) => turn = Return(st, r)
      BY Zenon, <2>9 DEF CompareTurn
    <3> QED BY <2>1, <3>1, TurnParts, Answers3
  <2>7. new # st.old BY <2>1, <2>4, <2>5, TurnParts
  <2>8. Some(v) = Some(new) BY <2>1, <2>4, <2>5, <2>7, TurnParts
  <2>6. new # st.old /\ v = new BY <2>7, <2>8, TurnParts
  <2> QED BY <1>4, <1>6, <2>2, <2>6 DEF News
<1>7. CASE kind = "neq"
  <2>9. PICK turn : turn = CompareTurn(st, r, FALSE) OBVIOUS
  <2>1. turn.at = "return" /\ turn.poll = Some(v)
    BY Zenon, <1>2, <1>7, <2>9, OuterTurns
  <2>2. out = st.old BY <1>7 DEF IInv, Plain, PlainInv
  <2>3. PICK new \in BOOLEAN : new = ((r.value = Target) = FALSE) BY Zenon
  <2>4. IsSome(r) =>
            turn = IF new = st.old THEN Go(st, "outer")
                ELSE Return([st EXCEPT !.old = new], Some(new))
    BY Zenon, <2>3, <2>9 DEF CompareTurn
  <2>5. IsSome(r)
    <3>1. ~IsSome(r) => turn = Return(st, r)
      BY Zenon, <2>9 DEF CompareTurn
    <3> QED BY <2>1, <3>1, TurnParts, Answers3
  <2>7. new # st.old BY <2>1, <2>4, <2>5, TurnParts
  <2>8. Some(v) = Some(new) BY <2>1, <2>4, <2>5, <2>7, TurnParts
  <2>6. new # st.old /\ v = new BY <2>7, <2>8, TurnParts
  <2> QED BY <1>4, <1>7, <2>2, <2>6 DEF News
<1>8. CASE kind = "dedupe"
  <2>1. DedupeTurn(st, r).at = "return" /\ DedupeTurn(st, r).poll = Some(v) BY <1>2, <1>8, OuterTurns
  <2>2. PlainInv /\ SingleInv BY <1>8 DEF IInv, Singles, Plain
  <2> QED
    BY <1>2, <1>3, <1>4, <1>8, <2>1, <2>2, TurnParts, Answers3
    DEF DedupeTurn, PlainInv, News
<1>9. CASE kind = "filter_map"
  <2>1. FilterMapTurn(st, r).at = "return" /\ FilterMapTurn(st, r).poll = Some(v) BY <1>2, <1>9, OuterTurns
  <2>2. PlainInv /\ SingleInv BY <1>9 DEF IInv, Singles, Plain
  <2> QED
    BY <1>2, <1>3, <1>4, <1>9, <2>1, <2>2, TurnParts, Answers3
    DEF FilterMapTurn, PlainInv, News
<1>10. CASE kind = "stop_if"
  <2>1. StopIfTurn(st, r).at = "return" /\ StopIfTurn(st, r).poll = Some(v) BY <1>2, <1>10, OuterTurns
  <2>2. StopIfInv /\ SingleInv BY <1>10 DEF IInv, Singles, Plain
  <2> QED
    BY <1>2, <1>3, <1>4, <1>10, <2>1, <2>2, TurnParts, Answers3
    DEF StopIfTurn, StopIfInv, News
<1>11. CASE kind = "first"
  <2>1. FirstTurn(st, r).at = "return" /\ FirstTurn(st, r).poll = Some(v) BY <1>2, <1>11, OuterTurns
  <2>2. FirstInv /\ SingleInv BY <1>11 DEF IInv, Singles, Plain
  <2> QED
    BY <1>2, <1>3, <1>4, <1>11, <2>1, <2>2, TurnParts, Answers3
    DEF FirstTurn, FirstInv, News
<1>12. CASE kind = "maybe"
  <2>1. MaybeTurn(st, r).at = "return" /\ MaybeTurn(st, r).poll = Some(v) BY <1>2, <1>12, OuterTurns
  <2>2. PlainInv /\ SingleInv BY <1>12 DEF IInv, Singles, Plain
  <2> QED
    BY <1>2, <1>3, <1>4, <1>12, <2>1, <2>2, TurnParts, Answers3
    DEF MaybeTurn, PlainInv, News
<1>13. CASE kind = "to_future"
  <2>1. SignalFutureTurn(st, r).at = "return" /\ SignalFutureTurn(st, r).poll = Some(v) BY <1>2, <1>13, OuterTurns
  <2>2. PlainInv /\ SingleInv BY <1>13 DEF IInv, Singles, Plain
  <2> QED
    BY <1>2, <1>3, <1>4, <1>13, <2>1, <2>2, TurnParts, Answers3
    DEF SignalFutureTurn, PlainInv, News
<1>14. CASE kind = "wait_for"
  <2>1. WaitForTurn(st, r).at = "return" /\ WaitForTurn(st, r).poll = Some(v) BY <1>2, <1>14, OuterTurns
  <2>2. WaitForInv /\ SingleInv BY <1>14 DEF IInv, Singles, Plain
  <2> QED
    BY <1>2, <1>3, <1>4, <1>14, <2>1, <2>2, TurnParts, Answers3
    DEF WaitForTurn, WaitForInv, News
<1>15. CASE kind = "from_future"
  <2>1. FromFutureTurn(st, r).at = "return" /\ FromFutureTurn(st, r).poll = Some(v) BY <1>2, <1>15, OuterTurns
  <2>2. FromFutureInv /\ SingleInv BY <1>15 DEF IInv, Singles, Plain
  <2> QED
    BY <1>2, <1>3, <1>4, <1>15, <2>1, <2>2, TurnParts, Answers3
    DEF FromFutureTurn, FromFutureInv, News
<1>16. CASE kind = "from_stream"
  <2>1. FromStreamTurn(st, r).at = "return" /\ FromStreamTurn(st, r).poll = Some(v) BY <1>2, <1>16, OuterTurns
  <2>2. FromStreamInv /\ SingleInv BY <1>16 DEF IInv, Singles, Plain
  <2> QED
    BY <1>2, <1>3, <1>4, <1>16, <2>1, <2>2, TurnParts, Answers3
    DEF FromStreamTurn, FromStreamInv, News
<1>17. CASE kind = "map_ref"
  <2>1. MapRefLeft(st, r).at = "return" /\ MapRefLeft(st, r).poll = Some(v) BY <1>2, <1>17, OuterTurns
  <2>2. MapRefInv BY <1>17 DEF IInv, Singles, Plain
  <2> QED
    BY <1>2, <1>3, <1>4, <1>17, <2>1, <2>2, TurnParts, Answers3
    DEF MapRefLeft, MapRefInv, News
<1>18. CASE kind = "map_future"
  <2>1. MapFutureSignal(st, r).at = "return" /\ MapFutureSignal(st, r).poll = Some(v) BY <1>2, <1>18, OuterTurns
  <2>2. MapFutureInv BY <1>18 DEF IInv, Singles, Plain
  <2> QED
    BY <1>2, <1>3, <1>4, <1>18, <2>1, <2>2, TurnParts, Answers3
    DEF MapFutureSignal, MapFutureInv, News
<1>19. CASE kind = "throttle"
  <2>1. ThrottleSignal(st, r).at = "return" /\ ThrottleSignal(st, r).poll = Some(v) BY <1>2, <1>19, OuterTurns
  <2>2. ThrottleInv BY <1>19 DEF IInv, Singles, Plain
  <2> QED
    BY <1>2, <1>3, <1>4, <1>19, <2>1, <2>2, TurnParts, Answers3
    DEF ThrottleSignal, ThrottleInv, News
<1>20. CASE kind = "flatten"
  <2>1. FlattenParent(st, r).at = "return" /\ FlattenParent(st, r).poll = Some(v) BY <1>2, <1>20, OuterTurns
  <2>2. FlattenInv BY <1>20 DEF IInv, Singles, Plain
  <2> QED
    BY <1>2, <1>3, <1>4, <1>20, <2>1, <2>2, TurnParts, Answers3
    DEF FlattenParent, FlattenInv, News
<1>21. CASE kind = "sample"
  <2>1. SampleSignal(st, r).at = "return" /\ SampleSignal(st, r).poll = Some(v) BY <1>2, <1>21, OuterTurns
  <2>2. SampleInv BY <1>21 DEF IInv, Singles, Plain
  <2> QED
    BY <1>2, <1>3, <1>4, <1>21, <2>1, <2>2, TurnParts, Answers3
    DEF SampleSignal, SampleInv, News
<1> QED
  BY <1>4, KindIs, <1>5, <1>6, <1>7, <1>8, <1>9, <1>10, <1>11, <1>12, <1>13, <1>14, <1>15, <1>16, <1>17, <1>18, <1>19, <1>20, <1>21

LEMMA NewsInner ==
    ASSUME IInv, PollInner, NEW v, Returns(v)
    PROVE  News(v)
<1>1. PICK r : /\ Answered(inner, inner', st.inner, r, InnerAnswer)
               /\ inner' \in Inputs
               /\ r = Answer(inner, st.inner)
  BY InnerAnswered DEF IInv
<1>2. /\ InnerTurn(r).at = "return" /\ InnerTurn(r).poll = Some(v)
      /\ pc = "inner"
  BY <1>1 DEF Returns, PollInner
<1>3. \/ st.inner /\ inner.fresh /\ r = Some(InnerAnswer)
      \/ ~st.inner /\ r = Gone
      \/ st.inner /\ Finished(inner) /\ r = None
      \/ st.inner /\ ~inner.fresh /\ ~inner.closed /\ r = Pending
  BY <1>1, AnsweredFields DEF IInv, Typed, Structs
<1>4. /\ Typed /\ NoValue \notin Values /\ NoValue \notin BOOLEAN
      /\ Keep \subseteq Values
      /\ \A w \in Values : Image(w) \in Values
      /\ kind \in {"map_ref", "sample", "flatten"} => NoValue \notin Answers \X Answers
      /\ outer.fresh => outer.value \in Values
      /\ inner.fresh => inner.value \in Values
  BY ValuesAssumption, NoValueAssumption DEF IInv, Typed, Answers
<1>5. CASE kind = "map_ref"
  <2>1. MapRefRight(st, r).at = "return" /\ MapRefRight(st, r).poll = Some(v) BY <1>2, <1>5, InnerTurns
  <2>2. MapRefInv BY <1>5 DEF IInv, Singles, Plain
  <2> QED
    BY <1>2, <1>3, <1>4, <1>5, <2>1, <2>2, TurnParts, Answers3
    DEF MapRefRight, MapRefResult, MapRefInv, News, InnerAnswer, Answers, Inputs, Typed
<1>6. CASE kind = "map_future"
  <2>1. MapFutureFuture(st, r).at = "return" /\ MapFutureFuture(st, r).poll = Some(v) BY <1>2, <1>6, InnerTurns
  <2>2. MapFutureInv BY <1>6 DEF IInv, Singles, Plain
  <2> QED
    BY <1>2, <1>3, <1>4, <1>6, <2>1, <2>2, TurnParts, Answers3
    DEF MapFutureFuture, MapFutureInv, News, InnerAnswer, Answers, Inputs, Typed
<1>7. CASE kind = "throttle"
  <2>1. ThrottleFuture(st, r).at = "return" /\ ThrottleFuture(st, r).poll = Some(v) BY <1>2, <1>7, InnerTurns
  <2>2. ThrottleInv BY <1>7 DEF IInv, Singles, Plain
  <2> QED
    BY <1>2, <1>3, <1>4, <1>7, <2>1, <2>2, TurnParts, Answers3
    DEF ThrottleFuture, ThrottleInv, News, InnerAnswer, Answers, Inputs, Typed
<1>8. CASE kind = "flatten"
  <2>1. FlattenInner(st, r).at = "return" /\ FlattenInner(st, r).poll = Some(v) BY <1>2, <1>8, InnerTurns
  <2>2. FlattenInv BY <1>8 DEF IInv, Singles, Plain
  <2> QED
    BY <1>2, <1>3, <1>4, <1>8, <2>1, <2>2, TurnParts, Answers3
    DEF FlattenInner, FlattenInv, News, InnerAnswer, Answers, Inputs, Typed
<1>9. CASE kind = "sample"
  <2>1. SampleStream(st, r).at = "return" /\ SampleStream(st, r).poll = Some(v) BY <1>2, <1>9, InnerTurns
  <2>2. SampleInv BY <1>9 DEF IInv, Singles, Plain
  <2> QED
    BY <1>2, <1>3, <1>4, <1>9, <2>1, <2>2, TurnParts, Answers3
    DEF SampleStream, SampleInv, News, InnerAnswer, Answers, Inputs, Typed
<1>10. kind \notin Singles BY <1>2 DEF IInv, SingleInv
<1> QED
  BY <1>4, KindIs, <1>5, <1>6, <1>7, <1>8, <1>9, <1>10 DEF Singles

\* Nothing is returned twice and nothing after the end: dedupe, eq and neq
\* return only changes, stop_if and first stop, None comes only at the start.
THEOREM OnlyNews == Spec => ReturnsNews
<1>1. IInv /\ [Next]_vars =>
          [Turn => \A v \in Outputs : Returns(v) => News(v)]_vars
  BY NewsOuter, NewsInner DEF Turn
<1> QED BY <1>1, InductiveInvariant, PTL DEF Spec, ReturnsNews
=============================================================================
