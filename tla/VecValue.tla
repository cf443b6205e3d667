------------------------------ MODULE VecValue ------------------------------
(***************************************************************************)
(* The Signals made of a SignalVec (src/signal_vec.rs): Len, IsEmpty,      *)
(* ToSignalMap and SumSignal.  A poll takes diffs until the input is       *)
(* pending, and then returns the value if it changed or was never          *)
(* returned.  The callback of to_signal_map is the identity.               *)
(***************************************************************************)
EXTENDS VecDiffs

NoValue == <<>>     \* nothing was returned yet; IsEmpty.old is None
Some(value) == <<value>>

Signals == {"len", "is_empty", "to_signal_map", "sum"}

\* values also stands for the len of Len.
ValueState(values, changed, st) ==
    [st EXCEPT !.values = values, !.changed = @ \/ changed]

FirstState == [values |-> <<>>, changed |-> FALSE, first |-> TRUE,
               old |-> NoValue]

\* Which diffs change the length.
LenChanges(d, values) ==
    CASE d.op = "Replace" -> Len(d.values) # Len(values)
      [] d.op = "Clear" -> values # <<>>
      [] d.op \in {"UpdateAt", "Move"} -> FALSE
      [] OTHER -> TRUE

\* One turn of the loop in poll_change.
ValueFeed(kind, st, d) ==
    Fed(ValueState(Apply(d, st.values),
            CASE kind \in {"len", "is_empty"} -> LenChanges(d, st.values)
              [] kind = "sum" -> d.op # "Move"
              [] OTHER -> TRUE,
            st), <<>>)

\* The sum of the numbers in s.
SumOf(s) ==
    LET upTo[i \in 0..Len(s)] == IF i = 0 THEN 0 ELSE upTo[i - 1] + s[i]
    IN  upTo[Len(s)]

\* The value of the signal for the contents s.
Value(kind, s) ==
    Some(CASE kind = "len" -> Len(s)
           [] kind = "is_empty" -> s = <<>>
           [] kind = "sum" -> SumOf(s)
           [] kind = "to_signal_map" -> s)

\* The end of the loop: Len and the others return their value.
Emits(st) == st.changed \/ st.first

\* IsEmpty keeps a value to itself that equals its last one.
Returns(kind, st) ==
    Emits(st) /\ (kind = "is_empty" => Value(kind, st.values) # st.old)

AfterEnd(kind, st) ==
    [st EXCEPT !.changed = FALSE, !.first = FALSE,
               !.old = IF kind = "is_empty" /\ Emits(st)
                       THEN Value(kind, st.values) ELSE @]
=============================================================================
