----------------------------- MODULE VecFilter ------------------------------
(***************************************************************************)
(* Filter and FilterMap (poll_filter_map in src/signal_vec.rs): which of   *)
(* the input's values are in the output, and what each diff of the input   *)
(* becomes.  A callback that maps as well as filters is abstracted to the  *)
(* set keep of values it lets through.                                     *)
(***************************************************************************)
EXTENDS VecDiffs, FiniteSetsExt

\* How many of the first index values are in the output.
FindIndex(indexes, index) == Cardinality({i \in 1..index : indexes[i]})

\* The values that keep lets through, in their order: the p-th is the one with
\* which there are p.
Passed(values, keep) ==
    LET passing == {i \in DOMAIN values : values[i] \in keep}
        upTo(i) == Cardinality({j \in passing : j <= i})
    IN  [p \in 1..Cardinality(passing) |->
            values[CHOOSE i \in passing : upTo(i) = p]]

FilterReplace(values, keep) ==
    Fed([i \in DOMAIN values |-> values[i] \in keep],
        <<ReplaceDiff(Passed(values, keep))>>)

FilterInsert(indexes, i, v, keep) ==
    LET new == VecInsert(indexes, i, v \in keep)
    IN  Fed(new, IF v \in keep THEN <<InsertDiff(FindIndex(new, i), v)>>
                               ELSE <<>>)

\* Slip: a value that comes in by an update is sent as an update.
FilterUpdate_NoInsert(indexes, i, v, keep) ==
    LET at == FindIndex(indexes, i)
    IN  Fed(ReplaceAt(indexes, i + 1, v \in keep),
            IF v \in keep THEN <<UpdateDiff(at, v)>>
            ELSE IF indexes[i + 1] THEN <<RemoveDiff(at)>>
            ELSE <<>>)

FilterUpdate(indexes, i, v, keep) ==
    LET at == FindIndex(indexes, i)
    IN  Fed(ReplaceAt(indexes, i + 1, v \in keep),
            IF v \in keep
            THEN IF indexes[i + 1] THEN <<UpdateDiff(at, v)>>
                                   ELSE <<InsertDiff(at, v)>>
            ELSE IF indexes[i + 1] THEN <<RemoveDiff(at)>>
            ELSE <<>>)

\* Both indexes are found after the value was put in its new place.
FilterMove(indexes, old, new) ==
    LET moved == VecMove(indexes, old, new)
    IN  Fed(moved,
            IF indexes[old + 1]
            THEN <<MoveDiff(FindIndex(moved, old), FindIndex(moved, new))>>
            ELSE <<>>)

FilterRemove(indexes, i) ==
    LET new == VecRemove(indexes, i)
    IN  Fed(new, IF indexes[i + 1] THEN <<RemoveDiff(FindIndex(new, i))>>
                                   ELSE <<>>)

FilterPush(indexes, v, keep) ==
    Fed(Append(indexes, v \in keep),
        IF v \in keep THEN <<PushDiff(v)>> ELSE <<>>)

FilterPop(indexes) ==
    Fed(VecPop(indexes), IF Last(indexes) THEN <<PopDiff>> ELSE <<>>)

FilterFeed(indexes, d, keep) ==
    CASE d.op = "Replace"  -> FilterReplace(d.values, keep)
      [] d.op = "InsertAt" -> FilterInsert(indexes, d.index, d.value, keep)
      [] d.op = "UpdateAt" -> FilterUpdate(indexes, d.index, d.value, keep)
      [] d.op = "Move"     -> FilterMove(indexes, d.old, d.new)
      [] d.op = "RemoveAt" -> FilterRemove(indexes, d.index)
      [] d.op = "Push"     -> FilterPush(indexes, d.value, keep)
      [] d.op = "Pop"      -> FilterPop(indexes)
      [] d.op = "Clear"    -> Fed(<<>>, <<ClearDiff>>)
=============================================================================
