---------------------------- MODULE VecEnumerate ----------------------------
(***************************************************************************)
(* Enumerate (src/signal_vec.rs): every value comes with a Mutable that    *)
(* holds its index while it is in the output and None afterwards.  The     *)
(* Mutables are named by numbers; those of values that are gone are named  *)
(* anew.                                                                   *)
(***************************************************************************)
EXTENDS VecDiffs, FiniteSetsExt

NoIndex == -1       \* the None of a Mutable<Option<usize>>

\* mutables: the names of the Mutables in the order of the values.
\* index: what each of them holds.
EnumerateState(mutables, index) == [mutables |-> mutables, index |-> index]

\* The k-th of the names that are free.
Fresh(st, k) ==
    LET free == DOMAIN st.index \ ToSet(st.mutables)
    IN  CHOOSE m \in free : Cardinality({n \in free : n <= m}) = k

\* increment_indexes, decrement_indexes: a None stays None.
Shifted(st, range, by) ==
    [m \in DOMAIN st.index |->
        IF m \in range /\ st.index[m] # NoIndex THEN st.index[m] + by
                                               ELSE st.index[m]]

\* The Mutables from index i up to index j - 1.
Slice(mutables, i, j) == {mutables[k] : k \in (i + 1)..j}

EnumerateReplace(st, values) ==
    LET new == [k \in DOMAIN values |-> Fresh(st, k)]
    IN  Fed(EnumerateState(new,
                [m \in DOMAIN st.index |->
                    IF m \in ToSet(new)
                    THEN (CHOOSE k \in DOMAIN new : new[k] = m) - 1
                    ELSE NoIndex]),
            <<ReplaceDiff([k \in DOMAIN values |-> <<new[k], values[k]>>])>>)

EnumerateInsert(st, i, v) ==
    LET new == Fresh(st, 1)
        mutables == VecInsert(st.mutables, i, new)
        later == Slice(mutables, i + 1, Len(mutables))
    IN  Fed(EnumerateState(mutables, [Shifted(st, later, 1) EXCEPT ![new] = i]),
            <<InsertDiff(i, <<new, v>>)>>)

EnumeratePush(st, v) ==
    LET new == Fresh(st, 1)
    IN  Fed(EnumerateState(Append(st.mutables, new),
                           [st.index EXCEPT ![new] = Len(st.mutables)]),
            <<PushDiff(<<new, v>>)>>)

EnumerateUpdate(st, i, v) ==
    Fed(st, <<UpdateDiff(i, <<st.mutables[i + 1], v>>)>>)

\* The Mutables that the moved one passes are shifted, then it is set.
EnumerateMove(st, old, new) ==
    LET mutables == VecMove(st.mutables, old, new)
        index == IF old < new
                 THEN Shifted(st, Slice(mutables, old, new), -1)
                 ELSE Shifted(st, Slice(mutables, new + 1, old + 1), 1)
    IN  Fed(EnumerateState(mutables,
                           [index EXCEPT ![st.mutables[old + 1]] = new]),
            <<MoveDiff(old, new)>>)

\* Slip: the Mutable of a removed value keeps its index.
EnumerateRemove_KeepsIndex(st, i) ==
    LET mutables == VecRemove(st.mutables, i)
        later == Slice(mutables, i, Len(mutables))
    IN  Fed(EnumerateState(mutables, Shifted(st, later, -1)), <<RemoveDiff(i)>>)

EnumerateRemove(st, i) ==
    LET mutables == VecRemove(st.mutables, i)
        later == Slice(mutables, i, Len(mutables))
    IN  Fed(EnumerateState(mutables,
                [Shifted(st, later, -1) EXCEPT ![st.mutables[i + 1]] = NoIndex]),
            <<RemoveDiff(i)>>)

EnumeratePop(st) ==
    Fed(EnumerateState(VecPop(st.mutables),
                       [st.index EXCEPT ![Last(st.mutables)] = NoIndex]),
        <<PopDiff>>)

EnumerateClear(st) ==
    Fed(EnumerateState(<<>>, [m \in DOMAIN st.index |-> NoIndex]), <<ClearDiff>>)

EnumerateFeed(st, d) ==
    CASE d.op = "Replace"  -> EnumerateReplace(st, d.values)
      [] d.op = "InsertAt" -> EnumerateInsert(st, d.index, d.value)
      [] d.op = "Push"     -> EnumeratePush(st, d.value)
      [] d.op = "UpdateAt" -> EnumerateUpdate(st, d.index, d.value)
      [] d.op = "Move"     -> EnumerateMove(st, d.old, d.new)
      [] d.op = "RemoveAt" -> EnumerateRemove(st, d.index)
      [] d.op = "Pop"      -> EnumeratePop(st)
      [] d.op = "Clear"    -> EnumerateClear(st)
=============================================================================
