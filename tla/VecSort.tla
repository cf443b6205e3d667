------------------------------ MODULE VecSort -------------------------------
(***************************************************************************)
(* SortByCloned (src/signal_vec.rs): the input's values, and their indexes *)
(* in sorted order.  rank stands for the compare callback: it may find     *)
(* different values equal, and then the input's order decides.             *)
(***************************************************************************)
EXTENDS VecDiffs, FiniteSetsExt

\* The value at index i sorts before the one at index j.
Before(values, rank, i, j) ==
    \/ rank[values[i + 1]] < rank[values[j + 1]]
    \/ rank[values[i + 1]] = rank[values[j + 1]] /\ i < j

\* The indexes 0..Len(values)-1 in sorted order: what Replace starts from.
SortedIndexes(values, rank) ==
    LET all == 0..(Len(values) - 1)
    IN  [p \in 1..Len(values) |->
            CHOOSE i \in all :
                Cardinality({j \in all : Before(values, rank, j, i)}) = p - 1]

\* binary_search_insert in sorted indexes: where index i belongs.
SearchInsert(values, rank, indexes, i) ==
    Cardinality({p \in DOMAIN indexes : Before(values, rank, indexes[p], i)})

\* binary_search_remove in sorted indexes: where index i is.
SearchRemove(indexes, i) == (CHOOSE p \in DOMAIN indexes : indexes[p] = i) - 1

\* increment_indexes and decrement_indexes.
IncrementFrom(indexes, start) ==
    [p \in DOMAIN indexes |->
        IF indexes[p] >= start THEN indexes[p] + 1 ELSE indexes[p]]

DecrementAfter(indexes, start) ==
    [p \in DOMAIN indexes |->
        IF indexes[p] > start THEN indexes[p] - 1 ELSE indexes[p]]

SortState(values, indexes) == [values |-> values, indexes |-> indexes]

\* The diffs of insert_at and remove_at, at position p of indexes.
SortedInsert(indexes, p, v) ==
    IF p = Len(indexes) THEN PushDiff(v) ELSE InsertDiff(p, v)

SortedRemove(indexes, p) ==
    IF p = Len(indexes) - 1 THEN PopDiff ELSE RemoveDiff(p)

SortReplace(values, rank) ==
    LET indexes == SortedIndexes(values, rank)
    IN  Fed(SortState(values, indexes),
            <<ReplaceDiff([p \in DOMAIN indexes |-> values[indexes[p] + 1]])>>)

\* InsertAt, and Push as the insertion behind the last index.
SortInsert(st, i, v, rank) ==
    LET values == VecInsert(st.values, i, v)
        shifted == IncrementFrom(st.indexes, i)
        p == SearchInsert(values, rank, shifted, i)
    IN  Fed(SortState(values, VecInsert(shifted, p, i)),
            <<SortedInsert(shifted, p, v)>>)

\* An update in place, or a removal and an insertion that the next poll
\* returns.
SortUpdate(st, i, v, rank) ==
    LET old == SearchRemove(st.indexes, i)
        rest == VecRemove(st.indexes, old)
        values == ReplaceAt(st.values, i + 1, v)
        new == SearchInsert(values, rank, rest, i)
    IN  Fed(SortState(values, VecInsert(rest, new, i)),
            IF old = new THEN <<UpdateDiff(new, v)>>
            ELSE <<SortedRemove(st.indexes, old), SortedInsert(rest, new, v)>>)

\* RemoveAt, and Pop as the removal of the last index.
SortRemove(st, i) ==
    LET p == SearchRemove(st.indexes, i)
    IN  Fed(SortState(VecRemove(st.values, i),
                      VecRemove(DecrementAfter(st.indexes, i), p)),
            <<SortedRemove(st.indexes, p)>>)

\* Silent if the value stays where it was in sorted order.
SortMove(st, old, new, rank) ==
    LET from == SearchRemove(st.indexes, old)
        values == VecMove(st.values, old, new)
        rest == IncrementFrom(
                    VecRemove(DecrementAfter(st.indexes, old), from), new)
        to == SearchInsert(values, rank, rest, new)
    IN  Fed(SortState(values, VecInsert(rest, to, new)),
            IF from = to THEN <<>> ELSE <<MoveDiff(from, to)>>)

SortFeed(st, d, rank) ==
    CASE d.op = "Replace"  -> SortReplace(d.values, rank)
      [] d.op = "InsertAt" -> SortInsert(st, d.index, d.value, rank)
      [] d.op = "Push"     -> SortInsert(st, Len(st.values), d.value, rank)
      [] d.op = "UpdateAt" -> SortUpdate(st, d.index, d.value, rank)
      [] d.op = "RemoveAt" -> SortRemove(st, d.index)
      [] d.op = "Move"     -> SortMove(st, d.old, d.new, rank)
      [] d.op = "Pop"      -> SortRemove(st, Len(st.values) - 1)
      [] d.op = "Clear"    -> Fed(SortState(<<>>, <<>>), <<ClearDiff>>)
=============================================================================
