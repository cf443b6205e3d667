------------------------------ MODULE VecDiffs ------------------------------
(***************************************************************************)
(* VecDiff (src/signal_vec.rs): the change that a SignalVec sends instead  *)
(* of its contents.  Indexes count from zero, as in the code; the contents *)
(* are sequences.                                                          *)
(***************************************************************************)
EXTENDS Integers, SequencesExt

ReplaceDiff(vs)   == [op |-> "Replace", values |-> vs]
InsertDiff(i, v)  == [op |-> "InsertAt", index |-> i, value |-> v]
UpdateDiff(i, v)  == [op |-> "UpdateAt", index |-> i, value |-> v]
RemoveDiff(i)     == [op |-> "RemoveAt", index |-> i]
MoveDiff(old, new) == [op |-> "Move", old |-> old, new |-> new]
PushDiff(v)       == [op |-> "Push", value |-> v]
PopDiff           == [op |-> "Pop"]
ClearDiff         == [op |-> "Clear"]

\* What Vec::insert and Vec::remove make of s, with the code's indexes.
VecInsert(s, i, v) == InsertAt(s, i + 1, v)
VecRemove(s, i)    == RemoveAt(s, i + 1)
VecPop(s)          == Front(s)
VecMove(s, old, new) == VecInsert(VecRemove(s, old), new, s[old + 1])

\* The contents s without the indexes from..to-1.
VecDrain(s, from, to) == SubSeq(s, 1, from) \o SubSeq(s, to + 1, Len(s))

\* apply_to_vec does not panic: every index is in the range it is used with.
Applicable(d, s) ==
    CASE d.op = "InsertAt" -> d.index \in 0..Len(s)
      [] d.op \in {"UpdateAt", "RemoveAt"} -> d.index \in 0..(Len(s) - 1)
      [] d.op = "Move" -> {d.old, d.new} \subseteq 0..(Len(s) - 1)
      [] d.op = "Pop" -> s # <<>>
      [] OTHER -> TRUE

\* apply_to_vec.
Apply(d, s) ==
    CASE d.op = "Replace"  -> d.values
      [] d.op = "InsertAt" -> VecInsert(s, d.index, d.value)
      [] d.op = "UpdateAt" -> ReplaceAt(s, d.index + 1, d.value)
      [] d.op = "RemoveAt" -> VecRemove(s, d.index)
      [] d.op = "Move"     -> VecMove(s, d.old, d.new)
      [] d.op = "Push"     -> Append(s, d.value)
      [] d.op = "Pop"      -> VecPop(s)
      [] d.op = "Clear"    -> <<>>

\* VecDiff::map, with a callback that gives image[v] for v.
MapVecDiff(d, image) ==
    CASE d.op = "Replace" ->
            ReplaceDiff([i \in DOMAIN d.values |-> image[d.values[i]]])
      [] d.op \in {"InsertAt", "UpdateAt", "Push"} -> [d EXCEPT !.value = image[@]]
      [] OTHER -> d

\* Every diff that is applicable to s and leaves at most max of the values V.
LegalDiffs(s, V, max) ==
    {ReplaceDiff(vs) : vs \in SeqOf(V, max)}
    \cup {UpdateDiff(i, v) : i \in 0..(Len(s) - 1), v \in V}
    \cup {RemoveDiff(i) : i \in 0..(Len(s) - 1)}
    \cup {MoveDiff(i, j) : i, j \in 0..(Len(s) - 1)}
    \cup {PopDiff : i \in 1..Len(s)}
    \cup {ClearDiff}
    \cup (IF Len(s) = max THEN {}
          ELSE {InsertDiff(i, v) : i \in 0..Len(s), v \in V}
               \cup {PushDiff(v) : v \in V})

\* What a diff made of an adapter, and the diffs it returns one per poll.
Fed(st, out) == [st |-> st, out |-> out]
=============================================================================
