--------------------------- MODULE MCVecAdapters ----------------------------
(* Instances of VecAdapters for TLC.                                       *)
EXTENDS VecAdapters

\* Adapters that never look at a value need only one; the order has to tell
\* some values apart and others not.
MCValues ==
    [a \in Adapters |-> CASE a \in {"enumerate", "len", "is_empty"} -> {1}
                          [] a = "sort" -> 1..3
                          [] OTHER -> 1..2]

MCImage == <<11, 12>>

\* What the proofs can use is what the operators of the library give.
ASSUME \A s \in SeqOf(1..3, 5) :
    /\ Passed(s, {1, 3}) = SelectSeq(s, LAMBDA v : v \in {1, 3})
    /\ SumOf(s) = FoldLeft(LAMBDA a, b : a + b, 0, s)

TwoRanks == <<0, 1, 1>>
=============================================================================
