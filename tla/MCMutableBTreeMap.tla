------------------------- MODULE MCMutableBTreeMap --------------------------
(* Instances of MutableBTreeMap for TLC.                                   *)
EXTENDS MutableBTreeMap, TLC

CONSTANTS r1, r2, x, y

TwoReceivers == {r1, r2}

TwoValues == {x, y}

\* A callback that tells the values apart and treats them alike.
MCImage == [v \in TwoValues |-> <<v>>]

Symmetry == Permutations(Values) \cup Permutations(Receivers)
=============================================================================
