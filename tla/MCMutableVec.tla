---------------------------- MODULE MCMutableVec ----------------------------
(* Instances of MutableVec for TLC.                                        *)
EXTENDS MutableVec, TLC

CONSTANTS r1, r2, x, y

TwoReceivers == {r1, r2}

TwoValues == {x, y}

Symmetry == Permutations(Values) \cup Permutations(Receivers)
=============================================================================
