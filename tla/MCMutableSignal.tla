-------------------------- MODULE MCMutableSignal --------------------------
(* Small instances of MutableSignal for TLC.                               *)
EXTENDS MutableSignal

CONSTANTS h1, h2, s1, s2

TwoHandles == {h1, h2}
OneSignal == {s1}
TwoSignals == {s1, s2}
=============================================================================
