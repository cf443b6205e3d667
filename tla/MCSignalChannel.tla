-------------------------- MODULE MCSignalChannel --------------------------
(* Small instances of SignalChannel for TLC.                               *)
EXTENDS SignalChannel

CONSTANTS a, b, c

TwoSenders == {a, b}
ThreeSenders == {a, b, c}
=============================================================================
