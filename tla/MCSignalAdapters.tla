-------------------------- MODULE MCSignalAdapters --------------------------
(* Instances of SignalAdapters for TLC.                                    *)
EXTENDS SignalAdapters, Naturals

AllKinds == Singles \cup Timed \cup Joined \cup {"sample"}

\* A callback that maps two values to the same one.
MCImage(v) == IF v = 3 THEN 1 ELSE v
=============================================================================
