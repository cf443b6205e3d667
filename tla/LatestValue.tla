---------------------------- MODULE LatestValue ----------------------------
(***************************************************************************)
(* What a lossy but most-recent value cell promises its observers.  A cell *)
(* holds one value, known here by its version.  Observers may skip         *)
(* versions, never go back, never see a version before it is written, and  *)
(* are told that the cell ended only once it was closed, after which no    *)
(* version is written.                                                     *)
(***************************************************************************)
EXTENDS Naturals

CONSTANTS Observers

VARIABLES
    version,    \* version of the value in the cell, 0 while it has none
    closed,     \* no writer is left
    output,     \* output[s]: the last version s was given, 0 for none
    ended       \* ended[s]: s was told that the cell ended

vars == <<version, closed, output, ended>>

Init ==
    /\ version \in {0, 1}
    /\ closed = FALSE
    /\ output = [s \in Observers |-> 0]
    /\ ended = [s \in Observers |-> FALSE]

Write ==
    /\ ~closed
    /\ version' > version
    /\ UNCHANGED <<closed, output, ended>>

Close ==
    /\ ~closed
    /\ closed' = TRUE
    /\ UNCHANGED <<version, output, ended>>

\* An observer is given the version the cell holds now, whatever it missed.
Emit(s) ==
    /\ ~ended[s]
    /\ output' = [output EXCEPT ![s] = version]
    /\ UNCHANGED <<version, closed, ended>>

End(s) ==
    /\ closed
    /\ ~ended[s]
    /\ ended' = [ended EXCEPT ![s] = TRUE]
    /\ UNCHANGED <<version, closed, output>>

Next ==
    \/ Write
    \/ Close
    \/ \E s \in Observers : Emit(s) \/ End(s)

Spec == Init /\ [][Next]_vars
=============================================================================
