---------------------------- MODULE ClosableCell ----------------------------
(***************************************************************************)
(* A most-recent-value cell that any writer may close while calls of other *)
(* writers are under way.  Until a close overtakes such a call the cell    *)
(* promises all that LatestValue does.  After it the cell may be written   *)
(* once more, although it was closed and its observers were told so, and   *)
(* it may be open again if the call was one that counts writers.  What an  *)
(* observer is given is the cell's present version all the same, and an    *)
(* observer that was told of the end is given nothing more.                *)
(***************************************************************************)
EXTENDS LatestValue

VARIABLE overtaken      \* kinds of the calls that a close overtook

ClosableInit == Init /\ overtaken = {}

\* A close although calls that found the cell open have still to act.
Overtake ==
    /\ closed'
    /\ overtaken' # {}
    /\ overtaken \subseteq overtaken'
    /\ UNCHANGED <<version, output, ended>>

LateWrite ==
    /\ overtaken # {}
    /\ version' > version
    /\ UNCHANGED <<closed, output, ended, overtaken>>

\* The count of writers was zero and is changed by an overtaken call.
Reopen ==
    /\ closed
    /\ overtaken \cap {"clone", "drop"} # {}
    /\ closed' = FALSE
    /\ UNCHANGED <<version, output, ended, overtaken>>

ClosableNext ==
    \/ Next /\ UNCHANGED overtaken
    \/ Overtake
    \/ LateWrite
    \/ Reopen

ClosableSpec == ClosableInit /\ [][ClosableNext]_<<vars, overtaken>>
=============================================================================
