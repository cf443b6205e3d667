---------------------------- MODULE AtomicCells ----------------------------
(***************************************************************************)
(* What several Mutables promise together.  Each is a cell; a write        *)
(* replaces the content of one, a swap exchanges two in one step, and an   *)
(* observer of a cell is given what the cell holds at that moment.         *)
(***************************************************************************)
EXTENDS Naturals

CONSTANTS Cells

VARIABLES
    content,    \* content[m]: the value in the cell m
    output      \* output[m]: the last value the observer of m was given

vars == <<content, output>>

Init ==
    /\ content \in [Cells -> Nat]
    /\ output = [m \in Cells |-> 0]

Write(m) ==
    /\ content'[m] \in Nat
    /\ \A n \in Cells \ {m} : content'[n] = content[n]
    /\ UNCHANGED output

Swap(m, n) ==
    /\ content' = [content EXCEPT ![m] = content[n], ![n] = content[m]]
    /\ UNCHANGED output

Emit(m) ==
    /\ output' = [output EXCEPT ![m] = content[m]]
    /\ UNCHANGED content

Next ==
    \/ \E m \in Cells : Write(m) \/ Emit(m)
    \/ \E m, n \in Cells : Swap(m, n)

Spec == Init /\ [][Next]_vars
=============================================================================
