--------------------------- MODULE MCBroadcaster ---------------------------
(* Small instances of Broadcaster for TLC.                                 *)
EXTENDS Broadcaster

CONSTANTS c1, c2

TwoChildren == {c1, c2}
=============================================================================
