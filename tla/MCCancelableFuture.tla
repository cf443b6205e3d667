------------------------- MODULE MCCancelableFuture -------------------------
(* Instances of CancelableFuture for TLC.                                  *)
EXTENDS CancelableFuture
=============================================================================
