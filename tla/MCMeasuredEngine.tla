--------------------------- MODULE MCMeasuredEngine ---------------------------
(***************************************************************************)
(* Small instances of MeasuredEngine.                                      *)
(***************************************************************************)
EXTENDS MCFifoEngine, MeasuredEngine

(* A deadline that a review may run into.                                  *)
MayAbandonOnce == {None, 3}
=============================================================================
