----------------------------- MODULE MCPublication -----------------------------
(***************************************************************************)
(* Instances of Publication: how many file operations may fail per call.   *)
(***************************************************************************)
EXTENDS Publication

(* A rewrite meets at most one: see the run publication_interrupted for    *)
(* what more than that costs.                                              *)
FailuresPerCall == [experiment |-> 2, fresh |-> 2, rewrite |-> 1]

NoFailures == [rewrite |-> 0]
=============================================================================
