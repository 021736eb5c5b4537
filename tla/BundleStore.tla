------------------------------ MODULE BundleStore ------------------------------
(***************************************************************************)
(* What publication promises about an output directory, whatever fails: a  *)
(* reader sees the latest complete bundle or, for a moment, nothing; and   *)
(* the latest complete bundle is never given up before a newer one is in   *)
(* its place.                                                              *)
(***************************************************************************)
EXTENDS Naturals

VARIABLES kept,  \* the latest complete bundle on disk, 0 if there is none
          shown  \* the bundle under the published name, 0 if there is none

Init == kept \in {0, 1} /\ shown = kept

Publish ==
  /\ kept' > kept
  /\ shown' = kept'

Hide == shown' = 0 /\ UNCHANGED kept

Restore == shown' = kept /\ UNCHANGED kept

Next == Publish \/ Hide \/ Restore

Spec == Init /\ [][Next]_<<kept, shown>>
=============================================================================
