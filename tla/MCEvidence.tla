------------------------------- MODULE MCEvidence -------------------------------
(* Instance of Evidence for TLC.                                           *)
EXTENDS Evidence

(* Weeks of six units: an idle one, one with arrivals on both days and one *)
(* with an arrival in its last unit.                                       *)
SomeTemplates == {<<>>, <<0, 3>>, <<5>>}
=============================================================================
