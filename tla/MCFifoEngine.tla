----------------------------- MODULE MCFifoEngine -----------------------------
(***************************************************************************)
(* Small instances of FifoEngine: values for the constants that a cfg      *)
(* cannot write.                                                           *)
(***************************************************************************)
EXTENDS FifoEngineProperties, TLC

BothOutcomes == {TRUE, FALSE}

(* Reviewer 1 pauses at 2 for one second and is cut off by the horizon;    *)
(* reviewer 2 started before the run and comes back for a short interval.  *)
SplitDuty == (1 :> {<<0, 2>>, <<3, 9>>}) @@ (2 :> {<<-1, 2>>, <<5, 6>>})

(* Back-to-back intervals for reviewer 1, a late start for reviewer 2.     *)
AdjacentDuty == (1 :> {<<0, 2>>, <<2, 4>>}) @@ (2 :> {<<1, 8>>})

ShortAndLong == (1 :> 1) @@ (2 :> 2)

NoFlags == {<<FALSE, FALSE>>}

NobodyAbandons == {None}

(* Deadlines before, at and past the horizon of 5.                         *)
MayAbandon == {None, 2, 3, 5}
=============================================================================
