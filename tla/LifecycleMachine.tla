--------------------------- MODULE LifecycleMachine ---------------------------
(***************************************************************************)
(* One pull request under every legal sequence of lifecycle calls:         *)
(* PullRequest.transition and consume_review_service as any caller may use *)
(* them, including the events the engine never fires (CLOSED, and a        *)
(* revision submitted after approval).                                     *)
(*                                                                         *)
(* A call is legal when the transition table has the event, its own guard  *)
(* holds and its instant is not before the previous transition.  Whether   *)
(* the record it builds then satisfies the contract of __post_init__ is    *)
(* what is checked.                                                        *)
(***************************************************************************)
EXTENDS Lifecycle

CONSTANTS MaxTime,      \* bound on the instants of the calls
          MaxRevision,  \* bound on the revisions submitted
          MaxService    \* bound on the review seconds consumed

ASSUME BoundsAssumption ==
  MaxTime \in Nat /\ MaxRevision \in Nat /\ MaxService \in Nat

VARIABLE p  \* the record

machineVars == <<p>>

MachineInit ==
  \E eligible, audited \in BOOLEAN, deadline \in {None} \cup 1 .. MaxTime :
    p = [Fresh(1, 0, eligible, audited) EXCEPT !.abandonment_deadline = deadline]

(* The instants a caller may pass.                                         *)
Instants == p.last_transition_at .. MaxTime

From(states) == p.state \in states

Verify ==
  /\ From({"ready"})
  /\ \E at \in Instants : p' = StartVerification(p, at)

Pass ==
  /\ From({"verifying"})
  /\ \E at \in Instants : p' = VerificationPassed(p, at)

FailVerification ==
  /\ From({"verifying"})
  /\ \E at \in Instants : p' = VerificationFailed(p, at)

Submit ==
  /\ From({"author_response", "approved_waiting_merge"})
  /\ p.revision < MaxRevision
  /\ \E at \in Instants : p' = RevisionSubmitted(p, at)

Review ==
  /\ From({"queued_for_review"})
  /\ p.queue_entered_at # None /\ VerificationValid(p)
  /\ \E at \in Instants : p' = ReviewStarted(p, at)

Serve ==
  /\ From({"in_review"})
  /\ \E seconds \in 0 .. MaxService - p.active_review_seconds :
       p' = ConsumeReviewService(p, seconds)

Approve ==
  /\ From({"in_review"})
  /\ \E at \in Instants : p' = ReviewApproved(p, at)

RequestChanges ==
  /\ From({"in_review"})
  /\ \E at \in Instants : p' = ChangesRequested(p, at)

Skip ==
  /\ From({"queued_for_review"})
  /\ p.bypass_eligible /\ ~p.bypass_audited /\ VerificationValid(p)
  /\ \E at \in Instants : p' = ReviewBypassed(p, at)

Merge ==
  /\ From({"approved_waiting_merge"})
  /\ Cleared(p)
  /\ \E at \in Instants : p' = MergeCompleted(p, at)

End ==
  /\ From(Live)
  /\ \E at \in Instants :
       p' \in {Closed(p, at), Abandoned(p, at), HorizonReached(p, at)}

MachineNext ==
  \/ Verify \/ Pass \/ FailVerification \/ Submit \/ Review \/ Serve \/ Approve
  \/ RequestChanges \/ Skip \/ Merge \/ End

MachineSpec == MachineInit /\ [][MachineNext]_machineVars

-----------------------------------------------------------------------------
(* No legal sequence of calls builds a record that breaks the contract:    *)
(* the transition table and the checks of __post_init__ agree.             *)
ContractKept == p \in PullRequest /\ p.state # "raised"

(* Each revision is verified once and reviewed at most once, changes are   *)
(* requested at most once per visit: the (proposal, revision) and          *)
(* (proposal, visit) keys of the random streams are never drawn twice.     *)
OneVisitPerRevision ==
  p.state # "ready" /\ ~IsTerminal(p) =>
    /\ p.verification_count = p.revision
    /\ p.requested_change_count <= p.review_visit_count
    /\ p.review_visit_count <=
         IF p.state \in {"verifying", "queued_for_review"}
         THEN p.revision - 1 ELSE p.revision
=============================================================================
