------------------------------- MODULE Lifecycle -------------------------------
(***************************************************************************)
(* The pull-request lifecycle of simulation/domain.py as pure operators.   *)
(*                                                                         *)
(* A pull request is an immutable record; every event of the lifecycle is  *)
(* an operator from a record and an instant to the next record.  Where the *)
(* code raises (TransitionError or the ValueError of the record contract)  *)
(* the operator returns the record in the extra state "raised", so that    *)
(* "no event is ever rejected" is a property of the state.                 *)
(*                                                                         *)
(* Instants and durations are integers: the code uses floats here and      *)
(* exact fractions in the engine, and nothing below depends on density.    *)
(* terminal_at is not kept: every terminal event gives it the value of     *)
(* last_transition_at.                                                     *)
(***************************************************************************)
EXTENDS Integers

None == -1

Terminal == {"merged", "closed_without_merge", "unresolved"}

(* The states from which CLOSED, ABANDONED and HORIZON_REACHED are legal.  *)
Live == {"ready", "verifying", "author_response", "queued_for_review",
         "in_review", "approved_waiting_merge"}

Reasons == {"none", "merged", "closed_without_merge", "abandoned", "horizon"}

OptTime == Nat \cup {None}

PullRequest ==
  [author                    : Nat,
   ready_at                  : Nat,
   state                     : Live \cup Terminal \cup {"raised"},
   revision                  : Nat,
   first_review_at           : OptTime,
   first_review_completed_at : OptTime,
   terminal_reason           : Reasons,
   review_visit_count        : Nat,
   requested_change_count    : Nat,
   verification_count        : Nat,
   verified_revision         : OptTime,
   approved_revision         : OptTime,
   queue_entered_at          : OptTime,
   queue_wait_seconds        : Nat,
   active_review_seconds     : Nat,
   bypass_eligible           : BOOLEAN,
   bypass_audited            : BOOLEAN,
   review_bypassed           : BOOLEAN,
   abandonment_deadline      : OptTime,
   last_transition_at        : Nat]

(* A proposal as the engine accepts it: READY, with no history.            *)
Fresh(author, ready, eligible, audited) ==
  [author                    |-> author,
   ready_at                  |-> ready,
   state                     |-> "ready",
   revision                  |-> 1,
   first_review_at           |-> None,
   first_review_completed_at |-> None,
   terminal_reason           |-> "none",
   review_visit_count        |-> 0,
   requested_change_count    |-> 0,
   verification_count        |-> 0,
   verified_revision         |-> None,
   approved_revision         |-> None,
   queue_entered_at          |-> None,
   queue_wait_seconds        |-> 0,
   active_review_seconds     |-> 0,
   bypass_eligible           |-> eligible,
   bypass_audited            |-> audited,
   review_bypassed           |-> FALSE,
   abandonment_deadline      |-> None,
   last_transition_at        |-> ready]

-----------------------------------------------------------------------------
IsTerminal(p) == p.state \in Terminal

VerificationValid(p) == p.verified_revision = p.revision

ApprovalValid(p) == p.approved_revision = p.revision

(* What a merge needs: the current revision verified, and either approved  *)
(* by a reviewer or recorded as bypassed.                                  *)
Cleared(p) == VerificationValid(p) /\ (ApprovalValid(p) \/ p.review_bypassed)

ReasonsOf(state) ==
  CASE state = "merged"               -> {"merged"}
    [] state = "closed_without_merge" -> {"closed_without_merge", "abandoned"}
    [] state = "unresolved"           -> {"horizon"}
    [] OTHER                          -> {"none"}

Chronology(p) ==
  /\ p.last_transition_at >= p.ready_at
  /\ p.first_review_at # None =>
       p.first_review_at \in p.ready_at .. p.last_transition_at
  /\ p.first_review_completed_at # None =>
       /\ p.first_review_at # None
       /\ p.first_review_completed_at
            \in p.first_review_at .. p.last_transition_at
  /\ p.queue_entered_at # None =>
       p.queue_entered_at \in p.ready_at .. p.last_transition_at
  /\ p.abandonment_deadline # None => p.abandonment_deadline > p.ready_at

(* The record contract: __post_init__ runs on every construction and on    *)
(* every replace().                                                        *)
Contract(p) ==
  /\ p.revision >= 1
  /\ p.verified_revision # None => p.verified_revision \in 1 .. p.revision
  /\ p.approved_revision # None => p.approved_revision \in 1 .. p.revision
  /\ p.terminal_reason \in ReasonsOf(p.state)
  /\ Chronology(p)
  /\ p.queue_entered_at # None => p.state = "queued_for_review"
  /\ p.review_bypassed =>
       /\ p.bypass_eligible /\ ~p.bypass_audited
       /\ VerificationValid(p)
       /\ p.state \in {"approved_waiting_merge"} \cup Terminal
  /\ p.state \in {"approved_waiting_merge", "merged"} => Cleared(p)

Raise(p) == [p EXCEPT !.state = "raised"]

(* transition(): the event is legal from the given states, at an instant   *)
(* not before the previous transition, under the event's own guard, and    *)
(* the record it builds satisfies the contract; otherwise it raises.       *)
Fire(p, from, guard, q, at) ==
  IF /\ at >= p.ready_at /\ at >= p.last_transition_at
     /\ p.state \in from
     /\ guard
     /\ Contract(q)
  THEN q
  ELSE Raise(p)

-----------------------------------------------------------------------------
StartVerification(p, at) ==
  Fire(p, {"ready"}, TRUE,
       [p EXCEPT !.state = "verifying",
                 !.verification_count = @ + 1,
                 !.last_transition_at = at], at)

VerificationPassed(p, at) ==
  Fire(p, {"verifying"}, TRUE,
       [p EXCEPT !.state = "queued_for_review",
                 !.verified_revision = p.revision,
                 !.queue_entered_at = at,
                 !.last_transition_at = at], at)

VerificationFailed(p, at) ==
  Fire(p, {"verifying"}, TRUE,
       [p EXCEPT !.state = "author_response",
                 !.last_transition_at = at], at)

(* Mutant: the recorded bypass outlives the revision it was granted to.    *)
RevisionSubmittedKeepsBypass(p, at) ==
  Fire(p, {"author_response", "approved_waiting_merge"}, TRUE,
       [p EXCEPT !.state = "verifying",
                 !.revision = @ + 1,
                 !.verification_count = @ + 1,
                 !.verified_revision = None,
                 !.approved_revision = None,
                 !.last_transition_at = at], at)

(* Mutant: the new revision keeps the number of the old one.               *)
RevisionSubmittedSameNumber(p, at) ==
  Fire(p, {"author_response", "approved_waiting_merge"}, TRUE,
       [p EXCEPT !.state = "verifying",
                 !.verification_count = @ + 1,
                 !.verified_revision = None,
                 !.approved_revision = None,
                 !.review_bypassed = FALSE,
                 !.last_transition_at = at], at)

RevisionSubmitted(p, at) ==
  Fire(p, {"author_response", "approved_waiting_merge"}, TRUE,
       [p EXCEPT !.state = "verifying",
                 !.revision = @ + 1,
                 !.verification_count = @ + 1,
                 !.verified_revision = None,
                 !.approved_revision = None,
                 !.queue_entered_at = None,
                 !.review_bypassed = FALSE,
                 !.last_transition_at = at], at)

ReviewStarted(p, at) ==
  Fire(p, {"queued_for_review"},
       p.queue_entered_at # None /\ VerificationValid(p),
       [p EXCEPT !.state = "in_review",
                 !.first_review_at = IF @ = None THEN at ELSE @,
                 !.review_visit_count = @ + 1,
                 !.queue_wait_seconds = @ + at - p.queue_entered_at,
                 !.queue_entered_at = None,
                 !.last_transition_at = at], at)

ReviewApproved(p, at) ==
  Fire(p, {"in_review"}, TRUE,
       [p EXCEPT !.state = "approved_waiting_merge",
                 !.approved_revision = p.revision,
                 !.first_review_completed_at = IF @ = None THEN at ELSE @,
                 !.last_transition_at = at], at)

ChangesRequested(p, at) ==
  Fire(p, {"in_review"}, TRUE,
       [p EXCEPT !.state = "author_response",
                 !.requested_change_count = @ + 1,
                 !.approved_revision = None,
                 !.first_review_completed_at = IF @ = None THEN at ELSE @,
                 !.last_transition_at = at], at)

ReviewBypassed(p, at) ==
  Fire(p, {"queued_for_review"},
       p.bypass_eligible /\ ~p.bypass_audited /\ VerificationValid(p),
       [p EXCEPT !.state = "approved_waiting_merge",
                 !.queue_entered_at = None,
                 !.review_bypassed = TRUE,
                 !.last_transition_at = at], at)

(* Mutant: a proposal that terminates in the queue leaves its wait open.   *)
TerminateOpenWait(p, from, guard, state, reason, at) ==
  Fire(p, from, guard,
       [p EXCEPT !.state = state,
                 !.terminal_reason = reason,
                 !.queue_entered_at = None,
                 !.last_transition_at = at], at)

(* _terminate: an open queue visit is closed into the waiting time.        *)
Terminate(p, from, guard, state, reason, at) ==
  Fire(p, from, guard,
       [p EXCEPT !.state = state,
                 !.terminal_reason = reason,
                 !.queue_wait_seconds =
                    IF p.queue_entered_at = None
                    THEN @ ELSE @ + at - p.queue_entered_at,
                 !.queue_entered_at = None,
                 !.last_transition_at = at], at)

MergeCompleted(p, at) ==
  Terminate(p, {"approved_waiting_merge"}, Cleared(p), "merged", "merged", at)

Closed(p, at) ==
  Terminate(p, Live, TRUE, "closed_without_merge", "closed_without_merge", at)

Abandoned(p, at) ==
  Terminate(p, Live, TRUE, "closed_without_merge", "abandoned", at)

HorizonReached(p, at) ==
  Terminate(p, Live, TRUE, "unresolved", "horizon", at)

ConsumeReviewService(p, seconds) ==
  IF p.state = "in_review" /\ seconds >= 0
  THEN [p EXCEPT !.active_review_seconds = @ + seconds]
  ELSE Raise(p)
=============================================================================
