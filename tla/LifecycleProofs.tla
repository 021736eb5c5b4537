---------------------------- MODULE LifecycleProofs ----------------------------
(***************************************************************************)
(* One lemma per lifecycle event: applied to a sane record in a legal      *)
(* state, at an instant not before its last transition, the event is not   *)
(* rejected and yields a sane record.                                      *)
(***************************************************************************)
EXTENDS Lifecycle, TLAPS

(* The contract, and what the contract leaves unsaid about the states in   *)
(* which the engine fires REVIEW_STARTED, REVIEW_APPROVED and              *)
(* CHANGES_REQUESTED.                                                      *)
Sane(p) ==
  /\ p \in PullRequest
  /\ p.state # "raised"
  /\ Contract(p)
  /\ p.state \in {"queued_for_review", "in_review"} => VerificationValid(p)
  /\ p.state = "queued_for_review" => p.queue_entered_at # None
  /\ p.state = "in_review" => p.first_review_at # None

(* What every event leaves alone.                                          *)
SameProposal(p, q) ==
  /\ q.author = p.author
  /\ q.ready_at = p.ready_at
  /\ q.abandonment_deadline = p.abandonment_deadline
  /\ q.bypass_eligible = p.bypass_eligible
  /\ q.bypass_audited = p.bypass_audited

(* The event e applied to p at the instant at was accepted.                *)
Accepted(p, q, at, state) ==
  /\ Sane(q)
  /\ q.state = state
  /\ q.last_transition_at = at
  /\ SameProposal(p, q)

(* A fresh proposal is sane.                                               *)
LEMMA FreshSane ==
  ASSUME NEW author \in Nat, NEW ready \in Nat,
         NEW eligible \in BOOLEAN, NEW audited \in BOOLEAN
  PROVE  Sane(Fresh(author, ready, eligible, audited))
BY DEF Sane, Fresh, PullRequest, Contract, Chronology, ReasonsOf, None,
       OptTime, Live, Terminal, Reasons

(* Updating one field within its range keeps a record typed.               *)
LEMMA UpdateTyped ==
  ASSUME NEW p \in PullRequest
  PROVE /\ \A v \in Live \cup Terminal :
             [p EXCEPT !.state = v] \in PullRequest
        /\ \A v \in Nat :
             [p EXCEPT !.revision = v] \in PullRequest
        /\ \A v \in OptTime :
             [p EXCEPT !.first_review_at = v] \in PullRequest
        /\ \A v \in OptTime :
             [p EXCEPT !.first_review_completed_at = v] \in PullRequest
        /\ \A v \in Reasons :
             [p EXCEPT !.terminal_reason = v] \in PullRequest
        /\ \A v \in Nat :
             [p EXCEPT !.review_visit_count = v] \in PullRequest
        /\ \A v \in Nat :
             [p EXCEPT !.requested_change_count = v] \in PullRequest
        /\ \A v \in Nat :
             [p EXCEPT !.verification_count = v] \in PullRequest
        /\ \A v \in OptTime :
             [p EXCEPT !.verified_revision = v] \in PullRequest
        /\ \A v \in OptTime :
             [p EXCEPT !.approved_revision = v] \in PullRequest
        /\ \A v \in OptTime :
             [p EXCEPT !.queue_entered_at = v] \in PullRequest
        /\ \A v \in Nat :
             [p EXCEPT !.queue_wait_seconds = v] \in PullRequest
        /\ \A v \in Nat :
             [p EXCEPT !.active_review_seconds = v] \in PullRequest
        /\ \A v \in BOOLEAN :
             [p EXCEPT !.review_bypassed = v] \in PullRequest
        /\ \A v \in Nat :
             [p EXCEPT !.last_transition_at = v] \in PullRequest
        /\ \A v \in BOOLEAN :
             [p EXCEPT !.bypass_eligible = v] \in PullRequest
        /\ \A v \in BOOLEAN :
             [p EXCEPT !.bypass_audited = v] \in PullRequest
        /\ \A v \in OptTime :
             [p EXCEPT !.abandonment_deadline = v] \in PullRequest
<1> USE DEF PullRequest, OptTime
<1>1. \A v \in Live \cup Terminal : [p EXCEPT !.state = v] \in PullRequest
  OBVIOUS
<1>2. \A v \in Nat : [p EXCEPT !.revision = v] \in PullRequest
  OBVIOUS
<1>3. \A v \in OptTime : [p EXCEPT !.first_review_at = v] \in PullRequest
  OBVIOUS
<1>4. \A v \in OptTime : [p EXCEPT !.first_review_completed_at = v] \in PullRequest
  OBVIOUS
<1>5. \A v \in Reasons : [p EXCEPT !.terminal_reason = v] \in PullRequest
  OBVIOUS
<1>6. \A v \in Nat : [p EXCEPT !.review_visit_count = v] \in PullRequest
  OBVIOUS
<1>7. \A v \in Nat : [p EXCEPT !.requested_change_count = v] \in PullRequest
  OBVIOUS
<1>8. \A v \in Nat : [p EXCEPT !.verification_count = v] \in PullRequest
  OBVIOUS
<1>9. \A v \in OptTime : [p EXCEPT !.verified_revision = v] \in PullRequest
  OBVIOUS
<1>10. \A v \in OptTime : [p EXCEPT !.approved_revision = v] \in PullRequest
  OBVIOUS
<1>11. \A v \in OptTime : [p EXCEPT !.queue_entered_at = v] \in PullRequest
  OBVIOUS
<1>12. \A v \in Nat : [p EXCEPT !.queue_wait_seconds = v] \in PullRequest
  OBVIOUS
<1>13. \A v \in Nat : [p EXCEPT !.active_review_seconds = v] \in PullRequest
  OBVIOUS
<1>14. \A v \in BOOLEAN : [p EXCEPT !.review_bypassed = v] \in PullRequest
  OBVIOUS
<1>15. \A v \in Nat : [p EXCEPT !.last_transition_at = v] \in PullRequest
  OBVIOUS
<1>16. \A v \in BOOLEAN : [p EXCEPT !.bypass_eligible = v] \in PullRequest
  OBVIOUS
<1>17. \A v \in BOOLEAN : [p EXCEPT !.bypass_audited = v] \in PullRequest
  OBVIOUS
<1>18. \A v \in OptTime : [p EXCEPT !.abandonment_deadline = v] \in PullRequest
  OBVIOUS
<1> QED BY <1>1, <1>2, <1>3, <1>4, <1>5, <1>6, <1>7, <1>8, <1>9, <1>10,
           <1>11, <1>12, <1>13, <1>14, <1>15, <1>16, <1>17, <1>18

(* A proposal as classified at entry, with its abandonment deadline.       *)
Classified(p, e, a, d) ==
  [p EXCEPT !.bypass_eligible = e, !.bypass_audited = a,
            !.abandonment_deadline = d]

(* Classifying a proposal at entry and giving it a deadline that lies      *)
(* after its readiness.                                                    *)
LEMMA ClassifySane ==
  ASSUME NEW p, Sane(p), p.state = "ready",
         NEW e \in BOOLEAN, NEW a \in BOOLEAN, NEW d \in OptTime,
         d # None => d > p.ready_at
  PROVE  LET q == Classified(p, e, a, d) IN
         /\ Sane(q)
         /\ q.state = "ready" /\ q.author = p.author
         /\ q.ready_at = p.ready_at
         /\ q.last_transition_at = p.last_transition_at
<1> DEFINE q == Classified(p, e, a, d)
<1> USE DEF Classified
<1>1. p \in PullRequest /\ Contract(p) BY DEF Sane
<1>2. q \in PullRequest
  <2>1. [p EXCEPT !.bypass_eligible = e] \in PullRequest
    BY <1>1, UpdateTyped
  <2>2. [p EXCEPT !.bypass_eligible = e, !.bypass_audited = a] \in PullRequest
    BY <2>1, UpdateTyped
  <2> QED BY <2>2, UpdateTyped
<1>3. /\ q.state = "ready" /\ q.author = p.author
      /\ q.ready_at = p.ready_at
      /\ q.last_transition_at = p.last_transition_at
      /\ q.abandonment_deadline = d
      /\ q.review_bypassed = p.review_bypassed
  BY <1>1 DEF PullRequest
<1>4. ~q.review_bypassed
  BY <1>1, <1>3 DEF Contract, Terminal
<1>5. /\ q.revision >= 1
      /\ q.verified_revision # None => q.verified_revision \in 1 .. q.revision
      /\ q.approved_revision # None => q.approved_revision \in 1 .. q.revision
      /\ q.terminal_reason \in ReasonsOf(q.state)
      /\ Chronology(q)
      /\ q.queue_entered_at # None => q.state = "queued_for_review"
  BY <1>1 DEF PullRequest, Contract, Chronology, ReasonsOf, OptTime, None
<1>6. Contract(q)
  BY <1>3, <1>4, <1>5 DEF Contract
<1> QED BY <1>2, <1>3, <1>6 DEF Sane

(* START_VERIFICATION.                                                     *)
LEMMA StartVerificationSane ==
  ASSUME NEW p, Sane(p), NEW at \in Nat, at >= p.last_transition_at,
         p.state = "ready"
  PROVE  Accepted(p, StartVerification(p, at), at, "verifying")
<1> DEFINE q == [p EXCEPT !.state = "verifying",
                          !.verification_count = @ + 1,
                          !.last_transition_at = at]
<1>1. p \in PullRequest /\ Contract(p) BY DEF Sane
<1>2. q \in PullRequest
  <2>1. p.verification_count + 1 \in Nat
    BY <1>1 DEF PullRequest, OptTime
  <2>2. [p EXCEPT !.state = "verifying"] \in PullRequest
    BY <1>1, UpdateTyped DEF Live, Terminal
  <2>3. [p EXCEPT !.state = "verifying",
                    !.verification_count = @ + 1] \in PullRequest
    BY <2>2, <2>1, UpdateTyped
  <2> QED
    BY <2>3, UpdateTyped
<1>3. /\ Contract(q)
      /\ q.state = "verifying" /\ q.last_transition_at = at /\ SameProposal(p, q)
      /\ q.state \in {"queued_for_review", "in_review"} => VerificationValid(q)
      /\ q.state = "queued_for_review" => q.queue_entered_at # None
      /\ q.state = "in_review" => q.first_review_at # None
  BY <1>1 DEF Sane, PullRequest, OptTime, SameProposal, None, Terminal,
         Contract, Chronology, ReasonsOf,
         VerificationValid, ApprovalValid, Cleared
<1>4. StartVerification(p, at) = q
  BY <1>1, <1>3 DEF Sane, StartVerification, Fire, PullRequest, OptTime, Contract,
         Chronology, VerificationValid
<1> QED BY <1>2, <1>3, <1>4 DEF Accepted, Sane

(* VERIFICATION_PASSED.                                                    *)
LEMMA VerificationPassedSane ==
  ASSUME NEW p, Sane(p), NEW at \in Nat, at >= p.last_transition_at,
         p.state = "verifying"
  PROVE  Accepted(p, VerificationPassed(p, at), at, "queued_for_review")
<1> DEFINE q == [p EXCEPT !.state = "queued_for_review",
                          !.verified_revision = p.revision,
                          !.queue_entered_at = at,
                          !.last_transition_at = at]
<1>1. p \in PullRequest /\ Contract(p) BY DEF Sane
<1>2. q \in PullRequest
  <2>1. p.revision \in OptTime
    BY <1>1 DEF PullRequest, OptTime
  <2>2. [p EXCEPT !.state = "queued_for_review"] \in PullRequest
    BY <1>1, UpdateTyped DEF Live, Terminal
  <2>3. [p EXCEPT !.state = "queued_for_review",
                    !.verified_revision = p.revision] \in PullRequest
    BY <2>2, <2>1, UpdateTyped
  <2>4. [p EXCEPT !.state = "queued_for_review",
                    !.verified_revision = p.revision,
                    !.queue_entered_at = at] \in PullRequest
    BY <2>3, UpdateTyped DEF OptTime
  <2> QED
    BY <2>4, UpdateTyped
<1>3. /\ Contract(q)
      /\ q.state = "queued_for_review" /\ q.last_transition_at = at /\ SameProposal(p, q)
      /\ q.state \in {"queued_for_review", "in_review"} => VerificationValid(q)
      /\ q.state = "queued_for_review" => q.queue_entered_at # None
      /\ q.state = "in_review" => q.first_review_at # None
  BY <1>1 DEF Sane, PullRequest, OptTime, SameProposal, None, Terminal,
         Contract, Chronology, ReasonsOf,
         VerificationValid, ApprovalValid, Cleared
<1>4. VerificationPassed(p, at) = q
  BY <1>1, <1>3 DEF Sane, VerificationPassed, Fire, PullRequest, OptTime, Contract,
         Chronology, VerificationValid
<1> QED BY <1>2, <1>3, <1>4 DEF Accepted, Sane

(* VERIFICATION_FAILED.                                                    *)
LEMMA VerificationFailedSane ==
  ASSUME NEW p, Sane(p), NEW at \in Nat, at >= p.last_transition_at,
         p.state = "verifying"
  PROVE  Accepted(p, VerificationFailed(p, at), at, "author_response")
<1> DEFINE q == [p EXCEPT !.state = "author_response",
                          !.last_transition_at = at]
<1>1. p \in PullRequest /\ Contract(p) BY DEF Sane
<1>2. q \in PullRequest
  <2>1. [p EXCEPT !.state = "author_response"] \in PullRequest
    BY <1>1, UpdateTyped DEF Live, Terminal
  <2> QED
    BY <2>1, UpdateTyped
<1>3. /\ Contract(q)
      /\ q.state = "author_response" /\ q.last_transition_at = at /\ SameProposal(p, q)
      /\ q.state \in {"queued_for_review", "in_review"} => VerificationValid(q)
      /\ q.state = "queued_for_review" => q.queue_entered_at # None
      /\ q.state = "in_review" => q.first_review_at # None
  BY <1>1 DEF Sane, PullRequest, OptTime, SameProposal, None, Terminal,
         Contract, Chronology, ReasonsOf,
         VerificationValid, ApprovalValid, Cleared
<1>4. VerificationFailed(p, at) = q
  BY <1>1, <1>3 DEF Sane, VerificationFailed, Fire, PullRequest, OptTime, Contract,
         Chronology, VerificationValid
<1> QED BY <1>2, <1>3, <1>4 DEF Accepted, Sane

(* REVISION_SUBMITTED; the clearance of the old revision is dropped.       *)
LEMMA RevisionSubmittedSane ==
  ASSUME NEW p, Sane(p), NEW at \in Nat, at >= p.last_transition_at,
         p.state \in {"author_response", "approved_waiting_merge"}
  PROVE  Accepted(p, RevisionSubmitted(p, at), at, "verifying")
<1> DEFINE q == [p EXCEPT !.state = "verifying",
                          !.revision = @ + 1,
                          !.verification_count = @ + 1,
                          !.verified_revision = None,
                          !.approved_revision = None,
                          !.queue_entered_at = None,
                          !.review_bypassed = FALSE,
                          !.last_transition_at = at]
<1>1. p \in PullRequest /\ Contract(p) BY DEF Sane
<1>2. q \in PullRequest
  <2>1. p.revision + 1 \in Nat
    BY <1>1 DEF PullRequest, OptTime
  <2>2. p.verification_count + 1 \in Nat
    BY <1>1 DEF PullRequest, OptTime
  <2>3. [p EXCEPT !.state = "verifying"] \in PullRequest
    BY <1>1, UpdateTyped DEF Live, Terminal
  <2>4. [p EXCEPT !.state = "verifying",
                    !.revision = @ + 1] \in PullRequest
    BY <2>3, <2>1, <2>2, UpdateTyped
  <2>5. [p EXCEPT !.state = "verifying",
                    !.revision = @ + 1,
                    !.verification_count = @ + 1] \in PullRequest
    BY <2>4, <2>1, <2>2, UpdateTyped
  <2>6. [p EXCEPT !.state = "verifying",
                    !.revision = @ + 1,
                    !.verification_count = @ + 1,
                    !.verified_revision = None] \in PullRequest
    BY <2>5, UpdateTyped DEF OptTime
  <2>7. [p EXCEPT !.state = "verifying",
                    !.revision = @ + 1,
                    !.verification_count = @ + 1,
                    !.verified_revision = None,
                    !.approved_revision = None] \in PullRequest
    BY <2>6, UpdateTyped DEF OptTime
  <2>8. [p EXCEPT !.state = "verifying",
                    !.revision = @ + 1,
                    !.verification_count = @ + 1,
                    !.verified_revision = None,
                    !.approved_revision = None,
                    !.queue_entered_at = None] \in PullRequest
    BY <2>7, UpdateTyped DEF OptTime
  <2>9. [p EXCEPT !.state = "verifying",
                    !.revision = @ + 1,
                    !.verification_count = @ + 1,
                    !.verified_revision = None,
                    !.approved_revision = None,
                    !.queue_entered_at = None,
                    !.review_bypassed = FALSE] \in PullRequest
    BY <2>8, UpdateTyped
  <2> QED
    BY <2>9, UpdateTyped
<1>3. /\ Contract(q)
      /\ q.state = "verifying" /\ q.last_transition_at = at /\ SameProposal(p, q)
      /\ q.state \in {"queued_for_review", "in_review"} => VerificationValid(q)
      /\ q.state = "queued_for_review" => q.queue_entered_at # None
      /\ q.state = "in_review" => q.first_review_at # None
  BY <1>1 DEF Sane, PullRequest, OptTime, SameProposal, None, Terminal,
         Contract, Chronology, ReasonsOf,
         VerificationValid, ApprovalValid, Cleared
<1>4. RevisionSubmitted(p, at) = q
  BY <1>1, <1>3 DEF Sane, RevisionSubmitted, Fire, PullRequest, OptTime, Contract,
         Chronology, VerificationValid
<1> QED BY <1>2, <1>3, <1>4 DEF Accepted, Sane

(* REVIEW_STARTED; the queue visit is closed into the waiting time.        *)
LEMMA ReviewStartedSane ==
  ASSUME NEW p, Sane(p), NEW at \in Nat, at >= p.last_transition_at,
         p.state = "queued_for_review"
  PROVE  Accepted(p, ReviewStarted(p, at), at, "in_review")
<1> DEFINE q == [p EXCEPT !.state = "in_review",
                          !.first_review_at = IF @ = None THEN at ELSE @,
                          !.review_visit_count = @ + 1,
                          !.queue_wait_seconds = @ + at - p.queue_entered_at,
                          !.queue_entered_at = None,
                          !.last_transition_at = at]
<1>1. p \in PullRequest /\ Contract(p) BY DEF Sane
<1>2. q \in PullRequest
  <2>1. (IF p.first_review_at = None THEN at ELSE p.first_review_at) \in OptTime
    BY <1>1 DEF PullRequest, OptTime
  <2>2. p.review_visit_count + 1 \in Nat
    BY <1>1 DEF PullRequest, OptTime
  <2>3. p.queue_wait_seconds + at - p.queue_entered_at \in Nat
    BY <1>1 DEF PullRequest, OptTime, Sane, Contract, Chronology, None
  <2>4. [p EXCEPT !.state = "in_review"] \in PullRequest
    BY <1>1, UpdateTyped DEF Live, Terminal
  <2>5. [p EXCEPT !.state = "in_review",
                    !.first_review_at = IF @ = None THEN at ELSE @] \in PullRequest
    BY <2>4, <2>1, <2>2, <2>3, UpdateTyped
  <2>6. [p EXCEPT !.state = "in_review",
                    !.first_review_at = IF @ = None THEN at ELSE @,
                    !.review_visit_count = @ + 1] \in PullRequest
    BY <2>5, <2>1, <2>2, <2>3, UpdateTyped
  <2>7. [p EXCEPT !.state = "in_review",
                    !.first_review_at = IF @ = None THEN at ELSE @,
                    !.review_visit_count = @ + 1,
                    !.queue_wait_seconds = @ + at - p.queue_entered_at] \in PullRequest
    BY <2>6, <2>1, <2>2, <2>3, UpdateTyped
  <2>8. [p EXCEPT !.state = "in_review",
                    !.first_review_at = IF @ = None THEN at ELSE @,
                    !.review_visit_count = @ + 1,
                    !.queue_wait_seconds = @ + at - p.queue_entered_at,
                    !.queue_entered_at = None] \in PullRequest
    BY <2>7, UpdateTyped DEF OptTime
  <2> QED
    BY <2>8, UpdateTyped
<1>3. /\ Contract(q)
      /\ q.state = "in_review" /\ q.last_transition_at = at /\ SameProposal(p, q)
      /\ q.state \in {"queued_for_review", "in_review"} => VerificationValid(q)
      /\ q.state = "queued_for_review" => q.queue_entered_at # None
      /\ q.state = "in_review" => q.first_review_at # None
  BY <1>1 DEF Sane, PullRequest, OptTime, SameProposal, None, Terminal,
         Contract, Chronology, ReasonsOf,
         VerificationValid, ApprovalValid, Cleared
<1>4. ReviewStarted(p, at) = q
  BY <1>1, <1>3 DEF Sane, ReviewStarted, Fire, PullRequest, OptTime, Contract,
         Chronology, VerificationValid
<1> QED BY <1>2, <1>3, <1>4 DEF Accepted, Sane

(* REVIEW_APPROVED.                                                        *)
LEMMA ReviewApprovedSane ==
  ASSUME NEW p, Sane(p), NEW at \in Nat, at >= p.last_transition_at,
         p.state = "in_review"
  PROVE  Accepted(p, ReviewApproved(p, at), at, "approved_waiting_merge")
<1> DEFINE q == [p EXCEPT !.state = "approved_waiting_merge",
                          !.approved_revision = p.revision,
                          !.first_review_completed_at = IF @ = None THEN at ELSE @,
                          !.last_transition_at = at]
<1>1. p \in PullRequest /\ Contract(p) BY DEF Sane
<1>2. q \in PullRequest
  <2>1. p.revision \in OptTime
    BY <1>1 DEF PullRequest, OptTime
  <2>2. (IF p.first_review_completed_at = None THEN at ELSE p.first_review_completed_at) \in OptTime
    BY <1>1 DEF PullRequest, OptTime
  <2>3. [p EXCEPT !.state = "approved_waiting_merge"] \in PullRequest
    BY <1>1, UpdateTyped DEF Live, Terminal
  <2>4. [p EXCEPT !.state = "approved_waiting_merge",
                    !.approved_revision = p.revision] \in PullRequest
    BY <2>3, <2>1, <2>2, UpdateTyped
  <2>5. [p EXCEPT !.state = "approved_waiting_merge",
                    !.approved_revision = p.revision,
                    !.first_review_completed_at = IF @ = None THEN at ELSE @] \in PullRequest
    BY <2>4, <2>1, <2>2, UpdateTyped
  <2> QED
    BY <2>5, UpdateTyped
<1>3. /\ Contract(q)
      /\ q.state = "approved_waiting_merge" /\ q.last_transition_at = at /\ SameProposal(p, q)
      /\ q.state \in {"queued_for_review", "in_review"} => VerificationValid(q)
      /\ q.state = "queued_for_review" => q.queue_entered_at # None
      /\ q.state = "in_review" => q.first_review_at # None
  BY <1>1 DEF Sane, PullRequest, OptTime, SameProposal, None, Terminal,
         Contract, Chronology, ReasonsOf,
         VerificationValid, ApprovalValid, Cleared
<1>4. ReviewApproved(p, at) = q
  BY <1>1, <1>3 DEF Sane, ReviewApproved, Fire, PullRequest, OptTime, Contract,
         Chronology, VerificationValid
<1> QED BY <1>2, <1>3, <1>4 DEF Accepted, Sane

(* CHANGES_REQUESTED.                                                      *)
LEMMA ChangesRequestedSane ==
  ASSUME NEW p, Sane(p), NEW at \in Nat, at >= p.last_transition_at,
         p.state = "in_review"
  PROVE  Accepted(p, ChangesRequested(p, at), at, "author_response")
<1> DEFINE q == [p EXCEPT !.state = "author_response",
                          !.requested_change_count = @ + 1,
                          !.approved_revision = None,
                          !.first_review_completed_at = IF @ = None THEN at ELSE @,
                          !.last_transition_at = at]
<1>1. p \in PullRequest /\ Contract(p) BY DEF Sane
<1>2. q \in PullRequest
  <2>1. p.requested_change_count + 1 \in Nat
    BY <1>1 DEF PullRequest, OptTime
  <2>2. (IF p.first_review_completed_at = None THEN at ELSE p.first_review_completed_at) \in OptTime
    BY <1>1 DEF PullRequest, OptTime
  <2>3. [p EXCEPT !.state = "author_response"] \in PullRequest
    BY <1>1, UpdateTyped DEF Live, Terminal
  <2>4. [p EXCEPT !.state = "author_response",
                    !.requested_change_count = @ + 1] \in PullRequest
    BY <2>3, <2>1, <2>2, UpdateTyped
  <2>5. [p EXCEPT !.state = "author_response",
                    !.requested_change_count = @ + 1,
                    !.approved_revision = None] \in PullRequest
    BY <2>4, UpdateTyped DEF OptTime
  <2>6. [p EXCEPT !.state = "author_response",
                    !.requested_change_count = @ + 1,
                    !.approved_revision = None,
                    !.first_review_completed_at = IF @ = None THEN at ELSE @] \in PullRequest
    BY <2>5, <2>1, <2>2, UpdateTyped
  <2> QED
    BY <2>6, UpdateTyped
<1>3. /\ Contract(q)
      /\ q.state = "author_response" /\ q.last_transition_at = at /\ SameProposal(p, q)
      /\ q.state \in {"queued_for_review", "in_review"} => VerificationValid(q)
      /\ q.state = "queued_for_review" => q.queue_entered_at # None
      /\ q.state = "in_review" => q.first_review_at # None
  BY <1>1 DEF Sane, PullRequest, OptTime, SameProposal, None, Terminal,
         Contract, Chronology, ReasonsOf,
         VerificationValid, ApprovalValid, Cleared
<1>4. ChangesRequested(p, at) = q
  BY <1>1, <1>3 DEF Sane, ChangesRequested, Fire, PullRequest, OptTime, Contract,
         Chronology, VerificationValid
<1> QED BY <1>2, <1>3, <1>4 DEF Accepted, Sane

(* REVIEW_BYPASSED, on an eligible proposal that is not audited.           *)
LEMMA ReviewBypassedSane ==
  ASSUME NEW p, Sane(p), NEW at \in Nat, at >= p.last_transition_at,
         p.state = "queued_for_review", p.bypass_eligible, ~p.bypass_audited
  PROVE  Accepted(p, ReviewBypassed(p, at), at, "approved_waiting_merge")
<1> DEFINE q == [p EXCEPT !.state = "approved_waiting_merge",
                          !.queue_entered_at = None,
                          !.review_bypassed = TRUE,
                          !.last_transition_at = at]
<1>1. p \in PullRequest /\ Contract(p) BY DEF Sane
<1>2. q \in PullRequest
  <2>1. [p EXCEPT !.state = "approved_waiting_merge"] \in PullRequest
    BY <1>1, UpdateTyped DEF Live, Terminal
  <2>2. [p EXCEPT !.state = "approved_waiting_merge",
                    !.queue_entered_at = None] \in PullRequest
    BY <2>1, UpdateTyped DEF OptTime
  <2>3. [p EXCEPT !.state = "approved_waiting_merge",
                    !.queue_entered_at = None,
                    !.review_bypassed = TRUE] \in PullRequest
    BY <2>2, UpdateTyped
  <2> QED
    BY <2>3, UpdateTyped
<1>3. SameProposal(p, q) /\ q.review_bypassed = TRUE
  BY <1>1 DEF PullRequest, SameProposal
<1>4. q.bypass_eligible /\ ~q.bypass_audited
  BY <1>3 DEF SameProposal
<1>5. /\ q.state = "approved_waiting_merge" /\ q.last_transition_at = at
      /\ VerificationValid(q)
      /\ q.revision >= 1
      /\ q.verified_revision # None => q.verified_revision \in 1 .. q.revision
      /\ q.approved_revision # None => q.approved_revision \in 1 .. q.revision
      /\ q.terminal_reason \in ReasonsOf(q.state)
      /\ Chronology(q)
      /\ q.queue_entered_at = None
  BY <1>1 DEF Sane, PullRequest, OptTime, None, Contract, Chronology,
         ReasonsOf, VerificationValid
<1>6. Contract(q)
  BY <1>3, <1>4, <1>5 DEF Contract, Cleared
<1>7. ReviewBypassed(p, at) = q
  <2>1. at >= p.ready_at /\ p.queue_entered_at # None /\ VerificationValid(p)
    BY <1>1 DEF Sane, PullRequest, Contract, Chronology
  <2> QED BY <2>1, <1>6 DEF ReviewBypassed, Fire
<1> QED BY <1>2, <1>3, <1>5, <1>6, <1>7 DEF Accepted, Sane

(* The three ways a pull request ends; an open queue visit is closed into  *)
(* the waiting time.                                                       *)
LEMMA TerminateSane ==
  ASSUME NEW p, Sane(p), NEW at \in Nat, at >= p.last_transition_at,
         NEW from, p.state \in from \cap Live, NEW guard, guard,
         NEW state \in Terminal, NEW reason \in Reasons,
         reason \in ReasonsOf(state), state = "merged" => Cleared(p)
  PROVE  Accepted(p, Terminate(p, from, guard, state, reason, at), at, state)
<1> DEFINE wait == IF p.queue_entered_at = None
                   THEN p.queue_wait_seconds
                   ELSE p.queue_wait_seconds + at - p.queue_entered_at
           q == [p EXCEPT !.state = state,
                          !.terminal_reason = reason,
                          !.queue_wait_seconds =
                             IF p.queue_entered_at = None
                             THEN @ ELSE @ + at - p.queue_entered_at,
                          !.queue_entered_at = None,
                          !.last_transition_at = at]
<1>1. p \in PullRequest /\ Contract(p) BY DEF Sane
<1>2. q \in PullRequest
  <2>1. wait \in Nat
    BY <1>1 DEF PullRequest, OptTime, Contract, Chronology, None
  <2>2. [p EXCEPT !.state = state] \in PullRequest
    BY <1>1, UpdateTyped
  <2>3. [p EXCEPT !.state = state, !.terminal_reason = reason] \in PullRequest
    BY <2>2, UpdateTyped
  <2>4. [p EXCEPT !.state = state, !.terminal_reason = reason,
                  !.queue_wait_seconds = wait] \in PullRequest
    BY <2>1, <2>3, UpdateTyped
  <2>5. [p EXCEPT !.state = state, !.terminal_reason = reason,
                  !.queue_wait_seconds = wait,
                  !.queue_entered_at = None] \in PullRequest
    BY <2>4, UpdateTyped DEF OptTime
  <2> QED BY <2>5, UpdateTyped
<1>3. /\ SameProposal(p, q) /\ q.review_bypassed = p.review_bypassed
      /\ q.revision = p.revision /\ q.verified_revision = p.verified_revision
      /\ q.approved_revision = p.approved_revision
      /\ q.first_review_at = p.first_review_at
      /\ q.first_review_completed_at = p.first_review_completed_at
      /\ q.state = state /\ q.last_transition_at = at
      /\ q.terminal_reason = reason /\ q.queue_entered_at = None
  BY <1>1 DEF PullRequest, SameProposal
<1>4. Contract(q)
  <2>1. /\ q.revision >= 1
        /\ q.verified_revision # None => q.verified_revision \in 1 .. q.revision
        /\ q.approved_revision # None => q.approved_revision \in 1 .. q.revision
        /\ q.terminal_reason \in ReasonsOf(q.state)
        /\ q.queue_entered_at = None
    BY <1>1, <1>3 DEF Contract
  <2>2. Chronology(q)
    BY <1>1, <1>3 DEF Contract, Chronology, SameProposal, PullRequest, OptTime, None
  <2>3. q.review_bypassed =>
          /\ q.bypass_eligible /\ ~q.bypass_audited
          /\ VerificationValid(q) /\ q.state \in Terminal
    BY <1>1, <1>3 DEF Contract, SameProposal, VerificationValid
  <2>4. q.state \in {"approved_waiting_merge", "merged"} => Cleared(q)
    BY <1>3 DEF Cleared, VerificationValid, ApprovalValid, Terminal
  <2> QED BY <2>1, <2>2, <2>3, <2>4 DEF Contract
<1>5. Terminate(p, from, guard, state, reason, at) = q
  <2>1. at >= p.ready_at
    BY <1>1 DEF PullRequest, Contract, Chronology
  <2> QED BY <2>1, <1>4 DEF Terminate, Fire
<1>6. q.state \notin {"queued_for_review", "in_review", "raised"}
  BY <1>3 DEF Terminal
<1> QED BY <1>2, <1>3, <1>4, <1>5, <1>6 DEF Accepted, Sane

(* MERGE_COMPLETED needs no more than the approved state: the contract     *)
(* makes that state imply the clearance.                                   *)
LEMMA MergeCompletedSane ==
  ASSUME NEW p, Sane(p), NEW at \in Nat, at >= p.last_transition_at,
         p.state = "approved_waiting_merge"
  PROVE  Accepted(p, MergeCompleted(p, at), at, "merged")
<1>1. Cleared(p) BY DEF Sane, Contract
<1> QED
  BY <1>1, TerminateSane DEF MergeCompleted, ReasonsOf, Live, Terminal, Reasons

(* ABANDONED, from any live state.                                         *)
LEMMA AbandonedSane ==
  ASSUME NEW p, Sane(p), NEW at \in Nat, at >= p.last_transition_at,
         p.state \in Live
  PROVE  Accepted(p, Abandoned(p, at), at, "closed_without_merge")
BY TerminateSane DEF Abandoned, ReasonsOf, Terminal, Reasons

(* HORIZON_REACHED, from any live state.                                   *)
LEMMA HorizonReachedSane ==
  ASSUME NEW p, Sane(p), NEW at \in Nat, at >= p.last_transition_at,
         p.state \in Live
  PROVE  Accepted(p, HorizonReached(p, at), at, "unresolved")
BY TerminateSane DEF HorizonReached, ReasonsOf, Terminal, Reasons

(* Service is consumed by a proposal in review only, and changes nothing   *)
(* but the seconds reviewed.                                               *)
LEMMA ConsumeSane ==
  ASSUME NEW p, Sane(p), NEW seconds \in Nat, p.state = "in_review"
  PROVE  Accepted(p, ConsumeReviewService(p, seconds),
                  p.last_transition_at, "in_review")
<1> DEFINE q == [p EXCEPT !.active_review_seconds = @ + seconds]
<1>1. p \in PullRequest /\ Contract(p) BY DEF Sane
<1>2. ConsumeReviewService(p, seconds) = q BY DEF ConsumeReviewService
<1>3. q \in PullRequest
  <2>1. p.active_review_seconds + seconds \in Nat BY <1>1 DEF PullRequest
  <2> QED BY <1>1, <2>1, UpdateTyped
<1>4. Contract(q)
  BY <1>1 DEF PullRequest, Contract, Chronology, ReasonsOf,
         VerificationValid, ApprovalValid, Cleared
<1>5. /\ SameProposal(p, q) /\ q.state = "in_review"
      /\ q.last_transition_at = p.last_transition_at
      /\ VerificationValid(q) /\ q.first_review_at # None
  BY <1>1 DEF Sane, PullRequest, SameProposal, VerificationValid
<1> QED BY <1>2, <1>3, <1>4, <1>5 DEF Accepted, Sane

-----------------------------------------------------------------------------
(* The accounts of a proposal: what the measurements are made of.          *)
SameAccounts(p, q) ==
  /\ q.queue_wait_seconds = p.queue_wait_seconds
  /\ q.active_review_seconds = p.active_review_seconds
  /\ q.review_visit_count = p.review_visit_count
  /\ q.first_review_at = p.first_review_at

(* The events that neither open nor close a visit leave the accounts       *)
(* alone, accepted or not.                                                 *)
LEMMA EventsKeepAccounts ==
  ASSUME NEW p \in PullRequest, NEW at
  PROVE  /\ SameAccounts(p, StartVerification(p, at))
         /\ SameAccounts(p, VerificationPassed(p, at))
         /\ SameAccounts(p, VerificationFailed(p, at))
         /\ SameAccounts(p, RevisionSubmitted(p, at))
         /\ SameAccounts(p, ReviewApproved(p, at))
         /\ SameAccounts(p, ChangesRequested(p, at))
         /\ SameAccounts(p, ReviewBypassed(p, at))
<1> USE DEF PullRequest, SameAccounts, Fire, Raise
<1>1. SameAccounts(p, StartVerification(p, at)) BY DEF StartVerification
<1>2. SameAccounts(p, VerificationPassed(p, at)) BY DEF VerificationPassed
<1>3. SameAccounts(p, VerificationFailed(p, at)) BY DEF VerificationFailed
<1>4. SameAccounts(p, RevisionSubmitted(p, at)) BY DEF RevisionSubmitted
<1>5. SameAccounts(p, ReviewApproved(p, at)) BY DEF ReviewApproved
<1>6. SameAccounts(p, ChangesRequested(p, at)) BY DEF ChangesRequested
<1>7. SameAccounts(p, ReviewBypassed(p, at)) BY DEF ReviewBypassed
<1> QED BY <1>1, <1>2, <1>3, <1>4, <1>5, <1>6, <1>7

(* An accepted verification enters the queue at its instant.               *)
LEMMA PassedEntersQueue ==
  ASSUME NEW p \in PullRequest, NEW at,
         VerificationPassed(p, at).state # "raised"
  PROVE  VerificationPassed(p, at).queue_entered_at = at
BY DEF PullRequest, VerificationPassed, Fire, Raise

(* An approval does not touch the recorded bypass.                         *)
LEMMA ApprovalKeepsBypass ==
  ASSUME NEW p \in PullRequest, NEW at
  PROVE  ReviewApproved(p, at).review_bypassed = p.review_bypassed
BY DEF PullRequest, ReviewApproved, Fire, Raise

(* A visit that starts closes the wait since the queue was entered.        *)
LEMMA StartedAccounts ==
  ASSUME NEW p \in PullRequest, NEW at \in Nat,
         ReviewStarted(p, at).state # "raised"
  PROVE  LET q == ReviewStarted(p, at) IN
         /\ q.queue_wait_seconds =
              p.queue_wait_seconds + at - p.queue_entered_at
         /\ q.active_review_seconds = p.active_review_seconds
         /\ q.review_visit_count = p.review_visit_count + 1
         /\ q.first_review_at =
              IF p.first_review_at = None THEN at ELSE p.first_review_at
BY DEF PullRequest, ReviewStarted, Fire, Raise

(* A termination closes an open wait and changes no other account.         *)
LEMMA TerminateAccounts ==
  ASSUME NEW p \in PullRequest, NEW at \in Nat,
         NEW from, NEW guard, NEW state, NEW reason,
         Terminate(p, from, guard, state, reason, at).state # "raised"
  PROVE  LET q == Terminate(p, from, guard, state, reason, at) IN
         /\ q.queue_wait_seconds =
              IF p.queue_entered_at = None THEN p.queue_wait_seconds
              ELSE p.queue_wait_seconds + at - p.queue_entered_at
         /\ q.active_review_seconds = p.active_review_seconds
         /\ q.review_visit_count = p.review_visit_count
         /\ q.first_review_at = p.first_review_at
         /\ q.review_bypassed = p.review_bypassed
BY DEF PullRequest, Terminate, Fire, Raise

(* Service counts in the seconds reviewed only.                            *)
LEMMA ConsumeAccounts ==
  ASSUME NEW p \in PullRequest, NEW seconds \in Nat, p.state = "in_review"
  PROVE  LET q == ConsumeReviewService(p, seconds) IN
         /\ q.active_review_seconds = p.active_review_seconds + seconds
         /\ q.queue_wait_seconds = p.queue_wait_seconds
         /\ q.review_visit_count = p.review_visit_count
         /\ q.first_review_at = p.first_review_at
         /\ q.review_bypassed = p.review_bypassed
         /\ q.queue_entered_at = p.queue_entered_at
         /\ q.terminal_reason = p.terminal_reason
BY DEF PullRequest, ConsumeReviewService
=============================================================================
