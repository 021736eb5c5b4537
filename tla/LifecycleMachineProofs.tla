------------------------- MODULE LifecycleMachineProofs -------------------------
(***************************************************************************)
(* Proofs about LifecycleMachine, without its bounds: no legal sequence of *)
(* lifecycle calls, however long, builds a record that breaks the          *)
(* contract, and no revision is visited twice.                             *)
(***************************************************************************)
EXTENDS LifecycleMachine, LifecycleProofs

(* The visits and requests of a record in a live state: a visit that is    *)
(* under way has not yet led to a request.                                 *)
Counts ==
  /\ p.state = "ready" =>
       /\ p.revision = 1 /\ p.verification_count = 0
       /\ p.review_visit_count = 0 /\ p.requested_change_count = 0
  /\ p.state \in Live \ {"ready"} => p.verification_count = p.revision
  /\ p.state \in Live => p.requested_change_count <= p.review_visit_count
  /\ p.state = "in_review" => p.requested_change_count < p.review_visit_count
  /\ p.state \in {"verifying", "queued_for_review"} =>
       p.review_visit_count <= p.revision - 1
  /\ p.state \in Live => p.review_visit_count <= p.revision

MachineInv == Sane(p) /\ Counts

-----------------------------------------------------------------------------
LEMMA InitMachine == MachineInit => MachineInv
<1> SUFFICES ASSUME MachineInit PROVE MachineInv OBVIOUS
<1>1. PICK e, a \in BOOLEAN, d \in {None} \cup 1 .. MaxTime :
        p = [Fresh(1, 0, e, a) EXCEPT !.abandonment_deadline = d]
  BY DEF MachineInit
<1> DEFINE f == Fresh(1, 0, e, a)
<1>2. /\ Sane(f) /\ f.state = "ready" /\ f.ready_at = 0
      /\ f.bypass_eligible = e /\ f.bypass_audited = a
      /\ p = [f EXCEPT !.abandonment_deadline = d]
  BY <1>1, FreshSane DEF Fresh
<1>4. d \in OptTime /\ (d # None => d > 0) BY BoundsAssumption DEF OptTime, None
<1> HIDE DEF f
<1>3. Classified(f, e, a, d) = p
  BY <1>2 DEF Classified, Sane, PullRequest
<1>5. Sane(p) BY <1>2, <1>3, <1>4, ClassifySane
<1>6. /\ p.state = "ready" /\ p.revision = 1 /\ p.verification_count = 0
      /\ p.review_visit_count = 0 /\ p.requested_change_count = 0
  BY <1>1 DEF Fresh
<1>7. Counts BY <1>6 DEF Counts
<1> QED BY <1>5, <1>7 DEF MachineInv

(* An instant that a call may pass.                                        *)
LEMMA InstantFacts ==
  ASSUME MachineInv, NEW at \in Instants
  PROVE  at \in Nat /\ at >= p.last_transition_at /\ p \in PullRequest
BY BoundsAssumption DEF MachineInv, Sane, PullRequest, Instants

LEMMA VerifyMachine == MachineInv /\ Verify => MachineInv'
<1> SUFFICES ASSUME MachineInv, Verify PROVE MachineInv' OBVIOUS
<1>1. PICK at \in Instants : p' = StartVerification(p, at) BY DEF Verify
<1>2. p.state = "ready" /\ Sane(p) BY DEF Verify, From, MachineInv
<1>3. Accepted(p, p', at, "verifying") BY <1>1, <1>2, InstantFacts, StartVerificationSane
<1>4. /\ p'.verification_count = p.verification_count + 1
      /\ p'.revision = p.revision
      /\ p'.review_visit_count = p.review_visit_count
      /\ p'.requested_change_count = p.requested_change_count
  BY <1>1, <1>3, InstantFacts
     DEF Accepted, Sane, StartVerification, Fire, Raise, PullRequest
<1>5. Sane(p') /\ p'.state = "verifying" BY <1>3 DEF Accepted
<1>6. Counts' BY <1>2, <1>4, <1>5 DEF MachineInv, Counts
<1>7. Sane(p)' BY <1>5
<1> QED BY <1>6, <1>7 DEF MachineInv

LEMMA PassMachine == MachineInv /\ Pass => MachineInv'
<1> SUFFICES ASSUME MachineInv, Pass PROVE MachineInv' OBVIOUS
<1>1. PICK at \in Instants : p' = VerificationPassed(p, at) BY DEF Pass
<1>2. p.state = "verifying" /\ Sane(p) BY DEF Pass, From, MachineInv
<1>3. Accepted(p, p', at, "queued_for_review")
  BY <1>1, <1>2, InstantFacts, VerificationPassedSane
<1>4. /\ p'.verification_count = p.verification_count
      /\ p'.revision = p.revision
      /\ p'.review_visit_count = p.review_visit_count
      /\ p'.requested_change_count = p.requested_change_count
  BY <1>1, InstantFacts DEF VerificationPassed, Fire, Raise, PullRequest
<1>5. Sane(p') /\ p'.state = "queued_for_review" BY <1>3 DEF Accepted
<1>6. Counts' BY <1>2, <1>4, <1>5 DEF MachineInv, Counts, Live
<1>7. Sane(p)' BY <1>5
<1> QED BY <1>6, <1>7 DEF MachineInv

LEMMA FailMachine == MachineInv /\ FailVerification => MachineInv'
<1> SUFFICES ASSUME MachineInv, FailVerification PROVE MachineInv' OBVIOUS
<1>1. PICK at \in Instants : p' = VerificationFailed(p, at) BY DEF FailVerification
<1>2. p.state = "verifying" /\ Sane(p) BY DEF FailVerification, From, MachineInv
<1>3. Accepted(p, p', at, "author_response")
  BY <1>1, <1>2, InstantFacts, VerificationFailedSane
<1>4. /\ p'.verification_count = p.verification_count
      /\ p'.revision = p.revision
      /\ p'.review_visit_count = p.review_visit_count
      /\ p'.requested_change_count = p.requested_change_count
  BY <1>1, InstantFacts DEF VerificationFailed, Fire, Raise, PullRequest
<1>5. Sane(p') /\ p'.state = "author_response" BY <1>3 DEF Accepted
<1>6. Counts' BY <1>2, <1>4, <1>5 DEF MachineInv, Counts, Live
<1>7. Sane(p)' BY <1>5
<1> QED BY <1>6, <1>7 DEF MachineInv

(* A new revision is verified in its turn, and has not been visited.       *)
LEMMA SubmitMachine == MachineInv /\ Submit => MachineInv'
<1> SUFFICES ASSUME MachineInv, Submit PROVE MachineInv' OBVIOUS
<1>1. PICK at \in Instants : p' = RevisionSubmitted(p, at) BY DEF Submit
<1>2. p.state \in {"author_response", "approved_waiting_merge"} /\ Sane(p)
  BY DEF Submit, From, MachineInv
<1>3. Accepted(p, p', at, "verifying")
  BY <1>1, <1>2, InstantFacts, RevisionSubmittedSane
<1>5. Sane(p') /\ p'.state = "verifying" BY <1>3 DEF Accepted
<1>4. /\ p'.verification_count = p.verification_count + 1
      /\ p'.revision = p.revision + 1
      /\ p'.review_visit_count = p.review_visit_count
      /\ p'.requested_change_count = p.requested_change_count
  BY <1>1, <1>5, InstantFacts DEF RevisionSubmitted, Fire, Raise, PullRequest
<1>6. /\ p.revision \in Nat /\ p.verification_count \in Nat
      /\ p.review_visit_count \in Nat /\ p.requested_change_count \in Nat
  BY InstantFacts, <1>2 DEF Sane, PullRequest
<1>7. Counts' BY <1>2, <1>4, <1>5, <1>6 DEF MachineInv, Counts, Live
<1>8. Sane(p)' BY <1>5
<1> QED BY <1>7, <1>8 DEF MachineInv

LEMMA ReviewMachine == MachineInv /\ Review => MachineInv'
<1> SUFFICES ASSUME MachineInv, Review PROVE MachineInv' OBVIOUS
<1>1. PICK at \in Instants : p' = ReviewStarted(p, at) BY DEF Review
<1>2. p.state = "queued_for_review" /\ Sane(p) BY DEF Review, From, MachineInv
<1>3. Accepted(p, p', at, "in_review")
  BY <1>1, <1>2, InstantFacts, ReviewStartedSane
<1>5. Sane(p') /\ p'.state = "in_review" BY <1>3 DEF Accepted
<1>4. /\ p'.verification_count = p.verification_count
      /\ p'.revision = p.revision
      /\ p'.review_visit_count = p.review_visit_count + 1
      /\ p'.requested_change_count = p.requested_change_count
  BY <1>1, <1>5, InstantFacts DEF ReviewStarted, Fire, Raise, PullRequest
<1>6. /\ p.revision \in Nat
      /\ p.review_visit_count \in Nat /\ p.requested_change_count \in Nat
  BY <1>2 DEF Sane, PullRequest
<1>7. Counts' BY <1>2, <1>4, <1>5, <1>6 DEF MachineInv, Counts, Live
<1>8. Sane(p)' BY <1>5
<1> QED BY <1>7, <1>8 DEF MachineInv

LEMMA ServeMachine == MachineInv /\ Serve => MachineInv'
<1> SUFFICES ASSUME MachineInv, Serve PROVE MachineInv' OBVIOUS
<1>2. p.state = "in_review" /\ Sane(p) /\ p \in PullRequest
  BY DEF Serve, From, MachineInv, Sane
<1>1. PICK seconds \in 0 .. MaxService - p.active_review_seconds :
        p' = ConsumeReviewService(p, seconds)
  BY DEF Serve
<1>6. seconds \in Nat BY BoundsAssumption, <1>1, <1>2 DEF PullRequest
<1>3. Accepted(p, p', p.last_transition_at, "in_review")
  BY <1>1, <1>2, <1>6, ConsumeSane
<1>4. /\ p'.verification_count = p.verification_count
      /\ p'.revision = p.revision
      /\ p'.review_visit_count = p.review_visit_count
      /\ p'.requested_change_count = p.requested_change_count
  BY <1>1, <1>2, <1>6 DEF ConsumeReviewService, PullRequest
<1>5. Sane(p') /\ p'.state = "in_review" BY <1>3 DEF Accepted
<1>7. Counts' BY <1>2, <1>4, <1>5 DEF MachineInv, Counts, Live
<1>8. Sane(p)' BY <1>5
<1> QED BY <1>7, <1>8 DEF MachineInv

LEMMA ApproveMachine == MachineInv /\ Approve => MachineInv'
<1> SUFFICES ASSUME MachineInv, Approve PROVE MachineInv' OBVIOUS
<1>1. PICK at \in Instants : p' = ReviewApproved(p, at) BY DEF Approve
<1>2. p.state = "in_review" /\ Sane(p) BY DEF Approve, From, MachineInv
<1>3. Accepted(p, p', at, "approved_waiting_merge")
  BY <1>1, <1>2, InstantFacts, ReviewApprovedSane
<1>4. /\ p'.verification_count = p.verification_count
      /\ p'.revision = p.revision
      /\ p'.review_visit_count = p.review_visit_count
      /\ p'.requested_change_count = p.requested_change_count
  BY <1>1, InstantFacts DEF ReviewApproved, Fire, Raise, PullRequest
<1>5. Sane(p') /\ p'.state = "approved_waiting_merge" BY <1>3 DEF Accepted
<1>6. Counts' BY <1>2, <1>4, <1>5 DEF MachineInv, Counts, Live
<1>7. Sane(p)' BY <1>5
<1> QED BY <1>6, <1>7 DEF MachineInv

(* The visit under way pays for the request it leads to.                   *)
LEMMA RequestMachine == MachineInv /\ RequestChanges => MachineInv'
<1> SUFFICES ASSUME MachineInv, RequestChanges PROVE MachineInv' OBVIOUS
<1>1. PICK at \in Instants : p' = ChangesRequested(p, at) BY DEF RequestChanges
<1>2. p.state = "in_review" /\ Sane(p) BY DEF RequestChanges, From, MachineInv
<1>3. Accepted(p, p', at, "author_response")
  BY <1>1, <1>2, InstantFacts, ChangesRequestedSane
<1>5. Sane(p') /\ p'.state = "author_response" BY <1>3 DEF Accepted
<1>4. /\ p'.verification_count = p.verification_count
      /\ p'.revision = p.revision
      /\ p'.review_visit_count = p.review_visit_count
      /\ p'.requested_change_count = p.requested_change_count + 1
  BY <1>1, <1>5, InstantFacts DEF ChangesRequested, Fire, Raise, PullRequest
<1>6. p.review_visit_count \in Nat /\ p.requested_change_count \in Nat
  BY <1>2 DEF Sane, PullRequest
<1>7. Counts' BY <1>2, <1>4, <1>5, <1>6 DEF MachineInv, Counts, Live
<1>8. Sane(p)' BY <1>5
<1> QED BY <1>7, <1>8 DEF MachineInv

LEMMA SkipMachine == MachineInv /\ Skip => MachineInv'
<1> SUFFICES ASSUME MachineInv, Skip PROVE MachineInv' OBVIOUS
<1>1. PICK at \in Instants : p' = ReviewBypassed(p, at) BY DEF Skip
<1>2. /\ p.state = "queued_for_review" /\ Sane(p)
      /\ p.bypass_eligible /\ ~p.bypass_audited
  BY DEF Skip, From, MachineInv
<1>3. Accepted(p, p', at, "approved_waiting_merge")
  BY <1>1, <1>2, InstantFacts, ReviewBypassedSane
<1>4. /\ p'.verification_count = p.verification_count
      /\ p'.revision = p.revision
      /\ p'.review_visit_count = p.review_visit_count
      /\ p'.requested_change_count = p.requested_change_count
  BY <1>1, InstantFacts DEF ReviewBypassed, Fire, Raise, PullRequest
<1>5. Sane(p') /\ p'.state = "approved_waiting_merge" BY <1>3 DEF Accepted
<1>6. p.revision \in Nat /\ p.review_visit_count \in Nat
  BY <1>2 DEF Sane, PullRequest
<1>7. Counts' BY <1>2, <1>4, <1>5, <1>6 DEF MachineInv, Counts, Live
<1>8. Sane(p)' BY <1>5
<1> QED BY <1>7, <1>8 DEF MachineInv

(* A record that has ended has no counts left to bound.                    *)
LEMMA EndedMachine ==
  ASSUME Sane(p'), p'.state \in Terminal
  PROVE  MachineInv'
<1>1. p'.state \notin Live BY DEF Live, Terminal
<1>2. Counts' BY <1>1 DEF Counts, Live
<1>3. Sane(p)' OBVIOUS
<1> QED BY <1>2, <1>3 DEF MachineInv

LEMMA MergeMachine == MachineInv /\ Merge => MachineInv'
<1> SUFFICES ASSUME MachineInv, Merge PROVE MachineInv' OBVIOUS
<1>1. PICK at \in Instants : p' = MergeCompleted(p, at) BY DEF Merge
<1>2. p.state = "approved_waiting_merge" /\ Sane(p)
  BY DEF Merge, From, MachineInv
<1>3. Accepted(p, p', at, "merged")
  BY <1>1, <1>2, InstantFacts, MergeCompletedSane
<1>4. Sane(p') /\ p'.state = "merged" BY <1>3 DEF Accepted
<1> QED BY <1>4, EndedMachine DEF Terminal

LEMMA EndMachine == MachineInv /\ End => MachineInv'
<1> SUFFICES ASSUME MachineInv, End PROVE MachineInv' OBVIOUS
<1>1. PICK at \in Instants :
        p' \in {Closed(p, at), Abandoned(p, at), HorizonReached(p, at)}
  BY DEF End
<1>2. p.state \in Live /\ Sane(p) BY DEF End, From, MachineInv
<1>3. at \in Nat /\ at >= p.last_transition_at BY InstantFacts
<1>4. CASE p' = Closed(p, at)
  <2>1. Accepted(p, p', at, "closed_without_merge")
    BY <1>2, <1>3, <1>4, TerminateSane DEF Closed, ReasonsOf, Terminal, Reasons
  <2>2. Sane(p') /\ p'.state = "closed_without_merge" BY <2>1 DEF Accepted
  <2> QED BY <2>2, EndedMachine DEF Terminal
<1>5. CASE p' = Abandoned(p, at)
  <2>1. Accepted(p, p', at, "closed_without_merge")
    BY <1>2, <1>3, <1>5, AbandonedSane
  <2>2. Sane(p') /\ p'.state = "closed_without_merge" BY <2>1 DEF Accepted
  <2> QED BY <2>2, EndedMachine DEF Terminal
<1>6. CASE p' = HorizonReached(p, at)
  <2>1. Accepted(p, p', at, "unresolved") BY <1>2, <1>3, <1>6, HorizonReachedSane
  <2>2. Sane(p') /\ p'.state = "unresolved" BY <2>1 DEF Accepted
  <2> QED BY <2>2, EndedMachine DEF Terminal
<1> QED BY <1>1, <1>4, <1>5, <1>6

-----------------------------------------------------------------------------
(* The record stays sane and its counts related, whatever legal calls are  *)
(* made on it, for every bound on their number and their instants          *)
(* (PullRequest.transition and consume_review_service of domain.py).       *)
THEOREM MachineInductive == MachineSpec => []MachineInv
<1>1. MachineInv /\ [MachineNext]_machineVars => MachineInv'
  <2> SUFFICES ASSUME MachineInv, [MachineNext]_machineVars PROVE MachineInv' OBVIOUS
  <2>1. CASE MachineNext
    BY <2>1, VerifyMachine, PassMachine, FailMachine, SubmitMachine,
       ReviewMachine, ServeMachine, ApproveMachine, RequestMachine,
       SkipMachine, MergeMachine, EndMachine DEF MachineNext
  <2>2. CASE UNCHANGED machineVars BY <2>2 DEF machineVars, MachineInv, Counts
  <2> QED BY <2>1, <2>2
<1> QED BY InitMachine, <1>1, PTL DEF MachineSpec

(* No legal sequence of calls, however long, builds a record that the      *)
(* checks of PullRequest.__post_init__ reject: the transition table and    *)
(* the record contract agree.                                              *)
THEOREM CallsAreNeverRejected == MachineSpec => []ContractKept
<1>1. MachineInv => ContractKept BY DEF MachineInv, Sane, ContractKept
<1> QED BY MachineInductive, <1>1, PTL

(* Every revision is verified once and visited at most once, and a visit   *)
(* leads to at most one request for changes: the keys under which the      *)
(* random streams draw a verification, a review or an author response      *)
(* never repeat within a proposal.                                         *)
THEOREM RevisionsAreVisitedOnce == MachineSpec => []OneVisitPerRevision
<1>1. MachineInv => OneVisitPerRevision
  <2> SUFFICES ASSUME MachineInv, p.state # "ready", ~IsTerminal(p)
               PROVE  /\ p.verification_count = p.revision
                      /\ p.requested_change_count <= p.review_visit_count
                      /\ p.review_visit_count <=
                           IF p.state \in {"verifying", "queued_for_review"}
                           THEN p.revision - 1 ELSE p.revision
    BY DEF OneVisitPerRevision
  <2>1. p.state \in Live
    BY DEF MachineInv, Sane, PullRequest, IsTerminal
  <2> QED BY <2>1 DEF MachineInv, Counts
<1> QED BY MachineInductive, <1>1, PTL
=============================================================================
