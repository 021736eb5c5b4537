-------------------------- MODULE FifoEngineProperties --------------------------
(***************************************************************************)
(* What run_fifo promises: the properties of FifoEngine that TLC checks    *)
(* and, in FifoEngineProofs, the ones that are proved.                     *)
(***************************************************************************)
EXTENDS FifoEngine, FiniteSets

Phases == {"advance", "censor", "abandon", "finish", "admit", "settle",
           "dispatch", "record", "done"}

(* Type invariant: the ranges of the engine's variables, with the element  *)
(* type of the inner loop the phase stands in.                             *)
TypeOK ==
  /\ phase \in Phases
  /\ todo \subseteq IF phase \in {"finish", "dispatch"} THEN Reviewers ELSE PRs
  /\ now \in 0 .. Horizon /\ previous \in 0 .. Horizon
  /\ times \subseteq 0 .. Horizon
  /\ pr \in [PRs -> PullRequest]
  /\ assigned \in [Reviewers -> PRs \cup {None}]
  /\ used \in [PRs -> Nat]
  /\ active \in [Reviewers -> Nat]
  /\ pending \subseteq PRs \X (0 .. Horizon - 1)
  /\ truncated \in BOOLEAN

-----------------------------------------------------------------------------
(* The engine never applies an event that the lifecycle rejects and never  *)
(* builds a record that breaks its contract: no run ends in an exception.  *)
NoRejection == \A p \in PRs : pr[p].state # "raised"

Waiting(p) ==
  pr[p].state \in {"verifying", "author_response", "approved_waiting_merge"}

DelayOf(state) ==
  IF state = "verifying" THEN VerificationDelay
  ELSE IF state = "author_response" THEN ResponseDelay
  ELSE CoordinationDelay

WakeUpAt(p) == pr[p].last_transition_at + DelayOf(pr[p].state)

(* No lost wake-up: a proposal that waits for a delay has its wake-up in   *)
(* pending, or in the batch being settled, or due at or past the horizon;  *)
(* and an event of the heap will reach it.                                 *)
NoLostWakeUp ==
  ~truncated =>
    \A p \in PRs : Waiting(p) =>
      \/ WakeUpAt(p) >= Horizon
      \/ /\ <<p, WakeUpAt(p)>> \in pending
         /\ WakeUpAt(p) \in times \cup {now}
      \/ phase = "settle" /\ p \in todo /\ WakeUpAt(p) = now

(* No stray wake-up: an open proposal has no other wake-up than the one of *)
(* the delay it waits for, so an event scheduled for an earlier state can  *)
(* never act on a later one (which is also why a set of wake-ups is enough *)
(* where the code keeps lists).                                            *)
NoStrayWakeUp ==
  \A p \in PRs : ~IsTerminal(pr[p]) =>
    /\ \A e \in pending : e[1] = p => Waiting(p) /\ e[2] = WakeUpAt(p)
    /\ phase = "settle" /\ p \in todo =>
         Waiting(p) /\ \A e \in pending : e[1] # p

(* Review ownership: a proposal in review belongs to exactly one reviewer, *)
(* who is not its author; and an occupied reviewer is on a proposal in     *)
(* review, except for the one terminated under it in this very instant.    *)
ReviewOwnership ==
  /\ \A p \in PRs : pr[p].state = "in_review" =>
       \E r \in Reviewers : assigned[r] = p
  /\ \A r, s \in Assigned : assigned[r] = assigned[s] => r = s
  /\ \A r \in Assigned :
       /\ pr[assigned[r]].author # r
       /\ \/ pr[assigned[r]].state = "in_review"
          \/ /\ IsTerminal(pr[assigned[r]])
             /\ \/ phase = "abandon"
                \/ phase = "finish" /\ r \in todo
                \/ now = Horizon

(* An interrupted visit is never handed over: while a proposal stays in    *)
(* review it stays with the same reviewer, across off-duty intervals.      *)
NoHandover ==
  [][\A r \in Assigned :
       /\ pr[assigned[r]].state = "in_review"
       /\ pr'[assigned[r]].state = "in_review"
       => assigned'[r] = assigned[r]]_vars

(* No visit receives more than its service: the heap always holds the      *)
(* instant at which a visit under way will finish.                         *)
NoOvershoot ==
  \A r \in Assigned :
    /\ used[assigned[r]] <= Service[assigned[r]]
    /\ phase \in {"record", "advance"} /\ ~truncated /\ now < Horizon =>
         used[assigned[r]] < Service[assigned[r]]

(* The service accounted to an occupied reviewer over an interval between  *)
(* two events is exactly the time of that interval the reviewer is on      *)
(* duty, although the code looks at the interval's first instant only.     *)
ServiceWithinDuty ==
  [][phase = "advance" =>
       \A r \in Reviewers :
         active'[r] - active[r] =
           IF assigned[r] = None THEN 0
           ELSE Cardinality({t \in previous .. now' - 1 : OnDuty(r, t)})]_vars

(* Queue waiting and active review of a proposal are disjoint parts of its *)
(* life: together they never exceed it.                                    *)
TimeAccounts ==
  \A p \in Admitted :
    LET end == IF IsTerminal(pr[p]) THEN pr[p].last_transition_at ELSE now
    IN  pr[p].queue_wait_seconds + pr[p].active_review_seconds
          <= end - pr[p].ready_at

(* Work conservation: once an instant is settled, no reviewer on duty is   *)
(* idle while a proposal of somebody else waits in the queue.              *)
WorkConserving ==
  phase \in {"record", "advance"} /\ ~truncated /\ now < Horizon =>
    \A r \in Reviewers :
      OnDuty(r, now) /\ assigned[r] = None =>
        \A p \in Count("queued_for_review") : pr[p].author = r

(* First reviews start in queue order among the proposals any reviewer may *)
(* take, whatever duty, service and the other proposals do.                *)
FirstVisitOver(p) ==
  /\ pr[p].review_visit_count = 1
  /\ pr[p].state \in {"in_review", "approved_waiting_merge", "merged"}
  /\ pr[p].author \notin Reviewers

FirstEntry(p) == pr[p].first_review_at - pr[p].queue_wait_seconds

FirstReviewsFifo ==
  \A p, q \in PRs :
    FirstVisitOver(p) /\ FirstVisitOver(q) /\ FirstEntry(p) < FirstEntry(q) =>
      pr[p].first_review_at <= pr[q].first_review_at

-----------------------------------------------------------------------------
(* A merge is earned: either a bypass the policy allows, for a proposal it *)
(* found eligible and did not audit, or a visit that received the whole    *)
(* service.                                                                *)
MergeEarned ==
  \A p \in Count("merged") :
    IF pr[p].review_bypassed
    THEN Bypass /\ pr[p].bypass_eligible /\ ~pr[p].bypass_audited
    ELSE pr[p].review_visit_count >= 1 /\ used[p] = Service[p]

(* Deadlines are honoured: a proposal closes by abandonment exactly at its *)
(* deadline, never merges at or after it, and is not open beyond it; a     *)
(* deadline and a completion at the same instant resolve to abandonment.   *)
DeadlineHonoured ==
  \A p \in PRs : pr[p].abandonment_deadline # None =>
    /\ pr[p].terminal_reason = "abandoned" =>
         pr[p].last_transition_at = pr[p].abandonment_deadline
    /\ pr[p].state = "merged" =>
         pr[p].last_transition_at < pr[p].abandonment_deadline
    /\ phase \in {"record", "advance"} /\ ~IsTerminal(pr[p]) =>
         now < pr[p].abandonment_deadline

(* A returned result is complete: either the run was truncated before the  *)
(* horizon, or it got there with every proposal that became ready before   *)
(* it admitted and closed, and the censored ones censored at the horizon.  *)
CompleteResult ==
  phase = "done" =>
    IF truncated THEN now < Horizon
    ELSE /\ now = Horizon
         /\ Admitted = {p \in PRs : pr[p].ready_at < Horizon}
         /\ \A p \in Admitted : IsTerminal(pr[p])
         /\ \A p \in Admitted :
              pr[p].last_transition_at = Horizon <=> pr[p].state = "unresolved"

(* Mutant: duty under way at readiness is overlooked.                      *)
NoLaterReviewer(p) ==
  /\ ~TakesBypass(pr[p])
  /\ ~ \E r \in Reviewers :
         /\ r # pr[p].author
         /\ \E d \in ClippedDuty(r) : d[1] > pr[p].ready_at

(* The limitation "no_eligible_reviewer" of the result.                    *)
NoEligibleReviewer(p) ==
  /\ ~TakesBypass(pr[p])
  /\ ~ \E r \in Reviewers :
         /\ r # pr[p].author
         /\ \E d \in ClippedDuty(r) : d[2] > pr[p].ready_at

(* A proposal reported as having no eligible reviewer was never reviewed   *)
(* and never merged.                                                       *)
LimitationSound ==
  \A p \in Admitted : NoEligibleReviewer(p) =>
    pr[p].review_visit_count = 0 /\ pr[p].state # "merged"

(* The run returns, whatever the draws and even with every delay zero.     *)
Termination == <>(phase = "done")
=============================================================================
