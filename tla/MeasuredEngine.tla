----------------------------- MODULE MeasuredEngine -----------------------------
(***************************************************************************)
(* FifoEngine with the meter of simulation/metrics.py that run_fifo feeds  *)
(* while it runs: Measurement.advance before the service of an interval is *)
(* accounted, completed_review before a visit ends, finish when the result *)
(* is returned.  The medians, quantiles and averages are arithmetic over   *)
(* the quantities kept here.                                               *)
(***************************************************************************)
EXTENDS FifoEngineProperties

CONSTANTS
  WindowStart,  \* measurement.start; it ends at the horizon
  FixedHorizon  \* measurement.fixed_horizon_seconds

ASSUME WindowAssumption ==
  /\ WindowStart \in Nat /\ WindowStart < Horizon /\ FixedHorizon \in Nat \ {0}

(* The proposals and the reviewers are given as tuples.                    *)
ASSUME PopulationAssumption == IsFiniteSet(PRs) /\ IsFiniteSet(Reviewers)

VARIABLES
  meter,    \* the Measurement
  metrics,  \* the RunMetrics it returns, by level
  waits,    \* history: <<proposal, from, until>> of every wait in the queue
  open      \* history: the proposals open when the window starts

measuredVars == <<vars, meter, metrics, waits, open>>

Levels == {"all_work", "new_ready"}

(* The second level keeps to work that became ready in the window.         *)
AtLevel(level, p) == level = "all_work" \/ pr[p].ready_at >= WindowStart

NoMetrics == [l \in Levels |-> [none |-> TRUE]]

MeasuredInit ==
  /\ Init
  /\ meter = [queue_area |-> [l \in Levels |-> 0], queue_peak |-> [l \in Levels |-> 0],
              service |-> [l \in Levels |-> 0], changes |-> [l \in Levels |-> 0],
              first_completed |-> [p \in PRs |-> None]]
  /\ metrics = NoMetrics
  /\ waits = {}
  /\ open = {}

Later(a, b) == IF a <= b THEN b ELSE a

(* Mutant: an interval counts when it ends within the window.              *)
Unclipped(from, until) == IF until > WindowStart THEN until - from ELSE 0

(* The part of an interval that lies in the window.                        *)
Clip(from, until) == Later(0, Earlier(until, Horizon) - Later(from, WindowStart))

(* advance: what was queued and under service since the previous instant.  *)
MeterAdvance ==
  LET duration == Clip(previous, now')
      queued(l) == Cardinality({p \in Count("queued_for_review") : AtLevel(l, p)})
      served(l) == Cardinality({p \in UnderService : AtLevel(l, p)}) IN
  meter' = IF duration = 0 THEN meter ELSE
    [meter EXCEPT
       !.queue_area = [l \in Levels |-> @[l] + queued(l) * duration],
       !.queue_peak = [l \in Levels |-> Later(@[l], queued(l))],
       !.service = [l \in Levels |-> @[l] + served(l) * duration]]

(* completed_review of a visit that ends now.                              *)
MeterCompletedReview(p) ==
  LET requested == pr'[p].state = "author_response" /\ now >= WindowStart IN
  meter' = [meter EXCEPT
    !.first_completed[p] = IF @ = None THEN now ELSE @,
    !.changes = [l \in Levels |-> @[l] + (IF requested /\ AtLevel(l, p) THEN 1 ELSE 0)]]

TerminalAt(p) == pr[p].last_transition_at

InWindow(p) == TerminalAt(p) >= WindowStart /\ TerminalAt(p) < Horizon

(* Mutant: work resolved before the window stays in the population.        *)
SelectedEver(level) == {p \in Admitted : AtLevel(level, p)}

(* The work carried into the window and the new arrivals.                  *)
Selected(level) ==
  {p \in Admitted :
     AtLevel(level, p) /\ (pr[p].state = "unresolved" \/ TerminalAt(p) >= WindowStart)}

MergedIn(level) == {p \in Selected(level) \cap Count("merged") : InWindow(p)}

AbandonedIn(level) == {p \in Selected(level) \cap Count("closed_without_merge") : InWindow(p)}

(* A deadline exactly at the end of the window is not observable.          *)
Eligible(level) == {p \in Selected(level) : pr[p].ready_at + FixedHorizon < Horizon}

Reviewed(level) ==
  {p \in Eligible(level) : /\ meter.first_completed[p] # None
                           /\ meter.first_completed[p] <= pr[p].ready_at + FixedHorizon}

MetricDictionary(level) ==
  LET selected == Selected(level) IN
  [arrivals |-> Cardinality({p \in selected : pr[p].ready_at >= WindowStart}),
   merges |-> Cardinality(MergedIn(level)),
   abandonments |-> Cardinality(AbandonedIn(level)),
   wip_start |-> Cardinality({p \in selected : pr[p].ready_at < WindowStart}),
   wip_end |-> Cardinality(selected) - Cardinality(MergedIn(level))
                 - Cardinality(AbandonedIn(level)),
   eligible |-> Cardinality(Eligible(level)),
   reviewed |-> Cardinality(Reviewed(level)),
   merged |-> Cardinality({p \in Eligible(level) \cap Count("merged") :
                             TerminalAt(p) <= pr[p].ready_at + FixedHorizon}),
   unreviewed_merges |-> Cardinality({p \in MergedIn(level) : pr[p].first_review_at = None})]

(* finish, unless the run was truncated.                                   *)
MeterFinish ==
  metrics' = IF phase' = "done" /\ ~truncated
             THEN [l \in Levels |-> MetricDictionary(l)] ELSE metrics

(* The history the meter is held against.                                  *)
Witness ==
  /\ waits' = waits \cup
       {<<p, pr[p].queue_entered_at, now'>> :
          p \in {q \in Count("queued_for_review") : pr'[q].state # "queued_for_review"}}
  /\ open' = IF now < WindowStart /\ now' >= WindowStart
             THEN {p \in Admitted : ~IsTerminal(pr[p])} ELSE open

(* The steps that do not speak to the meter.                               *)
Unmetered ==
  \/ Censor \/ Returned
  \/ AbandonmentsDone \/ FinishesDone \/ NextBatch \/ BatchesDone \/ DispatchDone
  \/ \E p \in PRs :
       \/ Abandon(p) \/ Admit(p) \/ SkipTerminal(p) \/ Merge(p) \/ SubmitRevision(p)
       \/ TruncateVerification(p) \/ FailVerification(p) \/ PassVerification(p)
  \/ \E r \in Reviewers :
       \/ ReleaseReviewer(r) \/ KeepReviewing(r) \/ PassOver(r)
       \/ ContinueReview(r) \/ StartReview(r) \/ TruncateReview(r)

MeasuredNext ==
  \/ Advance /\ MeterAdvance /\ UNCHANGED metrics /\ Witness
  \/ /\ \E r \in Reviewers : CompleteReview(r) /\ MeterCompletedReview(assigned[r])
     /\ UNCHANGED metrics /\ Witness
  \/ Record /\ MeterFinish /\ UNCHANGED meter /\ Witness
  \/ Unmetered /\ UNCHANGED <<meter, metrics>> /\ Witness

MeasuredSpec == MeasuredInit /\ [][MeasuredNext]_measuredVars

-----------------------------------------------------------------------------
Measured == metrics # NoMetrics

StillOpen(level) == {p \in Admitted : AtLevel(level, p) /\ pr[p].state = "unresolved"}

(***************************************************************************)
(* Flow is conserved over the window, at both levels, and by what happened *)
(* and not by the way it is computed: the work in progress the dictionary  *)
(* starts from is the work that was open when the window began, the one it *)
(* ends with, a difference in metrics.py:157, is the work still open at    *)
(* the horizon, and arrivals, merges and abandonments account for the rest *)
(* (metrics.py:134-157).                                                   *)
(***************************************************************************)
FlowConserved ==
  Measured =>
    \A l \in Levels :
      /\ metrics[l].wip_start = IF l = "all_work" THEN Cardinality(open) ELSE 0
      /\ metrics[l].wip_end = Cardinality(StillOpen(l))
      /\ metrics[l].wip_end = metrics[l].wip_start + metrics[l].arrivals
                                - metrics[l].merges - metrics[l].abandonments
      /\ metrics[l].unreviewed_merges
           <= Cardinality({p \in Count("merged") : pr[p].review_bypassed})

WindowSeconds == WindowStart .. Horizon - 1

(* The seconds of the window that the proposals waited in the queue.       *)
Waited(level) ==
  Cardinality({e \in PRs \X WindowSeconds :
                 /\ AtLevel(level, e[1])
                 /\ \E w \in waits : w[1] = e[1] /\ w[2] <= e[2] /\ e[2] < w[3]})

(* The seconds of duty the reviewers have in the window.                   *)
DutyInWindow ==
  Cardinality({e \in Reviewers \X WindowSeconds : OnDuty(e[1], e[2])})

(* The seconds the reviewers gave, one by one.                             *)
Given == UNION {{r} \X (1 .. active[r]) : r \in Reviewers}

(***************************************************************************)
(* The integrals are those of the run: the queue's area is the waiting of  *)
(* each proposal from its entry to its next transition, clipped to the     *)
(* window; the service is no more than the duty of the window and no more  *)
(* than the reviewers gave; a first completion is one of a visit that      *)
(* began, and the reviews counted in time are among the ones completed     *)
(* (metrics.py:113-129).                                                   *)
(***************************************************************************)
IntegralsTrue ==
  Measured =>
    /\ \A l \in Levels :
         /\ meter.queue_area[l] = Waited(l)
         /\ meter.queue_peak[l] > 0 <=> meter.queue_area[l] > 0
         /\ metrics[l].reviewed >= metrics[l].merged - metrics[l].unreviewed_merges
    /\ meter.service["all_work"] <= DutyInWindow
    /\ meter.service["all_work"] <= Cardinality(Given)
    /\ \A p \in PRs : meter.first_completed[p] # None =>
         /\ pr[p].first_review_at # None
         /\ meter.first_completed[p] >= pr[p].first_review_at + Service[p]
-----------------------------------------------------------------------------
(* The seconds of the visits to the queue that p has left.                 *)
QueueVisits(p) ==
  {t \in 0 .. Horizon - 1 : \E w \in waits : w[1] = p /\ w[2] <= t /\ t < w[3]}

(***************************************************************************)
(* The accounts of a proposal are exact, whenever one looks: every visit   *)
(* to the queue that it has left, to a reviewer, to a deadline or to the   *)
(* horizon, is accounted once and for all of its length (domain.py:292,    *)
(* 337-348), and the active review is a whole service for every visit but  *)
(* the last, and what the last one has received.                           *)
(***************************************************************************)
AccountsExact ==
  \A p \in Admitted :
    /\ pr[p].queue_wait_seconds = Cardinality(QueueVisits(p))
    /\ pr[p].active_review_seconds =
         IF pr[p].review_visit_count = 0 THEN 0
         ELSE (pr[p].review_visit_count - 1) * Service[p] + used[p]
=============================================================================
