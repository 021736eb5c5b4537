------------------------------ MODULE FifoEngine ------------------------------
(***************************************************************************)
(* run_fifo of simulation/engine.py: the discrete-event loop that moves    *)
(* proposals through verification, a FIFO review queue served by on-duty   *)
(* reviewers, author response, coordination and merge, up to a horizon.    *)
(*                                                                         *)
(* One iteration of the code's "while events" is a pass through the        *)
(* phases                                                                  *)
(*                                                                         *)
(*   advance -> abandon -> finish -> admit -> settle -> dispatch -> record *)
(*                                                                         *)
(* (advance -> censor -> record at the horizon), one action per body of    *)
(* the phase's inner loop.  The random streams are nondeterministic        *)
(* choices over the outcomes their probabilities allow.                    *)
(***************************************************************************)
EXTENDS Lifecycle

CONSTANTS
  PRs,                \* proposal identifiers; their order is the id order
  Reviewers,          \* reviewer identifiers; their order is the id order
  Authors,            \* author identifiers, reviewers among them or not
  ReadyTimes,         \* instants at which a proposal may become ready
  ProposalFlags,      \* <<eligible, audited>> pairs a proposal may carry
  Horizon,            \* span.seconds
  Duty,               \* reviewer -> set of <<start, end>> duty intervals
  Service,            \* proposal -> seconds of service of every visit
  VerificationDelay,  \* loops.verification_seconds
  ResponseDelay,      \* loops.author_response_seconds
  CoordinationDelay,  \* coordination_seconds
  FailOutcomes,       \* outcomes of "verification draw < probability"
  FirstChange,        \* outcomes of the requested-change draw, first visit
  RepeatChange,       \* outcomes of the requested-change draw, later visits
  MaxVisits,          \* loops.max_review_visits
  MaxVerifications,   \* loops.max_verification_attempts
  AbandonAfter,       \* elapsed abandonment deadlines; None: does not abandon
  Bypass              \* whether a ReviewBypass policy was supplied

ASSUME InstanceAssumption ==
  /\ PRs \subseteq Nat /\ Reviewers \subseteq Nat /\ Authors \subseteq Nat
  /\ ReadyTimes \subseteq Nat
  /\ ProposalFlags \subseteq BOOLEAN \X BOOLEAN
  /\ Horizon \in Nat \ {0}
  /\ Service \in [PRs -> Nat \ {0}]
  /\ VerificationDelay \in Nat /\ ResponseDelay \in Nat
  /\ CoordinationDelay \in Nat
  /\ FailOutcomes \subseteq BOOLEAN
  /\ FirstChange \subseteq BOOLEAN /\ RepeatChange \subseteq BOOLEAN
  /\ MaxVisits \in Nat \ {0} /\ MaxVerifications \in Nat \ {0}
  /\ AbandonAfter \subseteq (Nat \ {0}) \cup {None}
  /\ Bypass \in BOOLEAN

(* What the Reviewer record demands of duty: proper intervals, disjoint.   *)
ASSUME DutyAssumption ==
  /\ Duty \in [Reviewers -> SUBSET (Int \X Int)]
  /\ \A r \in Reviewers : \A d, e \in Duty[r] :
       d[1] < d[2] /\ (d = e \/ d[2] <= e[1] \/ e[2] <= d[1])

VARIABLES
  phase,      \* where the loop stands
  todo,       \* what the current inner loop has still to visit
  now,        \* the instant being processed
  previous,   \* the instant processed before it
  times,      \* the event heap; a set, as duplicates are popped together
  pr,         \* proposal -> record; "ready" means not admitted to states
  assigned,   \* reviewer -> the proposal under review, or None
  used,       \* proposal -> service_used of its current visit
  active,     \* reviewer -> active seconds
  pending,    \* set of <<proposal, due instant>> wake-ups
  truncated,  \* engine_truncated
  boundary    \* the latest Boundary appended

vars == <<phase, todo, now, previous, times, pr, assigned, used, active,
          pending, truncated, boundary>>

-----------------------------------------------------------------------------
(* Duty clipped to [0, Horizon].                                           *)
ClippedDuty(r) ==
  {<<IF d[1] < 0 THEN 0 ELSE d[1], IF d[2] > Horizon THEN Horizon ELSE d[2]>> :
     d \in {e \in Duty[r] : e[1] < Horizon /\ e[2] > 0}}

OnDuty(r, t) == \E d \in ClippedDuty(r) : d[1] <= t /\ t < d[2]

(* Mutant: only the ends of duty are events.                               *)
BoundariesWithoutStarts ==
  {d[2] : d \in UNION {ClippedDuty(r) : r \in Reviewers}}

Boundaries == UNION {{d[1], d[2]} : d \in UNION {ClippedDuty(r) : r \in Reviewers}}

DutyEnd(r, t) == (CHOOSE d \in ClippedDuty(r) : d[1] <= t /\ t < d[2])[2]

Earlier(a, b) == IF a <= b THEN a ELSE b

Admitted == {p \in PRs : pr[p].state # "ready"}

Assigned == {r \in Reviewers : assigned[r] # None}

(* Mutants: wake-ups at or past the horizon are kept; wake-ups due at once *)
(* are dropped.                                                            *)
WakeBeyond(p, delay) == {<<p, now + delay>>}

WakeLater(p, delay) ==
  IF delay > 0 /\ now + delay < Horizon THEN {<<p, now + delay>>} ELSE {}

(* schedule(): a wake-up strictly before the horizon, pushed on the heap   *)
(* unless it is due at once.                                               *)
Wake(p, delay) == IF now + delay < Horizon THEN {<<p, now + delay>>} ELSE {}

(* Mutant: events past the horizon are pushed.                             *)
PushBeyond(t) == {t}

Push(t) == IF t < Horizon THEN {t} ELSE {}

PushDelay(delay) == IF delay = 0 THEN {} ELSE Push(now + delay)

DueNow == {p \in PRs : <<p, now>> \in pending}

Count(state) == {p \in PRs : pr[p].state = state}

-----------------------------------------------------------------------------
Init ==
  /\ phase = "advance" /\ todo = {}
  /\ now = 0 /\ previous = 0
  /\ \E author \in [PRs -> Authors], ready \in [PRs -> ReadyTimes],
        flags \in [PRs -> ProposalFlags] :
       pr = [p \in PRs |-> Fresh(author[p], ready[p], flags[p][1], flags[p][2])]
  /\ times = {0, Horizon} \cup Boundaries
               \cup {t \in {pr[p].ready_at : p \in PRs} : t < Horizon}
  /\ assigned = [r \in Reviewers |-> None]
  /\ used = [p \in PRs |-> 0]
  /\ active = [r \in Reviewers |-> 0]
  /\ pending = {}
  /\ truncated = FALSE
  /\ boundary = [at |-> None, arrivals |-> {}, merged |-> {}, closed |-> {},
                 unresolved |-> {}]

(* A rejected event is an exception: it ends the run where it stands.      *)
Raised == \E p \in PRs : pr[p].state = "raised"

At(place) == phase = place /\ ~Raised

(* Pop the next instant and account the service of the elapsed interval to *)
(* the reviewers who were on duty when it began.                           *)
Working == {r \in Assigned : OnDuty(r, previous)}

UnderService == {assigned[r] : r \in Working}

Advance ==
  /\ At("advance")
  /\ \E t \in times :
       /\ \A u \in times : t <= u
       /\ now' = t
       /\ times' = times \ {t}
       /\ pr' = [p \in PRs |-> IF p \in UnderService
                               THEN ConsumeReviewService(pr[p], t - previous)
                               ELSE pr[p]]
       /\ used' = [p \in PRs |-> IF p \in UnderService
                                 THEN used[p] + (t - previous) ELSE used[p]]
       /\ active' = [r \in Reviewers |-> IF r \in Working
                                         THEN active[r] + (t - previous)
                                         ELSE active[r]]
       /\ IF t = Horizon
          THEN phase' = "censor" /\ todo' = {}
          ELSE /\ phase' = "abandon"
               /\ todo' = {p \in Admitted : pr[p].abandonment_deadline = t}
  /\ UNCHANGED <<previous, assigned, pending, truncated, boundary>>

(* At the horizon every admitted proposal still open is censored.          *)
Censor ==
  /\ At("censor")
  /\ pr' = [p \in PRs |-> IF p \in Admitted /\ ~IsTerminal(pr[p])
                          THEN HorizonReached(pr[p], now) ELSE pr[p]]
  /\ phase' = "record"
  /\ UNCHANGED <<todo, now, previous, times, assigned, used, active, pending,
                 truncated, boundary>>

(* Mutant: an approved proposal is left to merge after its deadline.       *)
AbandonUnlessApproved(p) ==
  /\ At("abandon") /\ p \in todo
  /\ todo' = todo \ {p}
  /\ pr' = [pr EXCEPT ![p] =
              IF IsTerminal(@) \/ @.state = "approved_waiting_merge"
              THEN @ ELSE Abandoned(@, now)]
  /\ UNCHANGED <<phase, now, previous, times, assigned, used, active, pending,
                 truncated, boundary>>

(* An admitted proposal still open at its deadline is abandoned.           *)
Abandon(p) ==
  /\ At("abandon") /\ p \in todo
  /\ todo' = todo \ {p}
  /\ pr' = [pr EXCEPT ![p] = IF IsTerminal(@) THEN @ ELSE Abandoned(@, now)]
  /\ UNCHANGED <<phase, now, previous, times, assigned, used, active, pending,
                 truncated, boundary>>

AbandonmentsDone ==
  /\ At("abandon") /\ todo = {}
  /\ phase' = "finish" /\ todo' = Assigned
  /\ UNCHANGED <<now, previous, times, pr, assigned, used, active, pending,
                 truncated, boundary>>

-----------------------------------------------------------------------------
(* The finish loop over the assigned reviewers.                            *)
(* A reviewer whose proposal has terminated is released.                   *)
ReleaseReviewer(r) ==
  /\ At("finish") /\ r \in todo
  /\ IsTerminal(pr[assigned[r]])
  /\ todo' = todo \ {r}
  /\ assigned' = [assigned EXCEPT ![r] = None]
  /\ UNCHANGED <<phase, now, previous, times, pr, used, active, pending,
                 truncated, boundary>>

ChangeOutcomes(p) == IF p.review_visit_count = 1 THEN FirstChange ELSE RepeatChange

(* Mutant: any service at all completes a visit.                           *)
ServedPartly(p) == used[p] > 0

Served(p) == used[p] >= Service[p]

(* Mutant: the author's delay after an approval, coordination after        *)
(* requested changes.                                                      *)
DelaySwapped(changes) == IF changes THEN CoordinationDelay ELSE ResponseDelay

DelayAfter(changes) == IF changes THEN ResponseDelay ELSE CoordinationDelay

(* A visit that received its service ends in requested changes or in       *)
(* approval, and schedules the author's response or the coordination.      *)
CompleteReview(r) ==
  LET p == assigned[r] IN
  /\ At("finish") /\ r \in todo
  /\ ~IsTerminal(pr[p])
  /\ Served(p)
  /\ \E changes \in ChangeOutcomes(pr[p]) :
       /\ pr' = [pr EXCEPT ![p] = IF changes THEN ChangesRequested(@, now)
                                  ELSE ReviewApproved(@, now)]
       /\ pending' = pending \cup Wake(p, DelayAfter(changes))
       /\ times' = times \cup PushDelay(DelayAfter(changes))
  /\ todo' = todo \ {r}
  /\ assigned' = [assigned EXCEPT ![r] = None]
  /\ UNCHANGED <<phase, now, previous, used, active, truncated, boundary>>

(* Mutant: a reviewer who goes off duty lets go of the visit.              *)
HandBack(r) ==
  /\ At("finish") /\ r \in todo
  /\ ~IsTerminal(pr[assigned[r]])
  /\ ~Served(assigned[r])
  /\ todo' = todo \ {r}
  /\ assigned' = IF OnDuty(r, now) THEN assigned
                 ELSE [assigned EXCEPT ![r] = None]
  /\ UNCHANGED <<phase, now, previous, times, pr, used, active, pending,
                 truncated, boundary>>

(* A visit still short of its service stays with its reviewer.             *)
KeepReviewing(r) ==
  /\ At("finish") /\ r \in todo
  /\ ~IsTerminal(pr[assigned[r]])
  /\ ~Served(assigned[r])
  /\ todo' = todo \ {r}
  /\ UNCHANGED <<phase, now, previous, times, pr, assigned, used, active,
                 pending, truncated, boundary>>

FinishesDone ==
  /\ At("finish") /\ todo = {}
  /\ phase' = "admit" /\ todo' = {p \in PRs : pr[p].ready_at = now}
  /\ UNCHANGED <<now, previous, times, pr, assigned, used, active, pending,
                 truncated, boundary>>

-----------------------------------------------------------------------------
(* The bypass policy classifies a proposal once, at entry; without one the *)
(* flags the proposal carries are left alone.  An audit needs eligibility. *)
Classifications(p) ==
  IF Bypass THEN {c \in BOOLEAN \X BOOLEAN : c[2] => c[1]}
  ELSE {<<p.bypass_eligible, p.bypass_audited>>}

(* A proposal arrives: it is classified, may draw an abandonment deadline, *)
(* and starts its first verification.                                      *)
Admit(p) ==
  /\ At("admit") /\ p \in todo
  /\ \E class \in Classifications(pr[p]), elapsed \in AbandonAfter :
       LET deadline == IF elapsed = None THEN None ELSE now + elapsed IN
       /\ pr' = [pr EXCEPT ![p] = StartVerification(
                  [@ EXCEPT !.bypass_eligible = class[1],
                            !.bypass_audited = class[2],
                            !.abandonment_deadline = deadline], now)]
       /\ times' = times \cup PushDelay(VerificationDelay)
                         \cup (IF elapsed = None THEN {} ELSE Push(deadline))
  /\ pending' = pending \cup Wake(p, VerificationDelay)
  /\ todo' = todo \ {p}
  /\ UNCHANGED <<phase, now, previous, assigned, used, active, truncated,
                 boundary>>

(* Mutant: the batch is read but not popped.                               *)
RereadBatch ==
  /\ At("admit") \/ At("settle")
  /\ todo = {}
  /\ DueNow # {}
  /\ phase' = "settle" /\ todo' = DueNow
  /\ UNCHANGED <<now, previous, times, pr, assigned, used, active, pending,
                 truncated, boundary>>

(* One pass of "while now in pending" pops the batch due now; zero delays  *)
(* schedule into the next pass of the same instant.                        *)
NextBatch ==
  /\ At("admit") \/ At("settle")
  /\ todo = {}
  /\ DueNow # {}
  /\ phase' = "settle" /\ todo' = DueNow
  /\ pending' = pending \ (PRs \X {now})
  /\ UNCHANGED <<now, previous, times, pr, assigned, used, active, truncated,
                 boundary>>

BatchesDone ==
  /\ At("admit") \/ At("settle")
  /\ todo = {}
  /\ DueNow = {}
  /\ phase' = "dispatch" /\ todo' = Reviewers
  /\ UNCHANGED <<now, previous, times, pr, assigned, used, active, pending,
                 truncated, boundary>>

-----------------------------------------------------------------------------
(* The settle loop, in identifier order.                                   *)
Settling(p) == At("settle") /\ p \in todo /\ \A q \in todo : p <= q

SkipTerminal(p) ==
  /\ Settling(p)
  /\ IsTerminal(pr[p])
  /\ todo' = todo \ {p}
  /\ UNCHANGED <<phase, now, previous, times, pr, assigned, used, active,
                 pending, truncated, boundary>>

Merge(p) ==
  /\ Settling(p)
  /\ pr[p].state = "approved_waiting_merge"
  /\ todo' = todo \ {p}
  /\ pr' = [pr EXCEPT ![p] = MergeCompleted(@, now)]
  /\ UNCHANGED <<phase, now, previous, times, assigned, used, active, pending,
                 truncated, boundary>>

SubmitRevision(p) ==
  /\ Settling(p)
  /\ pr[p].state = "author_response"
  /\ pr[p].verification_count < MaxVerifications
  /\ todo' = todo \ {p}
  /\ pr' = [pr EXCEPT ![p] = RevisionSubmitted(@, now)]
  /\ pending' = pending \cup Wake(p, VerificationDelay)
  /\ times' = times \cup PushDelay(VerificationDelay)
  /\ UNCHANGED <<phase, now, previous, assigned, used, active, truncated,
                 boundary>>

(* The attempt limit stops the whole run; the rest of the batch and the    *)
(* dispatch of this instant are dropped.                                   *)
TruncateVerification(p) ==
  /\ Settling(p)
  /\ pr[p].state = "author_response"
  /\ pr[p].verification_count >= MaxVerifications
  /\ truncated' = TRUE /\ phase' = "record" /\ todo' = {}
  /\ UNCHANGED <<now, previous, times, pr, assigned, used, active, pending,
                 boundary>>

Verifies(p) ==
  /\ Settling(p)
  /\ ~IsTerminal(pr[p])
  /\ pr[p].state \notin {"approved_waiting_merge", "author_response"}
  /\ todo' = todo \ {p}

FailVerification(p) ==
  /\ Verifies(p)
  /\ TRUE \in FailOutcomes
  /\ pr' = [pr EXCEPT ![p] = VerificationFailed(@, now)]
  /\ pending' = pending \cup Wake(p, ResponseDelay)
  /\ times' = times \cup PushDelay(ResponseDelay)
  /\ UNCHANGED <<phase, now, previous, assigned, used, active, truncated,
                 boundary>>

(* Mutant: an audited proposal takes the bypass.                           *)
TakesBypassUnaudited(p) == Bypass /\ p.bypass_eligible

TakesBypass(p) == Bypass /\ p.bypass_eligible /\ ~p.bypass_audited

(* A passed verification enters the review queue, or leaves it in the same *)
(* step through the bypass.                                                *)
PassVerification(p) ==
  /\ Verifies(p)
  /\ FALSE \in FailOutcomes
  /\ IF TakesBypass(pr[p])
     THEN /\ pr' = [pr EXCEPT ![p] =
                      ReviewBypassed(VerificationPassed(@, now), now)]
          /\ pending' = pending \cup Wake(p, CoordinationDelay)
          /\ times' = times \cup PushDelay(CoordinationDelay)
     ELSE /\ pr' = [pr EXCEPT ![p] = VerificationPassed(@, now)]
          /\ UNCHANGED <<pending, times>>
  /\ UNCHANGED <<phase, now, previous, assigned, used, active, truncated,
                 boundary>>

-----------------------------------------------------------------------------
(* The dispatch loop, in reviewer order.                                   *)
Dispatching(r) == At("dispatch") /\ r \in todo /\ \A s \in todo : r <= s

(* Mutant: the queue is in identifier order.                               *)
PrecedesById(p, q) == p <= q

(* The FIFO order of the queue: entry, then identifier.                    *)
Precedes(p, q) ==
  \/ pr[p].queue_entered_at < pr[q].queue_entered_at
  \/ pr[p].queue_entered_at = pr[q].queue_entered_at /\ p <= q

(* Mutants: authors review their own proposals; an author at the head of   *)
(* the queue does not look past it.                                        *)
CandidatesWithOwn(r) == {p \in PRs : pr[p].state = "queued_for_review"}

HeadCandidates(r) ==
  {p \in CandidatesWithOwn(r) :
     pr[p].author # r /\ \A q \in CandidatesWithOwn(r) : Precedes(p, q)}

(* What r may take from the queue: anything but its own.                   *)
Candidates(r) ==
  {p \in PRs : pr[p].state = "queued_for_review" /\ pr[p].author # r}

FirstCandidates(r) ==
  {p \in Candidates(r) : \A q \in Candidates(r) : Precedes(p, q)}

(* Off duty, or idle with nothing in the queue that r may review.          *)
PassOver(r) ==
  /\ Dispatching(r)
  /\ ~OnDuty(r, now) \/ (assigned[r] = None /\ Candidates(r) = {})
  /\ todo' = todo \ {r}
  /\ UNCHANGED <<phase, now, previous, times, pr, assigned, used, active,
                 pending, truncated, boundary>>

(* Mutant: the service already given is forgotten.                         *)
NextStopAfresh(r, p, served) == Earlier(DutyEnd(r, now), now + Service[p])

(* The next instant at which r's visit finishes or duty ends.              *)
NextStop(r, p, served) == Earlier(DutyEnd(r, now), now + (Service[p] - served))

ContinueReview(r) ==
  /\ Dispatching(r)
  /\ OnDuty(r, now) /\ assigned[r] # None
  /\ todo' = todo \ {r}
  /\ times' = times \cup {NextStop(r, assigned[r], used[assigned[r]])}
  /\ UNCHANGED <<phase, now, previous, pr, assigned, used, active, pending,
                 truncated, boundary>>

StartReview(r) ==
  /\ Dispatching(r)
  /\ OnDuty(r, now) /\ assigned[r] = None
  /\ \E p \in FirstCandidates(r) :
       /\ pr[p].review_visit_count < MaxVisits
       /\ pr' = [pr EXCEPT ![p] = ReviewStarted(@, now)]
       /\ assigned' = [assigned EXCEPT ![r] = p]
       /\ used' = [used EXCEPT ![p] = 0]
       /\ times' = times \cup {NextStop(r, p, 0)}
  /\ todo' = todo \ {r}
  /\ UNCHANGED <<phase, now, previous, active, pending, truncated, boundary>>

(* The visit limit of the proposal at the head of the queue stops the run. *)
TruncateReview(r) ==
  /\ Dispatching(r)
  /\ OnDuty(r, now) /\ assigned[r] = None
  /\ \E p \in FirstCandidates(r) : pr[p].review_visit_count >= MaxVisits
  /\ truncated' = TRUE /\ phase' = "record" /\ todo' = {}
  /\ UNCHANGED <<now, previous, times, pr, assigned, used, active, pending,
                 boundary>>

DispatchDone ==
  /\ At("dispatch") /\ todo = {}
  /\ phase' = "record"
  /\ UNCHANGED <<todo, now, previous, times, pr, assigned, used, active,
                 pending, truncated, boundary>>

-----------------------------------------------------------------------------
(* Append the boundary of this instant and go round, or return.            *)
Record ==
  /\ At("record")
  /\ boundary' = [at |-> now, arrivals |-> Admitted, merged |-> Count("merged"),
                  closed |-> Count("closed_without_merge"),
                  unresolved |-> Count("unresolved")]
  /\ phase' = IF truncated \/ times = {} THEN "done" ELSE "advance"
  /\ previous' = IF truncated THEN previous ELSE now
  /\ UNCHANGED <<todo, now, times, pr, assigned, used, active, pending,
                 truncated>>

(* The result has been returned.                                           *)
Returned == phase = "done" /\ UNCHANGED vars

Next ==
  \/ Advance \/ Censor \/ Record \/ Returned
  \/ AbandonmentsDone \/ FinishesDone \/ NextBatch \/ BatchesDone \/ DispatchDone
  \/ \E p \in PRs : Abandon(p)
  \/ \E p \in PRs : Admit(p)
  \/ \E p \in PRs : SkipTerminal(p)
  \/ \E p \in PRs : Merge(p)
  \/ \E p \in PRs : SubmitRevision(p)
  \/ \E p \in PRs : TruncateVerification(p)
  \/ \E p \in PRs : FailVerification(p)
  \/ \E p \in PRs : PassVerification(p)
  \/ \E r \in Reviewers : ReleaseReviewer(r)
  \/ \E r \in Reviewers : CompleteReview(r)
  \/ \E r \in Reviewers : KeepReviewing(r)
  \/ \E r \in Reviewers : PassOver(r)
  \/ \E r \in Reviewers : ContinueReview(r)
  \/ \E r \in Reviewers : StartReview(r)
  \/ \E r \in Reviewers : TruncateReview(r)

(* The loop is a single thread of straight-line code: it never pauses.     *)
Spec == Init /\ [][Next]_vars /\ WF_vars(Next)
=============================================================================
