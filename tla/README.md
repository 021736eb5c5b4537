# merge-carlo, verified in TLA+

merge-carlo reads the review history of a GitHub repository, calibrates a
queueing model from it, and simulates how proposals flow through verification,
review and merge under different assumptions about AI-generated demand. This
directory holds TLA+ models of its state-changing parts, the TLC configurations
that check them on small instances, and TLAPS proofs about them.

    tlc -config fifo_duty.cfg MCMeasuredEngine  # model-check one run
    tlapm FifoEngineProofs.tla                  # check one module's proofs

`PROJECT.json` lists, for every definition, the source lines it models, and for
every checked property a mutation of the model that breaks it.

Paths below are relative to `src/merge_carlo/` unless they start with `specs/`,
`docs/`, `scripts/` or `tests/`.

## 1. Inventory of the system

The system has two halves that meet in files: a collection half (GitHub to a
local projected dataset) and a simulation half (experiment to artifacts).
Everything runs in one process and one thread; nothing is `async`, and the one
lock, of the transport, serialises its collections. The hard behaviour is
therefore not thread interleaving. It is the interleaving of *simulated* actors
inside the event loop, simultaneous events, limits reached in the middle of
something, and the points at which the process can fail or be killed while
files and database rows change.

| Component | State | Operations | What makes it hard | What must hold |
|---|---|---|---|---|
| Pull-request lifecycle (`simulation/domain.py`) | one immutable record per proposal: state, revision, validity of verification and approval, queue and service accounts, terminal reason | `transition` (11 events), `consume_review_service` | a transition table and a record contract (`__post_init__`) written separately; what a new revision must clear | the two agree on every legal sequence; counters and accounts consistent |
| FIFO engine (`simulation/engine.py`) | event heap, pending wake-ups, deadlines, assignments, service accounts, records | `run_fifo` | simultaneous events, zero delays, interrupted visits, attempt limits, events at the horizon, reviewers who are authors | no event is rejected or lost; exclusive ownership; exact service; work conservation; FIFO; deadlines; a complete result |
| Metrics (`simulation/metrics.py`) | integrals and first completions over a window | `advance`, `completed_review`, `finish` | half-open windows, carry-in, censoring | conservation of proposals; areas within the window |
| Calendars, capacity (`simulation/calendars.py`, `capacity.py`) | none (pure) | run bounds; weekly windows to intervals, merge, subtract absences | overlaps, overnight shifts, changes of offset | duty is disjoint, within the span, and what the wall clock says |
| Arrivals (`simulation/arrivals.py`) | none (pure) | additive and replacement AI demand | weeks cut by the span, changes of offset | every arrival of a drawn week in the span, once |
| Random streams (`simulation/randomness.py`) | none (pure) | keyed generators | reuse of a key | keys distinct, common random numbers across scenarios |
| Bypass policy (`simulation/bypass.py`) | none (pure) | classify a proposal | audit within eligibility | an audited proposal is reviewed |
| Runner (`simulation/runner.py`) | results per scenario, assumption, replication | run, pair, compare | truncated replications; pairing | exclusions symmetric over a pair; nothing computed from nothing |
| Artifacts (`artifacts.py`, and the writers of `inspection.py`, `calibration.py`, `validation.py`, `configuration.py`) | directories on disk | `write_experiment`, `rewrite_report_in_bundle`, `write_report`, four writers into empty directories | failure, interruption or kill between two renames | a reader never sees a partial bundle; the previous bundle survives until replaced |
| Experiment construction (`experiment.py`, `configuration.py`) | none (pure) | parse, validate, lineage | | evidence and experiment match |
| GitHub transport (`github.py`) | readiness time, page, request and retry counters | `collect` pages | rate limits, retries, redirects, cycles, limits reached at a page end | bounded work; `complete` only when every page was read |
| Cohort (`cohort.py`) | batches per endpoint | reconcile, two-phase save | duplicates on shifting pages; resume identity | complete batches are conflict-free; the save is atomic |
| Store (`store.py`) | SQLite rows, workspace key file | open, `save`, read | one of several statements failing; crash during creation | an extraction is replaced as a whole |
| Command line (`cli.py`) | files and exit codes | `collect`, `--resume`, ... | crash between schema, marker and save | a later run can always continue or start again |
| Live workflow (`scripts/run_live_workflow.py`) | output tree per repository | phases, resume | partial earlier output | a repository is reported once, with its true status |
| Attribution, features (`attribution.py`, `features.py`) | none (pure) | readiness, eligibility, maturity | order of lifecycle events | decided facts are not revised by later maturity |
| Inspection, calibration, validation (`inspection.py`, `calibration.py`, `validation.py`) | none (pure; files through the writers) | counts, gates, held-out replay | too little support; truncated replays | no status `pass` without its evidence |
| Demo, benchmark (`demo.py`, `benchmark.py`) | none | fixed inputs | | |

How they interact: the command line drives the transport through the cohort
into the store; inspection, features, attribution and calibration read the
store; calibration and configuration produce an experiment; the runner calls
the engine once per scenario, assumption and replication; the engine holds one
lifecycle record per proposal and calls the metrics at every event; artifacts
and report take the runner's results to disk. All are direct calls; the only
shared mutable state is the file system.

The hazards found in this code, each at its line and with the properties that
cover it, are listed under `hazards` in `PROJECT.json`.

## 2. Plan

The modules, in the order in which they were written, and what composes what:

1. `Lifecycle`, `LifecycleMachine`: the record and its transitions.
2. `FifoEngine`, `FifoEngineProperties` over `Lifecycle`; `MeasuredEngine`, the
   engine with its metrics meter.
3. `BundleStore`, `Publication`: the writers and their promise.
4. `Transport`: the page, retry and rate-limit loop.
5. `DatasetStore`, `CollectWorkflow`: the collect command and its promise.
6. `LiveWorkflow`: the script that drives collection, inspection, calibration
   and simulation of several repositories, call after call; `Calls`, which has
   `LifecycleMachine`, `Publication` and `LiveWorkflow` as alternatives in one
   specification.
7. `Cohort`, `Features` (which extends it), `Experiment`, `Validation`,
   `Schedule`, and `Evidence`, which has them as alternatives in one
   specification: the commands that make and judge evidence.

`LifecycleProofs`, `LifecycleMachineProofs`, `FifoEngineProofs`,
`PublicationProofs`, `TransportProofs`, `CollectProofs`, `LiveWorkflowProofs` and
`EvidenceProofs` hold the theorems; modules named `MC...` hold the values of
constants a `.cfg` cannot write.

Every invariant and action property of a passing run is also a theorem of its
specification; `Termination` and `Returns`, which are liveness, are not.

Modules that theorems are about use no `RECURSIVE` operator, keep parameters as
CONSTANTS with named assumptions, and have one action per operation.

## 3. What is modelled

### Lifecycle, LifecycleMachine

`Lifecycle` has one operator per event of `PullRequest.transition`, from record
to record. Each applies the table's target state, the event's own assignments
and terminal bookkeeping, and then the contract of `__post_init__`
(`Contract`, with its parts `Cleared`, `ReasonsOf`, `Chronology`). An event the
table, a guard or the contract refuses yields a record in state `"raised"`,
which stands for the exception. `LifecycleMachine` is one record under every
legal sequence of calls, including those the engine never makes (`CLOSED`, and
a revision submitted after approval).

Abstractions: instants and durations are integers. `terminal_at` is represented
by `last_transition_at`, to which the contract ties it. Proposals start at
revision 1, as the engine builds them.

### FifoEngine

One iteration of the code's `while events` is a pass through the phases
`advance, abandon, finish, admit, settle, dispatch, record` (at the horizon
`advance, censor, record`), one action per body of an inner loop. Correspondence:

| Code | Model |
|---|---|
| `events` heap | `times`, a set: equal instants are popped together by the code |
| `pending` dict of lists | `pending`, a set of (proposal, instant). A list could hold a proposal twice; `NoStrayWakeUp` shows that it does not |
| `deadlines` dict | the record's `abandonment_deadline`, looked up at its instant |
| `states` | `pr`; a proposal not yet in `states` is in state `"ready"` |
| `assigned`, `service_used`, `active` | `assigned`, `used`, `active` |
| `boundaries` | `boundary`, the latest one, with the sets it counts |
| `random_stream(...)` draws | nondeterministic choice over the outcomes of positive probability |
| `break` at an attempt or visit limit | `TruncateVerification`, `TruncateReview` |
| an exception | state `"raised"`; every action requires that there is none |

The abandonment and the finish loop treat distinct proposals and reviewers, so
the model lets them go in any order. The settle loop (sorted by identifier) and
the dispatch loop (reviewers in order, queue sorted by entry and identifier)
keep the code's order. `schedule` drops what is due at or past the horizon and
does not push what is due at once; the loop that re-reads `pending` in the same
instant is `NextBatch`.

The calls to the metrics meter, which read and do not write the engine's state,
are in `MeasuredEngine`. Not modelled is rounding. The code adds exact fractions
and stores floats; the model counts integers, so the two rounding hazards listed
in `PROJECT.json` are outside it. With a bypass policy that has no eligible
fraction the code keeps the eligibility a proposal carries; the model allows any
classification, a superset.

### BundleStore, Publication

`Publication` models one writer call at a time over a directory: build under a
temporary name, move aside, rename, restore on `OSError`, the `finally` block,
removal of the backup. Three kinds of writer share the actions and differ where
the code does: `experiment` (`write_experiment`: backup next to the staging
directory), `rewrite` (`rewrite_report_in_bundle`: backup inside it) and `fresh`
(the four writers that accept only an absent or empty directory and remove it
first). Between any two steps an operation may fail (`PublishFails`, `Fail`),
the call may be interrupted by an exception that is not an `OSError`
(`Interrupt`), or the process may die (`Kill`); removal of a directory tree is
not atomic (`Tear`). Bundles are numbered by the call that made them; number 1
is whatever was there before. `left` remembers the newest bundle that a killed
call left under a temporary name, which later calls do not touch.

`BundleStore` is the promise: a reader sees the latest complete bundle or
nothing, and the latest complete bundle stays on disk until a newer one is
published. Concurrent writers are not modelled: the interface is documented as
single-writer (`docs/artifacts.md:107`).

### Transport

`Transport` is `GitHubTransport._collect`: the checks at the top of the loop
(`GiveUp`), the request (`Send`) and one action per kind of answer, in the order
in which the code tells them apart. The server is free to answer every request
with anything, also inconsistently, so no property rests on its good behaviour.

| Code | Model |
|---|---|
| locals `url, pages, requests, retries, len(records), seen` | the record `c` |
| `_ready_at` minus the clock | `wait`; sleeping or time passing lowers it |
| headers `retry-after`, `x-ratelimit-reset` | `Headers`: absent, unparsable or seconds from now; a reset only counts with `x-ratelimit-remaining: 0` |
| a non-finite deadline | one beyond `MaxWait`, which is what `_delay` makes of it |
| `failed`, `Collection(...)` | `Failed`, `Return`; records are counted, not kept |
| an exception caught at the end | `Failed` with its reason, in the action of the answer that causes it |

`owed`, `received` and `redirects` are history variables: the seconds until the
deadline the server announced last, the records of all pages received, and the
redirects followed (capped, like the requests they take). Nothing reads them but
the properties. An answer that is refused outright (401, 403, 404, a bad body)
announces no deadline in the model. Which targets `_target` refuses, the
validators of a single-page result and the redaction of diagnostics are left out.

### DatasetStore, CollectWorkflow

`CollectWorkflow` is `collect` of `cli.py` with everything it calls, one call
after another on one dataset directory. `phase` names the next thing a call
does, so that a failure, an interruption or a kill can fall between any two:

    key secret connect migrate | identify begin..commit pulls children begin..commit export | leave close

The bars are the code's blocks: only between the first and the second does the
inner `finally` block (`Finally`, `cli.py:220-221`) run. `begin..commit` is
`ProjectedStore.save` statement by statement (`BeginImmediate` to `Commit`),
passed twice by a fresh call, first for the incomplete marker.

| Code | Model |
|---|---|
| `dataset.sqlite` on disk, as committed | `db`: no file, a file without a schema, or a schema with the fingerprint of its workspace and the extractions in it |
| the open transaction | `tx`, lost as a whole by `ROLLBACK`, by closing and by a kill |
| `workspace` directories | `keys`: absent, created but without its key yet, or keyed |
| the locals of the call | `p`, gone when it ends |
| repository, interval and API version | one member of `Identities` |
| an extraction's id (`uuid4`) | the number of the call that created it |
| rows of `collection_status` | triples of kind, pull request (0 for the whole batch) and status |
| `SourceError`, `OSError` / `ValueError` | exit codes `"source"` / `"invalid"` |

SQLite is external: a transaction is atomic and, once committed, durable. What
the transport returns is free within `Outcomes`; `BatchStatus` is how `_batch`
makes a status of it. Only one collector runs at a time
(`docs/cohort-collection.md:16`). `saved`, the call that saved an extraction
last, is a history field that only properties read.

`DatasetStore` is the promise to readers: no extraction, or one, first marked
incomplete, then only ever replaced as a whole under the same identity and with
the same workspace's pseudonyms.

### MeasuredEngine

`Measurement` of `simulation/metrics.py` beside the engine: `meter` is the
object, advanced before the service of an interval is accounted
(`MeterAdvance`), told of a completed visit (`MeterCompletedReview`), and turned
into `metrics` when the last instant is recorded (`MeterFinish`), unless the run
was truncated. Each step of the engine takes along the meter call the code makes
there; `Unmetered` lists the steps that make none. The second level of the
dictionary (`new_ready`) is kept beside `all_work`; the one per origin goes
the same way and is left out. `waits` and `open` are history: what happened,
independently of how the meter computes it.

### LiveWorkflow

`scripts/run_live_workflow.py`, call after call on one output directory. `phase`
is the stage of the repository the call is at:

    prepare | input collection inspection inputs calibration simulation | summary

with the middle part once per repository. A stage succeeds, or raises and blocks
its repository (`Blocked`), or the process dies in it (`Die`). A file is absent,
torn (cut off while it was written: nothing stages the four input files, the
scenarios and the summary) or whole with the call and the extraction it was
made from; datasets, inspections, models and reports are published by a rename,
as `CollectWorkflow` and `Publication` show in detail. A resumed call takes over
what it finds exactly where the code does (`Resumable`, `Inspect`, `Calibrate`).

### Cohort, Features

One pull request on GitHub that lives on (`Happen`, `Submit`, `Dismiss`, `Tick`)
while `collect_cohort` reads it: the listing of all (`ListAll`), the pages of the
open ones that show it (`ListOpen`: pages shift, so any number of times, as it is
or as it was listed before, or not at all), their reconciliation and stamp
(`Reconcile`), the reviews, the events. `Kept` is one round of `_batch`, folded in
as a row is read and not at the end, which comes to the same. A batch is stamped
with a clock read after its last page, at most `MaxLag` later than the first
(`Tick`, `Stamps`). `Attribution` is
`resolve_attribution`. `Build` is `build_features` for the row of this pull
request, `Calibrate` the evidence flags and status of `calibrate_model`. GitHub's
side stays in the state as the truth that the properties compare with. With one
pull request the thresholds of calibration are those of one.

### Experiment, Validation

`Experiment` is the stream of `runner.py` (assumption set by replication, the
baseline before the scenarios), the consumer in `artifacts._bundle` that
remembers only the previous baseline, and the summary with the validators of
`reporting.py` that it must pass. A simulation is reduced to whether it was
truncated, its merges and whether a latency is defined.

`Validation` is `replay_held_out` and `run_validation`: split, replications with
the truncated ones passed over, flags, gates, status, and the `report` command
that carries the status to results of the same lineage. Values are counted in
half units, so that medians are exact; a median is taken by ranks (`Ranked`), which
is what sorting and taking the middle comes to.

### Schedule

`Bound` is `materialize_run_bounds`, `Materialize` the duty of one reviewer in
`DutyCalendar.materialize`, `Generate` is `generate_proposals`. An instant is
elapsed time, a reading is what the wall clock shows; a zone changes its offset
once, by at most one unit, at any of `Transitions`. `Candidates`, `Strict` and
`Folds` are the strict mapping and the two folds of the code. Sampled weeks and
the number of additions are nondeterministic choices. A replacement changes the
origin of an arrival and nothing else, so it has no step.

A calendar is any set of up to `MaxWindows` windows, an absence list any sequence
of up to `MaxAbsences` absences. The steps of `DutyCalendar.materialize` are one
operator each: `Shifts` (the days of the span and the one before), `Proper` (what
the span leaves of them), `Sorted` (an interval stands where as many come before
it as its rank says), `Merged` and `Present`, which are recursive functions that
go through their sequence as the loops of the code do, one `Joined` or `Without`
at a time.

The duty and the proposals that come out have the form that `DutyAssumption` and
`InstanceAssumption` of `FifoEngine` require: disjoint proper intervals and
instants within the span.

### Calls

`Calls` composes three components whose promise is about any sequence of calls:
`LifecycleMachine`, `Publication`, `LiveWorkflow`. `called` names the one that is
called, the others wait in an initial state. They meet in the code (a stage of the
live workflow publishes, the simulation in it uses the lifecycle), but each of
those calls has ended when the next one starts, so they share no state.

### Evidence

`Evidence` composes the last four: one component runs, the others stay as they
are. They share files on disk and no state, so their interleavings would say
nothing more.

## 4. What the runs check

| Run | Instance | Shows |
|---|---|---|
| `fifo_duty` | 2 proposals, 2 reviewers, one also an author; horizon 7; duty that pauses, overlaps, starts before the run and is clipped by its end; services of 1 and 2 seconds; a deadline at 3 or none; a measurement window from 4 on, outcomes within 2 (68 thousand states) | ownership, no hand-over, exact service (`NoOvershoot`, `ServiceWithinDuty`), `WorkConserving`, `FirstReviewsFifo`, `LimitationSound`, `AccountsExact`; of the metrics, `FlowConserved` and `IntegralsTrue` |
| `fifo_deadline` | 2 proposals, horizon 5, back-to-back duty, deadlines at, before and past the horizon, bypass with audit, zero delays (459 thousand states) | `NoRejection`, `NoLostWakeUp`, `NoStrayWakeUp`, `MergeEarned`, `DeadlineHonoured`, `CompleteResult`, `Termination` |
| `calls` | one of three components at a time: a record on instants 0..4 with up to 3 revisions and 1 second of service; three writes of any writer with up to 2 failed operations each (1 for a rewrite), interruption of the two other writers, kill anywhere; two calls of the live workflow over two repositories, one death, collections complete or with an endpoint gone (3.8 million states) | `ContractKept`: no legal sequence of calls builds a record its own contract refuses; `OneVisitPerRevision`: the keys of the random streams are never drawn twice; `KeepsPromise`: the refinement of `BundleStore`; `FailureRestores`; `OneExtraction`: inputs, model and report of a repository come from the one extraction that was inspected; `SummaryTrue` |
| `transport` | two collections, 3 addresses, pages of 0 or 2 records, 5 requests, 3 pages, 5 records, 1 retry, deadlines within and beyond the wait limit (333 thousand states) | `ResultHonest`, `RetryBudget`, `NoPageTwice`, `NeverEarly`, `Returns` |
| `collect` | three calls, two pull requests, two workspaces, two identities, statuses complete and unavailable, two faults (5.8 million states) | `KeepsPromise`: the refinement of `DatasetStore`; `WholeOrMarked`, `ExitHonest`, `Retryable` |
| `evidence` | a pull request with 2 events and 1 review over 4 instants, stamps up to 1 late, horizon 2, cutoffs 2 and 3; experiments of every shape of up to 6 simulations; replays of up to 4 replications; days of 3 units, weeks of 2 days, spans of up to 4 days, at most two windows and at most one absence (12 million states) | `BatchTrue`, `ReadinessTrue`, `OutcomesTrueWithinLag`, `EvidenceEarned`; `SummaryFaithful`; `VerdictEarned`; `ScheduleTrue` |
| `evidence_late` | the pull request with 1 event | `DecidedOutcomesTrue` is violated; see section 6 |
| `evidence_dismissed` | the pull request with 1 review and no event | `SubmissionsDecide` is violated; see section 6 |
| `validation_truncated` | replays of up to 3 replications | `TruncationBarsPass` is violated; see section 6 |
| `collect_killed` | one call, one fault | `Recoverable` is violated; see section 6 |
| `transport_next` | two collections, one address, 2 records | `DeadlinesHonoured` is violated; see section 6 |
| `publication_interrupted` | one rewrite, interrupted | `PreviousKept` is violated; see section 6 |

Bounds. Two proposals and two reviewers are the smallest instance with a queue
order, a skipped queue head, contention for a reviewer and two reviewers
contending for one proposal. The horizons are just long enough for a visit to be
interrupted, resumed, sent back and revisited before censoring, and to be cut
off by it. Two visits and three verifications let both limits truncate a run
and also let a run finish within them. Five instants and three revisions in
`calls` let every pair of events coincide or be apart in every order that
involves an approval, a bypass and two resubmissions. Three publication calls
let a kill be followed by a failing call and that by a successful one. In
`transport` an odd record budget against pages of two makes a page overflow it,
three addresses let links run into a circle of any length up to three, and with
five requests each of the budgets (requests, pages, records, retries, wait) is
the one that ends some collection. In `collect` a first call can leave a marker,
a second resume it wrongly (other workspace, other identity) or be cut off in
its final save, and a third find what is left; a partial batch takes the way of
an unavailable one, so `Outcomes` leaves it out, and `BatchStatus` still makes
partial batches of one complete and one unavailable collection.

In `fifo_duty` the window opens in the middle of the run, so that work is
carried in, resolved before it, waiting or under service across its start, and
the outcome of a late arrival is not observable. Two calls of the live workflow
are the least in which one finds what another left at every stage, and two
repositories let one be blocked and the next go on. In `evidence` two events are
the least with a repeated readiness and with a return to draft; six simulations
hold two assumption sets, scenarios or replications, in each combination of two
of them, and three of one with two of another; four replications let two be
truncated and two decide, and let the median fall between two values. Weeks of
two days give spans that start in an overnight shift, in the middle of a week
and across two weeks, with the change of offset before, inside and after them.

`CHECK_DEADLOCK FALSE` is used where the system may stop: a terminal record
accepts no event, no further call is made on a directory, after the last
collection nothing happens, and evidence once judged stays. `FifoEngine` is
checked for deadlock; a returned run stutters explicitly (`Returned`).

Fairness: `WF_vars(Next)` for the engine. `run_fifo` is straight-line
code in one thread, so some step is always taken while one is possible; no
fairness of any particular choice (draws, reviewers) is assumed. `Termination`
then says that no cycle of zero delays avoids the attempt limit forever.

For the transport the fairness is `WF_vars(phase # "idle" /\ Next)`: a
collection that has begun goes on, because the timeouts given to each request
bound every operation of the connection (`github.py:208`), the payload budget
bounds a response, and sleeps are bounded by `max_wait`; no caller is obliged
to start another. No fairness is assumed of the kind of answer. `Returns` then
says that no server can keep a collection going forever; only the request
budget prevents redirects and retries from doing so.

## 5. What is proved

All proofs are for every value of the constants that meets the assumptions.

*Assumptions.* `InstanceAssumption` and `DutyAssumption` (`FifoEngine`): sorts
of the parameters, positive service, proper and disjoint duty intervals. They
are what the constructors of `engine.py` validate. `WindowAssumption` and
`PopulationAssumption` (`MeasuredEngine`): the window starts before the horizon,
and proposals and reviewers are finitely many, as they are given in tuples.
`BoundsAssumption`, `WritersAssumption`, `LiveAssumption`: sorts of the bounds.
Proposals, reviewers and authors are natural numbers because identifiers are
ordered.

*Lifecycle* (`LifecycleProofs`). `Sane` collects what is true of every record
reachable through the engine's use of the lifecycle. For each event there is a
lemma: a sane record in the right state, at an instant not before its last
transition, is accepted, and the result is sane and in the event's target
state. These lemmas are where the transition table and the contract are shown
to agree.

*Any caller of the lifecycle* (`LifecycleMachineProofs`). `CallsAreNeverRejected`
and `RevisionsAreVisitedOnce`, for sequences of any length, from the same lemmas,
for a caller that is freer than the engine. `Counts` relates visits, requests for
changes and revisions state by state: only in review may a visit be ahead of the
request it can lead to, and only a new revision makes room for another visit.

*Engine, first part* (`FifoEngineProofs`). `TypeCorrect`, `NeverRejects`,
`WakeUpsMeanTheirState`, `ReviewsAreOwned`, `ReviewsAreNotHandedOver` follow from
one inductive invariant `IInv`. None of the properties is inductive alone:

- an event is accepted only if the record is sane (`Sanity`) and the clock is
  not behind it (`Timely`), so `NoRejection` needs both;
- the clock moves forward only because the heap lies ahead of it and short of
  the horizon (`HeapAhead`);
- a wake-up applies the event of the right state only if no other wake-up of
  the proposal exists (`NoStrayWakeUp`), which needs to know what each inner
  loop still has to visit (`LoopSound`);
- a review is completed on a proposal that is in review because of
  `ReviewOwnership`;
- a visit that is continued schedules a later instant because it still lacks
  service (`ServiceLeft`), which is what keeps `HeapAhead`.

There is one lemma per action, and under it one step per part of `IInv` that
the action can disturb.

*Engine, second part.* `WakeUpsAreNotLost`, `DeadlinesAreHonoured`,
`VisitsDoNotOvershoot`, `WorkIsConserved`, `FirstReviewsInOrder`,
`MergesAreEarned`, `TimeIsAccounted`, `LimitationIsSound`, `ResultsAreComplete`
and `ServiceFollowsDuty` follow from `Agenda`, an invariant on top of `IInv`.
Its idea is that the heap holds the next instant at which anything is due, so
that an advance to the least of them cannot jump over it:

- the horizon and the changes of duty (`HeapComplete`), the readiness of whoever
  is not yet admitted (`ArrivalsAhead`), the deadline of every open proposal
  (`DeadlinesAhead`), the wake-up of every waiting one (`WakeUpsAhead`) and the
  end or interruption of every visit that is being served (`ServiceAhead`) lie
  ahead, or it is the turn of what is due now in the loop the engine is in;
- the last two hold of a reviewer only once the dispatch has dealt with it
  (`Settled`), and so does `NothingForIdle`: whoever it left idle finds nothing
  to review, because a later reviewer of the same loop only takes proposals away;
- `Records` says what a record proves about its past: an approval was bypassed
  or had its whole visit (`Earned`), the time accounted is no more than has
  passed up to the instant the state stands for (`Accounts`), and a first review
  entered the queue no later than what still waits in it (`QueueOrder`), without
  which `FirstReviewsFifo` is not inductive;
- `Closing` and `Stopped` tell the end at the horizon from a truncated one.

`ServiceFollowsDuty` is an action property. Its lemma is that between two
consecutive elements of the heap duty does not change, so that the seconds on
duty in an advance are all of them or none.

*Measured engine* (the third part of `FifoEngineProofs`). `MeteredRunsAreRuns`:
the meter only looks on, so every theorem of the engine holds of a metered run.
`FlowIsConserved` and `IntegralsAreTrue` follow from `MeterInv`, which states
each integral the meter keeps as the cardinality of a set of seconds
(`QueueSeconds`, `DutySoFar`, `Given`) to which an advance adds those it passes;
a sum over intervals would need induction over data, a set of seconds needs only
the cardinality of disjoint unions. `AccountsAreExact` is of the same kind: the
waiting that a record accounts to itself, interval by interval as reviews start
and terminations come, is the number of seconds the history saw it wait
(`Waits`, a part of `MeterInv`), up to the interval that is still open; the
service it accounts is that of its complete visits and the seconds of the
current one (`Services`). The proof corrected the model: the initial value of
the history variable `open` was wrong for a window that starts with the run, and
the instance that TLC checks has none.

*Publication* (`PublicationProofs`). `PromiseKept`: `Publication` implements
`BundleStore` under the mapping `kept <- Latest, shown <- Shown`, for any number
of calls, failures and kills, provided a rewrite is not interrupted and meets at
most one failed operation (`MildRewrites`). `PreviousIsKept` states, under the
same condition, what section 6 shows violated without it. The invariant is
`PInv`: the shape of the variables, that the published bundle is the latest, and
where the old directory is in each phase of a call. `FailuresRestore` and
`ReturnsAreClean` need no such condition; they follow from `Course`, which says
in each phase what a call that is not raising (`Orderly`), or that met at most
one failed operation (`OneFault`), has under which name.

*Transport* (`TransportProofs`). `ResultsAreHonest`, `RetriesAreBudgeted`,
`PagesAreReadOnce` and `NeverRetriesEarly`, for any server, limits and number of
collections, from the invariant `TInv`. The budget alone is not inductive:
`Explained` accounts for every request by a page, a redirect, a full retry
budget for each finished page and the retries of the current one. `Patient` says
where the wait covers what is owed; the lemma `DelayCovers` is about `_delay`:
whatever the headers, the delay it returns is at least every deadline they
announce. `LimitsAssumption` is what `TransportLimits` validates, and
`BackoffAssumption` (powers of two are natural numbers) is arithmetic the
provers do not know.

*Collect* (`CollectProofs`). `PromiseOfDataset`: `CollectWorkflow` implements
`DatasetStore` under the mapping `kept <- Kept`, for any number of calls and any
failures, interruptions and kills. `StoredIsWhole` is `WholeOrMarked`. Neither
is inductive: what is committed is whole only because what was collected is
(`Gathered`) and the transaction holds nothing else (`Written`), and it replaces
only its own kind because a call past its identification works for the one
extraction there is (`Bound`). A fresh call's commit is a `Mark` because until
then the database is empty and its statuses say `partial`. `CollectAssumption`
gives the sorts of the bounds, and that there is a workspace to call with.

`ExitIsHonest` needs `Attributed`, which ties what is stored to the call that
saved it, and `Coded`, the relation of the code to it from the moment a call
leaves its blocks. `RetryIsPossible` needs `Unharmed`: how far, in each phase, a
call without a fault may have taken a directory from a state in which the next
call can use it, and that it still knows how to take it back (`discard`).

*Live workflow* (`LiveWorkflowProofs`). `OneExtractionHolds` and `SummaryHolds`,
for any number of repositories, calls and deaths, from `LInv`. A stage refuses a
destination that is taken, so what follows an inspection in a call is new
(`Progress`), and an artifact names the call whose collection it comes from, so
an older one cannot be taken for it (`Ahead`, `Dated`).

*Evidence* (`EvidenceProofs`). `ReadinessIsTrue`, `OutcomesAreTrue` and
`EvidenceIsEarned`, for any history of the pull request and any cutoffs, horizons
and lags, from `FInv`, which relates what has been collected to GitHub's side,
which goes on. A snapshot is true of a pull request as old as the clock that
stamps it less the lag (`RowTrue`): a merge it lacks came later. A review that
was fetched is one that was submitted, as it was or since dismissed
(`ReviewsTrue`), and a complete collection lacks only what came after its page. A
pull request that once was ready keeps its first readiness (`ReadinessStays`),
because its first change of draft stays the first. What a negative outcome
overlooks is what fell into the lag and the reviews that had been dismissed when
they were read, and nothing else (`NothingOverlooked`). `BatchesAreTrue` rests on
`Newest`, which every further row preserves whenever it was listed
(`KeptNewest`). `VerdictIsEarned`, for any
number of replications, thresholds and tolerance, from `VInv`; its lemma
`MedianIs` says that half of the samples lie on either side of a median by
ranks. Both need that a set of natural numbers has a least element
(`LeastExists`), which follows from the library's `WFMin`, so that the first of
several rows and the sample of a rank exist. The theorems are about the
specification the run checks: `EInv` adds that the parts that are not under way
stay as they are.

`SummaryIsFaithful`, for any experiment of at least one assumption set and one
replication and with any outcomes, from `XInv`. The stream numbers its runs, its
tables are filed by assumption set and scenario, so the proof begins with
division: the number of a run determines its assumption set, replication and
scenario and is determined by them (`DivParts` and the lemmas after it). `XInv`
then says of each table how it is `Alike` to the part of the log that it stands
for: it holds every sample as often as runs of its key came to it. That a
baseline is sampled once per replication, and not once per scenario, rests on
`previous` naming the last row that was streamed, so a row is new exactly when
its replication is. At the end every key has as many runs as there are
replications, by a bijection, which is what the validators of `reporting.py`
demand: the contract never refuses a summary, and what the summary counts is
what the log counts.

*Schedule* (`EvidenceProofs`). `ScheduleIsTrue`, for days and weeks of any length,
any change of the offset by at most a unit, any calendars, absences, templates
and draws, from `SInv`: the bounds of a span are strict readings, and nothing is
made before there is a span. Three things carry it. The wall clock goes on except
at the change, and a strict reading is reached exactly when its instant comes
(`Clock`); so a boundary of an absence (`AbsenceIs`) or of a shift may be compared
as an instant or as a reading. A day of the span, or the one before, is found for
every reading by division, so the clipped shifts cover exactly what the clock
shows (`WindowIs`, `ProperIs`), and those that are left out lie outside whichever
fold is meant (`FoldsBound`). And a list of separate intervals stays one, and
covers what it should, when an interval is joined to it (`JoinedIs`), an absence
is taken from one of its intervals (`RemainingIs`) or from all of them
(`WithoutIs`, `PresentIs`); that the shifts come by start (`SortedIs`) is what lets
`Joined` look at the last interval only. For the proposals, the week of a
reading is unique (`WeekOf`), so an arrival becomes ready at one instant of the
span or at none (`DemandStep`).

What the loops compute is not proved by the library's induction theorem, which
takes an operator as a parameter. `RecursionExists` gives the function that a
recursive definition over a sequence defines, by `LeastExists` from the shortest
prefix for which there is none; the properties of `Merged`, `Without` and
`Present` then follow from the shortest prefix for which they fail.

*Composition.* `CalledIsAlone` (`LiveWorkflowProofs`): a behaviour of `Calls` is
one of each of its components, so that the theorems about them hold of what the
run checks.

*Only model-checked.* `Termination` and `Returns`: liveness under fairness is
out of the prover's reach. Every other property of a passing
run is a theorem. `TimeIsAccounted` and `ReturnsAreClean` are theorems that no run
checks besides.

## 6. Disagreements between code and documentation

`rewrite_report_in_bundle` moves the existing bundle to `previous` *inside* its
temporary directory and removes that directory in `finally`
(`artifacts.py:379`, `397-405`). If an exception other than `OSError` (such as
`KeyboardInterrupt`) arrives between the two renames, or the restoring rename
fails, both the previous bundle and the new one are removed. `specs/v0.1.0.md`
lines 243-244 promise "either valid partial data marked incomplete or the
previous complete artifact". The run `publication_interrupted` exhibits it.
`write_experiment` keeps its backup beside the temporary directory and is not
affected, as the `calls` run and `PromiseKept` show.

`docs/github-transport.md` lines 59-62 promise that a primary limit exhausted on
success "delays the next request, including the next collection", and that the
transport will "never retry early". `_collect` stores the deadline of a page
only after it checked whether the page overflows the record budget
(`github.py:266-269`), and returns `retry_limit` before it stores the deadline
of the response that exhausted the retries (`243-247`). After either, the next
collection of the same transport sends at once. The run `transport_next`
exhibits it. Within a collection, and after a complete one, deadlines are
honoured: `NeverEarly`, checked and proved.

`specs/v0.1.0.md` lines 243-244, quoted above, and `docs/cohort-collection.md`
lines 71-73 ("an interruption preserves that partial marker or the prior
extraction") also speak of `collect`. Connecting creates `dataset.sqlite`
(`store.py:293`) before its schema and before the marker is committed
(`cohort.py:108`). A call interrupted while the store is being opened, which is
outside the block that decides whether to discard the file, or killed before the
marker is committed, leaves a database without an extraction: a fresh call
refuses the directory because it is not empty (`cli.py:185`), a resumed one
because there is nothing to resume (`store.py:305`, `cohort.py:94`). The run
`collect_killed` exhibits it. From the marker's commit on the promise holds, as
`KeepsPromise` shows, and without a fault a call never causes this: `Retryable`.

`docs/feature-builder.md` lines 28-30 define fixed-horizon outcomes "only for
mature rows whose review observations and PR snapshot cover the horizon endpoint
and are known by the cutoff". `build_features` takes the stamp of a snapshot for
the instant up to which it was observed (`features.py:280-286`), but the stamp
is read after the last page of both listings (`cohort.py:115`). A pull request
listed as open, merged after that and therefore missing from the listing of open
ones keeps its first snapshot under a stamp that covers a horizon in which it
was merged, and its outcome is certified negative. The run `evidence_late`
exhibits it. `docs/cohort-collection.md` lines 76-77 call the stamp
"conservatively later than every page", which it is for what the cutoff may see,
not for what had been seen by the horizon.

`docs/feature-builder.md` lines 18-20 define a substantive review as "the first
submitted approval or changes-requested review after readiness by a
declared-human non-author", and `specs/v0.1.0.md` lines 252-254 speak of "the
first non-author declared-human approval or changes-requested submission after
readiness". GitHub replaces the state of a review that is dismissed, and
`build_features` takes the reviews that are approvals or change requests when they
are read (`features.py:271`), so a dismissal takes the submission back: a pull
request approved within its horizon is certified as not reviewed. The run
`evidence_dismissed` exhibits it. `OutcomesTrueWithinLag` is what holds instead:
a negative outcome overlooks what fell into the lag and the reviews that had been
dismissed when they were read, and nothing else.

`specs/v0.1.0.md` lines 113-117 demand that "a truncated replication is excluded
from outcome summaries with its count shown prominently, and any truncation marks
the comparison incomplete and disables policy ranking", and lines 359-360 that
"selectively dropping truncated or overloaded replications must never create a
favorable conclusion". The held-out replay skips a truncated replication without
counting it (`validation.py:607`), and no flag or gate asks how many there were,
so the replications that are left can pass the validation. The run
`validation_truncated` exhibits it. `VerdictEarned` states what a verdict does
need, which is not enough for that demand: the required number of replications
that ran to their end, and their agreement with what was observed. The summary of
an experiment does meet it: `SummaryFaithful`.

What follows was met while modelling and is not checked as a finding, because
the documents leave it open or the models leave it out.

- *Live workflow.* After a call that published an inspection, `--resume` always
  blocks that repository at `inspection`, whose destination must be empty. A
  torn `default-scenarios.yaml` is reused. The links of a blocked repository may
  name files that do not exist. An incomplete collection that is resumed and
  blocked at `inspection` exits 2 and not 3. The directory after a first call
  that failed early can be neither used afresh nor resumed.
- *Features.* A pull request whose snapshot is untouched and which becomes a
  draft later is used. A cutoff after the retrieval certifies weeks that were
  not over. The live workflow's default cutoff, the middle of the interval,
  lies before every snapshot, so that no pull request is usable. An empty
  review collection cannot certify a negative outcome (documented in
  `docs/feature-builder.md:30-31`).
- *Validation.* The content hash of the replayed model is recorded and not
  compared with the model of the results (`docs/validation.md`). The report
  inside a bundle leaves `validation_status` in `summary.json` at
  `not_performed`. A row is mature in a replay if its horizon ends by the end
  of the span, in the metrics only if it ends before.
- *Calendars.* Where the offset changes so shortly after midnight that the wall
  clock goes back to the evening before (America/St_Johns on 2006-10-29, from
  00:01 to 23:01), a window that starts at that midnight is lost without an
  error when the span ends in the repeated hour, because the local date of its
  end is the day before (`calendars.py:157`), while a longer span is refused as
  ambiguous. The offset of `Schedule` changes by one unit at a time, which
  cannot go back over a midnight already passed by more. A span is refused if an
  arrival of one of its weeks falls into a skipped or repeated hour, even one
  outside the span.
- *Inspection* sorts instants as text (`inspection.py:289`), so that instants
  written with and without a fraction of the same second change places.

## 7. What is not modelled, and why

- Numeric content: quantiles, bootstrap intervals, calibration statistics,
  validation distances. They are floating-point functions without control.
- Formatting: report and figure rendering, JSON layout, diagnostics' wording.
- `demo.py`, `benchmark.py`: fixed inputs and timing around modelled code.
- `simulation/randomness.py`: a hash of the key seeds a generator; drawing is
  nondeterministic in the models, and the freshness of the keys is checked.
- `inspection.py`: counts over a dataset, read in one transaction and written
  once; only its publication is modelled.
- Parsing and validation of configuration, model, dataset and validation files,
  the projection of payloads in `store.py` and the mapping of actors to origins:
  functions of their input without state.
- The elapsed-delay benchmark of `validation.py` and the weekly counts: no verdict
  depends on the former, and the latter go the way of the shares.
- `write_report`, which links or replaces a single file.
- `historical` of `store.py`, which nothing calls.
- Of the command line, `collect` is modelled as a whole and `report` by its
  lineage check; the others read files, call one component and publish.
- Rounding of instants (section 3), zones with several changes of the offset in
  one span, and more than one pull request in `Cohort`.
