--------------------------------- MODULE Cohort ---------------------------------
(***************************************************************************)
(* collect_cohort (cohort.py) reading one pull request of a repository     *)
(* that changes under it: two listings, the reviews, the lifecycle events, *)
(* each page fetched at one instant and stamped with the clock later; and  *)
(* resolve_attribution (attribution.py) of what was collected.  What saves *)
(* the result is CollectWorkflow, what fetches the pages Transport.        *)
(***************************************************************************)
EXTENDS Integers, Sequences, FiniteSets

CONSTANTS
  MaxTime,     \* bound on the clock
  MaxEvents,   \* bound on the lifecycle events
  MaxReviews,  \* bound on the reviews
  MaxLag,      \* from the first page of a batch to the clock that stamps it
  ReviewStates, \* states in which a review is submitted
  Policies     \* readiness policies of the attribution config

ASSUME CohortAssumption ==
  /\ MaxTime \in Nat /\ MaxEvents \in Nat /\ MaxReviews \in Nat /\ MaxLag \in Nat
  /\ ReviewStates \subseteq {"APPROVED", "CHANGES_REQUESTED", "COMMENTED"}
  /\ Policies \subseteq {"strict", "created_at_proxy"}

VARIABLES
  clock,    \* the time
  pull,     \* the pull request on GitHub
  events,   \* its lifecycle events, in order
  reviews,  \* its submitted reviews, in order
  listed,   \* what the listings returned so far: the rows read, the kept one,
            \* whether no conflict was met, and when the first page was read
  data,     \* what is collected
  step      \* what the collection does next

sourceVars == <<clock, pull, events, reviews>>

cohortVars == <<sourceVars, listed, data, step>>

Never == -1

CreatedAt == 0

EventNames == {"ready_for_review", "converted_to_draft", "closed", "reopened", "merged"}

Nothing == [none |-> TRUE]

(* The fields of what is collected, in the order in which they are filled. *)
Uncollected ==
  [row |-> Nothing, observed_at |-> Never, complete |-> FALSE,
   reviews |-> Nothing, reviews_observed_at |-> Never,
   lifecycle |-> Nothing, events_at |-> Never, policy |-> Nothing,
   feature |-> Nothing]

CohortInit ==
  /\ clock = CreatedAt
  /\ \E draft \in BOOLEAN :
       pull = [updated_at |-> CreatedAt, draft |-> draft, open |-> TRUE,
               merged_at |-> Never]
  /\ events = <<>> /\ reviews = <<>>
  /\ listed = Nothing
  /\ data = Uncollected
  /\ step = "all"

(* No collection.                                                          *)
CohortIdle ==
  /\ clock = CreatedAt
  /\ pull = Nothing /\ events = <<>> /\ reviews = <<>>
  /\ listed = Nothing /\ data = Uncollected /\ step = "idle"

-----------------------------------------------------------------------------
(* GitHub: time passes, and the pull request lives.  A page waits no       *)
(* longer than MaxLag for its stamp.                                       *)
Tick ==
  /\ clock < MaxTime
  /\ step = "open" => clock < listed.at + MaxLag
  /\ clock' = clock + 1
  /\ UNCHANGED <<pull, events, reviews, listed, data, step>>

Legal(event) ==
  \/ event = "ready_for_review" /\ pull.open /\ pull.draft
  \/ event = "converted_to_draft" /\ pull.open /\ ~pull.draft
  \/ event = "closed" /\ pull.open
  \/ event = "reopened" /\ ~pull.open /\ pull.merged_at = Never
  \/ event = "merged" /\ pull.open /\ ~pull.draft

Happen(event) ==
  /\ Legal(event) /\ Len(events) < MaxEvents
  /\ events' = Append(events, [event |-> event, at |-> clock])
  /\ pull' = [updated_at |-> clock,
              draft |-> event # "ready_for_review"
                          /\ (pull.draft \/ event = "converted_to_draft"),
              open |-> event = "reopened"
                         \/ (pull.open /\ event \notin {"closed", "merged"}),
              merged_at |-> IF event = "merged" THEN clock ELSE pull.merged_at]
  /\ UNCHANGED <<clock, reviews, listed, data, step>>

(* A review by a declared human other than the author, or by anyone else.  *)
Submit(human, state) ==
  /\ Len(reviews) < MaxReviews
  /\ reviews' = Append(reviews, [human |-> human, state |-> state, at |-> clock])
  /\ pull' = [pull EXCEPT !.updated_at = clock]
  /\ UNCHANGED <<clock, events, listed, data, step>>

Dismiss(i) ==
  /\ reviews[i].state \in {"APPROVED", "CHANGES_REQUESTED"}
  /\ reviews' = [reviews EXCEPT ![i].state = "DISMISSED"]
  /\ pull' = [pull EXCEPT !.updated_at = clock]
  /\ UNCHANGED <<clock, events, listed, data, step>>

-----------------------------------------------------------------------------
(* The clock that stamps a batch first listed at the given instant.        *)
Stamps(first) == {o \in clock .. first + MaxLag : o <= MaxTime}

ListAll ==
  /\ step = "all"
  /\ listed' = [row |-> pull, clear |-> TRUE, read |-> {pull}, at |-> clock]
  /\ step' = "open"
  /\ UNCHANGED <<sourceVars, data>>

(* _batch: of two snapshots of the pull request the newer stays, of two    *)
(* updated at the same instant either.                                     *)
LatestOf(rows) == {r \in rows : \A q \in rows : q.updated_at <= r.updated_at}

Conflict(rows) == \E r, q \in rows : r # q /\ r.updated_at = q.updated_at

(* Mutant: the last row decides whether the batch is without a conflict.   *)
KeptLast(batch, row) ==
  LET rows == {batch.row, row} IN
  {[batch EXCEPT !.row = r, !.clear = ~Conflict(rows), !.read = @ \cup {row}]
     : r \in LatestOf(rows)}

(* What the batch is after one more row: a conflict stays.                 *)
Kept(batch, row) ==
  LET rows == {batch.row, row} IN
  {[batch EXCEPT !.row = r, !.clear = @ /\ ~Conflict(rows), !.read = @ \cup {row}]
     : r \in LatestOf(rows)}

(* A page of the open pull requests with the pull request on it, as it is  *)
(* or as it was listed before: pages shift, so any number of times or not  *)
(* at all.                                                                 *)
ListOpen ==
  /\ step = "open"
  /\ \E row \in listed.read \cup {pull} : row.open /\ listed' \in Kept(listed, row)
  /\ UNCHANGED <<sourceVars, data, step>>

(* The listings are reconciled and stamped.                                *)
Reconcile ==
  /\ step = "open"
  /\ \E complete \in BOOLEAN :
       data' = [data EXCEPT !.row = listed.row, !.observed_at = clock,
                            !.complete = complete /\ listed.clear]
  /\ listed' = Nothing
  /\ step' = "reviews"
  /\ UNCHANGED sourceVars

(* A collection is complete or ends somewhere on the way.                  *)
Fetched(rows) ==
  {[rows |-> rows, complete |-> TRUE]}
    \cup {[rows |-> SubSeq(rows, 1, n), complete |-> FALSE] : n \in 0 .. Len(rows)}

FetchReviews ==
  /\ step = "reviews"
  /\ \E batch \in Fetched(reviews), observed \in Stamps(clock) :
       data' = [data EXCEPT !.reviews = batch, !.reviews_observed_at = observed]
  /\ step' = "events"
  /\ UNCHANGED <<sourceVars, listed>>

-----------------------------------------------------------------------------
Named(rows, name) == {i \in DOMAIN rows : rows[i].event = name}

First(is) == CHOOSE i \in is : \A j \in is : i <= j

FirstAt(rows, is) == rows[First(is)].at

Untouched(row) == ~row.draft /\ row.updated_at = CreatedAt

(* _readiness of attribution.py.                                           *)
ReadinessBasis(row, rows, policy) ==
  IF Named(rows, "ready_for_review") # {} THEN "observed_event"
  ELSE IF Untouched(row) THEN "supported_reconstruction"
  ELSE IF policy = "created_at_proxy" THEN "created_at_proxy"
  ELSE "unknown"

(* No fit_exclusion_reason applies.                                        *)
FitEligible(row, batch, policy) ==
  /\ Named(batch.rows, "reopened") = {}
  /\ Cardinality(Named(batch.rows, "ready_for_review")) <= 1
  /\ Named(batch.rows, "ready_for_review") = {} \/ Named(batch.rows, "converted_to_draft") = {}
  /\ batch.complete
  /\ ReadinessBasis(row, batch.rows, policy) # "unknown"

Attribution(row, batch, policy) ==
  LET basis == ReadinessBasis(row, batch.rows, policy) IN
  [readiness_basis |-> basis,
   ready_at |-> CASE basis = "observed_event" ->
                       FirstAt(batch.rows, Named(batch.rows, "ready_for_review"))
                  [] basis = "unknown" -> Never
                  [] OTHER -> CreatedAt,
   fit_eligible |-> FitEligible(row, batch, policy)]

FetchEvents ==
  /\ step = "events" /\ clock >= data.reviews_observed_at
  /\ \E batch \in Fetched(events), policy \in Policies :
       data' = [data EXCEPT !.lifecycle = batch, !.events_at = clock, !.policy = policy,
                            !.feature = Attribution(data.row, batch, policy)]
  /\ step' = "collected"
  /\ UNCHANGED <<sourceVars, listed>>

-----------------------------------------------------------------------------
SourceNext ==
  \/ Tick
  \/ \E event \in EventNames : Happen(event)
  \/ \E human \in BOOLEAN, state \in ReviewStates : Submit(human, state)
  \/ \E i \in DOMAIN reviews : Dismiss(i)

CohortNext ==
  \/ step \in {"all", "open", "reviews", "events"} /\ SourceNext
  \/ ListAll \/ ListOpen \/ Reconcile \/ FetchReviews \/ FetchEvents

(***************************************************************************)
(* Whatever the order in which pages that shift repeat a pull request, its *)
(* batch keeps a row as new as every row read, and is complete only if no  *)
(* other row read is as new (_batch, cohort.py:39-52).                     *)
(***************************************************************************)
BatchTrue ==
  [][step = "open" /\ step' = "reviews" =>
       /\ data'.row \in LatestOf(listed.read)
       /\ data'.complete => LatestOf(listed.read) = {data'.row}]_cohortVars
=============================================================================
