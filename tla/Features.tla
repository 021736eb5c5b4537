-------------------------------- MODULE Features --------------------------------
(***************************************************************************)
(* build_features (features.py) at a training cutoff, over what Cohort     *)
(* collected, and calibrate_model (calibration.py) over the features.      *)
(* GitHub's side of Cohort stays as the truth the features speak of.       *)
(***************************************************************************)
EXTENDS Cohort

CONSTANTS
  Cutoffs,      \* training cutoffs
  Horizons,     \* outcome horizons
  WeekLength,   \* instants of a local week
  AnalysisEnd,  \* end of the analysis interval, which starts at CreatedAt
  MinWeeks      \* complete weeks that calibration requires for evidence

ASSUME FeaturesAssumption ==
  /\ Cutoffs \subseteq Nat /\ Horizons \subseteq Nat \ {0}
  /\ WeekLength \in Nat \ {0} /\ AnalysisEnd \in Nat \ {0} /\ MinWeeks \in Nat \ {0}

VARIABLES
  features,  \* the FeatureSet, Nothing before
  model      \* evidence status and flags of the calibrated model, Nothing before

featuresVars == <<cohortVars, features, model>>

FeaturesInit ==
  /\ CohortInit
  /\ features = Nothing /\ model = Nothing

(* The events of a name until the cutoff.                                  *)
KnownRows(name, cutoff) ==
  {i \in Named(data.lifecycle.rows, name) : data.lifecycle.rows[i].at <= cutoff}

(* Mutant: only the repeated readiness of _readiness is refused.           *)
ReadyAgain(cutoff) ==
  LET ready == KnownRows("ready_for_review", cutoff) IN
  IF \/ ~data.lifecycle.complete
     \/ KnownRows("reopened", cutoff) # {} \/ Cardinality(ready) > 1
  THEN Never
  ELSE IF ready # {} THEN FirstAt(data.lifecycle.rows, ready)
  ELSE IF Untouched(data.row) \/ data.policy = "created_at_proxy" THEN CreatedAt
  ELSE Never

(* _readiness of features.py, over the events until the cutoff.            *)
Readiness(cutoff) ==
  LET ready == KnownRows("ready_for_review", cutoff) IN
  IF \/ ~data.lifecycle.complete
     \/ KnownRows("reopened", cutoff) # {} \/ Cardinality(ready) > 1
     \/ ready # {} /\ KnownRows("converted_to_draft", cutoff) # {}
  THEN Never
  ELSE IF ready # {} THEN FirstAt(data.lifecycle.rows, ready)
  ELSE IF Untouched(data.row) \/ data.policy = "created_at_proxy" THEN CreatedAt
  ELSE Never

(* Mutant: a review of the draft counts.                                   *)
SubstantiveEver(ready, cutoff) ==
  {i \in DOMAIN data.reviews.rows :
     LET row == data.reviews.rows[i] IN
     /\ data.reviews.complete /\ data.reviews_observed_at <= cutoff
     /\ row.at <= cutoff
     /\ row.human /\ row.state \in {"APPROVED", "CHANGES_REQUESTED"}}

(* The declared-human approvals and change requests known by the cutoff.   *)
Substantive(ready, cutoff) ==
  {i \in DOMAIN data.reviews.rows :
     LET row == data.reviews.rows[i] IN
     /\ data.reviews.complete /\ data.reviews_observed_at <= cutoff
     /\ row.at <= cutoff /\ row.at >= ready
     /\ row.human /\ row.state \in {"APPROVED", "CHANGES_REQUESTED"}}

(* Mutant: a horizon that ends by the cutoff is enough.                    *)
Elapsed(end, cutoff) == end <= cutoff /\ data.reviews.complete

(* The snapshot and a review, by their stamps, cover the horizon's end.    *)
Mature(end, cutoff) ==
  /\ end <= cutoff
  /\ data.reviews.complete
  /\ data.observed_at >= end
  /\ data.reviews.rows # <<>> /\ data.reviews_observed_at \in end .. cutoff

Least(a, b) == IF a <= b THEN a ELSE b

(* _complete_week_starts.                                                  *)
CompleteWeeks(cutoff) == Least(AnalysisEnd, cutoff) \div WeekLength

(* The row of the pull request, if it has one.                             *)
Row(cutoff, horizon) ==
  LET ready == Readiness(cutoff)
      is == Substantive(ready, cutoff)
      first == IF is = {} THEN Never ELSE FirstAt(data.reviews.rows, is)
      merged == IF data.row.merged_at \in ready .. cutoff THEN data.row.merged_at ELSE Never
      end == ready + horizon
      mature == Mature(end, cutoff) IN
  IF data.observed_at > cutoff \/ ready \notin 0 .. cutoff THEN [used |-> FALSE]
  ELSE [used |-> TRUE, ready_at |-> ready, first_at |-> first, merged_at |-> merged,
        eligible |-> mature,
        reviewed |-> mature /\ first # Never /\ first <= end,
        merged |-> mature /\ merged # Never /\ merged <= end]

(* build_features refuses an incomplete listing.                           *)
Build(cutoff, horizon) ==
  /\ step = "collected"
  /\ step' = IF data.complete THEN "built" ELSE "refused"
  /\ features' = IF ~data.complete THEN Nothing
                 ELSE [cutoff |-> cutoff, horizon |-> horizon,
                       weeks |-> CompleteWeeks(cutoff), row |-> Row(cutoff, horizon)]
  /\ UNCHANGED <<sourceVars, listed, data, model>>

-----------------------------------------------------------------------------
(* Decisions within the horizon: the denominator of the prevalence.        *)
Decided == features.row.used /\ features.row.eligible /\ features.row.reviewed

(* The thresholds of CalibrationThresholds at the size of one pull request. *)
EvidenceFlags ==
  (IF features.row.used THEN {} ELSE {"too_few_usable_pull_requests"})
    \cup (IF Decided THEN {} ELSE {"too_few_substantive_decisions"})
    \cup (IF features.weeks >= MinWeeks THEN {} ELSE {"insufficient_complete_weeks"})
    \cup (IF data.feature.readiness_basis # "unknown" THEN {} ELSE {"excessive_unknown_readiness"})
    \cup (IF data.complete /\ data.reviews.complete /\ data.lifecycle.complete THEN {}
          ELSE {"incomplete_source_collections"})

Calibrate ==
  /\ step = "built"
  /\ IF features.weeks = 0 THEN step' = "refused" /\ model' = Nothing
     ELSE /\ step' = "calibrated"
          /\ model' = [flags |-> EvidenceFlags,
                       evidence_status |-> IF EvidenceFlags = {} THEN "empirically_informed"
                                           ELSE "exploratory_only"]
  /\ UNCHANGED <<sourceVars, listed, data, features>>

FeaturesNext ==
  \/ CohortNext /\ UNCHANGED <<features, model>>
  \/ \E cutoff \in Cutoffs, horizon \in Horizons : Build(cutoff, horizon)
  \/ Calibrate

FeaturesSpec == FeaturesInit /\ [][FeaturesNext]_featuresVars
-----------------------------------------------------------------------------
(* What GitHub's history says.                                             *)
Toggles == Named(events, "ready_for_review") \cup Named(events, "converted_to_draft")

BornDraft ==
  IF Toggles = {} THEN pull.draft ELSE events[First(Toggles)].event = "ready_for_review"

FirstReady ==
  IF ~BornDraft THEN CreatedAt
  ELSE IF Toggles = {} THEN Never
  ELSE FirstAt(events, Toggles)

(* A declared human decided between the instants; a dismissed review did.  *)
DecidedBetween(low, high) ==
  \E i \in DOMAIN reviews :
    reviews[i].human /\ reviews[i].state # "COMMENTED" /\ reviews[i].at \in low .. high

(* A review had been dismissed when the reviews were read.                 *)
Withdrawn(i) ==
  i \in DOMAIN data.reviews.rows /\ data.reviews.rows[i].state = "DISMISSED"

(* A decision between the instants that was not dismissed by then.         *)
StandingBetween(low, high) ==
  \E i \in DOMAIN reviews :
    /\ reviews[i].human /\ reviews[i].state # "COMMENTED" /\ reviews[i].at \in low .. high
    /\ ~Withdrawn(i)

(***************************************************************************)
(* The readiness a feature rests on is the truth: under the strict policy  *)
(* a pull request is used only with the first instant at which it was      *)
(* ready (features.py:121-152), and once the cutoff covers the whole       *)
(* collection the builder uses it exactly when resolve_attribution         *)
(* (attribution.py:111-144), which reads the same rows in another module,  *)
(* found it fit, with the same instant.                                    *)
(***************************************************************************)
ReadinessTrue ==
  step = "built" =>
    /\ features.row.used /\ data.policy = "strict" => features.row.ready_at = FirstReady
    /\ data.events_at <= features.cutoff =>
         /\ features.row.used <=> data.feature.fit_eligible
         /\ features.row.used => features.row.ready_at = data.feature.ready_at

(* Decided outcomes are what happened, negative ones until slack instants  *)
(* before the last one inside the horizon, and but for reviews withdrawn.  *)
OutcomesTrue(slack) ==
  step = "built" /\ features.row.used /\ features.row.eligible =>
    LET ready == features.row.ready_at
        end == ready + features.horizon
        inside == end - 1 - slack IN
    /\ features.row.reviewed => DecidedBetween(ready, end)
    /\ ~features.row.reviewed => ~StandingBetween(ready, inside)
    /\ features.row.merged => pull.merged_at \in ready .. end
    /\ ~features.row.merged => pull.merged_at \notin ready .. inside

(***************************************************************************)
(* A fixed-horizon outcome that is decided is decided as it happened, with *)
(* a collection that ran while reviews, dismissals and merges went on: a   *)
(* positive one fell within the horizon; a negative one overlooks nothing  *)
(* that happened before the horizon's end but what fell into the lag from  *)
(* a page to its stamp, and reviews that had been dismissed when they were *)
(* read (features.py:265-291).  Both exceptions contradict the documents:  *)
(* DecidedOutcomesTrue and SubmissionsDecide.                              *)
(***************************************************************************)
OutcomesTrueWithinLag == OutcomesTrue(MaxLag)

(***************************************************************************)
(* The same with no lag, as docs/feature-builder.md:28-30 promises: a      *)
(* mature row covers its horizon's end.  The stamp is read after the last  *)
(* page (cohort.py:115), so a page older than it certifies what it did not *)
(* see.                                                                    *)
(***************************************************************************)
DecidedOutcomesTrue == OutcomesTrue(0)

(***************************************************************************)
(* The reviewed outcome goes by submission, as specs/v0.1.0.md:252-254 and *)
(* docs/feature-builder.md:18-20 define it: no declared human decided      *)
(* within a horizon, short of the lag, whose outcome is "not reviewed".    *)
(* GitHub replaces the state of a review that is dismissed, and the        *)
(* builder takes approvals and change requests only (features.py:271), so  *)
(* a dismissal takes the submission back.                                  *)
(***************************************************************************)
SubmissionsDecide ==
  step = "built" /\ features.row.used /\ features.row.eligible /\ ~features.row.reviewed =>
    LET ready == features.row.ready_at IN
    ~DecidedBetween(ready, (ready + features.horizon) - 1 - MaxLag)

(***************************************************************************)
(* A model is called empirically informed (calibration.py:323-362) only on *)
(* complete collections, complete weeks, a known readiness, and a decision *)
(* of a declared human that did fall within the horizon of that readiness. *)
(***************************************************************************)
EvidenceEarned ==
  step = "calibrated" /\ model.evidence_status = "empirically_informed" =>
    /\ data.complete /\ data.reviews.complete /\ data.lifecycle.complete
    /\ Least(AnalysisEnd, features.cutoff) >= MinWeeks * WeekLength
    /\ data.policy = "strict" => FirstReady # Never
    /\ DecidedBetween(features.row.ready_at, features.row.ready_at + features.horizon)
=============================================================================
