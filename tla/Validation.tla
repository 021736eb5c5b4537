------------------------------- MODULE Validation -------------------------------
(***************************************************************************)
(* The held-out replay and its verdict (validation.py), and the report     *)
(* that carries the verdict to the results of a simulation (experiment.py).*)
(* A replication is what FifoEngine makes of the held-out arrivals, here   *)
(* its share of reviews in time and its median first review, or that the   *)
(* engine truncated it.  Quantities are counted in half units, so that the *)
(* median of an even number of them is one; the merged share and the       *)
(* weekly merges go the way of the reviewed share.                         *)
(***************************************************************************)
EXTENDS Integers, Sequences, FiniteSets

CONSTANTS
  MinReplications,  \* thresholds of ValidationThresholds
  MinMature,
  Tolerance,        \* of every gate
  MaxReplications   \* bound on the replications of a request

ASSUME ValidationAssumption ==
  /\ MinReplications \in Nat \ {0} /\ MinMature \in Nat \ {0}
  /\ Tolerance \in Nat /\ MaxReplications \in Nat

VARIABLES
  request,  \* the ValidationInput
  replayed, \* what the replications came to, in order
  result,   \* the ValidationResult
  carried   \* what a report of simulation results says of the validation

validationVars == <<request, replayed, result, carried>>

Unknown == [none |-> TRUE]

Undefined == -1

NoRequest == [replications |-> 0, cohort |-> 0, overlap |-> FALSE]

(* A mature cohort that saw reviews or none, arrivals that are mature in   *)
(* the replay or not, and whether the interval overlaps the fitting.       *)
Requests ==
  [replications : 1 .. MaxReplications, mature : {0, MinMature}, first : {Undefined, 0, 2},
   share : {0, 2}, backlog : {0, 2}, cohort : {0, 1}, overlap : BOOLEAN, in_sample : BOOLEAN]

(* A first review is what a review in time needs.                          *)
Possible(r) ==
  /\ r.first = Undefined => r.share = 0
  /\ r.mature = 0 => r.share = 0
  /\ r.share = 2 => r.first = 0

ValidationInit(r) ==
  request = r /\ replayed = <<>> /\ result = Unknown /\ carried = Unknown

(* _validate_split.                                                        *)
SplitOk == request.overlap => request.in_sample

Refuse ==
  /\ request.replications > 0 /\ ~SplitOk /\ result = Unknown
  /\ result' = [status |-> "raised"]
  /\ UNCHANGED <<request, replayed, carried>>

(* What run_fifo returns for the arrivals of the request.                  *)
Replications ==
  {[truncated |-> TRUE]}
    \cup [truncated : {FALSE}, share : {0}, first : {Undefined, 2}]
    \cup [truncated : {FALSE}, share : {2 * request.cohort}, first : {0}]

Replay(replication) ==
  /\ SplitOk /\ result = Unknown
  /\ Len(replayed) < request.replications
  /\ replayed' = Append(replayed, replication)
  /\ UNCHANGED <<request, result, carried>>

(* The truncated ones are passed over.                                     *)
Complete == {i \in DOMAIN replayed : ~replayed[i].truncated}

WithReview == {i \in Complete : replayed[i].first # Undefined}

(* Mutant: replications without a first review are no reason to abstain.   *)
CountFlags ==
  (IF request.mature < MinMature THEN {"too_few_mature_pull_requests"} ELSE {})
    \cup (IF Cardinality(Complete) < MinReplications THEN {"too_few_replay_replications"} ELSE {})
    \cup (IF request.first = Undefined THEN {"no_observed_first_review_completions"} ELSE {})
    \cup (IF request.cohort = 0 /\ Complete # {} THEN {"empty_replay_mature_cohort"} ELSE {})

Flags ==
  (IF request.mature < MinMature THEN {"too_few_mature_pull_requests"} ELSE {})
    \cup (IF Cardinality(Complete) < MinReplications THEN {"too_few_replay_replications"} ELSE {})
    \cup (IF request.first = Undefined THEN {"no_observed_first_review_completions"} ELSE {})
    \cup (IF Complete # {} /\ WithReview = {} THEN {"no_simulated_first_review_completions"}
          ELSE IF Cardinality(WithReview) < MinReplications
               THEN {"too_few_defined_first_review_replications"} ELSE {})
    \cup (IF request.cohort = 0 /\ Complete # {} THEN {"empty_replay_mature_cohort"} ELSE {})

(* The sample that comes k-th when they are sorted.                        *)
Ranked(samples, k) ==
  CHOOSE v \in {samples[i] : i \in DOMAIN samples} :
    /\ Cardinality({i \in DOMAIN samples : samples[i] < v}) < k
    /\ Cardinality({i \in DOMAIN samples : samples[i] <= v}) >= k

(* The median of _quantiles.                                               *)
Median(samples) ==
  LET n == Cardinality(DOMAIN samples) IN
  IF n = 0 THEN Undefined
  ELSE (Ranked(samples, (n + 1) \div 2) + Ranked(samples, n \div 2 + 1)) \div 2

(* The empty backlog of a replay is known without running it.              *)
Simulated ==
  [share |-> IF request.cohort = 0 THEN Undefined
             ELSE Median([i \in Complete |-> replayed[i].share]),
   first |-> Median([i \in WithReview |-> replayed[i].first]),
   backlog |-> Median([i \in Complete |-> 0])]

Observed ==
  [share |-> IF request.mature = 0 THEN Undefined ELSE request.share,
   first |-> request.first,
   backlog |-> request.backlog]

Gates == {"share", "first", "backlog"}

Near(a, b) == a - b \in -Tolerance .. Tolerance

(* _gate: not evaluated under a flag or without both values.               *)
Gate(metric) ==
  IF Flags # {} \/ Observed[metric] = Undefined \/ Simulated[metric] = Undefined
  THEN "not_evaluated"
  ELSE IF Near(Observed[metric], Simulated[metric]) THEN "passed" ELSE "failed"

Validate ==
  /\ request.replications > 0 /\ SplitOk /\ result = Unknown
  /\ Len(replayed) = request.replications
  /\ result' =
       [status |-> IF Flags # {} THEN "insufficient_evidence"
                   ELSE IF \A m \in Gates : Gate(m) = "passed" THEN "pass" ELSE "fail",
        protocol |-> IF request.in_sample THEN "in_sample_diagnostic" ELSE "held_out",
        gates |-> [m \in Gates |-> Gate(m)],
        backlog_supported |-> Gate("backlog") = "passed"]
  /\ UNCHANGED <<request, replayed, carried>>

(* report: results of a model, of this dataset and version or another's.   *)
Report(same_dataset, same_version) ==
  /\ result # Unknown /\ result.status # "raised" /\ carried = Unknown
  /\ carried' = IF same_dataset /\ same_version
                THEN [status |-> result.status] ELSE [status |-> "raised"]
  /\ UNCHANGED <<request, replayed, result>>

ValidationNext ==
  \/ Refuse
  \/ \E replication \in Replications : Replay(replication)
  \/ Validate
  \/ \E same_dataset, same_version \in BOOLEAN : Report(same_dataset, same_version)

ValidationSpec ==
  (\E r \in Requests : Possible(r) /\ ValidationInit(r))
    /\ [][ValidationNext]_validationVars

-----------------------------------------------------------------------------
Usual(metric) ==
  {i \in DOMAIN replayed : ~replayed[i].truncated /\ replayed[i][metric] # Undefined}

(* Half of the replications on one side of a value and half on the other.  *)
Straddles(metric, low, high) ==
  LET is == Usual(metric) IN
  /\ 2 * Cardinality({i \in is : replayed[i][metric] <= high}) >= Cardinality(is)
  /\ 2 * Cardinality({i \in is : replayed[i][metric] >= low}) >= Cardinality(is)

(***************************************************************************)
(* What a verdict needs: at least the required number of replications that *)
(* ran to their end, each with a first review, for which a truncated one   *)
(* is no substitute; for a pass, that these agree with what was observed;  *)
(* for a failure, a disagreement that was measured, never a value that is  *)
(* missing; outside an in-sample diagnostic an interval that was not       *)
(* fitted; and a report repeats it, or refuses (validation.py:396-412,     *)
(* 595-645, 790-882).  It is not enough: see TruncationBarsPass.           *)
(***************************************************************************)
VerdictEarned ==
  /\ result # Unknown /\ result.status \in {"pass", "fail"} =>
       /\ Cardinality(Usual("first")) >= MinReplications
       /\ Cardinality(Usual("share")) >= MinReplications
       /\ request.mature >= MinMature
       /\ request.overlap => result.protocol = "in_sample_diagnostic"
       /\ \A m \in Gates : result.gates[m] # "not_evaluated"
       /\ result.status = "fail" <=> \E m \in Gates : result.gates[m] = "failed"
  /\ result # Unknown /\ result.status = "pass" =>
       \A m \in {"share", "first"} :
         Straddles(m, request[m] - Tolerance, request[m] + Tolerance)
  /\ carried # Unknown => carried.status \in {"raised", result.status}

(***************************************************************************)
(* A truncated replication keeps a replay from passing, as specs/v0.1.0.md *)
(* demands: any truncation marks the comparison incomplete (113-117), and  *)
(* dropping truncated replications must never create a favorable           *)
(* conclusion (359-360).  The replay passes over them (validation.py:607), *)
(* and neither a flag nor a gate asks how many there were.                 *)
(***************************************************************************)
TruncationBarsPass ==
  result # Unknown /\ result.status = "pass" => Complete = DOMAIN replayed
=============================================================================
