------------------------------ MODULE LiveWorkflow ------------------------------
(***************************************************************************)
(* scripts/run_live_workflow.py: call after call over one output           *)
(* directory, each taking every repository from collection to a report and *)
(* writing a summary.  A call may be resumed over what an earlier one left *)
(* and may die at any point.  A stage is an action: it succeeds or raises, *)
(* and what it raises blocks the repository there.  The stages are those   *)
(* of CollectWorkflow (collection), Publication (the report) and of two    *)
(* writers that publish by one rename into an empty directory.             *)
(***************************************************************************)
EXTENDS Naturals, Sequences

CONSTANTS
  N,            \* repositories 1 .. N, in the order of the command line
  Collections,  \* what a collection may save: statuses per family of records
  MaxCalls,     \* bound on the calls
  MaxKills      \* bound on the calls that die

SourceFamilies == {"pull_requests", "reviews", "lifecycle_events"}

Families == SourceFamilies \cup {"ci_observations"}

Statuses == {"complete", "partial", "unavailable", "not_requested"}

ASSUME LiveAssumption ==
  /\ N \in Nat \ {0} /\ MaxCalls \in Nat /\ MaxKills \in Nat
  /\ Collections \subseteq [Families -> SUBSET Statuses]

VARIABLES
  tree,       \* of each repository, the artifacts in its directory
  scenarios,  \* default-scenarios.yaml
  summary,    \* summary.json and summary.md
  run,        \* the locals of the call
  phase,      \* the next thing the call does, "idle" between calls
  code,       \* exit code of the latest call
  calls,      \* calls so far
  kills       \* calls that died

liveVars == <<tree, scenarios, summary, run, phase, code, calls, kills>>

Repositories == 1 .. N

(* Files: absent, cut off while being written, or whole with a content.    *)
Absent == [state |-> "absent"]
Torn == [state |-> "torn"]
Blank == [state |-> "blank"]     \* a database without an extraction
Whole(content) == [state |-> "whole", content |-> content]

(* An extraction, and what is made from it: the call that collected it and *)
(* the statuses it saved.                                                  *)
Extraction(rows) == Whole([by |-> calls, rows |-> rows])

MarkerRows == [f \in Families |-> IF f = "pull_requests" THEN {"partial"} ELSE {}]

InputFiles == <<"coverage", "candidates", "reviewers", "assumptions">>

Untouched ==
  [folder |-> FALSE, dataset |-> Absent, inspection |-> Absent,
   inputs |-> [i \in 1 .. Len(InputFiles) |-> Absent],
   model |-> Absent, experiment |-> Absent]

NoRun == [none |-> TRUE]

LiveInit ==
  /\ tree = [r \in Repositories |-> Untouched]
  /\ scenarios = Absent
  /\ summary = [json |-> Absent, markdown |-> Absent]
  /\ run = NoRun
  /\ phase = "idle" /\ code = "none" /\ calls = 0 /\ kills = 0

-----------------------------------------------------------------------------
OutputEmpty ==
  /\ \A r \in Repositories : ~tree[r].folder
  /\ scenarios = Absent /\ summary.json = Absent /\ summary.markdown = Absent

Exit(c) == phase' = "idle" /\ code' = c /\ run' = NoRun

GoOn(next) == phase' = next /\ UNCHANGED <<code, run>>

(* A call: options, token and paths may be refused; unless it resumes, the *)
(* output directory must be empty.  own: the operator gives the scenarios. *)
Call(resume, own) ==
  /\ phase = "idle" /\ calls < MaxCalls
  /\ calls' = calls + 1
  /\ \/ Exit("invalid")
     \/ /\ resume \/ OutputEmpty
        /\ phase' = "prepare"
        /\ run' = [resume |-> resume, own |-> own, results |-> <<>>]
        /\ UNCHANGED code
  /\ UNCHANGED <<tree, scenarios, summary, kills>>

(* An existing default is kept, whatever call and options it is of.        *)
Prepared ==
  IF run.own \/ scenarios # Absent THEN scenarios ELSE Whole(calls)

(* Failing on the way, the file may be cut off; failing later, for the     *)
(* workspace, it is there.                                                 *)
PartlyPrepared ==
  scenarios' \in {scenarios, Prepared} \cup (IF scenarios = Prepared THEN {} ELSE {Torn})

Prepare ==
  /\ phase = "prepare"
  /\ \/ scenarios' = Prepared /\ GoOn("input")
     \/ PartlyPrepared /\ Exit("invalid")
  /\ UNCHANGED <<tree, summary, calls, kills>>

-----------------------------------------------------------------------------
This == Len(run.results) + 1

(* The repository is done with: on to the next, or to the summary.         *)
Report(result) ==
  /\ run' = [run EXCEPT !.results = Append(@, result)]
  /\ phase' = IF This = N THEN "summary" ELSE "input"
  /\ UNCHANGED code

Blocked(stage, links) == Report([status |-> "blocked", stage |-> stage, links |-> links])

StageOnly == UNCHANGED <<scenarios, summary, calls, kills>>

CheckInput ==
  /\ phase = "input"
  /\ \/ /\ IF run.resume THEN tree[This].dataset # Absent ELSE ~tree[This].folder
        /\ GoOn("collection")
        /\ tree' = [tree EXCEPT ![This].folder = TRUE]
     \/ /\ Blocked("input", {"dataset"})
        /\ \E made \in {tree[This].folder, TRUE} : tree' = [tree EXCEPT ![This].folder = made]
  /\ StageOnly

(* A collection that fails leaves what the store held, what it created     *)
(* before it failed, or what it had just saved.                            *)
Saved == {Extraction(rows) : rows \in Collections}

Resumable == run.resume => tree[This].dataset.state = "whole"

PartlyCollected ==
  \E d \in {tree[This].dataset}
           \cup (IF run.resume THEN {} ELSE {Blank, Extraction(MarkerRows)})
           \cup (IF Resumable THEN Saved ELSE {}) :
    tree' = [tree EXCEPT ![This].dataset = d]

Collect ==
  /\ phase = "collection"
  /\ \/ /\ Resumable
        /\ \E d \in Saved : tree' = [tree EXCEPT ![This].dataset = d]
        /\ GoOn("inspection")
     \/ PartlyCollected /\ Blocked("collection", {"dataset"})
  /\ StageOnly

(* write_inspection: the destination must be empty.                        *)
Inspect ==
  /\ phase = "inspection"
  /\ \/ /\ tree[This].inspection = Absent
        /\ tree' = [tree EXCEPT ![This].inspection = tree[This].dataset]
        /\ GoOn("inputs")
     \/ Blocked("inspection", {"dataset"}) /\ UNCHANGED tree
  /\ StageOnly

-----------------------------------------------------------------------------
(* Mutant: a family nothing of which could be read is not incomplete.      *)
ForgivingStatus(rows, family) ==
  IF rows[family] \subseteq {"complete", "unavailable"} THEN "complete" ELSE "partial"

(* _overall_status: a family without a row needs none, but for CI.         *)
OverallStatus(rows, family) ==
  IF rows[family] = {}
  THEN IF family = "ci_observations" THEN "not_requested" ELSE "complete"
  ELSE IF "partial" \in rows[family] THEN "partial"
  ELSE IF "unavailable" \in rows[family] THEN "unavailable"
  ELSE IF rows[family] = {"not_requested"} THEN "not_requested"
  ELSE IF rows[family] = {"complete"} THEN "complete"
  ELSE "partial"

SourceIncomplete(rows) ==
  \E f \in SourceFamilies : OverallStatus(rows, f) \in {"partial", "unavailable"}

(* The input files are written in place, one after the other: the first n  *)
(* of them are of this call, the one after may be cut off.                 *)
Written(n, torn) ==
  [i \in DOMAIN tree[This].inputs |->
     IF i <= n THEN tree[This].dataset
     ELSE IF i = n + 1 /\ torn THEN Torn ELSE tree[This].inputs[i]]

PartlyWritten ==
  \E n \in 0 .. Len(InputFiles) - 1, torn \in BOOLEAN :
    tree' = [tree EXCEPT ![This].inputs = Written(n, torn)]

Inspected == {"dataset", "inspection", "candidates", "reviewers"}

WriteInputs ==
  /\ phase = "inputs"
  /\ \/ /\ tree' = [tree EXCEPT ![This].inputs = Written(Len(InputFiles), FALSE)]
        /\ IF SourceIncomplete(tree[This].dataset.content.rows)
           THEN Blocked("collection", Inspected \cup {"coverage"})
           ELSE GoOn("calibration")
     \/ PartlyWritten /\ Blocked("calibration-inputs", Inspected)
  /\ StageOnly

(* build_features, calibrate_model and write_calibration, into an empty    *)
(* destination.                                                            *)
Calibrate ==
  /\ phase = "calibration"
  /\ \/ /\ tree[This].model = Absent
        /\ tree' = [tree EXCEPT ![This].model = tree[This].dataset]
        /\ GoOn("simulation")
     \/ Blocked("calibration", Inspected \cup {"coverage"}) /\ UNCHANGED tree
  /\ StageOnly

(* simulate reads model and scenarios back from the disk.                  *)
Simulate ==
  /\ phase = "simulation"
  /\ \/ /\ run.own \/ scenarios.state = "whole"
        /\ tree[This].experiment = Absent
        /\ tree' = [tree EXCEPT ![This].experiment = tree[This].model]
        /\ Report([status |-> "simulated", stage |-> "complete",
                   links |-> Inspected \cup {"coverage", "model", "experiment"}])
     \/ Blocked("simulation", Inspected \cup {"coverage", "model"}) /\ UNCHANGED tree
  /\ StageOnly

-----------------------------------------------------------------------------
(* Mutant: only a repository that failed for its source counts.            *)
SourceCode(results) ==
  IF \E r \in DOMAIN results : results[r].stage = "collection" THEN "incomplete"
  ELSE "success"

ExitCode(results) ==
  IF \A r \in DOMAIN results : results[r].status # "blocked" THEN "success"
  ELSE IF \E r \in DOMAIN results : results[r].stage = "collection" THEN "incomplete"
  ELSE "invalid"

Summary == Whole([by |-> calls, results |-> run.results])

PartlySummarised ==
  \/ summary' \in {summary, [summary EXCEPT !.json = Torn]}
  \/ \E m \in {summary.markdown, Torn} : summary' = [json |-> Summary, markdown |-> m]

WriteSummary ==
  /\ phase = "summary"
  /\ \/ /\ summary' = [json |-> Summary, markdown |-> Summary]
        /\ Exit(ExitCode(run.results))
     \/ PartlySummarised /\ Exit("invalid")
  /\ UNCHANGED <<tree, scenarios, calls, kills>>

(* The process dies, or is interrupted, which nothing catches.  What is    *)
(* published by a rename is then there or not.                             *)
Die ==
  /\ kills < MaxKills /\ kills' = kills + 1
  /\ phase # "idle" /\ Exit("killed")
  /\ \/ phase = "prepare" /\ PartlyPrepared /\ UNCHANGED <<tree, summary>>
     \/ phase = "collection" /\ PartlyCollected /\ UNCHANGED <<scenarios, summary>>
     \/ phase = "inputs" /\ PartlyWritten /\ UNCHANGED <<scenarios, summary>>
     \/ phase = "summary" /\ PartlySummarised /\ UNCHANGED <<tree, scenarios>>
     \/ phase \in {"input", "inspection", "calibration", "simulation"}
        /\ UNCHANGED <<tree, scenarios, summary>>
  /\ UNCHANGED calls

LiveNext ==
  \/ \E resume, own \in BOOLEAN : Call(resume, own)
  \/ Prepare \/ CheckInput \/ Collect \/ Inspect \/ WriteInputs
  \/ Calibrate \/ Simulate \/ WriteSummary \/ Die

LiveSpec == LiveInit /\ [][LiveNext]_liveVars

-----------------------------------------------------------------------------
Sufficient(rows) ==
  \A f \in SourceFamilies : rows[f] \cap {"partial", "unavailable"} = {}

(* A model is calibrated and a report simulated from the very extraction   *)
(* that was inspected, and only if nothing of its sources is missing: no   *)
(* call builds upon what another left, whatever was resumed or cut off.    *)
(* "Partial or unavailable pull-request, review, or lifecycle collections  *)
(* stop that repository before feature construction and calibration"       *)
(* (docs/live-workflow.md).                                                *)
OneExtraction ==
  \A r \in Repositories : LET t == tree[r] IN
    /\ t.model # Absent =>
         /\ t.model = t.inspection
         /\ \A i \in DOMAIN t.inputs : t.inputs[i] = t.model
         /\ Sufficient(t.model.content.rows)
    /\ t.experiment # Absent => t.experiment = t.model

(* What an artifact that the summary links was made from.                  *)
Linked(t) ==
  [dataset |-> t.dataset, inspection |-> t.inspection, coverage |-> t.inputs[1],
   candidates |-> t.inputs[2], reviewers |-> t.inputs[3],
   model |-> t.model, experiment |-> t.experiment]

Ended == phase = "idle" /\ summary.json.state = "whole" /\ summary.json.content.by = calls

Results == summary.json.content.results

(* The summary a call leaves is about that call: a repository is reported  *)
(* as simulated exactly if this call published its report, and whatever is *)
(* linked of a repository that got as far as calibration is whole and made *)
(* from what this call collected; success means every repository.          *)
SummaryTrue ==
  /\ Ended =>
       \A r \in Repositories :
         LET mine == tree[r].dataset.state = "whole" /\ tree[r].dataset.content.by = calls
         IN /\ Results[r].status = "simulated"
                 <=> mine /\ tree[r].experiment = tree[r].dataset
            /\ "coverage" \in Results[r].links =>
                 mine /\ \A a \in Results[r].links : Linked(tree[r])[a] = tree[r].dataset
  /\ phase = "idle" /\ code = "success" =>
       Ended /\ \A r \in Repositories : Results[r].status = "simulated"
=============================================================================
