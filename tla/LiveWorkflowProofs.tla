--------------------------- MODULE LiveWorkflowProofs ---------------------------
(***************************************************************************)
(* Proofs about LiveWorkflow for any number of repositories, calls and     *)
(* crashes: a model and a report are made from the extraction that was     *)
(* inspected, and the summary of a call is true of that call.              *)
(*                                                                         *)
(* The argument: a stage refuses a destination that is taken, so whatever  *)
(* follows the inspection of a call is new; and an artifact names the call *)
(* whose collection it comes from, so an older one cannot be mistaken for  *)
(* it.                                                                     *)
(***************************************************************************)
EXTENDS Calls, TLAPS

Content == [by : Nat, rows : [Families -> SUBSET Statuses]]

Files == {Absent, Torn, Blank} \cup {Whole(c) : c \in Content}

Trees ==
  [folder : BOOLEAN, dataset : Files, inspection : Files,
   inputs : [1 .. Len(InputFiles) -> Files], model : Files, experiment : Files]

Names == {"dataset", "inspection", "coverage", "candidates", "reviewers",
          "model", "experiment"}

Stages == {"input", "collection", "inspection", "inputs", "calibration",
           "simulation"}

(* What a result says of how far its repository got.                       *)
Outcomes ==
  [status : {"blocked", "simulated"},
   stage : Stages \cup {"calibration-inputs", "complete"}, links : SUBSET Names]

TypeOK ==
  /\ tree \in [Repositories -> Trees]
  /\ summary = [json |-> summary.json, markdown |-> summary.markdown]
  /\ calls \in Nat
  /\ phase \in {"idle", "prepare", "summary"} \cup Stages
  /\ phase # "idle" =>
       run \in [resume : BOOLEAN, own : BOOLEAN, results : Seq(Outcomes)]

(* How far the results have got.                                           *)
Counted ==
  /\ phase = "prepare" => run.results = <<>>
  /\ phase \in Stages => Len(run.results) < N
  /\ phase = "summary" => Len(run.results) = N

Mine(f) == f.state = "whole" /\ f.content.by = calls

Older(f) == f.state = "whole" => f.content.by < calls

(* Nothing comes from a later call.                                        *)
Past(t) ==
  /\ t.dataset.state = "whole" => t.dataset.content.by <= calls
  /\ t.experiment.state = "whole" => t.experiment.content.by <= calls

(* OneExtraction, of one repository.                                       *)
Sound(t) ==
  /\ t.model # Absent =>
       /\ t.model = t.inspection
       /\ \A i \in DOMAIN t.inputs : t.inputs[i] = t.model
       /\ Sufficient(t.model.content.rows)
  /\ t.experiment # Absent => t.experiment = t.model

Kept == \A r \in Repositories : Past(tree[r]) /\ Sound(tree[r])

(* The summary is of this call only once the call is over.                 *)
Dated ==
  summary.json.state = "whole" =>
    /\ summary.json.content.by \in Nat
    /\ IF phase = "idle" THEN summary.json.content.by <= calls
       ELSE summary.json.content.by < calls

(* What this call has not begun with comes from earlier calls.             *)
Ahead ==
  phase \in Stages \cup {"prepare"} =>
    \A r \in Repositories :
      r > Len(run.results) /\ (r # This \/ phase = "prepare") =>
        Older(tree[r].dataset) /\ Older(tree[r].experiment)

(* What the stages passed so far have made for the repository under way.   *)
Reached(place, t) ==
  /\ Older(t.experiment)
  /\ IF place \in {"input", "collection"} THEN Older(t.dataset)
     ELSE Mine(t.dataset)
  /\ place \in {"inputs", "calibration", "simulation"} =>
       t.inspection = t.dataset
  /\ place \in {"inputs", "calibration"} => t.model = Absent
  /\ place \in {"calibration", "simulation"} =>
       /\ \A i \in 1 .. Len(InputFiles) : t.inputs[i] = t.dataset
       /\ Sufficient(t.dataset.content.rows)
  /\ place = "simulation" => t.model = t.dataset

Progress == phase \in Stages => Reached(phase, tree[This])

(* A result is true of the repository it reports.                          *)
TrueResult(result, t) ==
  /\ result.status = "simulated" <=> Mine(t.dataset) /\ t.experiment = t.dataset
  /\ "coverage" \in result.links =>
       Mine(t.dataset) /\ \A a \in result.links : Linked(t)[a] = t.dataset

Reported ==
  /\ phase # "idle" =>
       \A r \in 1 .. Len(run.results) : TrueResult(run.results[r], tree[r])
  /\ Ended => \A r \in Repositories : TrueResult(Results[r], tree[r])
  /\ phase = "idle" /\ code = "success" =>
       Ended /\ \A r \in Repositories : Results[r].status = "simulated"

LInv ==
  /\ TypeOK /\ Counted /\ Kept /\ Dated /\ Ahead /\ Progress /\ Reported

-----------------------------------------------------------------------------
(* What a file can be told by.                                             *)
LEMMA FileFacts ==
  /\ Absent \in Files /\ Torn \in Files /\ Blank \in Files
  /\ Absent.state # "whole" /\ Torn.state # "whole" /\ Blank.state # "whole"
  /\ \A f \in Files : f.state = "whole" =>
       f.content.by \in Nat /\ f.content.rows \in [Families -> SUBSET Statuses]
BY DEF Files, Absent, Torn, Blank, Whole, Content

(* A collection is of the call that makes it.                              *)
LEMMA ExtractionFacts ==
  ASSUME calls \in Nat, NEW rows \in [Families -> SUBSET Statuses]
  PROVE  Extraction(rows) \in Files /\ Mine(Extraction(rows))
BY DEF Extraction, Files, Whole, Content, Mine

(* Nothing the stages are asked about is left in doubt by the aggregation  *)
(* of the statuses of a family.                                            *)
LEMMA NothingMissing ==
  ASSUME NEW rows, ~SourceIncomplete(rows) PROVE Sufficient(rows)
BY DEF SourceIncomplete, Sufficient, OverallStatus, SourceFamilies

LEMMA InitLInv == LiveInit => LInv
<1> SUFFICES ASSUME LiveInit PROVE LInv OBVIOUS
<1> USE LiveAssumption DEF LiveInit
<1>1. Untouched \in Trees
  <2>1. Absent \in Files BY FileFacts
  <2> HIDE DEF LiveInit
  <2> QED BY <2>1 DEF Untouched, Trees
<1>2. /\ Untouched.model = Absent /\ Untouched.experiment = Absent
      /\ Untouched.dataset = Absent
  BY DEF Untouched
<1>3. tree \in [Repositories -> Trees]
      /\ \A r \in Repositories : tree[r] = Untouched
  BY <1>1
<1>4. TypeOK BY <1>3 DEF TypeOK
<1>5. Kept BY <1>2, <1>3, FileFacts DEF Kept, Past, Sound
<1>6. Counted /\ Ahead /\ Progress BY DEF Counted, Ahead, Progress, Stages
<1>7. summary.json = Absent BY DEF LiveInit
<1>8. Dated BY <1>7, FileFacts DEF Dated
<1>9. Reported BY <1>7, FileFacts DEF Reported, Ended
<1> QED BY <1>4, <1>5, <1>6, <1>8, <1>9 DEF LInv

-----------------------------------------------------------------------------
(* A stage works on the one repository whose turn it is.                   *)
LEMMA Turn ==
  ASSUME LInv, phase \in Stages
  PROVE  /\ This \in Repositories /\ calls \in Nat
         /\ run \in [resume : BOOLEAN, own : BOOLEAN, results : Seq(Outcomes)]
         /\ This = Len(run.results) + 1 /\ Len(run.results) \in Nat
         /\ tree[This] \in Trees /\ Past(tree[This]) /\ Sound(tree[This])
         /\ Reached(phase, tree[This])
<1>1. /\ run \in [resume : BOOLEAN, own : BOOLEAN, results : Seq(Outcomes)]
      /\ calls \in Nat /\ tree \in [Repositories -> Trees]
  BY DEF LInv, TypeOK, Stages
<1>2. Len(run.results) \in Nat /\ Len(run.results) < N
  BY <1>1 DEF LInv, Counted
<1>3. This \in Repositories BY <1>2, LiveAssumption DEF This, Repositories
<1> QED BY <1>1, <1>2, <1>3 DEF LInv, Kept, Progress, This

(* The new tree of that repository, beside the others.                     *)
LEMMA Others ==
  ASSUME LInv, phase \in Stages,
         NEW t \in Trees, Past(t), Sound(t),
         tree' = [tree EXCEPT ![This] = t], UNCHANGED <<summary, calls>>
  PROVE  /\ tree' \in [Repositories -> Trees] /\ tree'[This] = t
         /\ \A r \in Repositories : r # This => tree'[r] = tree[r]
         /\ calls' = calls /\ summary' = summary
         /\ Kept'
<1>1. This \in Repositories BY Turn
<1>2. tree \in [Repositories -> Trees] BY DEF LInv, TypeOK
<1>3. tree'[This] = t BY <1>1, <1>2
<1>4. \A r \in Repositories : r # This => tree'[r] = tree[r] BY <1>1, <1>2
<1>5. tree' \in [Repositories -> Trees] BY <1>1, <1>2
<1>6. calls' = calls /\ summary' = summary OBVIOUS
<1>7. ASSUME NEW r \in Repositories PROVE Past(tree[r])' /\ Sound(tree[r])'
  <2>1. CASE r = This
    BY <2>1, <1>3, <1>6 DEF Past, Sound, Sufficient
  <2>2. CASE r # This
    <3>1. Past(tree[r]) /\ Sound(tree[r]) BY DEF LInv, Kept
    <3> QED BY <2>2, <3>1, <1>4, <1>6 DEF Past, Sound, Sufficient
  <2> QED BY <2>1, <2>2
<1>8. Kept' BY <1>7 DEF Kept, Repositories
<1> QED BY <1>3, <1>4, <1>5, <1>6, <1>8

(* Until a call is over the summary is an earlier one's.                   *)
LEMMA StillDated ==
  ASSUME LInv, phase # "idle", summary' = summary, calls' = calls
  PROVE  Dated' /\ ~Ended'
<1>1. summary.json.state = "whole" =>
        summary.json.content.by \in Nat /\ summary.json.content.by < calls
  BY DEF LInv, Dated
<1>2. calls \in Nat BY DEF LInv, TypeOK
<1>3. ~Ended' BY <1>1, <1>2 DEF Ended
<1>4. Dated' BY <1>1, <1>2 DEF Dated
<1> QED BY <1>3, <1>4

(* What was reported stays true while another repository is worked on.     *)
LEMMA StillTrue ==
  ASSUME LInv, phase \in Stages,
         \A r \in Repositories : r # This => tree'[r] = tree[r],
         calls' = calls
  PROVE  \A r \in 1 .. Len(run.results) :
           r \in Repositories /\ TrueResult(run.results[r], tree[r])
             /\ TrueResult(run.results[r], tree'[r])
<1> TAKE r \in 1 .. Len(run.results)
<1>1. Len(run.results) \in Nat /\ This = Len(run.results) + 1
      /\ This \in Repositories
  BY Turn
<1>2. r \in Repositories /\ r # This
  BY <1>1, LiveAssumption DEF Repositories
<1>3. TrueResult(run.results[r], tree[r]) BY DEF LInv, Reported, Stages
<1> QED BY <1>2, <1>3

(* A stage that lets the repository go on.                                 *)
LEMMA StageGoes ==
  ASSUME LInv, phase \in Stages,
         NEW t \in Trees, Past(t), Sound(t),
         tree' = [tree EXCEPT ![This] = t], StageOnly,
         NEW next \in Stages \ {"input"}, GoOn(next), Reached(next, t)
  PROVE  LInv'
<1>1. /\ tree' \in [Repositories -> Trees] /\ tree'[This] = t
      /\ \A r \in Repositories : r # This => tree'[r] = tree[r]
      /\ calls' = calls /\ summary' = summary
      /\ Kept'
  BY Others DEF StageOnly
<1>2. run' = run /\ phase' = next /\ This' = This BY DEF GoOn, This
<1>3. phase' # "idle" /\ phase' # "prepare" /\ phase' # "summary"
      /\ phase # "idle"
  BY <1>2 DEF Stages
<1>4. Len(run.results) < N BY DEF LInv, Counted
<1>5. TypeOK' BY <1>1, <1>2, <1>3, Turn DEF LInv, TypeOK, Repositories
<1>6. Counted' BY <1>2, <1>3, <1>4 DEF Counted
<1>7. Dated' /\ ~Ended' BY <1>1, <1>3, StillDated
<1>8. Ahead'
  <2> SUFFICES ASSUME NEW r \in Repositories, r > Len(run.results), r # This
               PROVE  Older(tree[r].dataset)' /\ Older(tree[r].experiment)'
    BY <1>2, <1>3 DEF Ahead, Repositories
  <2>1. Older(tree[r].dataset) /\ Older(tree[r].experiment)
    BY DEF LInv, Ahead
  <2> QED BY <2>1, <1>1 DEF Older
<1>9. Progress'
  <2>1. Reached(phase, tree[This])'
    BY <1>1, <1>2 DEF Reached, Older, Mine, Sufficient
  <2> QED BY <2>1 DEF Progress
<1>10. Reported'
  <2>1. \A r \in 1 .. Len(run.results) : TrueResult(run.results[r], tree'[r])
    BY <1>1, StillTrue
  <2>2. \A r \in 1 .. Len(run'.results) : TrueResult(run.results[r], tree[r])'
    BY <2>1, <1>1, <1>2 DEF TrueResult, Mine, Linked
  <2> QED BY <2>2, <1>3, <1>7 DEF Reported
<1> QED BY <1>1, <1>5, <1>6, <1>7, <1>8, <1>9, <1>10 DEF LInv

(* A stage in which the call dies.                                         *)
LEMMA StageDies ==
  ASSUME LInv, phase \in Stages,
         NEW t \in Trees, Past(t), Sound(t),
         tree' = [tree EXCEPT ![This] = t], UNCHANGED <<summary, calls>>,
         Exit("killed")
  PROVE  LInv'
<1>1. /\ tree' \in [Repositories -> Trees]
      /\ calls' = calls /\ summary' = summary
      /\ Kept'
  BY Others
<1>2. phase' = "idle" /\ code' = "killed" BY DEF Exit
<1>3. phase # "idle" BY DEF Stages
<1>4. TypeOK' BY <1>1, <1>2, Turn DEF LInv, TypeOK, Repositories
<1>5. Counted' /\ Ahead' /\ Progress'
  BY <1>2 DEF Counted, Ahead, Progress, Stages
<1>6. Dated' /\ ~Ended' BY <1>1, <1>3, StillDated
<1>7. Reported' BY <1>2, <1>6 DEF Reported
<1> QED BY <1>1, <1>4, <1>5, <1>6, <1>7 DEF LInv

(* A stage that ends with a result of the repository.                      *)
LEMMA StageEnds ==
  ASSUME LInv, phase \in Stages,
         NEW t \in Trees, Past(t), Sound(t),
         tree' = [tree EXCEPT ![This] = t], StageOnly,
         NEW result \in Outcomes, Report(result), TrueResult(result, t)
  PROVE  LInv'
<1>1. /\ tree' \in [Repositories -> Trees] /\ tree'[This] = t
      /\ \A r \in Repositories : r # This => tree'[r] = tree[r]
      /\ calls' = calls /\ summary' = summary
      /\ Kept'
  BY Others DEF StageOnly
<1>2. /\ run \in [resume : BOOLEAN, own : BOOLEAN, results : Seq(Outcomes)]
      /\ This \in Repositories /\ calls \in Nat
      /\ This = Len(run.results) + 1 /\ Len(run.results) \in Nat
  BY Turn
<1>3. /\ run' = [run EXCEPT !.results = Append(run.results, result)]
      /\ phase' = IF This = N THEN "summary" ELSE "input"
  BY DEF Report
<1>4. phase' # "idle" /\ phase' # "prepare" /\ phase # "idle"
      /\ phase' \in {"summary"} \cup Stages
      /\ (phase' \in Stages => phase' = "input")
  BY <1>3 DEF Stages
<1>5. run'.results = Append(run.results, result) BY <1>2, <1>3
<1>6. /\ Len(run'.results) = This
      /\ \A r \in 1 .. Len(run.results) : run'.results[r] = run.results[r]
      /\ run'.results[This] = result
  BY <1>2, <1>5
<1>7. run' \in [resume : BOOLEAN, own : BOOLEAN, results : Seq(Outcomes)]
  <2>1. Append(run.results, result) \in Seq(Outcomes) BY <1>2
  <2> QED BY <1>2, <1>3, <2>1
<1>8. TypeOK'
  BY <1>1, <1>2, <1>4, <1>7 DEF LInv, TypeOK, Repositories
<1>9. Counted'
  <2>1. This # N => This < N BY <1>2, LiveAssumption DEF Repositories
  <2>2. phase' = "input" => This # N BY <1>3
  <2>3. phase' = "summary" => This = N BY <1>3
  <2> QED BY <1>4, <1>6, <2>1, <2>2, <2>3 DEF Counted, Stages
<1>10. Dated' /\ ~Ended' BY <1>1, <1>4, StillDated
<1>11. This' = This + 1 BY <1>6 DEF This
<1>12. \A r \in Repositories : r > This =>
         Older(tree[r].dataset)' /\ Older(tree[r].experiment)'
  <2> SUFFICES ASSUME NEW r \in Repositories, r > This
               PROVE  Older(tree[r].dataset)' /\ Older(tree[r].experiment)'
    OBVIOUS
  <2>1. r > Len(run.results) /\ r # This
    BY <1>2 DEF Repositories
  <2>2. Older(tree[r].dataset) /\ Older(tree[r].experiment)
    BY <2>1 DEF LInv, Ahead
  <2> QED BY <2>1, <2>2, <1>1 DEF Older
<1>13. Ahead' BY <1>6, <1>12 DEF Ahead, Repositories
<1>14. Progress'
  <2> SUFFICES ASSUME phase' = "input" PROVE Reached("input", tree[This])'
    BY <1>4 DEF Progress
  <2>1. This < N
    BY <1>2, <1>3, LiveAssumption DEF Repositories
  <2>2. This + 1 \in Repositories /\ This + 1 > This
    BY <1>2, <2>1, LiveAssumption DEF Repositories
  <2>3. Older(tree[This].dataset)' /\ Older(tree[This].experiment)'
    BY <1>11, <1>12, <2>2
  <2> QED BY <2>3 DEF Reached
<1>15. Reported'
  <2>1. \A r \in 1 .. Len(run.results) : TrueResult(run.results[r], tree'[r])
    BY <1>1, StillTrue
  <2>2. \A r \in 1 .. Len(run'.results) : TrueResult(run'.results[r], tree'[r])
    <3> TAKE r \in 1 .. Len(run'.results)
    <3>1. CASE r = This BY <3>1, <1>1, <1>6
    <3>2. CASE r # This
      <4>1. r \in 1 .. Len(run.results) BY <3>2, <1>2, <1>6
      <4> QED BY <4>1, <2>1, <1>6
    <3> QED BY <3>1, <3>2
  <2>3. \A r \in 1 .. Len(run'.results) : TrueResult(run.results[r], tree[r])'
    BY <2>2, <1>1 DEF TrueResult, Mine, Linked
  <2> QED BY <2>3, <1>4, <1>10 DEF Reported
<1> QED BY <1>1, <1>8, <1>9, <1>10, <1>13, <1>14, <1>15 DEF LInv

-----------------------------------------------------------------------------
LEMMA FourInputs == Len(InputFiles) = 4 /\ 1 .. Len(InputFiles) = {1, 2, 3, 4}
<1>1. Len(InputFiles) = 4 BY DEF InputFiles
<1> QED BY <1>1

(* A repository whose report is not of this call may be called blocked,    *)
(* and what it then links is what its dataset led to.                      *)
LEMMA BlockedIsTrue ==
  ASSUME calls \in Nat, NEW t, Older(t.experiment), NEW stage, NEW links,
         "coverage" \in links =>
           Mine(t.dataset) /\ \A a \in links : Linked(t)[a] = t.dataset
  PROVE  TrueResult([status |-> "blocked", stage |-> stage, links |-> links], t)
<1>1. ~(Mine(t.dataset) /\ t.experiment = t.dataset) BY DEF Older, Mine
<1> QED BY <1>1 DEF TrueResult

LEMMA LinksOfInputs ==
  ASSUME NEW t \in Trees, t.inspection = t.dataset,
         \A i \in 1 .. Len(InputFiles) : t.inputs[i] = t.dataset
  PROVE  \A a \in Inspected \cup {"coverage"} : Linked(t)[a] = t.dataset
<1>1. t.inputs[1] = t.dataset /\ t.inputs[2] = t.dataset /\ t.inputs[3] = t.dataset
  BY FourInputs
<1> QED BY <1>1 DEF Inspected, Linked

LEMMA CheckInputLInv == LInv /\ CheckInput => LInv'
<1> SUFFICES ASSUME LInv, CheckInput PROVE LInv' OBVIOUS
<1>1. phase = "input" /\ phase \in Stages BY DEF CheckInput, Stages
<1>2. /\ calls \in Nat /\ tree[This] \in Trees /\ Past(tree[This])
      /\ Sound(tree[This]) /\ Older(tree[This].experiment)
      /\ Older(tree[This].dataset)
  BY <1>1, Turn DEF Reached
<1> DEFINE t(made) == [tree[This] EXCEPT !.folder = made]
<1>3. ASSUME NEW made \in BOOLEAN
      PROVE  /\ t(made) \in Trees /\ Past(t(made)) /\ Sound(t(made))
             /\ t(made).dataset = tree[This].dataset
             /\ t(made).experiment = tree[This].experiment
  BY <1>2 DEF Trees, Past, Sound
<1>4. CASE /\ GoOn("collection")
           /\ tree' = [tree EXCEPT ![This].folder = TRUE]
  <2>1. tree' = [tree EXCEPT ![This] = t(TRUE)] BY <1>4
  <2>2. Reached("collection", t(TRUE)) BY <1>2, <1>3 DEF Reached
  <2>3. StageOnly /\ "collection" \in Stages \ {"input"} BY DEF CheckInput, Stages
  <2> HIDE DEF t
  <2> QED BY <1>1, <1>3, <1>4, <2>1, <2>2, <2>3, StageGoes
<1>5. ASSUME Blocked("input", {"dataset"}),
             NEW made \in {tree[This].folder, TRUE},
             tree' = [tree EXCEPT ![This].folder = made]
      PROVE  LInv'
  <2>1. tree' = [tree EXCEPT ![This] = t(made)] BY <1>5
  <2>2. made \in BOOLEAN BY <1>2 DEF Trees
  <2> DEFINE result == [status |-> "blocked", stage |-> "input", links |-> {"dataset"}]
  <2>3. result \in Outcomes BY DEF Outcomes, Names, Stages
  <2>4. StageOnly BY DEF CheckInput
  <2>5. TrueResult(result, t(made)) BY <1>2, <1>3, <2>2, BlockedIsTrue
  <2>6. Report(result) BY <1>5 DEF Blocked
  <2> HIDE DEF t, result
  <2> QED BY <1>1, <1>3, <2>1, <2>2, <2>3, <2>4, <2>5, <2>6, StageEnds
<1> QED BY <1>4, <1>5 DEF CheckInput

(* What a collection may leave, it or a death.                             *)
LEMMA PartlyCollectedFacts ==
  ASSUME LInv, phase = "collection", PartlyCollected
  PROVE  \E t \in Trees :
           /\ Past(t) /\ Sound(t) /\ Older(t.experiment)
           /\ tree' = [tree EXCEPT ![This] = t]
<1>1. /\ calls \in Nat /\ tree[This] \in Trees /\ Past(tree[This])
      /\ Sound(tree[This]) /\ Older(tree[This].experiment)
  BY Turn DEF Reached, Stages
<1>2. PICK d \in {tree[This].dataset} \cup {Blank, Extraction(MarkerRows)} \cup Saved :
        tree' = [tree EXCEPT ![This].dataset = d]
  BY DEF PartlyCollected
<1>3. MarkerRows \in [Families -> SUBSET Statuses] BY DEF MarkerRows, Statuses
<1>4. d \in Files /\ (d.state = "whole" => d.content.by <= calls)
  <2>1. CASE d = tree[This].dataset BY <2>1, <1>1 DEF Trees, Past
  <2>2. CASE d = Blank BY <2>2, FileFacts
  <2>3. CASE d = Extraction(MarkerRows)
    BY <2>3, <1>1, <1>3, ExtractionFacts DEF Mine
  <2>4. CASE d \in Saved
    <3>1. PICK rows \in Collections : d = Extraction(rows) BY <2>4 DEF Saved
    <3>2. rows \in [Families -> SUBSET Statuses] BY LiveAssumption
    <3> QED BY <1>1, <3>1, <3>2, ExtractionFacts DEF Mine
  <2> QED BY <2>1, <2>2, <2>3, <2>4
<1> DEFINE t == [tree[This] EXCEPT !.dataset = d]
<1>5. t \in Trees /\ Past(t) /\ Sound(t) /\ Older(t.experiment)
  BY <1>1, <1>4 DEF Trees, Past, Sound, Older
<1>6. tree' = [tree EXCEPT ![This] = t] BY <1>2
<1> QED BY <1>5, <1>6

LEMMA CollectLInv == LInv /\ Collect => LInv'
<1> SUFFICES ASSUME LInv, Collect PROVE LInv' OBVIOUS
<1>1. phase = "collection" /\ phase \in Stages /\ StageOnly BY DEF Collect, Stages
<1>2. /\ calls \in Nat /\ tree[This] \in Trees /\ Past(tree[This])
      /\ Sound(tree[This]) /\ Older(tree[This].experiment)
  BY <1>1, Turn DEF Reached
<1>3. ASSUME NEW d \in Saved, tree' = [tree EXCEPT ![This].dataset = d],
             GoOn("inspection")
      PROVE  LInv'
  <2>1. PICK rows \in Collections : d = Extraction(rows) BY DEF Saved
  <2>2. rows \in [Families -> SUBSET Statuses] BY LiveAssumption
  <2>3. d \in Files /\ Mine(d) BY <1>2, <2>1, <2>2, ExtractionFacts
  <2> DEFINE t == [tree[This] EXCEPT !.dataset = d]
  <2>4. t \in Trees /\ Past(t) /\ Sound(t) /\ Older(t.experiment) /\ Mine(t.dataset)
    BY <1>2, <2>3 DEF Trees, Past, Sound, Older, Mine
  <2>5. tree' = [tree EXCEPT ![This] = t] BY <1>3
  <2>6. Reached("inspection", t) BY <2>4 DEF Reached
  <2>7. "inspection" \in Stages \ {"input"} BY DEF Stages
  <2> HIDE DEF t
  <2> QED BY <1>1, <1>3, <2>4, <2>5, <2>6, <2>7, StageGoes
<1>4. CASE PartlyCollected /\ Blocked("collection", {"dataset"})
  <2>1. PICK t \in Trees :
           /\ Past(t) /\ Sound(t) /\ Older(t.experiment)
           /\ tree' = [tree EXCEPT ![This] = t]
    BY <1>1, <1>4, PartlyCollectedFacts
  <2> DEFINE result ==
        [status |-> "blocked", stage |-> "collection", links |-> {"dataset"}]
  <2>2. result \in Outcomes BY DEF Outcomes, Names, Stages
  <2>3. TrueResult(result, t) BY <1>2, <2>1, BlockedIsTrue
  <2>4. Report(result) BY <1>4 DEF Blocked
  <2> HIDE DEF result
  <2> QED BY <1>1, <2>1, <2>2, <2>3, <2>4, StageEnds
<1> QED BY <1>3, <1>4 DEF Collect

LEMMA InspectLInv == LInv /\ Inspect => LInv'
<1> SUFFICES ASSUME LInv, Inspect PROVE LInv' OBVIOUS
<1>1. phase = "inspection" /\ phase \in Stages /\ StageOnly BY DEF Inspect, Stages
<1>2. /\ calls \in Nat /\ tree[This] \in Trees /\ Past(tree[This])
      /\ Sound(tree[This]) /\ Older(tree[This].experiment)
      /\ Mine(tree[This].dataset)
  BY <1>1, Turn DEF Reached
<1>3. CASE /\ tree[This].inspection = Absent
           /\ tree' = [tree EXCEPT ![This].inspection = tree[This].dataset]
           /\ GoOn("inputs")
  <2> DEFINE t == [tree[This] EXCEPT !.inspection = tree[This].dataset]
  <2>1. t \in Trees /\ Past(t) /\ Older(t.experiment) BY <1>2 DEF Trees, Past, Older
  <2>2. /\ t.inspection = t.dataset /\ t.dataset = tree[This].dataset
        /\ t.model = tree[This].model /\ t.experiment = tree[This].experiment
    BY <1>2 DEF Trees
  <2>3. t.model = Absent /\ t.experiment = Absent BY <1>2, <1>3, <2>2 DEF Sound
  <2>4. tree' = [tree EXCEPT ![This] = t] BY <1>3
  <2> HIDE DEF t
  <2>5. Sound(t) BY <2>3 DEF Sound
  <2>6. Reached("inputs", t) BY <1>2, <2>1, <2>2, <2>3 DEF Reached
  <2>7. "inputs" \in Stages \ {"input"} BY DEF Stages
  <2> QED BY <1>1, <1>3, <2>1, <2>4, <2>5, <2>6, <2>7, StageGoes
<1>4. CASE Blocked("inspection", {"dataset"}) /\ UNCHANGED tree
  <2>1. tree' = [tree EXCEPT ![This] = tree[This]]
    BY <1>1, <1>4, Turn DEF LInv, TypeOK
  <2> DEFINE result ==
        [status |-> "blocked", stage |-> "inspection", links |-> {"dataset"}]
  <2>2. result \in Outcomes BY DEF Outcomes, Names, Stages
  <2>3. TrueResult(result, tree[This]) BY <1>2, BlockedIsTrue
  <2>4. Report(result) BY <1>4 DEF Blocked
  <2> HIDE DEF result
  <2> QED BY <1>1, <1>2, <2>1, <2>2, <2>3, <2>4, StageEnds
<1> QED BY <1>3, <1>4 DEF Inspect

(* What the writing of the inputs may leave, it or a death.                *)
LEMMA PartlyWrittenFacts ==
  ASSUME LInv, phase = "inputs", NEW n \in 0 .. Len(InputFiles), NEW torn \in BOOLEAN
  PROVE  LET t == [tree[This] EXCEPT !.inputs = Written(n, torn)] IN
           /\ t \in Trees /\ Past(t) /\ Sound(t)
           /\ Older(t.experiment) /\ Mine(t.dataset)
           /\ t.inspection = t.dataset /\ t.dataset = tree[This].dataset
           /\ t.model = Absent /\ t.inputs = Written(n, torn)
<1>1. /\ calls \in Nat /\ tree[This] \in Trees /\ Past(tree[This])
      /\ Sound(tree[This]) /\ Older(tree[This].experiment)
      /\ Mine(tree[This].dataset) /\ tree[This].inspection = tree[This].dataset
      /\ tree[This].model = Absent
  BY Turn DEF Reached, Stages
<1>2. tree[This].experiment = Absent BY <1>1 DEF Sound
<1>3. Written(n, torn) \in [1 .. Len(InputFiles) -> Files]
  BY <1>1, FileFacts DEF Written, Trees
<1> DEFINE t == [tree[This] EXCEPT !.inputs = Written(n, torn)]
<1>4. t \in Trees BY <1>1, <1>3 DEF Trees
<1>5. /\ t.dataset = tree[This].dataset /\ t.inspection = tree[This].inspection
      /\ t.model = Absent /\ t.experiment = Absent /\ t.inputs = Written(n, torn)
  BY <1>1, <1>2 DEF Trees
<1> HIDE DEF t
<1>6. Past(t) /\ Sound(t) BY <1>1, <1>5, FileFacts DEF Past, Sound
<1>7. Older(t.experiment) /\ Mine(t.dataset) BY <1>1, <1>5, FileFacts DEF Older
<1> QED BY <1>1, <1>4, <1>5, <1>6, <1>7 DEF t

LEMMA WriteInputsLInv == LInv /\ WriteInputs => LInv'
<1> SUFFICES ASSUME LInv, WriteInputs PROVE LInv' OBVIOUS
<1>1. phase = "inputs" /\ phase \in Stages /\ StageOnly
  BY DEF WriteInputs, Stages
<1>2. calls \in Nat /\ tree[This] \in Trees BY <1>1, Turn
<1>3. CASE /\ tree' = [tree EXCEPT ![This].inputs = Written(Len(InputFiles), FALSE)]
           /\ IF SourceIncomplete(tree[This].dataset.content.rows)
              THEN Blocked("collection", Inspected \cup {"coverage"})
              ELSE GoOn("calibration")
  <2> DEFINE t == [tree[This] EXCEPT !.inputs = Written(Len(InputFiles), FALSE)]
  <2>1. /\ t \in Trees /\ Past(t) /\ Sound(t)
        /\ Older(t.experiment) /\ Mine(t.dataset)
        /\ t.inspection = t.dataset /\ t.dataset = tree[This].dataset
        /\ t.model = Absent /\ t.inputs = Written(Len(InputFiles), FALSE)
    <3>1. Len(InputFiles) \in 0 .. Len(InputFiles) BY FourInputs
    <3> QED BY <1>1, <3>1, PartlyWrittenFacts
  <2>2. tree' = [tree EXCEPT ![This] = t] BY <1>3
  <2> HIDE DEF t
  <2>3. \A i \in 1 .. Len(InputFiles) : t.inputs[i] = t.dataset
    BY <1>2, <2>1 DEF Written, Trees
  <2>4. CASE SourceIncomplete(tree[This].dataset.content.rows)
    <3> DEFINE result == [status |-> "blocked", stage |-> "collection",
                          links |-> Inspected \cup {"coverage"}]
    <3>1. result \in Outcomes BY DEF Outcomes, Names, Stages, Inspected
    <3>2. \A a \in Inspected \cup {"coverage"} : Linked(t)[a] = t.dataset
      BY <2>1, <2>3, LinksOfInputs
    <3>3. TrueResult(result, t) BY <1>2, <2>1, <3>2, BlockedIsTrue
    <3>4. Report(result) BY <1>3, <2>4 DEF Blocked
    <3> HIDE DEF result
    <3> QED BY <1>1, <2>1, <2>2, <3>1, <3>3, <3>4, StageEnds
  <2>5. CASE ~SourceIncomplete(tree[This].dataset.content.rows)
    <3>1. Sufficient(t.dataset.content.rows) BY <2>1, <2>5, NothingMissing
    <3>2. Reached("calibration", t) BY <2>1, <2>3, <3>1 DEF Reached
    <3>3. "calibration" \in Stages \ {"input"} BY DEF Stages
    <3>4. GoOn("calibration") BY <1>3, <2>5
    <3> QED BY <1>1, <2>1, <2>2, <3>2, <3>3, <3>4, StageGoes
  <2> QED BY <2>4, <2>5
<1>4. CASE PartlyWritten /\ Blocked("calibration-inputs", Inspected)
  <2>1. PICK n \in 0 .. Len(InputFiles) - 1, torn \in BOOLEAN :
          tree' = [tree EXCEPT ![This].inputs = Written(n, torn)]
    BY <1>4 DEF PartlyWritten
  <2> DEFINE t == [tree[This] EXCEPT !.inputs = Written(n, torn)]
  <2>2. n \in 0 .. Len(InputFiles) BY FourInputs
  <2>3. t \in Trees /\ Past(t) /\ Sound(t) /\ Older(t.experiment)
    BY <1>1, <2>2, PartlyWrittenFacts
  <2>4. tree' = [tree EXCEPT ![This] = t] BY <2>1
  <2> DEFINE result == [status |-> "blocked", stage |-> "calibration-inputs",
                        links |-> Inspected]
  <2>5. result \in Outcomes BY DEF Outcomes, Names, Stages, Inspected
  <2>6. "coverage" \notin Inspected BY DEF Inspected
  <2> HIDE DEF t
  <2>7. TrueResult(result, t) BY <1>2, <2>3, <2>6, BlockedIsTrue
  <2>8. Report(result) BY <1>4 DEF Blocked
  <2> HIDE DEF result
  <2> QED BY <1>1, <2>3, <2>4, <2>5, <2>7, <2>8, StageEnds
<1> QED BY <1>3, <1>4 DEF WriteInputs

LEMMA CalibrateLInv == LInv /\ Calibrate => LInv'
<1> SUFFICES ASSUME LInv, Calibrate PROVE LInv' OBVIOUS
<1>1. phase = "calibration" /\ phase \in Stages /\ StageOnly
  BY DEF Calibrate, Stages
<1>2. /\ calls \in Nat /\ tree[This] \in Trees /\ Past(tree[This])
      /\ Sound(tree[This]) /\ Older(tree[This].experiment)
      /\ Mine(tree[This].dataset) /\ tree[This].inspection = tree[This].dataset
      /\ \A i \in 1 .. Len(InputFiles) : tree[This].inputs[i] = tree[This].dataset
      /\ Sufficient(tree[This].dataset.content.rows)
      /\ tree[This].model = Absent
  BY <1>1, Turn DEF Reached
<1>3. CASE /\ tree' = [tree EXCEPT ![This].model = tree[This].dataset]
           /\ GoOn("simulation")
  <2> DEFINE t == [tree[This] EXCEPT !.model = tree[This].dataset]
  <2>1. t \in Trees /\ tree' = [tree EXCEPT ![This] = t] BY <1>2, <1>3 DEF Trees
  <2>2. /\ t.dataset = tree[This].dataset /\ t.inspection = tree[This].inspection
        /\ t.model = tree[This].dataset /\ t.experiment = tree[This].experiment
        /\ t.inputs = tree[This].inputs /\ DOMAIN t.inputs = 1 .. Len(InputFiles)
    BY <1>2 DEF Trees
  <2>3. t.experiment = Absent BY <1>2, <2>2 DEF Sound
  <2> HIDE DEF t
  <2>4. Past(t) /\ Older(t.experiment) BY <1>2, <2>2 DEF Past
  <2>5. Sound(t) BY <1>2, <2>2, <2>3 DEF Sound
  <2>6. Reached("simulation", t) BY <1>2, <2>2, <2>4 DEF Reached
  <2>7. "simulation" \in Stages \ {"input"} BY DEF Stages
  <2> QED BY <1>1, <1>3, <2>1, <2>4, <2>5, <2>6, <2>7, StageGoes
<1>4. CASE Blocked("calibration", Inspected \cup {"coverage"}) /\ UNCHANGED tree
  <2>1. tree' = [tree EXCEPT ![This] = tree[This]]
    BY <1>1, <1>4, Turn DEF LInv, TypeOK
  <2> DEFINE result == [status |-> "blocked", stage |-> "calibration",
                        links |-> Inspected \cup {"coverage"}]
  <2>2. result \in Outcomes BY DEF Outcomes, Names, Stages, Inspected
  <2>3. \A a \in Inspected \cup {"coverage"} : Linked(tree[This])[a] = tree[This].dataset
    BY <1>2, LinksOfInputs
  <2>4. TrueResult(result, tree[This]) BY <1>2, <2>3, BlockedIsTrue
  <2>5. Report(result) BY <1>4 DEF Blocked
  <2> HIDE DEF result
  <2> QED BY <1>1, <1>2, <2>1, <2>2, <2>4, <2>5, StageEnds
<1> QED BY <1>3, <1>4 DEF Calibrate

LEMMA SimulateLInv == LInv /\ Simulate => LInv'
<1> SUFFICES ASSUME LInv, Simulate PROVE LInv' OBVIOUS
<1>1. phase = "simulation" /\ phase \in Stages /\ StageOnly
  BY DEF Simulate, Stages
<1>2. /\ calls \in Nat /\ tree[This] \in Trees /\ Past(tree[This])
      /\ Sound(tree[This]) /\ Older(tree[This].experiment)
      /\ Mine(tree[This].dataset) /\ tree[This].inspection = tree[This].dataset
      /\ \A i \in 1 .. Len(InputFiles) : tree[This].inputs[i] = tree[This].dataset
      /\ Sufficient(tree[This].dataset.content.rows)
      /\ tree[This].model = tree[This].dataset
  BY <1>1, Turn DEF Reached
<1>3. \A a \in Inspected \cup {"coverage"} : Linked(tree[This])[a] = tree[This].dataset
  BY <1>2, LinksOfInputs
<1>4. CASE /\ tree' = [tree EXCEPT ![This].experiment = tree[This].model]
           /\ Report([status |-> "simulated", stage |-> "complete",
                      links |-> Inspected \cup {"coverage", "model", "experiment"}])
  <2> DEFINE t == [tree[This] EXCEPT !.experiment = tree[This].model]
  <2>1. t \in Trees /\ tree' = [tree EXCEPT ![This] = t] BY <1>2, <1>4 DEF Trees
  <2>2. /\ t.dataset = tree[This].dataset /\ t.inspection = tree[This].inspection
        /\ t.model = tree[This].dataset /\ t.experiment = tree[This].dataset
        /\ t.inputs = tree[This].inputs
    BY <1>2 DEF Trees
  <2> HIDE DEF t
  <2>3. Past(t) BY <1>2, <2>2 DEF Past
  <2>4. Sound(t) BY <1>2, <2>2 DEF Sound
  <2> DEFINE result == [status |-> "simulated", stage |-> "complete",
                        links |-> Inspected \cup {"coverage", "model", "experiment"}]
  <2>5. result \in Outcomes BY DEF Outcomes, Names, Stages, Inspected
  <2>6. Mine(t.dataset) BY <1>2, <2>2
  <2>7. \A a \in Inspected \cup {"coverage", "model", "experiment"} :
          Linked(t)[a] = t.dataset
    <3>1. \A a \in Inspected \cup {"coverage"} : Linked(t)[a] = t.dataset
      BY <1>2, <2>1, <2>2, LinksOfInputs
    <3>2. Linked(t)["model"] = t.dataset /\ Linked(t)["experiment"] = t.dataset
      BY <2>2 DEF Linked
    <3> QED BY <3>1, <3>2
  <2>8. TrueResult(result, t) BY <2>2, <2>6, <2>7 DEF TrueResult
  <2>9. Report(result) BY <1>4
  <2> HIDE DEF result
  <2> QED BY <1>1, <2>1, <2>3, <2>4, <2>5, <2>8, <2>9, StageEnds
<1>5. CASE Blocked("simulation", Inspected \cup {"coverage", "model"}) /\ UNCHANGED tree
  <2>1. tree' = [tree EXCEPT ![This] = tree[This]]
    BY <1>1, <1>5, Turn DEF LInv, TypeOK
  <2> DEFINE result == [status |-> "blocked", stage |-> "simulation",
                        links |-> Inspected \cup {"coverage", "model"}]
  <2>2. result \in Outcomes BY DEF Outcomes, Names, Stages, Inspected
  <2>3. \A a \in Inspected \cup {"coverage", "model"} :
          Linked(tree[This])[a] = tree[This].dataset
    BY <1>2, <1>3 DEF Linked
  <2>4. TrueResult(result, tree[This]) BY <1>2, <2>3, BlockedIsTrue
  <2>5. Report(result) BY <1>5 DEF Blocked
  <2> HIDE DEF result
  <2> QED BY <1>1, <1>2, <2>1, <2>2, <2>4, <2>5, StageEnds
<1> QED BY <1>4, <1>5 DEF Simulate

-----------------------------------------------------------------------------
LEMMA DieInStageLInv ==
  ASSUME LInv, Die, phase \in Stages PROVE LInv'
<1>1. /\ calls \in Nat /\ tree[This] \in Trees /\ Past(tree[This])
      /\ Sound(tree[This])
  BY Turn
<1>2. Exit("killed") /\ UNCHANGED <<summary, calls>> BY DEF Die, Stages
<1>3. CASE phase = "collection"
  <2>1. PartlyCollected BY <1>3 DEF Die
  <2>2. PICK t \in Trees :
           /\ Past(t) /\ Sound(t)
           /\ tree' = [tree EXCEPT ![This] = t]
    BY <1>3, <2>1, PartlyCollectedFacts
  <2> QED BY <1>2, <2>2, StageDies
<1>4. CASE phase = "inputs"
  <2>1. PICK n \in 0 .. Len(InputFiles) - 1, torn \in BOOLEAN :
          tree' = [tree EXCEPT ![This].inputs = Written(n, torn)]
    BY <1>4 DEF Die, PartlyWritten
  <2> DEFINE t == [tree[This] EXCEPT !.inputs = Written(n, torn)]
  <2>2. n \in 0 .. Len(InputFiles) BY FourInputs
  <2>3. t \in Trees /\ Past(t) /\ Sound(t) BY <1>4, <2>2, PartlyWrittenFacts
  <2>4. tree' = [tree EXCEPT ![This] = t] BY <2>1
  <2> HIDE DEF t
  <2> QED BY <1>2, <2>3, <2>4, StageDies
<1>5. CASE phase \notin {"collection", "inputs"}
  <2>1. tree' = tree BY <1>5 DEF Die, Stages
  <2>2. tree' = [tree EXCEPT ![This] = tree[This]]
    BY <2>1, Turn DEF LInv, TypeOK
  <2> QED BY <1>1, <1>2, <2>2, StageDies
<1> QED BY <1>3, <1>4, <1>5

LEMMA CallLInv ==
  ASSUME LInv, NEW resume \in BOOLEAN, NEW own \in BOOLEAN, Call(resume, own)
  PROVE  LInv'
<1>1. /\ phase = "idle" /\ calls \in Nat /\ calls' = calls + 1
      /\ tree \in [Repositories -> Trees]
      /\ tree' = tree /\ summary' = summary
      /\ summary = [json |-> summary.json, markdown |-> summary.markdown]
  BY DEF Call, LInv, TypeOK
<1>2. ASSUME NEW r \in Repositories
      PROVE  /\ Older(tree[r].dataset)' /\ Older(tree[r].experiment)'
             /\ Past(tree[r])' /\ Sound(tree[r])'
  <2>1. Past(tree[r]) /\ Sound(tree[r]) BY DEF LInv, Kept
  <2>2. tree[r].dataset \in Files /\ tree[r].experiment \in Files
    BY <1>1 DEF Trees
  <2>3. /\ tree[r].dataset.state = "whole" => tree[r].dataset.content.by \in Nat
        /\ tree[r].experiment.state = "whole" => tree[r].experiment.content.by \in Nat
    BY <2>2, FileFacts
  <2>4. /\ tree[r].dataset.state = "whole" => tree[r].dataset.content.by < calls + 1
        /\ tree[r].experiment.state = "whole" => tree[r].experiment.content.by < calls + 1
    BY <1>1, <2>1, <2>3 DEF Past
  <2>5. Older(tree[r].dataset)' /\ Older(tree[r].experiment)'
    BY <1>1, <2>4 DEF Older
  <2>6. Past(tree[r])' BY <1>1, <2>3, <2>4 DEF Past
  <2>7. Sound(tree[r])' BY <1>1, <2>1 DEF Sound, Sufficient
  <2> QED BY <2>5, <2>6, <2>7
<1>3. Kept' BY <1>2 DEF Kept, Repositories
<1>4. summary.json.state = "whole" =>
        summary.json.content.by \in Nat /\ summary.json.content.by < calls'
  BY <1>1 DEF LInv, Dated
<1>5. calls' \in Nat BY <1>1
<1>6. Dated' /\ ~Ended' BY <1>1, <1>4, <1>5 DEF Dated, Ended
<1>7. CASE Exit("invalid")
  <2>1. phase' = "idle" /\ code' = "invalid" BY <1>7 DEF Exit
  <2>2. TypeOK' BY <1>1, <1>5, <2>1 DEF TypeOK, Repositories
  <2>3. Counted' /\ Ahead' /\ Progress'
    BY <2>1 DEF Counted, Ahead, Progress, Stages
  <2>4. Reported' BY <1>6, <2>1 DEF Reported
  <2> QED BY <1>3, <1>6, <2>2, <2>3, <2>4 DEF LInv
<1>8. CASE /\ phase' = "prepare"
           /\ run' = [resume |-> resume, own |-> own, results |-> <<>>]
  <2>1. /\ run'.results = <<>> /\ Len(run'.results) = 0
        /\ run' \in [resume : BOOLEAN, own : BOOLEAN, results : Seq(Outcomes)]
    BY <1>8
  <2>2. TypeOK' BY <1>1, <1>5, <1>8, <2>1 DEF TypeOK, Repositories
  <2>3. Counted' /\ Progress' BY <1>8, <2>1 DEF Counted, Progress, Stages
  <2>4. Ahead' BY <1>2 DEF Ahead, Repositories
  <2>5. Reported' BY <1>6, <1>8, <2>1 DEF Reported
  <2> QED BY <1>3, <1>6, <2>2, <2>3, <2>4, <2>5 DEF LInv
<1> QED BY <1>7, <1>8 DEF Call

(* Nothing but the locals moves: what was kept is.                         *)
LEMMA StillKept == LInv /\ UNCHANGED <<tree, calls>> => Kept'
<1> SUFFICES ASSUME LInv, UNCHANGED <<tree, calls>>, NEW r \in Repositories
             PROVE  Past(tree[r])' /\ Sound(tree[r])'
  BY DEF Kept, Repositories
<1>1. Past(tree[r]) /\ Sound(tree[r]) BY DEF LInv, Kept
<1> QED BY <1>1 DEF Past, Sound, Sufficient

(* A call that ends before it has a summary.                               *)
LEMMA EndsEarly ==
  ASSUME LInv, phase # "idle", NEW c, c # "success", Exit(c),
         UNCHANGED <<tree, calls, summary>>
  PROVE  LInv'
<1>1. phase' = "idle" /\ code' # "success" BY DEF Exit
<1>2. TypeOK' BY <1>1 DEF LInv, TypeOK, Repositories
<1>3. Counted' /\ Ahead' /\ Progress' BY <1>1 DEF Counted, Ahead, Progress, Stages
<1>4. Dated' /\ ~Ended' BY StillDated
<1>5. Reported' BY <1>1, <1>4 DEF Reported
<1> QED BY <1>2, <1>3, <1>4, <1>5, StillKept DEF LInv

LEMMA PrepareLInv == LInv /\ Prepare => LInv'
<1> SUFFICES ASSUME LInv, Prepare PROVE LInv' OBVIOUS
<1>1. phase = "prepare" /\ UNCHANGED <<tree, calls, summary>> BY DEF Prepare
<1>2. CASE GoOn("input")
  <2>1. phase' = "input" /\ run' = run BY <1>2 DEF GoOn
  <2>2. /\ run \in [resume : BOOLEAN, own : BOOLEAN, results : Seq(Outcomes)]
        /\ run.results = <<>> /\ Len(run.results) = 0 /\ This' = 1
    BY <1>1, <2>1 DEF LInv, TypeOK, Counted, This
  <2>3. TypeOK' BY <1>1, <2>1, <2>2 DEF LInv, TypeOK, Repositories, Stages
  <2>4. Counted' BY <2>1, <2>2, LiveAssumption DEF Counted
  <2>5. Dated' /\ ~Ended' BY <1>1, StillDated
  <2>6. \A r \in Repositories :
          Older(tree[r].dataset)' /\ Older(tree[r].experiment)'
    <3> SUFFICES ASSUME NEW r \in Repositories
                 PROVE  Older(tree[r].dataset)' /\ Older(tree[r].experiment)'
      OBVIOUS
    <3>1. r > Len(run.results) BY <2>2 DEF Repositories
    <3>2. Older(tree[r].dataset) /\ Older(tree[r].experiment)
      BY <1>1, <3>1 DEF LInv, Ahead
    <3> QED BY <1>1, <3>2 DEF Older
  <2>7. Ahead' BY <2>6 DEF Ahead, Repositories
  <2>8. 1 \in Repositories BY LiveAssumption DEF Repositories
  <2>9. Progress' BY <2>1, <2>2, <2>6, <2>8 DEF Progress, Reached
  <2>10. Reported' BY <2>1, <2>2, <2>5 DEF Reported
  <2> QED BY <1>1, <2>3, <2>4, <2>5, <2>7, <2>9, <2>10, StillKept DEF LInv
<1>3. CASE Exit("invalid") BY <1>1, <1>3, EndsEarly
<1> QED BY <1>2, <1>3 DEF Prepare

(* A call that ends while it writes its summary, or having written it.     *)
LEMMA EndsLate ==
  ASSUME LInv, phase = "summary", NEW c, Exit(c), UNCHANGED <<tree, calls>>,
         summary' = [json |-> summary'.json, markdown |-> summary'.markdown],
         summary'.json \in {summary.json, Torn, Summary},
         c = "success" =>
           summary'.json = Summary /\ ExitCode(run.results) = "success"
  PROVE  LInv'
<1>1. phase' = "idle" /\ code' = c BY DEF Exit
<1>2. /\ run \in [resume : BOOLEAN, own : BOOLEAN, results : Seq(Outcomes)]
      /\ calls \in Nat /\ Len(run.results) = N
  BY DEF LInv, TypeOK, Counted
<1>3. TypeOK' BY <1>1 DEF LInv, TypeOK, Repositories
<1>4. Counted' /\ Ahead' /\ Progress' BY <1>1 DEF Counted, Ahead, Progress, Stages
<1>5. \A r \in Repositories : TrueResult(run.results[r], tree[r])
  BY <1>2 DEF LInv, Reported, Repositories
<1>6. summary.json.state = "whole" =>
        summary.json.content.by \in Nat /\ summary.json.content.by < calls
  BY DEF LInv, Dated
<1>7. /\ Summary.state = "whole" /\ Summary.content.by = calls
      /\ Summary.content.results = run.results
  BY DEF Summary, Whole
<1>8. Dated' BY <1>1, <1>2, <1>6, <1>7, FileFacts DEF Dated
<1>9. Ended' <=> summary'.json = Summary
  BY <1>1, <1>2, <1>6, <1>7, FileFacts DEF Ended
<1>10. Ended' => \A r \in Repositories : TrueResult(Results[r], tree[r])'
  <2> SUFFICES ASSUME summary'.json = Summary, NEW r \in Repositories
               PROVE  TrueResult(Results[r], tree[r])'
    BY <1>9 DEF Repositories
  <2>1. Results'[r] = run.results[r] /\ tree' = tree /\ calls' = calls
    BY <1>7 DEF Results
  <2> QED BY <1>5, <2>1 DEF TrueResult, Mine, Linked
<1>11. c = "success" => Ended' /\ \A r \in Repositories : Results'[r].status = "simulated"
  <2> SUFFICES ASSUME c = "success", NEW r \in Repositories
               PROVE  Results'[r].status = "simulated"
    BY <1>9
  <2>1. DOMAIN run.results = Repositories BY <1>2 DEF Repositories
  <2>2. run.results[r].status # "blocked" BY <2>1 DEF ExitCode
  <2>3. run.results[r] \in Outcomes BY <1>2, <2>1
  <2>4. Results' = run.results BY <1>7 DEF Results
  <2> QED BY <2>2, <2>3, <2>4 DEF Outcomes
<1>12. Reported' BY <1>1, <1>10, <1>11 DEF Reported, Repositories
<1> QED BY <1>3, <1>4, <1>8, <1>12, StillKept DEF LInv

LEMMA PartlySummarisedFacts ==
  ASSUME LInv, PartlySummarised
  PROVE  /\ summary' = [json |-> summary'.json, markdown |-> summary'.markdown]
         /\ summary'.json \in {summary.json, Torn, Summary}
<1>1. summary = [json |-> summary.json, markdown |-> summary.markdown]
  BY DEF LInv, TypeOK
<1>2. CASE summary' = summary BY <1>1, <1>2
<1>3. CASE summary' = [summary EXCEPT !.json = Torn]
  <2>1. summary' = [json |-> Torn, markdown |-> summary.markdown] BY <1>1, <1>3
  <2> QED BY <2>1
<1>4. CASE \E m \in {summary.markdown, Torn} : summary' = [json |-> Summary, markdown |-> m]
  BY <1>4
<1> QED BY <1>2, <1>3, <1>4 DEF PartlySummarised

LEMMA WriteSummaryLInv == LInv /\ WriteSummary => LInv'
<1> SUFFICES ASSUME LInv, WriteSummary PROVE LInv' OBVIOUS
<1>1. phase = "summary" /\ UNCHANGED <<tree, calls>> BY DEF WriteSummary
<1>2. CASE /\ summary' = [json |-> Summary, markdown |-> Summary]
           /\ Exit(ExitCode(run.results))
  <2>1. summary'.json = Summary /\ summary'.markdown = Summary BY <1>2
  <2>2. summary' = [json |-> summary'.json, markdown |-> summary'.markdown]
    BY <1>2, <2>1
  <2> QED BY <1>1, <1>2, <2>1, <2>2, EndsLate
<1>3. CASE PartlySummarised /\ Exit("invalid")
  BY <1>1, <1>3, PartlySummarisedFacts, EndsLate
<1> QED BY <1>2, <1>3 DEF WriteSummary

LEMMA DieLInv == LInv /\ Die => LInv'
<1> SUFFICES ASSUME LInv, Die PROVE LInv' OBVIOUS
<1>1. phase # "idle" /\ Exit("killed") /\ calls' = calls BY DEF Die
<1>2. CASE phase \in Stages BY <1>2, DieInStageLInv
<1>3. CASE phase = "prepare"
  <2>1. UNCHANGED <<tree, summary>> BY <1>3 DEF Die
  <2> QED BY <1>1, <2>1, EndsEarly
<1>4. CASE phase = "summary"
  <2>1. PartlySummarised /\ tree' = tree BY <1>4 DEF Die
  <2> QED BY <1>1, <1>4, <2>1, PartlySummarisedFacts, EndsLate
<1>5. phase \in {"idle", "prepare", "summary"} \cup Stages BY DEF LInv, TypeOK
<1> QED BY <1>1, <1>2, <1>3, <1>4, <1>5

LEMMA StutterLInv == LInv /\ UNCHANGED liveVars => LInv'
BY DEF LInv, liveVars, TypeOK, Counted, Kept, Past, Sound, Sufficient, Dated, Ahead,
       Older, This, Progress, Reached, Mine, Reported, TrueResult, Linked, Ended,
       Results, Repositories

LEMMA NextLInv == LInv /\ [LiveNext]_liveVars => LInv'
<1> SUFFICES ASSUME LInv, [LiveNext]_liveVars PROVE LInv' OBVIOUS
<1>1. CASE \E resume, own \in BOOLEAN : Call(resume, own) BY <1>1, CallLInv
<1>2. CASE Prepare BY <1>2, PrepareLInv
<1>3. CASE CheckInput BY <1>3, CheckInputLInv
<1>4. CASE Collect BY <1>4, CollectLInv
<1>5. CASE Inspect BY <1>5, InspectLInv
<1>6. CASE WriteInputs BY <1>6, WriteInputsLInv
<1>7. CASE Calibrate BY <1>7, CalibrateLInv
<1>8. CASE Simulate BY <1>8, SimulateLInv
<1>9. CASE WriteSummary BY <1>9, WriteSummaryLInv
<1>10. CASE Die BY <1>10, DieLInv
<1>11. CASE UNCHANGED liveVars BY <1>11, StutterLInv
<1> QED
  BY <1>1, <1>2, <1>3, <1>4, <1>5, <1>6, <1>7, <1>8, <1>9, <1>10, <1>11 DEF LiveNext

-----------------------------------------------------------------------------
(* Whatever call dies or raises at whatever point, every call finds, and   *)
(* leaves, the trees as the invariant has them.                            *)
THEOREM LiveInductive == LiveSpec => []LInv
BY InitLInv, NextLInv, PTL DEF LiveSpec

(* No model and no report is built upon what another call left, or from    *)
(* sources of which something is missing (process_repository of            *)
(* scripts/run_live_workflow.py).                                          *)
THEOREM OneExtractionHolds == LiveSpec => []OneExtraction
<1>1. LInv => OneExtraction BY DEF LInv, Kept, Sound, OneExtraction
<1> QED BY <1>1, LiveInductive, PTL

(* The summary of a call is true of that call, and its exit code of the    *)
(* summary (write_summary and main of scripts/run_live_workflow.py).       *)
THEOREM SummaryHolds == LiveSpec => []SummaryTrue
<1>1. LInv => SummaryTrue
  BY DEF LInv, Reported, TrueResult, Mine, SummaryTrue
<1> QED BY <1>1, LiveInductive, PTL

(***************************************************************************)
(* A component that is composed with others in Calls behaves as it does    *)
(* alone, so that what is proved of the record, of the output directory    *)
(* and of the live workflow (simulation/domain.py, artifacts.py,           *)
(* scripts/run_live_workflow.py) holds of every behaviour of Calls.        *)
(***************************************************************************)
THEOREM CalledIsAlone == Spec => MachineSpec /\ PublicationSpec /\ LiveSpec
<1>1. Init => MachineInit /\ PublicationInit /\ LiveInit BY DEF Init
<1>2. ASSUME [Next]_callsVars
      PROVE  /\ [MachineNext]_machineVars /\ [PublicationNext]_publicationVars
             /\ [LiveNext]_liveVars
  BY <1>2 DEF Next, callsVars
<1> QED BY <1>1, <1>2, PTL DEF Spec, MachineSpec, PublicationSpec, LiveSpec
================================================================================
