-------------------------------- MODULE Evidence --------------------------------
(***************************************************************************)
(* The commands that make and judge evidence, each of them started from    *)
(* what is on disk: a cohort is collected, its features built and a model  *)
(* calibrated (Features); an experiment is simulated and summarised        *)
(* (Experiment), over the spans, duty and proposals of Schedule; a held-out *)
(* interval is replayed, judged and reported (Validation).  They share no  *)
(* state: one of them is under way.                                        *)
(***************************************************************************)
EXTENDS Features, Experiment, Validation, Schedule

evidenceVars == <<featuresVars, experimentVars, validationVars, scheduleVars>>

(* The components that do not run.                                         *)
NoFeatures == CohortIdle /\ features = Nothing /\ model = Nothing

NoSchedule ==
  zone \in {CHOOSE z \in Zones : TRUE} /\ span = <<0, 0>> /\ reviewer = Raised /\ demand = Raised

Init ==
  \/ FeaturesInit /\ ExperimentInit(NoExperiment) /\ ValidationInit(NoRequest) /\ NoSchedule
  \/ /\ NoFeatures /\ ValidationInit(NoRequest) /\ NoSchedule
     /\ \E e \in Shapes : ExperimentInit(e)
  \/ /\ NoFeatures /\ ExperimentInit(NoExperiment) /\ NoSchedule
     /\ \E r \in Requests : Possible(r) /\ ValidationInit(r)
  \/ /\ NoFeatures /\ ExperimentInit(NoExperiment) /\ ValidationInit(NoRequest)
     /\ \E z \in Zones : ScheduleInit(z)

Next ==
  \/ FeaturesNext /\ UNCHANGED <<experimentVars, validationVars, scheduleVars>>
  \/ ExperimentNext /\ UNCHANGED <<featuresVars, validationVars, scheduleVars>>
  \/ ValidationNext /\ UNCHANGED <<featuresVars, experimentVars, scheduleVars>>
  \/ ScheduleNext /\ UNCHANGED <<featuresVars, experimentVars, validationVars>>

Spec == Init /\ [][Next]_evidenceVars
=============================================================================
