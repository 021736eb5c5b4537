SPECIFICATION Spec
CONSTANTS
  MaxTime = 3
  MaxEvents = 2
  MaxReviews = 1
  MaxLag = 1
  ReviewStates = {"APPROVED"}
  Policies = {"strict", "created_at_proxy"}
  Cutoffs = {2, 3}
  Horizons = {2}
  WeekLength = 2
  AnalysisEnd = 3
  MinWeeks = 1
  MaxRuns = 6
  Merges = {0, 1}
  MinReplications = 2
  MinMature = 1
  Tolerance = 1
  MaxReplications = 4
  Day = 3
  WeekDays = 2
  Transitions = {3, 4, 6, 7}
  Starts = {3, 4}
  MaxDays = 2
  Templates <- SomeTemplates
  MaxAdded = 1
  MaxWindows = 2
  MaxAbsences = 1
  AbsenceTimes = {4, 6}
INVARIANTS
  ReadinessTrue
  OutcomesTrueWithinLag
  EvidenceEarned
  SummaryFaithful
  VerdictEarned
  ScheduleTrue
PROPERTY BatchTrue
CHECK_DEADLOCK FALSE
