SPECIFICATION FeaturesSpec
CONSTANTS
  MaxTime = 3
  MaxEvents = 0
  MaxReviews = 1
  MaxLag = 0
  ReviewStates = {"APPROVED"}
  Policies = {"created_at_proxy"}
  Cutoffs = {3}
  Horizons = {2}
  WeekLength = 2
  AnalysisEnd = 3
  MinWeeks = 1
INVARIANT SubmissionsDecide
CHECK_DEADLOCK FALSE
