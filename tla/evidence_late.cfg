SPECIFICATION FeaturesSpec
CONSTANTS
  MaxTime = 3
  MaxEvents = 1
  MaxReviews = 1
  MaxLag = 1
  ReviewStates = {"APPROVED"}
  Policies = {"strict"}
  Cutoffs = {3}
  Horizons = {2}
  WeekLength = 2
  AnalysisEnd = 3
  MinWeeks = 1
INVARIANT DecidedOutcomesTrue
CHECK_DEADLOCK FALSE
