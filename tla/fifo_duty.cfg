\* Reviews paused and resumed across duty intervals, changes requested,
\* measured from the middle of the run.
SPECIFICATION MeasuredSpec
CONSTANTS
  PRs = {1, 2}
  Reviewers = {1, 2}
  Authors = {1, 7}
  ReadyTimes = {0, 1, 5, 6}
  ProposalFlags <- NoFlags
  Horizon = 7
  Duty <- SplitDuty
  Service <- ShortAndLong
  VerificationDelay = 1
  ResponseDelay = 0
  CoordinationDelay = 1
  FailOutcomes <- BothOutcomes
  FirstChange <- BothOutcomes
  RepeatChange <- BothOutcomes
  MaxVisits = 2
  MaxVerifications = 3
  AbandonAfter <- MayAbandonOnce
  Bypass = FALSE
  WindowStart = 4
  FixedHorizon = 2
INVARIANTS TypeOK ReviewOwnership NoOvershoot WorkConserving FirstReviewsFifo
  LimitationSound FlowConserved IntegralsTrue AccountsExact
PROPERTIES NoHandover ServiceWithinDuty
