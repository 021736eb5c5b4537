\* Abandonment deadlines and the bypass race reviews and merges; zero delays
\* loop within one instant until the attempt limit truncates the run.
SPECIFICATION Spec
CONSTANTS
  PRs = {1, 2}
  Reviewers = {1, 2}
  Authors = {7}
  ReadyTimes = {0, 1, 5}
  ProposalFlags <- NoFlags
  Horizon = 5
  Duty <- AdjacentDuty
  Service <- ShortAndLong
  VerificationDelay = 0
  ResponseDelay = 0
  CoordinationDelay = 1
  FailOutcomes <- BothOutcomes
  FirstChange <- BothOutcomes
  RepeatChange <- BothOutcomes
  MaxVisits = 2
  MaxVerifications = 3
  AbandonAfter <- MayAbandon
  Bypass = TRUE
INVARIANTS NoRejection NoLostWakeUp NoStrayWakeUp MergeEarned DeadlineHonoured
  CompleteResult
PROPERTIES Termination
