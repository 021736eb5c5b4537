\* A record on a clock of five instants; three writes, each failing,
\* interrupted or killed anywhere; two live calls over two repositories.
SPECIFICATION Spec
CONSTANTS
  MaxTime = 4
  MaxRevision = 3
  MaxService = 1
  Writers = {"experiment", "rewrite", "fresh"}
  MaxWrites = 3
  MaxFailures <- FailuresPerCall
  Interruptible = {"experiment", "fresh"}
  N = 2
  Collections <- SomeCollections
  MaxCalls = 2
  MaxKills = 1
INVARIANTS
  ContractKept
  OneVisitPerRevision
  FailureRestores
  OneExtraction
  SummaryTrue
PROPERTIES KeepsPromise
CHECK_DEADLOCK FALSE
