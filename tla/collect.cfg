\* Three calls with two workspaces, two identities and up to two faults.
SPECIFICATION Spec
CONSTANTS
  Pulls = {1, 2}
  Workspaces = {w1, w2}
  Identities = {i1, i2}
  Outcomes = {"complete", "unavailable"}
  MaxCalls = 3
  MaxFaults = 2
INVARIANTS WholeOrMarked ExitHonest Retryable
PROPERTIES KeepsPromise
CHECK_DEADLOCK FALSE
