\* One call, cut off once.
SPECIFICATION Spec
CONSTANTS
  Pulls = {1}
  Workspaces = {w1, w2}
  Identities = {i1}
  Outcomes = {"complete"}
  MaxCalls = 1
  MaxFaults = 1
INVARIANTS Recoverable
CHECK_DEADLOCK FALSE
