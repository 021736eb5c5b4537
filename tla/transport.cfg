\* Two collections against a server that answers anything.
SPECIFICATION Spec
CONSTANTS
  Urls = {1, 2, 3}
  PageSizes = {0, 2}
  Delays = {2, 4}
  Jitters = {1}
  Minute = 2
  MaxCalls = 2
  MaxRequests = 5
  MaxPages = 3
  MaxRecords = 5
  MaxRetries = 1
  MaxWait = 3
INVARIANTS ResultHonest RetryBudget
PROPERTIES NoPageTwice NeverEarly Returns
CHECK_DEADLOCK FALSE
