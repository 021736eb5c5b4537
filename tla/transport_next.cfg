\* A collection after one that ended with a deadline still ahead.
SPECIFICATION Spec
CONSTANTS
  Urls = {1}
  PageSizes = {1, 3}
  Delays = {2}
  Jitters = {0}
  Minute = 2
  MaxCalls = 2
  MaxRequests = 3
  MaxPages = 2
  MaxRecords = 2
  MaxRetries = 1
  MaxWait = 3
PROPERTIES DeadlinesHonoured
CHECK_DEADLOCK FALSE
