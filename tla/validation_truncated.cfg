SPECIFICATION ValidationSpec
CONSTANTS
  MinReplications = 2
  MinMature = 1
  Tolerance = 1
  MaxReplications = 3
INVARIANT TruncationBarsPass
CHECK_DEADLOCK FALSE
