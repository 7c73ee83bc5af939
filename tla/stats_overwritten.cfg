SPECIFICATION Spec
CONSTANTS
  MaxMessages = 2
  Total = 3
  MaxFiles = 2
  MaxFailures = 0
  CancelPoints = {"sleep"}
INVARIANT AllSaved
CHECK_DEADLOCK FALSE
