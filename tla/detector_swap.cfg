SPECIFICATION Spec
CONSTANTS
  Threads = {"t1"}
  Mean = 1
  Deviation = 1
  Least = 1
  Missed = {0, 2}
  MaxTime = 5
  MaxAdjusts = 1
PROPERTY SwapFindsOldState
CHECK_DEADLOCK FALSE
