SPECIFICATION FairSpec
CONSTANTS
  MaxMessages = 3
  Total = 7
  MaxFiles = 4
  MaxFailures = 2
  CancelPoints = {"sleep"}
INVARIANTS TypeOK ClearedWereWritten SmallRunSaved
PROPERTY MainFinishes
CHECK_DEADLOCK FALSE
