SPECIFICATION Spec
CONSTANTS
  Lossy = {}
  Duplicates = {}
  NetCap = 0
  Threads = {"t1", "t2"}
  NumMessages = 1
  MaxId = 2
  Faults = {}
  UserInterrupt = FALSE
  SegmentIds = 1
  MaxCount = 4
INVARIANT ServerLeavesLast
CHECK_DEADLOCK FALSE
