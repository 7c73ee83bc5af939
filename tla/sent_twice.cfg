SPECIFICATION Spec
CONSTANTS
  Lossy = {}
  Duplicates = {}
  NetCap = 0
  Threads = {"t1"}
  NumMessages = 2
  MaxId = 2
  Faults = {}
  UserInterrupt = FALSE
  SegmentIds = 1
  MaxCount = 4
PROPERTY NotSentTwice
CHECK_DEADLOCK FALSE
