SPECIFICATION FairSpec
CONSTANTS
  Lossy = {"MSG", "HB", "ACK"}
  Duplicates = {}
  NetCap = 1
  Threads = {"t1", "t2"}
  NumMessages = 1
  MaxId = 2
  Faults = {"split"}
  UserInterrupt = FALSE
  SegmentIds = 1
  MaxCount = 4
INVARIANT SentCounted
PROPERTY Terminates
CHECK_DEADLOCK FALSE
VIEW Live
