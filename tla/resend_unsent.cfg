SPECIFICATION Spec
CONSTANTS
  Lossy = {"MSG", "HB", "STOP", "ACK"}
  Duplicates = {}
  NetCap = 2
  Threads = {"t1"}
  NumMessages = 1
  MaxId = 1
  Faults = {"marshal"}
  UserInterrupt = FALSE
  SegmentIds = 1
  MaxCount = 2
INVARIANT NoSilentDrop
CHECK_DEADLOCK FALSE
