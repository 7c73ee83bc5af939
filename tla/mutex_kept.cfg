SPECIFICATION Spec
CONSTANTS
  Lossy = {"MSG", "HB", "STOP", "ACK"}
  Duplicates = {}
  NetCap = 2
  Threads = {"t1"}
  NumMessages = 1
  MaxId = 1
  Faults = {"create"}
  UserInterrupt = FALSE
  SegmentIds = 1
  MaxCount = 2
INVARIANT BusyMeansResponder
CHECK_DEADLOCK FALSE
