SPECIFICATION Spec
CONSTANTS
  Lossy = {"MSG", "HB", "STOP", "ACK"}
  Duplicates = {"ACK", "HB"}
  NetCap = 2
  Threads = {"t1"}
  NumMessages = 2
  MaxId = 2
  Faults = {}
  UserInterrupt = FALSE
  SegmentIds = 1
  MaxCount = 4
INVARIANTS TypeOK NoSilentDrop MissedIsResent CopiesBound ServerLeavesLast
PROPERTY KeepsPromise
CHECK_DEADLOCK FALSE
