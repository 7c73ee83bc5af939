SPECIFICATION Spec
CONSTANTS
  Lossy = {"MSG", "HB", "STOP", "ACK"}
  Duplicates = {}
  NetCap = 1
  Threads = {t1, t2}
  NumMessages = 1
  MaxId = 2
  Faults = {"create", "marshal", "send", "resend", "split", "segment"}
  UserInterrupt = TRUE
  SegmentIds = 1
  MaxCount = 4
  t1 = t1
  t2 = t2
SYMMETRY Symmetry
INVARIANTS Sorted AckTruthful DropsCounted
CHECK_DEADLOCK FALSE
