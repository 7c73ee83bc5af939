SPECIFICATION FairSpec
CONSTANTS
  MaxMessages = 2
  Total = 2
  MaxFiles = 2
  MaxFailures = 0
  CancelPoints = {"sleep", "open", "write"}
PROPERTY MainFinishes
CHECK_DEADLOCK FALSE
