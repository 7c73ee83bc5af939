SPECIFICATION Spec
CONSTANTS
  InitialCapacity = 2
  MaxSegmentSize = 5
  Lengths = {1, 2, 5}
  MaxIds = 6
INVARIANT FreedOnce
CHECK_DEADLOCK FALSE
