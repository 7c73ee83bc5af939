SPECIFICATION Spec
CONSTANTS
  InitialCapacity = 2
  MaxSegmentSize = 5
  Lengths = {1, 2, 5}
  MaxIds = 6
INVARIANTS TypeOK InBounds EveryIdOnce NoneToSpare
CHECK_DEADLOCK FALSE
