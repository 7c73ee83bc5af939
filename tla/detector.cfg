SPECIFICATION FairSpec
CONSTANTS
  Threads = {"t1", "t2"}
  Mean = 1
  Deviation = 0
  Least = 1
  Missed = {21}
  MaxTime = 3
  MaxAdjusts = 1
INVARIANTS TypeOK WildOnlyAfterRace
PROPERTY BeatEnds
CHECK_DEADLOCK FALSE
