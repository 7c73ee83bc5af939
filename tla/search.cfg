SPECIFICATION FairSpec
CONSTANTS
  Modulus = 16
  Values = {0, 1, 3, 6, 9, 13, 15}
  MaxSize = 4
INVARIANTS TypeOK ReadsInBounds ScanOnlyForMissing Answer RemovesOnlyIt
PROPERTY Returns
CHECK_DEADLOCK FALSE
