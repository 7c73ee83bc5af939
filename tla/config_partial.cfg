SPECIFICATION Spec
CONSTANTS
  Documents <- MCDocuments
  Strings <- MCStrings
  Integer <- MCInteger
  Numerals <- MCNumerals
  IntSize = 8
  LoopLimit = 4
  MaxSections = 2
  MaxThreads = 2
  Cells = {c1, c2}
  TooLong <- MCTooLong
  Tries = 1
  Failures = FALSE
  Roles = {"client", "server"}
INVARIANT ReadWhole
CHECK_DEADLOCK FALSE
