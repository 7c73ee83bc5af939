SPECIFICATION FairSpec
CONSTANTS
  Documents <- MCDocuments
  Strings <- MCStrings
  Integer <- MCInteger
  Numerals <- MCNumerals
  IntSize = 8
  LoopLimit = 4
  MaxSections = 2
  MaxThreads = 2
  Cells = {c1, c2}
  TooLong <- MCTooLong
  Tries = 1
  Failures = TRUE
  Roles = {"client", "server"}
INVARIANTS TypeOK ConfigIsFile OnlyRepeatsLeak RightSocket OneBuffer OneThreadStarts
PROPERTY Ends
CHECK_DEADLOCK FALSE
