CONSTANTS
  NumCores = 2
  Tids <- MCTids
  MayFail = {"create"}
  MaxSamples = 2
SPECIFICATION Spec
INVARIANTS
  NoStatsShared
  ExcessNotNegative
PROPERTIES
  Ends
\* main() ends.
CHECK_DEADLOCK FALSE
