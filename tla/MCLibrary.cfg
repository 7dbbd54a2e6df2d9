CONSTANTS
  Parts <- MCParts
  Width = 12
  Mantissa = 6
  Last = 512
  Resolutions <- MCResolutions
  NDB = 2
  LongBits = 12
  IntBits = 6
  Shifters = {"masked"}
  MaxAdds = 4
  Values <- MCValues
  Percents <- MCPercents
  Chars = {" ", ",", "a"}
  SeparatorSets <- MCSeparatorSets
  Sizes = {0, 2, 3}
  MaxText = 5
  Containers <- MCContainers
  Keys = {k1, k2, k3, k4, k5}
  Contents = {0, 1}
  Default = 0
  Indices = 4
  Addends <- MCAddends
  MaxTotal = 400
  NumBins = 4
  Least = 10
  Greatest = 50
  Samples <- MCSamples
  MaxSamples = 4
  AskedPercents <- MCAskedPercents
  MayFailCalls <- MCMayFailCalls
  MaxOccurrences = 4
  EventNames <- MCEventNames
  Labels = {1, 2}
  ItemCounts = {1}
  Iterations = {0, 2}
  Sections <- MCSections
  MaxStops = 4
  Dependents = {"cycles", "pagefaults"}
  Aics = {1, 2}
  ClockBits = 9
  CoreOffsets <- MCCoreOffsets
  StartTime = 20
  Gaps = {1, 11}
  WaitTicks = 24
  MaxMigrations = 2
SPECIFICATION LibrarySpec
INVARIANTS
  RangeHoldsNumber
  FloatAgrees
  PercentileAccurate
  PercentileMonotone
  FieldsOfText
  EveryCombinationOnce
  ValuesFollowKeys
  SumAccurate
  PercentileOfRank
  BestIsLeast
  PausesAreReal
PROPERTIES
  BinsAreContiguous
  StopInSection
CHECK_DEADLOCK FALSE
