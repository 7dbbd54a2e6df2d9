CONSTANTS
  NDB = 2
  LongBits = 12
  IntBits = 6
  Shifters = {"masked", "zero"}
  MaxAdds = 2
  Values <- MCWide
  Percents <- MCPercents
SPECIFICATION Spec
INVARIANT RangeHoldsValues
