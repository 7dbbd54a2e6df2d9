CONSTANTS
  NumEvents = 2
  Procs <- MCProcs
  Main = 0
  MayFail = {"open", "id", "reset", "enable", "disable", "read"}
  Ids <- MCIds
  MaxTicks = 2
  MaxSections = 2
SPECIFICATION Spec
INVARIANTS
  SamplesCover
  NeverAnothers
  ClosesItsOwn
  QuietBetween
