CONSTANTS
  NumEvents = 1
  Procs <- MCPair
  Main = 0
  MayFail = {}
  Ids <- MCIds
  MaxTicks = 2
  MaxSections = 1
SPECIFICATION Spec
INVARIANT SectionNotCut
