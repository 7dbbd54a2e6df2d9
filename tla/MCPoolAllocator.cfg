CONSTANTS
  PageSize = 32
  PointerSize = 8
  NumBanks = 12
  AddressBits = 8
  ArenaPages = 2
  Requests <- MCRequests
  Kinds <- MCKinds
  MayFail <- MCMayFail
SPECIFICATION Spec
INVARIANTS
  InsideBlocks
  FreeListsSound
  NothingLeaks
PROPERTY ImplementsHeap
\* std::exit() stops the program.
CHECK_DEADLOCK FALSE
