CONSTANTS
  p1 = p1
  p2 = p2
  p3 = p3
  NoOwner = NoOwner
  Procs <- MCProcs
  Kinds <- MCKinds
  TryKinds <- MCTruthful
SPECIFICATION Spec
INVARIANTS WordIsHeld MutualExclusion
PROPERTIES ImplementsMutex WaitersServed
