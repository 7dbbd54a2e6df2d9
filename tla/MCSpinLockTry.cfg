\* A process that has taken the word without being told never unlocks it, so that
\* all of the others may wait for ever: that is no deadlock of the model.
CONSTANTS
  p1 = p1
  p2 = p2
  p3 = p3
  NoOwner = NoOwner
  Procs <- MCProcs
  Kinds <- MCNegated
  TryKinds <- MCNegated
SPECIFICATION Spec
INVARIANT MutualExclusion
CHECK_DEADLOCK FALSE
