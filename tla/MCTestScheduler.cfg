CONSTANTS
  Kinds <- MCKinds
  MaxClass = 4
  NumItems = 3
  NumLoops = 2
  NumClasses = 4
SPECIFICATION Spec
INVARIANTS
  WorkConserved
  PendingBound
PROPERTIES
  ImplementsAgenda
  Ends
\* The test ends.
CHECK_DEADLOCK FALSE
