CONSTANTS
  NumProcesses = 3
  NumLoops = 2
  Kinds <- MCKinds
  MayFail = {"map", "fork"}
  LeftOver <- MCLeftOver
SPECIFICATION Spec
INVARIANTS
  TurnInv
  NoOrphanedLock
  MissingTurn
  CounterBound
  ParentReturnsLast
PROPERTIES
  HealthyLockStays
  TakesTurns
  TargetEndsRun
