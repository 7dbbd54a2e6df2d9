CONSTANTS
  NumProcesses = 3
  NumLoops = 3
  Kinds <- MCKinds
  MayFail = {"map", "fork"}
  LeftOver <- MCLeftOver
SPECIFICATION Spec
INVARIANT LocksExclude
