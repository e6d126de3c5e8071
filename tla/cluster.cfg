SPECIFICATION Spec
CONSTANTS
  None = None
  Controllers = {"A", "B"}
  Jobs = {j1}
  Cids = {c1, c2}
  LastCkpt = 1
  Faults = {"worker"}
  BootsA = 2
SYMMETRY CidSymmetry
INVARIANTS
  SharedRecordsBacked
  SharedCompletedIsFinal
  SharedResumeFindsState
  LaunchesAreExclusive
PROPERTY
  SharedTerminalIsFinal
CHECK_DEADLOCK FALSE
