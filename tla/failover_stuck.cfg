SPECIFICATION FairSpec
CONSTANTS
  None = None
  Controllers = {"A", "B"}
  Jobs = {j1}
  Cids = {c1, c2}
  LastCkpt = 1
  Faults = {}
  BootsA = 2
PROPERTY
  FailoverPicksUp
CHECK_DEADLOCK FALSE
