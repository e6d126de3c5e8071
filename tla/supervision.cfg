SPECIFICATION Spec
CONSTANTS
  None = None
  Jobs = {j1, j2}
  Cids = {c1, c2, c3}
  LastCkpt = 1
  MaxBoots = 2
  Cancels = {}
  PidReuse = FALSE
  Faults = {"run", "ps", "stop", "worker", "reaper"}
SYMMETRY Symmetry
INVARIANTS
  RunningIsSupervised
  OwnContainersAreTracked
  
CHECK_DEADLOCK FALSE
