SPECIFICATION FairSpec
CONSTANTS
  None = None
  Jobs = {j1}
  Cids = {c1, c2, c3}
  LastCkpt = 1
  MaxBoots = 3
  Cancels = {j1}
  PidReuse = FALSE
  Faults = {"worker", "abort", "stop"}
INVARIANTS
  RunningIsSupervised
  
  
PROPERTIES
  StartedJobsEnd
  DrainEnds
