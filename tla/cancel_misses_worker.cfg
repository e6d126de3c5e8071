SPECIFICATION Spec
CONSTANTS
  None = None
  Jobs = {j1}
  Cids = {c1}
  LastCkpt = 2
  MaxBoots = 1
  Cancels = {j1}
  PidReuse = FALSE
  Faults = {}
INVARIANTS
  CancelStopsWorker
