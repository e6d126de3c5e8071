SPECIFICATION Spec
CONSTANTS
  None = None
  Jobs = {j1}
  Cids = {c1, c2}
  LastCkpt = 2
  MaxBoots = 2
  Cancels = {j1}
  PidReuse = FALSE
  Faults = {}
SYMMETRY CidSymmetry
PROPERTIES
  DrainKeepsWork
