\* Three jobs, two goroutines, power loss at any point.
SPECIFICATION Spec
CONSTANTS
  Jobs = {j1, j2, j3}
  Callers = {g1, g2}
  Targets = {"running", "cancelled"}
  Epochs = {1}
  Limit = 1
  None = None
  MaxClock = 3
  MaxEvents = 3
SYMMETRY StoreSymmetry
INVARIANTS
  
  AcknowledgedIsDurable
  TimesAreOrdered
  ViewIsExplained
  ListingIsComplete
CHECK_DEADLOCK FALSE
