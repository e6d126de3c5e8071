SPECIFICATION FairElection
CONSTANTS
  Controllers = {c1, c2}
  None = None
  LeaseTTL = 7
  RefreshEvery = 2
  PollEvery = 1
  IOTimeout = 2
  Faults = {}
  MaxFaults = 3
INVARIANTS
  ElectionTypeOK
  
  

  
  
