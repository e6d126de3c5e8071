SPECIFICATION FairSpec
CONSTANTS
  None = None
  Writers = {w1, w2}
  Inodes = {1, 2, 3, 4}
  Words <- MCWords
  Hole <- MCHole
  Bufs <- MCBufs
  Cuts = {5}
  PowerCuts = TRUE
  MaxLosses = 1
  Root = 8
  RecentCap = 2
  DictSize = 8
  CellA <- MCCellA
  CellB <- MCCellB
  WordAt <- MCWordAt
  Types = {"primes", "matmul", "wordcount"}
  Limit <- MCLimit
  Every <- MCEvery
INVARIANTS
  OnTrajectory
  StateFileInv
  
  
  RecordedIsReadable
  ReadersAgree
  TrialIsExact
PROPERTIES
  FileIsAtomic
  WorkersEnd
CHECK_DEADLOCK FALSE
