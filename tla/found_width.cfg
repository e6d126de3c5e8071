SPECIFICATION Spec
CONSTANTS
  None = None
  Writers = {w1}
  Inodes = {1, 2, 3, 4}
  Words <- MCWords
  Hole <- MCHole
  Bufs <- MCBufs
  Cuts = {5}
  PowerCuts = TRUE
  MaxLosses = 1
  Root = 8
  RecentCap = 2
  DictSize = 8
  CellA <- MCCellLarge
  CellB <- MCCellB
  WordAt <- MCWordAt
  Types = {"matmul"}
  Limit <- MCLimit
  Every <- MCEvery
INVARIANT
  PrintedIsRecorded
