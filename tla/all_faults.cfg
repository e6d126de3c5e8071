SPECIFICATION Spec
CONSTANTS
  None = None
  Jobs = {j1}
  Cids = {c1, c2}
  LastCkpt = 2
  MaxBoots = 2
  Cancels = {j1}
  PidReuse = TRUE
  Faults = {"run", "ps", "logs", "eof", "inspect", "stop", "record", "abort", "worker", "reaper", "scan"}
SYMMETRY CidSymmetry
INVARIANTS
  TypeOK
  Inv
  CheckpointBacked
  CompletedIsFinal
  ResumeFindsState
  VerdictMatchesRecord
PROPERTIES
  ImplementsContract
  TerminalIsFinal
