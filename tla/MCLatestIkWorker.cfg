\* The worker thread and the control thread, with a jump limit.
SPECIFICATION Spec
CONSTANTS
  None = None
  Configs = {0, 1, 2}
  MaxJump = 2
  MaxCandidates = 2
  MaxSubmits = 3
INVARIANTS
  TypeOK
  RequestsAccounted
PROPERTIES
  NoBranchJump
  ImplementsLatestIk
  WorkerProgress
CHECK_DEADLOCK FALSE
