\* A recursive download into an empty directory, and no call is refused.
CONSTANTS
  Nodes <- TreeNodes
  Root = "."
  Parent <- TreeParent
  Kind <- TreeKind
  Matches <- TopLevel
  SingleFile = "g"
  Requests <- WholeTree
  InitialLocals <- OnlyEmpty
  Concurrency = 2
  MaxAllowedWorkers = 32
  DefaultWorkers = 2
  QueuePerWorker = 1
  PbSlots = 1
  RetryBudgets = {2}
  MayFail = FALSE
SPECIFICATION Spec
INVARIANTS
  DirectoriesAsNeeded
