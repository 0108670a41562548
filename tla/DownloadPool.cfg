\* Two workers, one slot, every call may be refused.
CONSTANTS
  Nodes <- TreeNodes
  Root = "."
  Parent <- TreeParent
  Kind <- TreeKind
  Matches <- TopLevel
  SingleFile = "g"
  Requests <- MCRequests
  InitialLocals <- Targets
  Concurrency = 2
  MaxAllowedWorkers = 32
  DefaultWorkers = 2
  QueuePerWorker = 1
  PbSlots = 1
  RetryBudgets = {0, 2}
  MayFail = TRUE
SPECIFICATION FairSpec
INVARIANTS
  TypeOK
  SlotDiscipline
  EachEntryOnce
  NoSilentLoss
  OnlyUnreadSkipped
  DeadSessionBound
  ReturnsAfterWorkers
PROPERTIES
  Termination
