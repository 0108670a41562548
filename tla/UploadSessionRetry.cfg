\* Two workers, one connection token, one slot.
CONSTANTS
  TotalEntries = 4
  Kind <- BatchKind
  DirOf <- BatchDirOf
  Chunks <- BatchChunks
  Concurrency = 2
  MaxAllowedWorkers = 32
  QueuePerWorker = 1
  HandshakeMax = 1
  PbSlots = 1
  RetryBudgets = {0, 2}
SPECIFICATION FairSpec
PROPERTY SessionFailureRetried
