\* More chunks than the channel holds; no attempt, or one retry.
CONSTANTS
  Chunks = 3
  Depth = 2
  MaxRenames = 2
  RetryBudgets <- MCRetryBudgets
SPECIFICATION FairSpec
INVARIANTS
  TypeOK
  StreamAccounting
  NeverPartial
PROPERTIES
  ReplacesAtomically
  StreamEnds
