\* A rename that is refused deletes the target; the download then fails.
CONSTANTS
  Chunks = 1
  Depth = 1
  MaxRenames = 2
  RetryBudgets <- MCRetryBudgets
SPECIFICATION FairSpec
PROPERTIES
  FailureKeepsTarget
