CONSTANTS
  w1 = w1
  w2 = w2
  Names <- MCNames
  Local <- MCLocal
  Unlisted <- MCUnlisted
  Size <- MCSize
  Requests <- MCRequests
  RemoteTrees <- MCRemoteTrees
  Workers = {w1, w2}
  MaxRetries = 2
  MaxAttempts = 2
  MaxFaults = 2
  MaxRuns = 2
SYMMETRY MCSymmetry
SPECIFICATION Spec
INVARIANTS TypeOK Delivered RacesHarmless OthersUntouched RefusedLeavesRemote
