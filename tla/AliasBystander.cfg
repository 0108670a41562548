CONSTANTS
  p1 = p1
  p2 = p2
  h1 = h1
  h2 = h2
  Processes = {p1, p2}
  Aliases = {1, 2, 3}
  Hosts = {h1, h2}
  Stored <- MCStored
  MaxChanges = 1
  MaxFaults = 0
SYMMETRY MCSymmetry
SPECIFICATION Spec
INVARIANT BystanderSurvives
