CONSTANTS
  h1 = h1
  Aliases = {1, 2, 3}
  Hosts = {h1}
  Stored <- MCStored
  USize = 8
  MaxFaults = 1
SPECIFICATION Spec
INVARIANTS TypeOK InSync TerminalDiscipline
PROPERTY ActsOnShown
