CONSTANTS
  Aliases = {1, 2}
  Installs <- DbPath
  MaxFaults = 0
SPECIFICATION Spec
INVARIANT UpgradeKeepsServers
