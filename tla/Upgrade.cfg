CONSTANTS
  Aliases = {1, 2}
  Installs <- AllInstalls
  MaxFaults = 2
SPECIFICATION Spec
INVARIANTS TypeOK RegularKept
PROPERTIES NothingDestroyed UpgradedOnce
