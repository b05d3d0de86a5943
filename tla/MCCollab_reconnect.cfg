SPECIFICATION Spec
CONSTANTS
  ann = ann
  bob = bob
  seedUnit = seedUnit
  annUnit = annUnit
  bobUnit = bobUnit
  None = None
  Client = {ann, bob}
  Slot = {1, 2}
  Seed <- MCSeed
  Unit <- MCUnit
  MaxEdits <- AnnTwo
  MaxDrops = 1
  MaxCrashes = 0
  MaxDocUnits = 3
INVARIANTS
  ClientShowsItsRevision
  WithinLimit
PROPERTIES
  OnlyRejectionForcesReload
  NothingGivenUp
CHECK_DEADLOCK FALSE
