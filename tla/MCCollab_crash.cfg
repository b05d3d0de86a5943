SPECIFICATION FairSpec
CONSTANTS
  ann = ann
  bob = bob
  seedUnit = seedUnit
  annUnit = annUnit
  bobUnit = bobUnit
  None = None
  Client = {ann, bob}
  Slot = {1, 2}
  Seed <- MCSeed
  Unit <- MCUnit
  MaxEdits <- OneEach
  MaxDrops = 1
  MaxCrashes = 1
  MaxDocUnits = 9
INVARIANTS
  Promises
PROPERTIES
  KeepsLedger
  Converges
CHECK_DEADLOCK FALSE
