SPECIFICATION Spec
CONSTANTS
  s1 = s1
  s2 = s2
  Arms = {"treatment", "control"}
  ArmOf <- SomeArms
  Batches <- SomeBatches
  Version = 1
  Window = 2
  Lateness = 1
  ExpireEvery = 2
  SnapshotEvery = 2
  MaxHistory = 1
  MaxLags = 2
  MaxDeliveries = 4
  MaxChanges = 4
  MaxCrashes = 1
  MaxFails = 1
  Residues = {"nothing"}
  Reexposed = FALSE
INVARIANTS
  ReplayRebuilds
  AttributionIsByEventTime
  ConclusionStands
CHECK_DEADLOCK FALSE
