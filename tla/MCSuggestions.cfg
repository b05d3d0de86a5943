SPECIFICATION FairSpec
CONSTANTS
  Seed <- TwoUnits
  PerHour = 2
  Concurrent = 2
  Hour = 1
  MaxDocUnits = 4
  Budgets <- AllOfThem
INVARIANTS
  PendingStandsOnWhatWasRead
  DecisionsStand
  ViewAgrees
  WithinBudget
PROPERTIES
  EveryRunEnds
CHECK_DEADLOCK FALSE
