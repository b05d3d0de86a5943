SPECIFICATION FairSpec
CONSTANTS
  maxImpacts = 2
  maxPrunedTerms = 3
  compactMinDead = 1
  compactDeadRatio = 1
  Queries <- SomeQueries
  Limits <- OneOrTwo
  Budgets <- AllOfThem
INVARIANTS
  IndexIsSound
  SearchIsExact
  RestartBringsBack
  AckedOnMajority
PROPERTIES
  SearchEnds
CHECK_DEADLOCK FALSE
