SPECIFICATION Spec
CONSTANTS
  k1 = k1
  k2 = k2
  w1 = w1
  w2 = w2
  NoKey = NoKey
  NoWorker = NoWorker
  Ids = {1, 2}
  Workers = {w1, w2}
  Keys = {k1, k2}
  MaxAttempts = 2
  CompactMin = 2
  LeaseTime = 2
  BaseDelay = 1
  LateLoss = FALSE
  Budgets <- SomeBudgets
SYMMETRY Alike
INVARIANTS
  MemoryIsOnDisk
  KeepsPromises
  IndexAgreesWithScan
PROPERTIES
  ImplementsTable
CHECK_DEADLOCK FALSE
