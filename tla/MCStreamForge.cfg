SPECIFICATION Spec
CONSTANTS
  NoWorker = NoWorker
  Nothing = Nothing
  Ids = {1, 2}
  Workers = {w1, w2}
  MaxAttempts = 2
  Renditions = {"360p", "720p"}
  FileSize = 2
  Budgets <- SomeBudgets
  Pauses = FALSE
  LateChunks = FALSE
INVARIANTS
  OneWorkerPerJob
  OutputsAreWhole
PROPERTIES
  EveryJobEnds
CHECK_DEADLOCK FALSE
