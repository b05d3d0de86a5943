SPECIFICATION Spec
CONSTANTS
  Entries = {"note", "paper"}
  Runs = {"run"}
  MaxSaves = 4
  MaxWaiting = 2
  MaxFails = 2
  MaxCrashes = 2
INVARIANTS
  AnswersHold
  SearchFindsTheCatalog
CHECK_DEADLOCK FALSE
