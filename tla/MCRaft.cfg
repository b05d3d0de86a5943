SPECIFICATION Spec
CONSTANTS
  n1 = n1
  n2 = n2
  n3 = n3
  None = None
  Node = {n1, n2, n3}
  Budgets <- AllOfThem
SYMMETRY Alike
VIEW Relevant
INVARIANTS
  ElectionSafety
  HeldByMajority
  LogsAgree
  ReadsInOfficeSeeFinishedWrites
PROPERTIES
  KeepsLedger
CHECK_DEADLOCK FALSE
