SPECIFICATION Spec
CONSTANTS
  n1 = n1
  n2 = n2
  n3 = n3
  None = None
  Node = {n1, n2, n3}
  Budgets <- ReadAfterElection
SYMMETRY Alike
INVARIANTS
  ReadsSeeFinishedWrites
CHECK_DEADLOCK FALSE
