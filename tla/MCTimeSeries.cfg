SPECIFICATION Spec
CONSTANTS
  cpu = cpu
  disk = disk
  Series = {cpu, disk}
  BlockSize = 2
  Budgets <- AllOfThem
SYMMETRY Alike
INVARIANTS
  AckedIsKept
  QueriesSeeWhatWasAcked
CHECK_DEADLOCK FALSE
