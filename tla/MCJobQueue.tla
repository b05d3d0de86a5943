----------------------------- MODULE MCJobQueue -----------------------------
\* Two uploads that may be completed with any of two keys, again and again.
EXTENDS JobQueue, TLC

CONSTANTS k1, k2, w1, w2

Budget(changes, faults, setbacks, time) ==
  [changes |-> changes, faults |-> faults, setbacks |-> setbacks, time |-> time]
SomeBudgets == {Budget(5, 2, 0, 2), Budget(5, 1, 1, 3), Budget(7, 0, 0, 2)}

Alike == Permutations({k1, k2}) \union Permutations({w1, w2})
=============================================================================
