---------------------------- MODULE MCTimeSeries ----------------------------
\* Series whose heads are full with two samples.
EXTENDS TimeSeries, TLC

CONSTANTS cpu, disk

Unspent == [writes |-> 0, flushes |-> 0, queries |-> 0, removals |-> 0, fails |-> 0, crashes |-> 0,
             step |-> {1}, ranges |-> {<<0, 0>>}, sizes |-> {1, 2}, cutoffs |-> {3, 4}]

\* Samples that overwrite the latest, while queries read.
Overwriting == [Unspent EXCEPT !.writes = 3, !.flushes = 1, !.queries = 1, !.step = {0, 1},
                                !.ranges = {<<0, 0>>, <<3, 0>>, <<2, 3>>}]

\* Blocks that appear and go while a query reads, and what a failure leaves.
Removing    == [Unspent EXCEPT !.writes = 3, !.queries = 1, !.removals = 2, !.fails = 1, !.sizes = {2}]

\* Failures and restarts.
Failing     == [Unspent EXCEPT !.writes = 2, !.flushes = 1, !.fails = 1, !.crashes = 1]
Restarting  == [Unspent EXCEPT !.writes = 3, !.flushes = 1, !.crashes = 1, !.sizes = {2}]
Reopening   == [Unspent EXCEPT !.writes = 3, !.queries = 1, !.crashes = 1, !.step = {0, 1}]
Reading     == [Unspent EXCEPT !.writes = 2, !.queries = 1, !.removals = 1, !.crashes = 1]

AllOfThem == {Overwriting, Removing, Failing, Restarting, Reopening, Reading}

Alike == Permutations(Series)
=============================================================================
