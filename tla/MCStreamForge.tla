---------------------------- MODULE MCStreamForge ---------------------------
\* Two uploads, two workers, and either more faults or a job that is created anew.
EXTENDS StreamForge

Budget(failing, replayed, created) == [faults |-> failing, replays |-> replayed, anew |-> created]
SomeBudgets == {Budget(3, 1, 0), Budget(1, 0, 1)}
=============================================================================
