------------------------------- MODULE MCRaft -------------------------------
\* Three nodes, interchangeable.
EXTENDS Raft, TLC

CONSTANTS n1, n2, n3

Nothing == [elections |-> 0, beats |-> 0, writes |-> 0, waiting |-> 0, crashes |-> 0,
            faults |-> 0, reads |-> 0, snapshots |-> 0]

\* A crash and a snapshot about two elections; two proposals that wait at once.
Crashing    == [Nothing EXCEPT !.elections = 2, !.writes = 2, !.waiting = 1, !.crashes = 1, !.snapshots = 1]
Waiting     == [Nothing EXCEPT !.elections = 2, !.writes = 2, !.waiting = 2]

\* Logs in conflict, to be overwritten.
Overwriting == [Nothing EXCEPT !.elections = 3, !.writes = 2, !.waiting = 1]

\* A read under two leaders, and a heartbeat that tells of a commit.
Reading     == [Nothing EXCEPT !.elections = 2, !.writes = 2, !.waiting = 1, !.reads = 1]
Beating     == [Nothing EXCEPT !.elections = 2, !.beats = 1, !.writes = 1, !.waiting = 1]

AllOfThem == {Crashing, Waiting, Overwriting, Reading, Beating}

\* The least in which a new leader serves a read.
ReadAfterElection == {[Nothing EXCEPT !.elections = 2, !.writes = 1, !.waiting = 1, !.reads = 1]}

Alike == Permutations(Node)

\* A message whose handling changes nothing any more, now or later, while disks
\* work: a request or a refusal of a term that is over, or a request nobody waits for
\* that brings what its receiver has.
Stale(m) ==
  LET term == meta[m.to].term
  IN  CASE m.type = "vote" -> m.term < term /\ votes[m.from].term # m.term
        [] m.type = "voted" -> ~m.granted /\ m.term <= term
        [] m.type = "append" ->
             \/ m.term < term /\ ~Awaited(m)
             \/ /\ ~Awaited(m)
                /\ m.term = term /\ node[m.to].role = "follower"
                /\ m.commit <= meta[m.to].commit
                /\ m.prev + Len(m.entries) <= Len(file[m.to])
                /\ \A i \in DOMAIN m.entries : file[m.to][m.prev + i].term = m.entries[i].term
                /\ TermAt(file[m.to], m.prev) = m.prevTerm
        [] m.type = "appended" ->
             m.call.k = "write" /\ ~m.success /\ m.term <= term /\ m.call.term # term

\* States that differ in such messages alone count as one.
Relevant == <<volatile, {m \in net : ~Stale(m)}, durable, history, budget, used>>
=============================================================================
