------------------------------ MODULE JobTable ------------------------------
(***************************************************************************)
(* What a durable job queue promises (src/docs/components/media.md,        *)
(* "Failure behavior"): a job is worked on by one worker at a time, only   *)
(* the worker whose lease runs decides its fate, failures end in a dead    *)
(* letter, and a restart undoes no change its caller was told of.          *)
(***************************************************************************)
EXTENDS Naturals

CONSTANTS
  Ids, Workers, NoWorker,
  MaxAttempts    \* a job that failed this many times is dead

VARIABLES
  table,      \* table[id]: the job, or NoJob
  live,       \* the jobs whose lease runs
  promised    \* promised[id]: what a restart may find, its last told state and later ones

NoJob == [state |-> "none", attempts |-> 0, owner |-> NoWorker]
Row(state, attempts, owner) == [state |-> state, attempts |-> attempts, owner |-> owner]

Init ==
  /\ table = [id \in Ids |-> NoJob]
  /\ live = {}
  /\ promised = [id \in Ids |-> {NoJob}]

Leased(t) == {id \in Ids : t[id].state = "leased"}

\* Job id becomes row, and its caller may be told so, and all others of theirs anew.
Done(id, row) ==
  /\ table' = [table EXCEPT ![id] = row]
  /\ \/ promised' = [promised EXCEPT ![id] = {row}]
     \/ promised' = [promised EXCEPT ![id] = @ \union {row}]
     \/ promised' = [i \in Ids |-> {table'[i]}]

\* The tables a restart may find.
Found(p) == {t \in [Ids -> UNION {p[i] : i \in Ids}] : \A i \in Ids : t[i] \in p[i]}

\* A restart comes first: nobody is told, and the job may have become row or not.
Interrupted(id, row) ==
  /\ promised' = [promised EXCEPT ![id] = @ \union {row}]
  /\ table' \in Found(promised')
  /\ live' \in SUBSET Leased(table')

Become(id, row, running) == Interrupted(id, row) \/ (Done(id, row) /\ live' = running)

\* Under a new key an upload that has a job gets it anew.
Create(id) == Become(id, Row("queued", 0, NoWorker), live \ {id})

\* The creation could not be recorded and is taken back, and with it the job the
\* upload had; a restart may find any of the three.
CreateFails(id) ==
  /\ table' = [table EXCEPT ![id] = NoJob]
  /\ live' = live \ {id}
  /\ promised' = [promised EXCEPT ![id] = @ \union {NoJob, Row("queued", 0, NoWorker)}]

Lease(id, w) ==
  /\ table[id].state = "queued" \/ (table[id].state = "leased" /\ id \notin live)
  /\ Become(id, Row("leased", table[id].attempts + 1, w), live \union {id})

Holds(id, w) == id \in live /\ table[id].state = "leased" /\ table[id].owner = w

Heartbeat(id, w) == Holds(id, w) /\ Become(id, table[id], live)

Complete(id, w) ==
  /\ Holds(id, w)
  /\ Become(id, Row("completed", table[id].attempts, NoWorker), live \ {id})

Fail(id, w) ==
  /\ Holds(id, w)
  /\ LET state == IF table[id].attempts >= MaxAttempts THEN "dead" ELSE "queued"
     IN  Become(id, Row(state, table[id].attempts, NoWorker), live \ {id})

ReplayDead(id) ==
  /\ table[id].state = "dead"
  /\ Become(id, Row("queued", 0, NoWorker), live)

\* Time passes: leases run out, and run again when the clock is set back.
Clock ==
  /\ live' \in SUBSET Leased(table)
  /\ UNCHANGED <<table, promised>>

\* The queue stops, or is up again and all it found is settled.
Restart ==
  /\ table' \in Found(promised)
  /\ promised' \in {promised, [id \in Ids |-> {table'[id]}]}
  /\ live' \in SUBSET Leased(table')

Next ==
  \/ \E id \in Ids : Create(id) \/ CreateFails(id) \/ ReplayDead(id)
  \/ \E id \in Ids, w \in Workers : Lease(id, w) \/ Heartbeat(id, w) \/ Complete(id, w) \/ Fail(id, w)
  \/ Clock \/ Restart

Spec == Init /\ [][Next]_<<table, live, promised>>
=============================================================================
