------------------------------ MODULE JobQueue ------------------------------
(***************************************************************************)
(* StreamForge's queue (src/internal/video/queue.go, index.go): jobs in    *)
(* memory, an index of those that can be leased, and on disk a snapshot    *)
(* beside a journal.  Every call runs under the queue's lock and is one    *)
(* action; a write to disk may fail, or be the last thing the process      *)
(* does.  Anyone may call anything at any time, so late and repeated       *)
(* answers of workers are included.                                        *)
(***************************************************************************)
EXTENDS Integers, Sequences, FiniteSets, Functions

CONSTANTS
  Ids,            \* upload ids, which jobs take over: numbers, as they break ties of age
  Workers, NoWorker,
  Keys, NoKey,    \* idempotency keys
  MaxAttempts, CompactMin, LeaseTime, BaseDelay,
  Budgets,        \* bound: how many changes, faults (failed writes and crashes) and
                  \* clock setbacks, and up to what time; initially one is chosen
  LateLoss        \* bound: may the power fail while the last rename is unsynced, though the
                  \* change was answered with ok or the queue was opened again since?

ASSUME JobQueueAssumption ==
  /\ Ids \subseteq Nat \ {0}
  /\ NoWorker \notin Workers /\ NoKey \notin Keys
  /\ MaxAttempts \in Nat \ {0} /\ CompactMin \in Nat /\ LeaseTime \in Nat \ {0} /\ BaseDelay \in Nat

VARIABLES
  running,    \* the process runs and has its journal open
  jobs,       \* id -> job
  keys,       \* idempotency key -> id
  index,      \* the lease index
  seq,        \* number of the last change
  size,       \* lines of the journal that are known to be durable
  due,        \* snapshotDue: the next change must write a snapshot
  snap,       \* the snapshot at the queue's path
  older,      \* snapshots a power loss may bring back: the directory was not synced since
  journal,    \* the lines of the journal
  now,        \* the clock
  left,       \* what is left of the budget
  promised,   \* history: promised[id], see JobTable
  undone      \* history: the uploads that lost a job to a creation that failed

memory == <<jobs, keys, index, seq, size, due>>
disk   == <<snap, older, journal>>
vars   == <<running, memory, disk, now, left, promised, undone>>

Without(f, x) == Restrict(f, DOMAIN f \ {x})
With(f, x, v) == [y \in DOMAIN f \union {x} |-> IF y = x THEN v ELSE f[y]]
Larger(a, b) == IF a > b THEN a ELSE b
Empty == [x \in {} |-> 0]

-----------------------------------------------------------------------------
(* The lease index: an entry is ready, or waits for the time it is due.     *)

Leasable(job) == job.state \in {"queued", "leased"}
DueAt(job) == IF job.state = "queued" THEN job.next ELSE job.until

\* Mutant: a job with an entry keeps it as it is.
Update_OnlyNew(ix, id, job) ==
  IF ~Leasable(job) THEN [ix EXCEPT !.entries = Without(@, id)]
  ELSE IF id \in DOMAIN ix.entries THEN ix
  ELSE [ix EXCEPT !.entries = With(@, id, [created |-> job.created, due |-> DueAt(job), ready |-> DueAt(job) <= ix.now])]

Update(ix, id, job) ==
  IF Leasable(job)
    THEN [ix EXCEPT !.entries = With(@, id, [created |-> job.created, due |-> DueAt(job), ready |-> DueAt(job) <= ix.now])]
    ELSE [ix EXCEPT !.entries = Without(@, id)]

\* Lease order: the oldest first, then the smallest id.
First(entries, S) ==
  CHOOSE x \in S : \A y \in S \ {x} :
    entries[x].created < entries[y].created \/ (entries[x].created = entries[y].created /\ x < y)

\* The entries whose time has come move to ready; then the first of ready is
\* given out, but one that is not due (the clock went back) waits again.
Look(ix, t) ==
  LET ready == {x \in DOMAIN ix.entries : ix.entries[x].ready \/ ix.entries[x].due <= t}
      fit   == {x \in ready : ix.entries[x].due <= t}
      found == IF fit = {} THEN 0 ELSE First(ix.entries, fit)
      back  == {x \in ready \ fit : found = 0 \/ First(ix.entries, {x, found}) = x}
  IN  [id |-> found,
       index |-> [now |-> t,
                  entries |-> [x \in DOMAIN ix.entries |-> [ix.entries[x] EXCEPT !.ready = x \in ready \ back]]]]

NewIndex == [now |-> 0, entries |-> Empty]
Rebuilt(js) == [now |-> 0, entries |-> [id \in {x \in DOMAIN js : Leasable(js[x])} |->
                  [created |-> js[id].created, due |-> DueAt(js[id]), ready |-> DueAt(js[id]) <= 0]]]

-----------------------------------------------------------------------------
(* Disk.                                                                    *)

NoSnapshot == [jobs |-> Empty, keys |-> Empty, seq |-> 0]
Line(n, id, job, key) == [seq |-> n, id |-> id, job |-> job, key |-> key]

\* An incomplete or damaged line of the journal.
Torn == [torn |-> TRUE]

\* The lines a replay reads: all, but for a last one that is torn.
Whole(lines) ==
  IF lines # <<>> /\ lines[Len(lines)] = Torn THEN SubSeq(lines, 1, Len(lines) - 1) ELSE lines
Readable(lines) == \A i \in DOMAIN Whole(lines) : lines[i] # Torn

\* The lines to apply to a snapshot, and those of them that are about a job or a key;
\* a snapshot without number is of a release that kept no journal, or is none.
Newer(s, lines)     == IF s.seq = 0 THEN {} ELSE {i \in DOMAIN Whole(lines) : lines[i].seq > s.seq}
OfJob(s, lines, id) == {i \in Newer(s, lines) : lines[i].id = id}
OfKey(s, lines, k)  == {i \in Newer(s, lines) : lines[i].key = k}

Latest(S) == CHOOSE i \in S : \A j \in S : j <= i

\* What opening the queue makes of a snapshot and a journal.
Recover(s, lines) ==
  [jobs |-> [id \in DOMAIN s.jobs \union {lines[i].id : i \in Newer(s, lines)} |->
               IF OfJob(s, lines, id) = {} THEN s.jobs[id] ELSE lines[Latest(OfJob(s, lines, id))].job],
   keys |-> [k \in DOMAIN s.keys \union ({lines[i].key : i \in Newer(s, lines)} \ {NoKey}) |->
               IF OfKey(s, lines, k) = {} THEN s.keys[k] ELSE lines[Latest(OfKey(s, lines, k))].id],
   seq  |-> IF Newer(s, lines) = {} THEN s.seq ELSE Larger(s.seq, lines[Latest(Newer(s, lines))].seq)]

Outcome(s, old, lines, n, d, reply) ==
  [snap |-> s, older |-> old, journal |-> lines, size |-> n, due |-> d, reply |-> reply]

Failed(tail, d) ==
  {Outcome(snap, older, SubSeq(journal, 1, size) \o tail, size, d, reply) : reply \in {"error", "crash"}}

\* Mutant: after a failed append the journal is used as before.
AppendOutcomes_NotDue(line) ==
  {Outcome(snap, older, Append(journal, line), size + 1, due, "ok")} \union
  Failed(<<>>, due) \union Failed(<<Torn>>, due) \union Failed(<<line>>, due)

\* An append that fails may leave nothing, a part or all of its line behind, as the
\* truncation may fail too.
AppendOutcomes(line) ==
  {Outcome(snap, older, Append(journal, line), size + 1, due, "ok")} \union
  Failed(<<>>, TRUE) \union Failed(<<Torn>>, TRUE) \union Failed(<<line>>, TRUE)

\* Mutant: the journal is emptied though the directory could not be synced.
Renamed_Eager(new) ==
  {Outcome(new, old, <<>>, 0, FALSE, reply) : old \in {{}, older \union {snap}}, reply \in {"ok", "crash"}}

\* The new snapshot is in place; then the directory is synced, then the journal emptied.
\* A directory that cannot be synced is answered with ok as well (see LateLoss).
Renamed(new) ==
  {Outcome(new, older \union {snap}, journal, size, TRUE, reply) :
     reply \in IF LateLoss THEN {"ok", "crash"} ELSE {"crash"}} \union
  {Outcome(new, {}, journal, size, TRUE, reply) : reply \in {"ok", "crash"}} \union
  {Outcome(new, {}, <<>>, 0, FALSE, reply) : reply \in {"ok", "crash"}}

SnapshotOutcomes(new) ==
  Renamed(new) \union {Outcome(snap, older, journal, size, TRUE, reply) : reply \in {"error", "crash"}}

Outcomes(js, ks, line) ==
  IF due \/ size >= Larger(CompactMin, Cardinality(DOMAIN js))
    THEN SnapshotOutcomes([jobs |-> js, keys |-> ks, seq |-> line.seq])
    ELSE AppendOutcomes(line)

-----------------------------------------------------------------------------
(* A change: memory, index and disk.                                        *)

Job(state, attempts, owner, until, next, created, key) ==
  [state |-> state, attempts |-> attempts, owner |-> owner, until |-> until, next |-> next,
   created |-> created, key |-> key]

RowOf(job) == [state |-> job.state, attempts |-> job.attempts, owner |-> job.owner]
NoJob == [state |-> "none", attempts |-> 0, owner |-> NoWorker]
Rows(js) == [id \in Ids |-> IF id \in DOMAIN js THEN RowOf(js[id]) ELSE NoJob]

\* What may be found after a restart, now that id became job with that outcome: what the
\* caller was told is durable is all that may be found of id.
PromisedBy(o, js, id) ==
  IF o.reply # "ok" THEN [promised EXCEPT ![id] = @ \union {RowOf(js[id])}]
  ELSE IF o.journal = <<>> THEN [i \in Ids |-> {Rows(js)[i]}]
  ELSE [promised EXCEPT ![id] = {RowOf(js[id])}]

Faulty(o) == o.reply # "ok" \/ o.due

Spend(o) ==
  /\ left.changes > 0
  /\ Faulty(o) => left.faults > 0
  /\ left' = [left EXCEPT !.changes = @ - 1, !.faults = IF Faulty(o) THEN @ - 1 ELSE @]

Lost ==
  /\ running' = FALSE
  /\ jobs' = Empty /\ keys' = Empty /\ index' = NewIndex /\ seq' = 0 /\ size' = 0 /\ due' = FALSE

\* A creation that fails takes its key and its job back, a job the upload had included.
TakenBack(id, reply, key) == reply = "error" /\ key # NoKey /\ id \in DOMAIN jobs

\* The keys after a creation that failed.
KeysUndone(ks, key) == Without(ks, key)

\* Job id, as found through index ix, becomes job; with key it is a new one.
Commit(ix, id, job, key) ==
  LET js == With(jobs, id, job)
      ks == IF key = NoKey THEN keys ELSE With(keys, key, id)
  IN  \E o \in Outcomes(js, ks, Line(seq + 1, id, job, key)) :
        /\ Spend(o)
        /\ snap' = o.snap /\ older' = o.older /\ journal' = o.journal
        /\ promised' = IF o.reply = "error" /\ key # NoKey
                         THEN [PromisedBy(o, js, id) EXCEPT ![id] = @ \union {NoJob}]
                         ELSE PromisedBy(o, js, id)
        /\ undone' = IF TakenBack(id, o.reply, key) THEN undone \union {id} ELSE undone
        /\ IF o.reply = "crash" THEN Lost
           ELSE /\ seq' = seq + 1 /\ size' = o.size /\ due' = o.due
                /\ IF o.reply = "error" /\ key # NoKey
                     THEN /\ jobs' = Without(js, id) /\ keys' = KeysUndone(ks, key)
                          /\ index' = [ix EXCEPT !.entries = Without(@, id)]
                     ELSE /\ jobs' = js /\ keys' = ks
                          /\ index' = Update(ix, id, job)
                /\ UNCHANGED running
        /\ UNCHANGED now

-----------------------------------------------------------------------------
(* The calls.                                                               *)

\* A completed upload becomes a job, also one that has a job, unless the key of the
\* request has one.
Create(id, key) ==
  /\ running /\ key \notin DOMAIN keys
  /\ Commit(index, id, Job("queued", 0, NoWorker, 0, 0, now, key), key)

Lease(w) ==
  /\ running
  /\ LET l == Look(index, now)
     IN  /\ l.id # 0
         /\ Commit(l.index, l.id,
                   [jobs[l.id] EXCEPT !.state = "leased", !.attempts = @ + 1, !.owner = w, !.until = now + LeaseTime],
                   NoKey)

\* Nothing can be leased now: the index alone learns the time.
LeaseNothing ==
  /\ running
  /\ LET l == Look(index, now) IN l.id = 0 /\ index' = l.index
  /\ index' # index
  /\ UNCHANGED <<running, jobs, keys, seq, size, due, disk, now, left, promised, undone>>

\* Mutant: whose lease it was may answer even when it ran out.
Owns_Expired(id, w) ==
  id \in DOMAIN jobs /\ jobs[id].state = "leased" /\ jobs[id].owner = w

Owns(id, w) ==
  id \in DOMAIN jobs /\ jobs[id].state = "leased" /\ jobs[id].owner = w /\ jobs[id].until > now

Heartbeat(id, w) ==
  /\ running /\ Owns(id, w)
  /\ Commit(index, id, [jobs[id] EXCEPT !.until = now + LeaseTime], NoKey)

Complete(id, w) ==
  /\ running /\ Owns(id, w)
  /\ Commit(index, id, [jobs[id] EXCEPT !.state = "completed", !.owner = NoWorker, !.until = 0], NoKey)

\* Back-off doubles with every attempt but the first, ten times at most.
Factor == <<1, 2, 4, 8, 16, 32, 64, 128, 256, 512, 1024>>
BackOff(attempts) == BaseDelay * Factor[IF attempts > 11 THEN 11 ELSE attempts]

Fail(id, w) ==
  /\ running /\ Owns(id, w)
  /\ LET job == [jobs[id] EXCEPT !.owner = NoWorker, !.until = 0]
     IN  Commit(index, id,
                IF job.attempts >= MaxAttempts THEN [job EXCEPT !.state = "dead"]
                ELSE [job EXCEPT !.state = "queued", !.next = now + BackOff(job.attempts)],
                NoKey)

ReplayDead(id) ==
  /\ running /\ id \in DOMAIN jobs /\ jobs[id].state = "dead"
  /\ Commit(index, id, [jobs[id] EXCEPT !.state = "queued", !.attempts = 0, !.next = 0], NoKey)

Tick ==
  /\ running /\ left.time > 0
  /\ now' = now + 1 /\ left' = [left EXCEPT !.time = @ - 1]
  /\ UNCHANGED <<running, memory, disk, promised, undone>>

SetBack ==
  /\ running /\ left.setbacks > 0 /\ now > 1
  /\ now' = now - 1 /\ left' = [left EXCEPT !.setbacks = @ - 1]
  /\ UNCHANGED <<running, memory, disk, promised, undone>>

\* The process ends, by Close or at any moment.
Crash ==
  /\ running /\ left.faults > 0
  /\ left' = [left EXCEPT !.faults = @ - 1]
  /\ Lost
  /\ UNCHANGED <<disk, now, promised, undone>>

\* The power fails, and a rename that was not synced may be lost.
LosePower ==
  /\ ~running
  /\ snap' \in older /\ older' = {}
  /\ UNCHANGED <<running, memory, journal, now, left, promised, undone>>

\* Without a snapshot the journal is stale; a torn last line is dropped.
OpenedJournal == IF snap.seq = 0 THEN <<>> ELSE Whole(journal)

OpenQueue ==
  /\ ~running /\ (snap.seq = 0 \/ Readable(journal))
  /\ running' = TRUE
  /\ LET got == Recover(snap, journal)
     IN  /\ jobs' = got.jobs /\ keys' = got.keys /\ seq' = got.seq
         /\ index' = Rebuilt(got.jobs)
         /\ promised' = [id \in Ids |-> {Rows(got.jobs)[id]}]
  /\ journal' = OpenedJournal /\ size' = Len(OpenedJournal)
  /\ due' = (snap.seq = 0)
  /\ older' = IF LateLoss THEN older ELSE {}
  /\ UNCHANGED <<snap, now, left, undone>>

Init ==
  /\ running = FALSE
  /\ jobs = Empty /\ keys = Empty /\ index = NewIndex /\ seq = 0 /\ size = 0 /\ due = FALSE
  /\ snap = NoSnapshot /\ older = {} /\ journal = <<>>
  /\ now = 1
  /\ left \in Budgets
  /\ promised = [id \in Ids |-> {NoJob}] /\ undone = {}

Next ==
  \/ \E id \in Ids, key \in Keys : Create(id, key)
  \/ \E id \in Ids : ReplayDead(id)
  \/ \E w \in Workers : Lease(w)
  \/ \E id \in Ids, w \in Workers : Heartbeat(id, w) \/ Complete(id, w) \/ Fail(id, w)
  \/ LeaseNothing \/ Tick \/ SetBack \/ Crash \/ LosePower \/ OpenQueue

Spec == Init /\ [][Next]_vars

-----------------------------------------------------------------------------
(* Properties.                                                              *)

Jobs ==
  {job \in [state : {"queued", "leased", "completed", "dead"}, attempts : Nat,
            owner : Workers \union {NoWorker}, until : Nat, next : Nat, created : Nat, key : Keys] :
     IF job.state = "leased" THEN job.attempts > 0 ELSE job.owner = NoWorker}
Lines == [seq : Nat, id : Ids, job : Jobs, key : Keys \union {NoKey}]

AreJobs(js) == DOMAIN js \subseteq Ids /\ js \in [DOMAIN js -> Jobs]
AreKeys(ks) == DOMAIN ks \subseteq Keys /\ ks \in [DOMAIN ks -> Ids]
IsSnapshot(s) ==
  s = [jobs |-> s.jobs, keys |-> s.keys, seq |-> s.seq] /\ AreJobs(s.jobs) /\ AreKeys(s.keys) /\ s.seq \in Nat
IsIndex(ix) ==
  /\ ix = [now |-> ix.now, entries |-> ix.entries]
  /\ ix.entries \in [DOMAIN ix.entries -> [created : Nat, due : Nat, ready : BOOLEAN]]

Snapshots == {snap} \union older

TypeOK ==
  /\ running \in BOOLEAN /\ due \in BOOLEAN
  /\ seq \in Nat /\ size \in Nat /\ now \in Nat
  /\ undone \subseteq Ids
  /\ AreJobs(jobs) /\ AreKeys(keys)
  /\ IsIndex(index)
  /\ \A s \in Snapshots : IsSnapshot(s)
  /\ journal \in Seq(Lines \union {Torn})
  /\ promised \in [Ids -> SUBSET [state : {"none", "queued", "leased", "completed", "dead"}, attempts : Nat,
                                  owner : Workers \union {NoWorker}]]

\* A queue can always be opened: only the last line of its journal is ever torn, for
\* after a failed append nothing is appended until the journal was emptied.
CanOpen == Readable(journal)

\* Changes are numbered in their order, also across restarts, and the lines that
\* replay may apply follow a snapshot.
ChangesAreInOrder ==
  /\ \A i, j \in DOMAIN Whole(journal) : i < j => journal[i].seq < journal[j].seq
  /\ \A s \in older : s.seq <= snap.seq
  /\ running =>
       /\ snap.seq <= seq /\ (snap.seq = 0 => due)
       /\ \A i \in DOMAIN Whole(journal) : journal[i].seq <= seq
       /\ ~due => Whole(journal) = journal /\ size = Len(journal)

\* A key in memory is on disk with its upload, so that a caller who was told of a job is
\* never given another by a restart (docs/components/media.md, "repeating an idempotency
\* key returns one job").
KeysAreOnDisk ==
  running => \A k \in DOMAIN keys :
    LET got == Recover(snap, journal) IN k \in DOMAIN got.keys /\ got.keys[k] = keys[k]

\* Memory is what a restart would find, keys included, and the queue can be opened, unless
\* the queue knows that a snapshot is due (the comment of snapshotDue): no failure leaves
\* the two apart unnoticed.
MemoryIsOnDisk ==
  /\ TypeOK /\ CanOpen /\ ChangesAreInOrder /\ KeysAreOnDisk
  /\ running /\ ~due =>
       LET got == Recover(snap, journal) IN got.jobs = jobs /\ got.keys = keys /\ got.seq = seq

\* Every job is found by the key of its creation.
JobsHaveKeys(js, ks) == \A id \in DOMAIN js : js[id].key \in DOMAIN ks /\ ks[js[id].key] = id

\* Every key leads to a job, unless a failed creation under another key took it away.
KeysHaveJobs(js, ks) == \A k \in DOMAIN ks : ks[k] \in DOMAIN js \union undone

AsTold(js, ks) ==
  /\ JobsHaveKeys(js, ks) /\ KeysHaveJobs(js, ks)
  /\ \A id \in Ids : Rows(js)[id] \in promised[id]

\* A crash, and a loss of power that brings back a snapshot older than the newest, find
\* every job as its last caller was told or later (comment in snapshotLocked: "a crash
\* could lose both files' changes"), and jobs and keys that lead to each other.
KeepsPromises ==
  /\ \A s \in Snapshots : LET got == Recover(s, journal) IN AsTold(got.jobs, got.keys)
  /\ running => AsTold(jobs, keys)
  /\ running /\ ~due => older = {}

\* The index has an entry for each job that can be leased, now or once it is due.
Follows(ix, js) ==
  /\ DOMAIN ix.entries = {id \in DOMAIN js : Leasable(js[id])}
  /\ \A id \in DOMAIN ix.entries : ix.entries[id].created = js[id].created /\ ix.entries[id].due = DueAt(js[id])

\* The lease index gives out what a scan of the jobs would: the oldest job that is queued
\* past its next attempt or leased past its lease, whatever time it is asked for, the past
\* included.
IndexAgreesWithScan ==
  /\ Follows(index, jobs)
  /\ \A t \in 0..now + LeaseTime :
       LET open == {id \in DOMAIN jobs : Leasable(jobs[id]) /\ DueAt(jobs[id]) <= t}
       IN  Look(index, t).id = IF open = {} THEN 0 ELSE First(jobs, open)

\* The jobs as they are, or as a restart will find them.
Current == IF running THEN jobs ELSE Recover(snap, journal).jobs
Live    == {id \in DOMAIN Current : Current[id].state = "leased" /\ Current[id].until > now}

\* The queue is a durable job table: see JobTable.
Table == INSTANCE JobTable WITH
  table <- Rows(Current), live <- Live, promised <- promised
ImplementsTable == Table!Spec
=============================================================================
