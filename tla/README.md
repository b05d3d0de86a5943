# A formal model of Atlas

Atlas (`cmd/atlas`, `internal/atlas`) is one program built from several
components that also run on their own: live documents, search, a video job
queue, a time series store and an experiments engine. `engineering-labs/` adds
a Raft key-value store and a Kafka consumer. This directory holds TLA+ modules
for the parts whose correctness depends on the order of events, the
configurations TLC checks them with, and proofs for TLAPS.

    tlc -workers 2 -config MCCollab_crash.cfg MCCollab     one run
    tlapm JobQueueProofs.tla                               a proof (or CatalogProofs, CollabProofs, ImpactProofs,
                                                           RaftProofs, SearchClusterProofs, StreamForgeProofs, SuggestionsProofs)

`PROJECT.json` says which definition models which lines, lists the runs, and
gives each property a mutated definition that breaks it.

## Inventory

### Live Docs (`internal/collab`, `internal/atlas/ui/collab.js`, `ui/ot.js`)

Many people type in one document. Parts and state:

- *Operations* (`ot.go`): sequences of retain, delete and insert with a base
  length and a target length. Built with a canonical form; applied, composed,
  transformed against a concurrent operation; carets and ranges are moved
  through them; a check refuses to cut a surrogate pair.
- *Document actor* (`session.go`, `state.go`): one goroutine per document. It
  keeps the text, the history of operations, the ids it has seen, the
  connections. It drains its inbox into a batch (`loop`), handles each message
  in memory, appends the batch's records with one fsync (`run`), and only then
  sends replies and broadcasts. If the append fails the session is dropped, and
  the next access rebuilds it from the log.
- *Operation log* (`oplog.go`): one JSON record per line; a torn last line is
  cut off, a failed append is truncated away if that succeeds.
- *Client* (`collab.js`): one operation in flight, later edits composed in a
  buffer, a revision. It reconnects with its revision and receives what it
  missed, or the whole text if it lost its place.
- *Suggestions and agents* (`state.go`, `agent.go`): ranges anchored in the
  text, proposals that become stale when the range is touched, one agent run per
  conversation, a rolling budget.
- *Store* (`store.go`): documents in a directory, sockets, shutdown.

Correct when: every client ends on the same text; an acknowledged edit is never
lost; an edit is never applied twice; nothing is said before it is durable; a
lost connection costs nobody their pending edits; a stale suggestion is never
applied. Hard: reconnects that overlap the old connection, group commit,
failed appends, transforms against a composed buffer.

### quorum-kv (`engineering-labs/quorum-kv`)

A Raft node: term, vote, log, commit index, a key-value state machine; a log file and a metadata file. Election, vote and append handlers, proposals,
heartbeats, linearizable reads, restart. Correct when: one leader per term, logs
that agree, committed entries that stay, reads that see every finished write.
Hard: persistence errors (several are ignored), rewrites that fail halfway,
restarts, concurrent proposals that finish out of order.

### StreamForge (`internal/video`)

- *Queue* (`queue.go`, `index.go`): jobs with a state, attempts, an owner and
  the end of its lease; the upload keys that were turned into jobs; heaps of jobs
  that are ready and that wait. One lock. Every change is a line of a journal,
  synced before memory keeps it, or a whole snapshot when one is due.
- *Uploads* (`store.go`, `http.go`): `id.part` grows by chunks at an offset the
  client is told; completing it renames it to `id/source` and creates the job,
  unless the key of the request has one.
- *Workers* (`worker.go`, `transcode.go`): lease, send heartbeats, run ffmpeg
  into a directory of work, write the playlist, rename into place, report.

Correct when: a job has one worker at a time, every job ends, what is published
is whole, replay gives the state that was acknowledged. Hard: leases that run
out under a live worker, a journal that fails, a crash between snapshot and
journal, a clock that goes back.

### Atlas Search (`internal/search`)

- *Index* (`index.go`, `snapshot.go`): a slot per stored version, postings,
  document frequencies, bounds for pruning; tombstones, compaction, snapshots.
- *Node* (`http.go`, `wal.go`): a log and the index, with a lock each and none
  over both. A start replays the log.
- *Coordinator* (`http.go`): writes to all replicas of a shard and answers by
  majority; asks one replica and hedges with the next.

Correct when: a query gets exactly the best documents though most are skipped, a
restart serves what was served, what was acknowledged is on a majority, a search
does not fail while a replica could answer. Hard: bounds that outlive documents,
renumbering, overlapping writes of one document, replicas that hang.

### Impact (`internal/experiments`, `internal/atlas/impact.go`)

One event log of configurations and batches; in memory the event ids seen, the
open windows of subjects, aggregates by arm, a history. A batch is logged, then
applied; replay applies it again with the times it was received. A completed
experiment's conclusion is indexed in the catalog. Correct when: replay
rebuilds exactly what was live, a retry counts once, attribution follows event
time and not arrival, a conclusion stands. Hard: late and reordered events
around expiry, a log line cut short.

### Chronos (`internal/tsdb`), catalog (`internal/atlas`), Pulse (`engineering-labs/pulse-analytics`)

- *Chronos*: samples by series in a head in memory and in a log. A full head
  becomes a block, a file named after its first and last time; a flush does this for
  all series and empties the log. Queries merge blocks and head, the last
  sample of a time wins; retention removes blocks. Correct when: an acknowledged
  sample is in memory or a block, and in the log or a block; a query sees it whatever
  moves meanwhile.
- *Catalog*: entries and runs in memory and in one file, entries also in the
  search log and in the index, one after the other. Correct when: what was
  answered holds, and search finds what the catalog has, after a restart too.
- *Pulse*: window aggregates in memory, offsets committed to Kafka.

Hard in all of them: what a crash or a failed write between two of these steps
leaves, and whether replay agrees with what was live.

## Plan

| order | modules | subject | state |
|---|---|---|---|
| 1 | `OT`, `OTBuilder` | operations | done |
| 2 | `Collab`, `PromisedLog` | actor, log, network, clients; the promise they implement | done |
| 3 | `CollabProofs` | the actor's promises | done |
| 4 | `Raft` | elections, replication, reads, restarts; implements `PromisedLog` | done |
| 5 | `Suggestions` | anchors, stale proposals, agents, the budget; uses `OT` | done |
| 6 | `JobTable`, `JobQueue` | what a durable queue promises; journal, snapshots and leases that implement it | done |
| 7 | `StreamForge` | uploads and workers on a `JobTable` | done |
| 8 | `Impact` | events, windows, replay | done |
| 9 | `SearchIndex`, `SearchCluster` | the index; nodes and the coordinator | done |
| 10 | `TimeSeries` | head, blocks, queries, retention, replay | done |
| 11 | `Catalog`, `CatalogProofs` | entries in three places | done |
| 12 | `JobQueueProofs` | every property of `JobQueue`, its refinement of `JobTable` included, for every number of jobs and workers | done |
| 13 | `RaftProofs` | every property of `Raft`, its refinement of `PromisedLog` included, for every cluster whose disks work | done |
| 14 | `OpLog` | the log file under failing writes; implements the durable prefix `Collab` and `Suggestions` assume | planned |
| 15 | `Pulse` | windows and committed offsets | planned |
| 16 | `StreamForgeProofs`, `SearchClusterProofs` | one worker a job and whole outputs; writes on a majority, and what a restart brings back | done |
| 17 | `SuggestionsProofs` | decisions stand; agents stay within their budget; a viewer shows what is open; what can be accepted stands on what was read | done |
| 18 | `ImpactProofs` | a replay rebuilds what was ingested; a conclusion stands | done |
| 19 | `TimeSeriesProofs` | what was acknowledged is kept and found | planned |

## What is modelled

### `OT`: operations

A text is a sequence of units; an operation is a sequence of `Keep`, `Drop` and
`Ins(u)`, one per unit. The code's run-length components are the maximal runs of
these, so its rule that neighbours merge and that an insert goes before an
adjacent delete becomes a rule on the order of units (`Insert`, `Canon`).
`Apply`, `Compose`, `Transform`, `MapPos`, `MapRange` and `CheckText` follow
`ot.go`; recursion is by recursive functions. `OTBuilder` builds two operations
step by step from two texts, the way callers do, so every reachable state is a
pair of operations the program can have.

### `Collab`: one document, its clients and the network

| state | code |
|---|---|
| `hist` | `docState.history`, from which text, revision and `opIDs` follow |
| `disk` | the records in the log file |
| `out` | `batch.after`: what will be said on each connection |
| `alive` | the session is not dead |
| `phase[k]` | the server's end of a connection: unused, accepted, joined, rejected, closed |
| `up`, `down` | what travels on a connection |
| `cl`, `sock` | a `CollabClient` and the socket it listens to |
| `acked` | history variable: the operations clients were told are committed |

| action | code |
|---|---|
| `Handle(k)` | `session.handle`: `handleHello`, `handleOp` with duplicates, `catchUp`, limit, `commit`, `afterOp`, or `reject` |
| `Flush` | the end of `session.run`: one append, then the deliveries |
| `Fail`, `Reopen` | a failed append or a crash, leaving any part of the batch; `Store.openSession` |
| `HangUp(k)` | the reader of a connection ends (`serveSocket`) |
| `Receive(c)` | `CollabClient.receive`: `init`, `op`, `ack`, `error` |
| `ApplyLocal(c)` | `applyLocal`, with `fromDiff` giving the operation |
| `Abandon(c)`, `Connect(c)` | `abandon`/`onclose`, and `connect` |

A batch may hold any number of handled messages, because `Flush` may come at
any time. A connection keeps what was sent in order and loses the rest when it
ends; the server can go on reading what a client sent before leaving. The limit
on transform work (`errTooStale`), epochs (a document deleted and recreated
under its id), carets and presence are left out; texts in this module hold no
surrogate pairs, which the run of `OTBuilder` has.

### `Raft`: the nodes of quorum-kv, their disks and the network

| state | code |
|---|---|
| `node[n]` | role, term, vote, log, commit index of `Node`; `applied` is the machine, as the commands it applied |
| `votes[n]` | the election `startElection` waits for |
| `calls`, `reads` | `Propose` and `LinearizableGet` calls that wait for a majority |
| `net` | requests and replies under way; one that is never taken is a lost one |
| `file`, `meta`, `snap` | `raft.wal`, `raft.json`, `snapshot.json` |
| `chosen`, `acked`, `elected` | history variables: committed commands, acknowledged ones, elections won |

| action | code |
|---|---|
| `StartElection`, `CountVote` | `startElection` up to its loop, and one turn of the loop |
| `HandleRequestVote`, `HandleAppendEntries` | the handlers, under the lock |
| `Propose`, `Replicate`, `Replicated` | `Propose` up to its wait; a goroutine's request; its response, a retry, or the end of the call (`Finish`) |
| `Heartbeat`, `StartRead`, `ReadConfirmed` | `heartbeatLoop`; `quorumHeartbeat` and the read after it |
| `Crash`, `Restart`, `Snapshot` | the process ends; `NewNode`; `Snapshot` |

What the code does between two acquisitions of the lock is one action. A call
that times out is one whose replies are never taken; its caller then cancels
what is left of it, so a finished call's other requests stay in the network but
are not retried. A disk write can fail (`Breaks`): `SaveMetadata`'s error is
ignored by everyone but `Propose`, `Rewrite`'s leaves the file as it was, and
`Append`'s leaves nothing, part of a line or all of it. Keys, values, TTL and
scans are functions of the commands applied and are left out, and so is the size
of a value. A cluster has at least two nodes: a single one waits for nobody.

### `PromisedLog`: what users are promised

A sequence of named entries that only grows, each name once, and a set of entries
somebody was told of, which only grows and stays within the sequence. `Collab`
implements it (the log file without its template, and `acked`), and so does
`Raft` (`chosen` and `acked`), each as its `KeepsLedger`.

### `Suggestions`: agents at work in a document

| state | code |
|---|---|
| `doc` | `docState`: text, the author of each unit, operations, suggestions |
| `log`, `durable` | the records appended, and how many of them are on disk |
| `after`, `replies` | `batch.after`: what will be sent to the viewer, and to the callers of `ask` |
| `shown` | `session.runs`: where the agents at work are shown |
| `runs` | the calls of `Store.Invoke`, each at a point of its loop |
| `started`, `running` | `budget` |
| `wire`, `view` | a viewer's connection, and the suggestions and agents it shows |

| action | code |
|---|---|
| `Edit` | `handleOp`, of any operation on the current text (`Collab` has what comes before) |
| `Join`, `Receive` | `handleHello`; `receive` and `advance` of `collab.js` |
| `HandleResolve(i)` | `handleResolve`: accept, reject or dismiss |
| `Invoke` | `Store.Invoke` up to its first question: `budget.acquire` |
| `BeginRead`, `Propose`, `EndRun` | the questions a run asks the actor |
| `Think` | `agent.Run` and its outcomes: an error, nothing, a draft |
| `AskFails` | `ask` on a session that died |
| `Release` | `budget.release` |
| `Flush`, `Fail`, `Crash`, `Reopen` | the end of a batch; a failed append; the process ends; `openSession` |

The language model is external: it may fail, decline, or draft a replacement, a
deletion or an insertion. What it reads around its range, and what it writes, are
left out.

### `JobTable`, `JobQueue`: the queue

`JobTable` is the promise: for each job its state, whether its lease runs, and
`promised`, the states a restart may find (the one its last caller was told of,
or a later one). An upload that has a job may get it anew (`Create`), and a creation
that cannot be recorded takes the job away (`CreateFails`): that is what the code
does when an upload is completed under another key. `JobQueue` is the code:

| state | code |
|---|---|
| `jobs`, `keys`, `seq` | `Queue.jobs`, `Queue.keys`, `Queue.seq` |
| `index` | the heaps of `index.go`: for each job its age, when it is due, and whether it is in `ready` |
| `size`, `due` | the lines of the journal known to be good, and `snapshotDue` |
| `snap`, `older` | the snapshot file, and those a loss of power may bring back while the directory is not synced |
| `journal` | the journal's lines |
| `promised`, `undone` | history variables: what callers were told of each job; uploads that lost a job to a creation that failed |

`Create`, `Lease`, `Heartbeat`, `Complete`, `Fail` and `ReplayDead` are the
methods of those names, each with its write (`Commit`): an append or, when one is
due or the journal is long, a snapshot. A write may succeed, fail leaving
nothing, a part or all of its line, or be the last thing the process does; a
snapshot may stop after the rename, before or after the directory is synced, and
before the journal is emptied. `Create` takes any upload with any key and, as the code,
looks only whether that key has a job: an upload that has one gets it anew, and
if the write fails that job goes with the key (`TakenBack`). Whoever is answered
with ok was told that the change is durable (`PromisedBy`). `Crash` and
`OpenQueue` end and begin a process, `LosePower` brings back a snapshot
whose successor's rename was not synced; `Tick` and `SetBack` move the clock.

A rename that was not synced may be lost in three ways. A crash comes before the
sync, and the power fails before the next process opens the queue: the run has it, and
the journal still has what the snapshot lost. The directory cannot be
synced, the caller is answered with ok all the same (`snapshotLocked` ignores the error),
and the power fails: the change is lost, as it is in no journal. A crash comes
before the sync and the queue is opened again, which trusts the file it finds: what is
journalled from then on may follow a snapshot that is lost. The last two
are what `LateLoss` adds; with it `KeepsPromises` fails, and the run leaves them out.

### `StreamForge`: uploads and workers

| action | code |
|---|---|
| `PutChunk` | `ObjectStore.PutChunk`: a chunk, cut short or whole, at an offset; its answer may be lost |
| `CompleteUpload` | `completeUpload`: `ObjectStore.Finalize`, then `Queue.Create`, which makes a job, makes the upload's job anew (another key), or finds the key's job |
| `Lease`, `Report`, `ReportLost` | the worker's calls, which may be lost on either way |
| `Clear`, `Encode`, `Master`, `Remove`, `Rename`, `TranscodeFails` | the steps of `Transcode` |
| `WorkerCrash`, `QueueRestart`, `Expire` | processes end, and time passes |

The queue is `INSTANCE JobTable`: `JobQueue` implements that table, so what
holds here of the table holds of the code's queue. A worker that is at work keeps
its lease (`Keeps`), except where `Pauses` lets its process sleep. When the upload
is completed again under another key its job is queued anew, also while a worker is at
work: that worker goes on until the queue refuses a heartbeat (which may stop ffmpeg,
`TranscodeFails`) or its report, and a second one works in the same directory. `again` has
these uploads; `OneWorkerPerJob`, and `OutputsAreWhole` but for sources,
leave them out. With
`LateChunks` a repeated chunk may come after the upload was completed: the code
then starts a new `id.part`, which the next completion moves over the source; the
run leaves that out.

### `Impact`: the experiments engine

`state` is an `experiment` in memory, `wal` the lines of `events.wal`.
`ProcessBatch` is the handler of a delivery: the line is written and synced, then
`ApplyEvent` counts each event as a duplicate, rejected, late or accepted, joins
it to its subject's window, moves the watermark, adds a point to the history
every `SnapshotEvery` and expires subjects every `ExpireEvery` accepted events.
`Create` and `SetStatus` change the configuration; completing indexes the
conclusion (`conclusion`), which may fail. A process may end in the middle of a
line. Rates, intervals and recommendations are functions of the aggregate and
are left out; the hash that selects an arm is a constant.

A write that fails while the process goes on (`MaxFails`) leaves what `Residues`
says. The run has "nothing" only: with a part of a line left, the next line is
glued to it and the log can no longer be replayed; with all of it, a batch
nobody was told of counts after a restart.

### `SearchIndex`, `SearchCluster`: search

`SearchIndex` is the index as a value: `Upsert`, `Retire`, `Compact`,
`AddImpact`, pruned evaluation (`ScorePruned`) and
that of long queries (`ScoreExhaustive`), `WriteSnapshot` and `ReadSnapshot`. A cursor
is the posting of a slot, looked up (`PostingAt`): its position and its galloping seeks
(`index.go:281`) are not modelled. Documents are term
frequencies and a length. Scores are whole numbers with BM25's shape (they grow
with the frequency and shrink with the length), which is all pruning relies on;
rounding of floating point is not modelled.

`SearchCluster` has a shard's replicas. A document arrives (`Write`), is logged
(`LogWrite`) and entered (`StoreWrite`) on each, two steps with others in between; `LogFails`,
`GiveUp`, `Crash` and `Start` are failures, timeouts, and a process's end and
beginning; `AnswerWrite` counts. A search is `Ask`, `Hedge`, `Answer`, `Refuse`
and `Deadline` (`searchShard`). The hash that selects a shard, and the merge of
hits of several shards, are left out.

### `TimeSeries`: Chronos

| state | code |
|---|---|
| `head`, `wal` | `Store.head`; the lines of `samples.wal` |
| `files` | the directory of blocks, temporary files included |
| `flush` | who holds `Store.mu` to make blocks: the series to do, the step, and whether the log is emptied at the end (`Flush`) or not (`Write` with a full head) |
| `query` | a `Query` on its way: the head it copied, the names it listed and has still to read, what it has |
| `written`, `acked`, `cutoff` | history variables: samples written, those acknowledged, the latest cutoff of retention |
| `overruled` | history variable: samples whose block is read before one with an older sample of the same time |

| action | code |
|---|---|
| `Write`, `WriteFails` | `Write`; a line or the sync fails after some of the samples |
| `Flush`, `FlushEnds`, `FlushFails` | `Flush`, or the flush a `Write` began |
| `OpenTemporary`, `WriteTemporary`, `Rename` | the steps of `flushSeriesLocked` |
| `QueryHead`, `QueryList`, `QueryRead`, `QueryEnds`, `QueryOver` | `Query`: the copy under the lock, the directory, one file after the other, the answer |
| `DeleteExpired` | `DeleteExpired`, one file of it, while everything else goes on |
| `Crash`, `OpenStore` | the process ends, in the middle of a line or between the steps of a block; `OpenStore` |

A sample's value is the number of its write, so that which of two is newer is
part of it. Bits and compression of a block are left out (`encodeSamples` sorts
and keeps the last of each time). Power does not fail: the code does not sync the
directory of blocks before it empties the log.

### `Catalog`: the knowledge catalog

`Save` and `SaveFails` are `SaveEntry` and `SaveRun` with `persistLocked`, under
their lock; `LogEntry`, `LogFails` and `EnterEntry` are the rest of the handler,
with other requests in between; `Crash` and `Open` end and begin the process
(`OpenWithOptions` enters the file's entries, then the log's lines). An entry is
its id and the number of its save; titles, tags and sources are left out, and so is
what the index does with a document (`SearchIndex`).

## What is checked

Each run asks one module several questions. A property is a conjunction of named
parts where they belong together; the second table lists those parts.

| run | properties | bounds |
|---|---|---|
| `ot_texts` | `TransformConverges`, `ComposeIsSequential`, `UntouchedRangeKeepsItsText`, `CharactersStayWhole` | texts of up to 3 units, letters and surrogate pairs; 2 inserts per operation, of a letter or a pair (1 in the text of 3 units) |
| `collab_reconnect` | `ClientShowsItsRevision`, `WithinLimit`, `OnlyRejectionForcesReload`, `NothingGivenUp` | 2 clients with 2 connections each, 2 edits and 1, one lost connection; the size limit one unit below the sum of the edits |
| `collab_crash` | `Promises`, `KeepsLedger`, `Converges` | one edit each, one lost connection, one failed append or crash; fair |
| `suggestions` | `PendingStandsOnWhatWasRead`, `DecisionsStand`, `ViewAgrees`, `WithinBudget`, `EveryRunEnds` | a text of two units; five mixtures of up to 2 edits, 3 runs, 2 decisions, a failed append and a crash; fair |
| `raft` | `ElectionSafety`, `HeldByMajority`, `LogsAgree`, `ReadsInOfficeSeeFinishedWrites`, `KeepsLedger` | 3 nodes; five mixtures of up to 3 elections, 2 writes, both waiting at once, a crash, a snapshot, a heartbeat, a read |
| `queue_durable` | `MemoryIsOnDisk`, `KeepsPromises`, `IndexAgreesWithScan`, `ImplementsTable` | 2 uploads completed with any of 2 keys, 2 workers, 2 attempts; 5 changes with 2 faults, 5 with a fault and a setback of the clock, or 7 with neither |
| `streamforge` | `OneWorkerPerJob`, `OutputsAreWhole`, `EveryJobEnds` | 2 uploads of 2 units, 2 workers, 2 renditions, 2 attempts; 3 faults and a replay, or a fault and a job created anew; fair |
| `impact` | `ReplayRebuilds`, `AttributionIsByEventTime`, `ConclusionStands` | 2 subjects in 2 arms, 9 batches of up to 2 events, 4 deliveries, 4 changes of status, a crash, a failed append; expiry and history at every second event |
| `search` | `IndexIsSound`, `SearchIsExact`, `RestartBringsBack`, `AckedOnMajority`, `SearchEnds` | one replica with 3 writes of 3 documents with 4 contents, or 5 writes with 2 contents; one with 3 overlapping writes of one document, a fault and a crash; three replicas with a write, a fault and a crash; three with a search of which 0, 1 or 2 hang; fair |
| `chronos` | `AckedIsKept`, `QueriesSeeWhatWasAcked` | 2 series, heads full with 2 samples; six mixtures of up to 3 writes of 1 or 2 samples, a flush, a query, 2 removals, a failure and a crash; one has overwrites of the latest time, a restart and a query |
| `catalog` | `AnswersHold`, `SearchFindsTheCatalog` | 2 entries and a run, 4 saves by 2 requests at a time, 2 failures, 2 crashes |
| `raft_stale_read` | `ReadsSeeFinishedWrites`, violated | 3 nodes; see below |

| property | its parts |
|---|---|
| `TransformConverges`, `ComposeIsSequential`, `CharactersStayWhole` (`OTBuilder`) | with `TransformKeepsIntent`; with `TypeOK` and `ResultsAreCanonical`; after transform and after compose |
| `Promises` (`Collab`) | the inductive invariant of the proofs, see there |
| `PendingStandsOnWhatWasRead`, `DecisionsStand`, `ViewAgrees` (`Suggestions`) | with `TypeOK` and `CreditWhereDue`; `SettledOnce` and `ToldIsDurable`; with `ShownWhereItPosts` |
| `HeldByMajority`, `LogsAgree` (`Raft`) | with `TypeOK` and `CanRestart`; `LogMatching`, `LeaderComplete` and `MachinesAgree` |
| `MemoryIsOnDisk`, `KeepsPromises`, `IndexAgreesWithScan` (`JobQueue`) | with `TypeOK`, `CanOpen`, `ChangesAreInOrder` and `KeysAreOnDisk`; `JobsHaveKeys`, `KeysHaveJobs` and `promised` (`AsTold`), of memory and of each snapshot a restart may find; with `Follows` |
| `OutputsAreWhole` (`StreamForge`) | `SourceIsWhole`, `PublishedIsWhole`, and a completed job has its output |
| `ReplayRebuilds` (`Impact`) | with `TypeOK`, `CanStart` and `AckedIsSeen` |
| `IndexIsSound` (`SearchCluster`) | `TypeOK`, and of an index and its snapshot `Consistent`, `TermsAgree` and `BoundsHold` |
| `SearchEnds` (`SearchCluster`) | with `FailsOnlyWhenAllFailed` |
| `AckedIsKept` (`TimeSeries`), `AnswersHold` (`Catalog`) | with `TypeOK` |
| `SearchFindsTheCatalog` (`Catalog`) | with `IndexFollows` and `LogFollows` |

Deadlock is not checked in these runs: once what may be spent (edits,
elections, crashes, changes) is used up, nothing is left to do. A run that
`Budgets` bounds chooses one of its records initially, so its cases are checked side
by side and each stays small.

Two clients are enough for every pair of concurrent operations, two connections
per client for a reconnect that overlaps the old connection, and a third edit by
one client gives the shortest buffer that is a composition. For `Raft`, three
nodes are the smallest cluster with a minority. Two elections and two writes
give the entry that is in one log and overwritten; a third election makes the
leader whose entry was overwritten, or is about to be, come back. The nodes are
interchangeable, and `MCRaft` counts states alike that differ only in messages
whose handling changes nothing any more (`Stale`): this is sound while terms on
disk never go back, so the runs let no write to a disk fail. Two uploads with two
keys give a key that two uploads share and an upload with two keys; of five changes two can
be a creation and a second one that fails, with a restart after it. A worker
more than a job needs gives every contest for a job. Five writes
to an index with three ids tombstone, compact (`compactMinDead` is 1 there, so
every second replacement does) and write again; `maxImpacts` of 2 makes bounds merge
with the third document of a term, and a query of four terms takes the
exhaustive path.

### Where the code does something else

Seven cases contradict a sentence of the repository. The first is a run that
ends with a counterexample. The others are found by the run of their module with
the property named (for `streamforge`, a part of `OutputsAreWhole`) as its only invariant:
when the constant named is `TRUE` in its configuration, or when the property no longer
leaves out what the history variable named holds (for `catalog`, when `Open` empties
`unsettled`; with `MaxWaiting = 1` no saves overlap).

| how | what happens | what the repository says |
|---|---|---|
| `raft_stale_read` | a leader just elected serves a read that misses an acknowledged write, because it has not applied it yet (`raft.go:404`) | quoted in `PROJECT.json` |
| `streamforge`, `Pauses` | every worker of a job uses one directory, so one that slept through its lease renames the unfinished work of its successor into place (`transcode.go:33`, 84): `PublishedIsWhole` | "atomically rename only after all FFmpeg processes succeed, so retries never publish partial manifests" (`docs/components/media.md:25`) |
| `queue_durable`, `undone` | only the key of the request is looked at, so an upload completed again under another key gets its job anew, two keys lead to it, and if that write fails the older job is deleted while its key stays (`queue.go:164`, 180; `http.go:94`): `KeepsPromises` | "Completing the same upload or repeating an idempotency key returns one job" (`docs/components/media.md:11`) |
| `streamforge`, `again` | the same job, leased or completed, is queued anew: two workers share it and its directory, and one renames what the other has not finished: `OneWorkerPerJob`, `PublishedIsWhole` | the same sentence, and `docs/components/media.md:25` |
| `queue_durable`, `LateLoss` | a directory that cannot be synced is answered with ok, and a loss of power takes the change back (`queue.go:383`): `KeepsPromises` | "Every acknowledged change is already durable" (`queue.go:148`, `server.go:202`) |
| `chronos`, `overruled` | blocks are merged in the order of their names. After a restart with the log kept, the head begins again where the log does, so an overwrite of the latest time may go into a block that is named before the one it overwrites (1-3 before 2-3), and queries return the older value (`store.go:127`, 212): `AckedIsKept`, `QueriesSeeWhatWasAcked` | "Last-write-wins deduplication for identical timestamps" (`docs/components/metrics.md:12`) |
| `catalog`, `unsettled` | when logging an entry fails, a restart puts the older version that the log has over the catalog's, for an entry that is not new to the log (`server.go:93`, 267): `SearchFindsTheCatalog` | "entry persisted but indexing WAL failed; restart will rebuild the index" (`server.go:267`) |
| `impact`, `Reexposed` | expiring a subject forgets that it was counted, and its next exposure counts it a second time (`engine.go:625`, 516): `AttributionIsByEventTime` | "Conversion is binary per exposed subject" (`docs/components/impact-experiments.md:17`) |

The passing runs leave these cases out by name: reads are
checked for leaders that applied an entry of their term, workers do not sleep,
subjects are not exposed again after they expired, power does not take back a rename
that was answered, and the uploads, samples and entries in the history variables are excepted.
The steps themselves are in the runs: uploads are completed again, samples overruled, and logs fail.

More cases the models hold and the passing runs leave out, each by a
named bound or history variable:

- `Raft`, two proposals waiting: the later ends first, and the earlier moves the
  commit index back. Nothing committed is lost by it.
- `Raft` with writes to disk that fail (`faults`): a `Rewrite` that fails is
  answered with success on the retry, since memory has the entries, and a write is then
  acknowledged with one copy on disk; a cut `Append` leaves a line that `NewNode` refuses; errors
  of saving a vote are ignored, so a node that restarts may vote again.
- `Suggestions`, `misdated`: a run that is not charged gives back the newest entry
  of the budget, which may be another's. The one that stays is older, and an hour after it
  one run more than allowed may begin.
- `TimeSeries`, `step`: samples older than those before. A block of the same first and
  last time takes the place of the one before it, and of overlapping blocks the one
  whose name sorts last wins, without a restart too: `AckedIsKept` fails with `step`
  of {-1, 0, 1}. Cases the run has and the properties allow: a query also lists temporary files,
  so one that a failure or a crash left unfinished makes queries of its
  series fail (a query that ends is right); a torn line stops the store from
  opening; a restart brings back what retention removed while the log still had it.
- `Catalog`, `unsettled`, holds more than the entries of the table: two overlapping saves
  of one entry may be logged and indexed the other way round, and the process may end
  before the log. For an entry that is new to the log the sentence of `server.go:267`
  is true, and the run shows it.
- `StreamForge`, `LateChunks`; `Impact`, `Residues`: see above.
- `SearchCluster`, `unordered`: two versions of one document under way at once on a
  replica, or an append that failed and left its line: the log and the index may hold
  different ones, and a restart changes what is served. A torn line is
  glued to the next, and the node does not start (`Start`).

### Fairness

Nothing is assumed of people, of connections that break, or of failures.

- `Collab`, `FairSpec`: the actor takes the next message of each connection and
  writes each batch (`loop` selects over its inbox), a message on a connection
  that stays up arrives, both ends notice that a connection has ended
  (`serveSocket` reads until an error; `onclose`), a client reconnects (`dropped`
  sets a timer) and a session that died is reopened by the next access.
- `Suggestions`, `FairSpec`: batches are written, the session is reopened by the next
  access, and calls of `Invoke` go on; an agent ends within its timeout. It is
  weak fairness with the guards written out (`[]<>~BatchDue`), as TLC checks it.
- `StreamForge`: workers go on with their loop and lease what they can, and leases
  that are not renewed run out. `MaxFaults` says that faults end.
- `SearchCluster`, `FairSpec`: the hedge timer fires, and a replica that does not hang
  answers or fails. The deadline is not assumed to come: a search that ends only by it
  took as long as it could.
- `Raft` has none: elections may duel and calls time out for ever, so progress is a
  matter of probability. `JobQueue`, `Impact`, `TimeSeries` and
  `Catalog` wait for nobody.

## What is proved

`CollabProofs` proves, for every set of clients and slots and every value of the
bounds, `Spec => []P` for `Promises`, `ExactlyOnce`, `AckedIsDurable`,
`SaidIsDurable`, `IdsStayPrivate` and `TypeOK`, and `Spec => KeepsLedger`, the
refinement. The only assumption on the constants is `CollabAssumption`. The
runs check `Promises` and `KeepsLedger`; the others follow from
the same invariant and need no run.

None of them is inductive alone. `Promises` is: memory begins with the log; no
operation is in memory twice; all that waits in `out` is true of memory
(`Agrees`: the revision exists, and an id is the receiver's own operation at
that revision); all that travels in `down` is true of the log; and what was told
is in the log. `Flush` is where the second becomes the third, because it writes
all of memory; a crash keeps it because it leaves a prefix of memory at least as
long as the log. A message true of a history stays true of a longer one
(`AgreesLater`), so nothing has to be said about when it arrives.

The proofs never expand the client's handlers, `Transform` or `CatchUp`: they hold
whatever a client sends, including an operation with a wrong revision or an
empty id. The refinement needs one more step, that the log either grows while
nobody is told, or stays while somebody may be (`StepLedger`).

`CatalogProofs` proves `AnswersHold` and `SearchFindsTheCatalog` for any entries,
runs and bounds, with no assumption on them. The inductive invariant adds to the first
where the last save of a settled entry is. `IndexFollows`: in the index while nobody saves
that entry, or its handler is at work and, once it has logged, alone: so the
handler that enters the index last is the right one. `LogFollows`: the
log's last line of the entry, or the log has none, or its handler has yet to log: so a crash
and a replay bring back what the file has. Both are conjuncts of
`SearchFindsTheCatalog`, which the run checks. Replay is stated by its outcome,
the last line of each id, which needs no induction over the log.

`JobQueueProofs` proves all that the run of the queue checks, for any uploads,
workers, keys, limits and budgets: `MemoryIsOnDisk` and `IndexAgreesWithScan`
under `JobQueueAssumption` alone, and `KeepsPromises` and `Spec =>
ImplementsTable`, the refinement of `JobTable`, under `~LateLoss` too. That
hypothesis says what the run says: power takes back no rename whose change was answered with
ok or after which the queue was opened again. Without it they do not hold (see `JobQueue` above).

`MemoryIsOnDisk` alone is not inductive, since a change is found through the lease
index: `Inv` is it and `Follows`, which gives each job that can be leased an entry of
its age and time. In three parts, `Inv` says that memory has its
types (`MemoryOK`); that every snapshot that may be
found has them too, that the journal's whole lines are numbered upwards,
and that none but the last is torn (`DiskOK`);
and that the snapshot with the journal gives what is in memory unless `due`, and the keys in memory
always (`Agrees`). The argument goes by what a write leaves on disk
(`OutcomeCases`): what is read is the same, or has one line more, or is the new
snapshot. For each there is a lemma on `Recover`: it reads only whole lines
(`RecoverSame`), a line more is one change more (`RecoverAppend`), and lines that
are not newer than the snapshot change nothing (`RecoverFresh`), which is why a
crash between the rename and the emptying of the journal is harmless. `Commit` is
treated once, for any job that is there already and keeps its key, or comes
with a key that is new, in the place of an older job or not (`Change`; `CommitInv`, `CommitKeeps`,
`CommitMaps`); each call only has to show that its change is such a one. `KeepsPromises`
is inductive beside `Inv` (`KInv`): a change leaves jobs and keys that lead to each other
(`ChangeLeads`), and a creation that is taken back leaves no job without its key, and
a key without a job only if the upload had an older one (`UndoneLeads`). `Latest` and `First` choose from
sets; that there is something to choose follows from the least element of a set
of numbers (`Minimum`), which the library proves for well-founded orders.

`RaftProofs` proves all that the run `raft` checks, for any nodes (two
or more, `RaftAssumption`) and any budgets in which no write to a disk fails (`DisksWork`: every
budget has `faults = 0`; the run's have): `ElectionSafety`, `LogsAgree`, `HeldByMajority`,
`ReadsInOfficeSeeFinishedWrites` and `KeepsLedger`, the refinement of `PromisedLog`. Any number
of elections, calls, crashes, restarts and snapshots is allowed for, and messages lost, late,
repeated or out of order. Without `DisksWork` most of this does not hold (see *Where the code does
something else*). It begins with what each action does to a node, its disk
and the network; the agreement of logs comes next, and all else stands on it.

Little of this follows from the state alone: what matters is what was said in terms
that are over, and the code forgets it. The invariant (`IInv`) therefore says that there
are three records of the past (`Whole`), and each step shows what becomes of them:

- `given`, who voted for whom in which term. A vote is saved before it is sent, so a node
  gives one a term; a winner has a majority of them, and two majorities meet (`VotesInv`).
- `logs`, the log a term's leader had, which only grows. Every file, memory and request
  agrees up to each of its entries with the log of that entry's leader (`Held`), so
  two that have an entry in common agree up to it (`LogsInv`, `HeldAgree`).
- `taken`, who took which entry in the term in which it was made. This is what a
  majority's replies count. For every index and term, a log of a later term
  has that entry, or a majority did not take it and, being in later terms, never will
  (`Kept`, `Blocked`). A voter brings this to the candidate, whose log is not behind its own,
  and so to the leader (`ElectedKept`); what a majority took, no later leader lacks (`AcksInv`).

On these stand `ChosenInv` (the committed commands are those of a leader's log up
to an entry a majority took; every node's commit index and what machines applied are
within them), `LeaderKnows` (the leader of the term that committed last has applied all of
them), and `ReadsInv`: a read whose leader no longer knows all that finished before it
finds a majority that is in a later term, has not confirmed it and never will (`Passed`).
That calls have numbers of their own (`UsedOK`, `AllNumbered`, `ServedOnce`) keeps the
replies to one from being counted for another. The refinement is one lemma on a step
(`LedgerStep`): it commits entries after those there are, or tells of committed ones, or
neither. TLC cannot evaluate `IInv`, which begins with such records; what follows from it
is what the run checks.

`StreamForgeProofs` proves both invariants of the run, `OneWorkerPerJob` and
`OutputsAreWhole`, for any uploads, workers and pieces, and any number of faults and
restarts, under the hypotheses the run sets too: `~Pauses`, that a worker at work renews
its lease in time, and `~LateChunks`, that no chunk is repeated after the upload was
completed. Without them they do not hold (see `StreamForge` above and *Where the code does something
else*). The inductive invariant `Inv` has four parts. `QueueOK`: what a restart may find of a
job includes what it is. `UploadsOK`: a file is a beginning of the upload, at least as
long as the client was told. `WorkersOK`: a worker at work has the lease and a restart
would find exactly that, so no restart gives it to another; and its directory holds, at each step,
the renditions it made so far. `OutputsOK`: a job that is completed, or may be found so, has
its whole output. The last two say nothing of uploads completed again under another key
(`again`), where the code keeps neither; that such a job never disturbs another is what the
proof shows. Each call of the queue changes one job to a row a lease of it allows
(`BecomeAdds`, `LeaseKept`), and `WorkInv` treats the steps of a worker.

`SearchClusterProofs` proves `AckedOnMajority` and `FailsOnlyWhenAllFailed` (the safety half
of `SearchEnds`) for any number of replicas and any budgets. A log only grows, except that nothing
follows a torn line, so what a replica logged or said it stored is in its log or its log
is torn (`StoredIsLogged`); what the coordinator knows of a replica it does not forget, so a
quorum stays one (`QuorumStays`). For searches, `SearchInv` says that a replica that was asked is
waited for or has failed, and that a hedge has a replica left to go to.

`RestartBringsBack` is proved there too, for any documents, compactions at any time, crashes
and failed appends. Of the index only what it serves matters: each
id has a live slot with its document, each live slot is of one id (`Fit`). Tombstoning a slot and adding
one keep that (`Retiring`, `Entering`), and so does compacting, because the new number of
a slot counts the live slots up to it: the counts grow from one live slot to the next
and leave no number out (`NumbersGrow`, `NumbersAreUsed`). So `Upsert` changes the
document of one id and keeps the others (`UpsertIs`), and by induction over the lines a replay serves
the last version of each (`ReplayServes`). The invariant (`RestartInv`) has to speak of the moment
between log and index, when the property does not hold: an id in order either is served as the log's
last version, or exactly one write of it has been logged and not entered, and it is that version
(`InOrder`). A second write there makes the id unordered until a restart, which is why `RestartBringsBack`
leaves those out. That a replay goes through the whole log needs no assumption: a log that is torn starts no
node. Terms, bounds and scores are not in this; they stay with TLC.

`SuggestionsProofs` proves `DecisionsStand`, `WithinBudget`, `ViewAgrees` and
`PendingStandsOnWhatWasRead` for any text, edits, agents, limits and failures, under
`SuggestionsAssumption` alone: sizes and limits are numbers, what can be asked to be replaced are pairs of
integers, and the seed is a person's. A log is replayed and `Changed` and `Recent` are filtered by recursive functions, written without
`SelectSeq`, which the provers cannot expand. Three lemmas say what they
compute, by induction on a set of numbers (`Induction`, from the least element of a set): the
documents a log goes through (`StatesAre`), that logs which begin alike go
through the same ones (`StatesAgree`), and that a filter keeps for each element of its set a place of its own
(`SelectedKeeps`).

`DecisionsStand` needs a fact of the whole log, not only of memory: each record decides
on suggestions that are open in the document before it (`LogOK`). Then a suggestion
settled by one record is not open for a later one (`LogSettles`), and a later document
has the suggestions of an earlier one, of the same runs, settled as they were (`Later`). `DecInv` adds
that memory is the log's last document, that what `after` holds is true of it, and that what is
on the wire or was told is true of the document *on disk*; `Flush` is where one becomes the
other, and a failed append or a crash leaves a document at least as late.

`WithinBudget` needs two more things. An answer that `Flush` will give finds its
run where it asked (`RunsInv`): nobody moves a run that waits, so the answer neither revives one that is over nor
changes when it began. And the entries of `started` in the last hour are at least the charged
runs: each has an entry of its own of its own time (`Slots`). `Release` takes the last entry out, and the
run that had it moves to the entry of the one released, which is as old unless
`misdated`.

`ViewAgrees` is about a viewer with nothing left to receive, so its invariant (`ViewInv`) is
about one with something left: the messages on the wire and those that `Flush` will send, shown
one after the other, lead from what is shown to what is open and who is at work (`Leads`).
A message more leads one step further (`Shows`). An operation moves all ranges in the viewer
as it does in the document; a suggestion it changed otherwise has a message of its own,
which brings it up to date (`SugsLead`, `Brought`), and one it says nothing of has only
moved (`OpKeeps`). Runs have no such message: the range shown of one at work is where
the run, or the answer that `Flush` will give it, stands once the operations since are
passed (`ShownInv`, `Stands`), and one operation more moves it once more (`MappedOn`). What
`MapRange` computes does not matter here, only that both sides use it in the same order.

`PendingStandsOnWhatWasRead` is where it does matter. An operation is looked at
component by component, each of which keeps, types or drops one unit: `MapPos` of a position is
the number of units kept or typed up to the first, or the last, component that stands there
(`MapPosFirst`, `MapPosLast`), `Apply` writes exactly these units (`ApplyWrites`), and a range
that was not touched has only components that keep between its ends (`UntouchedKeeps`). So the text
of an untouched range moves with it (`UntouchedKeepsText`), for every operation and
text: what `UntouchedRangeKeepsItsText` checks on small ones. The invariant
(`TextInv`) is about every document the log goes through, not only the one in memory, because a
crash or a failed append brings back an earlier one: its text is credited as its units are, each
operation of its history fits the text the one before left, and each pending suggestion
stands on its original (`DocText`). A run that has read moves with the history since: what it
read is at its range, or the range was touched (`Read`, `ReadMoves`), so a proposal that enters
as pending stands on what was read. An answer that `Flush` has yet to give is under
the same obligation, and no run that is not lost is at work without a session
(`RunsRead`): a session reopened from the log may have another history.

`ImpactProofs` proves `ReplayRebuilds` and `ConclusionStands` for any batches of events,
arms, windows, limits and crashes, in a process whose failed appends leave nothing in the file
(`Residues \subseteq {"nothing"}`, as in the run; with a part of a line left, neither holds). What
carries both is that memory is the log's replay at every moment (`Rebuilt`) and
that a line more is one `ApplyLine` more (`ReplayAppend`), because the states two logs go
through are the same as long as their lines are (`GoesAlike`); an incomplete last line
changes nothing (`ReplayTorn`), and only a process that is down has one (`LogOK`). `TypeOK`
needs more than counters that add up: that no arm has more conversions than subjects holds
only because what is counted *without* a subject in memory, the contributions of those who
expired, has no more conversions than subjects either (`Sums`). Then taking a subject's old
contribution out and putting its new one in keeps it (`SumsChange`), and so does
forgetting subjects (`SumsShrink`).

## Only model-checked

- What recursive operators compute (`TransformConverges` and its neighbours,
  `ClientShowsItsRevision`, `WithinLimit`, and `OnlyRejectionForcesReload` and
  `NothingGivenUp`, which follow a client through a catch-up; the terms, bounds and scores of `SearchIndex`): the
  library's induction takes an operator, which the provers cannot instantiate, and
  `RECURSIVE` is out of their reach. The induction on a set of numbers of `SuggestionsProofs` and `SearchClusterProofs` is enough
  for recursive functions whose next value depends on the one before; with it the lemma
  `UntouchedKeepsText` covers one of the neighbours, `UntouchedRangeKeepsItsText`, though the
  property itself is stated of the operations `OTBuilder` builds.
- `Converges`, `EveryRunEnds`, `EveryJobEnds`, `SearchEnds`: liveness under fairness and `ENABLED`
  are beyond it too.
- `Raft` with writes to disk that fail: most of its properties then do not hold, as said above.
- `StreamForge` with `Pauses` or `LateChunks`; `IndexIsSound` and `SearchIsExact`, which are
  about what folds over terms, postings and documents compute.
- `AttributionIsByEventTime` of `Impact`: the set of subjects that had expired is taken once a
  batch (`Gone`), so for longer batches than the run's it would have to be stated event by event.
- `TimeSeries`: no theorem; its runs check it for small heads and a few samples.

## Not modelled

- Pulse: planned. Chronos' block codec is a pure round
  trip of bits, which the repository's tests sweep.
- WebSocket framing: bytes of one TCP stream; `Collab` assumes what it gives,
  messages in order until the connection ends. The lock of the data directory: one
  call at start-up.
- Language models, ffmpeg and its segments, the synthetic data of the
  experiments, pages, program entry points: outside of the order of events, or outside of
  the repository.
- Of modelled parts: carets, presence and titles of documents, the bytes of the
  operation log, the search of documents' titles; statistics of an experiment; the
  reading list of an agent; the choice of a shard.
