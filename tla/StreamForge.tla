----------------------------- MODULE StreamForge ----------------------------
(***************************************************************************)
(* StreamForge (src/internal/video): clients upload videos in chunks and   *)
(* complete them to jobs, workers lease jobs, transcode into a directory   *)
(* of work beside the output, move it into place and report.  The queue is *)
(* what JobTable promises, which JobQueue is checked to keep: its calls    *)
(* may go unrecorded, and restarts undo what nobody was told.              *)
(***************************************************************************)
EXTENDS Integers, Sequences, FiniteSets

CONSTANTS
  Ids, Workers, NoWorker, MaxAttempts,
  Renditions,     \* the sizes a video is transcoded to
  FileSize,       \* units of a video
  Nothing,        \* no file, no directory
  Budgets,        \* bound: how many faults (worker crashes, lost calls and answers, restarts of
                  \* the queue), dead jobs replayed and jobs created anew; initially one is chosen
  Pauses,         \* bound: may a worker process sleep through its lease?
  LateChunks      \* bound: may a chunk arrive again after its upload was completed?

\* Nothing is neither a file nor a directory.
ASSUME StreamForgeAssumption ==
  /\ FileSize \in Nat \ {0} /\ MaxAttempts \in Nat \ {0} /\ NoWorker \notin Workers
  /\ \A n \in 0..FileSize : Nothing # [i \in 1..n |-> i]
  /\ \A files \in SUBSET (Renditions \union {"master"}) : Nothing # files

VARIABLES
  table, live, promised,  \* the queue, see JobTable
  part, source,           \* id.part and id/source: the units they hold, or Nothing
  told,                   \* the offset the client of an upload goes on from
  work, out,              \* OutputPath.work and OutputPath: the files they hold, or Nothing
  worker,                 \* [at, job, done]: where a worker is, on which job, its finished renditions
  faults, replays, anew,  \* what is left of the budget
  again                   \* history: uploads completed under another key while they had a job

queue   == <<table, live, promised>>
uploads == <<part, source, told>>
outputs == <<work, out>>
vars    == <<queue, uploads, outputs, worker, faults, replays, anew, again>>

Queue == INSTANCE JobTable

File == [i \in 1..FileSize |-> i]
SizeOf(f) == IF f = Nothing THEN 0 ELSE Len(f)
Idle == [at |-> "idle", job |-> 0, done |-> {}]
Whole == Renditions \union {"master"}
Unfair == faults > 0 /\ faults' = faults - 1

\* The queue recorded what became of u and says so, or something went wrong.
Answered(u) == promised'[u] = {table'[u]} /\ UNCHANGED faults

\* Mutant: workers send no heartbeats.
Keeps_Never(w, u) == FALSE

\* Mutant: a lease that nobody renews goes on.
Keeps_Always(w, u) == TRUE

\* A worker keeps its lease while it is at work, unless its process sleeps.
Keeps(w, u) == ~Pauses /\ worker[w].at # "idle" /\ worker[w].job = u

\* Leases that are kept go on when the queue was restarted.
LeasesGoOn ==
  \A u \in Ids : \A w \in Workers :
    table'[u].state = "leased" /\ table'[u].owner = w /\ Keeps(w, u)' => u \in live'

-----------------------------------------------------------------------------
(* Uploads.                                                                 *)

Fits(u, offset) == SizeOf(part[u]) = offset

\* The client sends all that is missing from an offset; n units arrive, and it may hear of
\* them.  A chunk that arrives again comes from the start.
PutChunk(u, offset, n) ==
  /\ offset = told[u] \/ (offset = 0 /\ (LateChunks \/ source[u] = Nothing))
  /\ offset + n <= FileSize
  /\ IF Fits(u, offset)
       THEN /\ part' = [part EXCEPT ![u] = (IF @ = Nothing THEN <<>> ELSE @) \o SubSeq(File, offset + 1, offset + n)]
            /\ \/ told' = [told EXCEPT ![u] = SizeOf(part'[u])] /\ UNCHANGED faults
               \/ Unfair /\ UNCHANGED told
       ELSE /\ told' = [told EXCEPT ![u] = SizeOf(part[u])]
            /\ UNCHANGED <<part, faults>>
  /\ UNCHANGED <<queue, source, outputs, worker, replays, anew, again>>

\* The file moves into place, unless it is there already, and the upload becomes a job, also
\* one that has a job, unless the key of the request has one.
CompleteUpload(u) ==
  /\ told[u] = FileSize
  /\ part[u] # Nothing \/ source[u] # Nothing
  /\ IF part[u] # Nothing
       THEN source' = [source EXCEPT ![u] = part[u]] /\ part' = [part EXCEPT ![u] = Nothing]
       ELSE UNCHANGED <<part, source>>
  /\ \/ /\ Queue!Create(u) \/ Queue!CreateFails(u)
        /\ Answered(u) \/ Unfair
        /\ IF table[u] = Queue!NoJob THEN UNCHANGED <<anew, again>>
           ELSE anew > 0 /\ anew' = anew - 1 /\ again' = again \union {u}
     \/ UNCHANGED <<queue, faults, anew, again>>
  /\ UNCHANGED <<told, outputs, worker, replays>>
  /\ LeasesGoOn

ReplayDead(u) ==
  /\ replays > 0 /\ replays' = replays - 1
  /\ Queue!ReplayDead(u) /\ (Answered(u) \/ Unfair)
  /\ UNCHANGED <<uploads, outputs, worker, anew, again>>
  /\ LeasesGoOn

-----------------------------------------------------------------------------
(* A worker.  Its heartbeats go on beside its work; when one fails the work  *)
(* is cancelled.                                                            *)

At(w, at) == worker[w].at = at
Go(w, at) == worker' = [worker EXCEPT ![w].at = at]

\* The answer that brings a job may be lost.
Lease(w, u) ==
  /\ At(w, "idle")
  /\ Queue!Lease(u, w)
  /\ \/ Answered(u) /\ worker' = [worker EXCEPT ![w] = [at |-> "clear", job |-> u, done |-> {}]]
     \/ Unfair /\ UNCHANGED worker
  /\ LeasesGoOn
  /\ UNCHANGED <<uploads, outputs, replays, anew, again>>

Clear(w) ==
  /\ At(w, "clear")
  /\ work' = [work EXCEPT ![worker[w].job] = {}]
  /\ Go(w, "encode")
  /\ UNCHANGED <<queue, uploads, out, faults, replays, anew, again>>

\* One ffmpeg finishes: its rendition is complete in the directory of work.
Encode(w, r) ==
  LET u == worker[w].job
  IN  /\ At(w, "encode") /\ r \notin worker[w].done /\ work[u] # Nothing
      /\ work' = [work EXCEPT ![u] = @ \union {r}]
      /\ worker' = [worker EXCEPT ![w].done = @ \union {r}]
      /\ UNCHANGED <<queue, uploads, out, faults, replays, anew, again>>

\* Mutant: the first finished rendition is enough.
AllDone_One(w) == worker[w].done # {}

AllDone(w) == worker[w].done = Renditions

\* writeMasterPlaylist, which needs the directory.
Master(w) ==
  LET u == worker[w].job
  IN  /\ At(w, "encode") /\ AllDone(w) /\ work[u] # Nothing
      /\ work' = [work EXCEPT ![u] = @ \union {"master"}]
      /\ Go(w, "remove")
      /\ UNCHANGED <<queue, uploads, out, faults, replays, anew, again>>

Remove(w) ==
  /\ At(w, "remove")
  /\ out' = [out EXCEPT ![worker[w].job] = Nothing]
  /\ Go(w, "rename")
  /\ UNCHANGED <<queue, uploads, work, faults, replays, anew, again>>

Rename(w) ==
  LET u == worker[w].job
  IN  /\ At(w, "rename") /\ work[u] # Nothing /\ out[u] = Nothing
      /\ out' = [out EXCEPT ![u] = work[u]] /\ work' = [work EXCEPT ![u] = Nothing]
      /\ Go(w, "complete")
      /\ UNCHANGED <<queue, uploads, faults, replays, anew, again>>

\* A step fails: the directory is gone, the queue refused a heartbeat, which stops ffmpeg,
\* or anything else.
TranscodeFails(w) ==
  /\ worker[w].at \in {"clear", "encode", "remove", "rename"}
  /\ LET u == worker[w].job
     IN  \/ At(w, "encode") /\ work[u] = Nothing /\ UNCHANGED faults
         \/ At(w, "rename") /\ (work[u] = Nothing \/ out[u] # Nothing) /\ UNCHANGED faults
         \/ At(w, "encode") /\ ~AllDone(w) /\ ~Queue!Holds(u, w) /\ UNCHANGED faults
         \/ Unfair
  /\ Go(w, "fail")
  /\ UNCHANGED <<queue, uploads, outputs, replays, anew, again>>

ReportLost(w) ==
  /\ worker[w].at \in {"complete", "fail"} /\ Unfair
  /\ worker' = [worker EXCEPT ![w] = Idle]
  /\ UNCHANGED <<queue, uploads, outputs, replays, anew, again>>

Succeeded(w) == At(w, "complete")

\* The report reaches the queue, which may have given the job away; the worker
\* asks for the next job in any case.
Report(w) ==
  LET u == worker[w].job
  IN  /\ worker[w].at \in {"complete", "fail"}
      /\ IF Queue!Holds(u, w)
           THEN /\ IF Succeeded(w) THEN Queue!Complete(u, w) ELSE Queue!Fail(u, w)
                /\ Answered(u) \/ Unfair
           ELSE UNCHANGED <<queue, faults>>
      /\ worker' = [worker EXCEPT ![w] = Idle]
      /\ LeasesGoOn
      /\ UNCHANGED <<uploads, outputs, replays, anew, again>>

WorkerCrash(w) ==
  /\ ~At(w, "idle") /\ Unfair
  /\ worker' = [worker EXCEPT ![w] = Idle]
  /\ UNCHANGED <<queue, uploads, outputs, replays, anew, again>>

Expire(u) ==
  /\ u \in live /\ (table[u].owner \in Workers => ~Keeps(table[u].owner, u))
  /\ live' = live \ {u}
  /\ UNCHANGED <<table, promised, uploads, outputs, worker, faults, replays, anew, again>>

\* The queue stops and is opened again.
QueueRestart ==
  /\ Unfair
  /\ Queue!Restart /\ \A u \in Ids : promised'[u] = {table'[u]}
  /\ UNCHANGED <<uploads, outputs, worker, replays, anew, again>>
  /\ LeasesGoOn

Init ==
  /\ Queue!Init
  /\ part = [u \in Ids |-> Nothing] /\ source = [u \in Ids |-> Nothing] /\ told = [u \in Ids |-> 0]
  /\ work = [u \in Ids |-> Nothing] /\ out = [u \in Ids |-> Nothing]
  /\ worker = [w \in Workers |-> Idle]
  /\ \E b \in Budgets : faults = b.faults /\ replays = b.replays /\ anew = b.anew
  /\ again = {}

Transcode(w) == Clear(w) \/ (\E r \in Renditions : Encode(w, r)) \/ Master(w) \/ Remove(w) \/ Rename(w) \/ TranscodeFails(w)
Process(w) == Transcode(w) \/ Report(w)

Next ==
  \/ \E u \in Ids : CompleteUpload(u) \/ ReplayDead(u) \/ Expire(u)
  \/ \E u \in Ids, offset \in 0..FileSize, n \in 1..FileSize : PutChunk(u, offset, n)
  \/ \E w \in Workers : Process(w) \/ ReportLost(w) \/ WorkerCrash(w) \/ \E u \in Ids : Lease(w, u)
  \/ QueueRestart

\* Workers go on with their loop, and time passes.
Spec ==
  /\ Init /\ [][Next]_vars
  /\ \A w \in Workers : WF_vars(Process(w)) /\ WF_vars(\E u \in Ids : Lease(w, u))
  /\ \A u \in Ids : WF_vars(Expire(u))

-----------------------------------------------------------------------------
(* Properties.                                                              *)

\* However chunks are cut short and sent again, the file of a job holds each unit of its
\* upload once and in order (docs/components/media.md, "chunked resumable uploads").
SourceIsWhole ==
  \A u \in Ids : source[u] # Nothing => source[u] = File

\* A job is worked on by one worker at a time, though leases run out and are given again;
\* left out are uploads completed again under another key, whose job starts anew beside
\* the worker it has.
OneWorkerPerJob ==
  \A u \in Ids \ again : \A v, w \in Workers :
    v # w /\ ~At(v, "idle") /\ ~At(w, "idle") => ~(worker[v].job = u /\ worker[w].job = u)

\* What is published has all renditions and the manifest (docs/components/media.md, "retries
\* never publish partial manifests"), unless the job was started anew beside its worker.
PublishedIsWhole ==
  \A u \in Ids \ again : out[u] # Nothing => out[u] = Whole

\* From chunk to published video nothing is lost or half done: sources are whole, so is
\* what is published, and a completed job has its output in place, and keeps it, but for
\* outputs of uploads completed again under another key.
OutputsAreWhole ==
  /\ SourceIsWhole /\ PublishedIsWhole
  /\ \A u \in Ids \ again : table[u].state = "completed" => out[u] = Whole

\* A job somebody was told of ends, completed or as a dead letter, once workers, calls and
\* the queue fail no more, or its upload was completed again under another key.
EveryJobEnds ==
  \A u \in Ids :
    table[u].state = "queued" /\ Queue!NoJob \notin promised[u] ~>
      table[u].state \in {"completed", "dead"} \/ u \in again
=============================================================================
