-------------------------- MODULE StreamForgeProofs --------------------------
(***************************************************************************)
(* StreamForge, proofs: a job has one worker at a time, and from chunk to  *)
(* published video nothing is half done, for any uploads, workers,         *)
(* renditions and faults, where workers keep the leases of their work      *)
(* (~Pauses) and no chunk comes after its upload was completed             *)
(* (~LateChunks); but for uploads completed again under another key, whose *)
(* job starts anew beside its worker.                                      *)
(***************************************************************************)
EXTENDS StreamForge, SequenceTheorems, TLAPS

Rows == [state : {"none", "queued", "leased", "completed", "dead"}, attempts : Nat,
         owner : Workers \union {NoWorker}]

Steps == {"idle", "clear", "encode", "remove", "rename", "complete", "fail"}

\* What a restart may find of a job is a set of rows, the present one among them.
QueueOK ==
  /\ table \in [Ids -> Rows] /\ promised \in [Ids -> SUBSET Rows]
  /\ \A u \in Ids : table[u] \in promised[u]

\* The first n units of a video.
Start(n) == [i \in 1..n |-> i]

\* What arrived is a beginning of the video, at least what the client was told of; once the
\* upload was completed it is all of it, in its place.
UploadOK(u) ==
  IF source[u] = Nothing
  THEN \E n \in 0..FileSize : /\ told[u] \in 0..n
                              /\ part[u] = Start(n) \/ (part[u] = Nothing /\ n = 0)
  ELSE source[u] = File /\ part[u] = Nothing /\ told[u] = FileSize

UploadsOK ==
  /\ part = [u \in Ids |-> part[u]] /\ source = [u \in Ids |-> source[u]] /\ told = [u \in Ids |-> told[u]]
  /\ \A u \in Ids : UploadOK(u)

\* A worker at work has the lease, and a restart would find that.
HasLease(w) ==
  LET u == worker[w].job
  IN  /\ u \in Ids /\ u \in live
      /\ promised[u] = {table[u]} /\ table[u].state = "leased" /\ table[u].owner = w

\* What its directory of work holds, and what it published.
HasWork(w) ==
  LET u == worker[w].job
  IN  /\ At(w, "clear") => worker[w].done = {}
      /\ At(w, "encode") => work[u] = worker[w].done
      /\ worker[w].at \in {"remove", "rename"} => work[u] = Whole
      /\ At(w, "complete") => out[u] = Whole

WorkersOK ==
  /\ worker \in [Workers -> [at : Steps, job : Ids \union {0}, done : SUBSET Renditions]]
  /\ \A w \in Workers : ~At(w, "idle") =>
       /\ worker[w].job \in Ids
       /\ worker[w].job \notin again => HasLease(w) /\ HasWork(w)

\* The job is completed, or a restart may find it so.
MayBeCompleted(u) == \E row \in promised[u] : row.state = "completed"

OutputsOK ==
  /\ work = [u \in Ids |-> work[u]] /\ out = [u \in Ids |-> out[u]]
  /\ \A u \in Ids \ again : out[u] \in {Nothing, Whole} /\ (MayBeCompleted(u) => out[u] = Whole)

Inv == QueueOK /\ UploadsOK /\ WorkersOK /\ OutputsOK

-----------------------------------------------------------------------------
(* What the queue's calls do.                                              *)

\* All that a restart may find now it could have found before, or it is one of these rows of
\* job id.
Adds(id, rows) ==
  \A u \in Ids : promised'[u] \subseteq promised[u] \union (IF u = id THEN rows ELSE {})

\* A call that makes a job row adds that to what a restart may find of it, and at most
\* forgets other things.
LEMMA BecomeAdds ==
  ASSUME QueueOK, NEW id \in Ids, NEW row \in Rows, NEW running, Queue!Become(id, row, running)
  PROVE  QueueOK' /\ Adds(id, {row}) /\ row \in promised'[id]
<1>1. CASE Queue!Interrupted(id, row)
  <2>1. promised' = [promised EXCEPT ![id] = @ \union {row}]
    BY <1>1 DEF Queue!Interrupted
  <2>2. table' \in [Ids -> UNION {promised'[i] : i \in Ids}] /\ \A i \in Ids : table'[i] \in promised'[i]
    BY <1>1 DEF Queue!Interrupted, Queue!Found
  <2>3. promised' \in [Ids -> SUBSET Rows] /\ Adds(id, {row}) /\ row \in promised'[id]
    BY <2>1 DEF QueueOK, Adds
  <2>4. table' \in [Ids -> Rows]
    BY <2>2, <2>3
  <2> QED
    BY <2>2, <2>3, <2>4 DEF QueueOK
<1>2. CASE Queue!Done(id, row)
  <2>1. table' = [table EXCEPT ![id] = row]
    BY <1>2 DEF Queue!Done
  <2>2. table' \in [Ids -> Rows] /\ table'[id] = row /\ \A i \in Ids : i # id => table'[i] = table[i]
    BY <2>1 DEF QueueOK
  <2>3. \/ promised' = [promised EXCEPT ![id] = {row}]
        \/ promised' = [promised EXCEPT ![id] = @ \union {row}]
        \/ promised' = [i \in Ids |-> {table'[i]}]
    BY <1>2 DEF Queue!Done
  <2>4. /\ promised' \in [Ids -> SUBSET Rows]
        /\ \A i \in Ids : /\ table'[i] \in promised'[i]
                          /\ promised'[i] \subseteq promised[i] \union (IF i = id THEN {row} ELSE {})
    BY <2>2, <2>3 DEF QueueOK
  <2> QED
    BY <2>2, <2>4 DEF QueueOK, Adds
<1> QED
  BY <1>1, <1>2 DEF Queue!Become

\* A worker at work keeps its lease when the queue adds nothing about its job.
LEMMA LeaseKept ==
  ASSUME ~Pauses, QueueOK', NEW w \in Workers, HasLease(w), ~At(w, "idle"),
         worker'[w].at # "idle", worker'[w].job = worker[w].job,
         promised'[worker[w].job] \subseteq promised[worker[w].job],
         LeasesGoOn
  PROVE  HasLease(w)'
<1> DEFINE u == worker[w].job
<1>1. u \in Ids /\ promised[u] = {table[u]} /\ table[u].state = "leased" /\ table[u].owner = w
  BY DEF HasLease
<1>2. table'[u] \in promised'[u]
  BY <1>1 DEF QueueOK
<1>3. table'[u] = table[u] /\ promised'[u] = {table'[u]}
  BY <1>1, <1>2
<1>4. u \in live'
  BY <1>1, <1>3 DEF LeasesGoOn, Keeps
<1> QED
  BY <1>1, <1>3, <1>4 DEF HasLease

\* Completed jobs keep their output when the queue adds no job completed without it.
LEMMA OutputsKept ==
  ASSUME OutputsOK, QueueOK, NEW id, NEW rows, Adds(id, rows), UNCHANGED outputs, again \subseteq again',
         \A row \in rows : row.state = "completed" /\ id \notin again' => out[id] = Whole
  PROVE  OutputsOK'
<1>1. work' = work /\ out' = out
  BY DEF outputs
<1>2. ASSUME NEW u \in Ids \ again', MayBeCompleted(u)' PROVE out[u] = Whole
  <2>1. PICK r \in promised'[u] : r.state = "completed"
    BY <1>2 DEF MayBeCompleted
  <2>2. r \in promised[u] \/ (u = id /\ r \in rows)
    BY <1>2, <2>1 DEF Adds
  <2> QED
    BY <1>2, <2>1, <2>2 DEF OutputsOK, MayBeCompleted
<1> QED
  BY <1>1, <1>2 DEF OutputsOK

\* The others' work goes on during a call about a job that is not theirs.
LEMMA OthersKept ==
  ASSUME ~Pauses, Inv, QueueOK', NEW id, NEW rows, Adds(id, rows), UNCHANGED outputs, LeasesGoOn,
         NEW w \in Workers, ~At(w, "idle"), worker'[w] = worker[w], worker[w].job # id, worker[w].job \notin again
  PROVE  HasLease(w)' /\ HasWork(w)'
<1>1. HasLease(w) /\ HasWork(w)
  BY DEF Inv, WorkersOK
<1>2. worker[w].job \in Ids
  BY <1>1 DEF HasLease
<1>3. promised'[worker[w].job] \subseteq promised[worker[w].job]
  BY <1>2 DEF Adds
<1>4. HasLease(w)'
  BY <1>1, <1>3, LeaseKept DEF At
<1>5. HasWork(w)'
  BY <1>1 DEF HasWork, At, outputs
<1> QED
  BY <1>4, <1>5

\* A call about a job nobody works on, but perhaps one created again.
LEMMA CallKeeps ==
  ASSUME ~Pauses, Inv, NEW id, NEW rows, QueueOK', Adds(id, rows), LeasesGoOn, UNCHANGED <<outputs, worker>>,
         again \subseteq again', \A row \in rows : row.state # "completed",
         \A w \in Workers : ~At(w, "idle") /\ worker[w].job \notin again' => worker[w].job # id
  PROVE  WorkersOK' /\ OutputsOK'
<1>1. \A w \in Workers : worker'[w] = worker[w]
  OBVIOUS
<1>2. ASSUME NEW w \in Workers, ~At(w, "idle")', worker[w].job \notin again' PROVE HasLease(w)' /\ HasWork(w)'
  BY <1>1, <1>2, OthersKept DEF At
<1>3. WorkersOK'
  BY <1>1, <1>2 DEF Inv, WorkersOK, At
<1>4. OutputsOK'
  BY OutputsKept DEF Inv
<1> QED
  BY <1>3, <1>4

\* Whoever works on a job holds it.
LEMMA WorksOnLeased ==
  ASSUME Inv, NEW w \in Workers, ~At(w, "idle"), worker[w].job \notin again
  PROVE  LET u == worker[w].job
         IN  u \in Ids /\ table[u].state = "leased" /\ table[u].owner = w /\ u \in live /\ promised[u] = {table[u]}
BY DEF Inv, WorkersOK, HasLease

\* A step that leaves the queue alone.
LEMMA QueueRests == ASSUME QueueOK, UNCHANGED queue PROVE QueueOK'
BY DEF QueueOK, queue

-----------------------------------------------------------------------------
(* Uploads.                                                                *)

\* A beginning of a video is a file, of its length.
LEMMA StartIs ==
  ASSUME NEW n \in 0..FileSize
  PROVE  Start(n) # Nothing /\ Len(Start(n)) = n /\ SizeOf(Start(n)) = n
<1>1. FileSize \in Nat /\ n \in Nat
  BY StreamForgeAssumption
<1>2. Start(n) # Nothing
  BY StreamForgeAssumption DEF Start
<1>3. Len(Start(n)) = n
  BY <1>1 DEF Start
<1> QED
  BY <1>2, <1>3 DEF SizeOf

\* What arrives at the end of a beginning makes a longer one.
LEMMA StartGrows ==
  ASSUME NEW k \in Nat, NEW n \in Nat, k + n <= FileSize
  PROVE  Start(k) \o SubSeq(File, k + 1, k + n) = Start(k + n)
<1>1. FileSize \in Nat
  BY StreamForgeAssumption
<1> DEFINE rest == SubSeq(File, k + 1, k + n)
           all == Start(k) \o rest
<1>2. Start(k) \in Seq(Nat) /\ Start(k + n) \in Seq(Nat) /\ File \in Seq(Nat) /\ Len(Start(k)) = k
      /\ Len(Start(k + n)) = k + n /\ Len(File) = FileSize
  BY <1>1 DEF Start, File
<1>3. rest \in Seq(Nat) /\ Len(rest) = n /\ \A i \in 1..n : rest[i] = k + i
  <2>1. \A i \in k + 1 .. k + n : File[i] = i
    BY <1>1 DEF File
  <2>2. \A i \in k + 1 .. k + n : File[i] \in Nat
    BY <2>1
  <2>3. rest = [i \in 1..n |-> File[k + i]]
    BY <1>1, <1>2
  <2>4. \A i \in 1..n : File[k + i] = k + i
    BY <1>1 DEF File
  <2> HIDE DEF rest
  <2> QED
    BY <2>3, <2>4
<1> HIDE DEF rest
<1>4. all \in Seq(Nat) /\ Len(all) = k + n
      /\ \A i \in 1..k + n : all[i] = IF i <= k THEN Start(k)[i] ELSE rest[i - k]
  <2> DEFINE begun == Start(k)
  <2>1. begun \in Seq(Nat) /\ rest \in Seq(Nat) /\ Len(begun) = k /\ Len(rest) = n
    BY <1>2, <1>3
  <2> HIDE DEF begun
  <2>2. begun \o rest \in Seq(Nat) /\ Len(begun \o rest) = k + n
        /\ \A i \in 1..k + n : (begun \o rest)[i] = IF i <= k THEN begun[i] ELSE rest[i - k]
    BY <2>1, ConcatProperties
  <2> QED
    BY <2>2 DEF begun
<1>5. \A i \in 1..k + n : all[i] = i
  <2> SUFFICES ASSUME NEW i \in 1..k + n PROVE all[i] = i
    OBVIOUS
  <2> HIDE DEF all
  <2>1. CASE i <= k
    BY <1>4, <2>1 DEF Start
  <2>2. CASE i > k
    <3>1. i - k \in 1..n /\ k + (i - k) = i
      BY <2>2
    <3> QED
      BY <1>3, <1>4, <2>2, <3>1
  <2> QED
    BY <2>1, <2>2
<1>6. \A i \in 1..k + n : Start(k + n)[i] = i
  BY DEF Start
<1> HIDE DEF all
<1>7. all = Start(k + n)
  BY <1>2, <1>4, <1>5, <1>6, SeqEqual
<1> QED
  BY <1>7 DEF all, rest

\* A chunk goes on where the file ends, or is not taken (ObjectStore.PutChunk, store.go).
LEMMA PutChunkInv ==
  ASSUME ~LateChunks, Inv, NEW u \in Ids, NEW offset \in 0..FileSize, NEW n \in 1..FileSize, PutChunk(u, offset, n)
  PROVE  Inv'
<1>1. FileSize \in Nat /\ offset \in Nat /\ n \in Nat /\ n >= 1 /\ offset + n <= FileSize
  BY StreamForgeAssumption DEF PutChunk
<1>2. UploadsOK /\ UploadOK(u)
  BY DEF Inv, UploadsOK
<1>3. source' = source /\ UNCHANGED <<queue, outputs, worker, again>>
  BY DEF PutChunk
<1>4. source[u] = Nothing
  <2>1. CASE offset = told[u]
    BY <1>1, <1>2, <2>1 DEF UploadOK
  <2>2. CASE offset = 0 /\ source[u] = Nothing
    BY <2>2
  <2> QED
    BY <2>1, <2>2 DEF PutChunk
<1>5. PICK k \in 0..FileSize : told[u] \in 0..k /\ (part[u] = Start(k) \/ (part[u] = Nothing /\ k = 0))
  BY <1>2, <1>4 DEF UploadOK
<1>6. SizeOf(part[u]) = k /\ k \in Nat
  BY <1>1, <1>5, StartIs DEF SizeOf
<1>7. /\ part' = [v \in Ids |-> part'[v]] /\ told' = [v \in Ids |-> told'[v]]
      /\ \A v \in Ids : v # u => part'[v] = part[v] /\ told'[v] = told[v]
      /\ UploadOK(u)'
  <2>1. CASE Fits(u, offset)
    <3>1. offset = k /\ k + n \in 0..FileSize
      BY <1>1, <1>6, <2>1 DEF Fits
    <3>2. (IF part[u] = Nothing THEN <<>> ELSE part[u]) = Start(k)
      <4>1. CASE part[u] = Nothing
        <5>1. k = 0
          BY <1>5, <4>1, StartIs
        <5>2. Start(0) = <<>>
          BY DEF Start
        <5> QED
          BY <4>1, <5>1, <5>2
      <4>2. CASE part[u] # Nothing
        BY <1>5, <4>2
      <4> QED
        BY <4>1, <4>2
    <3>3. part' = [part EXCEPT ![u] = Start(k) \o SubSeq(File, offset + 1, offset + n)]
      BY <2>1, <3>2 DEF PutChunk
    <3>4. /\ part' = [v \in Ids |-> part'[v]] /\ part'[u] = Start(k + n)
          /\ \A v \in Ids : v # u => part'[v] = part[v]
      <4>1. Start(k) \o SubSeq(File, offset + 1, offset + n) = Start(k + n)
        BY <1>1, <1>6, <3>1, StartGrows
      <4>2. part' = [part EXCEPT ![u] = Start(k + n)]
        BY <3>3, <4>1
      <4> QED
        BY <1>2, <4>2 DEF UploadsOK
    <3>5. SizeOf(part'[u]) = k + n
      BY <3>1, <3>4, StartIs
    <3>6. told' = [told EXCEPT ![u] = k + n] \/ told' = told
      BY <2>1, <3>5 DEF PutChunk
    <3>7. /\ told' = [v \in Ids |-> told'[v]] /\ told'[u] \in 0..k + n
          /\ \A v \in Ids : v # u => told'[v] = told[v]
      BY <1>1, <1>2, <1>5, <1>6, <3>6 DEF UploadsOK
    <3>8. UploadOK(u)'
      BY <1>3, <1>4, <3>1, <3>4, <3>7 DEF UploadOK
    <3> QED
      BY <3>4, <3>7, <3>8
  <2>2. CASE ~Fits(u, offset)
    <3>1. part' = part /\ told' = [told EXCEPT ![u] = k]
      BY <1>6, <2>2 DEF PutChunk
    <3>2. /\ told' = [v \in Ids |-> told'[v]] /\ told'[u] = k
          /\ \A v \in Ids : v # u => told'[v] = told[v]
      BY <1>2, <3>1 DEF UploadsOK
    <3>3. UploadOK(u)'
      BY <1>3, <1>4, <1>5, <1>6, <3>1, <3>2 DEF UploadOK
    <3> QED
      BY <1>2, <3>1, <3>2, <3>3 DEF UploadsOK
  <2> QED
    BY <2>1, <2>2
<1>8. UploadsOK'
  <2>1. \A v \in Ids : v # u => UploadOK(v)'
    BY <1>2, <1>3, <1>7 DEF UploadsOK, UploadOK
  <2> QED
    BY <1>2, <1>3, <1>7, <2>1 DEF UploadsOK
<1>9. QueueOK' /\ WorkersOK' /\ OutputsOK'
  BY <1>3 DEF Inv, QueueOK, WorkersOK, OutputsOK, HasLease, HasWork, At, MayBeCompleted, queue, outputs
<1> QED
  BY <1>8, <1>9 DEF Inv

\* The file moves into place whole, and its job is created, or created again
\* (API.completeUpload, http.go).
LEMMA CompleteUploadInv ==
  ASSUME ~Pauses, Inv, NEW u \in Ids, CompleteUpload(u)
  PROVE  Inv'
<1>1. /\ told' = told /\ UNCHANGED <<outputs, worker>> /\ LeasesGoOn /\ told[u] = FileSize
      /\ \/ /\ Queue!Create(u) \/ Queue!CreateFails(u)
            /\ (again' = again /\ table[u] = Queue!NoJob) \/ again' = again \union {u}
         \/ UNCHANGED <<queue, again>>
  BY DEF CompleteUpload
<1>2. UploadsOK /\ UploadOK(u) /\ FileSize \in Nat \ {0}
  BY StreamForgeAssumption DEF Inv, UploadsOK
<1>3. UploadsOK'
  <2>1. CASE part[u] = Nothing
    <3>1. part' = part /\ source' = source
      BY <2>1 DEF CompleteUpload
    <3> QED
      BY <1>1, <1>2, <3>1 DEF UploadsOK, UploadOK
  <2>2. CASE part[u] # Nothing
    <3>1. source' = [source EXCEPT ![u] = part[u]] /\ part' = [part EXCEPT ![u] = Nothing]
      BY <2>2 DEF CompleteUpload
    <3>2. /\ source' = [v \in Ids |-> source'[v]] /\ part' = [v \in Ids |-> part'[v]]
          /\ source'[u] = part[u] /\ part'[u] = Nothing
          /\ \A v \in Ids : v # u => source'[v] = source[v] /\ part'[v] = part[v]
      BY <1>2, <3>1 DEF UploadsOK
    <3>3. part[u] = File
      <4>1. PICK n \in 0..FileSize : told[u] \in 0..n /\ part[u] = Start(n)
        BY <1>2, <2>2 DEF UploadOK
      <4>2. n = FileSize
        BY <1>1, <1>2, <4>1
      <4> QED
        BY <4>1, <4>2 DEF Start, File
    <3>4. \A v \in Ids : UploadOK(v)'
      <4>1. UploadOK(u)'
        BY <1>1, <2>2, <3>2, <3>3 DEF UploadOK
      <4>2. \A v \in Ids : v # u => UploadOK(v)'
        BY <1>1, <1>2, <3>2 DEF UploadsOK, UploadOK
      <4> QED
        BY <4>1, <4>2
    <3> QED
      BY <1>1, <1>2, <3>2, <3>4 DEF UploadsOK
  <2> QED
    BY <2>1, <2>2
<1>4. QueueOK' /\ WorkersOK' /\ OutputsOK'
  <2>1. CASE /\ Queue!Create(u) \/ Queue!CreateFails(u)
             /\ (again' = again /\ table[u] = Queue!NoJob) \/ again' = again \union {u}
    <3> DEFINE row == Queue!Row("queued", 0, NoWorker)
    <3>1. /\ row \in Rows /\ row.state = "queued"
          /\ Queue!NoJob \in Rows /\ Queue!NoJob.state = "none"
      BY DEF Queue!Row, Rows, Queue!NoJob
    <3> HIDE DEF row
    <3>2. QueueOK' /\ Adds(u, {Queue!NoJob, row})
      <4>1. CASE Queue!Create(u)
        <5>1. QueueOK' /\ Adds(u, {row})
          BY <3>1, <4>1, BecomeAdds DEF Queue!Create, Inv, row
        <5> QED
          BY <5>1 DEF Adds
      <4>2. CASE Queue!CreateFails(u)
        <5>1. /\ table' = [table EXCEPT ![u] = Queue!NoJob]
              /\ promised' = [promised EXCEPT ![u] = @ \union {Queue!NoJob, row}]
          BY <4>2 DEF Queue!CreateFails, row
        <5> QED
          BY <3>1, <5>1 DEF Inv, QueueOK, Adds
      <4> QED
        BY <2>1, <4>1, <4>2
    <3>3. ASSUME NEW w \in Workers, ~At(w, "idle"), worker[w].job \notin again' PROVE worker[w].job # u
      <4>1. CASE again' = again /\ table[u] = Queue!NoJob
        BY <3>1, <3>3, <4>1, WorksOnLeased
      <4>2. CASE again' = again \union {u}
        BY <3>3, <4>2
      <4> QED
        BY <2>1, <4>1, <4>2
    <3>4. again \subseteq again' /\ \A r \in {Queue!NoJob, row} : r.state # "completed"
      BY <2>1, <3>1
    <3> QED
      BY <1>1, <3>2, <3>3, <3>4, CallKeeps
  <2>2. CASE UNCHANGED <<queue, again>>
    BY <1>1, <2>2 DEF Inv, QueueOK, WorkersOK, OutputsOK, HasLease, HasWork, At, MayBeCompleted, queue, outputs
  <2> QED
    BY <1>1, <2>1, <2>2
<1> QED
  BY <1>3, <1>4 DEF Inv

-----------------------------------------------------------------------------
(* The queue.                                                              *)

\* A dead job is nobody's.
LEMMA ReplayDeadInv ==
  ASSUME ~Pauses, Inv, NEW u \in Ids, ReplayDead(u)
  PROVE  Inv'
<1> DEFINE row == Queue!Row("queued", 0, NoWorker)
<1>1. row \in Rows /\ row.state = "queued"
  BY DEF Queue!Row, Rows
<1>2. Queue!Become(u, row, live) /\ table[u].state = "dead" /\ UNCHANGED <<uploads, outputs, worker, again>> /\ LeasesGoOn
  BY DEF ReplayDead, Queue!ReplayDead
<1> HIDE DEF row
<1>3. QueueOK' /\ Adds(u, {row})
  BY <1>1, <1>2, BecomeAdds DEF Inv
<1>4. \A w \in Workers : ~At(w, "idle") /\ worker[w].job \notin again' => worker[w].job # u
  BY <1>2, WorksOnLeased
<1>5. \A r \in {row} : r.state # "completed"
  BY <1>1
<1>6. WorkersOK' /\ OutputsOK'
  BY <1>2, <1>3, <1>4, <1>5, CallKeeps
<1>7. UploadsOK'
  BY <1>2 DEF Inv, UploadsOK, UploadOK, uploads
<1> QED
  BY <1>3, <1>6, <1>7 DEF Inv

\* A lease runs out only when nobody keeps it.
LEMMA ExpireInv ==
  ASSUME ~Pauses, Inv, NEW u \in Ids, Expire(u)
  PROVE  Inv'
<1>1. live' = live \ {u} /\ UNCHANGED <<table, promised, uploads, outputs, worker, again>>
      /\ (table[u].owner \in Workers => ~Keeps(table[u].owner, u))
  BY DEF Expire
<1>2. \A w \in Workers : ~At(w, "idle") /\ worker[w].job \notin again => worker[w].job # u
  BY <1>1, WorksOnLeased DEF Keeps, At
<1>3. WorkersOK'
  BY <1>1, <1>2 DEF Inv, WorkersOK, HasLease, HasWork, At, outputs
<1> QED
  BY <1>1, <1>3 DEF Inv, QueueOK, UploadsOK, UploadOK, OutputsOK, MayBeCompleted, uploads, outputs

\* A restart of the queue finds what somebody was told of, or later: what workers are at
\* work on is still theirs.
LEMMA QueueRestartInv ==
  ASSUME ~Pauses, Inv, QueueRestart
  PROVE  Inv'
<1>1. /\ table' \in [Ids -> UNION {promised[i] : i \in Ids}] /\ \A i \in Ids : table'[i] \in promised[i]
      /\ promised' \in {promised, [i \in Ids |-> {table'[i]}]}
      /\ UNCHANGED <<uploads, outputs, worker, again>> /\ LeasesGoOn
  BY DEF QueueRestart, Queue!Restart, Queue!Found
<1>2. promised \in [Ids -> SUBSET Rows]
  BY DEF Inv, QueueOK
<1>3. table' \in [Ids -> Rows]
  BY <1>1, <1>2
<1>4. promised' \in [Ids -> SUBSET Rows]
      /\ \A i \in Ids : table'[i] \in promised'[i] /\ promised'[i] \subseteq promised[i]
  BY <1>1, <1>2, <1>3
<1>5. QueueOK'
  BY <1>3, <1>4 DEF QueueOK
<1>6. WorkersOK'
  <2> SUFFICES ASSUME NEW w \in Workers, ~At(w, "idle"), worker[w].job \notin again PROVE HasLease(w)' /\ HasWork(w)'
    BY <1>1 DEF Inv, WorkersOK, At
  <2>1. HasLease(w) /\ HasWork(w)
    BY DEF Inv, WorkersOK
  <2>2. promised'[worker[w].job] \subseteq promised[worker[w].job]
    BY <1>4, <2>1 DEF HasLease
  <2>3. HasLease(w)'
    BY <1>1, <1>5, <2>1, <2>2, LeaseKept DEF At
  <2> QED
    BY <1>1, <2>1, <2>3 DEF HasWork, At, outputs
<1>7. OutputsOK'
  BY <1>1, <1>4 DEF Inv, OutputsOK, MayBeCompleted, outputs
<1>8. UploadsOK'
  BY <1>1 DEF Inv, UploadsOK, UploadOK, uploads
<1> QED
  BY <1>5, <1>6, <1>7, <1>8 DEF Inv

-----------------------------------------------------------------------------
(* Workers.                                                                *)

\* Whoever leases a job is told, and then a restart finds the lease, or is not, and nobody is at
\* work on it.
LEMMA LeaseInv ==
  ASSUME ~Pauses, Inv, NEW w \in Workers, NEW u \in Ids, Lease(w, u)
  PROVE  Inv'
<1> DEFINE row == Queue!Row("leased", table[u].attempts + 1, w)
<1>1. row \in Rows /\ row.state = "leased" /\ row.owner = w
  BY DEF Queue!Row, Rows, Inv, QueueOK
<1>2. /\ At(w, "idle") /\ Queue!Become(u, row, live \union {u}) /\ UNCHANGED <<uploads, outputs, again>> /\ LeasesGoOn
      /\ table[u].state = "queued" \/ (table[u].state = "leased" /\ u \notin live)
      /\ \/ promised'[u] = {table'[u]} /\ worker' = [worker EXCEPT ![w] = [at |-> "clear", job |-> u, done |-> {}]]
         \/ worker' = worker
  BY DEF Lease, Queue!Lease, Answered
<1> HIDE DEF row
<1>3. QueueOK' /\ Adds(u, {row}) /\ row \in promised'[u]
  BY <1>1, <1>2, BecomeAdds DEF Inv
<1>4. \A v \in Workers : ~At(v, "idle") /\ worker[v].job \notin again => worker[v].job # u
  BY <1>2, WorksOnLeased
<1>5. ASSUME NEW v \in Workers, ~At(v, "idle"), worker[v].job \notin again, worker'[v] = worker[v]
      PROVE  HasLease(v)' /\ HasWork(v)'
  BY <1>2, <1>3, <1>4, <1>5, OthersKept
<1>6. WorkersOK'
  <2>1. CASE worker' = worker
    BY <1>2, <1>5, <2>1 DEF Inv, WorkersOK, At
  <2>2. CASE promised'[u] = {table'[u]} /\ worker' = [worker EXCEPT ![w] = [at |-> "clear", job |-> u, done |-> {}]]
    <3>1. /\ worker' \in [Workers -> [at : Steps, job : Ids \union {0}, done : SUBSET Renditions]]
          /\ worker'[w].at = "clear" /\ worker'[w].job = u
          /\ \A v \in Workers : v # w => worker'[v] = worker[v]
      BY <2>2 DEF Inv, WorkersOK, Steps
    <3>2. table'[u] = row
      BY <1>3, <2>2
    <3>3. u \in live'
      <4>1. Keeps(w, u)'
        BY <3>1 DEF Keeps
      <4>2. table'[u].state = "leased" /\ table'[u].owner = w
        BY <1>1, <3>2
      <4> QED
        BY <1>2, <4>1, <4>2 DEF LeasesGoOn
    <3>4. HasLease(w)' /\ HasWork(w)'
      BY <1>1, <2>2, <3>1, <3>2, <3>3 DEF HasLease, HasWork, At
    <3> QED
      BY <1>2, <1>5, <3>1, <3>4 DEF Inv, WorkersOK, At
  <2> QED
    BY <1>2, <2>1, <2>2
<1>7. OutputsOK'
  <2>1. \A r \in {row} : r.state # "completed"
    BY <1>1
  <2> QED
    BY <1>2, <1>3, <2>1, OutputsKept DEF Inv
<1>8. UploadsOK'
  BY <1>2 DEF Inv, UploadsOK, UploadOK, uploads
<1> QED
  BY <1>3, <1>6, <1>7, <1>8 DEF Inv

\* The one at work on a job is alone with its directories: what its step leaves of them is all
\* there is to show.
LEMMA WorkInv ==
  ASSUME Inv, UNCHANGED <<queue, uploads, again>>, NEW w \in Workers, ~At(w, "idle"),
         NEW h \in [at : Steps, job : Ids \union {0}, done : SUBSET Renditions], worker' = [worker EXCEPT ![w] = h],
         h.at # "idle" => h.job = worker[w].job, NEW d, NEW o,
         worker[w].job \notin again => o \in {Nothing, Whole} /\ (h.at # "idle" => HasWork(w)'),
         work' = [work EXCEPT ![worker[w].job] = d], out' = [out EXCEPT ![worker[w].job] = o]
  PROVE  Inv'
<1> DEFINE u == worker[w].job
<1>1. u \in Ids /\ (u \notin again => table[u].state = "leased" /\ table[u].owner = w /\ u \in live /\ promised[u] = {table[u]})
  BY WorksOnLeased DEF Inv, WorkersOK
<1>2. /\ worker' \in [Workers -> [at : Steps, job : Ids \union {0}, done : SUBSET Renditions]]
      /\ worker'[w] = h /\ \A v \in Workers : v # w => worker'[v] = worker[v]
  BY DEF Inv, WorkersOK
<1>3. /\ work' = [v \in Ids |-> work'[v]] /\ out' = [v \in Ids |-> out'[v]] /\ out'[u] = o
      /\ \A v \in Ids : v # u => work'[v] = work[v] /\ out'[v] = out[v]
  BY <1>1 DEF Inv, OutputsOK
<1>0. u \notin again => o \in {Nothing, Whole} /\ (h.at # "idle" => HasWork(w)')
  OBVIOUS
<1>10. h.at # "idle" => h.job = u
  OBVIOUS
<1> HIDE DEF u
<1>4. ASSUME NEW v \in Workers, v # w, ~At(v, "idle"), worker[v].job \notin again
      PROVE  HasLease(v)' /\ HasWork(v)'
  <2>1. HasLease(v) /\ HasWork(v) /\ worker[v].job \in Ids /\ worker[v].job # u
    BY <1>1, <1>4, WorksOnLeased DEF Inv, WorkersOK
  <2>2. worker'[v] = worker[v]
    BY <1>2, <1>4
  <2> QED
    BY <1>3, <2>1, <2>2 DEF HasLease, HasWork, At, queue
<1>5. ASSUME h.at # "idle", u \notin again PROVE HasLease(w)'
  BY <1>1, <1>2, <1>5, <1>10 DEF HasLease, queue
<1>6. WorkersOK'
  BY <1>0, <1>1, <1>2, <1>4, <1>5, <1>10 DEF Inv, WorkersOK, At
<1>7. u \notin again => ~MayBeCompleted(u)
  BY <1>1 DEF MayBeCompleted
<1>8. OutputsOK'
  BY <1>0, <1>3, <1>7 DEF Inv, OutputsOK, MayBeCompleted, queue
<1> QED
  BY <1>6, <1>8 DEF Inv, QueueOK, UploadsOK, UploadOK, queue, uploads

\* Cleared, encoded, with its manifest, moved into place or given up: each step leaves in the
\* directories what the next one builds on (transcode.go).
LEMMA TranscodeInv ==
  ASSUME Inv, NEW w \in Workers, Transcode(w) \/ ReportLost(w) \/ WorkerCrash(w), worker[w].job \notin again
  PROVE  Inv'
<1> DEFINE u == worker[w].job
<1>1. ~At(w, "idle") /\ UNCHANGED <<queue, uploads, again>>
  BY DEF Transcode, Clear, Encode, Master, Remove, Rename, TranscodeFails, ReportLost, WorkerCrash, At
<1>2. u \in Ids /\ HasWork(w)
  BY <1>1, WorksOnLeased DEF Inv, WorkersOK
<1>3. /\ worker \in [Workers -> [at : Steps, job : Ids \union {0}, done : SUBSET Renditions]]
      /\ work = [v \in Ids |-> work[v]] /\ out = [v \in Ids |-> out[v]] /\ out[u] \in {Nothing, Whole}
  BY <1>2 DEF Inv, WorkersOK, OutputsOK
<1>4. work = [work EXCEPT ![u] = work[u]] /\ out = [out EXCEPT ![u] = out[u]]
  BY <1>2, <1>3
<1> DEFINE H == [at : Steps, job : Ids \union {0}, done : SUBSET Renditions]
<1>5. \A at \in Steps : [worker[w] EXCEPT !.at = at] \in H /\ [worker[w] EXCEPT !.at = at].job = u
                          /\ [worker[w] EXCEPT !.at = at].at = at /\ [worker[w] EXCEPT !.at = at].done = worker[w].done
  BY <1>3
<1>6. Idle \in H /\ Idle.at = "idle"
  BY DEF Idle, Steps
<1>7. Whole = Renditions \union {"master"}
  BY DEF Whole
<1> HIDE DEF u, H
<1>8. ASSUME NEW h \in H, NEW d, NEW o \in {Nothing, Whole}, worker' = [worker EXCEPT ![w] = h],
             work' = [work EXCEPT ![u] = d], out' = [out EXCEPT ![u] = o],
             h.at # "idle" => /\ h.job = u
                              /\ h.at = "clear" => h.done = {}
                              /\ h.at = "encode" => d = h.done
                              /\ h.at \in {"remove", "rename"} => d = Whole
                              /\ h.at = "complete" => o = Whole
      PROVE  Inv'
  <2>1. worker'[w] = h /\ work'[u] = d /\ out'[u] = o
    BY <1>2, <1>3, <1>8
  <2>2. h.at # "idle" => h.job = u /\ HasWork(w)'
    BY <1>8, <2>1 DEF HasWork, At
  <2> QED
    BY <1>1, <1>8, <2>2, WorkInv DEF u, H
<1>9. CASE Clear(w)
  <2> DEFINE h == [worker[w] EXCEPT !.at = "encode"]
  <2>1. h \in H /\ h.job = u /\ h.at = "encode" /\ h.done = {}
    BY <1>2, <1>5, <1>9 DEF HasWork, Clear, At, Steps
  <2>2. worker' = [worker EXCEPT ![w] = h] /\ work' = [work EXCEPT ![u] = {}] /\ out' = [out EXCEPT ![u] = out[u]]
    BY <1>3, <1>4, <1>9 DEF Clear, Go, u
  <2> HIDE DEF h
  <2> QED
    BY <1>3, <1>8, <2>1, <2>2
<1>10. ASSUME NEW r \in Renditions, Encode(w, r) PROVE Inv'
  <2> DEFINE h == [worker[w] EXCEPT !.done = @ \union {r}]
             d == work[u] \union {r}
  <2>1. h \in H /\ h.job = u /\ h.at = "encode" /\ h.done = d
    BY <1>2, <1>3, <1>10 DEF HasWork, Encode, At, H, u
  <2>2. worker' = [worker EXCEPT ![w] = h] /\ work' = [work EXCEPT ![u] = d] /\ out' = [out EXCEPT ![u] = out[u]]
    BY <1>3, <1>4, <1>10 DEF Encode, u
  <2> HIDE DEF h, d
  <2> QED
    BY <1>3, <1>8, <2>1, <2>2
<1>11. CASE Master(w)
  <2> DEFINE h == [worker[w] EXCEPT !.at = "remove"]
             d == work[u] \union {"master"}
  <2>1. h \in H /\ h.job = u /\ h.at = "remove"
    BY <1>5 DEF Steps
  <2>2. d = Whole
    BY <1>2, <1>7, <1>11 DEF HasWork, Master, AllDone, At, u
  <2>3. worker' = [worker EXCEPT ![w] = h] /\ work' = [work EXCEPT ![u] = d] /\ out' = [out EXCEPT ![u] = out[u]]
    BY <1>3, <1>4, <1>11 DEF Master, Go, u
  <2> HIDE DEF h, d
  <2> QED
    BY <1>3, <1>8, <2>1, <2>2, <2>3
<1>12. CASE Remove(w)
  <2> DEFINE h == [worker[w] EXCEPT !.at = "rename"]
  <2>1. h \in H /\ h.job = u /\ h.at = "rename"
    BY <1>5 DEF Steps
  <2>2. work[u] = Whole
    BY <1>2, <1>12 DEF HasWork, Remove, At, u
  <2>3. worker' = [worker EXCEPT ![w] = h] /\ work' = [work EXCEPT ![u] = work[u]] /\ out' = [out EXCEPT ![u] = Nothing]
    BY <1>3, <1>4, <1>12 DEF Remove, Go, u
  <2> HIDE DEF h
  <2> QED
    BY <1>8, <2>1, <2>2, <2>3
<1>13. CASE Rename(w)
  <2> DEFINE h == [worker[w] EXCEPT !.at = "complete"]
  <2>1. h \in H /\ h.job = u /\ h.at = "complete"
    BY <1>5 DEF Steps
  <2>2. work[u] = Whole
    BY <1>2, <1>13 DEF HasWork, Rename, At, u
  <2>3. worker' = [worker EXCEPT ![w] = h] /\ work' = [work EXCEPT ![u] = Nothing] /\ out' = [out EXCEPT ![u] = Whole]
    BY <1>3, <1>13, <2>2 DEF Rename, Go, u
  <2> HIDE DEF h
  <2> QED
    BY <1>8, <2>1, <2>3
<1>14. CASE TranscodeFails(w)
  <2> DEFINE h == [worker[w] EXCEPT !.at = "fail"]
  <2>1. h \in H /\ h.job = u /\ h.at = "fail"
    BY <1>5 DEF Steps
  <2>2. worker' = [worker EXCEPT ![w] = h] /\ work' = [work EXCEPT ![u] = work[u]] /\ out' = [out EXCEPT ![u] = out[u]]
    BY <1>3, <1>4, <1>14 DEF TranscodeFails, Go, outputs
  <2> HIDE DEF h
  <2> QED
    BY <1>3, <1>8, <2>1, <2>2
<1>15. CASE ReportLost(w) \/ WorkerCrash(w)
  <2>1. worker' = [worker EXCEPT ![w] = Idle] /\ work' = [work EXCEPT ![u] = work[u]] /\ out' = [out EXCEPT ![u] = out[u]]
    BY <1>3, <1>4, <1>15 DEF ReportLost, WorkerCrash, outputs
  <2> QED
    BY <1>3, <1>6, <1>8, <2>1
<1> QED
  BY <1>9, <1>10, <1>11, <1>12, <1>13, <1>14, <1>15 DEF Transcode

\* On a job created again others may be at work too: nothing is said of its directories.
LEMMA TranscodeAgain ==
  ASSUME Inv, NEW w \in Workers, Transcode(w) \/ ReportLost(w) \/ WorkerCrash(w), worker[w].job \in again
  PROVE  Inv'
<1> DEFINE u == worker[w].job
           H == [at : Steps, job : Ids \union {0}, done : SUBSET Renditions]
<1>1. ~At(w, "idle") /\ UNCHANGED <<queue, uploads, again>>
  BY DEF Transcode, Clear, Encode, Master, Remove, Rename, TranscodeFails, ReportLost, WorkerCrash, At
<1>2. /\ u \in Ids /\ worker \in [Workers -> H] /\ work = [v \in Ids |-> work[v]] /\ out = [v \in Ids |-> out[v]]
  BY <1>1 DEF Inv, WorkersOK, OutputsOK
<1>3. \A at \in Steps : [worker[w] EXCEPT !.at = at] \in H /\ [worker[w] EXCEPT !.at = at].job = u
  BY <1>2
<1>4. \A r \in Renditions : [worker[w] EXCEPT !.done = @ \union {r}] \in H /\ [worker[w] EXCEPT !.done = @ \union {r}].job = u
  BY <1>2
<1>5. Idle \in H /\ Idle.at = "idle"
  BY DEF Idle, Steps
<1>6. \E h \in H : worker' = [worker EXCEPT ![w] = h] /\ (h.at # "idle" => h.job = u)
  <2>1. CASE \E at \in Steps : worker' = [worker EXCEPT ![w] = [worker[w] EXCEPT !.at = at]]
    BY <1>3, <2>1
  <2>2. CASE \E r \in Renditions : worker' = [worker EXCEPT ![w] = [worker[w] EXCEPT !.done = @ \union {r}]]
    BY <1>4, <2>2
  <2>3. CASE worker' = [worker EXCEPT ![w] = Idle]
    BY <1>5, <2>3
  <2>4. \/ \E at \in Steps : worker' = [worker EXCEPT ![w].at = at]
        \/ \E r \in Renditions : worker' = [worker EXCEPT ![w].done = @ \union {r}]
        \/ worker' = [worker EXCEPT ![w] = Idle]
    BY DEF Transcode, Clear, Encode, Master, Remove, Rename, TranscodeFails, ReportLost, WorkerCrash, Go, Steps
  <2> QED
    BY <1>2, <2>1, <2>2, <2>3, <2>4
<1>7. \E d : work' = [work EXCEPT ![u] = d]
  <2>1. work = [work EXCEPT ![u] = work[u]]
    BY <1>2
  <2> QED
    BY <2>1 DEF Transcode, Clear, Encode, Master, Remove, Rename, TranscodeFails, ReportLost, WorkerCrash, outputs
<1>8. \E o : out' = [out EXCEPT ![u] = o]
  <2>1. out = [out EXCEPT ![u] = out[u]]
    BY <1>2
  <2> QED
    BY <2>1 DEF Transcode, Clear, Encode, Master, Remove, Rename, TranscodeFails, ReportLost, WorkerCrash, outputs
<1>9. PICK h \in H : worker' = [worker EXCEPT ![w] = h] /\ (h.at # "idle" => h.job = u)
  BY <1>6
<1>10. PICK d : work' = [work EXCEPT ![u] = d]
  BY <1>7
<1>11. PICK o : out' = [out EXCEPT ![u] = o]
  BY <1>8
<1> QED
  BY <1>1, <1>9, <1>10, <1>11, WorkInv

\* A report counts while its worker has the lease; a job completed has its output in place.
LEMMA ReportInv ==
  ASSUME ~Pauses, Inv, NEW w \in Workers, Report(w)
  PROVE  Inv'
<1> DEFINE u == worker[w].job
<1>1. /\ worker[w].at \in {"complete", "fail"} /\ worker' = [worker EXCEPT ![w] = Idle]
      /\ UNCHANGED <<uploads, outputs, again>> /\ LeasesGoOn
  BY DEF Report
<1>2. /\ u \in Ids
      /\ u \notin again => table[u].state = "leased" /\ table[u].owner = w /\ u \in live /\ (At(w, "complete") => out[u] = Whole)
  BY <1>1, WorksOnLeased DEF Inv, WorkersOK, HasWork, At
<1>3. \/ UNCHANGED queue /\ u \in again
      \/ \E row \in Rows : Queue!Become(u, row, live \ {u}) /\ (row.state = "completed" => At(w, "complete"))
  <2>1. CASE Queue!Holds(u, w)
    <3>1. PICK state \in {"queued", "dead", "completed"} :
            /\ Queue!Become(u, Queue!Row(state, table[u].attempts, NoWorker), live \ {u})
            /\ state = "completed" => At(w, "complete")
      <4>1. CASE Succeeded(w)
        BY <2>1, <4>1 DEF Report, Succeeded, Queue!Complete
      <4>2. CASE ~Succeeded(w)
        BY <2>1, <4>2 DEF Report, Queue!Fail
      <4> QED
        BY <4>1, <4>2
    <3>2. /\ Queue!Row(state, table[u].attempts, NoWorker) \in Rows
          /\ Queue!Row(state, table[u].attempts, NoWorker).state = state
      BY <1>2 DEF Queue!Row, Rows, Inv, QueueOK
    <3> QED
      BY <3>1, <3>2
  <2>2. CASE ~Queue!Holds(u, w)
    BY <1>2, <2>2 DEF Report, Queue!Holds
  <2> QED
    BY <2>1, <2>2
<1> HIDE DEF u
<1>4. PICK rows : QueueOK' /\ Adds(u, rows) /\ \A row \in rows : row.state = "completed" => At(w, "complete")
  <2>1. CASE UNCHANGED queue
    <3>1. QueueOK' /\ Adds(u, {})
      BY <2>1 DEF Inv, QueueOK, Adds, queue
    <3> QED
      BY <3>1
  <2>2. ASSUME NEW row \in Rows, Queue!Become(u, row, live \ {u}), row.state = "completed" => At(w, "complete")
        PROVE  QueueOK' /\ Adds(u, {row}) /\ \A r \in {row} : r.state = "completed" => At(w, "complete")
    BY <1>2, <2>2, BecomeAdds DEF Inv
  <2> QED
    BY <1>3, <2>1, <2>2
<1>5. /\ worker' \in [Workers -> [at : Steps, job : Ids \union {0}, done : SUBSET Renditions]]
      /\ worker'[w].at = "idle" /\ \A v \in Workers : v # w => worker'[v] = worker[v]
  <2>1. Idle \in [at : Steps, job : Ids \union {0}, done : SUBSET Renditions] /\ Idle.at = "idle"
    BY DEF Idle, Steps
  <2> QED
    BY <1>1, <2>1 DEF Inv, WorkersOK
<1>6. ASSUME NEW v \in Workers, v # w, ~At(v, "idle"), worker[v].job \notin again
      PROVE  HasLease(v)' /\ HasWork(v)'
  <2>1. worker[v].job # u
    BY <1>2, <1>6, WorksOnLeased
  <2> QED
    BY <1>1, <1>4, <1>5, <1>6, <2>1, OthersKept
<1>7. WorkersOK'
  BY <1>1, <1>5, <1>6 DEF Inv, WorkersOK, At
<1>8. OutputsOK'
  BY <1>1, <1>2, <1>4, OutputsKept DEF Inv
<1>9. UploadsOK'
  BY <1>1 DEF Inv, UploadsOK, UploadOK, uploads
<1> QED
  BY <1>4, <1>7, <1>8, <1>9 DEF Inv

-----------------------------------------------------------------------------
(* The theorems.                                                           *)

LEMMA InitInv == ASSUME Init PROVE Inv
<1>1. /\ table = [u \in Ids |-> Queue!NoJob] /\ promised = [u \in Ids |-> {Queue!NoJob}]
      /\ part = [u \in Ids |-> Nothing] /\ source = [u \in Ids |-> Nothing] /\ told = [u \in Ids |-> 0]
      /\ work = [u \in Ids |-> Nothing] /\ out = [u \in Ids |-> Nothing] /\ worker = [w \in Workers |-> Idle]
  BY DEF Init, Queue!Init
<1>2. Queue!NoJob \in Rows /\ Queue!NoJob.state = "none"
  BY DEF Queue!NoJob, Rows
<1>3. QueueOK
  BY <1>1, <1>2 DEF QueueOK
<1>4. UploadsOK
  BY <1>1, StreamForgeAssumption DEF UploadsOK, UploadOK
<1>5. WorkersOK
  BY <1>1 DEF WorkersOK, Idle, At, Steps
<1>6. OutputsOK
  BY <1>1, <1>2 DEF OutputsOK, MayBeCompleted
<1> QED
  BY <1>3, <1>4, <1>5, <1>6 DEF Inv

LEMMA NextInv == ASSUME ~Pauses, ~LateChunks, Inv, [Next]_vars PROVE Inv'
<1>1. CASE UNCHANGED vars
  BY <1>1 DEF vars, queue, uploads, outputs, Inv, QueueOK, UploadsOK, UploadOK, WorkersOK, HasLease, HasWork, At,
              OutputsOK, MayBeCompleted
<1>2. ASSUME NEW u \in Ids, CompleteUpload(u) \/ ReplayDead(u) \/ Expire(u) PROVE Inv'
  BY <1>2, CompleteUploadInv, ReplayDeadInv, ExpireInv
<1>3. ASSUME NEW u \in Ids, NEW offset \in 0..FileSize, NEW n \in 1..FileSize, PutChunk(u, offset, n) PROVE Inv'
  BY <1>3, PutChunkInv
<1>4. ASSUME NEW w \in Workers, Process(w) \/ ReportLost(w) \/ WorkerCrash(w) PROVE Inv'
  BY <1>4, TranscodeInv, TranscodeAgain, ReportInv DEF Process
<1>5. ASSUME NEW w \in Workers, NEW u \in Ids, Lease(w, u) PROVE Inv'
  BY <1>5, LeaseInv
<1>6. CASE QueueRestart
  BY <1>6, QueueRestartInv
<1> QED
  BY <1>1, <1>2, <1>3, <1>4, <1>5, <1>6 DEF Next

\* The queue's rows, the uploads, the workers and their directories fit together in every state,
\* whatever is lost, fails or is restarted: the invariant of uploads and work holds.
THEOREM InvHolds ==
  ASSUME ~Pauses, ~LateChunks
  PROVE  Spec => []Inv
<1>1. Init => Inv
  BY InitInv
<1>2. Inv /\ [Next]_vars => Inv'
  BY NextInv
<1> QED
  BY <1>1, <1>2, PTL DEF Spec

\* A job is worked on by one worker at a time, though leases run out and are given again and the
\* queue is restarted: Worker.process renews the lease until its work is over.  Uploads completed
\* again under another key are left out.
THEOREM OneWorkerPerJobHolds ==
  ASSUME ~Pauses, ~LateChunks
  PROVE  Spec => []OneWorkerPerJob
<1>1. Inv => OneWorkerPerJob
  <2> SUFFICES ASSUME Inv, NEW v \in Workers, NEW w \in Workers, v # w, ~At(v, "idle"), ~At(w, "idle"),
                      worker[v].job \notin again
               PROVE  worker[v].job # worker[w].job
    BY DEF OneWorkerPerJob
  <2> QED
    BY WorksOnLeased
<1> QED
  BY <1>1, InvHolds, PTL

\* From chunk to published video nothing is lost or half done: sources are whole, so is what is
\* published, and a completed job has its output in place and keeps it; nothing is said of the
\* output of uploads completed again under another key.
THEOREM OutputsAreWholeHolds ==
  ASSUME ~Pauses, ~LateChunks
  PROVE  Spec => []OutputsAreWhole
<1>1. Inv => OutputsAreWhole
  <2> SUFFICES ASSUME Inv PROVE OutputsAreWhole
    OBVIOUS
  <2>1. SourceIsWhole
    BY DEF Inv, UploadsOK, UploadOK, SourceIsWhole
  <2>2. PublishedIsWhole
    BY DEF Inv, OutputsOK, PublishedIsWhole
  <2>3. \A u \in Ids \ again : table[u].state = "completed" => out[u] = Whole
    BY DEF Inv, QueueOK, OutputsOK, MayBeCompleted
  <2> QED
    BY <2>1, <2>2, <2>3 DEF OutputsAreWhole
<1> QED
  BY <1>1, InvHolds, PTL
=============================================================================
