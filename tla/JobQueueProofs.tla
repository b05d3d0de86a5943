---------------------------- MODULE JobQueueProofs ----------------------------
(***************************************************************************)
(* Proofs about StreamForge's queue, for any uploads, workers, keys and    *)
(* limits: what its runs check of memory, disk and promises is inductive,  *)
(* and with it the queue implements the abstract job table.                *)
(***************************************************************************)
EXTENDS JobQueue, WellFoundedInduction, TLAPS

(***************************************************************************)
(* Greatest and least elements.                                            *)
(***************************************************************************)

LEMMA Minimum ==
  ASSUME NEW U \in SUBSET Nat, U # {}
  PROVE  \E m \in U : \A k \in U : m <= k
<1>1. PICK m \in U : \A k \in U : ~ (<<k, m>> \in OpToRel(<, Nat))
  BY WFMin, NatLessThanWellFounded
<1>2. \A k \in U : ~(k < m)
  BY <1>1 DEF OpToRel
<1> QED BY <1>2

LEMMA LatestProperties ==
  ASSUME NEW n \in Nat, NEW S \in SUBSET (1..n), S # {}
  PROVE  Latest(S) \in S /\ \A j \in S : j <= Latest(S)
<1> DEFINE U == {n - x : x \in S}
<1>1. U \subseteq Nat
  <2> SUFFICES ASSUME NEW x \in S PROVE n - x \in Nat
    OBVIOUS
  <2> QED OBVIOUS
<1>2. U # {}
  OBVIOUS
<1>3. PICK m \in U : \A k \in U : m <= k
  BY <1>1, <1>2, Minimum
<1>4. PICK i \in S : m = n - i
  OBVIOUS
<1>5. ASSUME NEW j \in S PROVE j <= i
  <2>1. n - i <= n - j
    BY <1>3, <1>4
  <2> QED BY <2>1
<1> QED BY <1>5 DEF Latest

\* Which element is the latest follows from what Latest promises.
LEMMA LatestIs ==
  ASSUME NEW n \in Nat, NEW S \in SUBSET (1..n), NEW i \in S, \A j \in S : j <= i
  PROVE  Latest(S) = i
<1>1. Latest(S) \in 1..n /\ i \in 1..n /\ Latest(S) <= i /\ i <= Latest(S)
  BY LatestProperties
<1> QED BY <1>1

(***************************************************************************)
(* Journals: sequences of lines, of which the last may be torn.            *)
(***************************************************************************)

Journals == Seq(Lines \union {Torn})

LEMMA TornIsNoLine == Torn \notin Lines
BY DEF Torn, Lines

LEMMA AppendProperties ==
  ASSUME NEW S, NEW s \in Seq(S), NEW e \in S
  PROVE  /\ Append(s, e) \in Seq(S)
         /\ Len(Append(s, e)) = Len(s) + 1 /\ Len(s) \in Nat
         /\ DOMAIN s = 1..Len(s) /\ DOMAIN Append(s, e) = 1..Len(s) + 1
         /\ \A i \in 1..Len(s) : Append(s, e)[i] = s[i] /\ s[i] \in S
         /\ Append(s, e)[Len(s) + 1] = e
OBVIOUS

LEMMA WholeProperties ==
  ASSUME NEW lines \in Journals
  PROVE  /\ Whole(lines) \in Journals
         /\ Len(lines) \in Nat /\ Len(Whole(lines)) \in Nat /\ Len(Whole(lines)) <= Len(lines)
         /\ DOMAIN lines = 1..Len(lines) /\ DOMAIN Whole(lines) = 1..Len(Whole(lines))
         /\ \A i \in DOMAIN Whole(lines) : Whole(lines)[i] = lines[i]
         /\ lines = <<>> => Whole(lines) = <<>>
<1>1. CASE lines # <<>> /\ lines[Len(lines)] = Torn
  BY <1>1 DEF Whole, Journals
<1>2. CASE ~(lines # <<>> /\ lines[Len(lines)] = Torn)
  BY <1>2 DEF Whole, Journals
<1> QED BY <1>1, <1>2

LEMMA ReadableLines ==
  ASSUME NEW lines \in Journals, Readable(lines), NEW i \in DOMAIN Whole(lines)
  PROVE  lines[i] \in Lines
<1>1. lines[i] \in Lines \union {Torn}
  BY WholeProperties DEF Journals
<1> QED BY <1>1 DEF Readable

\* A line added to a journal without a torn end.
LEMMA LineAdded ==
  ASSUME NEW lines \in Journals, Whole(lines) = lines, Readable(lines), NEW line \in Lines
  PROVE  /\ Append(lines, line) \in Journals
         /\ Whole(Append(lines, line)) = Append(lines, line)
         /\ Readable(Append(lines, line))
<1>1. /\ Append(lines, line) \in Journals
      /\ DOMAIN Append(lines, line) = 1..Len(lines) + 1 /\ Len(Append(lines, line)) = Len(lines) + 1
      /\ Append(lines, line)[Len(lines) + 1] = line
      /\ \A i \in 1..Len(lines) : Append(lines, line)[i] = lines[i]
      /\ DOMAIN lines = 1..Len(lines)
  BY AppendProperties DEF Journals
<1>2. Whole(Append(lines, line)) = Append(lines, line)
  BY <1>1, TornIsNoLine DEF Whole
<1> QED BY <1>1, <1>2, TornIsNoLine DEF Readable

\* A part of a line, added likewise, is not read.
LEMMA TornAdded ==
  ASSUME NEW lines \in Journals
  PROVE  /\ Append(lines, Torn) \in Journals /\ Whole(Append(lines, Torn)) = lines
         /\ \A i \in DOMAIN lines : Append(lines, Torn)[i] = lines[i]
<1>1. /\ Append(lines, Torn) \in Journals
      /\ DOMAIN Append(lines, Torn) = 1..Len(lines) + 1 /\ Len(Append(lines, Torn)) = Len(lines) + 1
      /\ Append(lines, Torn)[Len(lines) + 1] = Torn
      /\ \A i \in 1..Len(lines) : Append(lines, Torn)[i] = lines[i]
      /\ DOMAIN lines = 1..Len(lines)
  BY AppendProperties DEF Journals
<1>2. Append(lines, Torn) # <<>>
  <2>1. Len(Append(lines, Torn)) # 0 /\ Len(<<>>) = 0
    BY <1>1 DEF Journals
  <2> QED BY <2>1
<1>3. Whole(Append(lines, Torn)) = SubSeq(Append(lines, Torn), 1, Len(lines))
  BY <1>1, <1>2 DEF Whole, Journals
<1>4. SubSeq(Append(lines, Torn), 1, Len(lines)) = lines
  BY <1>1 DEF Journals
<1> QED BY <1>1, <1>3, <1>4

(***************************************************************************)
(* Recovery: what a snapshot and a journal are together.                   *)
(***************************************************************************)

LEMMA NewerProperties ==
  ASSUME NEW s, NEW lines \in Journals, Readable(lines)
  PROVE  /\ Newer(s, lines) \subseteq 1..Len(Whole(lines)) /\ Len(Whole(lines)) \in Nat
         /\ \A i \in Newer(s, lines) : lines[i] \in Lines /\ i \in DOMAIN Whole(lines) /\ i \in Nat
<1>1. Newer(s, lines) \subseteq DOMAIN Whole(lines)
  BY DEF Newer
<1> QED BY <1>1, WholeProperties, ReadableLines

\* Of the lines about a job, or about a key, there is a last one.
LEMMA LatestOfJob ==
  ASSUME NEW s, NEW lines \in Journals, Readable(lines), NEW id, OfJob(s, lines, id) # {}
  PROVE  LET i == Latest(OfJob(s, lines, id))
         IN  /\ i \in Newer(s, lines) /\ lines[i].id = id /\ lines[i] \in Lines
             /\ \A j \in OfJob(s, lines, id) : j <= i
<1>1. OfJob(s, lines, id) \subseteq Newer(s, lines)
  BY DEF OfJob
<1>2. OfJob(s, lines, id) \in SUBSET (1..Len(Whole(lines))) /\ Len(Whole(lines)) \in Nat
  BY <1>1, NewerProperties
<1>3. Latest(OfJob(s, lines, id)) \in OfJob(s, lines, id)
      /\ \A j \in OfJob(s, lines, id) : j <= Latest(OfJob(s, lines, id))
  BY <1>2, LatestProperties
<1> QED BY <1>1, <1>3, NewerProperties DEF OfJob

LEMMA LatestOfKey ==
  ASSUME NEW s, NEW lines \in Journals, Readable(lines), NEW k, OfKey(s, lines, k) # {}
  PROVE  LET i == Latest(OfKey(s, lines, k))
         IN  /\ i \in Newer(s, lines) /\ lines[i].key = k /\ lines[i] \in Lines
             /\ \A j \in OfKey(s, lines, k) : j <= i
<1>1. OfKey(s, lines, k) \subseteq Newer(s, lines)
  BY DEF OfKey
<1>2. OfKey(s, lines, k) \in SUBSET (1..Len(Whole(lines))) /\ Len(Whole(lines)) \in Nat
  BY <1>1, NewerProperties
<1>3. Latest(OfKey(s, lines, k)) \in OfKey(s, lines, k)
      /\ \A j \in OfKey(s, lines, k) : j <= Latest(OfKey(s, lines, k))
  BY <1>2, LatestProperties
<1> QED BY <1>1, <1>3, NewerProperties DEF OfKey

LEMMA RecoverTypes ==
  ASSUME NEW s, IsSnapshot(s), NEW lines \in Journals, Readable(lines)
  PROVE  AreJobs(Recover(s, lines).jobs) /\ AreKeys(Recover(s, lines).keys) /\ Recover(s, lines).seq \in Nat
<1> DEFINE new == Newer(s, lines)
           got == Recover(s, lines)
           js  == [id \in DOMAIN s.jobs \union {lines[i].id : i \in new} |->
                     IF OfJob(s, lines, id) = {} THEN s.jobs[id] ELSE lines[Latest(OfJob(s, lines, id))].job]
           ks  == [k \in DOMAIN s.keys \union ({lines[i].key : i \in new} \ {NoKey}) |->
                     IF OfKey(s, lines, k) = {} THEN s.keys[k] ELSE lines[Latest(OfKey(s, lines, k))].id]
<1>1. /\ got.jobs = js /\ got.keys = ks
      /\ got.seq = IF new = {} THEN s.seq ELSE Larger(s.seq, lines[Latest(new)].seq)
  BY DEF Recover
<1>2. \A i \in new : lines[i].id \in Ids /\ lines[i].key \in Keys \union {NoKey} /\ lines[i].seq \in Nat
                   /\ lines[i].job \in Jobs
  BY NewerProperties DEF Lines
<1>3. AreJobs(js)
  <2>1. DOMAIN js \subseteq Ids
    BY <1>2 DEF IsSnapshot, AreJobs
  <2>2. ASSUME NEW id \in DOMAIN js PROVE js[id] \in Jobs
    <3>1. CASE OfJob(s, lines, id) = {}
      <4>1. id \in DOMAIN s.jobs
        BY <3>1 DEF OfJob
      <4> QED BY <3>1, <4>1 DEF IsSnapshot, AreJobs
    <3>2. CASE OfJob(s, lines, id) # {}
      BY <3>2, <1>2, LatestOfJob
    <3> QED BY <3>1, <3>2
  <2>3. js \in [DOMAIN js -> Jobs]
    BY <2>2
  <2> HIDE DEF js
  <2> QED BY <2>1, <2>3 DEF AreJobs
<1>4. AreKeys(ks)
  <2>1. DOMAIN ks \subseteq Keys
    BY <1>2 DEF IsSnapshot, AreKeys
  <2>2. ASSUME NEW k \in DOMAIN ks PROVE ks[k] \in Ids
    <3>1. CASE OfKey(s, lines, k) = {}
      <4>1. k \in DOMAIN s.keys
        BY <3>1 DEF OfKey
      <4> QED BY <3>1, <4>1 DEF IsSnapshot, AreKeys
    <3>2. CASE OfKey(s, lines, k) # {}
      BY <3>2, <1>2, LatestOfKey
    <3> QED BY <3>1, <3>2
  <2>3. ks \in [DOMAIN ks -> Ids]
    BY <2>2
  <2> HIDE DEF ks
  <2> QED BY <2>1, <2>3 DEF AreKeys
<1>5. got.seq \in Nat
  <2>1. CASE new = {}
    BY <2>1, <1>1 DEF IsSnapshot
  <2>2. CASE new # {}
    <3>1. Latest(new) \in new
      BY <2>2, NewerProperties, LatestProperties
    <3> QED BY <2>2, <3>1, <1>1, <1>2 DEF Larger, IsSnapshot
  <2> QED BY <2>1, <2>2
<1> HIDE DEF js, ks, got, new
<1> QED BY <1>1, <1>3, <1>4, <1>5 DEF got

\* Recovery reads nothing but the whole lines.
LEMMA RecoverSame ==
  ASSUME NEW s, NEW lines \in Journals, NEW other \in Journals, Readable(lines),
         Whole(other) = Whole(lines)
  PROVE  Recover(s, other) = Recover(s, lines)
<1>1. \A i \in DOMAIN Whole(lines) : other[i] = lines[i]
  BY WholeProperties
<1>2. Newer(s, other) = Newer(s, lines)
  BY <1>1 DEF Newer
<1>3. \A i \in Newer(s, lines) : i \in DOMAIN Whole(lines) /\ other[i] = lines[i]
  BY <1>1 DEF Newer
<1>4. {other[i].id : i \in Newer(s, other)} = {lines[i].id : i \in Newer(s, lines)}
      /\ {other[i].key : i \in Newer(s, other)} = {lines[i].key : i \in Newer(s, lines)}
  BY <1>2, <1>3
<1>5. ASSUME NEW id PROVE OfJob(s, other, id) = OfJob(s, lines, id)
  BY <1>2, <1>3 DEF OfJob
<1>6. ASSUME NEW k PROVE OfKey(s, other, k) = OfKey(s, lines, k)
  BY <1>2, <1>3 DEF OfKey
<1>7. ASSUME NEW id, OfJob(s, lines, id) # {}
      PROVE  other[Latest(OfJob(s, other, id))].job = lines[Latest(OfJob(s, lines, id))].job
  BY <1>3, <1>5, <1>7, LatestOfJob
<1>8. ASSUME NEW k, OfKey(s, lines, k) # {}
      PROVE  other[Latest(OfKey(s, other, k))].id = lines[Latest(OfKey(s, lines, k))].id
  BY <1>3, <1>6, <1>8, LatestOfKey
<1>9. Newer(s, lines) # {} => other[Latest(Newer(s, other))].seq = lines[Latest(Newer(s, lines))].seq
  BY <1>2, <1>3, NewerProperties, LatestProperties
<1> QED BY <1>2, <1>4, <1>5, <1>6, <1>7, <1>8, <1>9 DEF Recover

\* A snapshot that has all changes of the journal is all there is.
LEMMA RecoverNothing ==
  ASSUME NEW s, IsSnapshot(s), NEW lines, Newer(s, lines) = {}
  PROVE  Recover(s, lines) = s
<1>1. (\A id : OfJob(s, lines, id) = {}) /\ (\A k : OfKey(s, lines, k) = {})
  BY DEF OfJob, OfKey
<1>2. Recover(s, lines).jobs = [id \in DOMAIN s.jobs |-> s.jobs[id]]
  BY <1>1 DEF Recover
<1>3. Recover(s, lines).keys = [k \in DOMAIN s.keys |-> s.keys[k]]
  BY <1>1 DEF Recover
<1>4. s.jobs = [id \in DOMAIN s.jobs |-> s.jobs[id]] /\ s.keys = [k \in DOMAIN s.keys |-> s.keys[k]]
  BY DEF IsSnapshot, AreJobs, AreKeys
<1>5. Recover(s, lines) = [jobs |-> Recover(s, lines).jobs, keys |-> Recover(s, lines).keys, seq |-> s.seq]
  BY DEF Recover
<1> QED BY <1>2, <1>3, <1>4, <1>5 DEF IsSnapshot

LEMMA RecoverFresh ==
  ASSUME NEW s, IsSnapshot(s), NEW lines \in Journals, Readable(lines),
         s.seq = 0 \/ \A i \in DOMAIN Whole(lines) : lines[i].seq <= s.seq
  PROVE  Recover(s, lines) = s
<1>1. Newer(s, lines) = {}
  <2> SUFFICES ASSUME s.seq # 0, NEW i \in DOMAIN Whole(lines), lines[i].seq > s.seq PROVE FALSE
    BY DEF Newer
  <2>1. lines[i].seq <= s.seq /\ lines[i].seq \in Nat /\ s.seq \in Nat
    BY ReadableLines DEF Lines, IsSnapshot
  <2> QED BY <2>1
<1> QED BY <1>1, RecoverNothing

\* A newer line added is one change to what there was.
LEMMA RecoverAppend ==
  ASSUME NEW s, IsSnapshot(s), NEW lines \in Journals, Readable(lines), Whole(lines) = lines,
         NEW line \in Lines, s.seq # 0, s.seq < line.seq
  PROVE  LET got == Recover(s, lines)
             all == Recover(s, Append(lines, line))
         IN  /\ all.jobs = With(got.jobs, line.id, line.job)
             /\ all.keys = IF line.key = NoKey THEN got.keys ELSE With(got.keys, line.key, line.id)
             /\ (\A i \in DOMAIN lines : lines[i].seq < line.seq) => all.seq = line.seq
<1> DEFINE more == Append(lines, line)
           n    == Len(lines) + 1
           new  == Newer(s, lines)
<1>1. /\ more \in Journals /\ Whole(more) = more /\ Readable(more)
      /\ DOMAIN more = 1..n /\ more[n] = line /\ n \in Nat
      /\ \A i \in DOMAIN lines : more[i] = lines[i]
      /\ DOMAIN lines = 1..(n-1)
  BY LineAdded, AppendProperties DEF Journals
<1> HIDE DEF more, n
<1>2. Newer(s, more) = new \union {n} /\ n \notin new
  <2>1. line.seq \in Nat /\ s.seq \in Nat
    BY DEF Lines, IsSnapshot
  <2>2. Newer(s, more) = {i \in 1..n : more[i].seq > s.seq}
    BY <1>1 DEF Newer
  <2>3. new = {i \in 1..(n-1) : lines[i].seq > s.seq}
    BY <1>1 DEF Newer
  <2>4. \A i \in 1..n : i \in 1..(n-1) \/ i = n
    BY <1>1
  <2>5. n \in 1..n /\ n \notin 1..(n-1) /\ \A i \in 1..(n-1) : i \in 1..n
    BY <1>1, AppendProperties DEF Journals, n
  <2>6. more[n].seq > s.seq
    BY <1>1, <2>1
  <2> QED BY <1>1, <2>2, <2>3, <2>4, <2>5, <2>6
<1>3. (\A i \in new : i \in 1..(n-1) /\ more[i] = lines[i] /\ i <= n) /\ n \in 1..n
      /\ Newer(s, more) \subseteq 1..n /\ \A j \in Newer(s, more) : j <= n
  <2>1. \A i \in new : i \in 1..(n-1) /\ more[i] = lines[i] /\ i <= n
    BY <1>1 DEF Newer
  <2>2. n \in 1..n
    BY <1>1, AppendProperties DEF Journals, n
  <2>3. \A i \in 1..(n-1) : i \in 1..n
    BY <1>1
  <2> QED BY <1>1, <1>2, <2>1, <2>2, <2>3
<1>4. ASSUME NEW id
      PROVE  OfJob(s, more, id) = IF id = line.id THEN OfJob(s, lines, id) \union {n} ELSE OfJob(s, lines, id)
  BY <1>1, <1>2, <1>3 DEF OfJob
<1>5. ASSUME NEW k
      PROVE  OfKey(s, more, k) = IF k = line.key THEN OfKey(s, lines, k) \union {n} ELSE OfKey(s, lines, k)
  BY <1>1, <1>2, <1>3 DEF OfKey
<1>6. Latest(OfJob(s, more, line.id)) = n
  <2>1. OfJob(s, more, line.id) \subseteq Newer(s, more) /\ n \in OfJob(s, more, line.id)
    BY <1>1, <1>2 DEF OfJob
  <2>2. OfJob(s, more, line.id) \subseteq 1..n /\ \A j \in OfJob(s, more, line.id) : j <= n
    BY <1>3, <2>1
  <2> QED BY <1>1, <2>1, <2>2, LatestIs
<1>7. Latest(OfKey(s, more, line.key)) = n
  <2>1. OfKey(s, more, line.key) \subseteq Newer(s, more) /\ n \in OfKey(s, more, line.key)
    BY <1>1, <1>2 DEF OfKey
  <2>2. OfKey(s, more, line.key) \subseteq 1..n /\ \A j \in OfKey(s, more, line.key) : j <= n
    BY <1>3, <2>1
  <2> QED BY <1>1, <2>1, <2>2, LatestIs
<1>8. {more[i].id : i \in Newer(s, more)} = {lines[i].id : i \in new} \union {line.id}
  BY <1>1, <1>2, <1>3
<1>9. {more[i].key : i \in Newer(s, more)} = {lines[i].key : i \in new} \union {line.key}
  BY <1>1, <1>2, <1>3
<1> HIDE DEF new
<1>10. Recover(s, more).jobs = With(Recover(s, lines).jobs, line.id, line.job)
  <2> DEFINE D == DOMAIN s.jobs \union {lines[i].id : i \in new}
             f == Recover(s, lines).jobs
             g == Recover(s, more).jobs
             h == With(f, line.id, line.job)
  <2>1. f = [id \in D |-> IF OfJob(s, lines, id) = {} THEN s.jobs[id] ELSE lines[Latest(OfJob(s, lines, id))].job]
    BY DEF Recover, new
  <2>2. g = [id \in D \union {line.id} |->
               IF OfJob(s, more, id) = {} THEN s.jobs[id] ELSE more[Latest(OfJob(s, more, id))].job]
    BY <1>8 DEF Recover
  <2>3. h = [id \in D \union {line.id} |-> IF id = line.id THEN line.job ELSE f[id]]
    BY <2>1 DEF With
  <2>4. ASSUME NEW id \in D \union {line.id}, id # line.id PROVE g[id] = f[id]
    <3>1. id \in D /\ OfJob(s, more, id) = OfJob(s, lines, id)
      BY <1>4, <2>4
    <3>2. CASE OfJob(s, lines, id) = {}
      BY <2>1, <2>2, <3>1, <3>2
    <3>3. CASE OfJob(s, lines, id) # {}
      <4>1. more[Latest(OfJob(s, lines, id))] = lines[Latest(OfJob(s, lines, id))]
        BY <1>3, <3>3, LatestOfJob DEF new
      <4> QED BY <2>1, <2>2, <3>1, <3>3, <4>1
    <3> QED BY <3>2, <3>3
  <2>5. g[line.id] = line.job
    <3>1. OfJob(s, more, line.id) # {}
      BY <1>4
    <3> QED BY <1>1, <1>6, <2>2, <3>1
  <2> HIDE DEF D, f, g, h
  <2>6. g = h
    BY <2>2, <2>3, <2>4, <2>5
  <2> QED BY <2>6 DEF f, g, h
<1>11. Recover(s, more).keys = IF line.key = NoKey THEN Recover(s, lines).keys
                               ELSE With(Recover(s, lines).keys, line.key, line.id)
  <2> DEFINE D == DOMAIN s.keys \union ({lines[i].key : i \in new} \ {NoKey})
             f == Recover(s, lines).keys
             g == Recover(s, more).keys
             h == With(f, line.key, line.id)
  <2>0. s.keys \in [DOMAIN s.keys -> Ids] /\ NoKey \notin D
    BY JobQueueAssumption DEF IsSnapshot, AreKeys
  <2>1. f = [k \in D |-> IF OfKey(s, lines, k) = {} THEN s.keys[k] ELSE lines[Latest(OfKey(s, lines, k))].id]
    BY DEF Recover, new
  <2>2. g = [k \in D \union ({line.key} \ {NoKey}) |->
               IF OfKey(s, more, k) = {} THEN s.keys[k] ELSE more[Latest(OfKey(s, more, k))].id]
    <3>1. DOMAIN s.keys \union ({more[i].key : i \in Newer(s, more)} \ {NoKey}) = D \union ({line.key} \ {NoKey})
      BY <1>9
    <3> HIDE DEF D
    <3> QED BY <3>1 DEF Recover
  <2>3. h = [k \in D \union {line.key} |-> IF k = line.key THEN line.id ELSE f[k]]
    BY <2>1 DEF With
  <2>4. ASSUME NEW k \in D, k # line.key PROVE g[k] = f[k]
    <3>1. k \in D /\ OfKey(s, more, k) = OfKey(s, lines, k)
      BY <1>5, <2>4
    <3>2. CASE OfKey(s, lines, k) = {}
      BY <2>1, <2>2, <3>1, <3>2
    <3>3. CASE OfKey(s, lines, k) # {}
      <4>1. more[Latest(OfKey(s, lines, k))] = lines[Latest(OfKey(s, lines, k))]
        BY <1>3, <3>3, LatestOfKey DEF new
      <4> QED BY <2>1, <2>2, <3>1, <3>3, <4>1
    <3> QED BY <3>2, <3>3
  <2>5. line.key # NoKey => g[line.key] = line.id
    <3>1. OfKey(s, more, line.key) # {}
      BY <1>5
    <3> QED BY <1>1, <1>7, <2>2, <3>1
  <2> HIDE DEF D, f, g, h
  <2>6. CASE line.key = NoKey
    <3>1. D \union ({line.key} \ {NoKey}) = D
      BY <2>6
    <3>2. \A k \in D : g[k] = f[k]
      BY <2>0, <2>4, <2>6
    <3>3. g = f
      BY <2>1, <2>2, <3>1, <3>2
    <3> QED BY <2>6, <3>3 DEF f, g
  <2>7. CASE line.key # NoKey
    <3>1. D \union ({line.key} \ {NoKey}) = D \union {line.key}
      BY <2>7
    <3>2. g = h
      BY <2>2, <2>3, <2>4, <2>5, <2>7, <3>1
    <3> QED BY <2>7, <3>2 DEF f, g, h
  <2> QED BY <2>6, <2>7
<1>12. ASSUME \A i \in DOMAIN lines : lines[i].seq < line.seq PROVE Recover(s, more).seq = line.seq
  <2>1. Latest(Newer(s, more)) = n
    <3>1. Newer(s, more) \subseteq 1..n /\ n \in Newer(s, more) /\ \A j \in Newer(s, more) : j <= n
      BY <1>2, <1>3
    <3> QED BY <1>1, <3>1, LatestIs
  <2>2. Recover(s, more).seq = Larger(s.seq, line.seq)
    BY <1>1, <1>2, <2>1 DEF Recover
  <2> QED BY <2>2 DEF Larger, Lines, IsSnapshot
<1> QED BY <1>10, <1>11, <1>12 DEF more

(***************************************************************************)
(* Changes to jobs and keys.                                               *)
(***************************************************************************)

WithKey(ks, key, id) == IF key = NoKey THEN ks ELSE With(ks, key, id)

LEMMA WithoutProperties ==
  ASSUME NEW f, NEW x
  PROVE  DOMAIN Without(f, x) = DOMAIN f \ {x} /\ \A y \in DOMAIN f : y # x => Without(f, x)[y] = f[y]
<1>1. Without(f, x) = [y \in DOMAIN f \ {x} |-> f[y]]
  BY DEF Without, Restrict
<1> QED BY <1>1

LEMMA WithProperties ==
  ASSUME NEW f, NEW x, NEW v
  PROVE  /\ DOMAIN With(f, x, v) = DOMAIN f \union {x} /\ With(f, x, v)[x] = v
         /\ \A y \in DOMAIN f : y # x => With(f, x, v)[y] = f[y]
BY DEF With

LEMMA JobsAfter ==
  ASSUME NEW js, AreJobs(js), NEW id \in Ids, NEW job \in Jobs
  PROVE  AreJobs(With(js, id, job)) /\ AreJobs(Without(js, id))
<1>1. AreJobs(With(js, id, job))
  BY DEF AreJobs, With
<1>2. Without(js, id) = [y \in DOMAIN js \ {id} |-> js[y]]
  BY DEF Without, Restrict
<1>3. AreJobs(Without(js, id))
  BY <1>2 DEF AreJobs
<1> QED BY <1>1, <1>3

LEMMA KeysAfter ==
  ASSUME NEW ks, AreKeys(ks), NEW id \in Ids, NEW key \in Keys \union {NoKey}
  PROVE  AreKeys(WithKey(ks, key, id))
BY DEF AreKeys, With, WithKey

\* A key given and taken back.
LEMMA KeysUndoneIs ==
  ASSUME NEW ks, AreKeys(ks), NEW id, NEW key, key \notin DOMAIN ks
  PROVE  KeysUndone(With(ks, key, id), key) = ks
<1>1. KeysUndone(With(ks, key, id), key) = [k \in (DOMAIN ks \union {key}) \ {key} |-> With(ks, key, id)[k]]
  BY DEF KeysUndone, Without, Restrict, With
<1>2. (DOMAIN ks \union {key}) \ {key} = DOMAIN ks
  OBVIOUS
<1>3. \A k \in DOMAIN ks : With(ks, key, id)[k] = ks[k]
  BY DEF With
<1>4. ks = [k \in DOMAIN ks |-> ks[k]]
  BY DEF AreKeys
<1>5. KeysUndone(With(ks, key, id), key) = [k \in DOMAIN ks |-> ks[k]]
  BY <1>1, <1>2, <1>3
<1> QED BY <1>4, <1>5

(***************************************************************************)
(* The lease index.                                                        *)
(***************************************************************************)

Entries == [created : Nat, due : Nat, ready : BOOLEAN]

LEMMA IndexShape ==
  ASSUME NEW ix, IsIndex(ix), NEW entries, entries \in [DOMAIN entries -> Entries]
  PROVE  [ix EXCEPT !.entries = entries].entries = entries /\ IsIndex([ix EXCEPT !.entries = entries])
<1>1. [ix EXCEPT !.entries = entries] = [now |-> ix.now, entries |-> entries]
  BY DEF IsIndex
<1> QED BY <1>1 DEF IsIndex, Entries

LEMMA DueAtType == ASSUME NEW job \in Jobs PROVE DueAt(job) \in Nat
BY DEF DueAt, Jobs

LEMMA UpdateFollows ==
  ASSUME NEW ix, IsIndex(ix), NEW js, Follows(ix, js), NEW id, NEW job \in Jobs
  PROVE  IsIndex(Update(ix, id, job)) /\ Follows(Update(ix, id, job), With(js, id, job))
<1> DEFINE e == [created |-> job.created, due |-> DueAt(job), ready |-> DueAt(job) <= ix.now]
           more == With(ix.entries, id, e)
           less == Without(ix.entries, id)
           all  == With(js, id, job)
<1>1. e \in Entries /\ e.created = job.created /\ e.due = DueAt(job)
  BY DueAtType DEF Entries, Jobs
<1>2. /\ more \in [DOMAIN more -> Entries] /\ DOMAIN more = DOMAIN ix.entries \union {id}
      /\ more[id] = e /\ \A x \in DOMAIN ix.entries : x # id => more[x] = ix.entries[x]
  <2> HIDE DEF e
  <2> QED BY <1>1 DEF With, IsIndex, Entries
<1>3. less = [x \in DOMAIN ix.entries \ {id} |-> ix.entries[x]]
  BY DEF Without, Restrict
<1>4. /\ less \in [DOMAIN less -> Entries] /\ DOMAIN less = DOMAIN ix.entries \ {id}
      /\ \A x \in DOMAIN ix.entries : x # id => less[x] = ix.entries[x]
  BY <1>3 DEF IsIndex, Entries
<1>5. DOMAIN all = DOMAIN js \union {id} /\ all[id] = job /\ \A x \in DOMAIN js : x # id => all[x] = js[x]
  BY DEF With
<1>6. CASE Leasable(job)
  <2>1. Update(ix, id, job) = [ix EXCEPT !.entries = more]
    BY <1>6 DEF Update
  <2> HIDE DEF more, e, all
  <2>2. IsIndex(Update(ix, id, job)) /\ Update(ix, id, job).entries = more
    BY <1>2, <2>1, IndexShape
  <2>3. DOMAIN more = {x \in DOMAIN all : Leasable(all[x])}
    BY <1>2, <1>5, <1>6 DEF Follows
  <2>4. \A x \in DOMAIN more : more[x].created = all[x].created /\ more[x].due = DueAt(all[x])
    BY <1>1, <1>2, <1>5 DEF Follows
  <2> QED BY <2>2, <2>3, <2>4 DEF Follows, all
<1>7. CASE ~Leasable(job)
  <2>1. Update(ix, id, job) = [ix EXCEPT !.entries = less]
    BY <1>7 DEF Update
  <2> HIDE DEF less, all
  <2>2. IsIndex(Update(ix, id, job)) /\ Update(ix, id, job).entries = less
    BY <1>4, <2>1, IndexShape
  <2>3. DOMAIN less = {x \in DOMAIN all : Leasable(all[x])}
    BY <1>4, <1>5, <1>7 DEF Follows
  <2>4. \A x \in DOMAIN less : less[x].created = all[x].created /\ less[x].due = DueAt(all[x])
    BY <1>4, <1>5 DEF Follows
  <2> QED BY <2>2, <2>3, <2>4 DEF Follows, all
<1> QED BY <1>6, <1>7

LEMMA RemoveFollows ==
  ASSUME NEW ix, IsIndex(ix), NEW js, Follows(ix, js), NEW id, NEW job
  PROVE  LET new == [ix EXCEPT !.entries = Without(@, id)]
         IN  IsIndex(new) /\ Follows(new, Without(With(js, id, job), id))
<1> DEFINE less == Without(ix.entries, id)
           all  == Without(With(js, id, job), id)
           new  == [ix EXCEPT !.entries = less]
<1>1. less = [x \in DOMAIN ix.entries \ {id} |-> ix.entries[x]]
  BY DEF Without, Restrict
<1>2. /\ less \in [DOMAIN less -> Entries] /\ DOMAIN less = DOMAIN ix.entries \ {id}
      /\ \A x \in DOMAIN ix.entries : x # id => less[x] = ix.entries[x]
  BY <1>1 DEF IsIndex, Entries
<1>3. all = [x \in (DOMAIN js \union {id}) \ {id} |-> With(js, id, job)[x]]
  BY DEF Without, Restrict, With
<1>4. DOMAIN all = DOMAIN js \ {id} /\ \A x \in DOMAIN js : x # id => all[x] = js[x]
  BY <1>3 DEF With
<1> HIDE DEF less, all
<1>5. IsIndex(new) /\ new.entries = less
  BY <1>2, IndexShape
<1> HIDE DEF new
<1>6. Follows(new, all)
  BY <1>2, <1>4, <1>5 DEF Follows
<1> QED BY <1>5, <1>6 DEF new, all, less

\* Lease order is total: some job is first, and it is the only one.
Before(f, x, y) == f[x].created < f[y].created \/ (f[x].created = f[y].created /\ x < y)

LEMMA FirstProperties ==
  ASSUME NEW f, NEW S \in SUBSET Nat, S # {}, \A x \in S : f[x].created \in Nat
  PROVE  First(f, S) \in S /\ \A y \in S \ {First(f, S)} : Before(f, First(f, S), y)
<1> DEFINE U == {f[x].created : x \in S}
<1>1. PICK c \in U : \A k \in U : c <= k
  <2>1. U \in SUBSET Nat /\ U # {}
    OBVIOUS
  <2> HIDE DEF U
  <2> QED BY <2>1, Minimum
<1> DEFINE T == {x \in S : f[x].created = c}
<1>2. PICK m \in T : \A k \in T : m <= k
  <2>1. T \in SUBSET Nat /\ T # {}
    BY <1>1
  <2> HIDE DEF T
  <2> QED BY <2>1, Minimum
<1>3. ASSUME NEW y \in S \ {m} PROVE Before(f, m, y)
  <2>1. c <= f[y].created /\ c = f[m].created /\ c \in Nat /\ f[y].created \in Nat /\ m \in Nat /\ y \in Nat
    BY <1>1, <1>2
  <2>2. f[y].created = c => m <= y
    BY <1>2
  <2> QED BY <2>1, <2>2 DEF Before
<1> QED BY <1>2, <1>3 DEF First, Before

LEMMA FirstIs ==
  ASSUME NEW f, NEW S \in SUBSET Nat, \A x \in S : f[x].created \in Nat,
         NEW m \in S, \A y \in S \ {m} : Before(f, m, y)
  PROVE  First(f, S) = m
<1>1. First(f, S) \in S /\ \A y \in S \ {First(f, S)} : Before(f, First(f, S), y)
  BY FirstProperties
<1>2. SUFFICES ASSUME First(f, S) # m PROVE FALSE
  OBVIOUS
<1>3. Before(f, First(f, S), m) /\ Before(f, m, First(f, S))
  BY <1>1, <1>2
<1>4. f[m].created \in Nat /\ f[First(f, S)].created \in Nat /\ m \in Nat /\ First(f, S) \in Nat
  BY <1>1
<1> QED BY <1>3, <1>4 DEF Before

LEMMA EntryMoved ==
  ASSUME NEW e \in Entries, NEW b \in BOOLEAN
  PROVE  /\ [e EXCEPT !.ready = b] \in Entries
         /\ [e EXCEPT !.ready = b].created = e.created /\ [e EXCEPT !.ready = b].due = e.due
BY DEF Entries

\* Looking gives out what a scan would, and moves entries about but changes none.
LEMMA LookFollows ==
  ASSUME NEW ix, IsIndex(ix), NEW js, AreJobs(js), Follows(ix, js), NEW t \in Nat
  PROVE  LET open == {id \in DOMAIN js : Leasable(js[id]) /\ DueAt(js[id]) <= t}
         IN  /\ Look(ix, t).id = IF open = {} THEN 0 ELSE First(js, open)
             /\ open # {} => First(js, open) \in open
             /\ IsIndex(Look(ix, t).index)
             /\ Follows(Look(ix, t).index, js)
<1> DEFINE open  == {id \in DOMAIN js : Leasable(js[id]) /\ DueAt(js[id]) <= t}
           ready == {x \in DOMAIN ix.entries : ix.entries[x].ready \/ ix.entries[x].due <= t}
           fit   == {x \in ready : ix.entries[x].due <= t}
           found == IF fit = {} THEN 0 ELSE First(ix.entries, fit)
           back  == {x \in ready \ fit : found = 0 \/ First(ix.entries, {x, found}) = x}
           after == [x \in DOMAIN ix.entries |-> [ix.entries[x] EXCEPT !.ready = x \in ready \ back]]
<1>1. Look(ix, t) = [id |-> found, index |-> [now |-> t, entries |-> after]]
  BY DEF Look
<1>2. fit = open
  BY DEF Follows
<1>3. open \in SUBSET Nat /\ \A x \in open : /\ js[x].created \in Nat /\ ix.entries[x].created = js[x].created
                                         /\ x \in DOMAIN ix.entries
  BY JobQueueAssumption DEF AreJobs, Jobs, Follows
<1>4. open # {} => First(ix.entries, open) = First(js, open) /\ First(js, open) \in open
  <2> HIDE DEF open
  <2>1. SUFFICES ASSUME open # {} PROVE First(ix.entries, open) = First(js, open) /\ First(js, open) \in open
    OBVIOUS
  <2>2. First(js, open) \in open /\ \A y \in open \ {First(js, open)} : Before(js, First(js, open), y)
    BY <1>3, <2>1, FirstProperties
  <2>3. \A y \in open \ {First(js, open)} : Before(ix.entries, First(js, open), y)
    BY <1>3, <2>2 DEF Before
  <2>4. \A x \in open : ix.entries[x].created \in Nat
    BY <1>3
  <2> DEFINE m == First(js, open)
  <2>5. m \in open /\ \A y \in open \ {m} : Before(ix.entries, m, y)
    BY <2>2, <2>3
  <2> HIDE DEF m
  <2>6. First(ix.entries, open) = m
    BY <1>3, <2>4, <2>5, FirstIs
  <2> QED BY <2>5, <2>6 DEF m
<1>5. Look(ix, t).id = IF open = {} THEN 0 ELSE First(js, open)
  <2> HIDE DEF open, fit, after
  <2> QED BY <1>1, <1>2, <1>4
<1>6. /\ after \in [DOMAIN after -> Entries] /\ DOMAIN after = DOMAIN ix.entries
      /\ \A x \in DOMAIN after : after[x].created = ix.entries[x].created /\ after[x].due = ix.entries[x].due
  <2>1. ASSUME NEW x \in DOMAIN ix.entries
        PROVE  /\ after[x] \in Entries
               /\ after[x].created = ix.entries[x].created /\ after[x].due = ix.entries[x].due
    <3> HIDE DEF ready, back
    <3>1. ix.entries[x] \in Entries /\ after[x] = [ix.entries[x] EXCEPT !.ready = x \in ready \ back]
      BY DEF IsIndex, Entries
    <3> DEFINE r == x \in ready \ back
               e == ix.entries[x]
    <3>2. r \in BOOLEAN /\ e \in Entries /\ after[x] = [e EXCEPT !.ready = r]
      BY <3>1
    <3> HIDE DEF after, r, e
    <3>3. after[x] \in Entries /\ after[x].created = e.created /\ after[x].due = e.due
      BY <3>2, EntryMoved
    <3> QED BY <3>3 DEF e
  <2> QED BY <2>1
<1>7. IsIndex(Look(ix, t).index) /\ Look(ix, t).index.entries = after
  <2> HIDE DEF after, found
  <2> QED BY <1>1, <1>6 DEF IsIndex, Entries
<1>8. Follows(Look(ix, t).index, js)
  <2> HIDE DEF after
  <2> QED BY <1>6, <1>7 DEF Follows
<1> QED BY <1>4, <1>5, <1>7, <1>8

(***************************************************************************)
(* What a write does to the disk: nothing that is read, a line more, or a  *)
(* snapshot.                                                               *)
(***************************************************************************)

\* The invariant in parts: memory, the disk, and how they agree.
MemoryOK ==
  /\ running \in BOOLEAN /\ due \in BOOLEAN /\ seq \in Nat /\ size \in Nat /\ now \in Nat
  /\ undone \subseteq Ids
  /\ AreJobs(jobs) /\ AreKeys(keys)
  /\ IsIndex(index) /\ Follows(index, jobs)

DiskOK(sn, old, lines) ==
  /\ \A s \in {sn} \union old : IsSnapshot(s) /\ s.seq <= sn.seq
  /\ lines \in Journals /\ Readable(lines)
  /\ \A i, j \in DOMAIN Whole(lines) : i < j => lines[i].seq < lines[j].seq

HasKeys(got, ks) == \A k \in DOMAIN ks : k \in DOMAIN got.keys /\ got.keys[k] = ks[k]
Agrees(sn, lines, js, ks, last, n, d) ==
  /\ sn.seq <= last /\ (sn.seq = 0 => d)
  /\ \A i \in DOMAIN Whole(lines) : lines[i].seq <= last
  /\ HasKeys(Recover(sn, lines), ks)
  /\ ~d => /\ Whole(lines) = lines /\ n = Len(lines)
           /\ Recover(sn, lines) = [jobs |-> js, keys |-> ks, seq |-> last]

PromisesAreRows ==
  promised \in [Ids -> SUBSET [state : {"none", "queued", "leased", "completed", "dead"}, attempts : Nat,
                               owner : Workers \union {NoWorker}]]

Inv ==
  /\ MemoryOK /\ PromisesAreRows
  /\ DiskOK(snap, older, journal)
  /\ running => Agrees(snap, journal, jobs, keys, seq, size, due)

LEMMA InvImplies == Inv => MemoryIsOnDisk /\ Follows(index, jobs)
<1> SUFFICES ASSUME Inv PROVE MemoryIsOnDisk /\ Follows(index, jobs)
  OBVIOUS
<1>1. TypeOK /\ Follows(index, jobs)
  BY DEF Inv, TypeOK, MemoryOK, DiskOK, Snapshots, Journals, PromisesAreRows
<1>2. CanOpen
  BY DEF Inv, DiskOK, CanOpen
<1>3. ChangesAreInOrder
  BY DEF Inv, DiskOK, Agrees, ChangesAreInOrder
<1>4. KeysAreOnDisk
  BY DEF Inv, Agrees, HasKeys, KeysAreOnDisk
<1>5. running /\ ~due => LET got == Recover(snap, journal)
                         IN  got.jobs = jobs /\ got.keys = keys /\ got.seq = seq
  BY DEF Inv, Agrees
<1> QED BY <1>1, <1>2, <1>3, <1>4, <1>5 DEF MemoryIsOnDisk

Kept(o) ==
  /\ o.snap = snap /\ o.older = older
  /\ o.journal \in Journals /\ Whole(o.journal) = Whole(journal)
  /\ o.due = TRUE /\ o.size = size /\ o.reply \in {"error", "crash"}
Added(o, line) ==
  /\ ~due
  /\ o.snap = snap /\ o.older = older /\ o.journal = Append(journal, line)
  /\ \/ o.due = FALSE /\ o.size = size + 1 /\ o.reply = "ok"
     \/ o.due = TRUE /\ o.size = size /\ o.reply \in {"error", "crash"}
Replaced(o, new) ==
  /\ o.snap = new /\ o.reply \in {"ok", "crash"}
  /\ \/ /\ o.journal = journal /\ o.due = TRUE /\ o.size = size
        /\ o.older = {} \/ (o.older = older \union {snap} /\ (LateLoss \/ o.reply = "crash"))
     \/ o.journal = <<>> /\ o.due = FALSE /\ o.size = 0 /\ o.older = {}

LEMMA RenamedCases ==
  ASSUME NEW new, NEW o \in Renamed(new)
  PROVE  Replaced(o, new)
<1> DEFINE unsynced == IF LateLoss THEN {"ok", "crash"} ELSE {"crash"}
<1>1. CASE o \in {Outcome(new, older \union {snap}, journal, size, TRUE, reply) : reply \in unsynced}
  <2>1. PICK reply \in unsynced : o = Outcome(new, older \union {snap}, journal, size, TRUE, reply)
    BY <1>1
  <2>2. /\ o.snap = new /\ o.older = older \union {snap} /\ o.journal = journal /\ o.size = size /\ o.due = TRUE
        /\ o.reply = reply
    BY <2>1 DEF Outcome
  <2> QED BY <2>2 DEF Replaced
<1>2. CASE o \in {Outcome(new, {}, journal, size, TRUE, reply) : reply \in {"ok", "crash"}}
  <2>1. PICK reply \in {"ok", "crash"} : o = Outcome(new, {}, journal, size, TRUE, reply)
    BY <1>2
  <2>2. /\ o.snap = new /\ o.older = {} /\ o.journal = journal /\ o.size = size /\ o.due = TRUE
        /\ o.reply = reply
    BY <2>1 DEF Outcome
  <2> QED BY <2>2 DEF Replaced
<1>3. CASE o \in {Outcome(new, {}, <<>>, 0, FALSE, reply) : reply \in {"ok", "crash"}}
  <2>1. PICK reply \in {"ok", "crash"} : o = Outcome(new, {}, <<>>, 0, FALSE, reply)
    BY <1>3
  <2>2. /\ o.snap = new /\ o.older = {} /\ o.journal = <<>> /\ o.size = 0 /\ o.due = FALSE
        /\ o.reply = reply
    BY <2>1 DEF Outcome
  <2> QED BY <2>2 DEF Replaced
<1> QED BY <1>1, <1>2, <1>3 DEF Renamed

LEMMA OutcomeCases ==
  ASSUME Inv, running, NEW js, NEW ks, NEW line \in Lines, NEW o \in Outcomes(js, ks, line)
  PROVE  Kept(o) \/ Added(o, line) \/ Replaced(o, [jobs |-> js, keys |-> ks, seq |-> line.seq])
<1> DEFINE new == [jobs |-> js, keys |-> ks, seq |-> line.seq]
<1>0. /\ journal \in Journals /\ Readable(journal) /\ due \in BOOLEAN
      /\ ~due => Whole(journal) = journal /\ size = Len(journal)
  BY DEF Inv, MemoryOK, DiskOK, Agrees
<1> HIDE DEF new
<1>1. CASE o \in SnapshotOutcomes(new)
  <2>1. CASE o \in {Outcome(snap, older, journal, size, TRUE, reply) : reply \in {"error", "crash"}}
    <3>1. PICK reply \in {"error", "crash"} : o = Outcome(snap, older, journal, size, TRUE, reply)
      BY <2>1
    <3>2. /\ o.snap = snap /\ o.older = older /\ o.journal = journal /\ o.size = size /\ o.due = TRUE
          /\ o.reply = reply
      BY <3>1 DEF Outcome
    <3> QED BY <1>0, <3>2 DEF Kept
  <2> QED BY <1>1, <2>1, RenamedCases DEF SnapshotOutcomes, new
<1>2. CASE ~due /\ o \in AppendOutcomes(line)
  <2>1. CASE o = Outcome(snap, older, Append(journal, line), size + 1, due, "ok")
    <3>1. /\ o.snap = snap /\ o.older = older /\ o.journal = Append(journal, line) /\ o.size = size + 1
          /\ o.due = due /\ o.reply = "ok"
      BY <2>1 DEF Outcome
    <3> QED BY <1>0, <1>2, <3>1 DEF Added
  <2>2. ASSUME NEW tail \in {<<>>, <<Torn>>, <<line>>}, o \in Failed(tail, TRUE)
        PROVE  Kept(o) \/ Added(o, line)
    <3>0. PICK reply \in {"error", "crash"} :
            o = Outcome(snap, older, SubSeq(journal, 1, size) \o tail, size, TRUE, reply)
      BY <2>2 DEF Failed
    <3>1. /\ o.snap = snap /\ o.older = older /\ o.size = size /\ o.due = TRUE /\ o.reply = reply
          /\ o.journal = SubSeq(journal, 1, size) \o tail
      BY <3>0 DEF Outcome
    <3>2. SubSeq(journal, 1, size) = journal
      BY <1>0, <1>2 DEF Journals
    <3>3. /\ journal \o <<>> = journal
          /\ journal \o <<Torn>> = Append(journal, Torn) /\ journal \o <<line>> = Append(journal, line)
      BY <1>0 DEF Journals
    <3>4. CASE tail = <<>>
      BY <1>0, <3>1, <3>2, <3>3, <3>4 DEF Kept
    <3>5. CASE tail = <<Torn>>
      <4>1. o.journal = Append(journal, Torn)
        BY <3>1, <3>2, <3>3, <3>5
      <4>2. o.journal \in Journals /\ Whole(o.journal) = Whole(journal)
        BY <4>1, <1>0, <1>2, TornAdded
      <4> QED BY <3>1, <4>2 DEF Kept
    <3>6. CASE tail = <<line>>
      BY <1>2, <3>1, <3>2, <3>3, <3>6 DEF Added
    <3> QED BY <3>4, <3>5, <3>6
  <2> QED BY <1>2, <2>1, <2>2 DEF AppendOutcomes
<1>3. o \in SnapshotOutcomes(new) \/ (~due /\ o \in AppendOutcomes(line))
  BY DEF Outcomes, new
<1> QED BY <1>1, <1>2, <1>3 DEF new

LEMMA SameLines ==
  ASSUME NEW lines \in Journals, NEW other \in Journals, Whole(other) = Whole(lines)
  PROVE  /\ \A i \in DOMAIN Whole(lines) : other[i] = lines[i]
         /\ Readable(lines) => Readable(other)
<1>1. \A i \in DOMAIN Whole(lines) : other[i] = lines[i]
  BY WholeProperties
<1> QED BY <1>1 DEF Readable

LEMMA KeptDisk ==
  ASSUME Inv, running, NEW o, Kept(o), NEW js
  PROVE  DiskOK(o.snap, o.older, o.journal) /\ Agrees(o.snap, o.journal, js, keys, seq + 1, o.size, o.due)
<1>1. /\ o.snap = snap /\ o.older = older /\ o.journal \in Journals /\ Whole(o.journal) = Whole(journal)
      /\ journal \in Journals /\ Readable(journal) /\ o.due = TRUE
  BY DEF Inv, DiskOK, Kept
<1>2. (\A i \in DOMAIN Whole(journal) : o.journal[i] = journal[i]) /\ Readable(o.journal)
  BY <1>1, SameLines
<1>3. Recover(snap, o.journal) = Recover(snap, journal)
  BY <1>1, RecoverSame
<1>4. DiskOK(o.snap, o.older, o.journal)
  BY <1>1, <1>2 DEF Inv, DiskOK
<1>5. /\ seq \in Nat /\ snap.seq \in Nat /\ snap.seq <= seq
      /\ \A i \in DOMAIN Whole(journal) : journal[i].seq \in Nat /\ journal[i].seq <= seq
  BY ReadableLines DEF Inv, MemoryOK, DiskOK, Agrees, IsSnapshot, Lines
<1>6. Agrees(o.snap, o.journal, js, keys, seq + 1, o.size, o.due)
  <2>1. HasKeys(Recover(snap, journal), keys)
    BY DEF Inv, Agrees
  <2> QED BY <1>1, <1>2, <1>3, <1>5, <2>1 DEF Agrees
<1> QED BY <1>4, <1>6

LEMMA AddedDisk ==
  ASSUME Inv, running, NEW line \in Lines, line.seq = seq + 1, NEW o, Added(o, line)
  PROVE  /\ DiskOK(o.snap, o.older, o.journal)
         /\ Agrees(o.snap, o.journal, With(jobs, line.id, line.job), WithKey(keys, line.key, line.id), seq + 1,
                   Len(o.journal), FALSE)
         /\ Len(o.journal) = size + 1
<1>1. /\ o.snap = snap /\ o.older = older /\ o.journal = Append(journal, line) /\ ~due
      /\ journal \in Journals /\ Readable(journal) /\ Whole(journal) = journal /\ size = Len(journal)
      /\ Recover(snap, journal) = [jobs |-> jobs, keys |-> keys, seq |-> seq]
  BY DEF Inv, DiskOK, Agrees, Added
<1>2. /\ o.journal \in Journals /\ Readable(o.journal) /\ Whole(o.journal) = o.journal
      /\ DOMAIN o.journal = 1..Len(journal) + 1 /\ DOMAIN journal = 1..Len(journal) /\ Len(journal) \in Nat
      /\ \A i \in DOMAIN journal : o.journal[i] = journal[i] /\ journal[i] \in Lines
      /\ o.journal[Len(journal) + 1] = line /\ Len(o.journal) = Len(journal) + 1
  <2>1. o.journal \in Journals /\ Readable(o.journal) /\ Whole(o.journal) = o.journal
    BY <1>1, LineAdded
  <2>2. \A i \in DOMAIN journal : journal[i] \in Lines
    BY <1>1, ReadableLines
  <2> QED BY <1>1, <2>1, <2>2, AppendProperties DEF Journals
<1>3. /\ seq \in Nat /\ IsSnapshot(snap) /\ snap.seq \in Nat /\ snap.seq <= seq /\ snap.seq # 0
      /\ \A i \in DOMAIN journal : journal[i].seq \in Nat /\ journal[i].seq <= seq
  BY <1>1, <1>2 DEF Inv, MemoryOK, DiskOK, Agrees, IsSnapshot, Lines
<1> DEFINE got == Recover(o.snap, o.journal)
<1>4. got = [jobs |-> With(jobs, line.id, line.job), keys |-> WithKey(keys, line.key, line.id), seq |-> seq + 1]
  <2>1. got = [jobs |-> got.jobs, keys |-> got.keys, seq |-> got.seq]
    BY DEF Recover
  <2>2. snap.seq < line.seq /\ \A i \in DOMAIN journal : journal[i].seq < line.seq
    BY <1>3
  <2>3. /\ got.jobs = With(jobs, line.id, line.job) /\ got.seq = line.seq
        /\ got.keys = WithKey(keys, line.key, line.id)
    <3> DEFINE was == Recover(snap, journal)
               all == Recover(snap, Append(journal, line))
    <3>1. snap.seq < line.seq
      BY <2>2
    <3>2. /\ all.jobs = With(was.jobs, line.id, line.job)
          /\ all.keys = IF line.key = NoKey THEN was.keys ELSE With(was.keys, line.key, line.id)
          /\ (\A i \in DOMAIN journal : journal[i].seq < line.seq) => all.seq = line.seq
      BY <1>1, <1>3, <3>1, RecoverAppend
    <3>3. was.jobs = jobs /\ was.keys = keys
      BY <1>1
    <3>4. got = all
      BY <1>1
    <3> HIDE DEF got, was, all
    <3> QED BY <2>2, <3>2, <3>3, <3>4 DEF WithKey
  <2> HIDE DEF got
  <2> QED BY <2>1, <2>3
<1> HIDE DEF got
<1>5. \A i \in DOMAIN o.journal : i \in DOMAIN journal \/ (i = Len(journal) + 1 /\ o.journal[i] = line)
  BY <1>2
<1>6. DiskOK(o.snap, o.older, o.journal)
  <2>1. ASSUME NEW i \in DOMAIN o.journal, NEW j \in DOMAIN o.journal, i < j
        PROVE  o.journal[i].seq < o.journal[j].seq
    <3>1. i \in DOMAIN journal
      BY <1>2, <2>1
    <3>2. CASE j \in DOMAIN journal
      BY <1>1, <1>2, <2>1, <3>1, <3>2 DEF Inv, DiskOK
    <3>3. CASE j = Len(journal) + 1
      BY <1>2, <1>3, <3>1, <3>3
    <3> QED BY <1>5, <3>2, <3>3
  <2> QED BY <1>1, <1>2, <2>1 DEF Inv, DiskOK
<1>7. \A i \in DOMAIN o.journal : o.journal[i].seq <= seq + 1
  BY <1>2, <1>3, <1>5
<1>8. HasKeys(got, WithKey(keys, line.key, line.id))
  BY <1>4 DEF HasKeys
<1>9. snap.seq <= seq + 1
  BY <1>3
<1> QED BY <1>1, <1>2, <1>3, <1>4, <1>6, <1>7, <1>8, <1>9 DEF Agrees, got

LEMMA ReplacedDisk ==
  ASSUME Inv, running, NEW js, NEW ks, AreJobs(js), AreKeys(ks), NEW o,
         Replaced(o, [jobs |-> js, keys |-> ks, seq |-> seq + 1])
  PROVE  /\ DiskOK(o.snap, o.older, o.journal)
         /\ Agrees(o.snap, o.journal, js, ks, seq + 1, o.size, o.due)
         /\ Recover(o.snap, o.journal) = [jobs |-> js, keys |-> ks, seq |-> seq + 1]
<1> DEFINE new == [jobs |-> js, keys |-> ks, seq |-> seq + 1]
<1>1. /\ o.snap = new /\ o.journal \in {journal, <<>>}
      /\ o.due = TRUE \/ (o.due = FALSE /\ o.journal = <<>> /\ o.size = 0 /\ o.older = {})
      /\ o.older \subseteq older \union {snap}
  BY DEF Replaced
<1>2. new.jobs = js /\ new.keys = ks /\ new.seq = seq + 1
  OBVIOUS
<1>3. IsSnapshot(new) /\ seq \in Nat
  BY DEF Inv, MemoryOK, IsSnapshot
<1> HIDE DEF new
<1>4. /\ journal \in Journals /\ Readable(journal)
      /\ \A i \in DOMAIN Whole(journal) : journal[i].seq \in Nat /\ journal[i].seq <= seq
  BY ReadableLines DEF Inv, DiskOK, Agrees, Lines
<1>5. <<>> \in Journals /\ DOMAIN Whole(<<>>) = {} /\ Readable(<<>>) /\ Whole(<<>>) = <<>> /\ Len(<<>>) = 0
  <2>1. <<>> \in Journals /\ Whole(<<>>) = <<>> /\ DOMAIN <<>> = {} /\ Len(<<>>) = 0
    BY DEF Journals, Whole
  <2> QED BY <2>1 DEF Readable
<1>6. o.journal \in Journals /\ Readable(o.journal) /\ \A i \in DOMAIN Whole(o.journal) : o.journal[i].seq <= new.seq
  BY <1>1, <1>2, <1>3, <1>4, <1>5
<1>7. Recover(new, o.journal) = new
  BY <1>3, <1>6, RecoverFresh
<1>8. \A s \in older \union {snap} : IsSnapshot(s) /\ s.seq <= new.seq
  <2> SUFFICES ASSUME NEW s \in older \union {snap} PROVE s.seq <= new.seq
    BY DEF Inv, DiskOK
  <2>1. IsSnapshot(s) /\ IsSnapshot(snap) /\ s.seq <= snap.seq /\ snap.seq <= seq
    BY DEF Inv, DiskOK, Agrees
  <2>2. s.seq \in Nat /\ snap.seq \in Nat
    BY <2>1 DEF IsSnapshot
  <2> QED BY <1>2, <1>3, <2>1, <2>2
<1>9. DiskOK(o.snap, o.older, o.journal)
  <2>1. \A s \in {new} \union o.older : IsSnapshot(s) /\ s.seq <= new.seq
    BY <1>1, <1>2, <1>3, <1>8
  <2>2. \A i, j \in DOMAIN Whole(o.journal) : i < j => o.journal[i].seq < o.journal[j].seq
    BY <1>1, <1>5 DEF Inv, DiskOK
  <2> QED BY <1>1, <1>6, <2>1, <2>2 DEF DiskOK
<1>10. Agrees(o.snap, o.journal, js, ks, seq + 1, o.size, o.due)
  <2>1. new.seq <= seq + 1 /\ new.seq # 0
    BY <1>2, <1>3
  <2>2. HasKeys(new, ks)
    BY <1>2 DEF HasKeys
  <2>3. new = [jobs |-> js, keys |-> ks, seq |-> seq + 1]
    BY DEF new
  <2> QED BY <1>1, <1>2, <1>5, <1>6, <1>7, <2>1, <2>2, <2>3 DEF Agrees
<1> QED BY <1>1, <1>7, <1>9, <1>10 DEF new

(***************************************************************************)
(* A change of one job.                                                    *)
(***************************************************************************)

\* What the calls ask of a change: its job is there already and keeps the key of its
\* creation, or it is created, and the key is new.
Change(id, job, key) ==
  /\ id \in Ids /\ job \in Jobs
  /\ \/ key = NoKey /\ id \in DOMAIN jobs /\ job.key = jobs[id].key
     \/ key \in Keys /\ job.key = key /\ key \notin DOMAIN keys

Written(id, job, key) ==
  Outcomes(With(jobs, id, job), WithKey(keys, key, id), Line(seq + 1, id, job, key))

LEMMA DiskAfter ==
  ASSUME Inv, running, NEW id, NEW job, NEW key, Change(id, job, key), NEW o \in Written(id, job, key)
  PROVE  /\ DiskOK(o.snap, o.older, o.journal)
         /\ o.reply \in {"ok", "error", "crash"} /\ o.due \in BOOLEAN /\ o.size \in Nat
         /\ o.reply = "ok" =>
              Agrees(o.snap, o.journal, With(jobs, id, job), WithKey(keys, key, id), seq + 1, o.size, o.due)
         /\ o.reply = "error" => o.due /\ \A js : Agrees(o.snap, o.journal, js, keys, seq + 1, o.size, o.due)
<1> DEFINE js == With(jobs, id, job)
           ks == WithKey(keys, key, id)
           line == Line(seq + 1, id, job, key)
           new  == [jobs |-> js, keys |-> ks, seq |-> seq + 1]
<1>1. /\ seq \in Nat /\ size \in Nat /\ key \in Keys \union {NoKey}
      /\ id \in Ids /\ job \in Jobs
  BY DEF Inv, MemoryOK, Change
<1>2. line \in Lines /\ line.seq = seq + 1 /\ line.id = id /\ line.job = job /\ line.key = key
  BY <1>1 DEF Line, Lines
<1>3. AreJobs(js) /\ AreKeys(ks)
  BY <1>1, JobsAfter, KeysAfter DEF Inv, MemoryOK
<1> HIDE DEF js, ks, line
<1>4. Kept(o) \/ Added(o, line) \/ Replaced(o, [jobs |-> js, keys |-> ks, seq |-> line.seq])
  BY <1>2, OutcomeCases DEF Written, js, ks, line
<1>5. CASE Kept(o)
  <2>1. \A x : Agrees(o.snap, o.journal, x, keys, seq + 1, o.size, o.due)
    BY <1>5, KeptDisk
  <2> QED BY <1>1, <1>5, <2>1, KeptDisk DEF Kept
<1>6. CASE Added(o, line)
  <2>1. /\ DiskOK(o.snap, o.older, o.journal) /\ Len(o.journal) = size + 1
        /\ Agrees(o.snap, o.journal, js, ks, seq + 1, Len(o.journal), FALSE)
    BY <1>1, <1>2, <1>6, AddedDisk DEF js, ks
  <2>2. \/ o.due = FALSE /\ o.size = size + 1 /\ o.reply = "ok"
        \/ o.due = TRUE /\ o.size = size /\ o.reply \in {"error", "crash"}
    BY <1>6 DEF Added
  <2>3. HasKeys(Recover(o.snap, o.journal), keys)
    <3>1. HasKeys(Recover(o.snap, o.journal), ks)
      BY <2>1 DEF Agrees
    <3>2. \A k \in DOMAIN keys : k \in DOMAIN ks /\ ks[k] = keys[k]
      BY DEF ks, WithKey, With, Change
    <3> QED BY <3>1, <3>2 DEF HasKeys
  <2>4. o.due => \A x : Agrees(o.snap, o.journal, x, keys, seq + 1, o.size, o.due)
    BY <2>1, <2>3 DEF Agrees
  <2>5. o.reply \in {"ok", "error", "crash"} /\ o.due \in BOOLEAN /\ o.size \in Nat
    <3>1. o.reply \in {"ok", "error", "crash"} /\ o.size \in Nat
      BY <1>1, <2>2
    <3>2. o.due \in BOOLEAN
      BY <2>2, Zenon
    <3> QED BY <3>1, <3>2
  <2>6. o.reply = "ok" => Agrees(o.snap, o.journal, js, ks, seq + 1, o.size, o.due)
    <3>1. SUFFICES ASSUME o.reply = "ok" PROVE Agrees(o.snap, o.journal, js, ks, seq + 1, o.size, o.due)
      OBVIOUS
    <3>2. o.size = Len(o.journal) /\ o.due = FALSE
      BY <2>1, <2>2, <3>1
    <3> QED BY <2>1, <3>2 DEF Agrees
  <2>7. o.reply = "error" => o.due
    BY <2>2
  <2> QED BY <2>1, <2>4, <2>5, <2>6, <2>7 DEF js, ks
<1>7. CASE Replaced(o, [jobs |-> js, keys |-> ks, seq |-> seq + 1])
  <2>1. /\ o.reply \in {"ok", "crash"}
        /\ (o.due = TRUE /\ o.size = size) \/ (o.due = FALSE /\ o.size = 0)
    BY <1>7 DEF Replaced
  <2>2. DiskOK(o.snap, o.older, o.journal) /\ Agrees(o.snap, o.journal, js, ks, seq + 1, o.size, o.due)
    BY <1>3, <1>7, ReplacedDisk
  <2>3. o.reply \in {"ok", "error", "crash"} /\ o.due \in BOOLEAN /\ o.size \in Nat /\ o.reply # "error"
    <3>1. o.reply \in {"ok", "error", "crash"} /\ o.size \in Nat /\ o.reply # "error"
      BY <1>1, <2>1
    <3>2. o.due \in BOOLEAN
      BY <2>1, Zenon
    <3> QED BY <3>1, <3>2
  <2> QED BY <2>2, <2>3 DEF js, ks
<1> QED BY <1>2, <1>4, <1>5, <1>6, <1>7

StoredRows ==
  [state : {"none", "queued", "leased", "completed", "dead"}, attempts : Nat, owner : Workers \union {NoWorker}]

LEMMA RowTypes ==
  ASSUME NEW js, AreJobs(js)
  PROVE  Rows(js) \in [Ids -> StoredRows] /\ \A id \in DOMAIN js : RowOf(js[id]) \in StoredRows
<1>1. ASSUME NEW job \in Jobs PROVE RowOf(job) \in StoredRows
  BY DEF RowOf, StoredRows, Jobs
<1>2. NoJob \in StoredRows
  BY DEF NoJob, StoredRows
<1> QED BY <1>1, <1>2 DEF Rows, AreJobs

\* What is promised of jobs js, now that the change of id to its new row had that outcome.
Told(o, js, id, key) ==
  IF o.reply = "error" /\ key # NoKey
    THEN [PromisedBy(o, js, id) EXCEPT ![id] = @ \union {NoJob}]
    ELSE PromisedBy(o, js, id)

LEMMA PromisesAfter ==
  ASSUME PromisesAreRows, NEW js, AreJobs(js), NEW id \in DOMAIN js, NEW o, NEW key
  PROVE  Told(o, js, id, key) \in [Ids -> SUBSET StoredRows]
<1>1. promised \in [Ids -> SUBSET StoredRows]
  BY DEF PromisesAreRows, StoredRows
<1>2. RowOf(js[id]) \in StoredRows /\ Rows(js) \in [Ids -> StoredRows]
  BY RowTypes
<1>3. PromisedBy(o, js, id) \in [Ids -> SUBSET StoredRows]
  BY <1>1, <1>2 DEF PromisedBy
<1>4. NoJob \in StoredRows
  BY DEF NoJob, StoredRows
<1> QED BY <1>3, <1>4 DEF Told

LEMMA Nothing ==
  /\ AreJobs(Empty) /\ AreKeys(Empty)
  /\ IsIndex(NewIndex) /\ Follows(NewIndex, Empty) /\ DOMAIN Empty = {}
<1>1. DOMAIN Empty = {}
  BY DEF Empty
<1>2. AreJobs(Empty) /\ AreKeys(Empty)
  BY DEF Empty, AreJobs, AreKeys
<1>3. NewIndex.entries = Empty /\ NewIndex = [now |-> NewIndex.now, entries |-> NewIndex.entries]
  BY DEF NewIndex
<1>4. Empty \in [DOMAIN Empty -> [created : Nat, due : Nat, ready : BOOLEAN]]
  BY DEF Empty
<1> QED BY <1>1, <1>2, <1>3, <1>4 DEF IsIndex, Follows

LEMMA LostIsOK ==
  ASSUME Lost, undone' \subseteq Ids, now' \in Nat
  PROVE  MemoryOK'
<1>1. /\ running' = FALSE /\ jobs' = Empty /\ keys' = Empty /\ index' = NewIndex /\ seq' = 0 /\ size' = 0
      /\ due' = FALSE
  BY DEF Lost
<1>2. AreJobs(jobs') /\ AreKeys(keys') /\ IsIndex(index') /\ Follows(index', jobs')
  BY <1>1, Nothing
<1> QED BY <1>1, <1>2 DEF MemoryOK

LEMMA CommitInv ==
  ASSUME Inv, running, NEW ix, IsIndex(ix), Follows(ix, jobs),
         NEW id, NEW job, NEW key, Change(id, job, key), Commit(ix, id, job, key)
  PROVE  Inv'
<1> DEFINE js == With(jobs, id, job)
           ks == WithKey(keys, key, id)
<1>1. PICK o \in Written(id, job, key) :
        /\ snap' = o.snap /\ older' = o.older /\ journal' = o.journal
        /\ promised' = Told(o, js, id, key)
        /\ undone' = IF TakenBack(id, o.reply, key) THEN undone \union {id} ELSE undone
        /\ IF o.reply = "crash" THEN Lost
           ELSE /\ seq' = seq + 1 /\ size' = o.size /\ due' = o.due
                /\ IF o.reply = "error" /\ key # NoKey
                     THEN /\ jobs' = Without(js, id) /\ keys' = KeysUndone(ks, key)
                          /\ index' = [ix EXCEPT !.entries = Without(@, id)]
                     ELSE /\ jobs' = js /\ keys' = ks
                          /\ index' = Update(ix, id, job)
                /\ UNCHANGED running
        /\ UNCHANGED now
  BY DEF Commit, Written, WithKey, Told
<1>2. /\ MemoryOK /\ id \in Ids /\ job \in Jobs /\ key \in Keys \union {NoKey} /\ seq + 1 \in Nat
      /\ undone' \subseteq Ids /\ now' \in Nat
  BY <1>1 DEF Inv, MemoryOK, Change
<1>3. AreJobs(js) /\ AreJobs(Without(js, id)) /\ AreKeys(ks) /\ id \in DOMAIN js
  <2>1. AreJobs(js) /\ AreKeys(ks)
    BY <1>2, JobsAfter, KeysAfter DEF MemoryOK
  <2>2. id \in DOMAIN js
    BY DEF With
  <2> HIDE DEF js
  <2> QED BY <1>2, <2>1, <2>2, JobsAfter
<1>4. PromisesAreRows'
  <2> HIDE DEF js
  <2> QED BY <1>1, <1>3, PromisesAfter DEF Inv, PromisesAreRows, StoredRows
<1>5. /\ DiskOK(o.snap, o.older, o.journal)
      /\ o.reply \in {"ok", "error", "crash"} /\ o.due \in BOOLEAN /\ o.size \in Nat
      /\ o.reply = "ok" => Agrees(o.snap, o.journal, js, ks, seq + 1, o.size, o.due)
      /\ o.reply = "error" => o.due /\ \A x : Agrees(o.snap, o.journal, x, keys, seq + 1, o.size, o.due)
  BY DiskAfter
<1>6. DiskOK(snap, older, journal)'
  BY <1>1, <1>5 DEF DiskOK
<1>7. CASE o.reply = "crash"
  <2>1. Lost /\ running' = FALSE
    BY <1>1, <1>7 DEF Lost
  <2> QED BY <1>2, <1>4, <1>6, <2>1, LostIsOK DEF Inv
<1>8. CASE o.reply = "error" /\ key # NoKey
  <2>1. /\ jobs' = Without(js, id) /\ keys' = keys /\ key \notin DOMAIN keys
        /\ index' = [ix EXCEPT !.entries = Without(@, id)]
        /\ seq' = seq + 1 /\ size' = o.size /\ due' = o.due /\ running'
    <3>1. key \notin DOMAIN keys /\ ks = With(keys, key, id)
      BY <1>8 DEF Change, WithKey
    <3>2. KeysUndone(ks, key) = keys
      BY <1>2, <3>1, KeysUndoneIs DEF MemoryOK
    <3> HIDE DEF js, ks
    <3> QED BY <1>1, <1>8, <3>1, <3>2
  <2>2. IsIndex(index') /\ Follows(index', jobs')
    BY <2>1, RemoveFollows
  <2> HIDE DEF js, ks
  <2>4. MemoryOK'
    BY <1>2, <1>3, <1>5, <2>1, <2>2 DEF MemoryOK
  <2>5. Agrees(snap', journal', jobs', keys', seq', size', due')
    BY <1>1, <1>5, <1>8, <2>1
  <2> QED BY <1>4, <1>6, <2>4, <2>5 DEF Inv
<1>9. CASE o.reply # "crash" /\ ~(o.reply = "error" /\ key # NoKey)
  <2>1. /\ jobs' = js /\ keys' = ks /\ index' = Update(ix, id, job)
        /\ seq' = seq + 1 /\ size' = o.size /\ due' = o.due /\ running'
    <3> HIDE DEF js, ks
    <3> QED BY <1>1, <1>9
  <2>2. IsIndex(index') /\ Follows(index', jobs')
    BY <1>2, <2>1, UpdateFollows
  <2>3. key = NoKey => ks = keys
    BY DEF WithKey
  <2> HIDE DEF js, ks
  <2>4. MemoryOK'
    BY <1>2, <1>3, <1>5, <2>1, <2>2 DEF MemoryOK
  <2>5. Agrees(snap', journal', jobs', keys', seq', size', due')
    BY <1>1, <1>5, <1>9, <2>1, <2>3
  <2> QED BY <1>4, <1>6, <2>4, <2>5 DEF Inv
<1> QED BY <1>7, <1>8, <1>9

(***************************************************************************)
(* Every step keeps the invariant.                                         *)
(***************************************************************************)

\* What a call makes of the job it found.
LEMMA CreateChanges ==
  ASSUME Inv, NEW id \in Ids, NEW key \in Keys, key \notin DOMAIN keys
  PROVE  Change(id, Job("queued", 0, NoWorker, 0, 0, now, key), key)
BY DEF Inv, MemoryOK, Change, Job, Jobs

LEMMA Found ==
  ASSUME Inv, NEW id \in DOMAIN jobs
  PROVE  /\ id \in Ids /\ jobs[id] \in Jobs /\ now \in Nat
         /\ \A job \in Jobs : job.key = jobs[id].key => Change(id, job, NoKey)
BY DEF Inv, MemoryOK, AreJobs, Change

LEMMA LeaseChanges ==
  ASSUME Inv, NEW id \in DOMAIN jobs, NEW w \in Workers
  PROVE  Change(id, [jobs[id] EXCEPT !.state = "leased", !.attempts = @ + 1, !.owner = w, !.until = now + LeaseTime],
                NoKey)
<1> DEFINE job == [jobs[id] EXCEPT !.state = "leased", !.attempts = @ + 1, !.owner = w, !.until = now + LeaseTime]
<1>1. jobs[id] \in Jobs /\ jobs[id].attempts + 1 \in Nat /\ jobs[id].attempts + 1 > 0 /\ now + LeaseTime \in Nat
  BY Found, JobQueueAssumption DEF Jobs
<1>2. job \in Jobs /\ job.key = jobs[id].key
  BY <1>1 DEF Jobs
<1> HIDE DEF job
<1> QED BY <1>2, Found DEF job

LEMMA HeartbeatChanges ==
  ASSUME Inv, NEW id \in DOMAIN jobs
  PROVE  Change(id, [jobs[id] EXCEPT !.until = now + LeaseTime], NoKey)
<1> DEFINE job == [jobs[id] EXCEPT !.until = now + LeaseTime]
<1>1. job \in Jobs /\ job.key = jobs[id].key
  BY Found, JobQueueAssumption DEF Jobs
<1> HIDE DEF job
<1> QED BY <1>1, Found DEF job

LEMMA CompleteChanges ==
  ASSUME Inv, NEW id \in DOMAIN jobs
  PROVE  Change(id, [jobs[id] EXCEPT !.state = "completed", !.owner = NoWorker, !.until = 0], NoKey)
<1> DEFINE job == [jobs[id] EXCEPT !.state = "completed", !.owner = NoWorker, !.until = 0]
<1>1. job \in Jobs /\ job.key = jobs[id].key
  BY Found DEF Jobs
<1> HIDE DEF job
<1> QED BY <1>1, Found DEF job

LEMMA BackOffType == ASSUME NEW n \in Nat, n > 0 PROVE BackOff(n) \in Nat
<1>1. \A i \in 1..11 : Factor[i] \in Nat
  BY DEF Factor
<1>2. (IF n > 11 THEN 11 ELSE n) \in 1..11
  OBVIOUS
<1> QED BY <1>1, <1>2, JobQueueAssumption DEF BackOff

LEMMA FailChanges ==
  ASSUME Inv, NEW id \in DOMAIN jobs, jobs[id].state = "leased"
  PROVE  LET job == [jobs[id] EXCEPT !.owner = NoWorker, !.until = 0]
         IN  Change(id,
                    IF job.attempts >= MaxAttempts THEN [job EXCEPT !.state = "dead"]
                    ELSE [job EXCEPT !.state = "queued", !.next = now + BackOff(job.attempts)],
                    NoKey)
<1> DEFINE job == [jobs[id] EXCEPT !.owner = NoWorker, !.until = 0]
           dead == [job EXCEPT !.state = "dead"]
           again == [job EXCEPT !.state = "queued", !.next = now + BackOff(job.attempts)]
<1>1. job \in Jobs /\ job.key = jobs[id].key /\ job.attempts \in Nat /\ job.attempts > 0 /\ job.owner = NoWorker
  BY Found DEF Jobs
<1> HIDE DEF job
<1>2. dead \in Jobs /\ dead.key = job.key
  BY <1>1 DEF Jobs
<1>3. again \in Jobs /\ again.key = job.key
  <2>1. now + BackOff(job.attempts) \in Nat
    BY <1>1, BackOffType, Found
  <2> QED BY <1>1, <2>1 DEF Jobs
<1> HIDE DEF dead, again
<1>4. Change(id, dead, NoKey) /\ Change(id, again, NoKey)
  BY <1>1, <1>2, <1>3, Found
<1> QED BY <1>4 DEF dead, again, job

LEMMA ReplayChanges ==
  ASSUME Inv, NEW id \in DOMAIN jobs, jobs[id].state = "dead"
  PROVE  Change(id, [jobs[id] EXCEPT !.state = "queued", !.attempts = 0, !.next = 0], NoKey)
<1> DEFINE job == [jobs[id] EXCEPT !.state = "queued", !.attempts = 0, !.next = 0]
<1>1. job \in Jobs /\ job.key = jobs[id].key
  BY Found DEF Jobs
<1> HIDE DEF job
<1> QED BY <1>1, Found DEF job

LEMMA RebuiltFollows ==
  ASSUME NEW js, AreJobs(js)
  PROVE  IsIndex(Rebuilt(js)) /\ Follows(Rebuilt(js), js)
<1> DEFINE S == {x \in DOMAIN js : Leasable(js[x])}
           entries == [id \in S |-> [created |-> js[id].created, due |-> DueAt(js[id]), ready |-> DueAt(js[id]) <= 0]]
<1>1. ASSUME NEW id \in S
      PROVE  entries[id] \in Entries /\ entries[id].created = js[id].created /\ entries[id].due = DueAt(js[id])
  <2>1. js[id] \in Jobs
    BY DEF AreJobs
  <2>2. js[id].created \in Nat /\ DueAt(js[id]) \in Nat
    BY <2>1, DueAtType DEF Jobs
  <2> QED BY <2>2 DEF Entries
<1>2. DOMAIN entries = S
  OBVIOUS
<1>3. Rebuilt(js) = [now |-> 0, entries |-> entries]
  BY DEF Rebuilt
<1> HIDE DEF entries
<1>4. entries \in [DOMAIN entries -> Entries]
  <2>1. entries = [x \in DOMAIN entries |-> entries[x]]
    BY DEF entries
  <2> QED BY <1>1, <1>2, <2>1
<1> QED BY <1>1, <1>2, <1>3, <1>4 DEF IsIndex, Follows, Entries

LEMMA WholeTwice ==
  ASSUME NEW lines \in Journals, Readable(lines)
  PROVE  /\ Whole(lines) \in Journals /\ Whole(Whole(lines)) = Whole(lines) /\ Readable(Whole(lines))
         /\ \A i \in DOMAIN Whole(lines) : Whole(lines)[i] = lines[i] /\ lines[i] \in Lines
<1> DEFINE whole == Whole(lines)
<1>1. /\ whole \in Journals /\ DOMAIN whole = 1..Len(whole) /\ Len(whole) \in Nat
      /\ \A i \in DOMAIN whole : whole[i] = lines[i] /\ lines[i] \in Lines
  BY WholeProperties, ReadableLines
<1> HIDE DEF whole
<1>2. Whole(whole) = whole
  <2>1. whole # <<>> => Len(whole) \in DOMAIN whole
    BY <1>1 DEF Journals
  <2>2. whole # <<>> => whole[Len(whole)] # Torn
    BY <1>1, <2>1, TornIsNoLine
  <2> QED BY <2>2 DEF Whole
<1>3. Readable(whole)
  BY <1>1, <1>2, TornIsNoLine DEF Readable
<1> QED BY <1>1, <1>2, <1>3 DEF whole

LEMMA RecoverSeq ==
  ASSUME NEW s, IsSnapshot(s), NEW lines \in Journals, Readable(lines),
         \A i, j \in DOMAIN Whole(lines) : i < j => lines[i].seq < lines[j].seq
  PROVE  /\ s.seq <= Recover(s, lines).seq
         /\ s.seq # 0 => \A i \in DOMAIN Whole(lines) : lines[i].seq <= Recover(s, lines).seq
<1> DEFINE new == Newer(s, lines)
<1>0. s.seq \in Nat /\ \A i \in DOMAIN Whole(lines) : lines[i].seq \in Nat /\ i \in Nat
  BY ReadableLines, WholeProperties DEF IsSnapshot, Lines
<1>1. CASE new = {}
  <2>1. Recover(s, lines).seq = s.seq
    BY <1>1 DEF Recover
  <2>2. s.seq # 0 => \A i \in DOMAIN Whole(lines) : ~(lines[i].seq > s.seq)
    BY <1>1 DEF Newer
  <2> QED BY <1>0, <2>1, <2>2
<1>2. CASE new # {}
  <2> DEFINE l == Latest(new)
  <2>1. l \in new /\ (\A j \in new : j <= l) /\ l \in DOMAIN Whole(lines)
    BY <1>2, NewerProperties, LatestProperties
  <2>2. Recover(s, lines).seq = Larger(s.seq, lines[l].seq)
    BY <1>2 DEF Recover
  <2> HIDE DEF l
  <2>3. lines[l].seq > s.seq
    BY <2>1 DEF Newer
  <2>4. Recover(s, lines).seq = lines[l].seq
    BY <1>0, <2>1, <2>2, <2>3 DEF Larger
  <2>5. ASSUME NEW i \in DOMAIN Whole(lines), s.seq # 0 PROVE lines[i].seq <= lines[l].seq
    <3>1. CASE i \in new
      BY <1>0, <2>1, <3>1
    <3>2. CASE i \notin new
      <4>1. ~(lines[i].seq > s.seq)
        BY <2>5, <3>2 DEF Newer
      <4> QED BY <1>0, <2>1, <2>3, <4>1
    <3> QED BY <3>1, <3>2
  <2> QED BY <1>0, <2>1, <2>3, <2>4, <2>5
<1> QED BY <1>1, <1>2

\* The journal as it is opened says what it said.
LEMMA OpenedSame == ASSUME Inv PROVE Recover(snap, OpenedJournal) = Recover(snap, journal)
<1>1. IsSnapshot(snap) /\ journal \in Journals /\ Readable(journal)
  BY DEF Inv, DiskOK
<1>2. CASE snap.seq = 0
  <2>1. Newer(snap, OpenedJournal) = {} /\ Newer(snap, journal) = {}
    BY <1>2 DEF Newer
  <2> QED BY <1>1, <2>1, RecoverNothing
<1>3. CASE snap.seq # 0
  <2>1. OpenedJournal = Whole(journal)
    BY <1>3 DEF OpenedJournal
  <2>2. OpenedJournal \in Journals /\ Whole(OpenedJournal) = Whole(journal)
    BY <1>1, <2>1, WholeTwice
  <2> QED BY <1>1, <2>2, RecoverSame
<1> QED BY <1>2, <1>3

LEMMA OpenInv == ASSUME Inv, OpenQueue PROVE Inv'
<1> DEFINE got == Recover(snap, journal)
<1>1. /\ IsSnapshot(snap) /\ journal \in Journals /\ Readable(journal)
      /\ \A i, j \in DOMAIN Whole(journal) : i < j => journal[i].seq < journal[j].seq
      /\ now \in Nat /\ undone \subseteq Ids
  BY DEF Inv, MemoryOK, DiskOK
<1>2. AreJobs(got.jobs) /\ AreKeys(got.keys) /\ got.seq \in Nat
  BY <1>1, RecoverTypes
<1>3. IsIndex(Rebuilt(got.jobs)) /\ Follows(Rebuilt(got.jobs), got.jobs)
  BY <1>2, RebuiltFollows
<1>4. /\ running' = TRUE /\ jobs' = got.jobs /\ keys' = got.keys /\ seq' = got.seq /\ index' = Rebuilt(got.jobs)
      /\ promised' = [id \in Ids |-> {Rows(got.jobs)[id]}]
      /\ journal' = OpenedJournal /\ size' = Len(OpenedJournal) /\ due' = (snap.seq = 0)
      /\ older' \subseteq older /\ snap' = snap /\ now' = now /\ undone' = undone
  BY DEF OpenQueue
<1>5. /\ OpenedJournal \in Journals /\ Readable(OpenedJournal) /\ Whole(OpenedJournal) = OpenedJournal
      /\ Len(OpenedJournal) \in Nat
      /\ \A i \in DOMAIN OpenedJournal : /\ i \in DOMAIN Whole(journal) /\ OpenedJournal[i] = journal[i]
                                        /\ snap.seq # 0
  <2>1. CASE snap.seq = 0
    <3>1. OpenedJournal = <<>> /\ <<>> \in Journals /\ Whole(<<>>) = <<>> /\ DOMAIN <<>> = {} /\ Len(<<>>) = 0
      BY <2>1 DEF OpenedJournal, Journals, Whole
    <3> QED BY <3>1 DEF Readable
  <2>2. CASE snap.seq # 0
    <3>1. OpenedJournal = Whole(journal)
      BY <2>2 DEF OpenedJournal
    <3> QED BY <1>1, <2>2, <3>1, WholeTwice, WholeProperties
  <2> QED BY <2>1, <2>2
<1>6. Recover(snap, OpenedJournal) = got
  BY OpenedSame
<1>7. got = [jobs |-> got.jobs, keys |-> got.keys, seq |-> got.seq]
  BY DEF Recover
<1>8. /\ snap.seq <= got.seq
      /\ snap.seq # 0 => \A i \in DOMAIN Whole(journal) : journal[i].seq <= got.seq
  BY <1>1, RecoverSeq
<1> HIDE DEF got
<1>9. MemoryOK'
  BY <1>1, <1>2, <1>3, <1>4, <1>5 DEF MemoryOK
<1>10. PromisesAreRows'
  BY <1>2, <1>4, RowTypes DEF PromisesAreRows, StoredRows
<1>11. DiskOK(snap, older, journal)'
  <2>1. \A s \in {snap} \union older' : IsSnapshot(s) /\ s.seq <= snap.seq
    BY <1>4 DEF Inv, DiskOK
  <2>2. \A i, j \in DOMAIN OpenedJournal : i < j => OpenedJournal[i].seq < OpenedJournal[j].seq
    BY <1>1, <1>5
  <2> QED BY <1>4, <1>5, <2>1, <2>2 DEF DiskOK
<1>12. Agrees(snap', journal', jobs', keys', seq', size', due')
  <2>1. \A i \in DOMAIN OpenedJournal : OpenedJournal[i].seq <= got.seq
    BY <1>5, <1>8
  <2>2. HasKeys(got, got.keys)
    BY DEF HasKeys
  <2> QED BY <1>4, <1>5, <1>6, <1>7, <1>8, <2>1, <2>2 DEF Agrees
<1> QED BY <1>9, <1>10, <1>11, <1>12 DEF Inv

LEMMA CrashInv == ASSUME Inv, Crash PROVE Inv'
<1>1. /\ Lost /\ running' = FALSE /\ now' = now /\ undone' = undone /\ promised' = promised
      /\ snap' = snap /\ older' = older /\ journal' = journal
  BY DEF Crash, Lost, disk
<1>2. MemoryOK'
  BY <1>1, LostIsOK DEF Inv, MemoryOK
<1> QED BY <1>1, <1>2 DEF Inv, PromisesAreRows

LEMMA LosePowerInv == ASSUME Inv, LosePower PROVE Inv'
<1>1. /\ running' = running /\ running = FALSE /\ due' = due /\ seq' = seq /\ size' = size /\ now' = now
      /\ jobs' = jobs /\ keys' = keys /\ index' = index /\ undone' = undone /\ promised' = promised
      /\ snap' \in older /\ older' = {} /\ journal' = journal
  BY DEF LosePower, memory, Inv, MemoryOK
<1>2. MemoryOK'
  BY <1>1 DEF Inv, MemoryOK
<1>3. DiskOK(snap, older, journal)'
  <2>1. IsSnapshot(snap') /\ snap'.seq <= snap'.seq
    BY <1>1 DEF Inv, DiskOK, IsSnapshot
  <2> QED BY <1>1, <2>1 DEF Inv, DiskOK
<1> QED BY <1>1, <1>2, <1>3 DEF Inv, PromisesAreRows

LEMMA ClockInv ==
  ASSUME Inv, now' \in Nat, IsIndex(index'), Follows(index', jobs),
         UNCHANGED <<running, jobs, keys, seq, size, due, disk, promised, undone>>
  PROVE  Inv'
<1>1. /\ running' = running /\ jobs' = jobs /\ keys' = keys /\ seq' = seq /\ size' = size /\ due' = due
      /\ snap' = snap /\ older' = older /\ journal' = journal /\ undone' = undone /\ promised' = promised
  BY DEF disk
<1>2. MemoryOK'
  BY <1>1 DEF Inv, MemoryOK
<1>3. DiskOK(snap, older, journal)'
  BY <1>1 DEF Inv, DiskOK
<1>4. running' => Agrees(snap', journal', jobs', keys', seq', size', due')
  BY <1>1 DEF Inv
<1> QED BY <1>1, <1>2, <1>3, <1>4 DEF Inv, PromisesAreRows

LEMMA InitInv == Init => Inv
<1> SUFFICES ASSUME Init PROVE Inv
  OBVIOUS
<1>1. MemoryOK
  BY Nothing, JobQueueAssumption DEF Init, MemoryOK
<1>2. PromisesAreRows
  BY DEF Init, PromisesAreRows, NoJob
<1>3. IsSnapshot(NoSnapshot) /\ NoSnapshot.seq <= NoSnapshot.seq
  BY Nothing DEF NoSnapshot, IsSnapshot
<1>4. <<>> \in Journals /\ Whole(<<>>) = <<>> /\ DOMAIN <<>> = {}
  BY DEF Journals, Whole
<1>5. DiskOK(snap, older, journal)
  BY <1>3, <1>4 DEF Init, DiskOK, Readable
<1> QED BY <1>1, <1>2, <1>5 DEF Init, Inv

\* Each call, as a change of one job found through the index as it is or as looking left it.
LEMMA LeaseCommits ==
  ASSUME Inv, NEW w \in Workers, Lease(w)
  PROVE  LET l   == Look(index, now)
             job == [jobs[l.id] EXCEPT !.state = "leased", !.attempts = @ + 1, !.owner = w, !.until = now + LeaseTime]
         IN  /\ running /\ Commit(l.index, l.id, job, NoKey) /\ Change(l.id, job, NoKey)
             /\ IsIndex(l.index) /\ Follows(l.index, jobs)
             /\ l.id \in DOMAIN jobs /\ Leasable(jobs[l.id]) /\ DueAt(jobs[l.id]) <= now
<1> DEFINE l == Look(index, now)
           open == {id \in DOMAIN jobs : Leasable(jobs[id]) /\ DueAt(jobs[id]) <= now}
<1>1. /\ l.id = IF open = {} THEN 0 ELSE First(jobs, open)
      /\ open # {} => First(jobs, open) \in open
      /\ IsIndex(l.index) /\ Follows(l.index, jobs)
  BY LookFollows DEF Inv, MemoryOK
<1>2. running /\ l.id # 0
  BY DEF Lease
<1>3. l.id \in open
  <2> HIDE DEF open, l
  <2> QED BY <1>1, <1>2
<1>4. l.id \in DOMAIN jobs /\ Leasable(jobs[l.id]) /\ DueAt(jobs[l.id]) <= now
  <2> HIDE DEF l
  <2> QED BY <1>3
<1> HIDE DEF l, open
<1>5. Change(l.id, [jobs[l.id] EXCEPT !.state = "leased", !.attempts = @ + 1, !.owner = w, !.until = now + LeaseTime],
             NoKey)
  BY <1>4, LeaseChanges
<1> QED BY <1>1, <1>2, <1>4, <1>5 DEF Lease, l

LEMMA StepInv == Inv /\ [Next]_vars => Inv'
<1> SUFFICES ASSUME Inv, [Next]_vars PROVE Inv'
  OBVIOUS
<1>0. IsIndex(index) /\ Follows(index, jobs) /\ now \in Nat
  BY DEF Inv, MemoryOK
<1>1. ASSUME NEW id \in Ids, NEW key \in Keys, Create(id, key) PROVE Inv'
  BY <1>0, <1>1, CreateChanges, CommitInv DEF Create
<1>2. ASSUME NEW id \in Ids, ReplayDead(id) PROVE Inv'
  BY <1>0, <1>2, ReplayChanges, CommitInv DEF ReplayDead
<1>3. ASSUME NEW w \in Workers, Lease(w) PROVE Inv'
  BY <1>3, LeaseCommits, CommitInv
<1>4. ASSUME NEW id \in Ids, NEW w \in Workers, Heartbeat(id, w) PROVE Inv'
  BY <1>0, <1>4, HeartbeatChanges, CommitInv DEF Heartbeat, Owns
<1>5. ASSUME NEW id \in Ids, NEW w \in Workers, Complete(id, w) PROVE Inv'
  BY <1>0, <1>5, CompleteChanges, CommitInv DEF Complete, Owns
<1>6. ASSUME NEW id \in Ids, NEW w \in Workers, Fail(id, w) PROVE Inv'
  BY <1>0, <1>6, FailChanges, CommitInv DEF Fail, Owns
<1>7. CASE LeaseNothing
  <2>1. index' = Look(index, now).index
    BY <1>7 DEF LeaseNothing
  <2>2. IsIndex(index') /\ Follows(index', jobs)
    BY <1>0, <2>1, LookFollows DEF Inv, MemoryOK
  <2>3. now' = now /\ UNCHANGED <<running, jobs, keys, seq, size, due, disk, promised, undone>>
    BY <1>7 DEF LeaseNothing
  <2> QED BY <1>0, <2>2, <2>3, ClockInv
<1>8. CASE Tick
  BY <1>0, <1>8, ClockInv DEF Tick, memory
<1>9. CASE SetBack
  BY <1>0, <1>9, ClockInv DEF SetBack, memory
<1>10. CASE Crash
  BY <1>10, CrashInv
<1>11. CASE OpenQueue
  BY <1>11, OpenInv
<1>12. CASE LosePower
  BY <1>12, LosePowerInv
<1>13. CASE UNCHANGED vars
  BY <1>0, <1>13, ClockInv DEF vars, memory
<1> QED BY <1>1, <1>2, <1>3, <1>4, <1>5, <1>6, <1>7, <1>8, <1>9, <1>10, <1>11, <1>12, <1>13 DEF Next

LEMMA Invariance == Spec => []Inv
BY InitInv, StepInv, PTL DEF Spec

\* What a restart would find is what memory has, keys included, until the queue knows that a
\* snapshot is due; the journal can always be read, and its changes are in order.
THEOREM MemoryIsOnDiskHolds == Spec => []MemoryIsOnDisk
<1>1. Inv => MemoryIsOnDisk
  BY InvImplies
<1> QED BY <1>1, Invariance, PTL

\* Asked at any time, the lease index gives out the job that a scan of all jobs would.
THEOREM IndexAgreesWithScanHolds == Spec => []IndexAgreesWithScan
<1>1. Inv => IndexAgreesWithScan
  <2> SUFFICES ASSUME Inv PROVE IndexAgreesWithScan
    OBVIOUS
  <2>1. IsIndex(index) /\ Follows(index, jobs) /\ AreJobs(jobs) /\ now + LeaseTime \in Nat
    BY JobQueueAssumption DEF Inv, MemoryOK
  <2>2. ASSUME NEW t \in 0..now + LeaseTime
        PROVE  LET open == {id \in DOMAIN jobs : Leasable(jobs[id]) /\ DueAt(jobs[id]) <= t}
               IN  Look(index, t).id = IF open = {} THEN 0 ELSE First(jobs, open)
    <3>1. t \in Nat
      BY <2>1
    <3> QED BY <2>1, <3>1, LookFollows
  <2> QED BY <2>1, <2>2 DEF IndexAgreesWithScan
<1> QED BY <1>1, Invariance, PTL


(***************************************************************************)
(* Promises.  A rename that was answered with ok though the directory was  *)
(* not synced may still be undone by a loss of power, and one that was     *)
(* found undone may be found again later: what follows is about queues     *)
(* for which neither happens (~LateLoss).                                  *)
(***************************************************************************)

\* Jobs js and keys ks, as a restart or the running queue has them, are as told.
KeysLead(js, ks, un) == \A k \in DOMAIN ks : ks[k] \in DOMAIN js \union un
Promising(js, ks, p, un) ==
  /\ JobsHaveKeys(js, ks) /\ KeysLead(js, ks, un)
  /\ \A i \in Ids : Rows(js)[i] \in p[i]

FoundPromising(s, lines, p, un) == Promising(Recover(s, lines).jobs, Recover(s, lines).keys, p, un)

KInv == Inv /\ KeepsPromises

LEMMA KeepsParts ==
  KeepsPromises <=>
    /\ \A s \in Snapshots : FoundPromising(s, journal, promised, undone)
    /\ running => Promising(jobs, keys, promised, undone)
    /\ running /\ ~due => older = {}
BY DEF KeepsPromises, AsTold, KeysHaveJobs, KeysLead, Promising, FoundPromising

LEMMA KeepsPartsNext ==
  ASSUME \A s \in {snap'} \union older' : FoundPromising(s, journal', promised', undone'),
         running' => Promising(jobs', keys', promised', undone'),
         running' /\ ~due' => older' = {}
  PROVE  KeepsPromises'
<1>1. (KeepsPromises <=>
         /\ \A s \in Snapshots : FoundPromising(s, journal, promised, undone)
         /\ running => Promising(jobs, keys, promised, undone)
         /\ running /\ ~due => older = {})'
  BY KeepsParts, PTL
<1> QED BY <1>1 DEF Snapshots

\* What was as told stays so when more is promised and more jobs were taken back.
LEMMA MorePromised ==
  ASSUME NEW js, NEW ks, NEW p, NEW q, NEW un, NEW more, Promising(js, ks, p, un),
         un \subseteq more, \A i \in Ids : p[i] \subseteq q[i]
  PROVE  Promising(js, ks, q, more)
BY DEF Promising, KeysLead

\* A change, and a creation that was taken back, leave jobs and keys that lead to each other.
LEMMA ChangeLeads ==
  ASSUME NEW js, NEW ks, NEW un, JobsHaveKeys(js, ks), KeysLead(js, ks, un),
         NEW id, NEW job, NEW key,
         \/ key = NoKey /\ id \in DOMAIN js /\ job.key = js[id].key
         \/ key # NoKey /\ job.key = key /\ key \notin DOMAIN ks
  PROVE  /\ JobsHaveKeys(With(js, id, job), WithKey(ks, key, id))
         /\ KeysLead(With(js, id, job), WithKey(ks, key, id), un)
<1> DEFINE all  == With(js, id, job)
           more == WithKey(ks, key, id)
<1>1. /\ DOMAIN all = DOMAIN js \union {id} /\ all[id] = job
      /\ \A x \in DOMAIN js : x # id => all[x] = js[x]
  BY DEF With
<1>2. CASE key = NoKey /\ id \in DOMAIN js /\ job.key = js[id].key
  <2>1. more = ks
    BY <1>2 DEF WithKey
  <2> HIDE DEF all, more
  <2>2. JobsHaveKeys(all, more) /\ KeysLead(all, more, un)
    BY <1>1, <1>2, <2>1 DEF JobsHaveKeys, KeysLead
  <2> QED BY <2>2 DEF all, more
<1>3. CASE key # NoKey /\ job.key = key /\ key \notin DOMAIN ks
  <2>1. /\ DOMAIN more = DOMAIN ks \union {key} /\ more[key] = id
        /\ \A k \in DOMAIN ks : k # key => more[k] = ks[k]
    BY <1>3 DEF WithKey, With
  <2> HIDE DEF all, more
  <2>2. JobsHaveKeys(all, more) /\ KeysLead(all, more, un)
    BY <1>1, <1>3, <2>1 DEF JobsHaveKeys, KeysLead
  <2> QED BY <2>2 DEF all, more
<1> QED BY <1>2, <1>3

LEMMA UndoneLeads ==
  ASSUME NEW js, NEW ks, NEW un, JobsHaveKeys(js, ks), KeysLead(js, ks, un),
         NEW id, NEW job, NEW more, un \subseteq more, id \in DOMAIN js => id \in more
  PROVE  LET less == Without(With(js, id, job), id)
         IN  /\ JobsHaveKeys(less, ks) /\ KeysLead(less, ks, more)
             /\ \A i \in Ids : Rows(less)[i] = IF i = id THEN NoJob ELSE Rows(js)[i]
<1> DEFINE less == Without(With(js, id, job), id)
<1>1. DOMAIN less = DOMAIN js \ {id} /\ \A x \in DOMAIN js : x # id => less[x] = js[x]
  <2> DEFINE all == With(js, id, job)
  <2>1. DOMAIN all = DOMAIN js \union {id} /\ \A x \in DOMAIN js : x # id => all[x] = js[x]
    BY DEF With
  <2> HIDE DEF all
  <2>2. DOMAIN Without(all, id) = DOMAIN all \ {id} /\ \A x \in DOMAIN all : x # id => Without(all, id)[x] = all[x]
    BY WithoutProperties
  <2> QED BY <2>1, <2>2 DEF all
<1> HIDE DEF less
<1>2. JobsHaveKeys(less, ks) /\ KeysLead(less, ks, more)
  BY <1>1 DEF JobsHaveKeys, KeysLead
<1>3. \A i \in Ids : Rows(less)[i] = IF i = id THEN NoJob ELSE Rows(js)[i]
  BY <1>1 DEF Rows
<1> QED BY <1>2, <1>3 DEF less

\* Whatever comes of a change, its new state is promised, and if its caller was not told ok
\* the old one too, and nothing if the job was taken back.
LEMMA ToldProperties ==
  ASSUME PromisesAreRows, \A i \in Ids : Rows(jobs)[i] \in promised[i],
         NEW id \in Ids, NEW job, NEW o, NEW key
  PROVE  LET js == With(jobs, id, job)
             p  == Told(o, js, id, key)
         IN  /\ \A i \in Ids : Rows(js)[i] \in p[i]
             /\ o.reply # "ok" => \A i \in Ids : promised[i] \subseteq p[i]
             /\ o.reply = "error" /\ key # NoKey => NoJob \in p[id]
<1> DEFINE js == With(jobs, id, job)
           p  == Told(o, js, id, key)
           by == PromisedBy(o, js, id)
           wide == [promised EXCEPT ![id] = @ \union {RowOf(js[id])}]
           new  == [promised EXCEPT ![id] = {RowOf(js[id])}]
           all  == [i \in Ids |-> {Rows(js)[i]}]
           back == [by EXCEPT ![id] = @ \union {NoJob}]
<1>1. by = wide \/ (by \in {new, all} /\ o.reply = "ok")
  BY DEF PromisedBy
<1>2. /\ Rows(js)[id] = RowOf(js[id])
      /\ \A i \in Ids : i # id => Rows(js)[i] = Rows(jobs)[i]
  BY DEF Rows, With
<1>3. promised \in [Ids -> SUBSET StoredRows]
  BY DEF PromisesAreRows, StoredRows
<1>4. p = by \/ p = back
  BY DEF Told
<1>5. o.reply = "error" /\ key # NoKey => p = back
  BY DEF Told
<1> HIDE DEF js, p, by
<1>6. \A i \in Ids : Rows(js)[i] \in wide[i] /\ Rows(js)[i] \in new[i] /\ Rows(js)[i] \in all[i]
  BY <1>2, <1>3
<1>7. \A i \in Ids : promised[i] \subseteq wide[i]
  BY <1>3
<1>8. DOMAIN by = Ids
  BY <1>1, <1>3
<1> HIDE DEF wide, new, all
<1>9. \A i \in Ids : by[i] \subseteq back[i]
  BY <1>8
<1>10. NoJob \in back[id]
  BY <1>8
<1> HIDE DEF back
<1>11. \A i \in Ids : by[i] \subseteq p[i]
  BY <1>4, <1>9
<1>12. \A i \in Ids : Rows(js)[i] \in by[i]
  BY <1>1, <1>6
<1>13. o.reply # "ok" => \A i \in Ids : promised[i] \subseteq by[i]
  BY <1>1, <1>7
<1> QED BY <1>5, <1>10, <1>11, <1>12, <1>13 DEF js, p

LEMMA PromisesOnDisk ==
  ASSUME ~LateLoss, KInv, running, NEW id, NEW job, NEW key, Change(id, job, key), NEW o \in Written(id, job, key)
  PROVE  LET js == With(jobs, id, job)
             ks == WithKey(keys, key, id)
             p  == Told(o, js, id, key)
         IN  /\ Promising(js, ks, p, undone)
             /\ \A s \in {o.snap} \union o.older : FoundPromising(s, o.journal, p, undone)
             /\ o.reply # "ok" => Promising(jobs, keys, p, undone)
             /\ o.reply = "error" /\ key # NoKey => NoJob \in p[id]
             /\ ~o.due => o.older = {}
<1> DEFINE js == With(jobs, id, job)
           ks == WithKey(keys, key, id)
           p  == Told(o, js, id, key)
           line == Line(seq + 1, id, job, key)
<1>1. /\ \A s \in Snapshots : FoundPromising(s, journal, promised, undone)
      /\ Promising(jobs, keys, promised, undone)
      /\ ~due => older = {}
      /\ Inv
  BY KeepsParts DEF KInv
<1>2. /\ id \in Ids /\ job \in Jobs /\ key \in Keys \union {NoKey} /\ seq + 1 \in Nat
      /\ \/ key = NoKey /\ id \in DOMAIN jobs /\ job.key = jobs[id].key
         \/ key # NoKey /\ job.key = key /\ key \notin DOMAIN keys
  BY <1>1, JobQueueAssumption DEF Inv, MemoryOK, Change
<1>3. /\ \A i \in Ids : Rows(js)[i] \in p[i]
      /\ o.reply # "ok" => \A i \in Ids : promised[i] \subseteq p[i]
      /\ o.reply = "error" /\ key # NoKey => NoJob \in p[id]
  BY <1>1, <1>2, ToldProperties DEF Inv, Promising
<1>4. JobsHaveKeys(js, ks) /\ KeysLead(js, ks, undone)
  BY <1>1, <1>2, ChangeLeads DEF Promising
<1>5. AreJobs(js) /\ AreKeys(ks)
  BY <1>1, <1>2, JobsAfter, KeysAfter DEF Inv, MemoryOK
<1>6. line \in Lines /\ line.seq = seq + 1 /\ line.id = id /\ line.job = job /\ line.key = key
  BY <1>2 DEF Line, Lines
<1> HIDE DEF js, ks, p, line
<1>7. Promising(js, ks, p, undone)
  BY <1>3, <1>4 DEF Promising
<1>8. ASSUME NEW x, NEW y, Promising(x, y, promised, undone), o.reply # "ok"
      PROVE  Promising(x, y, p, undone)
  BY <1>3, <1>8, MorePromised
<1>9. Kept(o) \/ Added(o, line) \/ Replaced(o, [jobs |-> js, keys |-> ks, seq |-> line.seq])
  BY <1>1, <1>6, OutcomeCases DEF Written, js, ks, line
<1>10. /\ \A s \in {o.snap} \union o.older : FoundPromising(s, o.journal, p, undone)
       /\ ~o.due => o.older = {}
  <2>1. CASE Kept(o)
    <3>1. /\ o.snap = snap /\ o.older = older /\ o.journal \in Journals /\ Whole(o.journal) = Whole(journal)
          /\ o.due = TRUE /\ o.reply # "ok" /\ journal \in Journals /\ Readable(journal)
      BY <1>1, <2>1 DEF Kept, Inv, DiskOK
    <3>2. \A s : Recover(s, o.journal) = Recover(s, journal)
      BY <3>1, RecoverSame
    <3> QED BY <1>1, <1>8, <3>1, <3>2 DEF Snapshots, FoundPromising
  <2>2. CASE Added(o, line)
    <3>1. o.older = {}
      BY <1>1, <2>2 DEF Added
    <3>2. Recover(o.snap, o.journal).jobs = js /\ Recover(o.snap, o.journal).keys = ks
      <4>1. Agrees(o.snap, o.journal, js, ks, seq + 1, Len(o.journal), FALSE)
        BY <1>1, <1>2, <1>6, <2>2, AddedDisk DEF js, ks
      <4> QED BY <4>1 DEF Agrees
    <3> QED BY <1>7, <3>1, <3>2 DEF FoundPromising
  <2>3. CASE Replaced(o, [jobs |-> js, keys |-> ks, seq |-> seq + 1])
    <3>1. Recover(o.snap, o.journal).jobs = js /\ Recover(o.snap, o.journal).keys = ks
      BY <1>1, <1>5, <2>3, ReplacedDisk
    <3>2. \/ o.older = {}
          \/ o.journal = journal /\ o.due = TRUE /\ o.reply # "ok" /\ o.older = older \union {snap}
      BY <2>3 DEF Replaced
    <3>3. FoundPromising(o.snap, o.journal, p, undone)
      BY <1>7, <3>1 DEF FoundPromising
    <3>4. CASE o.older = {}
      BY <3>3, <3>4
    <3>5. CASE o.journal = journal /\ o.due = TRUE /\ o.reply # "ok" /\ o.older = older \union {snap}
      <4>1. \A s \in o.older : FoundPromising(s, o.journal, p, undone)
        BY <1>1, <1>8, <3>5 DEF Snapshots, FoundPromising
      <4> QED BY <3>3, <3>5, <4>1
    <3> QED BY <3>2, <3>4, <3>5
  <2> QED BY <1>6, <1>9, <2>1, <2>2, <2>3
<1>11. o.reply # "ok" => Promising(jobs, keys, p, undone)
  BY <1>1, <1>8
<1> QED BY <1>3, <1>7, <1>10, <1>11 DEF js, ks, p

LEMMA CommitKeeps ==
  ASSUME ~LateLoss, KInv, running, NEW ix, NEW id, NEW job, NEW key, Change(id, job, key), Commit(ix, id, job, key)
  PROVE  KeepsPromises'
<1> DEFINE js == With(jobs, id, job)
           ks == WithKey(keys, key, id)
<1>1. PICK o \in Written(id, job, key) :
        /\ snap' = o.snap /\ older' = o.older /\ journal' = o.journal
        /\ promised' = Told(o, js, id, key)
        /\ undone' = IF TakenBack(id, o.reply, key) THEN undone \union {id} ELSE undone
        /\ IF o.reply = "crash" THEN Lost
           ELSE /\ seq' = seq + 1 /\ size' = o.size /\ due' = o.due
                /\ IF o.reply = "error" /\ key # NoKey
                     THEN /\ jobs' = Without(js, id) /\ keys' = KeysUndone(ks, key)
                          /\ index' = [ix EXCEPT !.entries = Without(@, id)]
                     ELSE /\ jobs' = js /\ keys' = ks
                          /\ index' = Update(ix, id, job)
                /\ UNCHANGED running
        /\ UNCHANGED now
  BY DEF Commit, Written, WithKey, Told
<1>2. /\ Promising(js, ks, promised', undone)
      /\ \A s \in {snap'} \union older' : FoundPromising(s, journal', promised', undone)
      /\ o.reply # "ok" => Promising(jobs, keys, promised', undone)
      /\ o.reply = "error" /\ key # NoKey => NoJob \in promised'[id]
      /\ ~o.due => older' = {}
  BY <1>1, PromisesOnDisk
<1>3. undone \subseteq undone'
  BY <1>1
<1>4. \A s \in {snap'} \union older' : FoundPromising(s, journal', promised', undone')
  BY <1>2, <1>3, MorePromised DEF FoundPromising
<1>5. running' => Promising(jobs', keys', promised', undone')
  <2>1. CASE o.reply = "crash"
    BY <1>1, <2>1 DEF Lost
  <2>2. CASE o.reply = "error" /\ key # NoKey
    <3>1. key \notin DOMAIN keys /\ ks = With(keys, key, id) /\ (id \in DOMAIN jobs => id \in undone')
      BY <1>1, <2>2 DEF Change, WithKey, TakenBack
    <3>2. AreKeys(keys)
      BY DEF KInv, Inv, MemoryOK
    <3>3. jobs' = Without(js, id) /\ keys' = keys
      <4>1. KeysUndone(ks, key) = keys
        BY <3>1, <3>2, KeysUndoneIs
      <4> HIDE DEF js, ks
      <4> QED BY <1>1, <2>2, <4>1
    <3>4. Promising(jobs, keys, promised', undone)
      BY <1>2, <2>2
    <3>5. /\ JobsHaveKeys(jobs', keys) /\ KeysLead(jobs', keys, undone')
          /\ \A i \in Ids : Rows(jobs')[i] = IF i = id THEN NoJob ELSE Rows(jobs)[i]
      <4>1. JobsHaveKeys(jobs, keys) /\ KeysLead(jobs, keys, undone) /\ (id \in DOMAIN jobs => id \in undone')
        BY <3>1, <3>4 DEF Promising
      <4> QED BY <1>3, <3>3, <4>1, UndoneLeads
    <3>6. \A i \in Ids : Rows(jobs')[i] \in promised'[i]
      BY <1>2, <2>2, <3>4, <3>5 DEF Promising
    <3> QED BY <3>3, <3>5, <3>6 DEF Promising
  <2>3. CASE o.reply # "crash" /\ ~(o.reply = "error" /\ key # NoKey)
    <3>1. jobs' = js /\ keys' = ks
      BY <1>1, <2>3
    <3>2. Promising(js, ks, promised', undone')
      <4> HIDE DEF js, ks
      <4> QED BY <1>2, <1>3, MorePromised
    <3> QED BY <3>1, <3>2
  <2> QED BY <2>1, <2>2, <2>3
<1>6. running' => due' = o.due
  BY <1>1 DEF Lost
<1> QED BY <1>2, <1>4, <1>5, <1>6, KeepsPartsNext

LEMMA CrashKeeps == ASSUME KInv, Crash PROVE KeepsPromises'
<1>1. /\ running' = FALSE /\ snap' = snap /\ older' = older /\ journal' = journal
      /\ promised' = promised /\ undone' = undone
  BY DEF Crash, Lost, disk
<1>2. \A s \in {snap'} \union older' : FoundPromising(s, journal', promised', undone')
  BY <1>1, KeepsParts DEF KInv, Snapshots
<1> QED BY <1>1, <1>2, KeepsPartsNext

LEMMA LosePowerKeeps == ASSUME KInv, LosePower PROVE KeepsPromises'
<1>1. /\ ~running' /\ snap' \in older /\ older' = {} /\ journal' = journal
      /\ promised' = promised /\ undone' = undone
  BY DEF LosePower
<1>2. \A s \in {snap'} \union older' : FoundPromising(s, journal', promised', undone')
  BY <1>1, KeepsParts DEF KInv, Snapshots
<1> QED BY <1>1, <1>2, KeepsPartsNext

LEMMA OpenKeeps == ASSUME KInv, ~LateLoss, OpenQueue PROVE KeepsPromises'
<1> DEFINE got == Recover(snap, journal)
<1>1. /\ jobs' = got.jobs /\ keys' = got.keys /\ promised' = [id \in Ids |-> {Rows(got.jobs)[id]}]
      /\ journal' = OpenedJournal /\ snap' = snap /\ older' = {} /\ undone' = undone
  BY DEF OpenQueue
<1>2. Recover(snap', journal') = got
  BY <1>1, OpenedSame DEF KInv
<1>3. FoundPromising(snap, journal, promised, undone)
  BY KeepsParts DEF KInv, Snapshots
<1>4. Promising(got.jobs, got.keys, promised, undone)
  BY <1>3 DEF FoundPromising
<1> HIDE DEF got
<1>5. Promising(got.jobs, got.keys, promised', undone')
  BY <1>1, <1>4 DEF Promising
<1>6. Promising(jobs', keys', promised', undone')
  BY <1>1, <1>5
<1>7. \A s \in {snap'} \union older' : FoundPromising(s, journal', promised', undone')
  BY <1>1, <1>2, <1>5 DEF FoundPromising
<1> QED BY <1>1, <1>6, <1>7, KeepsPartsNext

LEMMA StandsKeeps ==
  ASSUME KInv, UNCHANGED <<running, jobs, keys, due, disk, promised, undone>>
  PROVE  KeepsPromises'
<1>1. /\ running' = running /\ jobs' = jobs /\ keys' = keys /\ due' = due
      /\ snap' = snap /\ older' = older /\ journal' = journal /\ undone' = undone /\ promised' = promised
  BY DEF disk
<1>2. /\ \A s \in Snapshots : FoundPromising(s, journal, promised, undone)
      /\ running => Promising(jobs, keys, promised, undone)
      /\ running /\ ~due => older = {}
  BY KeepsParts DEF KInv
<1> QED BY <1>1, <1>2, KeepsPartsNext DEF Snapshots

\* What each call does, by the change it makes.
LEMMA CreateCommits ==
  ASSUME Inv, NEW id \in Ids, NEW key \in Keys, Create(id, key)
  PROVE  LET job == Job("queued", 0, NoWorker, 0, 0, now, key)
         IN  running /\ Commit(index, id, job, key) /\ Change(id, job, key)
BY CreateChanges DEF Create

LEMMA HeartbeatCommits ==
  ASSUME Inv, NEW id \in Ids, NEW w, Heartbeat(id, w)
  PROVE  LET job == [jobs[id] EXCEPT !.until = now + LeaseTime]
         IN  running /\ Owns(id, w) /\ Commit(index, id, job, NoKey) /\ Change(id, job, NoKey)
BY HeartbeatChanges DEF Heartbeat, Owns

LEMMA CompleteCommits ==
  ASSUME Inv, NEW id \in Ids, NEW w, Complete(id, w)
  PROVE  LET job == [jobs[id] EXCEPT !.state = "completed", !.owner = NoWorker, !.until = 0]
         IN  running /\ Owns(id, w) /\ Commit(index, id, job, NoKey) /\ Change(id, job, NoKey)
BY CompleteChanges DEF Complete, Owns

\* A job as it is after a failure.
AfterFailure(old) ==
  LET job == [old EXCEPT !.owner = NoWorker, !.until = 0]
  IN  IF job.attempts >= MaxAttempts THEN [job EXCEPT !.state = "dead"]
      ELSE [job EXCEPT !.state = "queued", !.next = now + BackOff(job.attempts)]

LEMMA FailCommits ==
  ASSUME Inv, NEW id \in Ids, NEW w, Fail(id, w)
  PROVE  /\ running /\ Owns(id, w)
         /\ Commit(index, id, AfterFailure(jobs[id]), NoKey) /\ Change(id, AfterFailure(jobs[id]), NoKey)
BY FailChanges DEF Fail, Owns, AfterFailure

LEMMA ReplayCommits ==
  ASSUME Inv, NEW id \in Ids, ReplayDead(id)
  PROVE  LET job == [jobs[id] EXCEPT !.state = "queued", !.attempts = 0, !.next = 0]
         IN  running /\ Commit(index, id, job, NoKey) /\ Change(id, job, NoKey)
BY ReplayChanges DEF ReplayDead

LEMMA StepKeeps == ~LateLoss => (KInv /\ [Next]_vars => KInv')
<1> SUFFICES ASSUME ~LateLoss, KInv, [Next]_vars PROVE KInv'
  OBVIOUS
<1>0. Inv /\ Inv'
  BY StepInv DEF KInv
<1> SUFFICES KeepsPromises'
  BY <1>0 DEF KInv
<1>1. ASSUME NEW id \in Ids, NEW key \in Keys, Create(id, key) PROVE KeepsPromises'
  BY <1>0, <1>1, CreateCommits, CommitKeeps
<1>2. ASSUME NEW id \in Ids, ReplayDead(id) PROVE KeepsPromises'
  BY <1>0, <1>2, ReplayCommits, CommitKeeps
<1>3. ASSUME NEW w \in Workers, Lease(w) PROVE KeepsPromises'
  BY <1>0, <1>3, LeaseCommits, CommitKeeps
<1>4. ASSUME NEW id \in Ids, NEW w \in Workers, Heartbeat(id, w) PROVE KeepsPromises'
  BY <1>0, <1>4, HeartbeatCommits, CommitKeeps
<1>5. ASSUME NEW id \in Ids, NEW w \in Workers, Complete(id, w) PROVE KeepsPromises'
  BY <1>0, <1>5, CompleteCommits, CommitKeeps
<1>6. ASSUME NEW id \in Ids, NEW w \in Workers, Fail(id, w) PROVE KeepsPromises'
  BY <1>0, <1>6, FailCommits, CommitKeeps
<1>7. CASE LeaseNothing
  BY <1>7, StandsKeeps DEF LeaseNothing
<1>8. CASE Tick
  BY <1>8, StandsKeeps DEF Tick, memory
<1>9. CASE SetBack
  BY <1>9, StandsKeeps DEF SetBack, memory
<1>10. CASE Crash
  BY <1>10, CrashKeeps
<1>11. CASE OpenQueue
  BY <1>11, OpenKeeps
<1>12. CASE LosePower
  BY <1>12, LosePowerKeeps
<1>13. CASE UNCHANGED vars
  BY <1>13, StandsKeeps DEF vars, memory
<1> QED BY <1>1, <1>2, <1>3, <1>4, <1>5, <1>6, <1>7, <1>8, <1>9, <1>10, <1>11, <1>12, <1>13 DEF Next

LEMMA InitKeeps == Init => KInv
<1> SUFFICES ASSUME Init PROVE KInv
  OBVIOUS
<1>1. /\ ~running /\ Snapshots = {NoSnapshot} /\ promised = [id \in Ids |-> {NoJob}]
  BY DEF Init, Snapshots
<1>2. Recover(NoSnapshot, journal) = NoSnapshot
  <2>1. IsSnapshot(NoSnapshot) /\ NoSnapshot.seq = 0
    BY Nothing DEF NoSnapshot, IsSnapshot
  <2>2. Newer(NoSnapshot, journal) = {}
    BY <2>1 DEF Newer
  <2> QED BY <2>1, <2>2, RecoverNothing
<1>3. NoSnapshot.jobs = Empty /\ NoSnapshot.keys = Empty /\ DOMAIN Empty = {}
  BY Nothing DEF NoSnapshot
<1>4. Promising(Empty, Empty, promised, undone)
  BY <1>1, <1>3 DEF Promising, JobsHaveKeys, KeysLead, Rows
<1>5. KeepsPromises
  BY <1>1, <1>2, <1>3, <1>4, KeepsParts DEF FoundPromising
<1> QED BY <1>5, InitInv DEF KInv

LEMMA KeepsInvariance == ASSUME ~LateLoss PROVE Spec => []KInv
<1>1. KInv /\ [Next]_vars => KInv'
  BY StepKeeps
<1> QED BY <1>1, InitKeeps, PTL DEF Spec

\* Whatever was told stays so over crashes and power losses, and jobs and keys lead to each
\* other, but for a job that a failed creation under another key took away.
THEOREM KeepsPromisesHolds == ASSUME ~LateLoss PROVE Spec => []KeepsPromises
<1>1. KInv => KeepsPromises
  BY DEF KInv
<1> QED BY <1>1, KeepsInvariance, PTL


(***************************************************************************)
(* The queue implements the job table.                                     *)
(***************************************************************************)

TableState == Rows(Current)

LiveIn(js, t) == {id \in DOMAIN js : js[id].state = "leased" /\ js[id].until > t}

LEMMA LiveInProperties ==
  ASSUME NEW js, AreJobs(js), NEW t
  PROVE  LiveIn(js, t) \in SUBSET {id \in Ids : Rows(js)[id].state = "leased"}
BY DEF LiveIn, AreJobs, Rows, RowOf

LEMMA RowsAfter ==
  ASSUME NEW js, NEW id \in Ids, NEW job
  PROVE  Rows(With(js, id, job)) = [Rows(js) EXCEPT ![id] = RowOf(job)]
BY DEF Rows, With

LEMMA LiveAfter ==
  ASSUME NEW js, NEW id, NEW job, NEW t
  PROVE  LiveIn(With(js, id, job), t) =
           IF job.state = "leased" /\ job.until > t THEN LiveIn(js, t) \union {id} ELSE LiveIn(js, t) \ {id}
<1> DEFINE new == With(js, id, job)
<1>1. DOMAIN new = DOMAIN js \union {id} /\ new[id] = job /\ \A x \in DOMAIN js : x # id => new[x] = js[x]
  BY DEF With
<1> HIDE DEF new
<1>2. CASE job.state = "leased" /\ job.until > t
  BY <1>1, <1>2 DEF LiveIn, new
<1>3. CASE ~(job.state = "leased" /\ job.until > t)
  BY <1>1, <1>3 DEF LiveIn, new
<1> QED BY <1>2, <1>3

LEMMA RowsWithout ==
  ASSUME NEW js, NEW id \in Ids, NEW job
  PROVE  Rows(Without(With(js, id, job), id)) = [Rows(js) EXCEPT ![id] = NoJob]
<1> DEFINE less == Without(With(js, id, job), id)
<1>1. less = [x \in (DOMAIN js \union {id}) \ {id} |-> With(js, id, job)[x]]
  BY DEF Without, Restrict, With
<1>2. DOMAIN less = DOMAIN js \ {id} /\ \A x \in DOMAIN js : x # id => less[x] = js[x]
  BY <1>1 DEF With
<1> HIDE DEF less
<1>3. Rows(less) = [Rows(js) EXCEPT ![id] = NoJob]
  BY <1>2 DEF Rows
<1> QED BY <1>3 DEF less

LEMMA LiveWithout ==
  ASSUME NEW js, NEW id, NEW job, NEW t
  PROVE  LiveIn(Without(With(js, id, job), id), t) = LiveIn(js, t) \ {id}
<1> DEFINE less == Without(With(js, id, job), id)
<1>1. less = [x \in (DOMAIN js \union {id}) \ {id} |-> With(js, id, job)[x]]
  BY DEF Without, Restrict, With
<1>2. DOMAIN less = DOMAIN js \ {id} /\ \A x \in DOMAIN js : x # id => less[x] = js[x]
  BY <1>1 DEF With
<1> HIDE DEF less
<1>3. LiveIn(less, t) = LiveIn(js, t) \ {id}
  BY <1>2 DEF LiveIn
<1> QED BY <1>3 DEF less

\* What is in the table, and promised, may be found.
LEMMA TableIsFound ==
  ASSUME NEW js, AreJobs(js), NEW p, p \in [Ids -> SUBSET StoredRows], \A i \in Ids : Rows(js)[i] \in p[i]
  PROVE  Rows(js) \in Table!Found(p)
<1>1. Rows(js) \in [Ids -> UNION {p[i] : i \in Ids}]
  BY DEF Rows
<1> QED BY <1>1 DEF Table!Found

LEMMA CurrentRuns == running => Current = jobs /\ Live = LiveIn(jobs, now)
BY DEF Current, Live, LiveIn

LEMMA CurrentIsDown ==
  ~running => Current = Recover(snap, journal).jobs /\ Live = LiveIn(Recover(snap, journal).jobs, now)
BY DEF Current, Live, LiveIn

LEMMA CurrentProperties ==
  KInv => /\ AreJobs(Current) /\ promised \in [Ids -> SUBSET StoredRows]
          /\ \A i \in Ids : TableState[i] \in promised[i]
          /\ Live \in SUBSET Table!Leased(TableState)
          /\ TableState \in Table!Found(promised)
<1> SUFFICES ASSUME KInv
             PROVE  /\ AreJobs(Current) /\ promised \in [Ids -> SUBSET StoredRows]
                    /\ \A i \in Ids : TableState[i] \in promised[i]
                    /\ Live \in SUBSET Table!Leased(TableState)
                    /\ TableState \in Table!Found(promised)
  OBVIOUS
<1>1. promised \in [Ids -> SUBSET StoredRows]
  BY DEF KInv, Inv, PromisesAreRows, StoredRows
<1>2. AreJobs(Current)
  <2>1. CASE running
    BY <2>1, CurrentRuns DEF KInv, Inv, MemoryOK
  <2>2. CASE ~running
    BY <2>2, CurrentIsDown, RecoverTypes DEF KInv, Inv, DiskOK
  <2> QED BY <2>1, <2>2
<1>3. \A i \in Ids : TableState[i] \in promised[i]
  BY CurrentRuns, CurrentIsDown, KeepsParts DEF KInv, Promising, FoundPromising, Snapshots, TableState
<1>4. Live \in SUBSET Table!Leased(TableState)
  <2>1. Live = LiveIn(Current, now)
    BY DEF Live, LiveIn
  <2> QED BY <1>2, <2>1, LiveInProperties DEF Table!Leased, TableState
<1> QED BY <1>1, <1>2, <1>3, <1>4, TableIsFound DEF TableState


\* A change, as the table sees it: the job became its new row, or its creation was taken back.
LEMMA CommitMaps ==
  ASSUME KInv, KInv', running, NEW ix, NEW id, NEW job, NEW key, Change(id, job, key), Commit(ix, id, job, key)
  PROVE  \/ Table!Become(id, RowOf(job), IF job.state = "leased" /\ job.until > now THEN Live \union {id} ELSE Live \ {id})
         \/ /\ key # NoKey /\ promised' = [promised EXCEPT ![id] = @ \union {NoJob, RowOf(job)}]
            /\ TableState' = [TableState EXCEPT ![id] = NoJob] /\ Live' = Live \ {id}
<1> DEFINE js  == With(jobs, id, job)
           ks  == WithKey(keys, key, id)
           row == RowOf(job)
           runs == IF job.state = "leased" /\ job.until > now THEN Live \union {id} ELSE Live \ {id}
<1>1. PICK o \in Written(id, job, key) :
        /\ promised' = Told(o, js, id, key)
        /\ IF o.reply = "crash" THEN Lost
           ELSE /\ IF o.reply = "error" /\ key # NoKey
                     THEN jobs' = Without(js, id)
                     ELSE jobs' = js
                /\ UNCHANGED running
        /\ UNCHANGED now
  BY DEF Commit, Written, WithKey, Told
<1>2. TableState = Rows(jobs) /\ Live = LiveIn(jobs, now) /\ id \in Ids /\ js[id] = job
  BY CurrentRuns DEF TableState, Change, With
<1>3. /\ TableState' \in Table!Found(promised')
      /\ Live' \in SUBSET Table!Leased(TableState')
  <2>1. (KInv => /\ AreJobs(Current) /\ promised \in [Ids -> SUBSET StoredRows]
                 /\ \A i \in Ids : TableState[i] \in promised[i]
                 /\ Live \in SUBSET Table!Leased(TableState)
                 /\ TableState \in Table!Found(promised))'
    BY CurrentProperties, PTL
  <2> QED BY <2>1
<1>4. Rows(js) = [TableState EXCEPT ![id] = row] /\ LiveIn(js, now) = runs
  BY <1>2, RowsAfter, LiveAfter
<1>5. ~(o.reply = "error" /\ key # NoKey) =>
        \/ promised' = [promised EXCEPT ![id] = @ \union {row}]
        \/ o.reply = "ok" /\ promised' = [promised EXCEPT ![id] = {row}]
        \/ o.reply = "ok" /\ promised' = [i \in Ids |-> {Rows(js)[i]}]
  BY <1>1, <1>2 DEF PromisedBy, Told
<1>6. o.reply = "crash" => promised' = [promised EXCEPT ![id] = @ \union {row}]
  BY <1>5
<1> HIDE DEF js, row, runs
<1>7. CASE o.reply = "crash"
  <2>1. Table!Interrupted(id, row)
    BY <1>3, <1>6, <1>7 DEF Table!Interrupted, TableState
  <2> QED BY <2>1 DEF Table!Become, row
<1>8. CASE o.reply = "error" /\ key # NoKey
  <2>1. jobs' = Without(js, id) /\ running' /\ now' = now
    BY <1>1, <1>8
  <2>2. (TableState = Rows(jobs) /\ Live = LiveIn(jobs, now))'
    <3>1. (running => Current = jobs /\ Live = LiveIn(jobs, now))'
      BY CurrentRuns, PTL
    <3> QED BY <2>1, <3>1 DEF TableState
  <2>3. TableState' = [TableState EXCEPT ![id] = NoJob] /\ Live' = Live \ {id}
    BY <1>2, <2>1, <2>2, RowsWithout, LiveWithout DEF js
  <2>4. promised' = [promised EXCEPT ![id] = @ \union {NoJob, row}]
    <3>1. promised \in [Ids -> SUBSET StoredRows]
      BY CurrentProperties
    <3>2. PromisedBy(o, js, id) = [promised EXCEPT ![id] = @ \union {row}]
      BY <1>2, <1>8 DEF PromisedBy, js, row
    <3>3. promised' = [PromisedBy(o, js, id) EXCEPT ![id] = @ \union {NoJob}]
      BY <1>1, <1>8 DEF Told
    <3>4. promised' = [promised EXCEPT ![id] = (@ \union {row}) \union {NoJob}]
      BY <1>2, <3>1, <3>2, <3>3
    <3>5. \A S : (S \union {row}) \union {NoJob} = S \union {NoJob, row}
      OBVIOUS
    <3> QED BY <3>4, <3>5
  <2> QED BY <1>8, <2>3, <2>4 DEF row
<1>9. CASE o.reply # "crash" /\ ~(o.reply = "error" /\ key # NoKey)
  <2>1. jobs' = js /\ running' /\ now' = now
    BY <1>1, <1>9
  <2>2. (TableState = Rows(jobs) /\ Live = LiveIn(jobs, now))'
    <3>1. (running => Current = jobs /\ Live = LiveIn(jobs, now))'
      BY CurrentRuns, PTL
    <3> QED BY <2>1, <3>1 DEF TableState
  <2>3. TableState' = [TableState EXCEPT ![id] = row] /\ Live' = runs /\ TableState' = Rows(js)
    BY <1>4, <2>1, <2>2
  <2>4. Table!Done(id, row)
    BY <1>5, <1>9, <2>3 DEF Table!Done, TableState
  <2> QED BY <2>3, <2>4 DEF Table!Become, row, runs
<1> QED BY <1>7, <1>8, <1>9


LEMMA HoldsIsOwns ==
  ASSUME KInv, running, NEW id \in Ids, NEW w, Owns(id, w)
  PROVE  /\ Table!Holds(id, w) /\ id \in DOMAIN jobs /\ id \in Live
         /\ TableState[id] = RowOf(jobs[id]) /\ jobs[id] \in Jobs
         /\ jobs[id].state = "leased" /\ jobs[id].until > now /\ now \in Nat
<1>1. TableState = Rows(jobs) /\ Live = LiveIn(jobs, now)
  BY CurrentRuns DEF TableState
<1>2. id \in DOMAIN jobs /\ jobs[id].state = "leased" /\ jobs[id].until > now /\ jobs[id].owner = w
  BY DEF Owns
<1>3. TableState[id] = RowOf(jobs[id]) /\ id \in Live
  BY <1>1, <1>2 DEF Rows, LiveIn
<1>4. jobs[id] \in Jobs /\ now \in Nat
  BY <1>2, Found DEF KInv
<1>5. RowOf(jobs[id]).state = "leased" /\ RowOf(jobs[id]).owner = w
  BY <1>2 DEF RowOf
<1> QED BY <1>2, <1>3, <1>4, <1>5 DEF Table!Holds, TableState

LEMMA CreateMaps ==
  ASSUME KInv, KInv', NEW id \in Ids, NEW key \in Keys, Create(id, key)
  PROVE  Table!Create(id) \/ Table!CreateFails(id)
<1> DEFINE job == Job("queued", 0, NoWorker, 0, 0, now, key)
<1>1. running /\ Commit(index, id, job, key) /\ Change(id, job, key)
  BY CreateCommits DEF KInv, Create
<1>2. RowOf(job) = Table!Row("queued", 0, NoWorker) /\ job.state # "leased" /\ NoJob = Table!NoJob
  BY DEF Job, RowOf, Table!Row, NoJob, Table!NoJob
<1> HIDE DEF job
<1>3. \/ Table!Become(id, RowOf(job), Live \ {id})
      \/ /\ promised' = [promised EXCEPT ![id] = @ \union {NoJob, RowOf(job)}]
         /\ TableState' = [TableState EXCEPT ![id] = NoJob] /\ Live' = Live \ {id}
  <2>1. (IF job.state = "leased" /\ job.until > now THEN Live \union {id} ELSE Live \ {id}) = Live \ {id}
    BY <1>2
  <2>2. \/ Table!Become(id, RowOf(job),
                       IF job.state = "leased" /\ job.until > now THEN Live \union {id} ELSE Live \ {id})
        \/ /\ key # NoKey /\ promised' = [promised EXCEPT ![id] = @ \union {NoJob, RowOf(job)}]
           /\ TableState' = [TableState EXCEPT ![id] = NoJob] /\ Live' = Live \ {id}
    BY <1>1, CommitMaps
  <2> QED BY <2>1, <2>2
<1> QED BY <1>2, <1>3 DEF Table!Create, Table!CreateFails, TableState

LEMMA LeaseMaps ==
  ASSUME KInv, KInv', NEW w \in Workers, Lease(w)
  PROVE  \E id \in Ids : Table!Lease(id, w)
<1> DEFINE l   == Look(index, now)
           job == [jobs[l.id] EXCEPT !.state = "leased", !.attempts = @ + 1, !.owner = w, !.until = now + LeaseTime]
<1>1. /\ running /\ Commit(l.index, l.id, job, NoKey) /\ Change(l.id, job, NoKey)
      /\ l.id \in DOMAIN jobs /\ Leasable(jobs[l.id]) /\ DueAt(jobs[l.id]) <= now
  BY LeaseCommits DEF KInv
<1> HIDE DEF l
<1>2. l.id \in Ids /\ jobs[l.id] \in Jobs /\ now \in Nat
  BY <1>1, Found DEF KInv
<1>3. /\ TableState[l.id].state = jobs[l.id].state /\ TableState[l.id].attempts = jobs[l.id].attempts
      /\ l.id \in Live => jobs[l.id].state = "leased" /\ jobs[l.id].until > now
  BY <1>1, <1>2, CurrentRuns DEF TableState, Rows, RowOf, LiveIn
<1>4. TableState[l.id].state = "queued" \/ (TableState[l.id].state = "leased" /\ l.id \notin Live)
  BY <1>1, <1>2, <1>3 DEF Leasable, DueAt, Jobs
<1>5. /\ job.state = "leased" /\ job.until = now + LeaseTime
      /\ RowOf(job) = Table!Row("leased", TableState[l.id].attempts + 1, w)
  BY <1>2, <1>3 DEF Jobs, RowOf, Table!Row
<1>6. job.until > now
  BY <1>2, <1>5, JobQueueAssumption
<1> HIDE DEF job
<1>7. Table!Become(l.id, RowOf(job), Live \union {l.id})
  BY <1>1, <1>5, <1>6, CommitMaps
<1> QED BY <1>2, <1>4, <1>5, <1>7 DEF Table!Lease, TableState

LEMMA HeartbeatMaps ==
  ASSUME KInv, KInv', NEW id \in Ids, NEW w, Heartbeat(id, w)
  PROVE  Table!Heartbeat(id, w)
<1> DEFINE job == [jobs[id] EXCEPT !.until = now + LeaseTime]
<1>1. running /\ Owns(id, w) /\ Commit(index, id, job, NoKey) /\ Change(id, job, NoKey)
  BY HeartbeatCommits DEF KInv
<1>2. /\ Table!Holds(id, w) /\ id \in Live /\ TableState[id] = RowOf(jobs[id]) /\ jobs[id] \in Jobs
      /\ jobs[id].state = "leased" /\ now \in Nat
  BY <1>1, HoldsIsOwns
<1>3. job.state = "leased" /\ job.until > now /\ RowOf(job) = TableState[id]
  BY <1>2, JobQueueAssumption DEF Jobs, RowOf
<1> HIDE DEF job
<1>4. Live \union {id} = Live
  BY <1>2
<1>5. Table!Become(id, RowOf(job), Live)
  BY <1>1, <1>3, <1>4, CommitMaps
<1> QED BY <1>2, <1>3, <1>5 DEF Table!Heartbeat, TableState

LEMMA CompleteMaps ==
  ASSUME KInv, KInv', NEW id \in Ids, NEW w, Complete(id, w)
  PROVE  Table!Complete(id, w)
<1> DEFINE job == [jobs[id] EXCEPT !.state = "completed", !.owner = NoWorker, !.until = 0]
<1>1. running /\ Owns(id, w) /\ Commit(index, id, job, NoKey) /\ Change(id, job, NoKey)
  BY CompleteCommits DEF KInv
<1>2. Table!Holds(id, w) /\ TableState[id] = RowOf(jobs[id]) /\ jobs[id] \in Jobs
  BY <1>1, HoldsIsOwns
<1>3. job.state # "leased" /\ RowOf(job) = Table!Row("completed", TableState[id].attempts, NoWorker)
  BY <1>2 DEF Jobs, RowOf, Table!Row
<1> HIDE DEF job
<1>4. Table!Become(id, RowOf(job), Live \ {id})
  BY <1>1, <1>3, CommitMaps
<1> QED BY <1>2, <1>3, <1>4 DEF Table!Complete, TableState

LEMMA FailMaps ==
  ASSUME KInv, KInv', NEW id \in Ids, NEW w, Fail(id, w)
  PROVE  Table!Fail(id, w)
<1> DEFINE job == AfterFailure(jobs[id])
           state == IF TableState[id].attempts >= MaxAttempts THEN "dead" ELSE "queued"
<1>1. running /\ Owns(id, w) /\ Commit(index, id, job, NoKey) /\ Change(id, job, NoKey)
  BY FailCommits DEF KInv
<1>2. Table!Holds(id, w) /\ TableState[id] = RowOf(jobs[id]) /\ jobs[id] \in Jobs
  BY <1>1, HoldsIsOwns
<1>3. TableState[id].attempts = jobs[id].attempts
  BY <1>2 DEF RowOf
<1>4. job.state = state /\ job.attempts = jobs[id].attempts /\ job.owner = NoWorker
  BY <1>2, <1>3 DEF AfterFailure, Jobs
<1> HIDE DEF job
<1>5. job.state # "leased" /\ RowOf(job) = Table!Row(state, TableState[id].attempts, NoWorker)
  BY <1>3, <1>4 DEF RowOf, Table!Row
<1>6. Table!Become(id, RowOf(job), Live \ {id})
  BY <1>1, <1>5, CommitMaps
<1> QED BY <1>2, <1>5, <1>6 DEF Table!Fail, TableState

LEMMA ReplayMaps ==
  ASSUME KInv, KInv', NEW id \in Ids, ReplayDead(id)
  PROVE  Table!ReplayDead(id)
<1> DEFINE job == [jobs[id] EXCEPT !.state = "queued", !.attempts = 0, !.next = 0]
<1>1. running /\ Commit(index, id, job, NoKey) /\ Change(id, job, NoKey) /\ id \in DOMAIN jobs /\ jobs[id].state = "dead"
  BY ReplayCommits DEF KInv, ReplayDead
<1>2. jobs[id] \in Jobs
  BY <1>1, Found DEF KInv
<1>3. TableState[id].state = "dead" /\ Live \ {id} = Live
  BY <1>1, CurrentRuns DEF TableState, Rows, RowOf, LiveIn
<1>4. job.state # "leased" /\ RowOf(job) = Table!Row("queued", 0, NoWorker)
  BY <1>1, <1>2 DEF Jobs, RowOf, Table!Row
<1> HIDE DEF job
<1>5. Table!Become(id, RowOf(job), Live)
  BY <1>1, <1>3, <1>4, CommitMaps
<1> QED BY <1>3, <1>4, <1>5 DEF Table!ReplayDead, TableState


LEMMA CurrentAfter ==
  KInv' => /\ \A i \in Ids : TableState'[i] \in promised'[i]
           /\ Live' \in SUBSET Table!Leased(TableState')
           /\ TableState' \in Table!Found(promised')
<1>1. (KInv => /\ AreJobs(Current) /\ promised \in [Ids -> SUBSET StoredRows]
               /\ \A i \in Ids : TableState[i] \in promised[i]
               /\ Live \in SUBSET Table!Leased(TableState)
               /\ TableState \in Table!Found(promised))'
  BY CurrentProperties, PTL
<1> QED BY <1>1

LEMMA ClockMaps ==
  ASSUME KInv, KInv', Tick \/ SetBack
  PROVE  Table!Clock
<1>1. running /\ running' /\ jobs' = jobs /\ promised' = promised
  BY DEF Tick, SetBack, memory
<1>2. TableState' = TableState
  BY <1>1 DEF TableState, Current, Rows
<1>3. Live' \in SUBSET Table!Leased(TableState')
  BY CurrentAfter
<1> QED BY <1>1, <1>2, <1>3 DEF Table!Clock, TableState

LEMMA CrashMaps == ASSUME KInv, KInv', Crash PROVE Table!Restart
<1>1. promised' = promised
  BY DEF Crash
<1>2. TableState' \in Table!Found(promised) /\ Live' \in SUBSET Table!Leased(TableState')
  BY <1>1, CurrentAfter
<1> QED BY <1>1, <1>2 DEF Table!Restart, TableState

LEMMA LosePowerMaps == ASSUME KInv, KInv', LosePower PROVE Table!Restart
<1>1. promised' = promised
  BY DEF LosePower
<1>2. TableState' \in Table!Found(promised) /\ Live' \in SUBSET Table!Leased(TableState')
  BY <1>1, CurrentAfter
<1> QED BY <1>1, <1>2 DEF Table!Restart, TableState

LEMMA OpenMaps == ASSUME KInv, KInv', OpenQueue PROVE Table!Restart
<1> DEFINE got == Recover(snap, journal)
<1>1. ~running /\ running' /\ jobs' = got.jobs /\ promised' = [id \in Ids |-> {Rows(got.jobs)[id]}]
  BY DEF OpenQueue
<1>2. TableState = Rows(got.jobs) /\ TableState \in Table!Found(promised)
  BY <1>1, CurrentIsDown, CurrentProperties DEF TableState
<1>3. TableState' = Rows(got.jobs)
  BY <1>1 DEF TableState, Current, Rows
<1>4. Live' \in SUBSET Table!Leased(TableState')
  BY CurrentAfter
<1> HIDE DEF got
<1>5. TableState' \in Table!Found(promised) /\ promised' = [id \in Ids |-> {TableState'[id]}]
  BY <1>1, <1>2, <1>3
<1> QED BY <1>4, <1>5 DEF Table!Restart, TableState

LEMMA StandsMaps ==
  ASSUME UNCHANGED <<running, jobs, disk, now, promised>>
  PROVE  UNCHANGED <<TableState, Live, promised>>
<1>1. running' = running /\ jobs' = jobs /\ snap' = snap /\ journal' = journal /\ now' = now /\ promised' = promised
  BY DEF disk
<1>2. Current' = Current
  <2>1. CASE running
    BY <1>1, <2>1 DEF Current
  <2>2. CASE ~running
    BY <1>1, <2>2 DEF Current
  <2> QED BY <2>1, <2>2
<1>3. TableState' = TableState /\ Live' = Live
  BY <1>1, <1>2 DEF TableState, Live
<1> QED BY <1>1, <1>3

LEMMA StepMaps == KInv /\ KInv' /\ [Next]_vars => [Table!Next]_<<TableState, Live, promised>>
<1> SUFFICES ASSUME KInv, KInv', [Next]_vars PROVE [Table!Next]_<<TableState, Live, promised>>
  OBVIOUS
<1>1. ASSUME NEW id \in Ids, NEW key \in Keys, Create(id, key) PROVE Table!Next
  BY <1>1, CreateMaps DEF Table!Next
<1>2. ASSUME NEW id \in Ids, ReplayDead(id) PROVE Table!Next
  BY <1>2, ReplayMaps DEF Table!Next
<1>3. ASSUME NEW w \in Workers, Lease(w) PROVE Table!Next
  BY <1>3, LeaseMaps DEF Table!Next
<1>4. ASSUME NEW id \in Ids, NEW w \in Workers, Heartbeat(id, w) PROVE Table!Next
  BY <1>4, HeartbeatMaps DEF Table!Next
<1>5. ASSUME NEW id \in Ids, NEW w \in Workers, Complete(id, w) PROVE Table!Next
  BY <1>5, CompleteMaps DEF Table!Next
<1>6. ASSUME NEW id \in Ids, NEW w \in Workers, Fail(id, w) PROVE Table!Next
  BY <1>6, FailMaps DEF Table!Next
<1>7. CASE LeaseNothing
  BY <1>7, StandsMaps DEF LeaseNothing
<1>8. CASE Tick
  BY <1>8, ClockMaps DEF Table!Next
<1>9. CASE SetBack
  BY <1>9, ClockMaps DEF Table!Next
<1>10. CASE Crash
  BY <1>10, CrashMaps DEF Table!Next
<1>11. CASE OpenQueue
  BY <1>11, OpenMaps DEF Table!Next
<1>12. CASE LosePower
  BY <1>12, LosePowerMaps DEF Table!Next
<1>13. CASE UNCHANGED vars
  BY <1>13, StandsMaps DEF vars, memory
<1> QED BY <1>1, <1>2, <1>3, <1>4, <1>5, <1>6, <1>7, <1>8, <1>9, <1>10, <1>11, <1>12, <1>13 DEF Next

LEMMA InitMaps == Init => Table!Init
<1> SUFFICES ASSUME Init PROVE Table!Init
  OBVIOUS
<1>1. Current = Empty
  <2>1. Recover(NoSnapshot, journal) = NoSnapshot
    <3>1. IsSnapshot(NoSnapshot) /\ NoSnapshot.seq = 0
      BY Nothing DEF NoSnapshot, IsSnapshot
    <3>2. Newer(NoSnapshot, journal) = {}
      BY <3>1 DEF Newer
    <3> QED BY <3>1, <3>2, RecoverNothing
  <2> QED BY <2>1 DEF Init, Current, NoSnapshot
<1>2. Rows(Current) = [id \in Ids |-> Table!NoJob] /\ Live = {}
  BY <1>1, Nothing DEF Rows, Live, NoJob, Table!NoJob
<1> QED BY <1>2 DEF Init, Table!Init, NoJob, Table!NoJob

\* The queue is a durable job table: of its calls, failures, crashes and restarts each is a
\* step that the table allows, or none.
THEOREM ImplementsTableHolds == ASSUME ~LateLoss PROVE Spec => ImplementsTable
<1>1. KInv /\ KInv' /\ [Next]_vars => [Table!Next]_<<Rows(Current), Live, promised>>
  BY StepMaps DEF TableState
<1> QED BY <1>1, InitMaps, KeepsInvariance, PTL DEF ImplementsTable, Table!Spec, Spec
=============================================================================
