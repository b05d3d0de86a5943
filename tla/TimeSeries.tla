----------------------------- MODULE TimeSeries -----------------------------
(***************************************************************************)
(* Chronos, the time series store (src/internal/tsdb/store.go).            *)
(*                                                                         *)
(* Samples are appended to a log and kept in a head, by series; a full     *)
(* head becomes a block, a file named after its first and last time, which *)
(* is written beside its place and renamed.  A request to flush does this  *)
(* for every series and then empties the log.  All of it holds the store's *)
(* lock; a query holds it only to copy a head, and reads the directory and *)
(* its files while blocks appear and retention removes them.               *)
(*                                                                         *)
(* Times have as many digits as one another, as milliseconds have, so      *)
(* names sort like their times.  The process may end; the power stays.     *)
(***************************************************************************)
EXTENDS Integers, Sequences, FiniteSets, SequencesExt

CONSTANTS
  Series,
  BlockSize,    \* samples of a full head
  Budgets       \* bounds: what a behaviour may spend, one of these records of writes,
                \*   flushes, queries, removals, fails and crashes; and step, by how much a
                \*   sample may be later than the one before, ranges, what is asked for, sizes,
                \*   of batches, and cutoffs, of retention

ASSUME TimeSeriesAssumption == BlockSize \in Nat \ {0} /\ Series # {}

VARIABLES
  up,
  head,      \* head[s]: samples of s in the order they were written
  wal,       \* lines of the log: samples, or Torn
  files,     \* name -> the samples of a file in the directory of blocks, or Part
  flush,     \* who holds the lock to make blocks of heads, or Nobody
  query,
  written,   \* history: the samples written, a value being the number of its write
  acked,     \* history: those whose Write returned no error
  cutoff,    \* history: the latest time before which retention removed blocks
  overruled, \* history: samples whose block gives way to one with an older sample of their time
  budget, used

vars == <<up, head, wal, files, flush, query, written, acked, cutoff, overruled, budget, used>>

Torn == [t |-> 0]   \* a line without its end
Part == <<>>         \* a file without its end

Nobody  == [step |-> "free", todo |-> {}, making |-> {}, batch |-> <<>>, empties |-> FALSE]
NoQuery == [step |-> "none"]

Spend(what) == used[what] < budget[what] /\ used' = [used EXCEPT ![what] = @ + 1]

Times(samples) == {samples[i].t : i \in DOMAIN samples}
Least(S) == CHOOSE t \in S : \A u \in S : t <= u
Most(S)  == CHOOSE t \in S : \A u \in S : t >= u

-----------------------------------------------------------------------------
(* Samples that win over others of their time.                             *)

\* What was written first is overwritten: t -> value.
Merged(got, samples) ==
  [t \in DOMAIN got \cup Times(samples) |->
     IF t \in Times(samples)
     THEN samples[Most({i \in DOMAIN samples : samples[i].t = t})].v
     ELSE got[t]]

Nothing == [t \in {} |-> 0]

\* encodeSamples: sorted, and the last of each time.
Block(samples) ==
  LET last == Merged(Nothing, samples)
  IN  [i \in 1..Cardinality(DOMAIN last) |->
         LET t == CHOOSE x \in DOMAIN last : Cardinality({u \in DOMAIN last : u <= x}) = i
         IN  [t |-> t, v |-> last[t]]]

Lines(s, samples) == [i \in DOMAIN samples |-> [s |-> s, t |-> samples[i].t, v |-> samples[i].v]]

\* The name of a file: a block, or a temporary file.
Name(s, samples, unfinished) ==
  [s |-> s, start |-> Least(Times(samples)), end |-> Most(Times(samples)), tmp |-> unfinished]

\* os.ReadDir sorts names.
Before(m, n) ==
  \/ m.start < n.start
  \/ m.start = n.start /\ m.end < n.end
  \/ m.start = n.start /\ m.end = n.end /\ ~m.tmp /\ n.tmp

FirstOf(names) == CHOOSE m \in names : \A n \in names \ {m} : Before(m, n)

\* Samples of heads that will be in a block which is read before one that has an older
\* sample of their time: after a restart a head goes back to where the log begins.
Overruled(heads) ==
  {x \in UNION {ToSet(Lines(s, heads[s])) : s \in Series} :
     \E n \in DOMAIN files :
       /\ n.s = x.s /\ n.start > Least(Times(heads[x.s]))
       /\ \E i \in DOMAIN files[n] : files[n][i].t = x.t /\ files[n][i].v < x.v}

-----------------------------------------------------------------------------
(* Write.                                                                  *)

\* A line that follows a torn one goes on from it.
Logged(lines) == IF wal # <<>> /\ Last(wal) = Torn THEN wal ELSE wal \o lines

\* The next batch: its samples go on from the latest of the series.
NextBatch(s) ==
  LET last == IF \E x \in written : x.s = s THEN Most({x.t : x \in {y \in written : y.s = s}}) ELSE 1
      v == 2 * (used.writes + used.fails + used.crashes) + 1
  IN  {[i \in 1..n |-> [t |-> last + d + i - 1, v |-> v + i - 1]] : n \in budget.sizes, d \in budget.step}

Write(s, batch) ==
  LET now == head[s] \o batch
  IN  /\ up /\ flush = Nobody /\ Spend("writes")
      /\ wal' = Logged(Lines(s, batch)) /\ head' = [head EXCEPT ![s] = now]
      /\ written' = written \cup ToSet(Lines(s, batch)) /\ overruled' = overruled \cup Overruled(head')
      /\ IF Len(now) >= BlockSize
         THEN /\ flush' = [Nobody EXCEPT !.step = "open", !.todo = {s}, !.batch = Lines(s, batch)]
              /\ UNCHANGED acked
         ELSE acked' = acked \cup ToSet(Lines(s, batch)) /\ UNCHANGED flush
      /\ UNCHANGED <<up, files, query, cutoff, budget>>

\* A line or the sync fails; what came before stays, in memory too.
WriteFails(s, batch) ==
  /\ up /\ flush = Nobody /\ Spend("fails")
  /\ \E n \in 0..Len(batch), torn \in BOOLEAN :
       LET done == SubSeq(batch, 1, n)
       IN  /\ torn => n < Len(batch)
           /\ wal' = Logged(Lines(s, done) \o IF torn THEN <<Torn>> ELSE <<>>)
           /\ head' = [head EXCEPT ![s] = @ \o done]
           /\ written' = written \cup ToSet(Lines(s, done)) /\ overruled' = overruled \cup Overruled(head')
  /\ UNCHANGED <<up, files, flush, query, acked, cutoff, budget>>

-----------------------------------------------------------------------------
(* Flush, and flushSeriesLocked, which goes through series in any order.   *)

Flush ==
  /\ up /\ flush = Nobody /\ Spend("flushes")
  /\ flush' = [Nobody EXCEPT !.step = "open", !.todo = {s \in Series : head[s] # <<>>}, !.empties = TRUE]
  /\ UNCHANGED <<up, head, wal, files, query, written, acked, cutoff, overruled, budget>>

With(n, content) == [m \in DOMAIN files \cup {n} |-> IF m = n THEN content ELSE files[m]]
Without(names) == [m \in DOMAIN files \ names |-> files[m]]

\* The path of the next block of s, and that of its temporary file.
BlockOf(s)     == Name(s, head[s], FALSE)
TemporaryOf(s) == Name(s, head[s], TRUE)

OpenTemporary(s) ==
  /\ flush.step = "open" /\ s \in flush.todo
  /\ files' = With(TemporaryOf(s), Part)
  /\ flush' = [flush EXCEPT !.step = "write", !.making = {s}]
  /\ UNCHANGED <<up, head, wal, query, written, acked, cutoff, overruled, budget, used>>

WriteTemporary(s) ==
  /\ flush.step = "write" /\ s \in flush.making
  /\ files' = With(TemporaryOf(s), Block(head[s]))
  /\ flush' = [flush EXCEPT !.step = "rename"]
  /\ UNCHANGED <<up, head, wal, query, written, acked, cutoff, overruled, budget, used>>

Rename(s) ==
  /\ flush.step = "rename" /\ s \in flush.making
  /\ files' = [m \in (DOMAIN files \ {TemporaryOf(s)}) \cup {BlockOf(s)} |->
                 IF m = BlockOf(s) THEN files[TemporaryOf(s)] ELSE files[m]]
  /\ head' = [head EXCEPT ![s] = <<>>]
  /\ flush' = [flush EXCEPT !.step = "open", !.todo = @ \ {s}, !.making = {}]
  /\ UNCHANGED <<up, wal, query, written, acked, cutoff, overruled, budget, used>>

\* Mutant: the log is emptied whoever made blocks.
Emptied_Always == <<>>

Emptied == IF flush.empties THEN <<>> ELSE wal

FlushEnds ==
  /\ flush.step = "open" /\ flush.todo = {}
  /\ wal' = Emptied /\ acked' = acked \cup ToSet(flush.batch)
  /\ flush' = Nobody
  /\ UNCHANGED <<up, head, files, query, written, cutoff, overruled, budget, used>>

\* A step fails; its file stays.
FlushFails ==
  /\ flush.todo # {} \/ flush.empties
  /\ flush' = Nobody /\ Spend("fails")
  /\ UNCHANGED <<up, head, wal, files, query, written, acked, cutoff, overruled, budget>>

-----------------------------------------------------------------------------
(* Query, of one at a time.                                                *)

QueryHead(s, lo, hi) ==
  /\ up /\ flush = Nobody /\ query = NoQuery /\ Spend("queries")
  /\ query' = [step |-> "list", s |-> s, lo |-> lo, hi |-> hi, head |-> head[s], names |-> {},
               got |-> Nothing, must |-> {x \in acked : x.s = s}]
  /\ UNCHANGED <<up, head, wal, files, flush, written, acked, cutoff, overruled, budget>>

\* Names that begin with the series' fingerprint, temporary ones included.
QueryList ==
  /\ query.step = "list"
  /\ query' = [query EXCEPT !.step = "read", !.names = {n \in DOMAIN files : n.s = query.s}]
  /\ UNCHANGED <<up, head, wal, files, flush, written, acked, cutoff, overruled, budget, used>>

\* Mutant: a block that ends where the range begins is left out.
Outside_AtStart(n) == n.end <= query.lo \/ (query.hi # 0 /\ n.start >= query.hi)

Outside(n) == n.end < query.lo \/ (query.hi # 0 /\ n.start >= query.hi)

\* One file; that it is gone or not whole fails the query.
QueryRead ==
  /\ query.step = "read" /\ query.names # {}
  /\ LET n == FirstOf(query.names)
     IN  query' = IF n \notin DOMAIN files \/ files[n] = Part THEN [query EXCEPT !.step = "failed"]
                  ELSE [query EXCEPT !.names = @ \ {n},
                                     !.got = IF Outside(n) THEN @ ELSE Merged(@, files[n])]
  /\ UNCHANGED <<up, head, wal, files, flush, written, acked, cutoff, overruled, budget, used>>

Filtered(got) ==
  [t \in {u \in DOMAIN got : query.lo <= u /\ (query.hi = 0 \/ u < query.hi)} |-> got[t]]

QueryEnds ==
  /\ query.step = "read" /\ query.names = {}
  /\ query' = [query EXCEPT !.step = "done", !.got = Filtered(Merged(@, query.head))]
  /\ UNCHANGED <<up, head, wal, files, flush, written, acked, cutoff, overruled, budget, used>>

\* The answer is sent.
QueryOver ==
  /\ query.step \in {"done", "failed"} /\ query' = NoQuery
  /\ UNCHANGED <<up, head, wal, files, flush, written, acked, cutoff, overruled, budget, used>>

-----------------------------------------------------------------------------
(* DeleteExpired, the end of the process, and OpenStore.                   *)

Expired(n, time) == n.end < time

\* DeleteExpired reads a block and removes it, while all others go on.
DeleteExpired(n, time) ==
  /\ up /\ ~n.tmp /\ Expired(n, time) /\ Spend("removals")
  /\ files' = Without({n}) /\ cutoff' = Most({cutoff, time})
  /\ UNCHANGED <<up, head, wal, flush, query, written, acked, overruled, budget>>

Crash ==
  /\ up /\ Spend("crashes")
  /\ up' = FALSE /\ head' = [s \in Series |-> <<>>] /\ flush' = Nobody /\ query' = NoQuery
  /\ \/ UNCHANGED <<wal, written>>
     \/ \E s \in Series : \E batch \in NextBatch(s) : \E n \in 0..Len(batch), torn \in BOOLEAN :
          LET lines == Lines(s, SubSeq(batch, 1, n))
          IN  /\ flush = Nobody /\ torn => n < Len(batch)
              /\ wal' = Logged(lines \o IF torn THEN <<Torn>> ELSE <<>>)
              /\ written' = written \cup ToSet(lines)
  /\ UNCHANGED <<files, acked, cutoff, overruled, budget>>

\* replayWAL
Replayed(lines) == [s \in Series |-> SelectSeq(lines, LAMBDA x : x.s = s)]

Readable == \A i \in DOMAIN wal : wal[i] # Torn

\* A store with a bad line does not open.
OpenStore ==
  /\ ~up /\ Readable
  /\ up' = TRUE
  /\ head' = [s \in Series |-> [i \in DOMAIN Replayed(wal)[s] |->
                [t |-> Replayed(wal)[s][i].t, v |-> Replayed(wal)[s][i].v]]]
  /\ overruled' = overruled \cup Overruled(head')
  /\ UNCHANGED <<wal, files, flush, query, written, acked, cutoff, budget, used>>

-----------------------------------------------------------------------------
Init ==
  /\ up = TRUE /\ head = [s \in Series |-> <<>>] /\ wal = <<>> /\ files = Nothing
  /\ flush = Nobody /\ query = NoQuery
  /\ written = {} /\ acked = {} /\ cutoff = 0 /\ overruled = {}
  /\ budget \in Budgets /\ used = [what \in DOMAIN budget \ {"step", "ranges", "sizes", "cutoffs"} |-> 0]

Next ==
  \/ \E s \in Series : \E batch \in NextBatch(s) : Write(s, batch) \/ WriteFails(s, batch)
  \/ \E s \in Series : OpenTemporary(s) \/ WriteTemporary(s) \/ Rename(s)
  \/ Flush \/ FlushEnds \/ FlushFails
  \/ \E s \in Series, range \in budget.ranges : QueryHead(s, range[1], range[2])
  \/ QueryList \/ QueryRead \/ QueryEnds \/ QueryOver
  \/ \E n \in DOMAIN files, time \in budget.cutoffs : DeleteExpired(n, time)
  \/ Crash \/ OpenStore

Spec == Init /\ [][Next]_vars

-----------------------------------------------------------------------------
(* Properties.                                                             *)

\* A block is named after what it holds, in ascending order.
TypeOK ==
  \A n \in DOMAIN files : files[n] # Part =>
    /\ n.start = files[n][1].t /\ n.end = Last(files[n]).t
    /\ \A i \in 1..Len(files[n]) - 1 : files[n][i].t < files[n][i+1].t

\* What the blocks and the samples behind them give of a series: t -> value.
Found(s, samples) ==
  LET names == {n \in DOMAIN files : n.s = s /\ ~n.tmp}
      Order == SetToSortSeq(names, Before)
  IN  Merged(FoldLeft(LAMBDA got, n : Merged(got, files[n]), Nothing, Order), samples)

\* The sample, or one that overwrote it; for an overruled one any of its time.
Holds(got, x) == x.t \in DOMAIN got /\ (x \in overruled \/ got[x.t] >= x.v)

\* An acknowledged sample, or one that overwrote it, is in memory or in a block, and in the
\* log or in a block for a restart, whatever failed, was flushed or was removed, until
\* retention takes its block (docs/components/metrics.md, "WAL replay across process restart",
\* "Last-write-wins deduplication"); the last write does not win if it is overruled.
AckedIsKept ==
  /\ TypeOK
  /\ \A x \in acked : x.t >= cutoff =>
       /\ up => Holds(Found(x.s, head[x.s]), x)
       /\ Readable => Holds(Found(x.s, Replayed(wal)[x.s]), x)

\* A query that ends without an error has every sample of its range that was acknowledged
\* before it began, or what overwrote it, and nothing nobody wrote, whatever becomes a
\* block, is written or removed while it reads (Query copies the head before it lists the
\* blocks).
QueriesSeeWhatWasAcked ==
  query.step = "done" =>
    /\ \A x \in query.must :
         x.t >= cutoff /\ query.lo <= x.t /\ (query.hi = 0 \/ x.t < query.hi) => Holds(query.got, x)
    /\ \A t \in DOMAIN query.got : [s |-> query.s, t |-> t, v |-> query.got[t]] \in written
=============================================================================
