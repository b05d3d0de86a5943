--------------------------- MODULE SearchCluster ---------------------------
(***************************************************************************)
(* A shard of Atlas Search: its replicas, each a log and the index built   *)
(* from it, and the coordinator that writes to all of them and asks one    *)
(* after the other (src/internal/search: http.go, wal.go;                  *)
(* src/cmd/search-node/main.go).                                           *)
(*                                                                         *)
(* A replica appends a document to its log, synced, and then enters it in  *)
(* its index; the log and the index have a lock each, and none is held     *)
(* over both.  A replica that starts enters the whole log.                 *)
(***************************************************************************)
EXTENDS SearchIndex

CONSTANTS
  Queries,     \* sets of terms
  Limits,
  Budgets      \* bounds: what a behaviour may spend, one of these records of writes,
               \*   waiting (writes under way at once), faults (of appends), crashes and
               \*   searches, and its replicas, documents and hanging (replicas that take
               \*   a search and are not heard of again)

ASSUME ClusterAssumption ==
  \A b \in Budgets : b.replicas \in Nat \ {0} /\ b.hanging \subseteq 1..b.replicas
                     /\ \A d \in b.documents : d.id > 0

VARIABLES
  wal,        \* lines of the log of each replica: documents, or Torn
  index,      \* the index of each replica that is up
  up,
  writes,     \* the coordinator's writes: [doc, handler, outcome, answer]; handler is
              \*   where each replica is with it, outcome what the coordinator knows
  search,     \* searchShard: [asked, pending, failed, hedge, result]
  unordered,  \* history: the ids of each replica whose log and index may differ
  budget, used

vars == <<wal, index, up, writes, search, unordered, budget, used>>

Torn == [id |-> -1]        \* a line without its end, or with another one glued to it

Replicas == 1..budget.replicas

Spend(what) == used[what] < budget[what] /\ used' = [used EXCEPT ![what] = @ + 1]

-----------------------------------------------------------------------------
(* A replica: Node.handleDocument, WAL, and the start of a node.           *)

IsTorn(n) == wal[n] # <<>> /\ Last(wal[n]) = Torn

\* What follows a torn line is on the same line.
Line(n, doc) == IF IsTorn(n) THEN wal[n] ELSE Append(wal[n], doc)

At(n, id, step) == {w \in DOMAIN writes : writes[w].doc.id = id /\ writes[w].handler[n] = step}

\* WAL.Append
LogWrite(w, n) ==
  LET doc == writes[w].doc
  IN  /\ up[n] /\ writes[w].handler[n] = "sent"
      /\ wal' = [wal EXCEPT ![n] = Line(n, doc)]
      /\ writes' = [writes EXCEPT ![w].handler[n] = "logged"]
      /\ unordered' = [unordered EXCEPT ![n] = IF At(n, doc.id, "logged") = {} THEN @ ELSE @ \cup {doc.id}]
      /\ UNCHANGED <<index, up, search, budget, used>>

Outcome(w, n, what) == IF writes[w].outcome[n] = "none" THEN what ELSE writes[w].outcome[n]

\* A write or a sync fails: nothing, some or all of the line is in the file, and stays.
LogFails(w, n) ==
  /\ up[n] /\ writes[w].handler[n] = "sent" /\ Spend("faults")
  /\ writes' = [writes EXCEPT ![w].handler[n] = "over", ![w].outcome[n] = Outcome(w, n, "failed")]
  /\ \/ UNCHANGED <<wal, unordered>>
     \/ wal' = [wal EXCEPT ![n] = Line(n, Torn)] /\ UNCHANGED unordered
     \/ /\ wal' = [wal EXCEPT ![n] = Line(n, writes[w].doc)]
        /\ unordered' = [unordered EXCEPT ![n] = @ \cup {writes[w].doc.id}]
  /\ UNCHANGED <<index, up, search, budget>>

\* Index.Upsert, and 201 to the coordinator if it still waits.
StoreWrite(w, n) ==
  /\ up[n] /\ writes[w].handler[n] = "logged"
  /\ index' = [index EXCEPT ![n] = Upsert(@, writes[w].doc)]
  /\ writes' = [writes EXCEPT ![w].handler[n] = "over", ![w].outcome[n] = Outcome(w, n, "stored")]
  /\ UNCHANGED <<wal, up, search, unordered, budget, used>>

\* The process ends, and with it what it was doing.
Crash(n) ==
  /\ up[n] /\ Spend("crashes")
  /\ up' = [up EXCEPT ![n] = FALSE]
  /\ index' = [index EXCEPT ![n] = NewIndex]
  /\ writes' = [w \in DOMAIN writes |->
                  [writes[w] EXCEPT !.handler[n] = IF @ = "logged" THEN "over" ELSE @]]
  /\ UNCHANGED <<wal, search, unordered, budget>>

\* Mutant: an id the index has is not entered again.
Replayed_FirstWins(lines) ==
  LET first == {k \in DOMAIN lines : \A j \in 1..k - 1 : lines[j].id # lines[k].id}
      states[k \in 0..Len(lines)] ==
        IF k = 0 THEN NewIndex ELSE IF k \in first THEN Upsert(states[k - 1], lines[k]) ELSE states[k - 1]
  IN  states[Len(lines)]

\* WAL.Replay
Replayed(lines) ==
  LET states[k \in 0..Len(lines)] == IF k = 0 THEN NewIndex ELSE Upsert(states[k - 1], lines[k])
  IN  states[Len(lines)]

\* A node with a bad line does not start.
Start(n) ==
  /\ ~up[n] /\ ~IsTorn(n)
  /\ up' = [up EXCEPT ![n] = TRUE]
  /\ index' = [index EXCEPT ![n] = Replayed(wal[n])]
  /\ unordered' = [unordered EXCEPT ![n] = {}]
  /\ UNCHANGED <<wal, writes, search, budget, used>>

-----------------------------------------------------------------------------
(* Coordinator.handleDocument.                                             *)

Write(doc) ==
  /\ Spend("writes")
  /\ Cardinality({w \in DOMAIN writes : writes[w].answer = "none"}) < budget.waiting
  /\ writes' = Append(writes, [doc |-> doc, handler |-> [n \in Replicas |-> "sent"],
                               outcome |-> [n \in Replicas |-> "none"], answer |-> "none"])
  /\ UNCHANGED <<wal, index, up, search, unordered, budget>>

\* A request times out, is not taken, or its answer is lost; a replica that has it, or
\* will, goes on with it.
GiveUp(w, n) ==
  /\ writes[w].outcome[n] = "none"
  /\ IF up[n] /\ writes[w].handler[n] # "over" THEN Spend("faults") ELSE UNCHANGED used
  /\ writes' = [writes EXCEPT ![w].outcome[n] = "failed"]
  /\ UNCHANGED <<wal, index, up, search, unordered, budget>>

\* Mutant: half is enough.
Quorum_Half(stored) == stored >= budget.replicas \div 2

Quorum(stored) == stored >= budget.replicas \div 2 + 1

AnswerWrite(w) ==
  LET outcome == writes[w].outcome
  IN  /\ writes[w].answer = "none" /\ \A n \in Replicas : outcome[n] # "none"
      /\ writes' = [writes EXCEPT ![w].answer =
                      IF Quorum(Cardinality({n \in Replicas : outcome[n] = "stored"})) THEN "created" ELSE "unavailable"]
      /\ UNCHANGED <<wal, index, up, search, unordered, budget, used>>

-----------------------------------------------------------------------------
(* Coordinator.searchShard: replicas are asked in their order.             *)

NoSearch == [asked |-> 0, pending |-> {}, failed |-> {}, hedge |-> FALSE, result |-> "none"]

\* Mutant: only the first request has a hedge.
Launched_OneHedge(s) ==
  [s EXCEPT !.asked = @ + 1, !.pending = @ \cup {s.asked + 1}, !.hedge = s.asked = 0 /\ s.asked + 1 < budget.replicas]

\* launch and schedule
Launched(s) ==
  [s EXCEPT !.asked = @ + 1, !.pending = @ \cup {s.asked + 1}, !.hedge = s.asked + 1 < budget.replicas]

Ask ==
  /\ search = NoSearch /\ Spend("searches")
  /\ search' = Launched(search)
  /\ UNCHANGED <<wal, index, up, writes, unordered, budget>>

\* The first answer is the result; the others are cancelled.
Answer(n) ==
  /\ n \in search.pending \ budget.hanging /\ search.result = "none" /\ up[n]
  /\ search' = [search EXCEPT !.pending = @ \ {n}, !.result = "found"]
  /\ UNCHANGED <<wal, index, up, writes, unordered, budget, used>>

Replaced(s) == IF s.asked < budget.replicas THEN Launched(s) ELSE s

Refuse(n) ==
  /\ n \in search.pending \ budget.hanging /\ search.result = "none"
  /\ IF up[n] THEN Spend("faults") ELSE UNCHANGED used
  /\ LET s == Replaced([search EXCEPT !.pending = @ \ {n}, !.failed = @ \cup {n}])
     IN  search' = IF s.pending = {} THEN [s EXCEPT !.result = "failed"] ELSE s
  /\ UNCHANGED <<wal, index, up, writes, unordered, budget>>

HedgeDue == search.hedge /\ search.result = "none"

Hedge ==
  /\ HedgeDue
  /\ search' = Launched(search)
  /\ UNCHANGED <<wal, index, up, writes, unordered, budget, used>>

\* ctx.Done: the query's deadline passed.
Deadline ==
  /\ search.pending # {} /\ search.result = "none"
  /\ search' = [search EXCEPT !.result = "late"]
  /\ UNCHANGED <<wal, index, up, writes, unordered, budget, used>>

-----------------------------------------------------------------------------
Init ==
  /\ budget \in Budgets
  /\ used = [what \in {"writes", "faults", "crashes", "searches"} |-> 0]
  /\ wal = [n \in Replicas |-> <<>>] /\ index = [n \in Replicas |-> NewIndex]
  /\ up = [n \in Replicas |-> TRUE] /\ unordered = [n \in Replicas |-> {}]
  /\ writes = <<>> /\ search = NoSearch

Next ==
  \/ \E doc \in budget.documents : Write(doc)
  \/ \E w \in DOMAIN writes :
       \/ AnswerWrite(w)
       \/ \E n \in Replicas : LogWrite(w, n) \/ LogFails(w, n) \/ StoreWrite(w, n) \/ GiveUp(w, n)
  \/ \E n \in Replicas : Crash(n) \/ Start(n) \/ Answer(n) \/ Refuse(n)
  \/ Ask \/ Hedge \/ Deadline

\* A request that was taken is answered or fails, and timers fire.
FairSpec ==
  /\ Init /\ [][Next]_vars
  /\ []<>~HedgeDue
  /\ []<>(search.pending \subseteq budget.hanging \/ search.result # "none")

-----------------------------------------------------------------------------
\* A replica holds documents it was sent, its log is torn at its end if at all,
\* and what it has not been asked it has not answered.
TypeOK ==
  /\ \A n \in Replicas :
       /\ \A k \in DOMAIN wal[n] : wal[n][k] \in budget.documents \/ (wal[n][k] = Torn /\ k = Len(wal[n]))
       /\ LiveDocs(index[n]) \subseteq {writes[w].doc : w \in DOMAIN writes}
       /\ ~up[n] => index[n] = NewIndex
  /\ \A w \in DOMAIN writes :
       /\ writes[w].handler \in [Replicas -> {"sent", "logged", "over"}]
       /\ writes[w].outcome \in [Replicas -> {"none", "stored", "failed"}]
       /\ writes[w].answer \in {"none", "created", "unavailable"}
  /\ search.asked \in 0..budget.replicas
  /\ search.pending \cup search.failed \subseteq 1..search.asked
  /\ search.result \in {"none", "found", "failed", "late"}

\* The index of a replica, and what a snapshot of it brings back.
Indexes(n) == {index[n], ReadSnapshot(WriteSnapshot(index[n]))}

\* Replacing documents over and over, with tombstones left and compacted away, keeps
\* slots, frequencies, counts and postings those of the documents that are left, and no
\* document counts for more with a term than the few bounds kept for it promise, however
\* bounds were merged (Index.retire, Index.compact, termPostings.addImpact, ReadSnapshot).
IndexIsSound ==
  /\ TypeOK
  /\ \A n \in Replicas : \A ix \in Indexes(n) :
       Consistent(ix) /\ TermsAgree(ix) /\ BoundsHold(ix) /\ LiveDocs(ix) = LiveDocs(index[n])

\* Every query gets exactly the hits that scoring every document gives, in the pruned
\* evaluation and in that of long queries (the claim at Index.Search), before and after a
\* snapshot.
SearchIsExact ==
  \A n \in Replicas, q \in Queries, k \in Limits : \A ix \in Indexes(n) : ExactFor(ix, q, k)

\* The last version of a document in a log.
Latest(lines, id) ==
  LET versions == {k \in DOMAIN lines : lines[k].id = id}
  IN  lines[CHOOSE k \in versions : \A j \in versions : j <= k]

\* A restart brings back what a replica serves: of every id the last version in its
\* log, unless two versions were under way at once or an append failed and left its
\* line (handleDocument holds no lock over log and index).
RestartBringsBack ==
  \A n \in Replicas : up[n] /\ ~IsTorn(n) =>
    \A id \in {wal[n][k].id : k \in DOMAIN wal[n]} \ unordered[n] :
      At(n, id, "logged") = {} =>
        {d \in LiveDocs(index[n]) : d.id = id} = {Latest(wal[n], id)}

\* A document the coordinator acknowledged is in the logs of a majority for good,
\* through crashes and failed appends; a log with a torn line aside, which no node
\* starts from.
AckedOnMajority ==
  \A w \in DOMAIN writes : writes[w].answer = "created" =>
    2 * Cardinality({n \in Replicas : IsTorn(n) \/ \E k \in DOMAIN wal[n] : wal[n][k] = writes[w].doc})
      > budget.replicas

\* A shard fails a search in time only after every replica of it failed.
FailsOnlyWhenAllFailed == search.result = "failed" => search.failed = Replicas

\* A search that a replica is left to answer, neither hanging nor failed, ends, and needs
\* no deadline for it: the hedges reach that replica, and nothing gives up before it.
SearchEnds ==
  /\ []FailsOnlyWhenAllFailed
  /\ search.asked > 0 ~> (search.result # "none" \/ Replicas \ budget.hanging \subseteq search.failed)
=============================================================================
