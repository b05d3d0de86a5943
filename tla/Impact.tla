------------------------------- MODULE Impact -------------------------------
(***************************************************************************)
(* Impact experiments (src/internal/experiments/engine.go, and their       *)
(* conclusion in src/internal/atlas/impact.go): events of subjects arrive  *)
(* in any order and more than once, each batch is one line of a log before *)
(* it changes anything, and a restart replays the log.  One experiment;    *)
(* the engine's lock makes each call one action.  Rates, intervals and     *)
(* recommendations are functions of the aggregate kept here.               *)
(***************************************************************************)
EXTENDS Integers, Sequences, FiniteSets, SequencesExt

CONSTANTS
  Arms, ArmOf,       \* ArmOf[s]: the arm the hash of subject s selects
  Batches,           \* the batches producers deliver: sequences of events
  Version,           \* the experiment's config version
  Window, Lateness,  \* observation window and allowed lateness
  ExpireEvery,       \* accepted events between two expirations (256)
  SnapshotEvery,     \* accepted events between two points of the history (128)
  MaxHistory,        \* points kept (256)
  MaxLags,           \* lag samples kept (2048)
  MaxDeliveries,     \* bound: batches delivered
  MaxChanges,        \* bound: status changes
  MaxCrashes,        \* bound: restarts
  MaxFails,          \* bound: appends that fail and leave the process running
  Residues,          \* bound: what they leave in the file, of {"nothing", "part", "all"}
  Reexposed          \* bound: may a subject be exposed again after it expired?

ASSUME ImpactAssumption ==
  /\ \A v \in {Window, Lateness, MaxHistory, MaxLags, MaxDeliveries, MaxChanges, MaxCrashes, MaxFails} : v \in Nat
  /\ ExpireEvery \in Nat \ {0} /\ SnapshotEvery \in Nat \ {0}
  /\ \A b \in Batches : b # <<>> /\ b \in Seq({b[i] : i \in DOMAIN b})
  /\ \A b \in Batches : \A i \in DOMAIN b : b[i].subject \in DOMAIN ArmOf /\ ArmOf[b[i].subject] \in Arms

VARIABLES
  up,          \* the process runs
  state,       \* the experiment in memory
  wal,         \* events.wal: its lines
  conclusion,  \* the aggregate in the catalog's entry, or None
  acked,       \* history: the ids of events whose batch was acknowledged
  accepted,    \* history: the events that count, as a restart would find them
  used         \* what was used up of each bound

vars == <<up, state, wal, conclusion, acked, accepted, used>>

None == [n |-> -1, y |-> -1]
Empty == [x \in {} |-> 0]
MaxOf(a, b) == IF a > b THEN a ELSE b
EarliestOf(S) == CHOOSE t \in S : \A u \in S : t <= u
Times(seq) == {seq[i] : i \in DOMAIN seq}

-----------------------------------------------------------------------------
(* One event.                                                               *)

Blank ==
  [status |-> "none", seen |-> {}, subjects |-> Empty,
   sum |-> [a \in Arms |-> [n |-> 0, y |-> 0]],
   received |-> 0, accepted |-> 0, duplicates |-> 0, rejected |-> 0, late |-> 0, unmatched |-> 0,
   top |-> 0, arrival |-> 0, lags |-> <<>>, history |-> <<>>]

Unseen(s) == [exposures |-> <<>>, outcomes |-> <<>>, latest |-> 0, exposed |-> FALSE, converted |-> FALSE]

\* Mutant: the window starts at the exposure that arrived first.
Attributed_FirstArrived(exposures, outcomes) ==
  \E i \in DOMAIN outcomes : exposures[1] <= outcomes[i] /\ outcomes[i] <= exposures[1] + Window

\* Does an outcome fall into the window that the earliest exposure opens?
Attributed(exposures, outcomes) ==
  LET first == EarliestOf(Times(exposures))
  IN  \E i \in DOMAIN outcomes : first <= outcomes[i] /\ outcomes[i] <= first + Window

Contribution(subject) ==
  [subject EXCEPT !.exposed = subject.exposures # <<>>,
                  !.converted = subject.exposures # <<>> /\ Attributed(subject.exposures, subject.outcomes)]

\* The aggregate with a subject's contribution put in (by = 1) or taken out (by = -1).
Counted(sum, arm, subject, by) ==
  IF ~subject.exposed THEN sum
  ELSE [sum EXCEPT ![arm] = [n |-> @.n + by, y |-> IF subject.converted THEN @.y + by ELSE @.y]]

Watermark(m) == m.top - Lateness

Deadline(subject) ==
  (IF subject.exposures = <<>> THEN subject.latest ELSE EarliestOf(Times(subject.exposures))) + Window

Expired(m) == {s \in DOMAIN m.subjects : Watermark(m) > Deadline(m.subjects[s])}

\* The outcomes of subjects that are never exposed.
Unmatched(m, lost) ==
  FoldLeft(LAMBDA n, s : n + Len(m.subjects[s].outcomes), m.unmatched, SetToSeq(lost))

ExpireSubjects(m) ==
  LET out == Expired(m)
  IN  [m EXCEPT !.subjects = [s \in DOMAIN @ \ out |-> @[s]],
                !.unmatched = Unmatched(m, {s \in out : m.subjects[s].exposures = <<>>})]

LastOf(seq, n) == IF Len(seq) > n THEN SubSeq(seq, Len(seq) - n + 1, Len(seq)) ELSE seq

\* What is due after an event was accepted: a point of the history, and expiration.
AfterAccepting(m) ==
  LET kept == IF m.accepted % SnapshotEvery = 0
                THEN [m EXCEPT !.history = LastOf(Append(@, [at |-> m.top, sum |-> m.sum]), MaxHistory)]
                ELSE m
  IN  IF m.accepted % ExpireEvery = 0 THEN ExpireSubjects(kept) ELSE kept

Accept(m, e, at) ==
  LET old == IF e.subject \in DOMAIN m.subjects THEN m.subjects[e.subject] ELSE Unseen(e.subject)
      new == Contribution(
               [old EXCEPT !.latest = MaxOf(@, e.t),
                           !.exposures = IF e.type = "exposure" THEN Append(@, e.t) ELSE @,
                           !.outcomes = IF e.type = "outcome" THEN Append(@, e.t) ELSE @])
      arm == ArmOf[e.subject]
  IN  AfterAccepting(
        [m EXCEPT !.top = MaxOf(@, e.t),
                  !.lags = LastOf(Append(@, MaxOf(0, at - e.t)), MaxLags),
                  !.subjects = [s \in DOMAIN @ \union {e.subject} |-> IF s = e.subject THEN new ELSE @[s]],
                  !.sum = Counted(Counted(@, arm, old, -1), arm, new, 1),
                  !.accepted = @ + 1])

Late(m, e) == m.top # 0 /\ e.t < Watermark(m)

Seen(m, e) == e.id \in m.seen

Verdict(m, e) ==
  IF Seen(m, e) THEN "duplicate"
  ELSE IF e.version # Version THEN "rejected"
  ELSE IF Late(m, e) THEN "late"
  ELSE "accepted"

ApplyEvent(m, e, at) ==
  LET got == [m EXCEPT !.arrival = MaxOf(@, at), !.received = @ + 1, !.seen = @ \union {e.id}]
      v == Verdict(m, e)
  IN  CASE v = "duplicate" -> [got EXCEPT !.duplicates = @ + 1]
        [] v = "rejected"  -> [got EXCEPT !.rejected = @ + 1]
        [] v = "late"      -> [got EXCEPT !.late = @ + 1]
        [] OTHER           -> Accept(got, e, at)

ApplyBatch(m, batch, at) ==
  LET x[i \in 0..Len(batch)] == IF i = 0 THEN m ELSE ApplyEvent(x[i-1], batch[i], at)
  IN  x[Len(batch)]

-----------------------------------------------------------------------------
(* The log.                                                                 *)

Torn    == [kind |-> "torn"]     \* an incomplete line
Garbage == [kind |-> "garbage"]  \* one that went on from an incomplete line
Config(status) == [kind |-> "experiment", status |-> status, events |-> <<>>, at |-> 0]
Delivery(batch, at) == [kind |-> "events", status |-> "", events |-> batch, at |-> at]

\* A line after an incomplete one is read as part of it.
Appended(line) ==
  IF wal # <<>> /\ wal[Len(wal)] = Torn THEN [wal EXCEPT ![Len(wal)] = Garbage] ELSE Append(wal, line)
Partly == IF wal # <<>> /\ wal[Len(wal)] = Torn THEN wal ELSE Append(wal, Torn)

Lines(w) == IF w # <<>> /\ w[Len(w)] = Torn THEN SubSeq(w, 1, Len(w) - 1) ELSE w
Readable(w) == \A i \in DOMAIN w : w[i] # Garbage

\* Mutant: replay takes the time it reads a batch for the batch's arrival.
ArrivedAt_Now(line) == used.deliveries

ArrivedAt(line) == line.at

ApplyLine(m, line) ==
  IF line.kind = "experiment" THEN [m EXCEPT !.status = line.status]
  ELSE ApplyBatch(m, line.events, ArrivedAt(line))

Replay(w) ==
  LET m[i \in 0..Len(Lines(w))] == IF i = 0 THEN Blank ELSE ApplyLine(m[i-1], Lines(w)[i])
  IN  m[Len(Lines(w))]

-----------------------------------------------------------------------------
(* Calls.                                                                   *)

Use(k, n) == used[k] < n /\ used' = [used EXCEPT ![k] = @ + 1]

\* The line is written and synced, and memory follows.
Recorded(line, m) == wal' = Appended(line) /\ state' = m /\ UNCHANGED up

\* The process ends while it writes; the line may be there in full.
Interrupted(line) ==
  /\ used.crashes < MaxCrashes
  /\ wal' \in {Partly, Appended(line)} /\ up' = FALSE /\ state' = Blank

\* The write or its sync fails, and what was written stays.
Failed(line) ==
  /\ used.fails < MaxFails
  /\ \/ "nothing" \in Residues /\ wal' = wal
     \/ "part" \in Residues /\ wal' = Partly
     \/ "all" \in Residues /\ wal' = Appended(line)
  /\ UNCHANGED <<up, state>>

Spent(k) ==
  used' = [used EXCEPT ![k] = @ + 1, !.crashes = IF up' THEN @ ELSE @ + 1,
                       !.fails = IF up' /\ state' = state THEN @ + 1 ELSE @]

\* history: what the events of a batch add to the accepted ones, in that state
NewlyAccepted(m, batch, at) ==
  {batch[i] : i \in {j \in DOMAIN batch :
     Verdict(ApplyBatch(m, SubSeq(batch, 1, j - 1), at), batch[j]) = "accepted"}}

Create ==
  /\ up /\ state.status = "none"
  /\ used.changes < MaxChanges
  /\ \/ Recorded(Config("draft"), [state EXCEPT !.status = "draft"])
     \/ Interrupted(Config("draft")) \/ Failed(Config("draft"))
  /\ Spent("changes")
  /\ UNCHANGED <<conclusion, acked, accepted>>

Allowed(from, to) ==
  \/ to = "running" /\ from \in {"draft", "stopped"}
  \/ to \in {"stopped", "completed"} /\ from = "running"

\* A completed experiment's conclusion enters the catalog, unless that fails.
SetStatus(status) ==
  /\ up /\ Allowed(state.status, status)
  /\ used.changes < MaxChanges
  /\ \/ /\ Recorded(Config(status), [state EXCEPT !.status = status])
        /\ conclusion' \in {conclusion} \union (IF status = "completed" THEN {state.sum} ELSE {})
     \/ (Interrupted(Config(status)) \/ Failed(Config(status))) /\ UNCHANGED conclusion
  /\ Spent("changes")
  /\ UNCHANGED <<acked, accepted>>

\* Mutant: batches are taken whatever the experiment's status.
Open_Always(m) == m.status # "none"

Open(m) == m.status = "running"

\* The subjects whose state expired.
Gone == {e.subject : e \in accepted} \ DOMAIN state.subjects

ProcessBatch(batch) ==
  LET at   == used.deliveries + 1
      line == Delivery(batch, at)
      new  == NewlyAccepted(state, batch, at)
  IN  /\ up /\ Open(state)
      /\ used.deliveries < MaxDeliveries
      /\ Reexposed \/ \A i \in DOMAIN batch : batch[i].type = "exposure" => batch[i].subject \notin Gone
      /\ \/ /\ Recorded(line, ApplyBatch(state, batch, at))
            /\ acked' = acked \union {batch[i].id : i \in DOMAIN batch}
            /\ accepted' = accepted \union new
         \/ /\ Interrupted(line)
            /\ accepted' = accepted \union (IF wal' = Partly THEN {} ELSE new)
            /\ UNCHANGED acked
         \/ Failed(line) /\ UNCHANGED <<acked, accepted>>
      /\ Spent("deliveries")
      /\ UNCHANGED conclusion

Crash ==
  /\ up /\ Use("crashes", MaxCrashes)
  /\ up' = FALSE /\ state' = Blank
  /\ UNCHANGED <<wal, conclusion, acked, accepted>>

\* The file is cut after its last complete line.
Kept == Lines(wal)

Start ==
  /\ ~up /\ Readable(Lines(wal))
  /\ up' = TRUE /\ wal' = Kept /\ state' = Replay(wal)
  /\ UNCHANGED <<conclusion, acked, accepted, used>>

Init ==
  /\ up = FALSE /\ state = Blank /\ wal = <<>> /\ conclusion = None
  /\ acked = {} /\ accepted = {}
  /\ used = [deliveries |-> 0, changes |-> 0, crashes |-> 0, fails |-> 0]

Next ==
  \/ Create
  \/ \E s \in {"running", "stopped", "completed"} : SetStatus(s)
  \/ \E b \in Batches : ProcessBatch(b)
  \/ Crash \/ Start

Spec == Init /\ [][Next]_vars

-----------------------------------------------------------------------------
(* Properties.                                                              *)

\* The counters add up, and every state kept is of a subject that was accepted.
TypeOK ==
  /\ state.received = state.accepted + state.duplicates + state.rejected + state.late
  /\ Len(state.history) <= MaxHistory /\ Len(state.lags) <= MaxLags
  /\ \A a \in Arms : 0 <= state.sum[a].y /\ state.sum[a].y <= state.sum[a].n
  /\ \A s \in DOMAIN state.subjects : s \in DOMAIN ArmOf

\* A log can always be replayed.
CanStart == Readable(Lines(wal))

\* Whatever was acknowledged is deduplicated for ever, after crashes too ("Retrying an
\* uncertain batch is safe").
AckedIsSeen == up => acked \subseteq state.seen

\* The log can be replayed, and a restart would rebuild configuration, deduplication, joins,
\* aggregates, diagnostics and history as they are, with whatever was acknowledged
\* (docs/components/impact-experiments.md, "deterministically rebuilt by replay").
ReplayRebuilds == TypeOK /\ CanStart /\ (up => Replay(wal) = state) /\ AckedIsSeen

\* The events that count are attributed as if they had come in order and at once: exposed
\* subjects by arm, and those with an outcome in the window of their first exposure.  Neither
\* order, lateness, retries, restarts nor expiration change that.
AttributionIsByEventTime ==
  up => \A a \in Arms :
    LET at(s, type) == {e.t : e \in {x \in accepted : x.subject = s /\ x.type = type}}
        exposed == {s \in DOMAIN ArmOf : ArmOf[s] = a /\ at(s, "exposure") # {}}
        hit == {s \in exposed : LET first == EarliestOf(at(s, "exposure"))
                                IN  \E t \in at(s, "outcome") : first <= t /\ t <= first + Window}
    IN  state.sum[a] = [n |-> Cardinality(exposed), y |-> Cardinality(hit)]

\* What the catalog says of a completed experiment stays what the engine says of it.
ConclusionStands == up /\ conclusion # None => state.sum = conclusion /\ state.status = "completed"
=============================================================================
