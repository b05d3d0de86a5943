-------------------------------- MODULE Raft --------------------------------
(***************************************************************************)
(* Quorum KV (src/engineering-labs/quorum-kv/internal/kv): elections, log  *)
(* replication, commit, reads, restarts, and the log and metadata files a  *)
(* node restarts from.                                                     *)
(*                                                                         *)
(* Each handler runs under the node's lock and is one action.  A remote    *)
(* call is a request and, as long as its caller waits for it, a reply;     *)
(* either may be delayed for ever.  Disks fail: SaveMetadata's errors are  *)
(* ignored by all but Propose, and Rewrite and Append report theirs.       *)
(***************************************************************************)
EXTENDS Integers, Sequences, FiniteSets

CONSTANTS
  Node, None,
  Budgets         \* bounds: what a behaviour may spend, one of these records of elections
                  \*   (and with them terms), beats (heartbeats but those of reads), writes
                  \*   (a proposal's number is its command), waiting (proposals of a node that
                  \*   wait at a time), crashes, faults (failed writes to a disk), reads and
                  \*   snapshots

ASSUME RaftAssumption ==
  /\ IsFiniteSet(Node) /\ Cardinality(Node) > 1 /\ None \notin Node
  /\ Budgets \subseteq [{"elections", "beats", "writes", "waiting", "crashes", "faults",
                         "reads", "snapshots"} -> Nat]

VARIABLES
  node,      \* node[n]: role, term, votedFor, log, commit, applied
  votes,     \* votes[n]: the term of the election n waits for, 0 for none, and who voted for it
  calls,     \* Propose calls that wait for a majority
  reads,     \* reads that wait for a majority, and those served
  net,       \* requests and replies under way
  file,      \* file[n]: raft.wal
  meta,      \* meta[n]: raft.json
  snap,      \* snap[n]: the commands a snapshot holds
  faults,    \* how many writes to disks have failed
  chosen,    \* history: the committed commands, in order
  acked,     \* history: the commands whose Propose returned no error
  elected,   \* history: <<term, node>> of every election won
  budget,    \* the bounds of this behaviour
  used       \* what was used up of them

volatile == <<node, votes, calls, reads>>
durable  == <<file, meta, snap, faults>>
history  == <<chosen, acked, elected>>
vars     == <<volatile, net, durable, history, budget, used>>

Majority(S) == Cardinality(S) >= Cardinality(Node) \div 2 + 1
Peers(n) == Node \ {n}

IsPrefix(a, b) == Len(a) <= Len(b) /\ a = SubSeq(b, 1, Len(a))

Running(n) == node[n].role # "down"
TermAt(log, i) == IF i = 0 THEN 0 ELSE log[i].term
LeastOf(S) == CHOOSE x \in S : \A y \in S : x <= y
Commands(log) == [i \in DOMAIN log |-> log[i].cmd]

Use(what) == used' = [used EXCEPT ![what] = @ + 1]

-----------------------------------------------------------------------------
(* The disk.                                                               *)

Torn == [index |-> 0, term |-> 0, cmd |-> 0]      \* a half-written line

Lines(log) == [i \in DOMAIN log |-> [index |-> i, term |-> log[i].term, cmd |-> log[i].cmd]]
Entries(lines) == [i \in DOMAIN lines |-> [term |-> lines[i].term, cmd |-> lines[i].cmd]]

\* readEntries accepts only whole lines with contiguous indexes.
Readable(lines) == \A i \in DOMAIN lines : lines[i].index = i

\* Mutant: the vote is not saved.
MetaOf_NoVote(s) == [term |-> s.term, votedFor |-> None, commit |-> s.commit]

MetaOf(s) == [term |-> s.term, votedFor |-> s.votedFor, commit |-> s.commit]

\* A write to the disk succeeds, or fails.
Works  == UNCHANGED faults
Breaks == faults < budget.faults /\ faults' = faults + 1

\* persistMetadataLocked, its error ignored: a handler that reaches state s, having
\* saved earlier already, leaves either on disk, or neither.  Power lost before
\* the unsynced file reached the disk looks the same.
Save(n, s, earlier) ==
  \/ Works /\ meta' = [meta EXCEPT ![n] = MetaOf(s)]
  \/ Breaks /\ \E m \in {meta[n], MetaOf(earlier)} : meta' = [meta EXCEPT ![n] = m]

-----------------------------------------------------------------------------
(* The node's own steps.                                                   *)

\* becomeFollowerLocked
Follower(s, term) ==
  [s EXCEPT !.role = "follower", !.term = term,
            !.votedFor = IF term > s.term THEN None ELSE @]

\* applyCommittedLocked
Applied(s) ==
  [s EXCEPT !.applied =
     @ \o [i \in 1..s.commit - Len(@) |-> s.log[Len(@) + i].cmd]]

NoElection == [term |-> 0, from |-> {}]

\* The replies a call waits for.
Replies(n, type) == {m \in net : m.to = n /\ m.type = type}

StartElection(n) ==
  /\ node[n].role \in {"follower", "candidate"}
  /\ used.elections < budget.elections
  /\ LET s == [node[n] EXCEPT !.role = "candidate", !.term = @ + 1, !.votedFor = n]
     IN  /\ node' = [node EXCEPT ![n] = s]
         /\ Save(n, s, node[n])
         /\ net' = (net \ Replies(n, "voted"))
              \cup {[type |-> "vote", from |-> n, to |-> p, term |-> s.term,
                     last |-> Len(s.log), lastTerm |-> TermAt(s.log, Len(s.log))] : p \in Peers(n)}
  /\ votes' = [votes EXCEPT ![n] = [term |-> node[n].term + 1, from |-> {n}]]
  /\ Use("elections")
  /\ UNCHANGED <<calls, reads, file, snap, history>>

\* Mutant: the candidate's log is not looked at.
UpToDate_Always(m, log) == TRUE

UpToDate(m, log) ==
  LET lastTerm == TermAt(log, Len(log))
  IN  m.lastTerm > lastTerm \/ (m.lastTerm = lastTerm /\ m.last >= Len(log))

HandleRequestVote(m) ==
  /\ m \in net /\ m.type = "vote" /\ Running(m.to)
  /\ LET n == m.to
         f == IF m.term > node[n].term THEN Follower(node[n], m.term) ELSE node[n]
         grants == /\ m.term = f.term
                   /\ UpToDate(m, f.log)
                   /\ f.votedFor \in {None, m.from}
         s == IF grants THEN [f EXCEPT !.votedFor = m.from] ELSE f
         reply == [type |-> "voted", from |-> n, to |-> m.from, term |-> s.term, granted |-> grants]
     IN  /\ node' = [node EXCEPT ![n] = s]
         /\ IF grants \/ f # node[n] THEN Save(n, s, IF grants THEN f ELSE node[n])
            ELSE Works /\ UNCHANGED meta
         /\ net' = (net \ {m}) \cup
              IF votes[m.from].term = m.term THEN {reply} ELSE {}
  /\ UNCHANGED <<votes, calls, reads, file, snap, history, used>>

\* startElection's loop takes one response.
CountVote(m) ==
  /\ m \in net /\ m.type = "voted"
  /\ LET n == m.to
         s == node[n]
         count == IF m.granted THEN votes[n].from \cup {m.from} ELSE votes[n].from
         behind == m.term > s.term
         wins == ~behind /\ Majority(count) /\ s.role = "candidate" /\ s.term = votes[n].term
     IN  /\ IF behind \/ Majority(count)
            THEN votes' = [votes EXCEPT ![n] = NoElection] /\ net' = net \ Replies(n, "voted")
            ELSE votes' = [votes EXCEPT ![n].from = count] /\ net' = net \ {m}
         /\ node' = [node EXCEPT ![n] =
              IF behind THEN Follower(s, m.term)
              ELSE IF wins THEN [s EXCEPT !.role = "leader"] ELSE s]
         /\ IF behind THEN Save(n, Follower(s, m.term), s) ELSE Works /\ UNCHANGED meta
         /\ elected' = IF wins THEN elected \cup {<<s.term, n>>} ELSE elected
  /\ UNCHANGED <<calls, reads, file, snap, chosen, acked, used>>

-----------------------------------------------------------------------------
(* Replication.                                                            *)

\* The request a leader in state s makes of a peer, from index next on.
AppendRequest(n, p, s, next, call) ==
  [type |-> "append", from |-> n, to |-> p, term |-> s.term,
   prev |-> next - 1, prevTerm |-> TermAt(s.log, next - 1),
   entries |-> SubSeq(s.log, next, Len(s.log)), commit |-> s.commit, call |-> call]

\* Mutant: whatever is behind the entries goes, in conflict or not.
Overwritten_Truncates(log, prev, entries) == SubSeq(log, 1, prev) \o entries

\* A log after entries that follow index prev: kept up to the first that differs.
Overwritten(log, prev, entries) ==
  LET new == {i \in DOMAIN entries :
                prev + i > Len(log) \/ log[prev + i].term # entries[i].term}
  IN  IF new = {} THEN log
      ELSE SubSeq(log, 1, prev + LeastOf(new) - 1)
             \o SubSeq(entries, LeastOf(new), Len(entries))

\* Where a leader is told to try next: the first entry of the term in conflict.
ConflictIndex(log, prev) ==
  IF prev > Len(log) THEN Len(log) + 1
  ELSE LeastOf({i \in 1..prev : \A j \in i..prev : log[j].term = log[prev].term})

\* A reply enters the network while its caller waits.
Awaited(m) ==
  \/ m.call.k = "write" /\ \E c \in calls : c.node = m.from /\ c.id = m.call
  \/ m.call.k = "read" /\ \E r \in reads : r.node = m.from /\ r.id = m.call /\ ~r.served

Answer(m, s, success, conflict) ==
  net' = (net \ {m}) \cup
    IF Awaited(m)
    THEN {[type |-> "appended", from |-> m.to, to |-> m.from, term |-> s.term,
           success |-> success, conflict |-> conflict, call |-> m.call]}
    ELSE {}

\* Mutant: the term of the preceding entry is not compared.
Matches_LengthOnly(log, m) == m.prev <= Len(log)

Matches(log, m) == m.prev <= Len(log) /\ TermAt(log, m.prev) = m.prevTerm

\* What HandleAppendEntries does once the preceding entry matched.
AcceptEntries(m, f) ==
  LET n == m.to
      log == Overwritten(f.log, m.prev, m.entries)
      g == [f EXCEPT !.log = log]
      s == IF m.commit > f.commit
           THEN Applied([g EXCEPT !.commit = IF m.commit < Len(log) THEN m.commit ELSE Len(log)])
           ELSE g
  IN  \/ /\ node' = [node EXCEPT ![n] = s]
         /\ file' = IF log = f.log THEN file ELSE [file EXCEPT ![n] = Lines(log)]
         /\ IF f # node[n] \/ m.commit > f.commit THEN Save(n, s, f) ELSE Works /\ UNCHANGED meta
         /\ Answer(m, s, TRUE, 0)
      \/ \* Rewrite fails: memory keeps the entries.
         /\ log # f.log /\ Breaks
         /\ node' = [node EXCEPT ![n] = g]
         /\ meta' = [meta EXCEPT ![n] = IF f = node[n] THEN @ ELSE MetaOf(f)]
         /\ Answer(m, g, FALSE, Len(log) + 1)
         /\ UNCHANGED file

HandleAppendEntries(m) ==
  /\ m \in net /\ m.type = "append" /\ Running(m.to)
  /\ LET n == m.to
         s == node[n]
         f == IF m.term > s.term \/ s.role # "follower" THEN Follower(s, m.term) ELSE s
         matches == Matches(f.log, m)
     IN  \/ /\ m.term < s.term
            /\ Answer(m, s, FALSE, Len(s.log) + 1)
            /\ Works /\ UNCHANGED <<node, file, meta>>
         \/ /\ m.term >= s.term /\ ~matches
            /\ node' = [node EXCEPT ![n] = f]
            /\ IF f = s THEN Works /\ UNCHANGED meta ELSE Save(n, f, s)
            /\ Answer(m, f, FALSE, ConflictIndex(f.log, m.prev))
            /\ UNCHANGED file
         \/ m.term >= s.term /\ matches /\ AcceptEntries(m, f)
  /\ UNCHANGED <<votes, calls, reads, snap, history, used>>

\* Propose, up to where it waits: append to the file, then to memory.
Propose(n) ==
  /\ node[n].role = "leader" /\ used.writes < budget.writes /\ Cardinality({c \in calls : c.node = n}) < budget.waiting
  /\ LET cmd == used.writes + 1
         s == [node[n] EXCEPT !.log = Append(@, [term |-> node[n].term, cmd |-> cmd])]
         line == [index |-> Len(s.log), term |-> s.term, cmd |-> cmd]
     IN  \/ /\ file' = [file EXCEPT ![n] = Append(@, line)]
            /\ node' = [node EXCEPT ![n] = s]
            /\ calls' = calls \cup
                 {[node |-> n, id |-> [k |-> "write", index |-> Len(s.log), term |-> s.term],
                   todo |-> Peers(n), acks |-> {n}]}
            /\ Works
         \/ \* Append fails, perhaps with part of the line or all of it in the file.
            /\ Breaks
            /\ \E more \in {<<>>, <<Torn>>, <<line>>} : file' = [file EXCEPT ![n] = @ \o more]
            /\ UNCHANGED <<node, calls>>
  /\ Use("writes")
  /\ UNCHANGED <<votes, reads, net, meta, snap, history>>

\* replicateToPeer starts: from the last entry there was when it looked.
Replicate(c, p) ==
  /\ c \in calls /\ p \in c.todo
  /\ LET s == node[c.node]
     IN  /\ s.role = "leader" /\ s.term = c.id.term
         /\ \E next \in c.id.index..Len(s.log) :
              net' = net \cup {AppendRequest(c.node, p, s, next, c.id)}
  /\ calls' = (calls \ {c}) \cup {[c EXCEPT !.todo = @ \ {p}]}
  /\ UNCHANGED <<node, votes, reads, durable, history, used>>

\* The end of Propose: a majority holds the entry.
Finish(c, rest) ==
  LET n == c.node
      s == node[n]
      t == Applied([s EXCEPT !.commit = c.id.index])
      leads == s.role = "leader" /\ s.term = c.id.term
  IN  /\ calls' = calls \ {c}
      /\ net' = {m \in rest : m.type = "appended" => m.to # n \/ m.call # c.id}
      /\ IF leads
         THEN /\ node' = [node EXCEPT ![n] = t]
              /\ chosen' = LET now == SubSeq(Commands(s.log), 1, c.id.index)
                        IN  IF IsPrefix(now, chosen) THEN chosen ELSE now
              /\ \/ /\ Works /\ meta' = [meta EXCEPT ![n] = MetaOf(t)]
                    /\ acked' = acked \cup {s.log[c.id.index].cmd}
                 \/ Breaks /\ UNCHANGED <<meta, acked>>
         ELSE Works /\ UNCHANGED <<node, meta, chosen, acked>>

\* A call's goroutine takes the response of its peer.
Replicated(m) ==
  /\ m \in net /\ m.type = "appended" /\ m.call.k = "write"
  /\ \E c \in {d \in calls : d.node = m.to /\ d.id = m.call} :
       LET n == m.to
           s == node[n]
           acks == c.acks \cup {m.from}
           rest == net \ {m}
       IN  \/ /\ m.term > s.term
              /\ node' = [node EXCEPT ![n] = Follower(s, m.term)]
              /\ Save(n, Follower(s, m.term), s)
              /\ net' = rest
              /\ UNCHANGED <<calls, chosen, acked>>
           \/ /\ m.term <= s.term /\ m.success /\ ~Majority(acks)
              /\ calls' = (calls \ {c}) \cup {[c EXCEPT !.acks = acks]}
              /\ net' = rest /\ Works
              /\ UNCHANGED <<node, meta, chosen, acked>>
           \/ m.term <= s.term /\ m.success /\ Majority(acks) /\ Finish(c, rest)
           \/ /\ m.term <= s.term /\ ~m.success
              /\ net' = rest \cup
                   IF s.role = "leader" /\ s.term = c.id.term
                   THEN {AppendRequest(n, m.from, s, m.conflict, c.id)} ELSE {}
              /\ Works /\ UNCHANGED <<node, meta, calls, chosen, acked>>
  /\ UNCHANGED <<votes, reads, file, snap, elected, used>>

-----------------------------------------------------------------------------
(* Heartbeats and reads.                                                   *)

Beat(n, p, call) == AppendRequest(n, p, node[n], Len(node[n].log) + 1, call)

\* heartbeatLoop: nobody looks at the responses.
Heartbeat(n) ==
  /\ node[n].role = "leader" /\ used.beats < budget.beats
  /\ Use("beats")
  /\ \E p \in Peers(n) : net' = net \cup {Beat(n, p, [k |-> "beat"])}
  /\ UNCHANGED <<volatile, durable, history>>

\* A node that applied an entry of its own term.
InOffice(s) == s.applied # <<>> /\ TermAt(s.log, Len(s.applied)) = s.term

\* LinearizableGet begins.  must: the writes that had finished by then.
StartRead(n) ==
  /\ node[n].role = "leader" /\ used.reads < budget.reads
  /\ LET id == [k |-> "read", nr |-> used.reads]
     IN  /\ net' = net \cup {Beat(n, p, id) : p \in Peers(n)}
         /\ reads' = reads \cup {[node |-> n, id |-> id, acks |-> {n}, must |-> acked,
                                  own |-> InOffice(node[n]), served |-> FALSE, got |-> <<>>]}
  /\ Use("reads")
  /\ UNCHANGED <<node, votes, calls, durable, history>>

\* Mutant: a refusal counts as well.
Confirming_Any(r, m) == r.acks \cup {m.from}

Confirming(r, m) == IF m.success THEN r.acks \cup {m.from} ELSE r.acks

\* quorumHeartbeat takes one response; with a majority, the state is read.
ReadConfirmed(m) ==
  /\ m \in net /\ m.type = "appended" /\ m.call.k = "read"
  /\ \E r \in {q \in reads : q.node = m.to /\ q.id = m.call} :
       LET acks == Confirming(r, m)
       IN  /\ reads' = (reads \ {r}) \cup
                {IF Majority(acks)
                 THEN [r EXCEPT !.acks = acks, !.served = TRUE, !.got = node[r.node].applied]
                 ELSE [r EXCEPT !.acks = acks]}
           /\ net' = IF Majority(acks)
                     THEN {o \in net : o.type = "appended" => o.call # m.call}
                     ELSE net \ {m}
  /\ UNCHANGED <<node, votes, calls, durable, history, used>>

-----------------------------------------------------------------------------
(* Crashes.                                                                *)

Off == [role |-> "down", term |-> 0, votedFor |-> None, log |-> <<>>, commit |-> 0, applied |-> <<>>]

Crash(n) ==
  /\ Running(n) /\ used.crashes < budget.crashes
  /\ node' = [node EXCEPT ![n] = Off]
  /\ votes' = [votes EXCEPT ![n] = NoElection]
  /\ calls' = {c \in calls : c.node # n}
  /\ reads' = {r \in reads : r.node # n \/ r.served}
  /\ net' = {m \in net : m.type \in {"voted", "appended"} => m.to # n}
  /\ Use("crashes")
  /\ UNCHANGED <<durable, history>>

CanLoad(n) == Readable(file[n]) /\ meta[n].commit <= Len(file[n])

\* NewNode
Restart(n) ==
  /\ ~Running(n) /\ CanLoad(n)
  /\ node' = [node EXCEPT ![n] =
       Applied([role |-> "follower", term |-> meta[n].term, votedFor |-> meta[n].votedFor,
                log |-> Entries(file[n]), commit |-> meta[n].commit, applied |-> snap[n]])]
  /\ UNCHANGED <<votes, calls, reads, net, durable, history, used>>

Snapshot(n) ==
  /\ Running(n) /\ used.snapshots < budget.snapshots
  /\ snap' = [snap EXCEPT ![n] = node[n].applied]
  /\ Use("snapshots")
  /\ UNCHANGED <<volatile, net, file, meta, faults, history>>

-----------------------------------------------------------------------------
Init ==
  /\ node = [n \in Node |-> [Off EXCEPT !.role = "follower"]]
  /\ votes = [n \in Node |-> NoElection]
  /\ calls = {} /\ reads = {} /\ net = {}
  /\ file = [n \in Node |-> <<>>] /\ snap = [n \in Node |-> <<>>]
  /\ meta = [n \in Node |-> MetaOf(Off)]
  /\ faults = 0 /\ chosen = <<>> /\ acked = {} /\ elected = {}
  /\ budget \in Budgets
  /\ used = [elections |-> 0, beats |-> 0, writes |-> 0, crashes |-> 0, reads |-> 0, snapshots |-> 0]

Step ==
  \/ \E n \in Node : \/ StartElection(n) \/ Propose(n) \/ Heartbeat(n) \/ StartRead(n)
                     \/ Crash(n) \/ Restart(n) \/ Snapshot(n)
  \/ \E m \in net : \/ HandleRequestVote(m) \/ CountVote(m) \/ HandleAppendEntries(m)
                    \/ Replicated(m) \/ ReadConfirmed(m)
  \/ \E c \in calls : \E p \in c.todo : Replicate(c, p)

Next == Step /\ UNCHANGED budget

Spec == Init /\ [][Next]_vars

-----------------------------------------------------------------------------
(* What must hold.                                                         *)

Term == 0..budget.elections
Log == Seq([term : Term, cmd : 1..budget.writes])

\* Nodes, files and calls have the types the code gives them, and what was
\* applied was committed: NewNode and the handlers keep the log, the commit
\* index and the machine in step.
TypeOK ==
  /\ \A n \in Node :
       LET s == node[n]
       IN  /\ s.role \in {"down", "follower", "candidate", "leader"}
           /\ s.term \in Term /\ s.votedFor \in Node \cup {None}
           /\ s.log \in Log /\ s.commit \in 0..Len(s.log)
           /\ s.applied \in Seq(1..budget.writes)
           /\ votes[n].term \in Term /\ votes[n].from \subseteq Node
           /\ meta[n].term \in Term /\ meta[n].commit \in Nat
  /\ \A c \in calls : c.todo \subseteq Peers(c.node) /\ Cardinality(c.acks) <= Cardinality(Node)
  /\ \A m \in net : m.from # m.to

\* Two nodes never win the same term, whatever crashes between a vote and the
\* next: HandleRequestVote saves the vote before it answers.
ElectionSafety == \A e, f \in elected : e[1] = f[1] => e[2] = f[2]

\* Logs that have an entry of one term at one index agree up to it, in memory and
\* in the files: HandleAppendEntries checks the entry before those it takes.
LogMatching ==
  \A n, p \in Node :
    \A i \in DOMAIN file[n] \cap DOMAIN file[p] :
      file[n][i].term = file[p][i].term
        => SubSeq(file[n], 1, i) = SubSeq(file[p], 1, i)

\* Every node applies the committed commands in their order, up to some point.
MachinesAgree == \A n \in Node : IsPrefix(node[n].applied, chosen) /\ IsPrefix(snap[n], chosen)

\* A node that is down can be started again with what its disk holds.
CanRestart == \A n \in Node : Running(n) \/ CanLoad(n)

\* A committed command is in the file of a majority, in its place, and every node can be
\* started from its file: the loss of any minority of the disks loses none (README,
\* "Safety path" 1 to 3).
HeldByMajority ==
  /\ TypeOK /\ CanRestart
  /\ \A i \in DOMAIN chosen :
       Majority({n \in Node : i <= Len(file[n]) /\ file[n][i].cmd = chosen[i]})

\* A leader that no later one replaced has every committed command in its log.
LeaderComplete ==
  \A n \in Node :
    node[n].role = "leader" /\ (\A e \in elected : e[1] <= node[n].term)
      => IsPrefix(chosen, Commands(node[n].log))

\* Files, leaders' logs and machines agree with one another on what was committed
\* (README, "Safety path" 2).
LogsAgree == LogMatching /\ LeaderComplete /\ MachinesAgree

SawFinished(r) == r.must \subseteq {r.got[i] : i \in DOMAIN r.got}

\* A linearizable read sees every write that had been acknowledged when it began.
ReadsSeeFinishedWrites == \A r \in reads : r.served => SawFinished(r)

\* It does once its leader has applied an entry of its own term: the majority that
\* answers quorumHeartbeat knew of no later leader when the read began.
ReadsInOfficeSeeFinishedWrites == \A r \in reads : r.served /\ r.own => SawFinished(r)

\* Together the nodes, the network and the crashes implement one log that loses
\* nothing it acknowledged.
Ledger == INSTANCE PromisedLog WITH log <- chosen, told <- acked
KeepsLedger == Ledger!Spec
=============================================================================
