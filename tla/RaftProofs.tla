----------------------------- MODULE RaftProofs -----------------------------
(***************************************************************************)
(* Quorum KV, proofs, for disks whose writes do not fail.  First what each *)
(* action of Raft does to a node, to its disk and to the network; that a   *)
(* term has one leader at most; and that every log took what it has from   *)
(* the leaders of its entries' terms.  Then that what a majority took      *)
(* stays, what is committed is one order, reads see what had finished; the *)
(* inductive invariant of all that, and the theorems.                      *)
(*                                                                         *)
(* The invariant speaks of three things the code does not keep: the votes  *)
(* that were given, the log every leader had in its term, and who took     *)
(* which entry in the entry's own term.                                    *)
(***************************************************************************)
EXTENDS Raft, FiniteSetTheorems, SequenceTheorems, WellFoundedInduction, TLAPS

-----------------------------------------------------------------------------
(* The state of a node, as its disk has it.                                *)

TermOf(n) == meta[n].term
VoteOf(n) == meta[n].votedFor
LogOf(n)  == Entries(file[n])
Leads(n)  == node[n].role = "leader"

Entry == [term : Nat, cmd : Nat]
Line  == [index : Nat, term : Nat, cmd : Nat]

\* A log has an entry of a term at an index.
Has(log, i, t) == i \in 1..Len(log) /\ log[i].term = t

\* Two logs are the same up to an index.
Agree(log, other, i) ==
  i <= Len(log) /\ i <= Len(other) /\ \A j \in 1..i : log[j] = other[j]

Ascending(log) == \A i, j \in 1..Len(log) : i <= j => log[i].term <= log[j].term

-----------------------------------------------------------------------------
(* Majorities.                                                             *)

\* Two majorities have a node in common.
LEMMA MajoritiesMeet ==
  ASSUME NEW Q \in SUBSET Node, NEW R \in SUBSET Node, Majority(Q), Majority(R)
  PROVE  \E n \in Q : n \in R
<1>1. IsFiniteSet(Q) /\ IsFiniteSet(R) /\ IsFiniteSet(Node)
  BY RaftAssumption, FS_Subset
<1>2. Cardinality(Q) \in Nat /\ Cardinality(R) \in Nat /\ Cardinality(Node) \in Nat
  BY <1>1, FS_CardinalityType
<1>3. Cardinality(Q) + Cardinality(R) > Cardinality(Node)
  BY <1>2 DEF Majority
<1>4. Q \cap R # {}
  BY <1>1, <1>3, FS_MajoritiesIntersect
<1> QED
  BY <1>4

\* What contains a majority is one.
LEMMA MajorityGrows ==
  ASSUME NEW R \in SUBSET Node, NEW Q \in SUBSET R, Majority(Q)
  PROVE  Majority(R)
<1>1. IsFiniteSet(R)
  BY RaftAssumption, FS_Subset
<1>2. Cardinality(Q) <= Cardinality(R) /\ Cardinality(Q) \in Nat /\ Cardinality(R) \in Nat
  BY <1>1, FS_Subset, FS_CardinalityType
<1>3. Cardinality(Node) \in Nat
  BY RaftAssumption, FS_CardinalityType
<1> QED
  BY <1>2, <1>3 DEF Majority

-----------------------------------------------------------------------------
(* Logs.                                                                   *)

\* What is written to a file is what is read from it.
LEMMA LinesReadBack ==
  ASSUME NEW log \in Seq(Entry)
  PROVE  /\ Lines(log) \in Seq(Line) /\ Len(Lines(log)) = Len(log)
         /\ Readable(Lines(log)) /\ Entries(Lines(log)) = log
<1>1. DOMAIN log = 1..Len(log) /\ Len(log) \in Nat
  OBVIOUS
<1>2. \A i \in 1..Len(log) : log[i] \in Entry
  OBVIOUS
<1>3. Lines(log) = [i \in 1..Len(log) |-> [index |-> i, term |-> log[i].term, cmd |-> log[i].cmd]]
  BY <1>1 DEF Lines
<1>4. Lines(log) \in Seq(Line) /\ Len(Lines(log)) = Len(log) /\ DOMAIN Lines(log) = 1..Len(log)
  BY <1>1, <1>2, <1>3 DEF Entry, Line
<1>5. \A i \in 1..Len(log) : Lines(log)[i] = [index |-> i, term |-> log[i].term, cmd |-> log[i].cmd]
  BY <1>3
<1>6. Entries(Lines(log)) = [i \in 1..Len(log) |-> [term |-> log[i].term, cmd |-> log[i].cmd]]
  BY <1>4, <1>5 DEF Entries
<1>7. \A i \in 1..Len(log) : [term |-> log[i].term, cmd |-> log[i].cmd] = log[i]
  BY <1>2 DEF Entry
<1>8. Entries(Lines(log)) = log
  BY <1>1, <1>6, <1>7
<1> QED
  BY <1>4, <1>5, <1>8 DEF Readable

LEMMA EntriesAre ==
  ASSUME NEW lines \in Seq(Line)
  PROVE  /\ Entries(lines) \in Seq(Entry) /\ Len(Entries(lines)) = Len(lines)
         /\ \A i \in 1..Len(lines) : /\ Entries(lines)[i].term = lines[i].term
                                     /\ Entries(lines)[i].cmd = lines[i].cmd
<1>1. Entries(lines) = [i \in 1..Len(lines) |-> [term |-> lines[i].term, cmd |-> lines[i].cmd]]
  BY DEF Entries
<1>2. \A i \in 1..Len(lines) : lines[i] \in Line
  OBVIOUS
<1> QED
  BY <1>1, <1>2 DEF Entry, Line

\* The least of a set of numbers is one of them, below the others.
LEMMA LeastIsLeast ==
  ASSUME NEW S \in SUBSET Nat, S # {}
  PROVE  LeastOf(S) \in S /\ \A y \in S : LeastOf(S) <= y
<1>1. PICK x \in S : \A y \in S : ~ (<<y, x>> \in OpToRel(<, Nat))
  BY WFMin, NatLessThanWellFounded
<1>2. \A y \in S : ~ (y < x)
  BY <1>1 DEF OpToRel
<1>3. \A y \in S : x <= y
  BY <1>2
<1> QED
  BY <1>3 DEF LeastOf

\* Entries that follow a log's own up to prev, in another log, overwrite it: either all of
\* them are there, by their terms, or the log ends with the last of them.
LEMMA OverwrittenIs ==
  ASSUME NEW log \in Seq(Entry), NEW entries \in Seq(Entry), NEW prev \in Nat, prev <= Len(log)
  PROVE  \/ /\ Overwritten(log, prev, entries) = log
            /\ \A i \in 1..Len(entries) : Has(log, prev + i, entries[i].term)
         \/ \E k \in 1..Len(entries) :
              /\ \A i \in 1..k - 1 : Has(log, prev + i, entries[i].term)
              /\ ~ Has(log, prev + k, entries[k].term)
              /\ Overwritten(log, prev, entries) \in Seq(Entry)
              /\ Len(Overwritten(log, prev, entries)) = prev + Len(entries)
              /\ \A j \in 1..prev + k - 1 : j <= Len(log) /\ Overwritten(log, prev, entries)[j] = log[j]
              /\ \A j \in k..Len(entries) : Overwritten(log, prev, entries)[prev + j] = entries[j]
<1> DEFINE new == {i \in DOMAIN entries : prev + i > Len(log) \/ log[prev + i].term # entries[i].term}
           k == LeastOf(new)
<1>0. DOMAIN entries = 1..Len(entries) /\ Len(entries) \in Nat /\ Len(log) \in Nat
  OBVIOUS
<1>1. \A i \in 1..Len(entries) : i \in new <=> ~ Has(log, prev + i, entries[i].term)
  BY <1>0 DEF Has
<1>2. CASE new = {}
  <2>1. Overwritten(log, prev, entries) = log
    BY <1>2 DEF Overwritten
  <2> QED
    BY <1>1, <1>2, <2>1
<1>3. CASE new # {}
  <2>1. new \in SUBSET Nat
    BY <1>0
  <2>2. Overwritten(log, prev, entries) = SubSeq(log, 1, prev + k - 1) \o SubSeq(entries, k, Len(entries))
    BY <1>3 DEF Overwritten
  <2> HIDE DEF new
  <2>3. k \in new /\ \A i \in new : k <= i
    BY <1>3, <2>1, LeastIsLeast
  <2>4. k \in 1..Len(entries)
    BY <1>0, <2>3 DEF new
  <2> HIDE DEF k
  <2>5. \A i \in 1..k - 1 : i \in 1..Len(entries) /\ i \notin new
    BY <1>0, <2>3, <2>4
  <2>6. \A i \in 1..k - 1 : Has(log, prev + i, entries[i].term)
    BY <1>1, <2>5
  <2>7. prev + k - 1 <= Len(log)
    <3>1. CASE k = 1
      BY <1>0, <3>1
    <3>2. CASE k > 1
      <4>1. k - 1 \in 1..k - 1
        BY <2>4, <3>2
      <4>2. prev + (k - 1) \in 1..Len(log)
        BY <2>6, <4>1 DEF Has
      <4> QED
        BY <4>2, <1>0, <2>4
    <3> QED
      BY <2>4, <3>1, <3>2
  <2> DEFINE a == SubSeq(log, 1, prev + k - 1)
             b == SubSeq(entries, k, Len(entries))
  <2>8. a \in Seq(Entry) /\ Len(a) = prev + k - 1 /\ \A j \in 1..prev + k - 1 : a[j] = log[j]
    BY <1>0, <2>4, <2>7
  <2>9. b \in Seq(Entry) /\ Len(b) = Len(entries) - k + 1 /\ \A j \in 1..Len(entries) - k + 1 : b[j] = entries[k + j - 1]
    BY <1>0, <2>4
  <2> HIDE DEF a, b
  <2>10. (a \o b) \in Seq(Entry) /\ Len(a \o b) = prev + Len(entries)
    <3>1. (a \o b) \in Seq(Entry) /\ Len(a \o b) = Len(a) + Len(b)
      BY <2>8, <2>9, ConcatProperties
    <3>2. Len(a) + Len(b) = prev + Len(entries)
      BY <1>0, <2>4, <2>8, <2>9
    <3> QED
      BY <3>1, <3>2
  <2>11. \A j \in 1..prev + k - 1 : (a \o b)[j] = log[j]
    <3>1. \A j \in 1..Len(a) : (a \o b)[j] = a[j]
      BY <2>8, <2>9
    <3> QED
      BY <3>1, <2>8
  <2>12. \A j \in k..Len(entries) : (a \o b)[prev + j] = entries[j]
    <3> SUFFICES ASSUME NEW j \in k..Len(entries) PROVE (a \o b)[prev + j] = entries[j]
      OBVIOUS
    <3>1. prev + j \in Len(a) + 1 .. Len(a) + Len(b) /\ prev + j - Len(a) = j - k + 1
      BY <1>0, <2>4, <2>8, <2>9
    <3>2. (a \o b)[prev + j] = b[prev + j - Len(a)]
      BY <3>1, <2>8, <2>9
    <3>3. j - k + 1 \in 1..Len(entries) - k + 1 /\ k + (j - k + 1) - 1 = j
      BY <1>0, <2>4
    <3> QED
      BY <3>1, <3>2, <3>3, <2>9
  <2>13. Overwritten(log, prev, entries) = a \o b
    BY <2>2 DEF a, b
  <2>14. ~ Has(log, prev + k, entries[k].term)
    BY <1>1, <2>3, <2>4
  <2> DEFINE over == Overwritten(log, prev, entries)
  <2>15. over \in Seq(Entry) /\ Len(over) = prev + Len(entries)
    BY <2>10, <2>13
  <2>16. \A j \in 1..prev + k - 1 : j <= Len(log) /\ over[j] = log[j]
    <3>1. \A j \in 1..prev + k - 1 : j <= Len(log)
      BY <1>0, <2>4, <2>7
    <3> QED
      BY <3>1, <2>11, <2>13
  <2>17. \A j \in k..Len(entries) : over[prev + j] = entries[j]
    BY <2>12, <2>13
  <2> HIDE DEF over
  <2>18. \E l \in 1..Len(entries) :
           /\ \A i \in 1..l - 1 : Has(log, prev + i, entries[i].term)
           /\ ~ Has(log, prev + l, entries[l].term)
           /\ over \in Seq(Entry)
           /\ Len(over) = prev + Len(entries)
           /\ \A j \in 1..prev + l - 1 : j <= Len(log) /\ over[j] = log[j]
           /\ \A j \in l..Len(entries) : over[prev + j] = entries[j]
    BY <2>4, <2>6, <2>14, <2>15, <2>16, <2>17
  <2> QED
    BY <2>18 DEF over
<1> QED
  BY <1>2, <1>3

\* A refusal names an index the leader can go on from.
LEMMA ConflictIndexIs ==
  ASSUME NEW log \in Seq(Entry), NEW prev \in Nat, prev # 0
  PROVE  ConflictIndex(log, prev) \in 1..prev
<1>1. CASE prev > Len(log)
  BY <1>1 DEF ConflictIndex
<1>2. CASE prev <= Len(log)
  <2> DEFINE S == {i \in 1..prev : \A j \in i..prev : log[j].term = log[prev].term}
  <2>1. prev \in S
    OBVIOUS
  <2>2. S \in SUBSET Nat /\ S \subseteq 1..prev /\ S # {}
    BY <2>1
  <2>3. ConflictIndex(log, prev) = LeastOf(S)
    BY <1>2 DEF ConflictIndex
  <2> HIDE DEF S
  <2>4. LeastOf(S) \in S
    BY <2>2, LeastIsLeast
  <2> QED
    BY <2>2, <2>3, <2>4
<1> QED
  BY <1>1, <1>2

-----------------------------------------------------------------------------
(* Types, and what is on disk, when no write to a disk fails.              *)

DisksWork == \A b \in Budgets : b.faults = 0

State == [role : {"down", "follower", "candidate", "leader"}, term : Nat,
          votedFor : Node \cup {None}, log : Seq(Entry), commit : Nat, applied : Seq(Nat)]
Meta  == [term : Nat, votedFor : Node \cup {None}, commit : Nat]

WriteId == [k : {"write"}, index : Nat \ {0}, term : Nat]
ReadId  == [k : {"read"}, nr : Nat]
Call    == [node : Node, id : WriteId, todo : SUBSET Node, acks : SUBSET Node]
Read    == [node : Node, id : ReadId, acks : SUBSET Node, must : SUBSET Nat, own : BOOLEAN,
            served : BOOLEAN, got : Seq(Nat)]

CallIdOK(id) ==
  /\ id.k \in {"beat", "read", "write"}
  /\ id.k = "write" => id \in WriteId
  /\ id.k = "read" => id \in ReadId

MessageOK(m) ==
  /\ m.type \in {"vote", "voted", "append", "appended"}
  /\ m.from \in Node /\ m.to \in Node /\ m.from # m.to /\ m.term \in Nat
  /\ m.type = "vote" => m.last \in Nat /\ m.lastTerm \in Nat /\ m.term # 0
  /\ m.type = "voted" => m.granted \in BOOLEAN
  /\ m.type = "append" =>
       /\ m.prev \in Nat /\ m.entries \in Seq(Entry) /\ m.commit \in Nat /\ CallIdOK(m.call)
       /\ m.prev = 0 => m.prevTerm = 0
  /\ m.type = "appended" =>
       m.success \in BOOLEAN /\ m.conflict \in Nat /\ (~m.success => m.conflict # 0) /\ CallIdOK(m.call)

\* What a node has in memory is on its disk as well, and a node that is down has nothing.
InSync(n) ==
  /\ Running(n) => meta[n] = MetaOf(node[n]) /\ file[n] = Lines(node[n].log)
  /\ ~Running(n) => node[n] = Off /\ votes[n] = NoElection
  /\ Readable(file[n])

BaseInv ==
  /\ node \in [Node -> State] /\ votes \in [Node -> [term : Nat, from : SUBSET Node]]
  /\ meta \in [Node -> Meta] /\ file \in [Node -> Seq(Line)] /\ snap \in [Node -> Seq(Nat)]
  /\ calls \subseteq Call /\ reads \subseteq Read /\ acked \subseteq Nat
  /\ \A m \in net : MessageOK(m) /\ (m.type = "voted" => Running(m.to))
  /\ faults = 0 /\ budget \in Budgets
  /\ \A n \in Node : InSync(n)
  /\ \A c \in calls : Running(c.node) /\ c.todo \subseteq Peers(c.node)

\* A call of a leader in office is about an entry of its log.
CallsInRange ==
  \A c \in calls :
    Leads(c.node) /\ node[c.node].term = c.id.term => c.id.index <= Len(node[c.node].log)

LEMMA NothingBreaks ==
  ASSUME DisksWork, BaseInv
  PROVE  ~Breaks
  BY DEF DisksWork, BaseInv, Breaks

\* A node that runs has its log and its term on disk.
LEMMA RunningInSync ==
  ASSUME BaseInv, NEW n \in Node, Running(n)
  PROVE  /\ TermOf(n) = node[n].term /\ VoteOf(n) = node[n].votedFor
         /\ LogOf(n) = node[n].log /\ meta[n].commit = node[n].commit
         /\ node[n] \in State /\ Len(file[n]) = Len(node[n].log)
<1>1. node[n] \in State /\ node[n].log \in Seq(Entry)
  BY DEF BaseInv, State
<1>2. meta[n] = MetaOf(node[n]) /\ file[n] = Lines(node[n].log)
  BY DEF BaseInv, InSync
<1> QED
  BY <1>1, <1>2, LinesReadBack DEF TermOf, VoteOf, LogOf, MetaOf

LEMMA LogsOnDisk ==
  ASSUME BaseInv, NEW n \in Node
  PROVE  LogOf(n) \in Seq(Entry) /\ Len(LogOf(n)) = Len(file[n]) /\ TermOf(n) \in Nat
<1>1. file[n] \in Seq(Line) /\ meta[n] \in Meta
  BY DEF BaseInv
<1> QED
  BY <1>1, EntriesAre DEF LogOf, TermOf, Meta

-----------------------------------------------------------------------------
(* What a step does to the node that takes it.                             *)

\* A node that runs goes over to state s, in memory and on disk.
Turns(n, s) ==
  /\ s \in State /\ s.role # "down"
  /\ node' = [node EXCEPT ![n] = s]
  /\ meta' = [meta EXCEPT ![n] = MetaOf(s)]
  /\ file' = [file EXCEPT ![n] = Lines(s.log)]

LEMMA TurnsTo ==
  ASSUME BaseInv, NEW n \in Node, NEW s, Turns(n, s)
  PROVE  /\ node'[n] = s /\ TermOf(n)' = s.term /\ VoteOf(n)' = s.votedFor /\ LogOf(n)' = s.log
         /\ meta'[n].commit = s.commit
         /\ \A x \in Node \ {n} :
              /\ node'[x] = node[x] /\ meta'[x] = meta[x] /\ file'[x] = file[x]
              /\ TermOf(x)' = TermOf(x) /\ VoteOf(x)' = VoteOf(x) /\ LogOf(x)' = LogOf(x)
         /\ node' \in [Node -> State] /\ meta' \in [Node -> Meta] /\ file' \in [Node -> Seq(Line)]
         /\ Running(n)'
         /\ meta'[n] = MetaOf(s) /\ file'[n] = Lines(s.log)
<1>1. node \in [Node -> State] /\ meta \in [Node -> Meta] /\ file \in [Node -> Seq(Line)]
  BY DEF BaseInv
<1>2. s.log \in Seq(Entry) /\ MetaOf(s) \in Meta /\ s.term \in Nat
  BY DEF Turns, State, Meta, MetaOf
<1>3. Lines(s.log) \in Seq(Line) /\ Entries(Lines(s.log)) = s.log
  BY <1>2, LinesReadBack
<1>4. node'[n] = s /\ meta'[n] = MetaOf(s) /\ file'[n] = Lines(s.log)
  BY <1>1 DEF Turns
<1>5. \A x \in Node \ {n} : node'[x] = node[x] /\ meta'[x] = meta[x] /\ file'[x] = file[x]
  BY <1>1 DEF Turns
<1>6. \A x \in Node \ {n} : TermOf(x)' = TermOf(x) /\ VoteOf(x)' = VoteOf(x) /\ LogOf(x)' = LogOf(x)
  BY <1>5 DEF TermOf, VoteOf, LogOf
<1>7. TermOf(n)' = s.term /\ VoteOf(n)' = s.votedFor /\ LogOf(n)' = s.log /\ meta'[n].commit = s.commit
  BY <1>3, <1>4 DEF TermOf, VoteOf, LogOf, MetaOf
<1>8. node' \in [Node -> State] /\ meta' \in [Node -> Meta] /\ file' \in [Node -> Seq(Line)]
  BY <1>1, <1>2, <1>3 DEF Turns
<1> QED
  BY <1>4, <1>5, <1>6, <1>7, <1>8 DEF Turns, Running

\* The rest of the base invariant after such a step.
LEMMA TurnsKeepsBase ==
  ASSUME BaseInv, NEW n \in Node, NEW s, Turns(n, s),
         votes' \in [Node -> [term : Nat, from : SUBSET Node]],
         \A x \in Node \ {n} : votes'[x] = votes[x],
         calls' \subseteq Call,
         \A c \in calls' : (c.node = n \/ Running(c.node)) /\ c.todo \subseteq Peers(c.node),
         reads' \subseteq Read, acked' \subseteq Nat,
         \A m \in net' : m \in net \/ (MessageOK(m) /\ (m.type = "voted" => Running(m.to))),
         UNCHANGED <<faults, budget, snap>>
  PROVE  BaseInv'
<1>1. node' \in [Node -> State] /\ meta' \in [Node -> Meta] /\ file' \in [Node -> Seq(Line)]
  BY TurnsTo
<1>2. Running(n)' /\ \A x \in Node : Running(x) => Running(x)'
  BY TurnsTo DEF Running
<1>3. \A x \in Node : InSync(x)'
  <2> SUFFICES ASSUME NEW x \in Node PROVE InSync(x)'
    OBVIOUS
  <2>1. CASE x = n
    <3>1. meta'[n] = MetaOf(s) /\ file'[n] = Lines(s.log) /\ node'[n] = s /\ Running(n)'
      BY TurnsTo
    <3>2. Readable(Lines(s.log))
      BY LinesReadBack DEF Turns, State
    <3> QED
      BY <2>1, <3>1, <3>2 DEF InSync
  <2>2. CASE x # n
    <3>1. node'[x] = node[x] /\ meta'[x] = meta[x] /\ file'[x] = file[x] /\ votes'[x] = votes[x]
      BY <2>2, TurnsTo
    <3> QED
      BY <3>1 DEF BaseInv, InSync, Running
  <2> QED
    BY <2>1, <2>2
<1>4. \A m \in net' : MessageOK(m) /\ (m.type = "voted" => Running(m.to)')
  <2> SUFFICES ASSUME NEW m \in net' PROVE MessageOK(m) /\ (m.type = "voted" => Running(m.to)')
    OBVIOUS
  <2>1. MessageOK(m) /\ (m.type = "voted" => Running(m.to))
    BY DEF BaseInv
  <2> QED
    BY <2>1, <1>2 DEF MessageOK
<1>5. \A c \in calls' : Running(c.node)' /\ c.todo \subseteq Peers(c.node)
  BY <1>2 DEF Call
<1> QED
  BY <1>1, <1>3, <1>4, <1>5 DEF BaseInv

\* Nothing happens to the nodes.
StaysPut == UNCHANGED <<node, meta, file>>

LEMMA StaysPutKeepsBase ==
  ASSUME BaseInv, StaysPut, votes' = votes,
         calls' \subseteq Call, \A c \in calls' : Running(c.node) /\ c.todo \subseteq Peers(c.node),
         reads' \subseteq Read, acked' \subseteq Nat,
         \A m \in net' : m \in net \/ (MessageOK(m) /\ (m.type = "voted" => Running(m.to))),
         UNCHANGED <<faults, budget>>, snap' \in [Node -> Seq(Nat)]
  PROVE  BaseInv'
<1>1. \A x \in Node : InSync(x)' /\ Running(x)' = Running(x)
  BY DEF BaseInv, InSync, Running, StaysPut
<1>2. \A m \in net' : MessageOK(m) /\ (m.type = "voted" => Running(m.to)')
  BY <1>1 DEF BaseInv, MessageOK
<1> QED
  BY <1>1, <1>2 DEF BaseInv, StaysPut, Call

-----------------------------------------------------------------------------
(* What each step does, when no write to a disk fails.                     *)

\* A node whose term or role changed keeps its log, its commit index and its machine.
SameData(s, o) == s.log = o.log /\ s.commit = o.commit /\ s.applied = o.applied

LEMMA Saved ==
  ASSUME DisksWork, BaseInv, NEW n \in Node, Running(n), NEW s \in State, NEW o,
         s.role # "down", s.log = node[n].log, node' = [node EXCEPT ![n] = s],
         Save(n, s, o), file' = file
  PROVE  Turns(n, s) /\ faults' = faults
<1>1. meta' = [meta EXCEPT ![n] = MetaOf(s)] /\ faults' = faults
  BY NothingBreaks DEF Save, Works
<1>2. file[n] = Lines(s.log)
  BY DEF BaseInv, InSync
<1>3. file' = [file EXCEPT ![n] = Lines(s.log)]
  BY <1>2 DEF BaseInv
<1> QED
  BY <1>1, <1>3 DEF Turns

\* A node whose state stays as it was.
LEMMA Remains ==
  ASSUME BaseInv, NEW n \in Node, Running(n), StaysPut
  PROVE  Turns(n, node[n])
<1>1. meta[n] = MetaOf(node[n]) /\ file[n] = Lines(node[n].log)
  BY DEF BaseInv, InSync
<1> QED
  BY <1>1 DEF BaseInv, StaysPut, Turns, Running

LEMMA FollowerIs ==
  ASSUME NEW s \in State, NEW t \in Nat
  PROVE  /\ Follower(s, t) \in State /\ SameData(Follower(s, t), s)
         /\ Follower(s, t).role = "follower" /\ Follower(s, t).term = t
         /\ t > s.term => Follower(s, t).votedFor = None
         /\ ~(t > s.term) => Follower(s, t).votedFor = s.votedFor
<1>1. CASE t > s.term
  <2>1. Follower(s, t) = [s EXCEPT !.role = "follower", !.term = t, !.votedFor = None]
    BY <1>1 DEF Follower
  <2> QED
    BY <1>1, <2>1 DEF State, SameData
<1>2. CASE ~(t > s.term)
  <2>1. Follower(s, t) = [s EXCEPT !.role = "follower", !.term = t, !.votedFor = s.votedFor]
    BY <1>2 DEF Follower
  <2> QED
    BY <1>2, <2>1 DEF State, SameData
<1> QED
  BY <1>1, <1>2

VoteRequest(o, n, s) ==
  /\ o.type = "vote" /\ o.from = n /\ o.to \in Peers(n) /\ o.term = s.term
  /\ o.last = Len(s.log) /\ o.lastTerm = TermAt(s.log, Len(s.log))

LEMMA StartElectionDoes ==
  ASSUME DisksWork, BaseInv, budget' = budget, NEW n \in Node, StartElection(n)
  PROVE  /\ BaseInv' /\ Running(n)
         /\ \E s : /\ Turns(n, s) /\ SameData(s, node[n]) /\ s.role = "candidate"
                   /\ s.term = node[n].term + 1 /\ s.votedFor = n
                   /\ votes' = [votes EXCEPT ![n] = [term |-> s.term, from |-> {n}]]
                   /\ \A o \in net' : \/ o \in net /\ ~(o.type = "voted" /\ o.to = n)
                                      \/ VoteRequest(o, n, s) /\ MessageOK(o)
<1> DEFINE s == [node[n] EXCEPT !.role = "candidate", !.term = @ + 1, !.votedFor = n]
<1>1. Running(n) /\ node[n] \in State
  BY DEF StartElection, Running, BaseInv
<1>2. s \in State /\ SameData(s, node[n]) /\ s.role = "candidate" /\ s.term = node[n].term + 1 /\ s.votedFor = n
  <2> DEFINE o == node[n]
             u == o.term + 1
  <2>1. o \in State /\ u \in Nat /\ s = [o EXCEPT !.role = "candidate", !.term = u, !.votedFor = n]
    BY <1>1 DEF State
  <2> HIDE DEF o, u, s
  <2>2. s \in State /\ SameData(s, o) /\ s.role = "candidate" /\ s.term = u /\ s.votedFor = n
    BY <2>1 DEF State, SameData
  <2> QED
    BY <2>2 DEF o, u
<1>3. node' = [node EXCEPT ![n] = s] /\ Save(n, s, node[n]) /\ file' = file
  BY DEF StartElection
<1>4. votes' = [votes EXCEPT ![n] = [term |-> s.term, from |-> {n}]]
  BY <1>1, <1>2 DEF StartElection
<1>5. net' = (net \ Replies(n, "voted"))
              \cup {[type |-> "vote", from |-> n, to |-> p, term |-> s.term,
                     last |-> Len(s.log), lastTerm |-> TermAt(s.log, Len(s.log))] : p \in Peers(n)}
  BY DEF StartElection
<1> HIDE DEF s
<1>6. Turns(n, s) /\ faults' = faults
  BY <1>1, <1>2, <1>3, Saved DEF SameData
<1>7. s.log \in Seq(Entry) /\ Len(s.log) \in Nat /\ s.term \in Nat /\ s.term # 0
  BY <1>1, <1>2 DEF State
<1>8. TermAt(s.log, Len(s.log)) \in Nat
  <2>1. Len(s.log) = 0 \/ s.log[Len(s.log)] \in Entry
    BY <1>7
  <2> QED
    BY <2>1 DEF TermAt, Entry
<1>9. \A o \in net' : \/ o \in net /\ ~(o.type = "voted" /\ o.to = n)
                      \/ VoteRequest(o, n, s) /\ MessageOK(o)
  BY <1>5, <1>7, <1>8 DEF Replies, VoteRequest, MessageOK, Peers
<1>10. BaseInv'
  <2>1. votes' \in [Node -> [term : Nat, from : SUBSET Node]] /\ \A x \in Node \ {n} : votes'[x] = votes[x]
    BY <1>4, <1>7 DEF BaseInv
  <2>2. \A m \in net' : m \in net \/ (MessageOK(m) /\ (m.type = "voted" => Running(m.to)))
    BY <1>9 DEF VoteRequest
  <2>3. UNCHANGED <<faults, budget, snap, calls, reads, acked>>
    BY <1>6 DEF StartElection, history
  <2> QED
    BY <1>6, <2>1, <2>2, <2>3, TurnsKeepsBase DEF BaseInv
<1> QED
  BY <1>1, <1>2, <1>4, <1>6, <1>9, <1>10

\* A node that goes from state o to s gives its vote.
Grants(s, o, m) == s.votedFor = m.from /\ s.term = m.term /\ UpToDate(m, o.log)

Votes(s, o, m) ==
  /\ SameData(s, o) /\ s.term >= o.term
  /\ s.term > o.term => s.role = "follower" /\ (s.votedFor = None \/ Grants(s, o, m))
  /\ s.term = o.term => /\ s.role = o.role
                        /\ s.votedFor = o.votedFor \/ (o.votedFor = None /\ Grants(s, o, m))

\* The answer to a request for a vote.
VoteReply(o, n, s, m, before) ==
  /\ o.type = "voted" /\ o.from = n /\ o.to = m.from /\ o.term = s.term
  /\ Running(m.from)
  /\ o.granted => votes[m.from].term = m.term /\ Grants(s, before, m)

LEMMA HandleRequestVoteDoes ==
  ASSUME DisksWork, BaseInv, budget' = budget, NEW m, HandleRequestVote(m)
  PROVE  /\ BaseInv' /\ m \in net /\ m.type = "vote" /\ m.to \in Node /\ Running(m.to)
         /\ UNCHANGED <<votes, calls, reads, snap, history, used>>
         /\ \E s : /\ Turns(m.to, s) /\ Votes(s, node[m.to], m)
                   /\ \A o \in net' : o \in net \/ VoteReply(o, m.to, s, m, node[m.to])
<1> DEFINE n == m.to
           o == node[n]
           f == IF m.term > o.term THEN Follower(o, m.term) ELSE o
           grants == /\ m.term = f.term
                     /\ UpToDate(m, f.log)
                     /\ f.votedFor \in {None, m.from}
           s == IF grants THEN [f EXCEPT !.votedFor = m.from] ELSE f
           reply == [type |-> "voted", from |-> n, to |-> m.from, term |-> s.term, granted |-> grants]
<1>1. m \in net /\ m.type = "vote" /\ Running(n) /\ MessageOK(m)
  BY DEF HandleRequestVote, BaseInv
<1>2. n \in Node /\ m.from \in Node /\ m.from # n /\ m.term \in Nat /\ o \in State /\ m.term # 0
  BY <1>1 DEF MessageOK, BaseInv
<1>3. /\ node' = [node EXCEPT ![n] = s]
      /\ IF grants \/ f # o THEN Save(n, s, IF grants THEN f ELSE o)
         ELSE Works /\ UNCHANGED meta
      /\ net' = (net \ {m}) \cup IF votes[m.from].term = m.term THEN {reply} ELSE {}
      /\ UNCHANGED <<votes, calls, reads, file, snap, history, used>>
  BY DEF HandleRequestVote
<1>4. /\ f \in State /\ SameData(f, o) /\ f.term >= o.term /\ f.term >= m.term /\ f.role # "down"
      /\ f.term > o.term => f.role = "follower" /\ f.votedFor = None /\ f.term = m.term
      /\ f.term = o.term => f = o
  <2> HIDE DEF o, n
  <2>1. CASE m.term > o.term
    <3>1. f = Follower(o, m.term)
      BY <2>1
    <3> HIDE DEF f
    <3>2. f \in State /\ SameData(f, o) /\ f.role = "follower" /\ f.term = m.term /\ f.votedFor = None
      BY <1>2, <2>1, <3>1, FollowerIs
    <3>3. o.term \in Nat
      BY <1>2 DEF State
    <3> QED
      BY <1>2, <2>1, <3>2, <3>3
  <2>2. CASE ~(m.term > o.term)
    <3>1. f = o
      BY <2>2
    <3> HIDE DEF f
    <3>2. o.term \in Nat /\ o.role # "down"
      BY <1>1, <1>2 DEF State, Running, o
    <3> QED
      BY <1>2, <2>2, <3>1, <3>2 DEF SameData
  <2> QED
    BY <2>1, <2>2
<1>5. grants \in BOOLEAN
  OBVIOUS
<1>6. /\ s \in State /\ SameData(s, f) /\ s.term = f.term /\ s.role = f.role
      /\ grants => s.votedFor = m.from /\ f.votedFor \in {None, m.from} /\ m.term = f.term /\ UpToDate(m, f.log)
      /\ ~grants => s = f
  <2> HIDE DEF f
  <2>1. CASE grants
    <3>1. s = [f EXCEPT !.votedFor = m.from]
      BY <2>1
    <3>2. f.votedFor \in {None, m.from} /\ m.term = f.term /\ UpToDate(m, f.log)
      BY <2>1
    <3> HIDE DEF s, grants
    <3>3. s \in State /\ SameData(s, f) /\ s.term = f.term /\ s.role = f.role /\ s.votedFor = m.from
      BY <1>2, <1>4, <3>1 DEF State, SameData
    <3> QED
      BY <3>2, <3>3, <2>1
  <2>2. CASE ~grants
    <3>1. s = f
      BY <2>2
    <3> HIDE DEF s, grants
    <3> QED
      BY <2>2, <3>1, <1>4 DEF SameData
  <2> QED
    BY <2>1, <2>2
<1>7. \A x \in net' : x \in net \/ (x = reply /\ votes[m.from].term = m.term)
  BY <1>3
<1>8. /\ reply.type = "voted" /\ reply.from = n /\ reply.to = m.from /\ reply.term = s.term
      /\ reply.granted = grants
  BY Zenon
<1> HIDE DEF s, grants, f, n, o, reply
<1>9. Turns(n, s) /\ faults' = faults
  <2>1. s.role # "down" /\ s.log = o.log
    BY <1>4, <1>6 DEF SameData
  <2>2. CASE grants \/ f # o
    <3>1. Save(n, s, IF grants THEN f ELSE o)
      BY <1>3, <2>2
    <3> QED
      BY <1>1, <1>2, <1>3, <1>6, <2>1, <3>1, Saved DEF o
  <2>3. CASE ~(grants \/ f # o)
    <3>1. s = o /\ Works /\ meta' = meta
      BY <1>3, <1>6, <2>3
    <3>2. node' = node
      BY <1>2, <1>3, <3>1 DEF o, BaseInv
    <3>3. StaysPut
      BY <1>3, <3>1, <3>2 DEF StaysPut
    <3> QED
      BY <1>1, <1>2, <3>1, <3>3, Remains DEF o, Works
  <2> QED
    BY <2>2, <2>3
<1>10. Votes(s, o, m)
  <2>1. SameData(s, o) /\ s.term >= o.term
    BY <1>4, <1>6 DEF SameData
  <2>2. ASSUME grants PROVE Grants(s, o, m)
    BY <1>4, <1>6, <2>2 DEF SameData, Grants
  <2>3. s.term > o.term => s.role = "follower" /\ (s.votedFor = None \/ Grants(s, o, m))
    BY <1>4, <1>6, <2>2
  <2>4. s.term = o.term => s.role = o.role /\ (s.votedFor = o.votedFor \/ (o.votedFor = None /\ Grants(s, o, m)))
    BY <1>4, <1>6, <2>2
  <2> QED
    BY <2>1, <2>3, <2>4 DEF Votes
<1>11. Running(m.from) \/ votes[m.from].term # m.term
  BY <1>2 DEF BaseInv, InSync, NoElection
<1>12. \A x \in net' : x \in net \/ VoteReply(x, n, s, m, o)
  <2> SUFFICES ASSUME NEW x \in net', x \notin net PROVE VoteReply(x, n, s, m, o)
    OBVIOUS
  <2>1. x = reply /\ votes[m.from].term = m.term
    BY <1>7
  <2>2. grants => s.votedFor = m.from /\ m.term = s.term /\ UpToDate(m, o.log)
    BY <1>4, <1>6 DEF SameData
  <2> QED
    BY <1>8, <1>11, <2>1, <2>2, Zenon DEF VoteReply, Grants
<1>13. \A x \in net' : x \in net \/ (MessageOK(x) /\ (x.type = "voted" => Running(x.to)))
  <2> SUFFICES ASSUME NEW x \in net', x \notin net PROVE MessageOK(x) /\ Running(x.to)
    OBVIOUS
  <2>1. x = reply /\ votes[m.from].term = m.term
    BY <1>7
  <2>2. x.type = "voted" /\ x.from = n /\ x.to = m.from /\ x.term = s.term /\ x.granted \in BOOLEAN
    BY <1>5, <1>8, <2>1, Zenon
  <2>3. s.term \in Nat
    BY <1>6 DEF State
  <2> QED
    BY <1>2, <1>11, <2>1, <2>2, <2>3 DEF MessageOK
<1>14. BaseInv'
  BY <1>2, <1>3, <1>9, <1>13, TurnsKeepsBase DEF BaseInv, history
<1> QED
  BY <1>1, <1>2, <1>3, <1>9, <1>10, <1>12, <1>14 DEF n, o

\* The votes there are when one more is counted.
Count(m) == IF m.granted THEN votes[m.to].from \cup {m.from} ELSE votes[m.to].from

\* A node counts a vote: it learns of a later term, it wins, or it goes on as it was.
VoteCounted(m, n, s) ==
  \/ /\ s.term > node[n].term /\ s.term = m.term /\ s.role = "follower" /\ elected' = elected
  \/ /\ node[n].role = "candidate" /\ s.role = "leader" /\ s.votedFor = node[n].votedFor
     /\ s.term = node[n].term /\ s.term = votes[n].term /\ Majority(Count(m))
     /\ elected' = elected \cup {<<s.term, n>>}
  \/ s = node[n] /\ elected' = elected

LEMMA CountVoteDoes ==
  ASSUME DisksWork, BaseInv, budget' = budget, NEW m, CountVote(m)
  PROVE  /\ BaseInv' /\ m \in net /\ m.type = "voted" /\ m.to \in Node /\ Running(m.to)
         /\ UNCHANGED <<calls, reads, snap, chosen, acked, used>>
         /\ net' \subseteq net
         /\ \E s : Turns(m.to, s) /\ SameData(s, node[m.to]) /\ VoteCounted(m, m.to, s)
         /\ \/ votes' = [votes EXCEPT ![m.to] = NoElection] /\ \A o \in net' : ~(o.type = "voted" /\ o.to = m.to)
            \/ votes' = [votes EXCEPT ![m.to].from = Count(m)]
<1> DEFINE n == m.to
           o == node[n]
           count == Count(m)
           behind == m.term > o.term
           wins == ~behind /\ Majority(count) /\ o.role = "candidate" /\ o.term = votes[n].term
           s == IF behind THEN Follower(o, m.term) ELSE IF wins THEN [o EXCEPT !.role = "leader"] ELSE o
<1>1. m \in net /\ m.type = "voted" /\ MessageOK(m) /\ Running(n)
  BY DEF CountVote, BaseInv
<1>2. n \in Node /\ m.from \in Node /\ m.term \in Nat /\ o \in State /\ o.term \in Nat /\ o.role # "down"
  BY <1>1 DEF MessageOK, BaseInv, State, Running
<1>3. /\ IF behind \/ Majority(count)
         THEN votes' = [votes EXCEPT ![n] = NoElection] /\ net' = net \ Replies(n, "voted")
         ELSE votes' = [votes EXCEPT ![n].from = count] /\ net' = net \ {m}
      /\ node' = [node EXCEPT ![n] = s]
      /\ IF behind THEN Save(n, Follower(o, m.term), o) ELSE Works /\ UNCHANGED meta
      /\ elected' = IF wins THEN elected \cup {<<o.term, n>>} ELSE elected
      /\ UNCHANGED <<calls, reads, file, snap, chosen, acked, used>>
  BY Zenon DEF CountVote, Count
<1>4. count \in SUBSET Node
  BY <1>2 DEF BaseInv, Count
<1>5. \/ votes' = [votes EXCEPT ![n] = NoElection] /\ net' = net \ Replies(n, "voted")
      \/ votes' = [votes EXCEPT ![n].from = count] /\ net' = net \ {m}
  BY <1>3
<1>6. \E x : Turns(n, x) /\ SameData(x, o) /\ VoteCounted(m, n, x) /\ faults' = faults
  <2>1. CASE behind
    <3>1. s = Follower(o, m.term)
      BY <2>1
    <3> HIDE DEF s
    <3>2. s \in State /\ SameData(s, o) /\ s.role = "follower" /\ s.term = m.term
      BY <1>2, <3>1, FollowerIs
    <3>3. Save(n, s, o) /\ node' = [node EXCEPT ![n] = s] /\ file' = file
      BY <1>3, <2>1, <3>1
    <3>4. Turns(n, s) /\ faults' = faults
      BY <1>1, <1>2, <3>2, <3>3, Saved DEF SameData
    <3>5. elected' = elected
      BY <1>3, <2>1
    <3> QED
      BY <2>1, <3>2, <3>4, <3>5 DEF VoteCounted
  <2>2. CASE ~behind /\ wins
    <3>1. s = [o EXCEPT !.role = "leader"]
      BY <2>2
    <3> HIDE DEF s, o
    <3>2. s \in State /\ SameData(s, o) /\ s.role = "leader" /\ s.term = o.term /\ s.votedFor = o.votedFor
      BY <1>2, <3>1 DEF State, SameData
    <3>3. node' = [node EXCEPT ![n] = s] /\ meta' = meta /\ file' = file /\ faults' = faults
      BY <1>3, <2>2 DEF Works
    <3>4. MetaOf(s) = meta[n] /\ Lines(s.log) = file[n]
      <4>1. MetaOf(s) = MetaOf(o) /\ s.log = o.log
        BY <3>2 DEF MetaOf, SameData
      <4> QED
        BY <1>1, <1>2, <4>1 DEF BaseInv, InSync, o
    <3>5. Turns(n, s)
      BY <1>2, <3>2, <3>3, <3>4 DEF Turns, BaseInv
    <3>6. elected' = elected \cup {<<s.term, n>>}
      BY <1>3, <2>2, <3>2
    <3> QED
      BY <2>2, <3>2, <3>3, <3>5, <3>6 DEF VoteCounted, o
  <2>3. CASE ~behind /\ ~wins
    <3>1. s = o
      BY <2>3
    <3>2. node' = node
      BY <1>2, <1>3, <3>1 DEF BaseInv
    <3>3. StaysPut /\ elected' = elected /\ faults' = faults
      BY <1>3, <2>3, <3>2 DEF StaysPut, Works
    <3>4. Turns(n, o)
      BY <1>1, <1>2, <3>3, Remains
    <3> QED
      BY <3>3, <3>4, Zenon DEF VoteCounted, SameData
  <2> QED
    BY <2>1, <2>2, <2>3
<1> HIDE DEF s, wins, behind, count
<1>7. net' \subseteq net
  BY <1>5
<1>8. votes' \in [Node -> [term : Nat, from : SUBSET Node]] /\ \A x \in Node \ {n} : votes'[x] = votes[x]
  <2>1. votes \in [Node -> [term : Nat, from : SUBSET Node]] /\ votes[n] \in [term : Nat, from : SUBSET Node]
    BY <1>2 DEF BaseInv
  <2>2. NoElection \in [term : Nat, from : SUBSET Node]
    BY DEF NoElection
  <2>3. [votes[n] EXCEPT !.from = count] \in [term : Nat, from : SUBSET Node]
    BY <1>4, <2>1
  <2>4. votes' = [votes EXCEPT ![n] = NoElection] \/ votes' = [votes EXCEPT ![n] = [votes[n] EXCEPT !.from = count]]
    BY <1>5
  <2> QED
    BY <2>1, <2>2, <2>3, <2>4
<1>9. BaseInv'
  BY <1>2, <1>3, <1>6, <1>7, <1>8, TurnsKeepsBase DEF BaseInv
<1>10. \/ votes' = [votes EXCEPT ![n] = NoElection] /\ \A x \in net' : ~(x.type = "voted" /\ x.to = n)
       \/ votes' = [votes EXCEPT ![n].from = count]
  BY <1>5 DEF Replies
<1> QED
  BY <1>1, <1>2, <1>3, <1>6, <1>7, <1>9, <1>10 DEF count

\* A machine goes on with the committed commands of its log.
GoesOn(new, old, log, commit) ==
  /\ Len(old) <= Len(new) /\ \A j \in 1..Len(old) : new[j] = old[j]
  /\ \A j \in Len(old) + 1..Len(new) : j <= commit /\ j <= Len(log) /\ new[j] = log[j].cmd

LEMMA AppliedIs ==
  ASSUME NEW s \in State, s.commit <= Len(s.log)
  PROVE  /\ Applied(s) \in State
         /\ Applied(s).role = s.role /\ Applied(s).term = s.term /\ Applied(s).votedFor = s.votedFor
         /\ Applied(s).log = s.log /\ Applied(s).commit = s.commit
         /\ GoesOn(Applied(s).applied, s.applied, s.log, s.commit)
         /\ s.commit <= Len(Applied(s).applied)
<1> DEFINE old == s.applied
           more == [i \in 1..s.commit - Len(old) |-> s.log[Len(old) + i].cmd]
           new == old \o more
<1>1. old \in Seq(Nat) /\ Len(old) \in Nat /\ s.commit \in Nat /\ s.log \in Seq(Entry)
  BY DEF State
<1>2. Applied(s) = [s EXCEPT !.applied = new]
  BY DEF Applied
<1>3. more \in Seq(Nat) /\ Len(more) = (IF s.commit > Len(old) THEN s.commit - Len(old) ELSE 0)
      /\ \A i \in 1..Len(more) : more[i] = s.log[Len(old) + i].cmd
  <2>1. \A i \in 1..s.commit - Len(old) : Len(old) + i \in 1..Len(s.log)
    BY <1>1
  <2>2. \A i \in 1..s.commit - Len(old) : s.log[Len(old) + i] \in Entry
    BY <1>1, <2>1
  <2>3. \A i \in 1..s.commit - Len(old) : s.log[Len(old) + i].cmd \in Nat
    BY <2>2 DEF Entry
  <2>4. CASE s.commit > Len(old)
    <3>1. s.commit - Len(old) \in Nat
      BY <1>1, <2>4
    <3> QED
      BY <2>3, <2>4, <3>1
  <2>5. CASE ~(s.commit > Len(old))
    <3>1. 1..s.commit - Len(old) = 1..0
      BY <1>1, <2>5
    <3>2. more = [i \in 1..0 |-> s.log[Len(old) + i].cmd]
      BY <3>1
    <3> HIDE DEF more
    <3>3. more = << >>
      BY <3>2
    <3> QED
      BY <2>5, <3>3
  <2> QED
    BY <2>4, <2>5
<1> HIDE DEF more
<1>4. new \in Seq(Nat) /\ Len(new) = Len(old) + Len(more)
  BY <1>1, <1>3, ConcatProperties
<1>5. \A j \in 1..Len(old) : new[j] = old[j]
  BY <1>1, <1>3, ConcatProperties
<1>6. \A j \in Len(old) + 1..Len(new) : j <= s.commit /\ j <= Len(s.log) /\ new[j] = s.log[j].cmd
  <2> SUFFICES ASSUME NEW j \in Len(old) + 1..Len(new)
               PROVE  j <= s.commit /\ j <= Len(s.log) /\ new[j] = s.log[j].cmd
    OBVIOUS
  <2>1. j \in 1..Len(old) + Len(more) /\ ~(j <= Len(old)) /\ j - Len(old) \in 1..Len(more)
    BY <1>1, <1>3, <1>4
  <2>2. new[j] = more[j - Len(old)]
    BY <1>1, <1>3, <2>1, ConcatProperties
  <2>3. more[j - Len(old)] = s.log[Len(old) + (j - Len(old))].cmd
    BY <1>3, <2>1
  <2>4. Len(old) + (j - Len(old)) = j
    BY <1>1
  <2>5. j <= s.commit
    <3>1. Len(more) = s.commit - Len(old)
      BY <1>1, <1>3, <2>1
    <3> QED
      BY <1>1, <2>1, <3>1
  <2>6. j <= Len(s.log)
    BY <1>1, <2>5
  <2> QED
    BY <2>2, <2>3, <2>4, <2>5, <2>6
<1> HIDE DEF new
<1>7. /\ Applied(s) \in State
      /\ Applied(s).role = s.role /\ Applied(s).term = s.term /\ Applied(s).votedFor = s.votedFor
      /\ Applied(s).log = s.log /\ Applied(s).commit = s.commit /\ Applied(s).applied = new
  BY <1>2, <1>4 DEF State
<1>8. s.commit <= Len(new) /\ Len(old) <= Len(new)
  BY <1>1, <1>3, <1>4
<1> QED
  BY <1>5, <1>6, <1>7, <1>8 DEF GoesOn

LEMMA OverwrittenType ==
  ASSUME NEW log \in Seq(Entry), NEW entries \in Seq(Entry), NEW prev \in Nat, prev <= Len(log)
  PROVE  Overwritten(log, prev, entries) \in Seq(Entry)
  BY OverwrittenIs

\* The answer to a request to append, to whoever waits for it.
AppendReply(o, m, s, success) ==
  /\ o.type = "appended" /\ o.from = m.to /\ o.to = m.from /\ o.term = s.term
  /\ o.success = success /\ o.call = m.call

LEMMA AnswerIs ==
  ASSUME BaseInv, NEW m \in net, m.type = "append", NEW s \in State, NEW success \in BOOLEAN,
         NEW conflict \in Nat, success \/ conflict # 0, Answer(m, s, success, conflict)
  PROVE  \A o \in net' : o \in net \/ (MessageOK(o) /\ AppendReply(o, m, s, success) /\ o.conflict = conflict)
<1> DEFINE reply == [type |-> "appended", from |-> m.to, to |-> m.from, term |-> s.term,
                     success |-> success, conflict |-> conflict, call |-> m.call]
<1>1. \A o \in net' : o \in net \/ o = reply
  BY Zenon DEF Answer
<1>2. AppendReply(reply, m, s, success) /\ reply.conflict = conflict
  BY Zenon DEF AppendReply
<1>3. m.to \in Node /\ m.from \in Node /\ m.to # m.from /\ CallIdOK(m.call) /\ s.term \in Nat
  BY DEF BaseInv, MessageOK, State
<1> HIDE DEF reply
<1>4. MessageOK(reply)
  BY <1>2, <1>3 DEF MessageOK, AppendReply
<1> QED
  BY <1>1, <1>2, <1>4

\* A node that hears from a leader of its term or a later one follows it.
Follows(s, o, m) ==
  /\ s \in State /\ s.role = "follower" /\ s.term = m.term /\ m.term >= o.term
  /\ m.term = o.term => s.votedFor = o.votedFor

\* It takes the entries, and commits what the leader has.
Accepts(s, o, m) ==
  /\ Follows(s, o, m) /\ Matches(o.log, m) /\ s.log = Overwritten(o.log, m.prev, m.entries)
  /\ GoesOn(s.applied, o.applied, s.log, s.commit)
  /\ \/ s.commit = o.commit /\ s.applied = o.applied
     \/ s.commit <= m.commit /\ s.commit <= Len(s.log) /\ (s.commit = m.commit \/ s.commit = Len(s.log))

LEMMA AcceptEntriesDoes ==
  ASSUME DisksWork, BaseInv, NEW m \in net, m.type = "append", Running(m.to), NEW f,
         Follows(f, node[m.to], m), SameData(f, node[m.to]), Matches(f.log, m), AcceptEntries(m, f)
  PROVE  /\ faults' = faults
         /\ \E s : /\ Turns(m.to, s) /\ Accepts(s, node[m.to], m)
                   /\ \A x \in net' : x \in net \/ (MessageOK(x) /\ AppendReply(x, m, s, TRUE))
<1> DEFINE n == m.to
           o == node[n]
           log == Overwritten(f.log, m.prev, m.entries)
           g == [f EXCEPT !.log = log]
           k == IF m.commit < Len(log) THEN m.commit ELSE Len(log)
           h == [g EXCEPT !.commit = k]
           s == IF m.commit > f.commit THEN Applied(h) ELSE g
<1>1. /\ n \in Node /\ o \in State /\ f \in State /\ f.log \in Seq(Entry) /\ f.log = o.log
      /\ m.prev \in Nat /\ m.entries \in Seq(Entry) /\ m.commit \in Nat /\ m.prev <= Len(f.log)
      /\ f.commit \in Nat /\ f.applied \in Seq(Nat)
  BY DEF BaseInv, MessageOK, Follows, State, Matches, SameData
<1>2. log \in Seq(Entry)
  BY <1>1, OverwrittenType
<1>3. \/ /\ node' = [node EXCEPT ![n] = s]
         /\ file' = IF log = f.log THEN file ELSE [file EXCEPT ![n] = Lines(log)]
         /\ IF f # node[n] \/ m.commit > f.commit THEN Save(n, s, f) ELSE Works /\ UNCHANGED meta
         /\ Answer(m, s, TRUE, 0)
      \/ Breaks
  BY DEF AcceptEntries
<1> HIDE DEF log
<1>4. g \in State /\ g.log = log /\ g.commit = f.commit /\ g.applied = f.applied
      /\ g.role = f.role /\ g.term = f.term /\ g.votedFor = f.votedFor
  BY <1>1, <1>2 DEF State
<1>5. k \in Nat /\ k <= m.commit /\ k <= Len(log) /\ (k = m.commit \/ k = Len(log))
  BY <1>1, <1>2
<1> HIDE DEF k, g
<1>6. h \in State /\ h.log = log /\ h.commit = k /\ h.applied = f.applied
      /\ h.role = f.role /\ h.term = f.term /\ h.votedFor = f.votedFor
  BY <1>4, <1>5 DEF State
<1> HIDE DEF h
<1>7. /\ s \in State /\ s.log = log /\ s.role = f.role /\ s.term = f.term /\ s.votedFor = f.votedFor
      /\ GoesOn(s.applied, f.applied, log, s.commit)
      /\ \/ s.commit = f.commit /\ s.applied = f.applied
         \/ s.commit <= m.commit /\ s.commit <= Len(s.log) /\ (s.commit = m.commit \/ s.commit = Len(s.log))
      /\ ~(m.commit > f.commit) => s = g
  <2>1. CASE m.commit > f.commit
    <3>1. s = Applied(h)
      BY <2>1
    <3> HIDE DEF s
    <3> QED
      BY <1>5, <1>6, <2>1, <3>1, AppliedIs
  <2>2. CASE ~(m.commit > f.commit)
    <3>1. s = g
      BY <2>2
    <3> HIDE DEF s
    <3>2. GoesOn(f.applied, f.applied, log, f.commit)
      BY <1>1 DEF GoesOn
    <3> QED
      BY <1>4, <2>2, <3>1, <3>2
  <2> QED
    BY <2>1, <2>2
<1> HIDE DEF s
<1>8. /\ node' = [node EXCEPT ![n] = s]
      /\ file' = IF log = f.log THEN file ELSE [file EXCEPT ![n] = Lines(log)]
      /\ IF f # o \/ m.commit > f.commit THEN Save(n, s, f) ELSE Works /\ UNCHANGED meta
      /\ Answer(m, s, TRUE, 0)
  BY <1>3, NothingBreaks
<1>9. meta[n] = MetaOf(o) /\ file[n] = Lines(o.log)
  BY <1>1 DEF BaseInv, InSync
<1>10. file' = [file EXCEPT ![n] = Lines(s.log)]
  BY <1>1, <1>7, <1>8, <1>9 DEF BaseInv
<1>11. meta' = [meta EXCEPT ![n] = MetaOf(s)] /\ faults' = faults
  <2>1. CASE f # o \/ m.commit > f.commit
    BY <1>8, <2>1, NothingBreaks DEF Save, Works
  <2>2. CASE ~(f # o \/ m.commit > f.commit)
    <3>1. MetaOf(s) = meta[n]
      BY <1>4, <1>7, <1>9, <2>2 DEF MetaOf
    <3> QED
      BY <1>1, <1>8, <2>2, <3>1 DEF BaseInv, Works
  <2> QED
    BY <2>1, <2>2
<1>12. Turns(n, s)
  BY <1>7, <1>8, <1>10, <1>11 DEF Turns, Follows
<1>13. Accepts(s, o, m)
  BY <1>1, <1>7 DEF Accepts, Follows, SameData, log
<1>14. \A x \in net' : x \in net \/ (MessageOK(x) /\ AppendReply(x, m, s, TRUE))
  BY <1>7, <1>8, AnswerIs
<1> QED
  BY <1>11, <1>12, <1>13, <1>14

LEMMA HandleAppendEntriesDoes ==
  ASSUME DisksWork, BaseInv, budget' = budget, NEW m, HandleAppendEntries(m)
  PROVE  /\ BaseInv' /\ m \in net /\ m.type = "append" /\ m.to \in Node /\ Running(m.to)
         /\ UNCHANGED <<votes, calls, reads, snap, history, used>>
         /\ \E s : /\ Turns(m.to, s)
                   /\ \/ /\ m.term < node[m.to].term /\ s = node[m.to]
                         /\ \A x \in net' : x \in net \/ AppendReply(x, m, s, FALSE)
                      \/ /\ Follows(s, node[m.to], m) /\ SameData(s, node[m.to])
                         /\ \A x \in net' : x \in net \/ (AppendReply(x, m, s, FALSE) /\ x.conflict <= m.prev)
                      \/ /\ Accepts(s, node[m.to], m)
                         /\ \A x \in net' : x \in net \/ AppendReply(x, m, s, TRUE)
<1> DEFINE n == m.to
           o == node[n]
           f == IF m.term > o.term \/ o.role # "follower" THEN Follower(o, m.term) ELSE o
<1>1. m \in net /\ m.type = "append" /\ Running(n) /\ MessageOK(m)
  BY DEF HandleAppendEntries, BaseInv
<1>2. /\ n \in Node /\ o \in State /\ o.term \in Nat /\ m.term \in Nat /\ o.role # "down"
      /\ o.log \in Seq(Entry) /\ Len(o.log) \in Nat /\ m.prev \in Nat
  <2>1. n \in Node /\ m.term \in Nat /\ m.prev \in Nat
    BY <1>1 DEF MessageOK
  <2>2. o \in State /\ o.role # "down"
    BY <1>1, <2>1 DEF BaseInv, Running
  <2>3. o.term \in Nat /\ o.log \in Seq(Entry)
    BY <2>2 DEF State
  <2> QED
    BY <2>1, <2>2, <2>3, LenProperties
<1>3. UNCHANGED <<votes, calls, reads, snap, history, used>>
  BY DEF HandleAppendEntries
<1>4. \/ /\ m.term < o.term
         /\ Answer(m, o, FALSE, Len(o.log) + 1)
         /\ Works /\ UNCHANGED <<node, file, meta>>
      \/ /\ m.term >= o.term /\ ~Matches(f.log, m)
         /\ node' = [node EXCEPT ![n] = f]
         /\ IF f = o THEN Works /\ UNCHANGED meta ELSE Save(n, f, o)
         /\ Answer(m, f, FALSE, ConflictIndex(f.log, m.prev))
         /\ UNCHANGED file
      \/ m.term >= o.term /\ Matches(f.log, m) /\ AcceptEntries(m, f)
  BY DEF HandleAppendEntries
<1>5. ASSUME m.term >= o.term
      PROVE  Follows(f, o, m) /\ SameData(f, o)
  <2>1. CASE m.term > o.term \/ o.role # "follower"
    <3>1. f = Follower(o, m.term)
      BY <2>1
    <3> HIDE DEF f
    <3> QED
      BY <1>2, <1>5, <3>1, FollowerIs DEF Follows
  <2>2. CASE ~(m.term > o.term \/ o.role # "follower")
    <3>1. f = o
      BY <2>2
    <3> HIDE DEF f
    <3> QED
      BY <1>2, <1>5, <2>2, <3>1 DEF Follows, SameData
  <2> QED
    BY <2>1, <2>2
<1> HIDE DEF f
<1>6. CASE m.term < o.term /\ Answer(m, o, FALSE, Len(o.log) + 1) /\ Works /\ UNCHANGED <<node, file, meta>>
  <2>1. Turns(n, o)
    BY <1>1, <1>2, <1>6, Remains DEF StaysPut
  <2>2. \A x \in net' : x \in net \/ (MessageOK(x) /\ AppendReply(x, m, o, FALSE))
    <3> DEFINE c == Len(o.log) + 1
    <3>1. c \in Nat /\ c # 0
      BY <1>2
    <3>2. Answer(m, o, FALSE, c)
      BY <1>6
    <3> HIDE DEF c
    <3>3. \A x \in net' : x \in net \/ (MessageOK(x) /\ AppendReply(x, m, o, FALSE) /\ x.conflict = c)
      <4>1. m \in net /\ m.type = "append" /\ o \in State /\ FALSE \in BOOLEAN
        BY <1>1, <1>2
      <4> HIDE DEF o
      <4> QED
        BY <4>1, <3>1, <3>2, AnswerIs
    <3> QED
      BY <3>3, Zenon
  <2>3. BaseInv'
    <3>1. faults' = faults
      BY <1>6 DEF Works
    <3>2. \A x \in net' : x \in net \/ (MessageOK(x) /\ (x.type = "voted" => Running(x.to)))
      BY <2>2 DEF AppendReply
    <3> QED
      BY <1>2, <1>3, <2>1, <3>1, <3>2, TurnsKeepsBase DEF BaseInv, history
  <2> QED
    BY <1>1, <1>2, <1>3, <1>6, <2>1, <2>2, <2>3
<1>7. CASE /\ m.term >= o.term /\ ~Matches(f.log, m)
           /\ node' = [node EXCEPT ![n] = f]
           /\ IF f = o THEN Works /\ UNCHANGED meta ELSE Save(n, f, o)
           /\ Answer(m, f, FALSE, ConflictIndex(f.log, m.prev))
           /\ UNCHANGED file
  <2>1. Follows(f, o, m) /\ SameData(f, o) /\ f \in State /\ f.role # "down" /\ f.log = o.log
    BY <1>5, <1>7 DEF Follows, SameData
  <2>2. Turns(n, f) /\ faults' = faults
    <3>1. CASE f = o
      <4>1. node' = node
        BY <1>2, <1>7, <3>1 DEF BaseInv
      <4> QED
        BY <1>1, <1>2, <1>7, <3>1, <4>1, Remains DEF StaysPut, Works
    <3>2. CASE f # o
      BY <1>1, <1>2, <1>7, <2>1, <3>2, Saved
    <3> QED
      BY <3>1, <3>2
  <2>3. m.prev # 0
    <3>1. m.prev = 0 => m.prevTerm = 0
      BY <1>1 DEF MessageOK
    <3> QED
      BY <1>2, <1>7, <2>1, <3>1 DEF Matches, TermAt
  <2>4. ConflictIndex(f.log, m.prev) \in 1..m.prev
    BY <1>2, <2>1, <2>3, ConflictIndexIs
  <2>5. \A x \in net' : x \in net \/ (MessageOK(x) /\ AppendReply(x, m, f, FALSE) /\ x.conflict <= m.prev)
    <3>1. ConflictIndex(f.log, m.prev) \in Nat /\ ConflictIndex(f.log, m.prev) # 0
      BY <1>2, <2>4
    <3>2. \A x \in net' : x \in net \/ (MessageOK(x) /\ AppendReply(x, m, f, FALSE) /\ x.conflict = ConflictIndex(f.log, m.prev))
      BY <1>1, <1>7, <2>1, <3>1, AnswerIs
    <3>3. ConflictIndex(f.log, m.prev) <= m.prev
      BY <1>2, <2>4
    <3> QED
      BY <3>2, <3>3, Zenon
  <2>6. BaseInv'
    <3>1. \A x \in net' : x \in net \/ (MessageOK(x) /\ (x.type = "voted" => Running(x.to)))
      BY <2>5 DEF AppendReply
    <3> QED
      BY <1>2, <1>3, <2>2, <3>1, TurnsKeepsBase DEF BaseInv, history
  <2> QED
    BY <1>1, <1>2, <1>3, <2>1, <2>2, <2>5, <2>6
<1>8. CASE m.term >= o.term /\ Matches(f.log, m) /\ AcceptEntries(m, f)
  <2>1. faults' = faults /\ \E s : /\ Turns(n, s) /\ Accepts(s, o, m)
                                   /\ \A x \in net' : x \in net \/ (MessageOK(x) /\ AppendReply(x, m, s, TRUE))
    BY <1>1, <1>5, <1>8, AcceptEntriesDoes
  <2>2. BaseInv'
    <3>1. \A x \in net' : x \in net \/ (MessageOK(x) /\ (x.type = "voted" => Running(x.to)))
      BY <2>1 DEF AppendReply
    <3> QED
      BY <1>2, <1>3, <2>1, <3>1, TurnsKeepsBase DEF BaseInv, history
  <2> QED
    BY <1>1, <1>2, <1>3, <2>1, <2>2
<1> QED
  BY <1>4, <1>6, <1>7, <1>8

\* A request of a leader, from what it has now.
IsRequest(o) ==
  /\ o.type = "append" /\ MessageOK(o) /\ Leads(o.from)
  /\ o.term = node[o.from].term /\ o.commit = node[o.from].commit
  /\ o.prev <= Len(node[o.from].log) =>
       /\ o.prev + Len(o.entries) = Len(node[o.from].log)
       /\ o.prevTerm = TermAt(node[o.from].log, o.prev)
       /\ \A i \in 1..Len(o.entries) : o.entries[i] = node[o.from].log[o.prev + i]

LEMMA AppendRequestIs ==
  ASSUME BaseInv, NEW n \in Node, Leads(n), NEW p \in Peers(n), NEW next \in Nat, next # 0,
         NEW call, CallIdOK(call), NEW o, o = AppendRequest(n, p, node[n], next, call)
  PROVE  IsRequest(o) /\ o.from = n /\ o.prev = next - 1 /\ o.call = call
<1> DEFINE s == node[n]
<1>1. s \in State /\ s.log \in Seq(Entry) /\ Len(s.log) \in Nat /\ s.term \in Nat /\ s.commit \in Nat
  BY DEF BaseInv, State
<1>2. /\ o.type = "append" /\ o.from = n /\ o.to = p /\ o.term = s.term /\ o.prev = next - 1
      /\ o.prevTerm = TermAt(s.log, next - 1) /\ o.entries = SubSeq(s.log, next, Len(s.log))
      /\ o.commit = s.commit /\ o.call = call
  BY DEF AppendRequest
<1> HIDE DEF s
<1>3. o.prev \in Nat
  BY <1>2
<1>4. \A i \in next..Len(s.log) : s.log[i] \in Entry
  BY <1>1
<1>5. /\ o.entries \in Seq(Entry)
      /\ Len(o.entries) = IF next <= Len(s.log) THEN Len(s.log) - next + 1 ELSE 0
      /\ \A i \in 1..Len(s.log) - next + 1 : o.entries[i] = s.log[next + i - 1]
  BY <1>1, <1>2, <1>4, SubSeqProperties
<1>6. ASSUME o.prev <= Len(s.log)
      PROVE  /\ o.prev + Len(o.entries) = Len(s.log)
             /\ \A i \in 1..Len(o.entries) : o.entries[i] = s.log[o.prev + i]
  <2>1. Len(o.entries) = Len(s.log) - next + 1
    BY <1>1, <1>2, <1>5, <1>6
  <2>2. \A i \in 1..Len(o.entries) : next + i - 1 = o.prev + i
    BY <1>2, <2>1, <1>1
  <2>3. \A i \in 1..Len(o.entries) : o.entries[i] = s.log[next + i - 1]
    BY <1>5, <2>1
  <2>4. \A i \in 1..Len(o.entries) : o.entries[i] = s.log[o.prev + i]
    BY <2>2, <2>3
  <2>5. o.prev + Len(o.entries) = Len(s.log)
    BY <1>1, <1>2, <2>1
  <2> QED
    BY <2>4, <2>5
<1>7. o.prev = 0 => o.prevTerm = 0
  BY <1>2 DEF TermAt
<1>8. MessageOK(o)
  BY <1>1, <1>2, <1>3, <1>5, <1>7 DEF MessageOK, Peers
<1> QED
  BY <1>2, <1>6, <1>8 DEF IsRequest, s

\* The id of a call of Propose, and of a read.
LEMMA CallIds ==
  /\ \A c \in Call : CallIdOK(c.id) /\ c.id.k = "write" /\ c.id.index \in Nat \ {0} /\ c.id.term \in Nat
  /\ \A nr \in Nat : CallIdOK([k |-> "read", nr |-> nr])
  /\ CallIdOK([k |-> "beat"])
<1>1. \A c \in Call : CallIdOK(c.id) /\ c.id.k = "write" /\ c.id.index \in Nat \ {0} /\ c.id.term \in Nat
  BY DEF Call, CallIdOK, WriteId
<1>2. \A nr \in Nat : CallIdOK([k |-> "read", nr |-> nr])
  BY DEF CallIdOK, ReadId
<1>3. CallIdOK([k |-> "beat"])
  BY DEF CallIdOK
<1> QED
  BY <1>1, <1>2, <1>3

LEMMA LinesAppend ==
  ASSUME NEW log \in Seq(Entry), NEW e \in Entry, NEW line,
         line = [index |-> Len(log) + 1, term |-> e.term, cmd |-> e.cmd]
  PROVE  Append(Lines(log), line) = Lines(Append(log, e))
<1>1. Len(log) \in Nat /\ line \in Line
  BY DEF Entry, Line
<1>2. Lines(log) \in Seq(Line) /\ Len(Lines(log)) = Len(log)
  BY LinesReadBack
<1>3. Append(log, e) \in Seq(Entry) /\ Len(Append(log, e)) = Len(log) + 1
  BY <1>1
<1>4. Lines(Append(log, e)) \in Seq(Line) /\ Len(Lines(Append(log, e))) = Len(log) + 1
  BY <1>3, LinesReadBack
<1>5. Append(Lines(log), line) \in Seq(Line) /\ Len(Append(Lines(log), line)) = Len(log) + 1
  BY <1>1, <1>2
<1>6. ASSUME NEW i \in 1..Len(log) + 1
      PROVE  Append(Lines(log), line)[i] = Lines(Append(log, e))[i]
  <2>1. Lines(Append(log, e))[i] = [index |-> i, term |-> Append(log, e)[i].term, cmd |-> Append(log, e)[i].cmd]
    BY <1>3 DEF Lines
  <2>2. CASE i = Len(log) + 1
    <3>1. Append(log, e)[i] = e /\ Append(Lines(log), line)[i] = line
      BY <1>1, <1>2, <2>2
    <3> QED
      BY <2>1, <2>2, <3>1
  <2>3. CASE i \in 1..Len(log)
    <3>1. Append(log, e)[i] = log[i] /\ Append(Lines(log), line)[i] = Lines(log)[i]
      BY <1>1, <1>2, <2>3, AppendProperties
    <3>2. Lines(log)[i] = [index |-> i, term |-> log[i].term, cmd |-> log[i].cmd]
      BY <2>3 DEF Lines
    <3> QED
      BY <2>1, <3>1, <3>2
  <2>4. i = Len(log) + 1 \/ i \in 1..Len(log)
    BY <1>1
  <2> QED
    BY <2>2, <2>3, <2>4, Zenon
<1> QED
  BY <1>4, <1>5, <1>6, SeqEqual

LEMMA ProposeDoes ==
  ASSUME DisksWork, BaseInv, budget' = budget, used.writes \in Nat, NEW n \in Node, Propose(n)
  PROVE  /\ BaseInv' /\ Leads(n) /\ Running(n) /\ used' = [used EXCEPT !.writes = @ + 1]
         /\ used.writes < budget.writes
         /\ UNCHANGED <<votes, reads, net, snap, history>>
         /\ \E s, c : /\ Turns(n, s) /\ s.role = node[n].role /\ s.term = node[n].term
                      /\ s.votedFor = node[n].votedFor /\ s.commit = node[n].commit
                      /\ s.applied = node[n].applied
                      /\ s.log = Append(node[n].log, [term |-> node[n].term, cmd |-> used.writes + 1])
                      /\ calls' = calls \cup {c}
                      /\ c \in Call /\ c.node = n /\ c.acks = {n} /\ c.todo = Peers(n)
                      /\ c.id.index = Len(s.log) /\ c.id.term = s.term
<1> DEFINE o == node[n]
           cmd == used.writes + 1
           e == [term |-> o.term, cmd |-> cmd]
           s == [o EXCEPT !.log = Append(@, e)]
           line == [index |-> Len(s.log), term |-> s.term, cmd |-> cmd]
           c == [node |-> n, id |-> [k |-> "write", index |-> Len(s.log), term |-> s.term],
                 todo |-> Peers(n), acks |-> {n}]
<1>1. Leads(n) /\ Running(n) /\ o \in State /\ o.log \in Seq(Entry) /\ Len(o.log) \in Nat /\ o.term \in Nat
  BY DEF Propose, Running, BaseInv, Leads, State
<1>2. e \in Entry /\ e.term = o.term /\ e.cmd = cmd
  BY <1>1 DEF Entry
<1>3. /\ used' = [used EXCEPT !.writes = @ + 1] /\ used.writes < budget.writes
      /\ UNCHANGED <<votes, reads, net, meta, snap, history>>
      /\ \/ /\ file' = [file EXCEPT ![n] = Append(@, line)]
            /\ node' = [node EXCEPT ![n] = s]
            /\ calls' = calls \cup {c}
            /\ Works
         \/ Breaks
  BY DEF Propose, Use
<1> HIDE DEF e
<1>4. s \in State /\ s.role = o.role /\ s.term = o.term /\ s.votedFor = o.votedFor
      /\ s.commit = o.commit /\ s.applied = o.applied /\ s.log = Append(o.log, e)
      /\ Len(s.log) = Len(o.log) + 1
  <2>1. Append(o.log, e) \in Seq(Entry) /\ Len(Append(o.log, e)) = Len(o.log) + 1
    BY <1>1, <1>2
  <2> HIDE DEF o
  <2> QED
    BY <1>1, <2>1 DEF State
<1> HIDE DEF s
<1>5. /\ file' = [file EXCEPT ![n] = Append(@, line)]
      /\ node' = [node EXCEPT ![n] = s]
      /\ calls' = calls \cup {c}
      /\ faults' = faults
  BY <1>3, NothingBreaks DEF Works
<1>6. meta[n] = MetaOf(o) /\ file[n] = Lines(o.log)
  BY <1>1 DEF BaseInv, InSync
<1>7. Append(file[n], line) = Lines(s.log)
  <2>1. line = [index |-> Len(o.log) + 1, term |-> e.term, cmd |-> e.cmd]
    BY <1>2, <1>4
  <2> HIDE DEF line
  <2> QED
    BY <1>1, <1>2, <1>4, <1>6, <2>1, LinesAppend
<1>8. Turns(n, s)
  <2>1. file' = [file EXCEPT ![n] = Lines(s.log)]
    BY <1>5, <1>7
  <2>2. MetaOf(s) = meta[n]
    BY <1>4, <1>6 DEF MetaOf
  <2>3. meta' = [meta EXCEPT ![n] = MetaOf(s)]
    BY <1>3, <2>2 DEF BaseInv
  <2>4. s.role # "down"
    BY <1>1, <1>4 DEF Running
  <2> QED
    BY <1>4, <1>5, <2>1, <2>3, <2>4 DEF Turns
<1>9. c \in Call /\ c.node = n /\ c.acks = {n} /\ c.id.index = Len(s.log) /\ c.id.term = s.term /\ c.todo = Peers(n)
  <2>1. Len(s.log) \in Nat \ {0} /\ s.term \in Nat
    BY <1>1, <1>4
  <2> QED
    BY <2>1 DEF Call, WriteId, Peers
<1> HIDE DEF c
<1>10. BaseInv'
  <2>1. calls' \subseteq Call
        /\ \A d \in calls' : (d.node = n \/ Running(d.node)) /\ d.todo \subseteq Peers(d.node)
    BY <1>5, <1>9 DEF BaseInv
  <2> QED
    BY <1>3, <1>5, <1>8, <2>1, TurnsKeepsBase DEF BaseInv, history
<1> QED
  BY <1>1, <1>3, <1>4, <1>5, <1>8, <1>9, <1>10 DEF e

LEMMA ReplicateDoes ==
  ASSUME DisksWork, BaseInv, budget' = budget, NEW c \in calls, NEW p \in c.todo, Replicate(c, p)
  PROVE  /\ BaseInv' /\ StaysPut /\ UNCHANGED <<votes, reads, durable, history, used>>
         /\ c \in Call /\ Leads(c.node) /\ node[c.node].term = c.id.term
         /\ \A x \in net' : \/ x \in net
                            \/ /\ IsRequest(x) /\ x.from = c.node /\ x.call = c.id
                               /\ x.prev < Len(node[c.node].log)
         /\ \A d \in calls' : \E b \in calls : d.node = b.node /\ d.id = b.id /\ d.acks = b.acks
<1> DEFINE s == node[c.node]
<1>1. c \in Call /\ c.node \in Node /\ Running(c.node) /\ s \in State /\ c.id.index \in Nat \ {0} /\ Len(s.log) \in Nat
  <2>1. c \in Call /\ Running(c.node)
    BY DEF BaseInv
  <2>2. c.node \in Node /\ c.id.index \in Nat \ {0}
    BY <2>1, CallIds DEF Call
  <2>3. s \in State
    BY <2>2 DEF BaseInv
  <2>4. Len(s.log) \in Nat
    BY <2>3 DEF State
  <2> QED
    BY <2>1, <2>2, <2>3, <2>4
<1>2. Leads(c.node) /\ s.term = c.id.term /\ p \in Peers(c.node)
  <2>1. p \in Peers(c.node)
    BY DEF BaseInv
  <2> QED
    BY <2>1 DEF Replicate, Leads
<1>3. PICK next \in c.id.index..Len(s.log) : net' = net \cup {AppendRequest(c.node, p, s, next, c.id)}
  BY DEF Replicate
<1>4. /\ calls' = (calls \ {c}) \cup {[c EXCEPT !.todo = @ \ {p}]}
      /\ UNCHANGED <<node, votes, reads, durable, history, used>>
  BY DEF Replicate
<1> DEFINE d == [c EXCEPT !.todo = @ \ {p}]
           o == AppendRequest(c.node, p, s, next, c.id)
<1>5. d \in Call /\ d.node = c.node /\ d.id = c.id /\ d.acks = c.acks
  BY <1>1 DEF Call
<1>6. next \in Nat /\ next # 0 /\ next - 1 < Len(s.log)
  BY <1>1
<1>7. IsRequest(o) /\ o.from = c.node /\ o.call = c.id /\ o.prev = next - 1
  BY <1>1, <1>2, <1>6, CallIds, AppendRequestIs
<1> HIDE DEF d, o
<1>8. \A x \in net' : x \in net \/ x = o
  BY <1>3 DEF o
<1>9. StaysPut
  BY <1>4 DEF StaysPut, durable
<1>10. \A b \in calls' : b = d \/ b \in calls
  BY <1>4 DEF d
<1>11. BaseInv'
  <2>1. calls' \subseteq Call /\ \A b \in calls' : Running(b.node) /\ b.todo \subseteq Peers(b.node)
    <3>1. d.todo \subseteq c.todo
      BY <1>1 DEF Call, d
    <3> QED
      BY <1>1, <1>5, <1>10, <3>1 DEF BaseInv
  <2>2. \A x \in net' : x \in net \/ (MessageOK(x) /\ (x.type = "voted" => Running(x.to)))
    BY <1>7, <1>8 DEF IsRequest
  <2> QED
    BY <1>4, <1>9, <2>1, <2>2, StaysPutKeepsBase DEF BaseInv, durable, history
<1> QED
  BY <1>1, <1>2, <1>4, <1>5, <1>6, <1>7, <1>8, <1>9, <1>10, <1>11

LEMMA BeatIs ==
  ASSUME BaseInv, NEW n \in Node, Leads(n), NEW p \in Peers(n), NEW call, CallIdOK(call),
         NEW o, o = Beat(n, p, call)
  PROVE  IsRequest(o) /\ o.from = n /\ o.prev = Len(node[n].log) /\ o.call = call
<1> DEFINE next == Len(node[n].log) + 1
<1>1. Len(node[n].log) \in Nat
  BY DEF BaseInv, State
<1>2. next \in Nat /\ next # 0 /\ next - 1 = Len(node[n].log)
  BY <1>1
<1>3. o = AppendRequest(n, p, node[n], next, call)
  BY DEF Beat
<1> HIDE DEF next
<1> QED
  BY <1>2, <1>3, AppendRequestIs

LEMMA HeartbeatDoes ==
  ASSUME DisksWork, BaseInv, budget' = budget, NEW n \in Node, Heartbeat(n)
  PROVE  /\ BaseInv' /\ StaysPut /\ UNCHANGED <<volatile, durable, history>>
         /\ used' = [used EXCEPT !.beats = @ + 1]
         /\ \A x \in net' : \/ x \in net
                            \/ IsRequest(x) /\ x.from = n /\ x.call.k = "beat" /\ x.prev = Len(node[n].log)
<1>1. Leads(n) /\ UNCHANGED <<volatile, durable, history>> /\ used' = [used EXCEPT !.beats = @ + 1]
  BY DEF Heartbeat, Leads, Use
<1>2. PICK p \in Peers(n) : net' = net \cup {Beat(n, p, [k |-> "beat"])}
  BY DEF Heartbeat
<1> DEFINE o == Beat(n, p, [k |-> "beat"])
<1>3. \A x \in net' : x \in net \/ x = o
  BY <1>2
<1>4. IsRequest(o) /\ o.from = n /\ o.prev = Len(node[n].log) /\ o.call = [k |-> "beat"]
  BY <1>1, BeatIs, CallIds
<1>5. o.call.k = "beat"
  BY <1>4
<1> HIDE DEF o
<1>6. StaysPut
  BY <1>1 DEF StaysPut, durable, volatile
<1>7. BaseInv'
  <2>1. \A x \in net' : x \in net \/ (MessageOK(x) /\ (x.type = "voted" => Running(x.to)))
    BY <1>3, <1>4 DEF IsRequest
  <2> QED
    BY <1>1, <1>6, <2>1, StaysPutKeepsBase DEF BaseInv, durable, volatile, history
<1> QED
  BY <1>1, <1>3, <1>4, <1>5, <1>6, <1>7

LEMMA StartReadDoes ==
  ASSUME DisksWork, BaseInv, budget' = budget, used.reads \in Nat, NEW n \in Node, StartRead(n)
  PROVE  /\ BaseInv' /\ StaysPut /\ Leads(n)
         /\ UNCHANGED <<node, votes, calls, durable, history>>
         /\ used' = [used EXCEPT !.reads = @ + 1]
         /\ \A x \in net' : \/ x \in net
                            \/ /\ IsRequest(x) /\ x.from = n /\ x.call = [k |-> "read", nr |-> used.reads]
                               /\ x.prev = Len(node[n].log)
         /\ \E r \in Read : /\ reads' = reads \cup {r}
                            /\ r.node = n /\ r.id = [k |-> "read", nr |-> used.reads] /\ r.acks = {n}
                            /\ r.must = acked /\ ~r.served /\ (r.own => InOffice(node[n]))
<1> DEFINE id == [k |-> "read", nr |-> used.reads]
           own == InOffice(node[n])
           r == [node |-> n, id |-> id, acks |-> {n}, must |-> acked,
                 own |-> own, served |-> FALSE, got |-> <<>>]
<1>1. /\ Leads(n) /\ UNCHANGED <<node, votes, calls, durable, history>> /\ used' = [used EXCEPT !.reads = @ + 1]
      /\ net' = net \cup {Beat(n, p, id) : p \in Peers(n)}
      /\ reads' = reads \cup {r}
  BY DEF StartRead, Leads, Use
<1>2. own \in BOOLEAN
  BY Zenon DEF InOffice
<1>3. id \in ReadId /\ CallIdOK(id)
  BY CallIds DEF ReadId
<1> HIDE DEF own, id
<1>4. r \in Read /\ r.node = n /\ r.id = id /\ r.acks = {n} /\ r.must = acked /\ r.own = own
  <2>1. acked \subseteq Nat
    BY DEF BaseInv
  <2> QED
    BY <1>2, <1>3, <2>1 DEF Read
<1>5. ~r.served
  OBVIOUS
<1> HIDE DEF r
<1>6. \A x \in net' : x \in net \/ (IsRequest(x) /\ x.from = n /\ x.call = id /\ x.prev = Len(node[n].log))
  BY <1>1, <1>3, BeatIs
<1>7. StaysPut
  BY <1>1 DEF StaysPut, durable
<1>8. BaseInv'
  <2>1. \A x \in net' : x \in net \/ (MessageOK(x) /\ (x.type = "voted" => Running(x.to)))
    BY <1>6 DEF IsRequest
  <2>2. reads' \subseteq Read /\ acked' \subseteq Nat
    BY <1>1, <1>4 DEF BaseInv, history
  <2> QED
    BY <1>1, <1>7, <2>1, <2>2, StaysPutKeepsBase DEF BaseInv, durable, history
<1>9. r.own => InOffice(node[n])
  BY <1>4, Zenon DEF own
<1> QED
  BY <1>1, <1>4, <1>5, <1>6, <1>7, <1>8, <1>9 DEF id

\* What the leader's log has up to an index is committed, unless more is already.
Commits(log, index) ==
  LET now == SubSeq(Commands(log), 1, index)
  IN  chosen' = IF IsPrefix(now, chosen) THEN chosen ELSE now

\* A leader in office commits what one of its calls waited for.
Decides(s, o, c) ==
  /\ o.role = "leader" /\ o.term = c.id.term
  /\ s.role = o.role /\ s.term = o.term /\ s.votedFor = o.votedFor /\ s.log = o.log
  /\ s.commit = c.id.index /\ s.commit <= Len(s.applied)
  /\ GoesOn(s.applied, o.applied, s.log, s.commit)
  /\ Commits(o.log, c.id.index) /\ acked' = acked \cup {o.log[c.id.index].cmd}

LEMMA FinishDoes ==
  ASSUME DisksWork, BaseInv, CallsInRange, NEW c \in calls, NEW rest, Finish(c, rest), file' = file
  PROVE  /\ calls' = calls \ {c} /\ net' \subseteq rest /\ faults' = faults /\ acked' \subseteq Nat
         /\ \E s : /\ Turns(c.node, s)
                   /\ \/ Decides(s, node[c.node], c)
                      \/ s = node[c.node] /\ UNCHANGED <<chosen, acked>>
<1> DEFINE n == c.node
           o == node[n]
           h == [o EXCEPT !.commit = c.id.index]
           s == Applied(h)
           leads == o.role = "leader" /\ o.term = c.id.term
<1>1. c \in Call /\ n \in Node /\ Running(n) /\ c.id.index \in Nat \ {0}
  <2>1. c \in Call /\ Running(n)
    BY DEF BaseInv
  <2> QED
    BY <2>1, CallIds DEF Call
<1>2. o \in State /\ acked \subseteq Nat
  BY <1>1 DEF BaseInv
<1>3. calls' = calls \ {c} /\ net' = {m \in rest : m.type = "appended" => m.to # n \/ m.call # c.id}
  BY DEF Finish
<1>4. CASE leads
  <2>1. c.id.index <= Len(o.log)
    BY <1>1, <1>4 DEF CallsInRange, Leads
  <2>2. h \in State /\ h.role = o.role /\ h.term = o.term /\ h.votedFor = o.votedFor /\ h.log = o.log
        /\ h.commit = c.id.index /\ h.applied = o.applied
    <3> HIDE DEF o
    <3> QED
      BY <1>1, <1>2 DEF State
  <2>3. /\ node' = [node EXCEPT ![n] = s] /\ Commits(o.log, c.id.index)
        /\ \/ /\ Works /\ meta' = [meta EXCEPT ![n] = MetaOf(s)]
              /\ acked' = acked \cup {o.log[c.id.index].cmd}
           \/ Breaks
    BY <1>4 DEF Finish, Commits
  <2> HIDE DEF h
  <2>4. /\ s \in State /\ s.role = h.role /\ s.term = h.term /\ s.votedFor = h.votedFor
        /\ s.log = h.log /\ s.commit = h.commit
        /\ GoesOn(s.applied, h.applied, h.log, h.commit) /\ h.commit <= Len(s.applied)
    BY <2>1, <2>2, AppliedIs
  <2> HIDE DEF s
  <2>5. meta' = [meta EXCEPT ![n] = MetaOf(s)] /\ acked' = acked \cup {o.log[c.id.index].cmd} /\ faults' = faults
    BY <2>3, NothingBreaks DEF Works
  <2>6. Turns(n, s)
    <3>1. file[n] = Lines(s.log)
      BY <1>1, <2>2, <2>4 DEF BaseInv, InSync
    <3>2. file' = [file EXCEPT ![n] = Lines(s.log)]
      BY <3>1 DEF BaseInv
    <3> QED
      BY <1>1, <2>2, <2>3, <2>4, <2>5, <3>2 DEF Turns, Running
  <2>7. Decides(s, o, c)
    BY <1>4, <2>2, <2>3, <2>4, <2>5 DEF Decides
  <2>8. acked' \subseteq Nat
    <3>1. o.log \in Seq(Entry) /\ c.id.index \in 1..Len(o.log)
      BY <1>1, <1>2, <2>1 DEF State
    <3>2. o.log[c.id.index] \in Entry
      BY <3>1
    <3> QED
      BY <1>2, <2>5, <3>2 DEF Entry
  <2> QED
    BY <1>3, <2>5, <2>6, <2>7, <2>8
<1>5. CASE ~leads
  <2>1. Works /\ UNCHANGED <<node, meta, chosen, acked>>
    BY <1>5 DEF Finish
  <2>2. Turns(n, o)
    BY <1>1, <2>1, Remains DEF StaysPut
  <2> QED
    BY <1>2, <1>3, <2>1, <2>2 DEF Works
<1> QED
  BY <1>4, <1>5

\* What a response to a write does.
Learns(m, s, o, c) ==
  \/ \* of a later term
     /\ m.term > o.term /\ s.term = m.term /\ s.role = "follower" /\ SameData(s, o)
     /\ calls' = calls /\ net' \subseteq net /\ UNCHANGED <<chosen, acked>>
  \/ \* one more node has the entry
     /\ s = o /\ m.success
     /\ \E d \in Call : /\ calls' = (calls \ {c}) \cup {d}
                        /\ d.node = c.node /\ d.id = c.id /\ d.acks = c.acks \cup {m.from}
     /\ net' \subseteq net /\ UNCHANGED <<chosen, acked>>
  \/ \* a majority has
     /\ m.success /\ Majority(c.acks \cup {m.from})
     /\ calls' = calls \ {c} /\ net' \subseteq net
     /\ Decides(s, o, c) \/ (s = o /\ UNCHANGED <<chosen, acked>>)
  \/ \* the node refused, and is asked again
     /\ s = o /\ ~m.success /\ m.term <= o.term /\ calls' = calls /\ UNCHANGED <<chosen, acked>>
     /\ \A x \in net' : \/ x \in net
                        \/ /\ o.role = "leader" /\ o.term = c.id.term
                           /\ IsRequest(x) /\ x.from = m.to /\ x.call = c.id /\ x.prev = m.conflict - 1

LEMMA ReplicatedDoes ==
  ASSUME DisksWork, BaseInv, CallsInRange, budget' = budget, NEW m, Replicated(m)
  PROVE  /\ BaseInv' /\ m \in net /\ m.type = "appended" /\ m.call.k = "write"
         /\ m.to \in Node /\ m.from \in Node /\ Running(m.to)
         /\ UNCHANGED <<votes, reads, snap, elected, used>>
         /\ \E c \in calls : /\ c \in Call /\ c.node = m.to /\ c.id = m.call
                             /\ \E s : Turns(m.to, s) /\ Learns(m, s, node[m.to], c)
<1> DEFINE n == m.to
           o == node[n]
<1>1. m \in net /\ m.type = "appended" /\ m.call.k = "write" /\ UNCHANGED <<votes, reads, file, snap, elected, used>>
  BY DEF Replicated
<1>2. MessageOK(m) /\ n \in Node /\ m.from \in Node /\ m.term \in Nat /\ m.from # n /\ m.success \in BOOLEAN
  BY <1>1 DEF BaseInv, MessageOK
<1>3. PICK c \in {d \in calls : d.node = m.to /\ d.id = m.call} :
        LET s == node[n]
            acks == c.acks \cup {m.from}
            rest == net \ {m}
        IN  \/ /\ m.term > s.term
               /\ node' = [node EXCEPT ![n] = Follower(s, m.term)]
               /\ Save(n, Follower(s, m.term), s)
               /\ net' = rest
               /\ UNCHANGED <<calls, chosen, acked>>
            \/ /\ m.term <= s.term /\ m.success /\ ~Majority(acks)
               /\ calls' = (calls \ {c}) \cup {[c EXCEPT !.acks = acks]}
               /\ net' = rest /\ Works
               /\ UNCHANGED <<node, meta, chosen, acked>>
            \/ m.term <= s.term /\ m.success /\ Majority(acks) /\ Finish(c, rest)
            \/ /\ m.term <= s.term /\ ~m.success
               /\ net' = rest \cup
                    IF s.role = "leader" /\ s.term = c.id.term
                    THEN {AppendRequest(n, m.from, s, m.conflict, c.id)} ELSE {}
               /\ Works /\ UNCHANGED <<node, meta, calls, chosen, acked>>
  BY Zenon DEF Replicated
<1>4. c \in calls /\ c \in Call /\ c.node = n /\ c.id = m.call /\ Running(n)
  BY DEF BaseInv
<1>5. o \in State /\ o.role # "down" /\ CallIdOK(c.id) /\ acked \subseteq Nat
  BY <1>2, <1>4, CallIds DEF BaseInv, Running
<1>6. CASE /\ m.term > o.term
           /\ node' = [node EXCEPT ![n] = Follower(o, m.term)]
           /\ Save(n, Follower(o, m.term), o)
           /\ net' = net \ {m}
           /\ UNCHANGED <<calls, chosen, acked>>
  <2> DEFINE s == Follower(o, m.term)
  <2>1. s \in State /\ SameData(s, o) /\ s.role = "follower" /\ s.term = m.term
    BY <1>2, <1>5, FollowerIs
  <2>2. node' = [node EXCEPT ![n] = s] /\ Save(n, s, o)
    BY <1>6
  <2> HIDE DEF s
  <2>3. Turns(n, s) /\ faults' = faults
    BY <1>1, <1>2, <1>4, <2>1, <2>2, Saved DEF SameData
  <2>4. Learns(m, s, o, c)
    BY <1>6, <2>1 DEF Learns
  <2>5. BaseInv'
    BY <1>1, <1>2, <1>6, <2>3, TurnsKeepsBase DEF BaseInv
  <2> QED
    BY <1>1, <1>2, <1>4, <2>3, <2>4, <2>5
<1>7. CASE /\ m.success
           /\ calls' = (calls \ {c}) \cup {[c EXCEPT !.acks = c.acks \cup {m.from}]}
           /\ net' = net \ {m} /\ Works
           /\ UNCHANGED <<node, meta, chosen, acked>>
  <2> DEFINE d == [c EXCEPT !.acks = c.acks \cup {m.from}]
  <2>1. d \in Call /\ d.node = c.node /\ d.id = c.id /\ d.acks = c.acks \cup {m.from} /\ d.todo = c.todo
    BY <1>2, <1>4 DEF Call
  <2>2. calls' = (calls \ {c}) \cup {d}
    BY <1>7
  <2> HIDE DEF d
  <2>3. StaysPut /\ Turns(n, o)
    BY <1>1, <1>2, <1>4, <1>7, Remains DEF StaysPut
  <2>4. Learns(m, o, o, c)
    BY <1>7, <2>1, <2>2 DEF Learns
  <2>5. BaseInv'
    <3>1. calls' \subseteq Call /\ \A b \in calls' : Running(b.node) /\ b.todo \subseteq Peers(b.node)
      BY <1>4, <2>1, <2>2 DEF BaseInv
    <3> QED
      BY <1>1, <1>7, <2>3, <3>1, StaysPutKeepsBase DEF BaseInv, Works
  <2> QED
    BY <1>1, <1>2, <1>4, <2>3, <2>4, <2>5
<1>8. CASE m.success /\ Majority(c.acks \cup {m.from}) /\ Finish(c, net \ {m})
  <2>1. /\ calls' = calls \ {c} /\ net' \subseteq net \ {m} /\ faults' = faults /\ acked' \subseteq Nat
        /\ \E s : /\ Turns(c.node, s)
                  /\ \/ Decides(s, node[c.node], c)
                     \/ s = node[c.node] /\ UNCHANGED <<chosen, acked>>
    BY <1>1, <1>4, <1>8, FinishDoes
  <2>2. PICK s : Turns(n, s) /\ (Decides(s, o, c) \/ (s = o /\ UNCHANGED <<chosen, acked>>))
    BY <1>4, <2>1
  <2>3. Learns(m, s, o, c)
    BY <1>8, <2>1, <2>2 DEF Learns
  <2>4. BaseInv'
    <3>1. \A b \in calls' : Running(b.node) /\ b.todo \subseteq Peers(b.node)
      BY <2>1 DEF BaseInv
    <3> QED
      BY <1>1, <1>2, <2>1, <2>2, <3>1, TurnsKeepsBase DEF BaseInv
  <2> QED
    BY <1>1, <1>2, <1>4, <2>2, <2>3, <2>4
<1>9. CASE /\ m.term <= o.term /\ ~m.success
           /\ net' = (net \ {m}) \cup
                IF o.role = "leader" /\ o.term = c.id.term
                THEN {AppendRequest(n, m.from, o, m.conflict, c.id)} ELSE {}
           /\ Works /\ UNCHANGED <<node, meta, calls, chosen, acked>>
  <2> DEFINE x == AppendRequest(n, m.from, o, m.conflict, c.id)
  <2>1. StaysPut /\ Turns(n, o)
    BY <1>1, <1>2, <1>4, <1>9, Remains DEF StaysPut
  <2>2. m.conflict \in Nat /\ m.conflict # 0
    BY <1>1, <1>2, <1>9 DEF MessageOK
  <2>3. ASSUME o.role = "leader" /\ o.term = c.id.term
        PROVE  IsRequest(x) /\ x.from = n /\ x.call = c.id /\ x.prev = m.conflict - 1
    <3>1. m.from \in Peers(n)
      BY <1>2 DEF Peers
    <3> QED
      BY <1>2, <1>5, <2>2, <2>3, <3>1, AppendRequestIs DEF Leads
  <2>4. \A y \in net' : y \in net \/ (y = x /\ o.role = "leader" /\ o.term = c.id.term)
    BY <1>9
  <2> HIDE DEF x
  <2>5. Learns(m, o, o, c)
    BY <1>9, <2>3, <2>4 DEF Learns
  <2>6. BaseInv'
    <3>1. \A y \in net' : y \in net \/ (MessageOK(y) /\ (y.type = "voted" => Running(y.to)))
      BY <2>3, <2>4 DEF IsRequest
    <3> QED
      BY <1>1, <1>9, <2>1, <3>1, StaysPutKeepsBase DEF BaseInv, Works
  <2> QED
    BY <1>1, <1>2, <1>4, <2>1, <2>5, <2>6
<1> QED
  BY <1>3, <1>6, <1>7, <1>8, <1>9

LEMMA ReadConfirmedDoes ==
  ASSUME DisksWork, BaseInv, budget' = budget, NEW m, ReadConfirmed(m)
  PROVE  /\ BaseInv' /\ StaysPut /\ m \in net /\ m.type = "appended" /\ m.call.k = "read"
         /\ UNCHANGED <<node, votes, calls, durable, history, used>> /\ net' \subseteq net
         /\ \E r \in reads, q \in Read :
              /\ r \in Read /\ r.node = m.to /\ r.id = m.call /\ reads' = (reads \ {r}) \cup {q}
              /\ q.node = r.node /\ q.id = r.id /\ q.must = r.must /\ q.own = r.own
              /\ q.acks = Confirming(r, m)
              /\ IF Majority(q.acks) THEN q.served /\ q.got = node[r.node].applied
                 ELSE q.served = r.served /\ q.got = r.got
<1>1. /\ m \in net /\ m.type = "appended" /\ m.call.k = "read"
      /\ UNCHANGED <<node, votes, calls, durable, history, used>>
  BY DEF ReadConfirmed
<1>2. PICK r \in {q \in reads : q.node = m.to /\ q.id = m.call} :
        LET acks == Confirming(r, m)
        IN  /\ reads' = (reads \ {r}) \cup
                 {IF Majority(acks)
                  THEN [r EXCEPT !.acks = acks, !.served = TRUE, !.got = node[r.node].applied]
                  ELSE [r EXCEPT !.acks = acks]}
            /\ net' = IF Majority(acks)
                      THEN {o \in net : o.type = "appended" => o.call # m.call}
                      ELSE net \ {m}
  BY Zenon DEF ReadConfirmed
<1>3. r \in reads /\ r \in Read /\ r.node = m.to /\ r.id = m.call /\ MessageOK(m)
  BY <1>1 DEF BaseInv
<1>4. r.node \in Node /\ m.from \in Node /\ node[r.node] \in State /\ node[r.node].applied \in Seq(Nat)
  <2>1. r.node \in Node /\ m.from \in Node
    BY <1>3 DEF Read, MessageOK
  <2> QED
    BY <2>1 DEF BaseInv, State
<1> DEFINE acks == Confirming(r, m)
           got == node[r.node].applied
<1>5. acks \in SUBSET Node
  BY <1>3, <1>4 DEF Confirming, Read
<1>6. net' \subseteq net
  BY <1>2
<1>7. StaysPut
  BY <1>1 DEF StaysPut, durable
<1>8. \E q \in Read :
        /\ reads' = (reads \ {r}) \cup {q}
        /\ q.node = r.node /\ q.id = r.id /\ q.must = r.must /\ q.own = r.own /\ q.acks = acks
        /\ IF Majority(q.acks) THEN q.served /\ q.got = got
           ELSE q.served = r.served /\ q.got = r.got
  <2>1. CASE Majority(acks)
    <3> DEFINE q == [r EXCEPT !.acks = acks, !.served = TRUE, !.got = got]
    <3>1. reads' = (reads \ {r}) \cup {q}
      BY <1>2, <2>1
    <3> HIDE DEF acks, got
    <3>2. /\ q \in Read /\ q.node = r.node /\ q.id = r.id /\ q.must = r.must /\ q.own = r.own /\ q.acks = acks
          /\ q.served = TRUE /\ q.got = got
      BY <1>3, <1>4, <1>5 DEF Read, got
    <3> HIDE DEF q
    <3> QED
      BY <2>1, <3>1, <3>2
  <2>2. CASE ~Majority(acks)
    <3> DEFINE q == [r EXCEPT !.acks = acks]
    <3>1. reads' = (reads \ {r}) \cup {q}
      BY <1>2, <2>2
    <3> HIDE DEF acks, got
    <3>2. /\ q \in Read /\ q.node = r.node /\ q.id = r.id /\ q.must = r.must /\ q.own = r.own /\ q.acks = acks
          /\ q.served = r.served /\ q.got = r.got
      BY <1>3, <1>5 DEF Read
    <3> HIDE DEF q
    <3> QED
      BY <2>2, <3>1, <3>2
  <2> QED
    BY <2>1, <2>2
<1>9. BaseInv'
  <2>1. reads' \subseteq Read
    BY <1>8 DEF BaseInv
  <2> QED
    BY <1>1, <1>6, <1>7, <2>1, StaysPutKeepsBase DEF BaseInv, durable, history
<1> QED
  BY <1>1, <1>3, <1>6, <1>7, <1>8, <1>9

LEMMA CrashDoes ==
  ASSUME DisksWork, BaseInv, budget' = budget, NEW n \in Node, Crash(n)
  PROVE  /\ BaseInv' /\ UNCHANGED <<durable, history>> /\ used' = [used EXCEPT !.crashes = @ + 1]
         /\ node' = [node EXCEPT ![n] = Off] /\ votes' = [votes EXCEPT ![n] = NoElection]
         /\ \A c \in calls' : c \in calls /\ c.node # n
         /\ \A r \in reads' : r \in reads /\ (r.node # n \/ r.served)
         /\ \A m \in net' : m \in net /\ (m.type \in {"voted", "appended"} => m.to # n)
<1>1. /\ UNCHANGED <<durable, history>> /\ used' = [used EXCEPT !.crashes = @ + 1]
      /\ node' = [node EXCEPT ![n] = Off] /\ votes' = [votes EXCEPT ![n] = NoElection]
      /\ \A c \in calls' : c \in calls /\ c.node # n
      /\ \A r \in reads' : r \in reads /\ (r.node # n \/ r.served)
      /\ \A m \in net' : m \in net /\ (m.type \in {"voted", "appended"} => m.to # n)
  BY DEF Crash, Use
<1>2. Off \in State /\ Off.role = "down"
  BY DEF Off, State
<1>3. NoElection \in [term : Nat, from : SUBSET Node]
  BY DEF NoElection
<1>4. node' \in [Node -> State] /\ votes' \in [Node -> [term : Nat, from : SUBSET Node]]
  BY <1>1, <1>2, <1>3 DEF BaseInv
<1>5. \A x \in Node \ {n} : node'[x] = node[x] /\ votes'[x] = votes[x]
  BY <1>1 DEF BaseInv
<1>6. node'[n] = Off /\ votes'[n] = NoElection
  BY <1>1 DEF BaseInv
<1>7. \A x \in Node : InSync(x)' /\ (x # n /\ Running(x) => Running(x)')
  <2> SUFFICES ASSUME NEW x \in Node PROVE InSync(x)' /\ (x # n /\ Running(x) => Running(x)')
    OBVIOUS
  <2>1. CASE x = n
    BY <1>1, <1>2, <1>6, <2>1 DEF BaseInv, InSync, Running, durable
  <2>2. CASE x # n
    BY <1>1, <1>5, <2>2 DEF BaseInv, InSync, Running, durable
  <2> QED
    BY <2>1, <2>2
<1>8. \A m \in net' : MessageOK(m) /\ (m.type = "voted" => Running(m.to)')
  BY <1>1, <1>7 DEF BaseInv, MessageOK
<1>9. \A c \in calls' : Running(c.node)' /\ c.todo \subseteq Peers(c.node)
  BY <1>1, <1>7 DEF BaseInv, Call
<1>10. BaseInv'
  BY <1>1, <1>4, <1>7, <1>8, <1>9 DEF BaseInv, durable, history
<1> QED
  BY <1>1, <1>10

LEMMA ReadableReadsBack ==
  ASSUME NEW lines \in Seq(Line), Readable(lines)
  PROVE  Lines(Entries(lines)) = lines
<1>1. Len(lines) \in Nat /\ DOMAIN lines = 1..Len(lines) /\ Entries(lines) \in Seq(Entry) /\ Len(Entries(lines)) = Len(lines)
  BY EntriesAre
<1>2. Lines(Entries(lines)) \in Seq(Line) /\ Len(Lines(Entries(lines))) = Len(lines)
  BY <1>1, LinesReadBack
<1>3. ASSUME NEW i \in 1..Len(lines)
      PROVE  Lines(Entries(lines))[i] = lines[i]
  <2>1. Lines(Entries(lines))[i] = [index |-> i, term |-> Entries(lines)[i].term, cmd |-> Entries(lines)[i].cmd]
    BY <1>1 DEF Lines
  <2>2. Entries(lines)[i].term = lines[i].term /\ Entries(lines)[i].cmd = lines[i].cmd
    BY EntriesAre
  <2>3. lines[i] \in Line /\ lines[i].index = i
    BY <1>1 DEF Readable
  <2> QED
    BY <2>1, <2>2, <2>3 DEF Line
<1> QED
  BY <1>2, <1>3, SeqEqual

LEMMA RestartDoes ==
  ASSUME DisksWork, BaseInv, budget' = budget, NEW n \in Node, Restart(n)
  PROVE  /\ BaseInv' /\ ~Running(n) /\ UNCHANGED <<votes, calls, reads, net, durable, history, used>>
         /\ \E s : /\ Turns(n, s) /\ s.role = "follower" /\ s.term = TermOf(n) /\ s.votedFor = VoteOf(n)
                   /\ s.log = LogOf(n) /\ s.commit = meta[n].commit
                   /\ GoesOn(s.applied, snap[n], LogOf(n), meta[n].commit)
<1> DEFINE h == [role |-> "follower", term |-> meta[n].term, votedFor |-> meta[n].votedFor,
                 log |-> Entries(file[n]), commit |-> meta[n].commit, applied |-> snap[n]]
           s == Applied(h)
<1>1. ~Running(n) /\ CanLoad(n) /\ node' = [node EXCEPT ![n] = s] /\ UNCHANGED <<votes, calls, reads, net, durable, history, used>>
  BY DEF Restart
<1>2. meta[n] \in Meta /\ file[n] \in Seq(Line) /\ snap[n] \in Seq(Nat)
  BY DEF BaseInv
<1>3. Entries(file[n]) \in Seq(Entry) /\ Len(Entries(file[n])) = Len(file[n])
  BY <1>2, EntriesAre
<1>4. h \in State /\ h.role = "follower" /\ h.term = TermOf(n) /\ h.votedFor = VoteOf(n)
      /\ h.log = LogOf(n) /\ h.commit = meta[n].commit /\ h.applied = snap[n]
  BY <1>2, <1>3 DEF State, Meta, TermOf, VoteOf, LogOf
<1>5. h.commit <= Len(h.log)
  BY <1>1, <1>3, <1>4 DEF CanLoad, LogOf
<1> HIDE DEF h
<1>6. /\ s \in State /\ s.role = "follower" /\ s.term = TermOf(n) /\ s.votedFor = VoteOf(n)
      /\ s.log = LogOf(n) /\ s.commit = meta[n].commit
      /\ GoesOn(s.applied, snap[n], LogOf(n), meta[n].commit)
  BY <1>4, <1>5, AppliedIs
<1> HIDE DEF s
<1>7. Turns(n, s)
  <2>1. MetaOf(s) = meta[n]
    BY <1>2, <1>6 DEF MetaOf, Meta, TermOf, VoteOf
  <2>2. Lines(s.log) = file[n]
    BY <1>1, <1>2, <1>6, ReadableReadsBack DEF LogOf, CanLoad
  <2>3. meta' = meta /\ file' = file
    BY <1>1 DEF durable
  <2> QED
    BY <1>1, <1>6, <2>1, <2>2, <2>3 DEF Turns, BaseInv
<1>8. BaseInv'
  BY <1>1, <1>7, TurnsKeepsBase DEF BaseInv, durable, history
<1> QED
  BY <1>1, <1>6, <1>7, <1>8

LEMMA SnapshotDoes ==
  ASSUME DisksWork, BaseInv, budget' = budget, NEW n \in Node, Snapshot(n)
  PROVE  /\ BaseInv' /\ StaysPut /\ UNCHANGED <<volatile, net, faults, history>>
         /\ snap' = [snap EXCEPT ![n] = node[n].applied] /\ used' = [used EXCEPT !.snapshots = @ + 1]
<1>1. /\ snap' = [snap EXCEPT ![n] = node[n].applied] /\ UNCHANGED <<volatile, net, file, meta, faults, history>>
      /\ used' = [used EXCEPT !.snapshots = @ + 1]
  BY DEF Snapshot, Use
<1>2. node[n].applied \in Seq(Nat)
  BY DEF BaseInv, State
<1>3. snap' \in [Node -> Seq(Nat)]
  BY <1>1, <1>2 DEF BaseInv
<1>4. StaysPut
  BY <1>1 DEF StaysPut, volatile
<1>5. BaseInv'
  BY <1>1, <1>3, <1>4, StaysPutKeepsBase DEF BaseInv, volatile, history
<1> QED
  BY <1>1, <1>4, <1>5

-----------------------------------------------------------------------------
(* Votes.  given: every vote ever given, <<by whom, to whom, in which term>>.  *)

VotersOf(given, p, t) == {n \in Node : <<n, p, t>> \in given}

\* A node gave its votes in terms it reached, and in a term to one node only; the one it gave
\* last is on its disk.
GivenOK(given) ==
  \A n, p \in Node, t \in Nat : <<n, p, t>> \in given =>
    /\ TermOf(n) >= t /\ TermOf(p) >= t
    /\ TermOf(n) = t => VoteOf(n) = p
    /\ \A q \in Node : <<n, q, t>> \in given => q = p

\* A vote counted, and one under way, was given in the election it is for.
CountedOK(given) ==
  /\ \A p \in Node : \A n \in votes[p].from : <<n, p, votes[p].term>> \in given
  /\ \A m \in net : m.type = "voted" /\ m.granted =>
       m.term = votes[m.to].term /\ <<m.from, m.to, m.term>> \in given

\* A request for a vote tells of the log that the candidate still has.
RequestsOK ==
  \A m \in net : m.type = "vote" =>
    /\ TermOf(m.from) >= m.term
    /\ TermOf(m.from) = m.term /\ node[m.from].role = "candidate" =>
         m.last = Len(LogOf(m.from)) /\ m.lastTerm = TermAt(LogOf(m.from), m.last)

\* A majority gave its votes to who was elected, and nobody is a candidate after that.
ElectedOK(given) ==
  /\ \A e \in elected : e \in Nat \X Node /\ Majority(VotersOf(given, e[2], e[1]))
  /\ \A n \in Node :
       /\ Leads(n) => <<TermOf(n), n>> \in elected
       /\ node[n].role = "candidate" => <<TermOf(n), n>> \notin elected

VotesInv(given) == GivenOK(given) /\ CountedOK(given) /\ RequestsOK /\ ElectedOK(given)

\* Two nodes elected in a term are one.
LEMMA OneLeaderPerTerm ==
  ASSUME NEW given, VotesInv(given), NEW t \in Nat, NEW n \in Node, NEW p \in Node,
         <<t, n>> \in elected, <<t, p>> \in elected
  PROVE  n = p
<1>1. Majority(VotersOf(given, n, t)) /\ Majority(VotersOf(given, p, t))
  BY DEF VotesInv, ElectedOK
<1>2. PICK x \in VotersOf(given, n, t) : x \in VotersOf(given, p, t)
  BY <1>1, MajoritiesMeet DEF VotersOf
<1> QED
  BY <1>2 DEF VotesInv, GivenOK, VotersOf

\* Who was elected has reached the term.
LEMMA ElectedReached ==
  ASSUME NEW given, VotesInv(given), NEW t \in Nat, NEW n \in Node, <<t, n>> \in elected
  PROVE  /\ TermOf(n) >= t
         /\ \E Q \in SUBSET Node : Majority(Q) /\ \A x \in Q : TermOf(x) >= t /\ <<x, n, t>> \in given
<1>1. Majority(VotersOf(given, n, t))
  BY DEF VotesInv, ElectedOK
<1>2. \A x \in VotersOf(given, n, t) : x \in Node /\ TermOf(x) >= t /\ TermOf(n) >= t /\ <<x, n, t>> \in given
  BY DEF VotesInv, GivenOK, VotersOf
<1>3. VotersOf(given, n, t) \in SUBSET Node
  BY DEF VotersOf
<1>4. \E x \in VotersOf(given, n, t) : TRUE
  BY <1>1, <1>3, MajoritiesMeet
<1> QED
  BY <1>1, <1>2, <1>3, <1>4

\* Terms do not go back, and in a term a vote stays.
TermsGrow ==
  \A n \in Node : /\ TermOf(n) \in Nat /\ TermOf(n)' \in Nat /\ TermOf(n)' >= TermOf(n)

\* Nobody becomes a candidate or a leader.
OfficesKept ==
  \A n \in Node :
    /\ Leads(n)' => Leads(n) /\ TermOf(n)' = TermOf(n)
    /\ node'[n].role = "candidate" =>
         node[n].role = "candidate" /\ TermOf(n)' = TermOf(n) /\ LogOf(n)' = LogOf(n)

\* A step that is not about votes.
VotesQuiet ==
  /\ TermsGrow /\ \A n \in Node : TermOf(n)' = TermOf(n) => VoteOf(n)' = VoteOf(n)
  /\ OfficesKept /\ elected' = elected
  /\ \A n \in Node : \/ votes'[n] = votes[n]
                     \/ votes'[n] = NoElection /\ \A m \in net' : ~(m.type = "voted" /\ m.to = n)
  /\ \A m \in net' : m.type \in {"vote", "voted"} => m \in net

LEMMA VotesKept ==
  ASSUME BaseInv, NEW given, VotesInv(given), VotesQuiet
  PROVE  VotesInv(given)'
<1>1. GivenOK(given)'
  BY DEF VotesInv, GivenOK, VotesQuiet, TermsGrow
<1>2. CountedOK(given)'
  <2>1. ASSUME NEW p \in Node, NEW n \in votes'[p].from
        PROVE  <<n, p, votes'[p].term>> \in given
    BY <2>1 DEF VotesInv, CountedOK, VotesQuiet, NoElection
  <2>2. ASSUME NEW m \in net', m.type = "voted", m.granted
        PROVE  m.term = votes'[m.to].term /\ <<m.from, m.to, m.term>> \in given
    <3>1. m \in net /\ m.to \in Node
      BY <2>2 DEF VotesQuiet, BaseInv, MessageOK
    <3>2. m.term = votes[m.to].term /\ <<m.from, m.to, m.term>> \in given
      BY <2>2, <3>1 DEF VotesInv, CountedOK
    <3>3. votes'[m.to] = votes[m.to]
      BY <2>2, <3>1 DEF VotesQuiet
    <3> QED
      BY <3>2, <3>3
  <2> QED
    BY <2>1, <2>2 DEF CountedOK
<1>3. RequestsOK'
  <2> SUFFICES ASSUME NEW m \in net', m.type = "vote"
               PROVE  /\ TermOf(m.from)' >= m.term
                      /\ TermOf(m.from)' = m.term /\ node'[m.from].role = "candidate" =>
                           m.last = Len(LogOf(m.from)') /\ m.lastTerm = TermAt(LogOf(m.from)', m.last)
    BY DEF RequestsOK
  <2>1. m \in net /\ m.from \in Node /\ m.term \in Nat
    BY DEF VotesQuiet, BaseInv, MessageOK
  <2>2. TermOf(m.from) >= m.term /\ TermOf(m.from)' >= TermOf(m.from) /\ TermOf(m.from) \in Nat /\ TermOf(m.from)' \in Nat
    BY <2>1 DEF VotesInv, RequestsOK, VotesQuiet, TermsGrow
  <2>3. ASSUME TermOf(m.from)' = m.term, node'[m.from].role = "candidate"
        PROVE  m.last = Len(LogOf(m.from)') /\ m.lastTerm = TermAt(LogOf(m.from)', m.last)
    <3>1. node[m.from].role = "candidate" /\ LogOf(m.from)' = LogOf(m.from)
      BY <2>1, <2>3 DEF VotesQuiet, OfficesKept
    <3>2. TermOf(m.from) = m.term
      BY <2>1, <2>2, <2>3
    <3> QED
      BY <2>1, <3>1, <3>2 DEF VotesInv, RequestsOK
  <2> QED
    BY <2>1, <2>2, <2>3
<1>4. ElectedOK(given)'
  <2>1. elected' = elected /\ \A n \in Node : /\ Leads(n)' => Leads(n) /\ TermOf(n)' = TermOf(n)
                                              /\ node'[n].role = "candidate" => node[n].role = "candidate" /\ TermOf(n)' = TermOf(n)
    BY DEF VotesQuiet, OfficesKept
  <2> QED
    BY <2>1 DEF VotesInv, ElectedOK, Majority, VotersOf
<1> QED
  BY <1>1, <1>2, <1>3, <1>4 DEF VotesInv

\* More votes: majorities stay majorities.
LEMMA ElectedStays ==
  ASSUME NEW given, NEW W, given \subseteq W, ElectedOK(given), NEW e \in elected
  PROVE  e \in Nat \X Node /\ Majority(VotersOf(W, e[2], e[1]))
<1>1. VotersOf(given, e[2], e[1]) \in SUBSET VotersOf(W, e[2], e[1]) /\ VotersOf(W, e[2], e[1]) \in SUBSET Node
  BY DEF VotersOf
<1> QED
  BY <1>1, MajorityGrows DEF ElectedOK

\* A vote is given by a node that reaches its term with it, or has not given it to another.
LEMMA OneVoteMore ==
  ASSUME NEW given, GivenOK(given), TermsGrow, NEW n \in Node, NEW p \in Node, NEW t \in Nat,
         NEW W, W = given \cup {<<n, p, t>>},
         \A x \in Node : TermOf(x)' = TermOf(x) => VoteOf(x)' = VoteOf(x) \/ x = n,
         TermOf(n)' = t, VoteOf(n)' = p, TermOf(p)' >= t,
         TermOf(n) = t => VoteOf(n) \in {p, None}
  PROVE  GivenOK(W)'
<1> SUFFICES ASSUME NEW x \in Node, NEW q \in Node, NEW u \in Nat, <<x, q, u>> \in W
             PROVE  /\ TermOf(x)' >= u /\ TermOf(q)' >= u
                    /\ TermOf(x)' = u => VoteOf(x)' = q
                    /\ \A r \in Node : <<x, r, u>> \in W => r = q
  BY DEF GivenOK
<1>1. \A y \in Node : TermOf(y) \in Nat /\ TermOf(y)' \in Nat /\ TermOf(y)' >= TermOf(y)
  BY DEF TermsGrow
<1>2. ASSUME NEW r \in Node, <<n, r, t>> \in given
      PROVE  r = p
  <2>1. TermOf(n) >= t /\ (TermOf(n) = t => VoteOf(n) = r)
    BY <1>2 DEF GivenOK
  <2>2. TermOf(n) = t
    BY <1>1, <2>1
  <2> QED
    BY <2>1, <2>2, RaftAssumption
<1>3. CASE <<x, q, u>> \in given
  <2>1. /\ TermOf(x) >= u /\ TermOf(q) >= u /\ (TermOf(x) = u => VoteOf(x) = q)
        /\ \A r \in Node : <<x, r, u>> \in given => r = q
    BY <1>3 DEF GivenOK
  <2>2. \A r \in Node : <<x, r, u>> \in W => r = q
    BY <1>2, <1>3, <2>1
  <2>3. TermOf(x)' = u => VoteOf(x)' = q
    <3>1. CASE x = n /\ u = t
      BY <1>2, <1>3, <3>1
    <3>2. CASE ~(x = n /\ u = t)
      BY <1>1, <2>1, <3>2
    <3> QED
      BY <3>1, <3>2
  <2> QED
    BY <1>1, <2>1, <2>2, <2>3
<1>4. CASE x = n /\ q = p /\ u = t
  BY <1>1, <1>2, <1>4
<1> QED
  BY <1>3, <1>4

LEMMA StartElectionVotes ==
  ASSUME DisksWork, BaseInv, budget' = budget, NEW given, VotesInv(given), NEW n \in Node, StartElection(n),
         NEW W, W = given \cup {<<n, n, TermOf(n) + 1>>}
  PROVE  VotesInv(W)'
<1>1. BaseInv' /\ Running(n) /\ elected' = elected
  BY StartElectionDoes DEF StartElection, history
<1>2. PICK s : /\ Turns(n, s) /\ SameData(s, node[n]) /\ s.role = "candidate"
               /\ s.term = node[n].term + 1 /\ s.votedFor = n
               /\ votes' = [votes EXCEPT ![n] = [term |-> s.term, from |-> {n}]]
               /\ \A o \in net' : \/ o \in net /\ ~(o.type = "voted" /\ o.to = n)
                                  \/ VoteRequest(o, n, s) /\ MessageOK(o)
  BY StartElectionDoes
<1> DEFINE t == TermOf(n) + 1
<1>3. s.term = t /\ TermOf(n) \in Nat /\ t \in Nat /\ t > TermOf(n) /\ s.log = LogOf(n)
  BY <1>1, <1>2, RunningInSync, LogsOnDisk DEF SameData
<1>4. /\ node'[n] = s /\ TermOf(n)' = t /\ VoteOf(n)' = n /\ LogOf(n)' = LogOf(n)
      /\ \A x \in Node \ {n} : node'[x] = node[x] /\ TermOf(x)' = TermOf(x) /\ VoteOf(x)' = VoteOf(x) /\ LogOf(x)' = LogOf(x)
  BY <1>2, <1>3, TurnsTo
<1> HIDE DEF t
<1>5. W = given \cup {<<n, n, t>>}
  BY DEF t
<1>6. TermsGrow
  BY <1>3, <1>4, LogsOnDisk DEF TermsGrow
<1>7. GivenOK(W)'
  <2>1. TermOf(n) # t /\ TermOf(n)' >= t
    BY <1>3, <1>4
  <2> QED
    BY <1>3, <1>4, <1>5, <1>6, <2>1, OneVoteMore DEF VotesInv
<1>8. CountedOK(W)'
  <2>1. votes'[n] = [term |-> t, from |-> {n}] /\ \A x \in Node \ {n} : votes'[x] = votes[x]
    BY <1>2, <1>3 DEF BaseInv
  <2>2. ASSUME NEW p \in Node, NEW x \in votes'[p].from
        PROVE  <<x, p, votes'[p].term>> \in W
    <3>1. CASE p = n
      BY <1>5, <2>1, <2>2, <3>1
    <3>2. CASE p # n
      BY <1>5, <2>1, <2>2, <3>2 DEF VotesInv, CountedOK
    <3> QED
      BY <3>1, <3>2
  <2>3. ASSUME NEW m \in net', m.type = "voted", m.granted
        PROVE  m.term = votes'[m.to].term /\ <<m.from, m.to, m.term>> \in W
    <3>1. m \in net /\ m.to # n /\ m.to \in Node
      BY <1>2, <2>3 DEF VoteRequest, BaseInv, MessageOK
    <3> QED
      BY <1>5, <2>1, <2>3, <3>1 DEF VotesInv, CountedOK
  <2> QED
    BY <2>2, <2>3 DEF CountedOK
<1>9. RequestsOK'
  <2> SUFFICES ASSUME NEW m \in net', m.type = "vote"
               PROVE  /\ TermOf(m.from)' >= m.term
                      /\ TermOf(m.from)' = m.term /\ node'[m.from].role = "candidate" =>
                           m.last = Len(LogOf(m.from)') /\ m.lastTerm = TermAt(LogOf(m.from)', m.last)
    BY DEF RequestsOK
  <2>1. CASE m \in net
    <3>1. m.from \in Node /\ m.term \in Nat /\ TermOf(m.from) >= m.term
      BY <2>1 DEF BaseInv, MessageOK, VotesInv, RequestsOK
    <3>2. CASE m.from = n
      BY <1>3, <1>4, <3>1, <3>2
    <3>3. CASE m.from # n
      BY <1>4, <2>1, <3>1, <3>3 DEF VotesInv, RequestsOK
    <3> QED
      BY <3>2, <3>3
  <2>2. CASE VoteRequest(m, n, s)
    BY <1>3, <1>4, <2>2 DEF VoteRequest
  <2> QED
    BY <1>2, <2>1, <2>2
<1>10. ElectedOK(W)'
  <2>1. \A e \in elected' : e \in Nat \X Node /\ Majority(VotersOf(W, e[2], e[1]))
    BY <1>1, <1>5, ElectedStays DEF VotesInv
  <2>2. ASSUME NEW x \in Node
        PROVE  /\ Leads(x)' => <<TermOf(x)', x>> \in elected'
               /\ node'[x].role = "candidate" => <<TermOf(x)', x>> \notin elected'
    <3>1. CASE x = n
      <4>1. ~Leads(n)'
        BY <1>2, <1>4 DEF Leads
      <4>2. <<t, n>> \notin elected
        BY <1>3, ElectedReached
      <4> QED
        BY <1>1, <1>4, <3>1, <4>1, <4>2
    <3>2. CASE x # n
      BY <1>1, <1>4, <3>2 DEF VotesInv, ElectedOK, Leads
    <3> QED
      BY <3>1, <3>2
  <2> QED
    BY <2>1, <2>2 DEF ElectedOK, Majority, VotersOf
<1> QED
  BY <1>7, <1>8, <1>9, <1>10 DEF VotesInv

\* The vote a request gets, if any, is one more that was given.
LEMMA HandleRequestVoteVotes ==
  ASSUME DisksWork, BaseInv, budget' = budget, NEW given, VotesInv(given), NEW m, HandleRequestVote(m),
         NEW s, Turns(m.to, s), Votes(s, node[m.to], m),
         \A o \in net' : o \in net \/ VoteReply(o, m.to, s, m, node[m.to]),
         NEW W, W = IF Grants(s, node[m.to], m) THEN given \cup {<<m.to, m.from, m.term>>} ELSE given
  PROVE  VotesInv(W)'
<1> DEFINE n == m.to
<1>1. /\ BaseInv' /\ m \in net /\ m.type = "vote" /\ n \in Node /\ Running(n)
      /\ UNCHANGED <<votes, elected>>
  BY HandleRequestVoteDoes DEF history
<1>2. m.from \in Node /\ m.from # n /\ m.term \in Nat /\ TermOf(m.from) >= m.term
  BY <1>1 DEF BaseInv, MessageOK, VotesInv, RequestsOK
<1>3. /\ TermOf(n) = node[n].term /\ VoteOf(n) = node[n].votedFor /\ LogOf(n) = node[n].log
      /\ TermOf(n) \in Nat
  BY <1>1, RunningInSync, LogsOnDisk
<1>4. /\ node'[n] = s /\ TermOf(n)' = s.term /\ VoteOf(n)' = s.votedFor /\ LogOf(n)' = LogOf(n)
      /\ \A x \in Node \ {n} : node'[x] = node[x] /\ TermOf(x)' = TermOf(x) /\ VoteOf(x)' = VoteOf(x) /\ LogOf(x)' = LogOf(x)
  BY <1>1, <1>3, TurnsTo DEF Votes, SameData
<1>5. TermsGrow
  <2>1. s.term \in Nat /\ s.term >= node[n].term
    BY DEF Turns, State, Votes
  <2> QED
    BY <1>3, <1>4, <2>1, LogsOnDisk DEF TermsGrow
<1>6. GivenOK(W)'
  <2>1. CASE Grants(s, node[n], m)
    <3>1. W = given \cup {<<n, m.from, m.term>>}
      BY <2>1
    <3>2. TermOf(n) = m.term => VoteOf(n) \in {m.from, None}
      BY <1>3, <2>1 DEF Votes, Grants
    <3>3. TermOf(m.from)' >= m.term
      BY <1>2, <1>4
    <3>4. s.votedFor = m.from /\ s.term = m.term
      BY <2>1 DEF Grants
    <3> QED
      BY <1>1, <1>2, <1>4, <1>5, <3>1, <3>2, <3>3, <3>4, OneVoteMore DEF VotesInv
  <2>2. CASE ~Grants(s, node[n], m)
    <3>1. W = given
      BY <2>2
    <3>2. ASSUME NEW x \in Node, NEW p \in Node, NEW t \in Nat, <<x, p, t>> \in given
          PROVE  /\ TermOf(x)' >= t /\ TermOf(p)' >= t
                 /\ TermOf(x)' = t => VoteOf(x)' = p
                 /\ \A q \in Node : <<x, q, t>> \in given => q = p
      <4>1. /\ TermOf(x) >= t /\ TermOf(p) >= t
            /\ TermOf(x) = t => VoteOf(x) = p
            /\ \A q \in Node : <<x, q, t>> \in given => q = p
        BY <3>2 DEF VotesInv, GivenOK
      <4>2. TermOf(x)' >= t /\ TermOf(p)' >= t
        BY <1>5, <4>1 DEF TermsGrow
      <4>3. ASSUME TermOf(x)' = t
            PROVE  VoteOf(x)' = p
        <5>1. TermOf(x) = t
          BY <1>5, <4>1, <4>3 DEF TermsGrow
        <5>2. CASE x # n
          BY <1>4, <4>1, <5>1, <5>2
        <5>3. CASE x = n
          BY <1>3, <1>4, <2>2, <4>1, <4>3, <5>1, <5>3 DEF Votes
        <5> QED
          BY <5>2, <5>3
      <4> QED
        BY <4>1, <4>2, <4>3
    <3> QED
      BY <3>1, <3>2 DEF GivenOK
  <2> QED
    BY <2>1, <2>2
<1> HIDE DEF n
<1>7. given \subseteq W
  OBVIOUS
<1>8. CountedOK(W)'
  <2>1. ASSUME NEW p \in Node, NEW x \in votes'[p].from
        PROVE  <<x, p, votes'[p].term>> \in W
    BY <1>1, <1>7, <2>1 DEF VotesInv, CountedOK
  <2>2. ASSUME NEW o \in net', o.type = "voted", o.granted
        PROVE  o.term = votes'[o.to].term /\ <<o.from, o.to, o.term>> \in W
    <3>1. CASE o \in net
      BY <1>1, <1>7, <2>2, <3>1 DEF VotesInv, CountedOK
    <3>2. CASE VoteReply(o, m.to, s, m, node[m.to])
      <4>1. Grants(s, node[m.to], m) /\ o.from = m.to /\ o.to = m.from /\ o.term = s.term /\ votes[m.from].term = m.term
        BY <2>2, <3>2 DEF VoteReply
      <4>2. W = given \cup {<<m.to, m.from, m.term>>} /\ s.term = m.term
        BY <4>1 DEF Grants
      <4> QED
        BY <1>1, <4>1, <4>2
    <3> QED
      BY <3>1, <3>2
  <2> QED
    BY <2>1, <2>2 DEF CountedOK
<1>9. RequestsOK'
  <2> SUFFICES ASSUME NEW o \in net', o.type = "vote"
               PROVE  /\ TermOf(o.from)' >= o.term
                      /\ TermOf(o.from)' = o.term /\ node'[o.from].role = "candidate" =>
                           o.last = Len(LogOf(o.from)') /\ o.lastTerm = TermAt(LogOf(o.from)', o.last)
    BY DEF RequestsOK
  <2>1. o \in net /\ o.from \in Node /\ o.term \in Nat
    BY DEF VoteReply, BaseInv, MessageOK
  <2>2. /\ TermOf(o.from) >= o.term
        /\ TermOf(o.from) = o.term /\ node[o.from].role = "candidate" =>
              o.last = Len(LogOf(o.from)) /\ o.lastTerm = TermAt(LogOf(o.from), o.last)
    BY <2>1 DEF VotesInv, RequestsOK
  <2>3. CASE o.from = n
    <3>1. s.term >= TermOf(n) /\ s.term \in Nat
      BY <1>3, <1>4, <1>5, <1>1 DEF TermsGrow
    <3>2. s.role = "candidate" => s.term = TermOf(n) /\ node[n].role = "candidate"
      BY <1>3, <3>1 DEF Votes, n
    <3> QED
      BY <1>1, <1>3, <1>4, <2>1, <2>2, <2>3, <3>1, <3>2
  <2>4. CASE o.from # n
    BY <1>4, <2>1, <2>2, <2>4
  <2> QED
    BY <2>3, <2>4
<1>10. ElectedOK(W)'
  <2>1. \A e \in elected' : e \in Nat \X Node /\ Majority(VotersOf(W, e[2], e[1]))
    BY <1>1, <1>7, ElectedStays DEF VotesInv
  <2>2. ASSUME NEW x \in Node
        PROVE  /\ Leads(x)' => <<TermOf(x)', x>> \in elected'
               /\ node'[x].role = "candidate" => <<TermOf(x)', x>> \notin elected'
    <3>1. CASE x = n
      <4>1. s.role \in {"leader", "candidate"} => s.term = TermOf(n) /\ node[n].role = s.role
        BY <1>1, <1>3, <1>4, <1>5 DEF Votes, n, TermsGrow
      <4> QED
        BY <1>1, <1>4, <3>1, <4>1 DEF VotesInv, ElectedOK, Leads
    <3>2. CASE x # n
      BY <1>1, <1>4, <3>2 DEF VotesInv, ElectedOK, Leads
    <3> QED
      BY <3>1, <3>2
  <2> QED
    BY <2>1, <2>2 DEF ElectedOK, Majority, VotersOf
<1> QED
  BY <1>6, <1>8, <1>9, <1>10 DEF VotesInv

\* Who wins an election has the votes it counted, of a majority.
LEMMA CountVoteVotes ==
  ASSUME DisksWork, BaseInv, budget' = budget, NEW given, VotesInv(given), NEW m, CountVote(m),
         NEW s, Turns(m.to, s), SameData(s, node[m.to]), VoteCounted(m, m.to, s)
  PROVE  VotesInv(given)'
<1> DEFINE n == m.to
<1>1. BaseInv' /\ m \in net /\ m.type = "voted" /\ n \in Node /\ Running(n) /\ net' \subseteq net
  BY CountVoteDoes
<1>2. \/ votes' = [votes EXCEPT ![n] = NoElection] /\ \A o \in net' : ~(o.type = "voted" /\ o.to = n)
      \/ votes' = [votes EXCEPT ![n].from = Count(m)]
  BY CountVoteDoes
<1>3. /\ TermOf(n) = node[n].term /\ VoteOf(n) = node[n].votedFor /\ LogOf(n) = node[n].log
      /\ TermOf(n) \in Nat /\ m.from \in Node
  BY <1>1, RunningInSync, LogsOnDisk DEF BaseInv, MessageOK
<1>4. /\ node'[n] = s /\ TermOf(n)' = s.term /\ VoteOf(n)' = s.votedFor /\ LogOf(n)' = LogOf(n)
      /\ \A x \in Node \ {n} : node'[x] = node[x] /\ TermOf(x)' = TermOf(x) /\ VoteOf(x)' = VoteOf(x) /\ LogOf(x)' = LogOf(x)
  BY <1>1, <1>3, TurnsTo DEF SameData
<1>5. /\ s.term >= TermOf(n) /\ s.term \in Nat
      /\ s.term = TermOf(n) => s.votedFor = VoteOf(n)
      /\ s.role = "candidate" => s = node[n] /\ elected' = elected
      /\ s.role = "leader" => \/ s = node[n] /\ elected' = elected
                              \/ elected' = elected \cup {<<s.term, n>>}
  BY <1>3 DEF VoteCounted, Turns, State
<1>6. TermsGrow
  BY <1>3, <1>4, <1>5, LogsOnDisk DEF TermsGrow
<1>7. Count(m) \in SUBSET VotersOf(given, n, votes[n].term)
  <2>1. votes[n].from \in SUBSET Node /\ \A x \in votes[n].from : <<x, n, votes[n].term>> \in given
    BY <1>1 DEF BaseInv, VotesInv, CountedOK
  <2>2. m.granted => <<m.from, n, votes[n].term>> \in given
    BY <1>1 DEF VotesInv, CountedOK
  <2> QED
    BY <1>3, <2>1, <2>2 DEF Count, VotersOf
<1> HIDE DEF n
<1>8. GivenOK(given)'
  BY <1>3, <1>4, <1>5, <1>6 DEF VotesInv, GivenOK, TermsGrow
<1>9. CountedOK(given)'
  <2>0. votes \in [Node -> [term : Nat, from : SUBSET Node]]
    BY DEF BaseInv
  <2>1. \A x \in Node \ {n} : votes'[x] = votes[x]
    BY <1>2, <2>0
  <2>2. \/ votes'[n] = NoElection /\ \A o \in net' : ~(o.type = "voted" /\ o.to = n)
        \/ votes'[n].term = votes[n].term /\ votes'[n].from = Count(m)
    BY <1>1, <1>2, <2>0
  <2>3. ASSUME NEW p \in Node, NEW x \in votes'[p].from
        PROVE  <<x, p, votes'[p].term>> \in given
    <3>1. CASE p = n
      BY <1>7, <2>2, <2>3, <3>1 DEF NoElection, VotersOf
    <3>2. CASE p # n
      BY <2>1, <2>3, <3>2 DEF VotesInv, CountedOK
    <3> QED
      BY <3>1, <3>2
  <2>4. ASSUME NEW o \in net', o.type = "voted", o.granted
        PROVE  o.term = votes'[o.to].term /\ <<o.from, o.to, o.term>> \in given
    <3>1. o.term = votes[o.to].term /\ <<o.from, o.to, o.term>> \in given /\ o.to \in Node
      BY <1>1, <2>4 DEF VotesInv, CountedOK, BaseInv, MessageOK
    <3>2. votes'[o.to].term = votes[o.to].term
      BY <2>1, <2>2, <2>4, <3>1
    <3> QED
      BY <3>1, <3>2
  <2> QED
    BY <2>3, <2>4 DEF CountedOK
<1>10. RequestsOK'
  <2> SUFFICES ASSUME NEW o \in net', o.type = "vote"
               PROVE  /\ TermOf(o.from)' >= o.term
                      /\ TermOf(o.from)' = o.term /\ node'[o.from].role = "candidate" =>
                           o.last = Len(LogOf(o.from)') /\ o.lastTerm = TermAt(LogOf(o.from)', o.last)
    BY DEF RequestsOK
  <2>1. o \in net /\ o.from \in Node /\ o.term \in Nat
    BY <1>1 DEF BaseInv, MessageOK
  <2>2. /\ TermOf(o.from) >= o.term
        /\ TermOf(o.from) = o.term /\ node[o.from].role = "candidate" =>
              o.last = Len(LogOf(o.from)) /\ o.lastTerm = TermAt(LogOf(o.from), o.last)
    BY <2>1 DEF VotesInv, RequestsOK
  <2>3. CASE o.from = n
    BY <1>3, <1>4, <1>5, <2>1, <2>2, <2>3
  <2>4. CASE o.from # n
    BY <1>4, <2>1, <2>2, <2>4
  <2> QED
    BY <2>3, <2>4
<1>11. ElectedOK(given)'
  <2>1. \A e \in elected' : e \in elected \/ (e = <<s.term, n>> /\ Majority(Count(m)) /\ s.term = votes[n].term)
    BY DEF VoteCounted, n
  <2>2. ASSUME NEW e \in elected'
        PROVE  e \in Nat \X Node /\ Majority(VotersOf(given, e[2], e[1]))
    <3>1. CASE e \in elected
      BY <3>1 DEF VotesInv, ElectedOK
    <3>2. CASE e = <<s.term, n>> /\ Majority(Count(m)) /\ s.term = votes[n].term
      <4>1. VotersOf(given, n, s.term) \in SUBSET Node
        BY DEF VotersOf
      <4>2. Majority(VotersOf(given, n, s.term))
        BY <1>7, <3>2, <4>1, MajorityGrows
      <4> QED
        BY <1>1, <1>5, <3>2, <4>2
    <3> QED
      BY <2>1, <3>1, <3>2
  <2>3. ASSUME NEW x \in Node
        PROVE  /\ Leads(x)' => <<TermOf(x)', x>> \in elected'
               /\ node'[x].role = "candidate" => <<TermOf(x)', x>> \notin elected'
    <3>0. /\ node[x].role = "leader" => <<TermOf(x), x>> \in elected
          /\ node[x].role = "candidate" => <<TermOf(x), x>> \notin elected
      BY DEF VotesInv, ElectedOK, Leads
    <3>1. CASE x = n
      BY <1>3, <1>4, <1>5, <3>0, <3>1 DEF Leads
    <3>2. CASE x # n
      <4>1. \A e \in elected' : e \in elected \/ e = <<s.term, n>>
        BY <2>1
      <4>2. elected \subseteq elected'
        BY DEF VoteCounted
      <4>3. node'[x] = node[x] /\ TermOf(x)' = TermOf(x)
        BY <1>4, <3>2
      <4> QED
        BY <3>0, <3>2, <4>1, <4>2, <4>3 DEF Leads
    <3> QED
      BY <3>1, <3>2
  <2> QED
    BY <2>2, <2>3 DEF ElectedOK, Majority, VotersOf
<1> QED
  BY <1>8, <1>9, <1>10, <1>11 DEF VotesInv

-----------------------------------------------------------------------------
(* The other steps are not about votes.                                    *)

\* A node that goes over to a state in which it neither stands for election nor leads anew.
LEMMA TurnsQuiet ==
  ASSUME BaseInv, NEW n \in Node, Running(n), NEW s, Turns(n, s), s.term >= node[n].term,
         s.term = node[n].term => s.votedFor = node[n].votedFor,
         s.role = "leader" => node[n].role = "leader" /\ s.term = node[n].term,
         s.role = "candidate" => node[n].role = "candidate" /\ s.term = node[n].term /\ s.log = node[n].log,
         UNCHANGED <<votes, elected>>,
         \A o \in net' : o.type \in {"vote", "voted"} => o \in net
  PROVE  VotesQuiet
<1>1. /\ TermOf(n) = node[n].term /\ VoteOf(n) = node[n].votedFor /\ LogOf(n) = node[n].log
      /\ TermOf(n) \in Nat
  BY RunningInSync, LogsOnDisk
<1>2. /\ node'[n] = s /\ TermOf(n)' = s.term /\ VoteOf(n)' = s.votedFor /\ LogOf(n)' = s.log
      /\ \A x \in Node \ {n} : node'[x] = node[x] /\ TermOf(x)' = TermOf(x) /\ VoteOf(x)' = VoteOf(x) /\ LogOf(x)' = LogOf(x)
  BY TurnsTo
<1>3. s.term \in Nat
  BY DEF Turns, State
<1>4. TermsGrow
  BY <1>1, <1>2, <1>3, LogsOnDisk DEF TermsGrow
<1>5. \A x \in Node : TermOf(x)' = TermOf(x) => VoteOf(x)' = VoteOf(x)
  BY <1>1, <1>2
<1>6. OfficesKept
  BY <1>1, <1>2 DEF OfficesKept, Leads
<1> QED
  BY <1>4, <1>5, <1>6 DEF VotesQuiet

LEMMA StaysPutQuiet ==
  ASSUME BaseInv, StaysPut, UNCHANGED <<votes, elected>>,
         \A o \in net' : o.type \in {"vote", "voted"} => o \in net
  PROVE  VotesQuiet
<1>1. \A x \in Node : /\ node'[x] = node[x] /\ TermOf(x)' = TermOf(x) /\ VoteOf(x)' = VoteOf(x)
                      /\ LogOf(x)' = LogOf(x) /\ TermOf(x) \in Nat
  BY LogsOnDisk DEF StaysPut, TermOf, VoteOf, LogOf
<1> QED
  BY <1>1 DEF VotesQuiet, TermsGrow, OfficesKept, Leads

LEMMA HandleAppendEntriesQuiet ==
  ASSUME DisksWork, BaseInv, budget' = budget, NEW m, HandleAppendEntries(m)
  PROVE  VotesQuiet
<1>1. /\ m \in net /\ m.to \in Node /\ Running(m.to) /\ m.term \in Nat
      /\ UNCHANGED <<votes, elected>>
  BY HandleAppendEntriesDoes DEF history, BaseInv, MessageOK
<1>2. PICK s : /\ Turns(m.to, s) /\ (s = node[m.to] \/ Follows(s, node[m.to], m))
               /\ \A o \in net' : o \in net \/ o.type = "appended"
  BY HandleAppendEntriesDoes DEF AppendReply, Accepts
<1>3. node[m.to].term \in Nat
  BY <1>1 DEF BaseInv, State
<1>4. /\ s.term >= node[m.to].term
      /\ s.term = node[m.to].term => s.votedFor = node[m.to].votedFor
      /\ s.role = "leader" => node[m.to].role = "leader" /\ s.term = node[m.to].term
      /\ s.role = "candidate" => node[m.to].role = "candidate" /\ s.term = node[m.to].term /\ s.log = node[m.to].log
  BY <1>1, <1>2, <1>3 DEF Follows
<1> QED
  BY <1>1, <1>2, <1>4, TurnsQuiet

LEMMA ProposeQuiet ==
  ASSUME DisksWork, BaseInv, budget' = budget, used.writes \in Nat, NEW n \in Node, Propose(n)
  PROVE  VotesQuiet
<1>1. Leads(n) /\ Running(n) /\ UNCHANGED <<votes, net, elected>>
  BY ProposeDoes DEF history
<1>2. PICK s : /\ Turns(n, s) /\ s.role = node[n].role /\ s.term = node[n].term
               /\ s.votedFor = node[n].votedFor
  BY ProposeDoes
<1>3. node[n].term \in Nat
  BY DEF BaseInv, State
<1> QED
  BY <1>1, <1>2, <1>3, TurnsQuiet DEF Leads

LEMMA ReplicatedQuiet ==
  ASSUME DisksWork, BaseInv, CallsInRange, budget' = budget, NEW m, Replicated(m)
  PROVE  VotesQuiet
<1>1. m.to \in Node /\ Running(m.to) /\ UNCHANGED <<votes, elected>>
  BY ReplicatedDoes
<1>2. PICK c, s : c \in calls /\ Turns(m.to, s) /\ Learns(m, s, node[m.to], c)
  BY ReplicatedDoes
<1>3. node[m.to].term \in Nat /\ s.term \in Nat
  BY <1>1, <1>2 DEF BaseInv, State, Turns
<1>4. /\ s.term >= node[m.to].term
      /\ s.term = node[m.to].term => s.votedFor = node[m.to].votedFor
      /\ s.role = "leader" => node[m.to].role = "leader" /\ s.term = node[m.to].term
      /\ s.role = "candidate" => node[m.to].role = "candidate" /\ s.term = node[m.to].term /\ s.log = node[m.to].log
  BY <1>2, <1>3 DEF Learns, Decides, SameData
<1>5. \A o \in net' : o \in net \/ o.type = "append"
  BY <1>2 DEF Learns, IsRequest
<1> QED
  BY <1>1, <1>2, <1>4, <1>5, TurnsQuiet

LEMMA RestartQuiet ==
  ASSUME DisksWork, BaseInv, budget' = budget, NEW n \in Node, Restart(n)
  PROVE  VotesQuiet
<1>1. UNCHANGED <<votes, net, elected>>
  BY RestartDoes DEF history
<1>2. PICK s : Turns(n, s) /\ s.role = "follower" /\ s.term = TermOf(n) /\ s.votedFor = VoteOf(n)
  BY RestartDoes
<1>3. /\ node'[n] = s /\ TermOf(n)' = s.term /\ VoteOf(n)' = s.votedFor
      /\ \A x \in Node \ {n} : node'[x] = node[x] /\ TermOf(x)' = TermOf(x) /\ VoteOf(x)' = VoteOf(x) /\ LogOf(x)' = LogOf(x)
  BY <1>2, TurnsTo
<1>4. \A x \in Node : TermOf(x) \in Nat
  BY LogsOnDisk
<1> QED
  BY <1>1, <1>2, <1>3, <1>4 DEF VotesQuiet, TermsGrow, OfficesKept, Leads

LEMMA CrashQuiet ==
  ASSUME DisksWork, BaseInv, budget' = budget, NEW n \in Node, Crash(n)
  PROVE  VotesQuiet
<1>1. /\ UNCHANGED <<file, meta, elected>> /\ node' = [node EXCEPT ![n] = Off]
      /\ votes' = [votes EXCEPT ![n] = NoElection]
      /\ \A m \in net' : m \in net /\ (m.type \in {"voted", "appended"} => m.to # n)
  BY CrashDoes DEF durable, history
<1>2. \A x \in Node : /\ TermOf(x)' = TermOf(x) /\ VoteOf(x)' = VoteOf(x) /\ LogOf(x)' = LogOf(x) /\ TermOf(x) \in Nat
                      /\ x # n => node'[x] = node[x] /\ votes'[x] = votes[x]
                      /\ x = n => node'[x].role = "down" /\ votes'[x] = NoElection
  BY <1>1, LogsOnDisk DEF TermOf, VoteOf, LogOf, BaseInv, Off
<1>3. TermsGrow /\ OfficesKept
  BY <1>2 DEF TermsGrow, OfficesKept, Leads
<1> QED
  BY <1>1, <1>2, <1>3 DEF VotesQuiet

\* Requests to append and their answers, reads, and snapshots.
LEMMA RestQuiet ==
  ASSUME DisksWork, BaseInv, budget' = budget, used.reads \in Nat,
         \/ \E c \in calls : \E p \in c.todo : Replicate(c, p)
         \/ \E n \in Node : Heartbeat(n) \/ StartRead(n) \/ Snapshot(n)
         \/ \E m \in net : ReadConfirmed(m)
  PROVE  VotesQuiet
<1>1. ASSUME NEW c \in calls, NEW p \in c.todo, Replicate(c, p)
      PROVE  VotesQuiet
  <2>1. StaysPut /\ UNCHANGED <<votes, elected>> /\ \A x \in net' : x \in net \/ IsRequest(x)
    BY <1>1, ReplicateDoes DEF history
  <2> QED
    BY <2>1, StaysPutQuiet DEF IsRequest
<1>2. ASSUME NEW n \in Node, Heartbeat(n)
      PROVE  VotesQuiet
  <2>1. StaysPut /\ UNCHANGED <<votes, elected>> /\ \A x \in net' : x \in net \/ IsRequest(x)
    BY <1>2, HeartbeatDoes DEF history, volatile
  <2> QED
    BY <2>1, StaysPutQuiet DEF IsRequest
<1>3. ASSUME NEW n \in Node, StartRead(n)
      PROVE  VotesQuiet
  <2>1. StaysPut /\ UNCHANGED <<votes, elected>> /\ \A x \in net' : x \in net \/ IsRequest(x)
    BY <1>3, StartReadDoes DEF history
  <2> QED
    BY <2>1, StaysPutQuiet DEF IsRequest
<1>4. ASSUME NEW n \in Node, Snapshot(n)
      PROVE  VotesQuiet
  <2>1. StaysPut /\ UNCHANGED <<votes, elected, net>>
    BY <1>4, SnapshotDoes DEF history, volatile
  <2> QED
    BY <2>1, StaysPutQuiet
<1>5. ASSUME NEW m \in net, ReadConfirmed(m)
      PROVE  VotesQuiet
  <2>1. StaysPut /\ UNCHANGED <<votes, elected>> /\ net' \subseteq net
    BY <1>5, ReadConfirmedDoes DEF history
  <2> QED
    BY <2>1, StaysPutQuiet
<1> QED
  BY <1>1, <1>2, <1>3, <1>4, <1>5

-----------------------------------------------------------------------------
(* Logs.  logs[t]: the log of the leader of term t, the last it had.       *)

\* A log took all it has from leaders: up to each entry it is the log of that entry's leader.
Held(logs, log) == \A i \in 1..Len(log) : Agree(log, logs[log[i].term], i)

LogsOK(logs) ==
  /\ logs \in [Nat -> Seq(Entry)]
  /\ \A t \in Nat : Held(logs, logs[t]) /\ \A i \in 1..Len(logs[t]) : logs[t][i].term <= t

\* Leaders' logs grow at their ends.
Grown(logs, L) == \A t \in Nat : Agree(logs[t], L[t], Len(logs[t]))

LEMMA EntryIs ==
  ASSUME NEW log \in Seq(Entry), NEW i \in 1..Len(log)
  PROVE  log[i] \in Entry /\ log[i].term \in Nat /\ log[i].cmd \in Nat
<1>1. log[i] \in Entry
  OBVIOUS
<1> QED
  BY <1>1 DEF Entry

LEMMA LeadersLog ==
  ASSUME NEW logs, LogsOK(logs), NEW t \in Nat
  PROVE  /\ logs[t] \in Seq(Entry) /\ Held(logs, logs[t])
         /\ \A i \in 1..Len(logs[t]) : logs[t][i].term <= t
<1>1. logs \in [Nat -> Seq(Entry)]
  BY DEF LogsOK
<1>2. logs[t] \in Seq(Entry)
  BY <1>1
<1> QED
  BY <1>2 DEF LogsOK

LEMMA AgreeProperties ==
  ASSUME NEW a \in Seq(Entry), NEW b \in Seq(Entry), NEW i \in Nat, Agree(a, b, i)
  PROVE  /\ Agree(b, a, i) /\ \A j \in Nat : j <= i => Agree(a, b, j)
         /\ \A c \in Seq(Entry) : Agree(b, c, i) => Agree(a, c, i)
         /\ \A j \in 1..i, t \in Nat : Has(a, j, t) <=> Has(b, j, t)
  BY DEF Agree, Has

LEMMA HeldGrows ==
  ASSUME NEW logs \in [Nat -> Seq(Entry)], NEW L \in [Nat -> Seq(Entry)], Grown(logs, L),
         NEW log \in Seq(Entry), Held(logs, log)
  PROVE  Held(L, log)
<1> SUFFICES ASSUME NEW i \in 1..Len(log) PROVE Agree(log, L[log[i].term], i)
  BY DEF Held
<1> DEFINE t == log[i].term
<1>1. t \in Nat
  BY EntryIs
<1>2. Agree(log, logs[t], i) /\ Agree(logs[t], L[t], Len(logs[t]))
  BY <1>1 DEF Held, Grown
<1> HIDE DEF t
<1>3. logs[t] \in Seq(Entry) /\ L[t] \in Seq(Entry)
  BY <1>1
<1>4. i \in Nat /\ Len(logs[t]) \in Nat /\ Len(L[t]) \in Nat
  <2>1. Len(log) \in Nat
    OBVIOUS
  <2>2. i \in Nat
    BY <2>1
  <2>3. Len(logs[t]) \in Nat /\ Len(L[t]) \in Nat
    BY <1>3, LenProperties
  <2> QED
    BY <2>2, <2>3
<1>5. Agree(log, L[t], i)
  <2> DEFINE a == logs[t]
             b == L[t]
  <2>1. Agree(log, a, i) /\ Agree(a, b, Len(a)) /\ i \in Nat /\ Len(a) \in Nat /\ Len(b) \in Nat
    BY <1>2, <1>4
  <2> HIDE DEF a, b
  <2>2. i <= Len(log) /\ i <= Len(a) /\ Len(a) <= Len(b)
    BY <2>1 DEF Agree
  <2>3. i <= Len(b)
    BY <2>1, <2>2
  <2>4. \A j \in 1..i : log[j] = a[j] /\ j \in 1..Len(a)
    BY <2>1, <2>2 DEF Agree
  <2>5. \A j \in 1..i : log[j] = b[j]
    BY <2>1, <2>4 DEF Agree
  <2>6. Agree(log, b, i)
    BY <2>2, <2>3, <2>5 DEF Agree
  <2> QED
    BY <2>6 DEF b
<1> QED
  BY <1>5 DEF t

\* An entry of a log is the one its leader has there.
LEMMA HeldIs ==
  ASSUME NEW logs, LogsOK(logs), NEW log \in Seq(Entry), Held(logs, log),
         NEW i \in Nat, NEW t \in Nat, Has(log, i, t)
  PROVE  Agree(log, logs[t], i) /\ Has(logs[t], i, t)
<1>1. i \in 1..Len(log) /\ log[i].term = t
  BY DEF Has
<1>2. Agree(log, logs[t], i)
  BY <1>1 DEF Held
<1>3. logs[t] \in Seq(Entry)
  BY LeadersLog
<1>4. i \in 1..Len(logs[t]) /\ logs[t][i] = log[i]
  BY <1>1, <1>2, <1>3 DEF Agree
<1> QED
  BY <1>1, <1>2, <1>4 DEF Has

\* Two logs with an entry of the same term at the same index agree up to it.
LEMMA HeldAgree ==
  ASSUME NEW logs, LogsOK(logs), NEW log \in Seq(Entry), Held(logs, log),
         NEW other \in Seq(Entry), Held(logs, other),
         NEW i \in Nat, NEW t \in Nat, Has(log, i, t), Has(other, i, t)
  PROVE  Agree(log, other, i)
<1>1. Agree(log, logs[t], i) /\ Agree(other, logs[t], i) /\ logs[t] \in Seq(Entry)
  BY HeldIs, LeadersLog
<1> QED
  BY <1>1 DEF Agree

LEMMA HeldAscends ==
  ASSUME NEW logs, LogsOK(logs), NEW log \in Seq(Entry), Held(logs, log)
  PROVE  Ascending(log)
<1> SUFFICES ASSUME NEW i \in 1..Len(log), NEW j \in 1..Len(log), i <= j
             PROVE  log[i].term <= log[j].term
  BY DEF Ascending
<1> DEFINE t == log[j].term
<1>1. t \in Nat /\ Agree(log, logs[t], j)
  BY EntryIs DEF Held
<1> HIDE DEF t
<1>2. i \in 1..Len(logs[t]) /\ log[i] = logs[t][i]
  BY <1>1, LeadersLog DEF Agree
<1>3. logs[t][i].term <= t
  BY <1>1, <1>2, LeadersLog
<1> QED
  BY <1>2, <1>3 DEF t

\* The first entries of a log that took all it has from leaders.
LEMMA HeldPrefix ==
  ASSUME NEW logs, LogsOK(logs), NEW log \in Seq(Entry), Held(logs, log),
         NEW first \in Seq(Entry), Agree(first, log, Len(first))
  PROVE  Held(logs, first)
<1> SUFFICES ASSUME NEW i \in 1..Len(first) PROVE Agree(first, logs[first[i].term], i)
  BY DEF Held
<1>1. i \in 1..Len(log) /\ first[i] = log[i] /\ Agree(first, log, i)
  BY DEF Agree
<1>2. log[i].term \in Nat /\ Agree(log, logs[log[i].term], i)
  BY <1>1, EntryIs DEF Held
<1>3. logs[log[i].term] \in Seq(Entry)
  BY <1>2, LeadersLog
<1> QED
  BY <1>1, <1>2, <1>3 DEF Agree

\* A log that has the entry before those of a leader, as the leader has it, takes them: it is
\* the leader's log then up to the last of them.
CanFollow(log, lead, prev, entries) ==
  /\ prev \in Nat /\ prev <= Len(log) /\ TermAt(log, prev) = TermAt(lead, prev)
  /\ entries \in Seq(Entry) /\ prev + Len(entries) <= Len(lead)
  /\ \A i \in 1..Len(entries) : entries[i] = lead[prev + i]

Takes(over, log, lead, prev, entries) ==
  \/ over = log
  \/ /\ Len(over) = prev + Len(entries)
     /\ \E k \in 1..Len(entries) : /\ \A j \in 1..prev + k - 1 : j <= Len(log) /\ log[j] = lead[j]
                                   /\ ~ Has(log, prev + k, lead[prev + k].term)

LEMMA OverwrittenHeld ==
  ASSUME NEW logs, LogsOK(logs), NEW log \in Seq(Entry), Held(logs, log), NEW t \in Nat,
         NEW prev, NEW entries, CanFollow(log, logs[t], prev, entries)
  PROVE  /\ Overwritten(log, prev, entries) \in Seq(Entry)
         /\ Held(logs, Overwritten(log, prev, entries))
         /\ Agree(Overwritten(log, prev, entries), logs[t], prev + Len(entries))
         /\ Takes(Overwritten(log, prev, entries), log, logs[t], prev, entries)
<1>a. /\ prev \in Nat /\ prev <= Len(log) /\ TermAt(log, prev) = TermAt(logs[t], prev)
      /\ entries \in Seq(Entry) /\ prev + Len(entries) <= Len(logs[t])
      /\ \A i \in 1..Len(entries) : entries[i] = logs[t][prev + i]
  BY DEF CanFollow
<1> USE <1>a
<1> DEFINE over == Overwritten(log, prev, entries)
           lead == logs[t]
<1>0. lead \in Seq(Entry) /\ Held(logs, lead) /\ Len(entries) \in Nat /\ Len(log) \in Nat /\ Len(lead) \in Nat
  BY LeadersLog
<1>1. Agree(log, lead, prev)
  <2>1. CASE prev = 0
    BY <1>0, <2>1 DEF Agree
  <2>2. CASE prev # 0
    <3>1. log[prev].term = lead[prev].term /\ prev \in 1..Len(log) /\ prev \in 1..Len(lead)
      BY <1>0, <2>2 DEF TermAt
    <3> HIDE DEF lead
    <3>2. Has(log, prev, lead[prev].term) /\ Has(lead, prev, lead[prev].term) /\ lead[prev].term \in Nat
      BY <1>0, <3>1, EntryIs DEF Has
    <3> QED
      BY <1>0, <3>2, HeldAgree
  <2> QED
    BY <2>1, <2>2
<1> HIDE DEF lead
<1>2. ASSUME NEW k \in Nat, k <= Len(entries), \A i \in 1..k : Has(log, prev + i, entries[i].term)
      PROVE  Agree(log, lead, prev + k)
  <2>1. CASE k = 0
    BY <1>0, <1>1, <2>1
  <2>2. CASE k # 0
    <3>1. Has(log, prev + k, entries[k].term) /\ k \in 1..Len(entries)
      BY <1>0, <1>2, <2>2
    <3>2. entries[k] = lead[prev + k] /\ prev + k \in 1..Len(lead) /\ prev + k \in Nat
      BY <1>0, <3>1 DEF lead
    <3>3. entries[k].term \in Nat /\ Has(lead, prev + k, entries[k].term)
      BY <3>1, <3>2, EntryIs DEF Has
    <3> QED
      BY <1>0, <3>1, <3>2, <3>3, HeldAgree
  <2> QED
    BY <2>1, <2>2
<1>3. CASE over = log /\ \A i \in 1..Len(entries) : Has(log, prev + i, entries[i].term)
  <2>1. Agree(log, lead, prev + Len(entries))
    BY <1>0, <1>2, <1>3
  <2> QED
    BY <1>3, <2>1 DEF lead, Takes
<1>4. ASSUME NEW k \in 1..Len(entries),
             \A i \in 1..k - 1 : Has(log, prev + i, entries[i].term),
             ~ Has(log, prev + k, entries[k].term),
             over \in Seq(Entry), Len(over) = prev + Len(entries),
             \A j \in 1..prev + k - 1 : j <= Len(log) /\ over[j] = log[j],
             \A j \in k..Len(entries) : over[prev + j] = entries[j]
      PROVE  /\ Held(logs, over) /\ Agree(over, lead, prev + Len(entries))
             /\ \A j \in 1..prev + k - 1 : j <= Len(log) /\ log[j] = lead[j]
             /\ ~ Has(log, prev + k, lead[prev + k].term)
  <2> HIDE DEF over
  <2>1. k - 1 \in Nat /\ k - 1 <= Len(entries) /\ prev + (k - 1) = prev + k - 1
    BY <1>0
  <2>2. Agree(log, lead, prev + k - 1)
    BY <1>2, <1>4, <2>1
  <2>3. \A j \in 1..prev + k - 1 : over[j] = lead[j]
    BY <1>4, <2>2 DEF Agree
  <2>4. ASSUME NEW j \in prev + k..prev + Len(entries)
        PROVE  over[j] = lead[j]
    <3>1. j - prev \in k..Len(entries) /\ prev + (j - prev) = j /\ j - prev \in 1..Len(entries)
      BY <1>0
    <3>2. over[prev + (j - prev)] = entries[j - prev] /\ entries[j - prev] = lead[prev + (j - prev)]
      BY <1>4, <3>1 DEF lead
    <3> QED
      BY <3>1, <3>2
  <2>5. \A j \in 1..prev + Len(entries) : over[j] = lead[j]
    <3>1. \A j \in 1..prev + Len(entries) : j \in 1..prev + k - 1 \/ j \in prev + k..prev + Len(entries)
      BY <1>0
    <3> QED
      BY <2>3, <2>4, <3>1
  <2>6. Agree(over, lead, prev + Len(entries))
    BY <1>0, <1>4, <2>5 DEF Agree, lead
  <2>7. Held(logs, over)
    BY <1>0, <1>4, <2>6, HeldPrefix
  <2>8. entries[k] = lead[prev + k]
    BY DEF lead
  <2> QED
    BY <1>4, <2>2, <2>6, <2>7, <2>8 DEF Agree
<1>5. \/ over = log /\ \A i \in 1..Len(entries) : Has(log, prev + i, entries[i].term)
      \/ \E k \in 1..Len(entries) :
           /\ \A i \in 1..k - 1 : Has(log, prev + i, entries[i].term)
           /\ ~ Has(log, prev + k, entries[k].term)
           /\ over \in Seq(Entry) /\ Len(over) = prev + Len(entries)
           /\ \A j \in 1..prev + k - 1 : j <= Len(log) /\ over[j] = log[j]
           /\ \A j \in k..Len(entries) : over[prev + j] = entries[j]
  <2>1. entries \in Seq(Entry) /\ prev \in Nat /\ prev <= Len(log)
    BY DEF CanFollow
  <2>2. \/ /\ Overwritten(log, prev, entries) = log
           /\ \A i \in 1..Len(entries) : Has(log, prev + i, entries[i].term)
        \/ \E k \in 1..Len(entries) :
             /\ \A i \in 1..k - 1 : Has(log, prev + i, entries[i].term)
             /\ ~ Has(log, prev + k, entries[k].term)
             /\ Overwritten(log, prev, entries) \in Seq(Entry)
             /\ Len(Overwritten(log, prev, entries)) = prev + Len(entries)
             /\ \A j \in 1..prev + k - 1 : j <= Len(log) /\ Overwritten(log, prev, entries)[j] = log[j]
             /\ \A j \in k..Len(entries) : Overwritten(log, prev, entries)[prev + j] = entries[j]
    BY <2>1, OverwrittenIs
  <2> QED
    BY <2>2, Zenon
<1> HIDE DEF over
<1>6. \/ over = log /\ \A i \in 1..Len(entries) : Has(log, prev + i, entries[i].term)
      \/ /\ over \in Seq(Entry) /\ Len(over) = prev + Len(entries)
         /\ Held(logs, over) /\ Agree(over, lead, prev + Len(entries))
         /\ \E k \in 1..Len(entries) : /\ \A j \in 1..prev + k - 1 : j <= Len(log) /\ log[j] = lead[j]
                                       /\ ~ Has(log, prev + k, lead[prev + k].term)
  BY <1>4, <1>5
<1>7. CASE ~(over = log /\ \A i \in 1..Len(entries) : Has(log, prev + i, entries[i].term))
  BY <1>6, <1>7 DEF over, lead, Takes
<1> QED
  BY <1>3, <1>7

\* A request carries part of the log of the leader of its term.
RequestOK(logs, m) ==
  /\ m.prev + Len(m.entries) <= Len(logs[m.term])
  /\ m.prevTerm = TermAt(logs[m.term], m.prev)
  /\ \A i \in 1..Len(m.entries) : m.entries[i] = logs[m.term][m.prev + i]
  /\ m.call.k = "write" => /\ m.call.term = m.term /\ m.call.index <= m.prev + Len(m.entries)
                           /\ Has(logs[m.term], m.call.index, m.term)

\* A refusal comes from a later term, or asks for entries that there are.
RefusalOK(logs, m) ==
  m.call.k = "write" /\ ~m.success =>
    m.term > m.call.term \/ m.conflict <= Len(logs[m.call.term]) + 1

MessagesFit(logs) ==
  \A m \in net : /\ m.type = "append" => RequestOK(logs, m)
                 /\ m.type = "appended" => RefusalOK(logs, m)

\* A call is about an entry that its node, elected in that term, put into its log.
CallsFit(logs) ==
  \A c \in calls : <<c.id.term, c.node>> \in elected /\ Has(logs[c.id.term], c.id.index, c.id.term)

NodesFit(logs) ==
  /\ \A n \in Node : /\ Held(logs, LogOf(n)) /\ \A i \in 1..Len(LogOf(n)) : LogOf(n)[i].term <= TermOf(n)
                     /\ Leads(n) => logs[TermOf(n)] = LogOf(n)
  /\ \A t \in Nat : logs[t] # <<>> => \E n \in Node : <<t, n>> \in elected

LogsInv(logs) == LogsOK(logs) /\ NodesFit(logs) /\ MessagesFit(logs) /\ CallsFit(logs)

LEMMA CallsAreInRange ==
  ASSUME BaseInv, NEW logs, LogsInv(logs)
  PROVE  CallsInRange
<1> SUFFICES ASSUME NEW c \in calls, Leads(c.node), node[c.node].term = c.id.term
             PROVE  c.id.index <= Len(node[c.node].log)
  BY DEF CallsInRange
<1>1. c.node \in Node
  BY DEF BaseInv, Call
<1>2. Running(c.node)
  BY DEF BaseInv
<1>3. TermOf(c.node) = c.id.term /\ LogOf(c.node) = node[c.node].log
  BY <1>1, <1>2, RunningInSync
<1>4. logs[c.id.term] = node[c.node].log
  BY <1>1, <1>3 DEF LogsInv, NodesFit
<1>5. Has(logs[c.id.term], c.id.index, c.id.term)
  BY DEF LogsInv, CallsFit
<1>6. c.id.index \in 1..Len(node[c.node].log)
  BY <1>4, <1>5 DEF Has
<1> QED
  BY <1>6

\* What a leader asks of others is in its log.
LEMMA RequestFits ==
  ASSUME BaseInv, NEW logs, LogsInv(logs), NEW m, IsRequest(m), m.prev <= Len(node[m.from].log),
         m.call.k = "write" => m.call.term = m.term /\ Has(node[m.from].log, m.call.index, m.term)
  PROVE  RequestOK(logs, m)
<1>1. m.from \in Node /\ Leads(m.from) /\ Running(m.from)
  BY DEF IsRequest, MessageOK, Leads, Running
<1>2. logs[TermOf(m.from)] = LogOf(m.from)
  BY <1>1 DEF LogsInv, NodesFit
<1>3. logs[m.term] = node[m.from].log
  BY <1>1, <1>2, RunningInSync DEF IsRequest
<1>4. m.prev + Len(m.entries) = Len(node[m.from].log)
  BY DEF IsRequest
<1>5. Len(node[m.from].log) \in Nat
  BY <1>1, RunningInSync, LogsOnDisk
<1> QED
  BY <1>3, <1>4, <1>5 DEF IsRequest, RequestOK, Has

\* What was said stays true when leaders' logs grow.
LEMMA MessagesStayFit ==
  ASSUME BaseInv, NEW logs, LogsInv(logs), NEW L, LogsOK(L), Grown(logs, L), NEW m \in net
  PROVE  /\ m.type = "append" => RequestOK(L, m)
         /\ m.type = "appended" => RefusalOK(L, m)
<1>1. CASE m.type = "append"
  <2> DEFINE a == logs[m.term]
             b == L[m.term]
  <2>1. /\ m.term \in Nat /\ m.prev \in Nat /\ m.entries \in Seq(Entry)
    BY <1>1 DEF BaseInv, MessageOK
  <2>2. a \in Seq(Entry) /\ b \in Seq(Entry) /\ Agree(a, b, Len(a))
    BY <2>1, LeadersLog DEF LogsInv, Grown
  <2>3. /\ m.prev + Len(m.entries) <= Len(a) /\ m.prevTerm = TermAt(a, m.prev)
        /\ \A i \in 1..Len(m.entries) : m.entries[i] = a[m.prev + i]
        /\ m.call.k = "write" => /\ m.call.term = m.term /\ m.call.index <= m.prev + Len(m.entries)
                                 /\ Has(a, m.call.index, m.term)
    BY <1>1 DEF LogsInv, MessagesFit, RequestOK
  <2> HIDE DEF a, b
  <2>4. Len(a) \in Nat /\ Len(b) \in Nat /\ Len(m.entries) \in Nat /\ Len(a) <= Len(b)
    BY <2>1, <2>2, LenProperties DEF Agree
  <2>5. \A j \in 1..Len(a) : a[j] = b[j]
    BY <2>2 DEF Agree
  <2>6. m.prev + Len(m.entries) <= Len(b)
    BY <2>1, <2>3, <2>4
  <2>7. TermAt(b, m.prev) = TermAt(a, m.prev)
    <3>1. m.prev + Len(m.entries) <= Len(a)
      BY <2>3
    <3>2. m.prev = 0 \/ m.prev \in 1..Len(a)
      BY <2>1, <2>4, <3>1
    <3> QED
      BY <2>5, <3>2 DEF TermAt
  <2>8. \A i \in 1..Len(m.entries) : m.prev + i \in 1..Len(a)
    BY <2>1, <2>3, <2>4
  <2>9. \A i \in 1..Len(m.entries) : m.entries[i] = b[m.prev + i]
    BY <2>3, <2>5, <2>8
  <2>10. m.call.k = "write" => Has(b, m.call.index, m.term)
    BY <2>3, <2>4, <2>5 DEF Has
  <2> QED
    BY <1>1, <2>3, <2>6, <2>7, <2>9, <2>10 DEF RequestOK, b
<1>2. CASE m.type = "appended"
  <2> SUFFICES ASSUME m.call.k = "write", ~m.success
               PROVE  m.term > m.call.term \/ m.conflict <= Len(L[m.call.term]) + 1
    BY <1>2 DEF RefusalOK
  <2> DEFINE a == logs[m.call.term]
             b == L[m.call.term]
  <2>1. m.call \in WriteId /\ m.conflict \in Nat /\ m.term \in Nat
    BY <1>2 DEF BaseInv, MessageOK, CallIdOK
  <2>2. m.call.term \in Nat
    BY <2>1 DEF WriteId
  <2>3. a \in Seq(Entry) /\ b \in Seq(Entry) /\ Agree(a, b, Len(a))
    BY <2>2, LeadersLog DEF LogsInv, Grown
  <2>4. m.term > m.call.term \/ m.conflict <= Len(a) + 1
    BY <1>2 DEF LogsInv, MessagesFit, RefusalOK
  <2> HIDE DEF a, b
  <2>5. Len(a) \in Nat /\ Len(b) \in Nat /\ Len(a) <= Len(b)
    BY <2>3, LenProperties DEF Agree
  <2>6. m.term > m.call.term \/ m.conflict <= Len(b) + 1
    BY <2>1, <2>4, <2>5
  <2> QED
    BY <2>6 DEF b
<1> QED
  BY <1>1, <1>2

LEMMA CallsStayFit ==
  ASSUME BaseInv, NEW logs, LogsInv(logs), NEW L, LogsOK(L), Grown(logs, L), NEW c \in calls
  PROVE  <<c.id.term, c.node>> \in elected /\ Has(L[c.id.term], c.id.index, c.id.term)
<1> DEFINE t == c.id.term
           a == logs[t]
           b == L[t]
<1>1. c \in Call
  BY DEF BaseInv
<1>2. t \in Nat
  BY <1>1, CallIds
<1> HIDE DEF t
<1>3. a \in Seq(Entry) /\ b \in Seq(Entry) /\ Agree(a, b, Len(a))
  BY <1>2, LeadersLog DEF LogsInv, Grown
<1>4. <<t, c.node>> \in elected /\ Has(a, c.id.index, t)
  BY DEF LogsInv, CallsFit, t
<1> HIDE DEF a, b
<1>5. Has(b, c.id.index, t)
  BY <1>3, <1>4 DEF Has, Agree
<1> QED
  BY <1>4, <1>5 DEF t, b

\* A step that leaves the logs and who leads them alone, and asks and answers what fits.
LogsQuiet(logs) ==
  /\ \A n \in Node : /\ LogOf(n)' = LogOf(n) /\ TermOf(n)' \in Nat /\ TermOf(n)' >= TermOf(n)
                     /\ Leads(n)' => Leads(n) /\ TermOf(n)' = TermOf(n)
  /\ elected \subseteq elected'
  /\ \A m \in net' : \/ m \in net \/ m.type \in {"vote", "voted"}
                     \/ m.type = "append" /\ RequestOK(logs, m)
                     \/ m.type = "appended" /\ RefusalOK(logs, m)
  /\ \A c \in calls' : \E d \in calls : c.node = d.node /\ c.id = d.id

LEMMA LogsKept ==
  ASSUME BaseInv, NEW logs, LogsInv(logs), LogsQuiet(logs)
  PROVE  LogsInv(logs)'
<1>1. NodesFit(logs)'
  <2>1. ASSUME NEW n \in Node
        PROVE  /\ Held(logs, LogOf(n)') /\ \A i \in 1..Len(LogOf(n)') : LogOf(n)'[i].term <= TermOf(n)'
               /\ Leads(n)' => logs[TermOf(n)'] = LogOf(n)'
    <3>1. LogOf(n)' = LogOf(n) /\ TermOf(n)' \in Nat /\ TermOf(n)' >= TermOf(n) /\ TermOf(n) \in Nat
      BY LogsOnDisk DEF LogsQuiet
    <3>2. /\ Held(logs, LogOf(n)) /\ \A i \in 1..Len(LogOf(n)) : LogOf(n)[i].term <= TermOf(n)
          /\ Leads(n) => logs[TermOf(n)] = LogOf(n)
      BY DEF LogsInv, NodesFit
    <3>3. \A i \in 1..Len(LogOf(n)) : LogOf(n)[i].term \in Nat
      BY LogsOnDisk, EntryIs
    <3> QED
      BY <3>1, <3>2, <3>3 DEF LogsQuiet
  <2>2. \A t \in Nat : logs[t] # <<>> => \E n \in Node : <<t, n>> \in elected'
    BY DEF LogsInv, NodesFit, LogsQuiet
  <2> QED
    BY <2>1, <2>2 DEF NodesFit
<1>2. MessagesFit(logs)'
  BY DEF LogsInv, MessagesFit, LogsQuiet
<1>3. CallsFit(logs)'
  BY DEF LogsInv, CallsFit, LogsQuiet
<1> QED
  BY <1>1, <1>2, <1>3 DEF LogsInv

LEMMA TurnsLogsQuiet ==
  ASSUME BaseInv, NEW logs, NEW n \in Node, NEW s, Turns(n, s), s.log = LogOf(n), s.term >= TermOf(n),
         s.role = "leader" => Leads(n) /\ s.term = TermOf(n),
         elected \subseteq elected',
         \A m \in net' : \/ m \in net \/ m.type \in {"vote", "voted"}
                         \/ m.type = "append" /\ RequestOK(logs, m)
                         \/ m.type = "appended" /\ RefusalOK(logs, m),
         \A c \in calls' : \E d \in calls : c.node = d.node /\ c.id = d.id
  PROVE  LogsQuiet(logs)
<1>1. /\ node'[n] = s /\ TermOf(n)' = s.term /\ LogOf(n)' = s.log /\ s.term \in Nat
      /\ \A x \in Node \ {n} : node'[x] = node[x] /\ TermOf(x)' = TermOf(x) /\ LogOf(x)' = LogOf(x)
  BY TurnsTo DEF Turns, State
<1>2. \A x \in Node : /\ LogOf(x)' = LogOf(x) /\ TermOf(x)' \in Nat /\ TermOf(x)' >= TermOf(x)
                      /\ Leads(x)' => Leads(x) /\ TermOf(x)' = TermOf(x)
  BY <1>1, LogsOnDisk DEF Leads
<1> QED
  BY <1>2 DEF LogsQuiet

LEMMA StaysPutLogsQuiet ==
  ASSUME BaseInv, StaysPut, NEW logs, elected' = elected,
         \A m \in net' : \/ m \in net
                         \/ m.type = "append" /\ RequestOK(logs, m)
                         \/ m.type = "appended" /\ RefusalOK(logs, m),
         \A c \in calls' : \E d \in calls : c.node = d.node /\ c.id = d.id
  PROVE  LogsQuiet(logs)
<1>1. \A x \in Node : /\ LogOf(x)' = LogOf(x) /\ TermOf(x)' = TermOf(x) /\ TermOf(x) \in Nat
                      /\ Leads(x)' = Leads(x)
  BY LogsOnDisk DEF StaysPut, TermOf, LogOf, Leads
<1> QED
  BY <1>1 DEF LogsQuiet

LEMMA StartElectionLogs ==
  ASSUME DisksWork, BaseInv, budget' = budget, NEW logs, LogsInv(logs), NEW n \in Node, StartElection(n)
  PROVE  LogsInv(logs)'
<1>1. Running(n) /\ elected' = elected /\ calls' = calls
  BY StartElectionDoes DEF StartElection, history
<1>2. PICK s : /\ Turns(n, s) /\ SameData(s, node[n]) /\ s.role = "candidate"
               /\ s.term = node[n].term + 1
               /\ \A o \in net' : o \in net \/ VoteRequest(o, n, s)
  BY StartElectionDoes
<1>3. s.log = LogOf(n) /\ s.term >= TermOf(n)
  BY <1>1, <1>2, RunningInSync, LogsOnDisk DEF SameData
<1>4. LogsQuiet(logs)
  BY <1>1, <1>2, <1>3, TurnsLogsQuiet DEF VoteRequest
<1> QED
  BY <1>4, LogsKept

LEMMA HandleRequestVoteLogs ==
  ASSUME DisksWork, BaseInv, budget' = budget, NEW logs, LogsInv(logs), NEW m, HandleRequestVote(m)
  PROVE  LogsInv(logs)'
<1>1. m.to \in Node /\ Running(m.to) /\ elected' = elected /\ calls' = calls
  BY HandleRequestVoteDoes DEF history
<1>2. PICK s : /\ Turns(m.to, s) /\ Votes(s, node[m.to], m)
               /\ \A o \in net' : o \in net \/ VoteReply(o, m.to, s, m, node[m.to])
  BY HandleRequestVoteDoes
<1>3. /\ TermOf(m.to) = node[m.to].term /\ LogOf(m.to) = node[m.to].log /\ TermOf(m.to) \in Nat
      /\ s.term \in Nat
  BY <1>1, <1>2, RunningInSync, LogsOnDisk DEF Turns, State
<1>4. s.log = LogOf(m.to) /\ s.term >= TermOf(m.to)
  BY <1>2, <1>3 DEF Votes, SameData
<1>5. s.role = "leader" => Leads(m.to) /\ s.term = TermOf(m.to)
  BY <1>2, <1>3 DEF Votes, Leads
<1>6. LogsQuiet(logs)
  BY <1>1, <1>2, <1>4, <1>5, TurnsLogsQuiet DEF VoteReply
<1> QED
  BY <1>6, LogsKept

LEMMA ReplicatedLogs ==
  ASSUME DisksWork, BaseInv, budget' = budget, NEW logs, LogsInv(logs), NEW m, Replicated(m)
  PROVE  LogsInv(logs)'
<1>0. CallsInRange
  BY CallsAreInRange
<1>1. /\ m.to \in Node /\ Running(m.to) /\ elected' = elected
      /\ m \in net /\ m.type = "appended" /\ m.call.k = "write"
  BY <1>0, ReplicatedDoes
<1>2. PICK c, s : c \in calls /\ Turns(m.to, s) /\ Learns(m, s, node[m.to], c) /\ c \in Call /\ c.node = m.to /\ c.id = m.call
  BY <1>0, ReplicatedDoes
<1>3. /\ TermOf(m.to) = node[m.to].term /\ LogOf(m.to) = node[m.to].log /\ TermOf(m.to) \in Nat
      /\ s.term \in Nat
  BY <1>1, <1>2, RunningInSync, LogsOnDisk DEF Turns, State
<1>4. s.log = LogOf(m.to) /\ s.term >= TermOf(m.to)
  BY <1>2, <1>3 DEF Learns, Decides, SameData
<1>5. s.role = "leader" => Leads(m.to) /\ s.term = TermOf(m.to)
  BY <1>2, <1>3 DEF Learns, Decides, Leads
<1>6. \A d \in calls' : \E b \in calls : d.node = b.node /\ d.id = b.id
  BY <1>2 DEF Learns
<1>7. ASSUME NEW x \in net', x \notin net
      PROVE  x.type = "append" /\ RequestOK(logs, x)
  <2>1. /\ ~m.success /\ m.term <= node[m.to].term /\ node[m.to].role = "leader" /\ node[m.to].term = c.id.term
        /\ IsRequest(x) /\ x.from = m.to /\ x.call = c.id /\ x.prev = m.conflict - 1
    BY <1>2, <1>7 DEF Learns
  <2>2. RefusalOK(logs, m) /\ MessageOK(m)
    BY <1>1 DEF LogsInv, MessagesFit, BaseInv
  <2>3. m.conflict <= Len(logs[c.id.term]) + 1 /\ m.conflict \in Nat
    BY <1>1, <1>2, <1>3, <2>1, <2>2 DEF RefusalOK, MessageOK
  <2>4. logs[c.id.term] = node[m.to].log
    BY <1>1, <1>3, <2>1 DEF LogsInv, NodesFit, Leads
  <2>5. Has(node[m.to].log, c.id.index, c.id.term)
    BY <1>2, <2>4 DEF LogsInv, CallsFit
  <2>6. x.prev <= Len(node[m.to].log)
    BY <1>1, <1>3, <2>1, <2>3, <2>4, LogsOnDisk, LenProperties
  <2>7. x.term = c.id.term /\ x.type = "append"
    BY <2>1 DEF IsRequest
  <2> QED
    BY <2>1, <2>5, <2>6, <2>7, RequestFits
<1>8. LogsQuiet(logs)
  BY <1>1, <1>2, <1>4, <1>5, <1>6, <1>7, TurnsLogsQuiet
<1> QED
  BY <1>8, LogsKept

LEMMA RestartLogs ==
  ASSUME DisksWork, BaseInv, budget' = budget, NEW logs, LogsInv(logs), NEW n \in Node, Restart(n)
  PROVE  LogsInv(logs)'
<1>1. UNCHANGED <<calls, net, elected>>
  BY RestartDoes DEF history
<1>2. PICK s : Turns(n, s) /\ s.role = "follower" /\ s.term = TermOf(n) /\ s.log = LogOf(n)
  BY RestartDoes
<1>3. s.term >= TermOf(n)
  BY <1>2, LogsOnDisk
<1>4. LogsQuiet(logs)
  BY <1>1, <1>2, <1>3, TurnsLogsQuiet
<1> QED
  BY <1>4, LogsKept

LEMMA CrashLogs ==
  ASSUME DisksWork, BaseInv, budget' = budget, NEW logs, LogsInv(logs), NEW n \in Node, Crash(n)
  PROVE  LogsInv(logs)'
<1>1. /\ UNCHANGED <<file, meta, elected>> /\ node' = [node EXCEPT ![n] = Off]
      /\ net' \subseteq net /\ calls' \subseteq calls
  BY CrashDoes DEF durable, history
<1>2. \A x \in Node : /\ LogOf(x)' = LogOf(x) /\ TermOf(x)' = TermOf(x) /\ TermOf(x) \in Nat
                      /\ Leads(x)' => Leads(x)
  BY <1>1, LogsOnDisk DEF LogOf, TermOf, Leads, BaseInv, Off
<1>3. LogsQuiet(logs)
  BY <1>1, <1>2 DEF LogsQuiet
<1> QED
  BY <1>3, LogsKept

LEMMA RestLogs ==
  ASSUME DisksWork, BaseInv, budget' = budget, used.reads \in Nat, NEW logs, LogsInv(logs),
         \/ \E c \in calls : \E p \in c.todo : Replicate(c, p)
         \/ \E n \in Node : Heartbeat(n) \/ StartRead(n) \/ Snapshot(n)
         \/ \E m \in net : ReadConfirmed(m)
  PROVE  LogsInv(logs)'
<1>0. ASSUME NEW x, IsRequest(x), x.call.k # "write", x.prev = Len(node[x.from].log)
      PROVE  x.type = "append" /\ RequestOK(logs, x)
  <2>1. x.from \in Node /\ Running(x.from) /\ x.type = "append"
    BY <1>0 DEF IsRequest, MessageOK, Leads, Running
  <2>2. Len(node[x.from].log) \in Nat
    BY <2>1, RunningInSync, LogsOnDisk
  <2> QED
    BY <1>0, <2>1, <2>2, RequestFits
<1>1. ASSUME NEW c \in calls, NEW p \in c.todo, Replicate(c, p)
      PROVE  LogsQuiet(logs)
  <2>1. StaysPut /\ elected' = elected /\ c \in Call /\ Leads(c.node) /\ node[c.node].term = c.id.term
    BY <1>1, ReplicateDoes DEF history
  <2>2. \A x \in net' : x \in net \/ (IsRequest(x) /\ x.from = c.node /\ x.call = c.id /\ x.prev < Len(node[c.node].log))
    BY <1>1, ReplicateDoes
  <2>3. \A d \in calls' : \E b \in calls : d.node = b.node /\ d.id = b.id
    BY <1>1, ReplicateDoes
  <2>4. Has(node[c.node].log, c.id.index, c.id.term)
    <3>1. c.node \in Node /\ Running(c.node)
      BY <2>1 DEF Call, Leads, Running
    <3>2. logs[c.id.term] = node[c.node].log
      BY <2>1, <3>1, RunningInSync DEF LogsInv, NodesFit
    <3> QED
      BY <3>2 DEF LogsInv, CallsFit
  <2>5. ASSUME NEW x \in net', x \notin net
        PROVE  x.type = "append" /\ RequestOK(logs, x)
    <3>1. IsRequest(x) /\ x.from = c.node /\ x.call = c.id /\ x.prev < Len(node[c.node].log)
      BY <2>2, <2>5
    <3>2. x.term = c.id.term /\ x.type = "append" /\ x.prev \in Nat
      BY <2>1, <3>1 DEF IsRequest, MessageOK
    <3>3. Len(node[c.node].log) \in Nat
      BY <2>1, RunningInSync, LogsOnDisk DEF Call, Leads, Running
    <3>4. x.prev <= Len(node[x.from].log)
      BY <3>1, <3>2, <3>3
    <3> QED
      BY <2>1, <2>4, <3>1, <3>2, <3>4, RequestFits
  <2> QED
    BY <2>1, <2>3, <2>5, StaysPutLogsQuiet
<1>2. ASSUME NEW n \in Node, Heartbeat(n)
      PROVE  LogsQuiet(logs)
  <2>1. StaysPut /\ elected' = elected /\ calls' = calls
    BY <1>2, HeartbeatDoes DEF history, volatile
  <2>2. \A x \in net' : x \in net \/ (IsRequest(x) /\ x.call.k # "write" /\ x.prev = Len(node[x.from].log))
    BY <1>2, HeartbeatDoes
  <2> QED
    BY <1>0, <2>1, <2>2, StaysPutLogsQuiet
<1>3. ASSUME NEW n \in Node, StartRead(n)
      PROVE  LogsQuiet(logs)
  <2>1. StaysPut /\ elected' = elected /\ calls' = calls
    BY <1>3, StartReadDoes DEF history
  <2>2. \A x \in net' : x \in net \/ (IsRequest(x) /\ x.call.k # "write" /\ x.prev = Len(node[x.from].log))
    BY <1>3, StartReadDoes
  <2> QED
    BY <1>0, <2>1, <2>2, StaysPutLogsQuiet
<1>4. ASSUME NEW n \in Node, Snapshot(n)
      PROVE  LogsQuiet(logs)
  <2>1. StaysPut /\ UNCHANGED <<calls, elected, net>>
    BY <1>4, SnapshotDoes DEF history, volatile
  <2> QED
    BY <2>1, StaysPutLogsQuiet
<1>5. ASSUME NEW m \in net, ReadConfirmed(m)
      PROVE  LogsQuiet(logs)
  <2>1. StaysPut /\ UNCHANGED <<calls, elected>> /\ net' \subseteq net
    BY <1>5, ReadConfirmedDoes DEF history
  <2> QED
    BY <2>1, StaysPutLogsQuiet
<1> QED
  BY <1>1, <1>2, <1>3, <1>4, <1>5, LogsKept

\* Leaders' logs grow, and nodes have what leaders had.
LEMMA LogsStep ==
  ASSUME BaseInv, NEW logs, LogsInv(logs), NEW L, LogsOK(L), Grown(logs, L), elected \subseteq elected',
         \A n \in Node : /\ Held(L, LogOf(n)') /\ \A i \in 1..Len(LogOf(n)') : LogOf(n)'[i].term <= TermOf(n)'
                         /\ Leads(n)' => L[TermOf(n)'] = LogOf(n)',
         \A t \in Nat : L[t] # <<>> => \E n \in Node : <<t, n>> \in elected',
         \A m \in net' : \/ m \in net \/ m.type \in {"vote", "voted"}
                         \/ m.type = "append" /\ RequestOK(L, m)
                         \/ m.type = "appended" /\ RefusalOK(L, m),
         \A c \in calls' : \/ c \in calls
                           \/ <<c.id.term, c.node>> \in elected' /\ Has(L[c.id.term], c.id.index, c.id.term)
  PROVE  LogsInv(L)'
<1>1. NodesFit(L)'
  BY DEF NodesFit
<1>2. MessagesFit(L)'
  BY MessagesStayFit DEF MessagesFit
<1>3. CallsFit(L)'
  BY CallsStayFit DEF CallsFit
<1> QED
  BY <1>1, <1>2, <1>3 DEF LogsInv

\* A log with which the leader of term t can go on.
LeadsWith(logs, t, log, L) ==
  /\ L = [logs EXCEPT ![t] = log]
  /\ log \in Seq(Entry) /\ Agree(logs[t], log, Len(logs[t]))
  /\ \A i \in 1..Len(log) : log[i].term <= t /\ (log[i].term = t \/ Agree(log, logs[log[i].term], i))

LEMMA GrowLog ==
  ASSUME NEW logs, LogsOK(logs), NEW t \in Nat, NEW log, NEW L, LeadsWith(logs, t, log, L)
  PROVE  LogsOK(L) /\ Grown(logs, L) /\ L[t] = log /\ \A u \in Nat \ {t} : L[u] = logs[u]
<1>0. /\ L = [logs EXCEPT ![t] = log]
      /\ log \in Seq(Entry) /\ Agree(logs[t], log, Len(logs[t]))
      /\ \A i \in 1..Len(log) : log[i].term <= t /\ (log[i].term = t \/ Agree(log, logs[log[i].term], i))
  BY DEF LeadsWith
<1>1. logs \in [Nat -> Seq(Entry)] /\ L \in [Nat -> Seq(Entry)]
  BY <1>0 DEF LogsOK
<1>2. L[t] = log /\ \A u \in Nat \ {t} : L[u] = logs[u]
  BY <1>0, <1>1
<1>3. Grown(logs, L)
  <2> SUFFICES ASSUME NEW u \in Nat PROVE Agree(logs[u], L[u], Len(logs[u]))
    BY DEF Grown
  <2>1. CASE u = t
    BY <1>0, <1>2, <2>1
  <2>2. CASE u # t
    <3>1. L[u] = logs[u] /\ logs[u] \in Seq(Entry)
      BY <1>1, <1>2, <2>2
    <3>2. Len(logs[u]) \in Nat
      BY <3>1, LenProperties
    <3> QED
      BY <3>1, <3>2 DEF Agree
  <2> QED
    BY <2>1, <2>2
<1>4. ASSUME NEW a \in Seq(Entry), NEW u \in Nat, NEW i \in 1..Len(a), Agree(a, logs[u], i)
      PROVE  Agree(a, L[u], i)
  <2>1. logs[u] \in Seq(Entry) /\ L[u] \in Seq(Entry) /\ Agree(logs[u], L[u], Len(logs[u]))
    BY <1>1, <1>3 DEF Grown
  <2> DEFINE b == logs[u]
             c == L[u]
  <2>2. Agree(a, b, i) /\ Agree(b, c, Len(b)) /\ b \in Seq(Entry) /\ c \in Seq(Entry)
    BY <1>4, <2>1
  <2> HIDE DEF b, c
  <2>3. Len(b) \in Nat /\ Len(c) \in Nat /\ Len(a) \in Nat
    BY <2>2, LenProperties
  <2>4. i \in Nat /\ i <= Len(a) /\ i <= Len(b) /\ Len(b) <= Len(c)
    BY <2>2, <2>3 DEF Agree
  <2>5. \A j \in 1..i : a[j] = b[j] /\ j \in 1..Len(b)
    BY <2>2, <2>3, <2>4 DEF Agree
  <2>6. \A j \in 1..i : a[j] = c[j]
    BY <2>2, <2>5 DEF Agree
  <2>7. Agree(a, c, i)
    BY <2>3, <2>4, <2>6 DEF Agree
  <2> QED
    BY <2>7 DEF c
<1>5. ASSUME NEW u \in Nat
      PROVE  Held(L, L[u]) /\ \A i \in 1..Len(L[u]) : L[u][i].term <= u
  <2>1. CASE u = t
    <3>1. ASSUME NEW i \in 1..Len(log)
          PROVE  Agree(log, L[log[i].term], i)
      <4>1. log[i].term \in Nat
        BY <1>0, EntryIs
      <4>2. CASE log[i].term = t
        BY <1>0, <1>2, <4>2, LenProperties DEF Agree
      <4>3. CASE Agree(log, logs[log[i].term], i)
        BY <1>0, <1>4, <4>1, <4>3
      <4> QED
        BY <1>0, <4>2, <4>3
    <3> QED
      BY <1>0, <1>2, <2>1, <3>1 DEF Held
  <2>2. CASE u # t
    <3>1. L[u] = logs[u] /\ logs[u] \in Seq(Entry) /\ Held(logs, logs[u])
          /\ \A i \in 1..Len(logs[u]) : logs[u][i].term <= u
      BY <1>2, <2>2, LeadersLog
    <3>2. Held(L, logs[u])
      BY <1>1, <1>3, <3>1, HeldGrows
    <3> QED
      BY <3>1, <3>2
  <2> QED
    BY <2>1, <2>2
<1> QED
  BY <1>1, <1>2, <1>3, <1>5 DEF LogsOK

\* What a candidate counts is votes given to it.
LEMMA CountIs ==
  ASSUME BaseInv, NEW given, VotesInv(given), NEW m \in net, m.type = "voted"
  PROVE  Count(m) \in SUBSET VotersOf(given, m.to, votes[m.to].term)
<1>0. m.to \in Node /\ m.from \in Node
  BY DEF BaseInv, MessageOK
<1>1. votes[m.to].from \in SUBSET Node /\ \A x \in votes[m.to].from : <<x, m.to, votes[m.to].term>> \in given
  BY <1>0 DEF BaseInv, VotesInv, CountedOK
<1>2. m.granted => <<m.from, m.to, votes[m.to].term>> \in given
  BY DEF VotesInv, CountedOK
<1> QED
  BY <1>0, <1>1, <1>2 DEF Count, VotersOf

\* Nobody was elected in a term before who wins it.
LEMMA WinnerIsFirst ==
  ASSUME BaseInv, NEW given, VotesInv(given), NEW m \in net, m.type = "voted", Majority(Count(m)),
         node[m.to].role = "candidate", TermOf(m.to) = votes[m.to].term, NEW p \in Node
  PROVE  <<TermOf(m.to), p>> \notin elected
<1> SUFFICES ASSUME <<TermOf(m.to), p>> \in elected PROVE FALSE
  OBVIOUS
<1> DEFINE t == TermOf(m.to)
<1>1. m.to \in Node
  BY DEF BaseInv, MessageOK
<1>2. t \in Nat
  BY <1>1, LogsOnDisk
<1>3. Count(m) \in SUBSET VotersOf(given, m.to, t)
  BY CountIs
<1>4. Majority(VotersOf(given, p, t))
  BY DEF VotesInv, ElectedOK
<1> HIDE DEF t
<1>5. VotersOf(given, m.to, t) \in SUBSET Node /\ VotersOf(given, p, t) \in SUBSET Node
  BY DEF VotersOf
<1>6. PICK x \in Count(m) : x \in VotersOf(given, p, t)
  BY <1>3, <1>4, <1>5, MajoritiesMeet
<1>7. p = m.to
  BY <1>1, <1>2, <1>3, <1>6 DEF VotersOf, VotesInv, GivenOK
<1> QED
  BY <1>1, <1>7 DEF VotesInv, ElectedOK

\* Who wins an election leads with the log it has.
LEMMA CountVoteLogs ==
  ASSUME DisksWork, BaseInv, budget' = budget, NEW given, VotesInv(given), NEW logs, LogsInv(logs),
         NEW m, CountVote(m), NEW s, Turns(m.to, s), SameData(s, node[m.to]), VoteCounted(m, m.to, s),
         NEW L, L = IF elected' = elected THEN logs ELSE [logs EXCEPT ![TermOf(m.to)] = LogOf(m.to)]
  PROVE  LogsInv(L)' /\ Grown(logs, L)
<1> DEFINE n == m.to
           t == TermOf(n)
<1>1. m \in net /\ m.type = "voted" /\ n \in Node /\ Running(n) /\ net' \subseteq net /\ calls' = calls
  BY CountVoteDoes
<1>2. /\ TermOf(n) = node[n].term /\ LogOf(n) = node[n].log /\ TermOf(n) \in Nat /\ LogOf(n) \in Seq(Entry)
      /\ s.term \in Nat
  BY <1>1, RunningInSync, LogsOnDisk DEF Turns, State
<1>3. s.log = LogOf(n) /\ s.term >= TermOf(n)
  BY <1>1, <1>2 DEF SameData, VoteCounted
<1>4. CASE elected' = elected
  <2>1. L = logs
    BY <1>4
  <2>2. <<TermOf(n), n>> \notin elected \/ Leads(n) \/ node[n].role # "candidate"
    BY <1>1 DEF VotesInv, ElectedOK
  <2>3. s.role = "leader" => Leads(n) /\ s.term = TermOf(n)
    <3>1. CASE s.role = "leader" /\ s.term = node[n].term /\ node[n].role = "candidate" /\ elected' = elected \cup {<<s.term, n>>}
      <4>1. <<s.term, n>> \in elected'
        BY <3>1
      <4> QED
        BY <1>2, <1>4, <2>2, <3>1, <4>1 DEF Leads
    <3>2. CASE s = node[n]
      BY <1>2, <3>2 DEF Leads
    <3> QED
      BY <3>1, <3>2 DEF VoteCounted
  <2>4. LogsQuiet(logs)
    BY <1>1, <1>3, <1>4, <2>3, TurnsLogsQuiet
  <2>5. LogsInv(logs)'
    BY <2>4, LogsKept
  <2>6. Grown(logs, logs)
    <3> SUFFICES ASSUME NEW u \in Nat PROVE Agree(logs[u], logs[u], Len(logs[u]))
      BY DEF Grown
    <3>1. Len(logs[u]) \in Nat
      BY LeadersLog, LenProperties DEF LogsInv
    <3> QED
      BY <3>1 DEF Agree
  <2> QED
    BY <2>1, <2>5, <2>6
<1>5. CASE elected' # elected
  <2>1. /\ node[n].role = "candidate" /\ s.role = "leader" /\ s.term = t /\ t = votes[n].term
        /\ Majority(Count(m)) /\ elected' = elected \cup {<<t, n>>}
    BY <1>2, <1>5 DEF VoteCounted
  <2>2. \A p \in Node : <<t, p>> \notin elected
    BY <1>1, <2>1, WinnerIsFirst
  <2> HIDE DEF t
  <2>3. logs[t] = <<>> /\ t \in Nat
    BY <1>2, <2>2 DEF LogsInv, NodesFit, t
  <2>4. /\ Held(logs, LogOf(n)) /\ \A i \in 1..Len(LogOf(n)) : LogOf(n)[i].term <= t
    BY <1>1 DEF LogsInv, NodesFit, t
  <2>5. Agree(logs[t], LogOf(n), Len(logs[t]))
    BY <1>2, <2>3, LenProperties DEF Agree
  <2>6. L = [logs EXCEPT ![t] = LogOf(n)]
    BY <1>5 DEF t
  <2>7. LogsOK(L) /\ Grown(logs, L) /\ L[t] = LogOf(n) /\ \A u \in Nat \ {t} : L[u] = logs[u]
    <3>1. LeadsWith(logs, t, LogOf(n), L)
      BY <1>2, <2>4, <2>5, <2>6 DEF LeadsWith, Held
    <3>2. LogsOK(logs) /\ t \in Nat
      BY <2>3 DEF LogsInv
    <3>3. LogsOK(L) /\ Grown(logs, L) /\ \A u \in Nat \ {t} : L[u] = logs[u]
      BY <3>1, <3>2, GrowLog
    <3>4. L[t] = LogOf(n)
      BY <2>6, <3>2 DEF LogsOK
    <3> QED
      BY <3>3, <3>4
  <2>8. /\ node'[n] = s /\ TermOf(n)' = t /\ LogOf(n)' = LogOf(n)
        /\ \A x \in Node \ {n} : node'[x] = node[x] /\ TermOf(x)' = TermOf(x) /\ LogOf(x)' = LogOf(x)
    BY <1>1, <1>3, <2>1, TurnsTo
  <2>9. ASSUME NEW x \in Node
        PROVE  /\ Held(L, LogOf(x)') /\ \A i \in 1..Len(LogOf(x)') : LogOf(x)'[i].term <= TermOf(x)'
               /\ Leads(x)' => L[TermOf(x)'] = LogOf(x)'
    <3>1. LogOf(x)' = LogOf(x) /\ TermOf(x)' = TermOf(x)
      BY <2>8 DEF t
    <3>2. /\ Held(logs, LogOf(x)) /\ \A i \in 1..Len(LogOf(x)) : LogOf(x)[i].term <= TermOf(x)
          /\ Leads(x) => logs[TermOf(x)] = LogOf(x)
      BY DEF LogsInv, NodesFit
    <3>3. Held(L, LogOf(x))
      BY <2>7, <3>2, LogsOnDisk, HeldGrows DEF LogsInv, LogsOK
    <3>4. Leads(x)' => L[TermOf(x)] = LogOf(x)
      <4>1. CASE x = n
        BY <2>7, <4>1 DEF t
      <4>2. CASE x # n
        <5> SUFFICES ASSUME Leads(x)' PROVE L[TermOf(x)] = LogOf(x)
          OBVIOUS
        <5>1. Leads(x)
          BY <2>8, <4>2 DEF Leads
        <5>2. <<TermOf(x), x>> \in elected
          BY <5>1 DEF VotesInv, ElectedOK
        <5>3. TermOf(x) # t /\ TermOf(x) \in Nat
          BY <2>2, <5>2, LogsOnDisk DEF t
        <5> QED
          BY <2>7, <3>2, <5>1, <5>3
      <4> QED
        BY <4>1, <4>2
    <3> QED
      BY <3>1, <3>2, <3>3, <3>4
  <2>10. ASSUME NEW u \in Nat, L[u] # <<>>
         PROVE  \E x \in Node : <<u, x>> \in elected'
    <3>1. CASE u = t
      BY <1>1, <2>1, <3>1 DEF t
    <3>2. CASE u # t
      BY <2>1, <2>7, <2>10, <3>2 DEF LogsInv, NodesFit
    <3> QED
      BY <3>1, <3>2
  <2>11. elected \subseteq elected'
    BY <2>1
  <2>12. LogsInv(L)'
    BY <1>1, <2>7, <2>9, <2>10, <2>11, LogsStep
  <2> QED
    BY <2>7, <2>12
<1> QED
  BY <1>4, <1>5

LEMMA GrownSelf ==
  ASSUME NEW logs, LogsOK(logs)
  PROVE  Grown(logs, logs)
<1> SUFFICES ASSUME NEW t \in Nat PROVE Agree(logs[t], logs[t], Len(logs[t]))
  BY DEF Grown
<1>1. Len(logs[t]) \in Nat
  BY LeadersLog, LenProperties
<1> QED
  BY <1>1 DEF Agree

\* What a node that takes a leader's entries has then.
LEMMA AcceptsHeld ==
  ASSUME BaseInv, NEW logs, LogsInv(logs), NEW m \in net, m.type = "append", Running(m.to),
         NEW s, Accepts(s, node[m.to], m)
  PROVE  /\ Held(logs, s.log) /\ \A i \in 1..Len(s.log) : s.log[i].term <= s.term
         /\ Agree(s.log, logs[m.term], m.prev + Len(m.entries))
         /\ \/ s.log = LogOf(m.to)
            \/ /\ Len(s.log) = m.prev + Len(m.entries)
               /\ \E k \in 1..Len(m.entries) :
                    /\ \A j \in 1..m.prev + k - 1 : j <= Len(LogOf(m.to)) /\ LogOf(m.to)[j] = logs[m.term][j]
                    /\ ~ Has(LogOf(m.to), m.prev + k, logs[m.term][m.prev + k].term)
<1> DEFINE n == m.to
           log == LogOf(n)
<1>1. n \in Node /\ m.term \in Nat /\ m.prev \in Nat /\ m.entries \in Seq(Entry)
  BY DEF BaseInv, MessageOK
<1>2. log = node[n].log /\ TermOf(n) = node[n].term /\ log \in Seq(Entry) /\ TermOf(n) \in Nat
  BY <1>1, RunningInSync, LogsOnDisk
<1>3. /\ s.log = Overwritten(log, m.prev, m.entries) /\ s.term = m.term /\ m.term >= TermOf(n)
      /\ m.prev <= Len(log) /\ TermAt(log, m.prev) = m.prevTerm
  BY <1>2 DEF Accepts, Follows, Matches
<1>4. /\ Held(logs, log) /\ \A i \in 1..Len(log) : log[i].term <= TermOf(n)
  BY <1>1 DEF LogsInv, NodesFit
<1>5. /\ m.prev + Len(m.entries) <= Len(logs[m.term])
      /\ m.prevTerm = TermAt(logs[m.term], m.prev)
      /\ \A i \in 1..Len(m.entries) : m.entries[i] = logs[m.term][m.prev + i]
  BY DEF LogsInv, MessagesFit, RequestOK
<1> HIDE DEF log, n
<1>6. /\ s.log \in Seq(Entry)
      /\ Held(logs, s.log)
      /\ Agree(s.log, logs[m.term], m.prev + Len(m.entries))
      /\ \/ s.log = log
         \/ /\ Len(s.log) = m.prev + Len(m.entries)
            /\ \E k \in 1..Len(m.entries) :
                 /\ \A j \in 1..m.prev + k - 1 : j <= Len(log) /\ log[j] = logs[m.term][j]
                 /\ ~ Has(log, m.prev + k, logs[m.term][m.prev + k].term)
  <2> DEFINE over == Overwritten(log, m.prev, m.entries)
  <2>1. LogsOK(logs) /\ Held(logs, log) /\ TermAt(log, m.prev) = TermAt(logs[m.term], m.prev)
    BY <1>3, <1>4, <1>5 DEF LogsInv
  <2>2. /\ over \in Seq(Entry)
        /\ Held(logs, over)
        /\ Agree(over, logs[m.term], m.prev + Len(m.entries))
        /\ Takes(over, log, logs[m.term], m.prev, m.entries)
    <3>1. CanFollow(log, logs[m.term], m.prev, m.entries)
      BY <1>1, <1>3, <1>5, <2>1 DEF CanFollow
    <3>2. log \in Seq(Entry) /\ m.term \in Nat
      BY <1>1, <1>2
    <3> QED
      BY <2>1, <3>1, <3>2, OverwrittenHeld
  <2>3. s.log = over
    BY <1>3
  <2> HIDE DEF over
  <2> QED
    BY <2>2, <2>3 DEF Takes
<1>7. \A i \in 1..Len(s.log) : s.log[i].term <= m.term
  <2>1. CASE s.log = log
    <3>1. \A i \in 1..Len(log) : log[i].term \in Nat
      BY <1>2, EntryIs
    <3> QED
      BY <1>1, <1>2, <1>3, <1>4, <2>1, <3>1
  <2>2. CASE Len(s.log) = m.prev + Len(m.entries)
    <3>1. \A i \in 1..Len(s.log) : i \in 1..Len(logs[m.term]) /\ s.log[i] = logs[m.term][i]
      <4>1. Len(s.log) \in Nat /\ Len(logs[m.term]) \in Nat /\ Len(s.log) <= Len(logs[m.term])
        BY <1>1, <1>5, <1>6, <2>2, LeadersLog, LenProperties DEF LogsInv
      <4> QED
        BY <1>6, <2>2, <4>1 DEF Agree
    <3> QED
      BY <1>1, <3>1, LeadersLog DEF LogsInv
  <2> QED
    BY <1>6, <2>1, <2>2
<1> QED
  BY <1>3, <1>6, <1>7 DEF log, n

LEMMA HandleAppendEntriesLogs ==
  ASSUME DisksWork, BaseInv, budget' = budget, NEW logs, LogsInv(logs), NEW m, HandleAppendEntries(m)
  PROVE  LogsInv(logs)'
<1> DEFINE n == m.to
<1>1. /\ m \in net /\ m.type = "append" /\ n \in Node /\ Running(n)
      /\ calls' = calls /\ elected' = elected
  BY HandleAppendEntriesDoes DEF history
<1>2. PICK s : /\ Turns(n, s)
               /\ \/ /\ m.term < node[n].term /\ s = node[n]
                     /\ \A x \in net' : x \in net \/ AppendReply(x, m, s, FALSE)
                  \/ /\ Follows(s, node[n], m) /\ SameData(s, node[n])
                     /\ \A x \in net' : x \in net \/ (AppendReply(x, m, s, FALSE) /\ x.conflict <= m.prev)
                  \/ /\ Accepts(s, node[n], m)
                     /\ \A x \in net' : x \in net \/ AppendReply(x, m, s, TRUE)
  BY HandleAppendEntriesDoes
<1>3. /\ LogOf(n) = node[n].log /\ TermOf(n) = node[n].term /\ TermOf(n) \in Nat /\ s.term \in Nat
  BY <1>1, <1>2, RunningInSync, LogsOnDisk DEF Turns, State
<1>4. /\ Held(logs, s.log) /\ \A i \in 1..Len(s.log) : s.log[i].term <= s.term
      /\ s.term >= TermOf(n) /\ (s.role = "leader" => Leads(n) /\ s.term = TermOf(n) /\ s.log = LogOf(n))
  <2>0. /\ Held(logs, LogOf(n)) /\ \A i \in 1..Len(LogOf(n)) : LogOf(n)[i].term <= TermOf(n) /\ LogOf(n)[i].term \in Nat
    BY <1>1, LogsOnDisk, EntryIs DEF LogsInv, NodesFit
  <2>1. CASE s = node[n]
    BY <1>3, <2>0, <2>1 DEF Leads
  <2>2. CASE Follows(s, node[n], m) /\ SameData(s, node[n])
    <3>1. s.log = LogOf(n) /\ s.term >= TermOf(n) /\ s.role = "follower"
      BY <1>3, <2>2 DEF Follows, SameData
    <3> QED
      BY <1>3, <2>0, <3>1
  <2>3. CASE Accepts(s, node[n], m)
    <3>1. s.term >= TermOf(n) /\ s.role = "follower"
      BY <1>3, <2>3 DEF Accepts, Follows
    <3> QED
      BY <1>1, <2>3, <3>1, AcceptsHeld
  <2> QED
    BY <1>2, <2>1, <2>2, <2>3
<1>5. /\ node'[n] = s /\ TermOf(n)' = s.term /\ LogOf(n)' = s.log
      /\ \A x \in Node \ {n} : node'[x] = node[x] /\ TermOf(x)' = TermOf(x) /\ LogOf(x)' = LogOf(x)
  BY <1>1, <1>2, TurnsTo
<1>6. ASSUME NEW x \in Node
      PROVE  /\ Held(logs, LogOf(x)') /\ \A i \in 1..Len(LogOf(x)') : LogOf(x)'[i].term <= TermOf(x)'
             /\ Leads(x)' => logs[TermOf(x)'] = LogOf(x)'
  <2>1. CASE x = n
    BY <1>4, <1>5, <2>1 DEF Leads, LogsInv, NodesFit
  <2>2. CASE x # n
    BY <1>5, <2>2 DEF Leads, LogsInv, NodesFit
  <2> QED
    BY <2>1, <2>2
<1>7. ASSUME NEW x \in net', x \notin net
      PROVE  x.type = "appended" /\ RefusalOK(logs, x)
  <2>1. RequestOK(logs, m) /\ MessageOK(m)
    BY <1>1 DEF LogsInv, MessagesFit, BaseInv
  <2>2. x.type = "appended" /\ x.call = m.call /\ x.term = s.term
    BY <1>2, <1>7 DEF AppendReply
  <2>3. x.success \/ (m.term < node[n].term /\ s = node[n]) \/ x.conflict <= m.prev
    BY <1>2, <1>7 DEF AppendReply
  <2>4. m.term \in Nat /\ m.prev \in Nat /\ m.entries \in Seq(Entry)
    BY <1>1, <2>1 DEF MessageOK
  <2>5. MessageOK(x)
    BY HandleAppendEntriesDoes DEF BaseInv
  <2>6. x.conflict \in Nat
    BY <2>2, <2>5 DEF MessageOK
  <2>7. Len(logs[m.term]) \in Nat /\ Len(m.entries) \in Nat
    BY <2>4, LeadersLog, LenProperties DEF LogsInv
  <2>8. m.call.k = "write" => m.call.term = m.term /\ m.prev <= Len(logs[m.term])
    BY <2>1, <2>4, <2>7 DEF RequestOK
  <2>9. m.call.k = "write" /\ ~x.success => x.term > m.call.term \/ x.conflict <= Len(logs[m.call.term]) + 1
    BY <1>3, <2>2, <2>3, <2>4, <2>6, <2>7, <2>8
  <2> QED
    BY <2>2, <2>9 DEF RefusalOK
<1>8. \A t \in Nat : logs[t] # <<>> => \E x \in Node : <<t, x>> \in elected'
  BY <1>1 DEF LogsInv, NodesFit
<1> QED
  BY <1>1, <1>6, <1>7, <1>8, GrownSelf, LogsStep DEF LogsInv

\* The leader's log grows with what it proposes.
LEMMA ProposeLogs ==
  ASSUME DisksWork, BaseInv, budget' = budget, used.writes \in Nat, NEW given, VotesInv(given),
         NEW logs, LogsInv(logs), NEW n \in Node, Propose(n),
         NEW L, L = [logs EXCEPT ![TermOf(n)] = Append(LogOf(n), [term |-> TermOf(n), cmd |-> used.writes + 1])]
  PROVE  LogsInv(L)' /\ Grown(logs, L)
<1> DEFINE t == TermOf(n)
           log == LogOf(n)
           e == [term |-> t, cmd |-> used.writes + 1]
           longer == Append(log, e)
<1>1. Leads(n) /\ Running(n) /\ net' = net /\ elected' = elected
  BY ProposeDoes DEF history
<1>2. t \in Nat /\ log \in Seq(Entry) /\ t = node[n].term /\ log = node[n].log
  BY <1>1, RunningInSync, LogsOnDisk
<1> HIDE DEF t, log, e, longer
<1>3. PICK s, c : /\ Turns(n, s) /\ s.role = node[n].role /\ s.term = node[n].term
                  /\ s.votedFor = node[n].votedFor /\ s.commit = node[n].commit
                  /\ s.applied = node[n].applied
                  /\ s.log = Append(node[n].log, [term |-> node[n].term, cmd |-> used.writes + 1])
                  /\ calls' = calls \cup {c}
                  /\ c \in Call /\ c.node = n /\ c.acks = {n} /\ c.todo = Peers(n)
                  /\ c.id.index = Len(s.log) /\ c.id.term = s.term
  BY ProposeDoes
<1> USE DEF t, log, e, longer
<1>4. e \in Entry /\ e.term = t
  BY <1>2 DEF Entry
<1>5. s.log = longer /\ s.term = t /\ s.role = "leader"
  BY <1>1, <1>2, <1>3 DEF Leads
<1> HIDE DEF e
<1>6. /\ longer \in Seq(Entry) /\ Len(longer) = Len(log) + 1 /\ longer[Len(log) + 1] = e
      /\ \A i \in 1..Len(log) : longer[i] = log[i]
  BY <1>2, <1>4, AppendProperties
<1>7. L = [logs EXCEPT ![t] = longer]
  BY DEF e
<1> HIDE DEF t, log, longer
<1>8. logs[t] = log /\ Held(logs, log) /\ \A i \in 1..Len(log) : log[i].term <= t
  BY <1>1 DEF LogsInv, NodesFit, t, log
<1>9. Len(log) \in Nat
  BY <1>2, LenProperties
<1>10. Agree(logs[t], longer, Len(logs[t]))
  BY <1>6, <1>8, <1>9 DEF Agree
<1>11. ASSUME NEW i \in 1..Len(longer)
       PROVE  longer[i].term <= t /\ (longer[i].term = t \/ Agree(longer, logs[longer[i].term], i))
  <2>1. CASE i = Len(log) + 1
    BY <1>2, <1>4, <1>6, <2>1
  <2>2. CASE i # Len(log) + 1
    <3>1. i \in 1..Len(log) /\ longer[i] = log[i]
      BY <1>6, <1>9, <2>2
    <3>2. Agree(log, logs[log[i].term], i)
      BY <1>8, <3>1 DEF Held
    <3>3. Agree(longer, logs[log[i].term], i)
      BY <1>6, <1>9, <3>1, <3>2 DEF Agree
    <3> QED
      BY <1>8, <3>1, <3>3
  <2> QED
    BY <2>1, <2>2
<1>12. LeadsWith(logs, t, longer, L)
  BY <1>6, <1>7, <1>10, <1>11 DEF LeadsWith
<1>13. LogsOK(L) /\ Grown(logs, L) /\ \A u \in Nat \ {t} : L[u] = logs[u]
  <2>1. LogsOK(logs) /\ t \in Nat
    BY <1>2 DEF LogsInv
  <2>2. LogsOK(L) /\ Grown(logs, L)
    BY <1>12, <2>1, GrowLog
  <2>3. \A u \in Nat \ {t} : L[u] = logs[u]
    BY <1>7, <2>1 DEF LogsOK
  <2> QED
    BY <2>2, <2>3
<1>14. L[t] = longer
  BY <1>2, <1>7 DEF LogsInv, LogsOK
<1>15. /\ node'[n] = s /\ TermOf(n)' = t /\ LogOf(n)' = longer
       /\ \A x \in Node \ {n} : node'[x] = node[x] /\ TermOf(x)' = TermOf(x) /\ LogOf(x)' = LogOf(x)
  BY <1>3, <1>5, TurnsTo
<1>16. ASSUME NEW x \in Node
       PROVE  /\ Held(L, LogOf(x)') /\ \A i \in 1..Len(LogOf(x)') : LogOf(x)'[i].term <= TermOf(x)'
              /\ Leads(x)' => L[TermOf(x)'] = LogOf(x)'
  <2>1. CASE x = n
    <3>1. Held(L, longer)
      BY <1>2, <1>13, <1>14, LeadersLog
    <3> QED
      BY <1>11, <1>14, <1>15, <2>1, <3>1
  <2>2. CASE x # n
    <3>1. /\ LogOf(x)' = LogOf(x) /\ TermOf(x)' = TermOf(x) /\ (Leads(x)' => Leads(x))
      BY <1>15, <2>2 DEF Leads
    <3>2. /\ Held(logs, LogOf(x)) /\ \A i \in 1..Len(LogOf(x)) : LogOf(x)[i].term <= TermOf(x)
          /\ Leads(x) => logs[TermOf(x)] = LogOf(x)
      BY DEF LogsInv, NodesFit
    <3>3. Held(L, LogOf(x))
      BY <1>13, <3>2, LogsOnDisk, HeldGrows DEF LogsInv, LogsOK
    <3>4. ASSUME Leads(x)
          PROVE  TermOf(x) \in Nat \ {t}
      <4>1. <<TermOf(x), x>> \in elected /\ <<t, n>> \in elected
        BY <1>1, <3>4 DEF VotesInv, ElectedOK, t
      <4>2. TermOf(x) # t
        BY <1>2, <2>2, <4>1, OneLeaderPerTerm
      <4> QED
        BY <4>2, LogsOnDisk
    <3>5. Leads(x) => L[TermOf(x)] = LogOf(x)
      BY <1>13, <3>2, <3>4
    <3> QED
      BY <3>1, <3>2, <3>3, <3>5
  <2> QED
    BY <2>1, <2>2
<1>17. ASSUME NEW u \in Nat, L[u] # <<>>
       PROVE  \E x \in Node : <<u, x>> \in elected'
  <2>1. <<t, n>> \in elected
    BY <1>1 DEF VotesInv, ElectedOK, t
  <2>2. CASE u = t
    BY <1>1, <2>1, <2>2
  <2>3. CASE u # t
    BY <1>1, <1>13, <1>17, <2>3 DEF LogsInv, NodesFit
  <2> QED
    BY <2>2, <2>3
<1>18. \A d \in calls' : \/ d \in calls
                         \/ <<d.id.term, d.node>> \in elected' /\ Has(L[d.id.term], d.id.index, d.id.term)
  <2>1. <<t, n>> \in elected'
    BY <1>1 DEF VotesInv, ElectedOK, t
  <2>2. Has(L[t], Len(longer), t)
    BY <1>4, <1>6, <1>9, <1>14 DEF Has
  <2> QED
    BY <1>3, <1>5, <2>1, <2>2
<1>19. LogsInv(L)'
  BY <1>1, <1>13, <1>16, <1>17, <1>18, LogsStep
<1> QED
  BY <1>13, <1>19

-----------------------------------------------------------------------------
(* What was taken.  taken: <<by whom, at which index, of which term>> of every entry a node  *)
(* took while it was in the entry's term.                                                    *)

\* A majority went past a term without having taken an entry of it.
Blocked(taken, i, t) ==
  \E Q \in SUBSET Node : Majority(Q) /\ \A n \in Q : TermOf(n) > t /\ <<n, i, t>> \notin taken

\* A log has an entry, or nobody will ever commit it.
Kept(taken, log, i, t) == Has(log, i, t) \/ Blocked(taken, i, t)

TakenOK(logs, taken) ==
  \A n \in Node, i \in Nat, t \in Nat : <<n, i, t>> \in taken =>
    TermOf(n) >= t /\ Has(logs[t], i, t) /\ Kept(taken, LogOf(n), i, t)

ElectedKept(logs, taken) ==
  \A u \in Nat : (\E n \in Node : <<u, n>> \in elected) =>
    \A i \in Nat, t \in Nat : t < u => Kept(taken, logs[u], i, t)

CandidatesKept(given, taken) ==
  \A p, n \in Node, i \in Nat, t \in Nat :
    node[p].role = "candidate" /\ <<n, p, TermOf(p)>> \in given /\ <<n, i, t>> \in taken /\ t < TermOf(p)
      => Kept(taken, LogOf(p), i, t)

AcksOK(taken) ==
  /\ \A c \in calls : \A n \in c.acks : <<n, c.id.index, c.id.term>> \in taken
  /\ \A m \in net : m.type = "appended" /\ m.call.k = "write" /\ m.success =>
       <<m.from, m.call.index, m.call.term>> \in taken

AcksInv(given, logs, taken) ==
  TakenOK(logs, taken) /\ ElectedKept(logs, taken) /\ CandidatesKept(given, taken) /\ AcksOK(taken)

\* Entries a node takes in the term it goes over to, if in any.
TakesNow(L, taken, T) ==
  /\ taken \subseteq T
  /\ \A n \in Node, i \in Nat, t \in Nat : <<n, i, t>> \in T /\ <<n, i, t>> \notin taken =>
       TermOf(n) <= t /\ TermOf(n)' = t /\ Has(L[t], i, t) /\ Has(LogOf(n)', i, t)

LEMMA BlockedStays ==
  ASSUME TermsGrow, NEW L, NEW taken, NEW T, TakesNow(L, taken, T), NEW i \in Nat, NEW t \in Nat,
         Blocked(taken, i, t)
  PROVE  Blocked(T, i, t)'
<1>1. PICK Q \in SUBSET Node : Majority(Q) /\ \A n \in Q : TermOf(n) > t /\ <<n, i, t>> \notin taken
  BY DEF Blocked
<1>2. \A n \in Q : TermOf(n)' > t /\ <<n, i, t>> \notin T
  <2> SUFFICES ASSUME NEW n \in Q PROVE TermOf(n)' > t /\ <<n, i, t>> \notin T
    OBVIOUS
  <2>1. n \in Node /\ TermOf(n) \in Nat /\ TermOf(n)' \in Nat /\ TermOf(n)' >= TermOf(n)
    BY DEF TermsGrow
  <2>2. TermOf(n) > t /\ <<n, i, t>> \notin taken
    BY <1>1
  <2>3. ~(TermOf(n) <= t)
    BY <2>1, <2>2
  <2>4. <<n, i, t>> \notin T
    BY <2>1, <2>2, <2>3 DEF TakesNow
  <2> QED
    BY <2>1, <2>2, <2>4
<1>3. Majority(Q)
  BY <1>1
<1> QED
  BY <1>2, <1>3 DEF Blocked, Majority

\* One node at most takes one entry, and what was kept is.
LEMMA AcksStep ==
  ASSUME BaseInv, NEW given, NEW logs, NEW taken, LogsInv(logs), AcksInv(given, logs, taken),
         NEW W, NEW L, NEW T, GivenOK(W)', TermsGrow, Grown(logs, L), TakesNow(L, taken, T),
         \A n \in Node, i \in Nat, t \in Nat : <<n, i, t>> \in taken /\ Has(LogOf(n), i, t) =>
            Has(LogOf(n)', i, t) \/ Blocked(taken, i, t),
         elected \subseteq elected',
         \A u \in Nat, n \in Node : <<u, n>> \in elected' /\ <<u, n>> \notin elected =>
            \A i \in Nat, t \in Nat : t < u => Kept(taken, L[u], i, t),
         \A p, n \in Node, i \in Nat, t \in Nat :
            node'[p].role = "candidate" /\ <<n, p, TermOf(p)'>> \in W /\ <<n, i, t>> \in taken
              /\ t < TermOf(p)' => Kept(taken, LogOf(p)', i, t),
         AcksOK(T)'
  PROVE  AcksInv(W, L, T)'
<1>0. \A t \in Nat : logs[t] \in Seq(Entry) /\ Agree(logs[t], L[t], Len(logs[t]))
  BY LeadersLog DEF Grown, LogsInv
<1>1. \A i, t, u \in Nat : Has(logs[u], i, t) => Has(L[u], i, t)
  BY <1>0 DEF Has, Agree
<1>2. \A i, t \in Nat : Blocked(taken, i, t) => Blocked(T, i, t)'
  BY BlockedStays
<1>3. TakenOK(L, T)'
  <2> SUFFICES ASSUME NEW n \in Node, NEW i \in Nat, NEW t \in Nat, <<n, i, t>> \in T
               PROVE  TermOf(n)' >= t /\ Has(L[t], i, t) /\ (Has(LogOf(n)', i, t) \/ Blocked(T, i, t)')
    BY DEF TakenOK, Kept
  <2>1. CASE <<n, i, t>> \in taken
    <3>1. TermOf(n) >= t /\ Has(logs[t], i, t) /\ (Has(LogOf(n), i, t) \/ Blocked(taken, i, t))
      BY <2>1 DEF AcksInv, TakenOK, Kept
    <3>2. TermOf(n)' >= t
      BY <3>1 DEF TermsGrow
    <3> QED
      BY <1>1, <1>2, <2>1, <3>1, <3>2
  <2>2. CASE <<n, i, t>> \notin taken
    BY <2>2 DEF TakesNow
  <2> QED
    BY <2>1, <2>2
<1>4. ElectedKept(L, T)'
  <2> SUFFICES ASSUME NEW u \in Nat, NEW n \in Node, <<u, n>> \in elected', NEW i \in Nat, NEW t \in Nat, t < u
               PROVE  Has(L[u], i, t) \/ Blocked(T, i, t)'
    BY DEF ElectedKept, Kept
  <2>1. CASE <<u, n>> \in elected
    <3>1. Has(logs[u], i, t) \/ Blocked(taken, i, t)
      BY <2>1 DEF AcksInv, ElectedKept, Kept
    <3> QED
      BY <1>1, <1>2, <3>1
  <2>2. CASE <<u, n>> \notin elected
    BY <1>2, <2>2 DEF Kept
  <2> QED
    BY <2>1, <2>2
<1>5. CandidatesKept(W, T)'
  <2> SUFFICES ASSUME NEW p \in Node, NEW n \in Node, NEW i \in Nat, NEW t \in Nat,
                      node'[p].role = "candidate", <<n, p, TermOf(p)'>> \in W, <<n, i, t>> \in T, t < TermOf(p)'
               PROVE  Has(LogOf(p)', i, t) \/ Blocked(T, i, t)'
    BY DEF CandidatesKept, Kept
  <2>1. TermOf(p)' \in Nat /\ TermOf(n)' \in Nat
    BY DEF TermsGrow
  <2>2. TermOf(n)' >= TermOf(p)'
    BY <2>1 DEF GivenOK
  <2>3. <<n, i, t>> \in taken
    BY <2>1, <2>2 DEF TakesNow
  <2>4. Has(LogOf(p)', i, t) \/ Blocked(taken, i, t)
    BY <2>3 DEF Kept
  <2> QED
    BY <1>2, <2>4
<1> QED
  BY <1>3, <1>4, <1>5 DEF AcksInv

\* A step in which nobody takes, votes, stands or wins.
LEMMA AcksKept ==
  ASSUME BaseInv, NEW given, NEW logs, NEW taken, VotesInv(given)', LogsInv(logs), AcksInv(given, logs, taken),
         TermsGrow, OfficesKept, elected' = elected,
         \A n \in Node : LogOf(n)' = LogOf(n),
         \A c \in calls' : \A n \in c.acks : <<n, c.id.index, c.id.term>> \in taken,
         \A m \in net' : m.type = "appended" /\ m.call.k = "write" /\ m.success =>
           m \in net \/ <<m.from, m.call.index, m.call.term>> \in taken
  PROVE  AcksInv(given, logs, taken)'
<1>1. GivenOK(given)' /\ Grown(logs, logs) /\ TakesNow(logs, taken, taken)
  BY GrownSelf DEF VotesInv, LogsInv, TakesNow
<1>2. AcksOK(taken)'
  BY DEF AcksOK, AcksInv
<1>3. ASSUME NEW p \in Node, NEW n \in Node, NEW i \in Nat, NEW t \in Nat,
             node'[p].role = "candidate", <<n, p, TermOf(p)'>> \in given, <<n, i, t>> \in taken, t < TermOf(p)'
      PROVE  Kept(taken, LogOf(p)', i, t)
  <2>1. node[p].role = "candidate" /\ TermOf(p)' = TermOf(p) /\ LogOf(p)' = LogOf(p)
    BY <1>3 DEF OfficesKept
  <2> QED
    BY <1>3, <2>1 DEF AcksInv, CandidatesKept
<1> QED
  BY <1>1, <1>2, <1>3, AcksStep

LEMMA StartElectionAcks ==
  ASSUME DisksWork, BaseInv, budget' = budget, NEW given, VotesInv(given),
         NEW logs, LogsInv(logs), NEW taken, AcksInv(given, logs, taken), NEW n \in Node, StartElection(n),
         NEW W, W = given \cup {<<n, n, TermOf(n) + 1>>}
  PROVE  AcksInv(W, logs, taken)'
<1>1. Running(n) /\ elected' = elected /\ calls' = calls
  BY StartElectionDoes DEF StartElection, history
<1>2. PICK s : /\ Turns(n, s) /\ SameData(s, node[n]) /\ s.role = "candidate"
               /\ s.term = node[n].term + 1
               /\ \A o \in net' : o \in net \/ VoteRequest(o, n, s)
  BY StartElectionDoes
<1>3. s.term = TermOf(n) + 1 /\ s.log = LogOf(n) /\ TermOf(n) \in Nat
  BY <1>1, <1>2, RunningInSync, LogsOnDisk DEF SameData
<1>4. /\ node'[n] = s /\ TermOf(n)' = s.term /\ LogOf(n)' = LogOf(n)
      /\ \A x \in Node \ {n} : node'[x] = node[x] /\ TermOf(x)' = TermOf(x) /\ LogOf(x)' = LogOf(x)
  BY <1>2, <1>3, TurnsTo
<1>5. TermsGrow
  BY <1>3, <1>4, LogsOnDisk DEF TermsGrow
<1>6. GivenOK(W)' /\ Grown(logs, logs) /\ TakesNow(logs, taken, taken)
  BY StartElectionVotes, GrownSelf DEF VotesInv, LogsInv, TakesNow
<1>7. AcksOK(taken)'
  BY <1>1, <1>2 DEF AcksOK, AcksInv, VoteRequest
<1>8. ASSUME NEW p \in Node, NEW x \in Node, NEW i \in Nat, NEW t \in Nat,
             node'[p].role = "candidate", <<x, p, TermOf(p)'>> \in W, <<x, i, t>> \in taken, t < TermOf(p)'
      PROVE  Kept(taken, LogOf(p)', i, t)
  <2>1. CASE p = n
    <3>1. x = n
      <4>1. <<x, n, s.term>> \in given \/ x = n
        BY <1>4, <1>8, <2>1
      <4>2. <<x, n, s.term>> \in given => TermOf(n) >= s.term
        BY <1>3 DEF VotesInv, GivenOK
      <4> QED
        BY <1>3, <4>1, <4>2
    <3>2. Kept(taken, LogOf(n), i, t)
      BY <1>8, <3>1 DEF AcksInv, TakenOK
    <3> QED
      BY <1>4, <2>1, <3>2
  <2>2. CASE p # n
    <3>1. node[p].role = "candidate" /\ TermOf(p)' = TermOf(p) /\ LogOf(p)' = LogOf(p) /\ <<x, p, TermOf(p)>> \in given
      BY <1>4, <1>8, <2>2
    <3> QED
      BY <1>8, <3>1 DEF AcksInv, CandidatesKept
  <2> QED
    BY <2>1, <2>2
<1>9. \A x \in Node : LogOf(x)' = LogOf(x)
  BY <1>4
<1> QED
  BY <1>1, <1>5, <1>6, <1>7, <1>8, <1>9, AcksStep

\* A candidate at least as up to date as a voter has what the voter took and may be committed.
LEMMA UpToDateKept ==
  ASSUME BaseInv, NEW given, NEW logs, LogsInv(logs), NEW taken, AcksInv(given, logs, taken),
         NEW n \in Node, NEW p \in Node, NEW m, UpToDate(m, LogOf(n)),
         m.last = Len(LogOf(p)), m.lastTerm = TermAt(LogOf(p), m.last),
         NEW i \in Nat, NEW t \in Nat, <<n, i, t>> \in taken
  PROVE  Kept(taken, LogOf(p), i, t)
<1> DEFINE a == LogOf(n)
           b == LogOf(p)
<1>1. a \in Seq(Entry) /\ b \in Seq(Entry) /\ Held(logs, a) /\ Held(logs, b) /\ LogsOK(logs)
  BY LogsOnDisk DEF LogsInv, NodesFit
<1>2. Kept(taken, a, i, t)
  BY DEF AcksInv, TakenOK
<1>3. SUFFICES ASSUME Has(a, i, t) PROVE Has(b, i, t) \/ Blocked(taken, i, t)
  BY <1>2 DEF Kept
<1> DEFINE v == m.lastTerm
           v0 == TermAt(a, Len(a))
<1>4. m.last = Len(b) /\ v = TermAt(b, Len(b)) /\ (v > v0 \/ (v = v0 /\ Len(b) >= Len(a)))
  BY DEF UpToDate
<1> HIDE DEF a, b, v
<1>5. Len(a) \in Nat /\ Len(b) \in Nat /\ i \in 1..Len(a) /\ a[i].term = t
  BY <1>1, <1>3, LenProperties DEF Has
<1>6. v0 = a[Len(a)].term /\ v0 \in Nat /\ Len(a) \in 1..Len(a)
  BY <1>1, <1>5, EntryIs DEF TermAt
<1>7. t <= v0
  BY <1>1, <1>5, <1>6, HeldAscends DEF Ascending
<1> HIDE DEF v0
<1>8. CASE v = v0 /\ Len(b) >= Len(a)
  <2>1. Len(b) # 0 /\ Has(b, Len(b), v) /\ Has(a, Len(a), v) /\ v \in Nat
    BY <1>4, <1>5, <1>6, <1>8 DEF TermAt, Has
  <2>2. Agree(b, logs[v], Len(b)) /\ Agree(a, logs[v], Len(a))
    BY <1>1, <1>5, <2>1, HeldIs
  <2>3. i \in 1..Len(b) /\ b[i] = logs[v][i] /\ a[i] = logs[v][i]
    BY <1>5, <1>8, <2>2 DEF Agree
  <2> QED
    BY <1>5, <2>3 DEF Has
<1>9. CASE v > v0
  <2>1. Len(b) # 0
    BY <1>4, <1>6, <1>9 DEF TermAt
  <2>2. Len(b) \in 1..Len(b) /\ v = b[Len(b)].term
    BY <1>4, <1>5, <2>1 DEF TermAt
  <2>3. v \in Nat /\ Has(b, Len(b), v)
    BY <1>1, <2>2, EntryIs DEF Has
  <2>4. Agree(b, logs[v], Len(b)) /\ Has(logs[v], Len(b), v)
    BY <1>1, <1>5, <2>3, HeldIs
  <2>5. logs[v] \in Seq(Entry) /\ Ascending(logs[v]) /\ Len(logs[v]) \in Nat
    BY <1>1, <2>3, LeadersLog, HeldAscends, LenProperties
  <2>6. logs[v] # <<>>
    BY <2>4 DEF Has
  <2>7. \E x \in Node : <<v, x>> \in elected
    BY <2>3, <2>6 DEF LogsInv, NodesFit
  <2>8. t < v
    BY <1>6, <1>7, <1>9, <2>3
  <2>9. Has(logs[v], i, t) \/ Blocked(taken, i, t)
    BY <2>3, <2>7, <2>8 DEF AcksInv, ElectedKept, Kept
  <2>10. ASSUME Has(logs[v], i, t)
         PROVE  Has(b, i, t)
    <3>1. ~(Len(b) <= i)
      BY <2>3, <2>4, <2>5, <2>8, <2>10 DEF Ascending, Has
    <3>2. i \in 1..Len(b)
      BY <1>5, <3>1
    <3> QED
      BY <2>4, <2>10, <3>2 DEF Agree, Has
  <2> QED
    BY <2>9, <2>10
<1> QED
  BY <1>4, <1>8, <1>9 DEF b

\* A voter gives its vote to who has what it took.
LEMMA HandleRequestVoteAcks ==
  ASSUME DisksWork, BaseInv, budget' = budget, NEW given, VotesInv(given),
         NEW logs, LogsInv(logs), NEW taken, AcksInv(given, logs, taken), NEW m, HandleRequestVote(m),
         NEW s, Turns(m.to, s), Votes(s, node[m.to], m),
         \A o \in net' : o \in net \/ VoteReply(o, m.to, s, m, node[m.to]),
         NEW W, W = IF Grants(s, node[m.to], m) THEN given \cup {<<m.to, m.from, m.term>>} ELSE given
  PROVE  AcksInv(W, logs, taken)'
<1> DEFINE n == m.to
<1>1. /\ m \in net /\ m.type = "vote" /\ n \in Node /\ Running(n)
      /\ UNCHANGED <<votes, elected, calls>>
  BY HandleRequestVoteDoes DEF history
<1>2. m.from \in Node /\ m.from # n /\ m.term \in Nat
  BY <1>1 DEF BaseInv, MessageOK
<1>3. /\ TermOf(n) = node[n].term /\ LogOf(n) = node[n].log /\ TermOf(n) \in Nat
      /\ s.term \in Nat /\ s.log = LogOf(n) /\ s.term >= TermOf(n)
  BY <1>1, RunningInSync, LogsOnDisk DEF Turns, State, Votes, SameData
<1>4. /\ node'[n] = s /\ TermOf(n)' = s.term /\ LogOf(n)' = LogOf(n)
      /\ \A x \in Node \ {n} : node'[x] = node[x] /\ TermOf(x)' = TermOf(x) /\ LogOf(x)' = LogOf(x)
  BY <1>1, <1>3, TurnsTo
<1>5. TermsGrow
  BY <1>3, <1>4, LogsOnDisk DEF TermsGrow
<1>6. GivenOK(W)' /\ Grown(logs, logs) /\ TakesNow(logs, taken, taken)
  BY HandleRequestVoteVotes, GrownSelf DEF VotesInv, LogsInv, TakesNow
<1>7. AcksOK(taken)'
  BY <1>1 DEF AcksOK, AcksInv, VoteReply
<1>8. ASSUME NEW p \in Node, NEW x \in Node, NEW i \in Nat, NEW t \in Nat,
             node'[p].role = "candidate", <<x, p, TermOf(p)'>> \in W, <<x, i, t>> \in taken, t < TermOf(p)'
      PROVE  Kept(taken, LogOf(p)', i, t)
  <2>1. LogOf(p)' = LogOf(p)
    BY <1>4
  <2>2. node[p].role = "candidate" /\ TermOf(p)' = TermOf(p)
    <3>1. CASE p = n
      BY <1>3, <1>4, <1>8, <3>1 DEF Votes
    <3>2. CASE p # n
      BY <1>4, <1>8, <3>2
    <3> QED
      BY <3>1, <3>2
  <2>3. CASE <<x, p, TermOf(p)>> \in given
    BY <1>8, <2>1, <2>2, <2>3 DEF AcksInv, CandidatesKept
  <2>4. CASE <<x, p, TermOf(p)>> \notin given
    <3>1. Grants(s, node[n], m) /\ x = n /\ p = m.from /\ TermOf(p) = m.term
      BY <1>8, <2>2, <2>4
    <3>2. UpToDate(m, LogOf(n))
      BY <1>3, <3>1 DEF Grants
    <3>3. m.last = Len(LogOf(p)) /\ m.lastTerm = TermAt(LogOf(p), m.last)
      BY <1>1, <2>2, <3>1 DEF VotesInv, RequestsOK
    <3>4. Kept(taken, LogOf(p), i, t)
      BY <1>1, <1>8, <3>1, <3>2, <3>3, UpToDateKept
    <3> QED
      BY <2>1, <3>4
  <2> QED
    BY <2>3, <2>4
<1>9. \A x \in Node : LogOf(x)' = LogOf(x)
  BY <1>4
<1> QED
  BY <1>1, <1>5, <1>6, <1>7, <1>8, <1>9, AcksStep

\* Who is elected has what may be committed of earlier terms.
LEMMA CountVoteAcks ==
  ASSUME DisksWork, BaseInv, budget' = budget, NEW given, VotesInv(given),
         NEW logs, LogsInv(logs), NEW taken, AcksInv(given, logs, taken),
         NEW m, CountVote(m), NEW s, Turns(m.to, s), SameData(s, node[m.to]), VoteCounted(m, m.to, s),
         NEW L, L = IF elected' = elected THEN logs ELSE [logs EXCEPT ![TermOf(m.to)] = LogOf(m.to)]
  PROVE  AcksInv(given, L, taken)'
<1> DEFINE n == m.to
<1>1. m \in net /\ m.type = "voted" /\ n \in Node /\ Running(n) /\ net' \subseteq net /\ calls' = calls
  BY CountVoteDoes
<1>2. /\ TermOf(n) = node[n].term /\ LogOf(n) = node[n].log /\ TermOf(n) \in Nat /\ LogOf(n) \in Seq(Entry)
      /\ s.term \in Nat /\ s.log = LogOf(n) /\ s.term >= TermOf(n)
  BY <1>1, RunningInSync, LogsOnDisk DEF Turns, State, SameData, VoteCounted
<1>3. /\ node'[n] = s /\ TermOf(n)' = s.term /\ LogOf(n)' = LogOf(n)
      /\ \A x \in Node \ {n} : node'[x] = node[x] /\ TermOf(x)' = TermOf(x) /\ LogOf(x)' = LogOf(x)
  BY <1>1, <1>2, TurnsTo
<1>4. TermsGrow
  BY <1>2, <1>3, LogsOnDisk DEF TermsGrow
<1>5. GivenOK(given)' /\ Grown(logs, L)
  BY CountVoteVotes, CountVoteLogs DEF VotesInv
<1>6. TakesNow(L, taken, taken)
  BY DEF TakesNow
<1>7. AcksOK(taken)'
  BY <1>1 DEF AcksOK, AcksInv
<1>8. ASSUME NEW p \in Node, NEW x \in Node, NEW i \in Nat, NEW t \in Nat,
             node'[p].role = "candidate", <<x, p, TermOf(p)'>> \in given, <<x, i, t>> \in taken, t < TermOf(p)'
      PROVE  Kept(taken, LogOf(p)', i, t)
  <2>1. node[p].role = "candidate" /\ TermOf(p)' = TermOf(p) /\ LogOf(p)' = LogOf(p)
    <3>1. CASE p = n
      BY <1>2, <1>3, <1>8, <3>1 DEF VoteCounted
    <3>2. CASE p # n
      BY <1>3, <1>8, <3>2
    <3> QED
      BY <3>1, <3>2
  <2> QED
    BY <1>8, <2>1 DEF AcksInv, CandidatesKept
<1>9. \A x \in Node : LogOf(x)' = LogOf(x)
  BY <1>3
<1>10. elected \subseteq elected'
  BY DEF VoteCounted
<1>11. ASSUME NEW u \in Nat, NEW p \in Node, <<u, p>> \in elected', <<u, p>> \notin elected,
              NEW i \in Nat, NEW t \in Nat, t < u
       PROVE  Kept(taken, L[u], i, t)
  <2>1. /\ node[n].role = "candidate" /\ u = TermOf(n) /\ p = n /\ s.term = TermOf(n) /\ s.term = votes[n].term
        /\ Majority(Count(m)) /\ elected' # elected
    BY <1>2, <1>11 DEF VoteCounted
  <2>2. L = [logs EXCEPT ![u] = LogOf(n)]
    BY <2>1
  <2>3. L[u] = LogOf(n)
    BY <2>2 DEF LogsInv, LogsOK
  <2>4. Count(m) \in SUBSET VotersOf(given, n, u)
    BY <1>1, <2>1, CountIs
  <2>5. \A x \in Count(m) : x \in Node /\ <<x, n, u>> \in given /\ TermOf(x) >= u /\ TermOf(x) \in Nat
    BY <1>1, <2>4, LogsOnDisk DEF VotersOf, VotesInv, GivenOK
  <2>6. CASE \E x \in Count(m) : <<x, i, t>> \in taken
    BY <1>1, <1>11, <2>1, <2>3, <2>5, <2>6 DEF AcksInv, CandidatesKept
  <2>7. CASE \A x \in Count(m) : <<x, i, t>> \notin taken
    <3>1. Count(m) \in SUBSET Node
      BY <2>5
    <3>2. \A x \in Count(m) : TermOf(x) > t /\ <<x, i, t>> \notin taken
      <4> SUFFICES ASSUME NEW x \in Count(m) PROVE TermOf(x) > t
        BY <2>7
      <4>1. TermOf(x) \in Nat /\ TermOf(x) >= u
        BY <2>5
      <4> QED
        BY <1>11, <4>1
    <3> QED
      BY <2>1, <3>1, <3>2 DEF Kept, Blocked
  <2> QED
    BY <2>6, <2>7
<1> QED
  BY <1>4, <1>5, <1>6, <1>7, <1>8, <1>9, <1>10, <1>11, AcksStep

\* A node that takes entries keeps what may be committed.
LEMMA HandleAppendEntriesAcks ==
  ASSUME DisksWork, BaseInv, budget' = budget, NEW given, VotesInv(given),
         NEW logs, LogsInv(logs), NEW taken, AcksInv(given, logs, taken), NEW m, HandleAppendEntries(m),
         NEW s, Turns(m.to, s),
         \/ /\ m.term < node[m.to].term /\ s = node[m.to]
            /\ \A x \in net' : x \in net \/ AppendReply(x, m, s, FALSE)
         \/ /\ Follows(s, node[m.to], m) /\ SameData(s, node[m.to])
            /\ \A x \in net' : x \in net \/ AppendReply(x, m, s, FALSE)
         \/ /\ Accepts(s, node[m.to], m)
            /\ \A x \in net' : x \in net \/ AppendReply(x, m, s, TRUE),
         NEW T, T = IF Accepts(s, node[m.to], m) /\ m.call.k = "write"
                    THEN taken \cup {<<m.to, m.call.index, m.call.term>>} ELSE taken
  PROVE  AcksInv(given, logs, T)'
<1> DEFINE n == m.to
           log == LogOf(n)
<1>1. /\ m \in net /\ m.type = "append" /\ n \in Node /\ Running(n)
      /\ UNCHANGED <<votes, elected, calls>>
  BY HandleAppendEntriesDoes DEF history
<1>2. m.term \in Nat /\ m.prev \in Nat /\ m.entries \in Seq(Entry) /\ CallIdOK(m.call)
  BY <1>1 DEF BaseInv, MessageOK
<1>3. /\ TermOf(n) = node[n].term /\ log = node[n].log /\ TermOf(n) \in Nat /\ log \in Seq(Entry)
      /\ s.term \in Nat
  BY <1>1, RunningInSync, LogsOnDisk DEF Turns, State
<1>4. /\ node'[n] = s /\ TermOf(n)' = s.term /\ LogOf(n)' = s.log
      /\ \A x \in Node \ {n} : node'[x] = node[x] /\ TermOf(x)' = TermOf(x) /\ LogOf(x)' = LogOf(x)
  BY <1>1, TurnsTo
<1>5. /\ s.term >= TermOf(n)
      /\ s.role = "candidate" => s = node[n]
      /\ Accepts(s, node[n], m) => s.term = m.term
  <2>1. ASSUME Follows(s, node[n], m)
        PROVE  s.term = m.term /\ m.term >= TermOf(n) /\ s.role # "candidate"
    BY <1>3, <2>1 DEF Follows
  <2>2. Accepts(s, node[n], m) => Follows(s, node[n], m)
    BY DEF Accepts
  <2>3. Follows(s, node[n], m) \/ s = node[n]
    BY <2>2
  <2>4. CASE Follows(s, node[n], m)
    BY <1>2, <2>1, <2>4
  <2>5. CASE s = node[n] /\ ~ Follows(s, node[n], m)
    BY <1>3, <2>2, <2>5
  <2> QED
    BY <2>3, <2>4, <2>5
<1>6. TermsGrow
  BY <1>3, <1>4, <1>5, LogsOnDisk DEF TermsGrow
<1>7. GivenOK(given)' /\ Grown(logs, logs)
  <2>1. VotesInv(given)'
    BY HandleAppendEntriesQuiet, VotesKept
  <2> QED
    BY <2>1, GrownSelf DEF VotesInv, LogsInv
<1>8. RequestOK(logs, m)
  BY <1>1 DEF LogsInv, MessagesFit
<1>9. ASSUME Accepts(s, node[n], m), m.call.k = "write"
      PROVE  /\ m.call.index \in Nat /\ m.call.term = m.term
             /\ Has(logs[m.term], m.call.index, m.term) /\ Has(s.log, m.call.index, m.term)
  <2>1. m.call \in WriteId
    BY <1>2, <1>9 DEF CallIdOK
  <2>2. m.call.index \in Nat
    BY <2>1 DEF WriteId
  <2>3. /\ m.call.term = m.term /\ Has(logs[m.term], m.call.index, m.term)
        /\ m.call.index <= m.prev + Len(m.entries)
    BY <1>8, <1>9 DEF RequestOK
  <2>4. Agree(s.log, logs[m.term], m.prev + Len(m.entries))
    BY <1>1, <1>9, AcceptsHeld
  <2>5. m.call.index \in 1..m.prev + Len(m.entries)
    <3>1. Len(m.entries) \in Nat
      BY <1>2, LenProperties
    <3> QED
      BY <1>2, <2>2, <2>3, <3>1 DEF Has
  <2>6. s.log \in Seq(Entry)
    BY DEF Turns, State
  <2>7. Len(s.log) \in Nat /\ Len(m.entries) \in Nat
    BY <1>2, <2>6, LenProperties
  <2>8. m.call.index \in 1..Len(s.log) /\ s.log[m.call.index] = logs[m.term][m.call.index]
    <3> DEFINE i == m.call.index
               last == m.prev + Len(m.entries)
    <3>1. i \in Nat /\ last \in Nat /\ i >= 1 /\ i <= last
      BY <1>2, <2>2, <2>5, <2>7
    <3>2. last <= Len(s.log) /\ \A j \in 1..last : s.log[j] = logs[m.term][j]
      BY <2>4 DEF Agree
    <3> HIDE DEF i, last
    <3>3. i \in 1..Len(s.log) /\ s.log[i] = logs[m.term][i]
      BY <2>7, <3>1, <3>2
    <3> QED
      BY <3>3 DEF i
  <2> QED
    BY <2>2, <2>3, <2>8 DEF Has
<1>10. TakesNow(logs, taken, T)
  <2>1. CASE Accepts(s, node[n], m) /\ m.call.k = "write"
    <3>1. T = taken \cup {<<n, m.call.index, m.call.term>>}
      BY <2>1
    <3>2. TermOf(n) <= m.term /\ TermOf(n)' = m.term
      BY <1>2, <1>3, <1>4, <1>5, <2>1
    <3> QED
      BY <1>4, <1>9, <2>1, <3>1, <3>2 DEF TakesNow
  <2>2. CASE ~(Accepts(s, node[n], m) /\ m.call.k = "write")
    <3>1. T = taken
      BY <2>2
    <3> QED
      BY <3>1 DEF TakesNow
  <2> QED
    BY <2>1, <2>2
<1>11. ASSUME NEW x \in Node, NEW i \in Nat, NEW t \in Nat, <<x, i, t>> \in taken, Has(LogOf(x), i, t)
       PROVE  Has(LogOf(x)', i, t) \/ Blocked(taken, i, t)
  <2>1. CASE x # n
    BY <1>4, <1>11, <2>1
  <2>2. CASE x = n /\ s.log = log
    BY <1>4, <1>11, <2>2
  <2>3. CASE x = n /\ s.log # log
    <3>1. Accepts(s, node[n], m)
      BY <1>3, <2>3 DEF SameData
    <3> DEFINE lead == logs[m.term]
               last == m.prev + Len(m.entries)
    <3>2. /\ Agree(s.log, lead, last) /\ Len(s.log) = last
          /\ \E k \in 1..Len(m.entries) : /\ \A j \in 1..m.prev + k - 1 : j <= Len(log) /\ log[j] = lead[j]
                                          /\ ~ Has(log, m.prev + k, lead[m.prev + k].term)
      BY <1>1, <2>3, <3>1, AcceptsHeld
    <3>3. PICK k \in 1..Len(m.entries) : ~ Has(log, m.prev + k, lead[m.prev + k].term)
      BY <3>2
    <3>4. lead \in Seq(Entry) /\ LogsOK(logs) /\ Held(logs, lead) /\ Held(logs, log)
      BY <1>1, <1>2, LeadersLog DEF LogsInv, NodesFit
    <3>5. last <= Len(lead) /\ last \in Nat /\ m.prev \in Nat /\ Len(m.entries) \in Nat /\ Len(log) \in Nat /\ Len(lead) \in Nat
      <4>1. Len(m.entries) \in Nat /\ Len(log) \in Nat /\ Len(lead) \in Nat
        BY <1>2, <1>3, <3>4, LenProperties
      <4> QED
        BY <1>2, <1>8, <4>1 DEF RequestOK
    <3> HIDE DEF lead
    <3>6. Has(lead, i, t) \/ Blocked(taken, i, t)
      <4>1. t <= TermOf(n) /\ TermOf(n) <= m.term
        BY <1>2, <1>3, <1>5, <1>11, <2>3, <3>1 DEF AcksInv, TakenOK
      <4>2. CASE t = m.term
        BY <1>11, <4>2 DEF AcksInv, TakenOK, lead
      <4>3. CASE t < m.term
        <5>1. lead # <<>>
          <6>1. Len(lead) # 0
            BY <1>2, <3>3, <3>5
          <6> QED
            BY <3>4, <6>1, EmptySeq
        <5>2. \E p \in Node : <<m.term, p>> \in elected
          BY <1>2, <5>1 DEF LogsInv, NodesFit, lead
        <5> QED
          BY <1>2, <4>3, <5>2 DEF AcksInv, ElectedKept, Kept, lead
      <4> QED
        BY <1>2, <1>3, <4>1, <4>2, <4>3
    <3>7. ASSUME Has(lead, i, t)
          PROVE  Has(s.log, i, t)
      <4>1. Agree(log, lead, i)
        <5>1. i \in Nat /\ t \in Nat /\ Has(log, i, t) /\ Has(lead, i, t)
          BY <1>11, <2>3, <3>7
        <5>2. log \in Seq(Entry) /\ lead \in Seq(Entry) /\ LogsOK(logs) /\ Held(logs, log) /\ Held(logs, lead)
          BY <1>3, <1>11, <3>4
        <5> QED
          BY <5>1, <5>2, HeldAgree
      <4>2. i <= last
        <5> SUFFICES ASSUME ~(i <= last) PROVE FALSE
          OBVIOUS
        <5>1. m.prev + k \in 1..i /\ m.prev + k \in Nat
          <6>1. k \in Nat /\ k >= 1 /\ k <= Len(m.entries) /\ m.prev \in Nat /\ Len(m.entries) \in Nat
            BY <3>3, <3>5
          <6> QED
            BY <6>1
        <5>2. log[m.prev + k] = lead[m.prev + k] /\ i <= Len(log)
          BY <4>1, <5>1 DEF Agree
        <5>3. m.prev + k \in 1..Len(log)
          BY <3>5, <5>1, <5>2
        <5> QED
          BY <3>3, <5>2, <5>3 DEF Has
      <4>3. i \in 1..last
        BY <3>5, <3>7, <4>2 DEF Has
      <4> QED
        BY <3>2, <3>7, <4>3 DEF Agree, Has
    <3> QED
      BY <1>4, <2>3, <3>6, <3>7
  <2> QED
    BY <2>1, <2>2, <2>3
<1>12. ASSUME NEW p \in Node, NEW x \in Node, NEW i \in Nat, NEW t \in Nat,
              node'[p].role = "candidate", <<x, p, TermOf(p)'>> \in given, <<x, i, t>> \in taken, t < TermOf(p)'
       PROVE  Kept(taken, LogOf(p)', i, t)
  <2>1. node[p].role = "candidate" /\ TermOf(p)' = TermOf(p) /\ LogOf(p)' = LogOf(p)
    BY <1>3, <1>4, <1>5, <1>12
  <2> QED
    BY <1>12, <2>1 DEF AcksInv, CandidatesKept
<1>13. AcksOK(T)'
  <2>1. taken \subseteq T
    BY <1>10 DEF TakesNow
  <2>2. ASSUME NEW x \in net', x.type = "appended", x.call.k = "write", x.success
        PROVE  <<x.from, x.call.index, x.call.term>> \in T
    <3>1. CASE x \in net
      BY <2>1, <2>2, <3>1 DEF AcksInv, AcksOK
    <3>2. CASE x \notin net
      <4>1. Accepts(s, node[n], m) /\ x.from = n /\ x.call = m.call
        BY <2>2, <3>2 DEF AppendReply
      <4> QED
        BY <2>2, <4>1
    <3> QED
      BY <3>1, <3>2
  <2> QED
    BY <1>1, <2>1, <2>2 DEF AcksInv, AcksOK
<1> QED
  BY <1>1, <1>6, <1>7, <1>10, <1>11, <1>12, <1>13, AcksStep

\* A leader takes what it proposes.
LEMMA ProposeAcks ==
  ASSUME DisksWork, BaseInv, budget' = budget, used.writes \in Nat, NEW given, VotesInv(given),
         NEW logs, LogsInv(logs), NEW taken, AcksInv(given, logs, taken), NEW n \in Node, Propose(n),
         NEW L, L = [logs EXCEPT ![TermOf(n)] = Append(LogOf(n), [term |-> TermOf(n), cmd |-> used.writes + 1])],
         NEW T, T = taken \cup {<<n, Len(LogOf(n)) + 1, TermOf(n)>>}
  PROVE  AcksInv(given, L, T)'
<1> DEFINE t == TermOf(n)
           log == LogOf(n)
           e == [term |-> t, cmd |-> used.writes + 1]
           longer == Append(log, e)
<1>1. Leads(n) /\ Running(n) /\ net' = net /\ elected' = elected
  BY ProposeDoes DEF history
<1>2. t \in Nat /\ log \in Seq(Entry) /\ t = node[n].term /\ log = node[n].log
  BY <1>1, RunningInSync, LogsOnDisk
<1> HIDE DEF t, log, e, longer
<1>3. PICK s, c : /\ Turns(n, s) /\ s.role = node[n].role /\ s.term = node[n].term
                  /\ s.votedFor = node[n].votedFor /\ s.commit = node[n].commit
                  /\ s.applied = node[n].applied
                  /\ s.log = Append(node[n].log, [term |-> node[n].term, cmd |-> used.writes + 1])
                  /\ calls' = calls \cup {c}
                  /\ c \in Call /\ c.node = n /\ c.acks = {n} /\ c.todo = Peers(n)
                  /\ c.id.index = Len(s.log) /\ c.id.term = s.term
  BY ProposeDoes
<1> USE DEF t, log, e, longer
<1>4. e \in Entry /\ e.term = t
  BY <1>2 DEF Entry
<1>5. s.log = longer /\ s.term = t /\ s.role = "leader"
  BY <1>1, <1>2, <1>3 DEF Leads
<1> HIDE DEF e
<1>6. /\ longer \in Seq(Entry) /\ Len(longer) = Len(log) + 1 /\ longer[Len(log) + 1] = e
      /\ \A i \in 1..Len(log) : longer[i] = log[i]
  BY <1>2, <1>4, AppendProperties
<1>7. L = [logs EXCEPT ![t] = longer] /\ T = taken \cup {<<n, Len(longer), t>>}
  BY <1>6 DEF e
<1>8. Len(log) \in Nat
  BY <1>2, LenProperties
<1>9. /\ node'[n] = s /\ TermOf(n)' = t /\ LogOf(n)' = longer
      /\ \A x \in Node \ {n} : node'[x] = node[x] /\ TermOf(x)' = TermOf(x) /\ LogOf(x)' = LogOf(x)
  BY <1>3, <1>5, TurnsTo
<1>10. Grown(logs, L) /\ VotesInv(given)'
  BY ProposeLogs, ProposeQuiet, VotesKept
<1> HIDE DEF t, log, longer
<1>11. TermsGrow
  BY <1>2, <1>9, LogsOnDisk DEF TermsGrow, t
<1>12. L[t] = longer
  BY <1>2, <1>7 DEF LogsInv, LogsOK
<1>13. Has(longer, Len(longer), t)
  BY <1>4, <1>6, <1>8 DEF Has
<1>14. TakesNow(L, taken, T)
  <2>1. TermOf(n) = t /\ Len(longer) \in Nat /\ t <= t
    BY <1>2, <1>6, <1>8 DEF t
  <2>2. ASSUME NEW x, NEW i, NEW u, <<x, i, u>> \in T
        PROVE  <<x, i, u>> \in taken \/ (x = n /\ i = Len(longer) /\ u = t)
    BY <1>7, <2>2
  <2> QED
    BY <1>2, <1>7, <1>9, <1>12, <1>13, <2>1, <2>2 DEF TakesNow
<1>15. ASSUME NEW x \in Node, NEW i \in Nat, NEW u \in Nat, <<x, i, u>> \in taken, Has(LogOf(x), i, u)
       PROVE  Has(LogOf(x)', i, u) \/ Blocked(taken, i, u)
  <2>1. CASE x = n
    BY <1>6, <1>8, <1>9, <1>15, <2>1 DEF Has, log
  <2>2. CASE x # n
    BY <1>9, <1>15, <2>2
  <2> QED
    BY <2>1, <2>2
<1>16. ASSUME NEW p \in Node, NEW x \in Node, NEW i \in Nat, NEW u \in Nat,
              node'[p].role = "candidate", <<x, p, TermOf(p)'>> \in given, <<x, i, u>> \in taken, u < TermOf(p)'
       PROVE  Kept(taken, LogOf(p)', i, u)
  <2>1. node[p].role = "candidate" /\ TermOf(p)' = TermOf(p) /\ LogOf(p)' = LogOf(p)
    BY <1>5, <1>9, <1>16
  <2> QED
    BY <1>16, <2>1 DEF AcksInv, CandidatesKept
<1>17. AcksOK(T)'
  BY <1>1, <1>3, <1>5, <1>7 DEF AcksInv, AcksOK
<1>18. GivenOK(given)'
  BY <1>10 DEF VotesInv
<1> QED
  BY <1>1, <1>10, <1>11, <1>14, <1>15, <1>16, <1>17, <1>18, AcksStep

\* A call counts who has what it waits for.
LEMMA ReplicatedAcks ==
  ASSUME DisksWork, BaseInv, budget' = budget, NEW given, VotesInv(given),
         NEW logs, LogsInv(logs), NEW taken, AcksInv(given, logs, taken), NEW m, Replicated(m)
  PROVE  AcksInv(given, logs, taken)'
<1>0. CallsInRange
  BY CallsAreInRange
<1>1. /\ m.to \in Node /\ Running(m.to) /\ elected' = elected
      /\ m \in net /\ m.type = "appended" /\ m.call.k = "write"
  BY <1>0, ReplicatedDoes
<1>2. PICK c, s : c \in calls /\ Turns(m.to, s) /\ Learns(m, s, node[m.to], c) /\ c \in Call /\ c.node = m.to /\ c.id = m.call
  BY <1>0, ReplicatedDoes
<1>3. /\ LogOf(m.to) = node[m.to].log /\ s.log = LogOf(m.to)
  BY <1>1, <1>2, RunningInSync DEF Learns, Decides, SameData
<1>4. \A x \in Node : LogOf(x)' = LogOf(x)
  BY <1>1, <1>2, <1>3, TurnsTo
<1>5. VotesQuiet
  BY <1>0, ReplicatedQuiet
<1>6. VotesInv(given)' /\ TermsGrow /\ OfficesKept
  BY <1>5, VotesKept DEF VotesQuiet
<1>7. m.success => <<m.from, c.id.index, c.id.term>> \in taken
  BY <1>1, <1>2 DEF AcksInv, AcksOK
<1>8. ASSUME NEW d \in calls', NEW n \in d.acks
      PROVE  <<n, d.id.index, d.id.term>> \in taken
  <2>1. \/ d \in calls
        \/ m.success /\ d.id = c.id /\ d.acks = c.acks \cup {m.from}
    BY <1>2 DEF Learns
  <2> QED
    BY <1>2, <1>7, <1>8, <2>1 DEF AcksInv, AcksOK
<1>9. \A x \in net' : x \in net \/ x.type = "append"
  BY <1>2 DEF Learns, IsRequest
<1> QED
  BY <1>1, <1>4, <1>6, <1>8, <1>9, AcksKept

LEMMA RestAcks ==
  ASSUME DisksWork, BaseInv, budget' = budget, used.reads \in Nat, NEW given, VotesInv(given),
         NEW logs, LogsInv(logs), NEW taken, AcksInv(given, logs, taken),
         \/ \E c \in calls : \E p \in c.todo : Replicate(c, p)
         \/ \E n \in Node : Heartbeat(n) \/ StartRead(n) \/ Snapshot(n) \/ Crash(n) \/ Restart(n)
         \/ \E m \in net : ReadConfirmed(m)
  PROVE  AcksInv(given, logs, taken)'
<1>1. VotesQuiet
  BY RestQuiet, CrashQuiet, RestartQuiet
<1>2. VotesInv(given)' /\ TermsGrow /\ OfficesKept /\ elected' = elected
  BY <1>1, VotesKept DEF VotesQuiet
<1>3. \A n \in Node : LogOf(n)' = LogOf(n)
  <2>1. ASSUME NEW n \in Node, Restart(n)
        PROVE  file' = file
    BY <2>1, RestartDoes DEF durable
  <2>2. ASSUME NEW n \in Node, Crash(n)
        PROVE  file' = file
    BY <2>2, CrashDoes DEF durable
  <2>3. file' = file
    BY <2>1, <2>2, ReplicateDoes, HeartbeatDoes, StartReadDoes, SnapshotDoes, ReadConfirmedDoes DEF StaysPut
  <2> QED
    BY <2>3 DEF LogOf
<1>4. \A c \in calls' : \E d \in calls : c.id = d.id /\ c.acks = d.acks
  BY ReplicateDoes, HeartbeatDoes, StartReadDoes, SnapshotDoes, ReadConfirmedDoes, CrashDoes, RestartDoes
     DEF volatile
<1>5. \A c \in calls' : \A n \in c.acks : <<n, c.id.index, c.id.term>> \in taken
  BY <1>4 DEF AcksInv, AcksOK
<1>6. \A m \in net' : m \in net \/ m.type = "append"
  BY ReplicateDoes, HeartbeatDoes, StartReadDoes, SnapshotDoes, ReadConfirmedDoes, CrashDoes, RestartDoes
     DEF volatile, IsRequest
<1> QED
  BY <1>2, <1>3, <1>5, <1>6, AcksKept

-----------------------------------------------------------------------------
(* What is counted.                                                        *)

Counts == [elections : Nat, beats : Nat, writes : Nat, crashes : Nat, reads : Nat, snapshots : Nat]

UsedOK ==
  /\ used \in Counts /\ budget.elections \in Nat /\ budget.writes \in Nat
  /\ used.elections <= budget.elections /\ used.writes <= budget.writes

\* Terms come from elections.
TermsCounted ==
  /\ \A n \in Node : TermOf(n) <= used.elections /\ votes[n].term <= used.elections
  /\ \A m \in net : m.term <= used.elections

\* No proposal is used twice in a log.
Distinct(log) == \A i, j \in 1..Len(log) : log[i].cmd = log[j].cmd => i = j

Numbered(log, last) == Distinct(log) /\ \A i \in 1..Len(log) : log[i].cmd \in 1..last

AllNumbered(logs, last) == \A t \in Nat : Numbered(logs[t], last)

\* What a step uses up.
LEMMA UsedKept ==
  ASSUME UsedOK, Next
  PROVE  /\ UsedOK' /\ used'.elections >= used.elections /\ used'.writes >= used.writes
         /\ \A n \in Node : StartElection(n) => used'.elections = used.elections + 1
         /\ \A n \in Node : Propose(n) => used'.writes = used.writes + 1
<1>1. /\ used \in Counts /\ budget' = budget
      /\ used.elections \in Nat /\ used.writes \in Nat /\ used.beats \in Nat /\ used.crashes \in Nat
      /\ used.reads \in Nat /\ used.snapshots \in Nat
  BY DEF UsedOK, Counts, Next
<1>2. ASSUME NEW n \in Node, StartElection(n)
      PROVE  /\ used' \in Counts /\ used'.elections = used.elections + 1 /\ used'.writes = used.writes
             /\ used.elections < budget.elections
  BY <1>1, <1>2 DEF StartElection, Use, Counts
<1>3. ASSUME NEW n \in Node, Propose(n)
      PROVE  /\ used' \in Counts /\ used'.elections = used.elections /\ used'.writes = used.writes + 1
             /\ used.writes < budget.writes
  BY <1>1, <1>3 DEF Propose, Use, Counts
<1>4. ASSUME NEW n \in Node, Heartbeat(n) \/ StartRead(n) \/ Crash(n) \/ Restart(n) \/ Snapshot(n)
      PROVE  used' \in Counts /\ used'.elections = used.elections /\ used'.writes = used.writes
  BY <1>1, <1>4 DEF Heartbeat, StartRead, Crash, Restart, Snapshot, Use, Counts
<1>5. ASSUME NEW m \in net, HandleRequestVote(m) \/ CountVote(m) \/ HandleAppendEntries(m) \/ Replicated(m) \/ ReadConfirmed(m)
      PROVE  used' = used
  BY <1>5 DEF HandleRequestVote, CountVote, HandleAppendEntries, Replicated, ReadConfirmed
<1>6. ASSUME NEW c \in calls, NEW p \in c.todo, Replicate(c, p)
      PROVE  used' = used
  BY <1>6 DEF Replicate
<1>7. /\ used' \in Counts
      /\ \/ used'.elections = used.elections /\ used'.writes = used.writes
         \/ used'.elections = used.elections + 1 /\ used.elections < budget.elections /\ used'.writes = used.writes
         \/ used'.elections = used.elections /\ used'.writes = used.writes + 1 /\ used.writes < budget.writes
  BY <1>1, <1>2, <1>3, <1>4, <1>5, <1>6 DEF Next, Step
<1>8. used'.elections <= budget.elections /\ used'.writes <= budget.writes
  BY <1>1, <1>7 DEF UsedOK
<1>9. used'.elections >= used.elections /\ used'.writes >= used.writes
  BY <1>1, <1>7
<1> QED
  BY <1>1, <1>2, <1>3, <1>7, <1>8, <1>9 DEF UsedOK

LEMMA TermsStep ==
  ASSUME BaseInv, used.elections \in Nat, TermsCounted, used'.elections \in Nat, used'.elections >= used.elections,
         \A n \in Node : TermOf(n)' = TermOf(n) \/ TermOf(n)' <= used'.elections,
         \A n \in Node : votes'[n].term = votes[n].term \/ votes'[n].term <= used'.elections,
         \A m \in net' : m \in net \/ m.term <= used'.elections
  PROVE  TermsCounted'
<1>1. ASSUME NEW n \in Node
      PROVE  TermOf(n)' <= used'.elections /\ votes'[n].term <= used'.elections
  <2>1. TermOf(n) \in Nat /\ votes[n].term \in Nat
    BY LogsOnDisk DEF BaseInv
  <2>2. TermOf(n) <= used.elections /\ votes[n].term <= used.elections
    BY DEF TermsCounted
  <2>3. TermOf(n) <= used'.elections /\ votes[n].term <= used'.elections
    BY <2>1, <2>2
  <2> QED
    BY <2>3
<1>2. ASSUME NEW m \in net'
      PROVE  m.term <= used'.elections
  <2>1. CASE m \in net
    <3>1. m.term \in Nat /\ m.term <= used.elections
      BY <2>1 DEF BaseInv, MessageOK, TermsCounted
    <3> QED
      BY <3>1
  <2> QED
    BY <1>2, <2>1
<1> QED
  BY <1>1, <1>2 DEF TermsCounted

\* Who votes is, after that, in the term it was in or in that of the request.
LEMMA TurnsOneTerm ==
  ASSUME BaseInv, NEW m \in net, HandleRequestVote(m), m.to \in Node, NEW s, Turns(m.to, s)
  PROVE  s.term = node[m.to].term \/ s.term = m.term
<1> DEFINE n == m.to
           f == IF m.term > node[n].term THEN Follower(node[n], m.term) ELSE node[n]
<1>1. node[n] \in State /\ m.term \in Nat
  BY DEF BaseInv, MessageOK
<1>2. f \in State /\ (f.term = m.term \/ f = node[n])
  BY <1>1, FollowerIs
<1> HIDE DEF f
<1>3. s = f \/ s = [f EXCEPT !.votedFor = m.from]
  <2>1. node'[n] = s
    BY TurnsTo
  <2>2. node'[n] = f \/ node'[n] = [f EXCEPT !.votedFor = m.from]
    BY DEF HandleRequestVote, f, BaseInv
  <2> QED
    BY <2>1, <2>2
<1> QED
  BY <1>2, <1>3 DEF State

\* A request is of the term of who sends it.
LEMMA RequestsOfLeaders ==
  ASSUME BaseInv, NEW x, IsRequest(x)
  PROVE  x.from \in Node /\ Running(x.from) /\ x.term = TermOf(x.from)
<1>1. x.from \in Node /\ Running(x.from)
  BY DEF IsRequest, MessageOK, Leads, Running
<1> QED
  BY <1>1, RunningInSync DEF IsRequest

\* Terms stay in the bounds of the elections.
LEMMA TermsKept ==
  ASSUME DisksWork, BaseInv, CallsInRange, UsedOK, TermsCounted, Next
  PROVE  TermsCounted'
<1> DEFINE E == used'.elections
<1>1. /\ budget' = budget /\ used.elections \in Nat /\ E \in Nat /\ E >= used.elections
      /\ used.writes \in Nat /\ used.reads \in Nat
  BY UsedKept DEF Next, UsedOK, Counts
<1>2. /\ \A n \in Node : /\ TermOf(n) \in Nat /\ TermOf(n) <= E
                         /\ Running(n) => TermOf(n) = node[n].term
      /\ \A m \in net : m.term \in Nat /\ m.term <= E
  <2>1. ASSUME NEW n \in Node
        PROVE  TermOf(n) \in Nat /\ TermOf(n) <= used.elections
    BY LogsOnDisk DEF TermsCounted
  <2>2. ASSUME NEW m \in net
        PROVE  m.term \in Nat /\ m.term <= used.elections
    BY DEF TermsCounted, BaseInv, MessageOK
  <2> QED
    BY <1>1, <2>1, <2>2, RunningInSync
<1> HIDE DEF E
<1>3. ASSUME NEW n \in Node, NEW s, Turns(n, s), s.term <= E
      PROVE  \A x \in Node : TermOf(x)' = TermOf(x) \/ TermOf(x)' <= E
  BY <1>3, TurnsTo
<1>4. ASSUME UNCHANGED <<votes, meta>>,
             \A m \in net' : m \in net \/ m.term <= E
      PROVE  TermsCounted'
  BY <1>1, <1>4, TermsStep DEF TermOf, E
<1>5. ASSUME NEW n \in Node, NEW s, Turns(n, s), s.term <= E,
             \A x \in Node : votes'[x].term = votes[x].term \/ votes'[x].term <= E,
             \A m \in net' : m \in net \/ m.term <= E
      PROVE  TermsCounted'
  BY <1>1, <1>3, <1>5, TermsStep DEF E
<1>6. ASSUME NEW n \in Node, StartElection(n)
      PROVE  TermsCounted'
  <2>1. Running(n) /\ E = used.elections + 1
    BY <1>1, <1>6, UsedKept, StartElectionDoes DEF E
  <2>2. PICK s : /\ Turns(n, s) /\ s.term = node[n].term + 1
                 /\ votes' = [votes EXCEPT ![n] = [term |-> s.term, from |-> {n}]]
                 /\ \A o \in net' : \/ o \in net /\ ~(o.type = "voted" /\ o.to = n)
                                    \/ VoteRequest(o, n, s) /\ MessageOK(o)
    BY <1>1, <1>6, StartElectionDoes
  <2>3. s.term <= E
    <3>1. TermOf(n) <= used.elections
      BY DEF TermsCounted
    <3> QED
      BY <1>1, <1>2, <2>1, <2>2, <3>1
  <2>4. \A x \in Node : votes'[x].term = votes[x].term \/ votes'[x].term <= E
    BY <2>2, <2>3 DEF BaseInv
  <2>5. \A m \in net' : m \in net \/ m.term <= E
    BY <2>2, <2>3 DEF VoteRequest
  <2> QED
    BY <1>5, <2>2, <2>3, <2>4, <2>5
<1>7. ASSUME NEW m \in net, HandleRequestVote(m)
      PROVE  TermsCounted'
  <2>1. m.to \in Node /\ Running(m.to) /\ votes' = votes
    BY <1>1, <1>7, HandleRequestVoteDoes
  <2>2. PICK s : /\ Turns(m.to, s) /\ Votes(s, node[m.to], m)
                 /\ \A o \in net' : o \in net \/ VoteReply(o, m.to, s, m, node[m.to])
    BY <1>1, <1>7, HandleRequestVoteDoes
  <2>3. s.term <= E
    <3>1. s.term \in Nat
      BY <2>2 DEF Turns, State
    <3>2. s.term = node[m.to].term \/ s.term = m.term
      BY <1>7, <2>1, <2>2, TurnsOneTerm
    <3> QED
      BY <1>2, <2>1, <3>2
  <2>4. \A o \in net' : o \in net \/ o.term <= E
    BY <2>2, <2>3 DEF VoteReply
  <2> QED
    BY <1>5, <2>1, <2>2, <2>3, <2>4
<1>8. ASSUME NEW m \in net, CountVote(m)
      PROVE  TermsCounted'
  <2>1. m.to \in Node /\ Running(m.to) /\ net' \subseteq net
    BY <1>1, <1>8, CountVoteDoes
  <2>2. PICK s : Turns(m.to, s) /\ SameData(s, node[m.to]) /\ VoteCounted(m, m.to, s)
    BY <1>1, <1>8, CountVoteDoes
  <2>3. s.term = node[m.to].term \/ s.term = m.term
    BY <2>2 DEF VoteCounted
  <2>4. s.term <= E
    BY <1>2, <2>1, <2>3
  <2>5. \A x \in Node : votes'[x].term = votes[x].term \/ votes'[x].term <= E
    <3>1. \/ votes' = [votes EXCEPT ![m.to] = NoElection]
          \/ votes' = [votes EXCEPT ![m.to] = [votes[m.to] EXCEPT !.from = Count(m)]]
      BY <1>1, <1>8, CountVoteDoes
    <3>2. NoElection.term <= E
      BY <1>1 DEF NoElection
    <3>3. [votes[m.to] EXCEPT !.from = Count(m)].term = votes[m.to].term
      BY <2>1 DEF BaseInv
    <3> QED
      BY <2>1, <3>1, <3>2, <3>3 DEF BaseInv
  <2> QED
    BY <1>5, <2>1, <2>2, <2>4, <2>5
<1>9. ASSUME NEW m \in net, HandleAppendEntries(m)
      PROVE  TermsCounted'
  <2>1. m.to \in Node /\ Running(m.to) /\ votes' = votes
    BY <1>1, <1>9, HandleAppendEntriesDoes
  <2>2. PICK s : /\ Turns(m.to, s)
                 /\ \/ /\ m.term < node[m.to].term /\ s = node[m.to]
                       /\ \A x \in net' : x \in net \/ AppendReply(x, m, s, FALSE)
                    \/ /\ Follows(s, node[m.to], m) /\ SameData(s, node[m.to])
                       /\ \A x \in net' : x \in net \/ (AppendReply(x, m, s, FALSE) /\ x.conflict <= m.prev)
                    \/ /\ Accepts(s, node[m.to], m)
                       /\ \A x \in net' : x \in net \/ AppendReply(x, m, s, TRUE)
    BY <1>1, <1>9, HandleAppendEntriesDoes
  <2>3. s.term = node[m.to].term \/ s.term = m.term
    BY <2>2 DEF Follows, Accepts
  <2>4. s.term <= E
    BY <1>2, <2>1, <2>3
  <2>5. \A o \in net' : o \in net \/ o.term = s.term
    BY <2>2 DEF AppendReply
  <2>6. \A o \in net' : o \in net \/ o.term <= E
    BY <2>4, <2>5
  <2> QED
    BY <1>5, <2>1, <2>2, <2>4, <2>6
<1>10. ASSUME NEW n \in Node, Propose(n)
       PROVE  TermsCounted'
  <2>1. Running(n) /\ net' = net /\ votes' = votes
    BY <1>1, <1>10, ProposeDoes
  <2>2. PICK s, c : /\ Turns(n, s) /\ s.role = node[n].role /\ s.term = node[n].term
                    /\ s.votedFor = node[n].votedFor /\ s.commit = node[n].commit
                    /\ s.applied = node[n].applied
                    /\ s.log = Append(node[n].log, [term |-> node[n].term, cmd |-> used.writes + 1])
                    /\ calls' = calls \cup {c}
                    /\ c \in Call /\ c.node = n /\ c.acks = {n} /\ c.todo = Peers(n)
                    /\ c.id.index = Len(s.log) /\ c.id.term = s.term
    BY <1>1, <1>10, ProposeDoes
  <2> QED
    BY <1>2, <1>5, <2>1, <2>2
<1>11. ASSUME NEW m \in net, Replicated(m)
       PROVE  TermsCounted'
  <2>1. m.to \in Node /\ Running(m.to) /\ votes' = votes
    BY <1>1, <1>11, ReplicatedDoes
  <2>2. PICK c, s : c \in calls /\ Turns(m.to, s) /\ Learns(m, s, node[m.to], c)
    BY <1>1, <1>11, ReplicatedDoes
  <2>3. s.term = node[m.to].term \/ s.term = m.term
    BY <2>2 DEF Learns, Decides
  <2>4. s.term <= E
    BY <1>2, <2>1, <2>3
  <2>5. \A o \in net' : \/ o \in net
                        \/ IsRequest(o) /\ o.from = m.to
    BY <2>2 DEF Learns
  <2>6. \A o \in net' : o \in net \/ o.term = node[m.to].term
    BY <2>5 DEF IsRequest
  <2>7. \A o \in net' : o \in net \/ o.term <= E
    BY <1>2, <2>1, <2>6
  <2> QED
    BY <1>5, <2>1, <2>2, <2>4, <2>7
<1>12. ASSUME NEW c \in calls, NEW p \in c.todo, Replicate(c, p)
       PROVE  TermsCounted'
  <2>1. /\ StaysPut /\ votes' = votes
        /\ \A x \in net' : x \in net \/ IsRequest(x)
    BY <1>1, <1>12, ReplicateDoes
  <2> QED
    BY <1>2, <1>4, <2>1, RequestsOfLeaders DEF StaysPut
<1>13. ASSUME NEW n \in Node, Heartbeat(n)
       PROVE  TermsCounted'
  <2>1. /\ StaysPut /\ votes' = votes
        /\ \A x \in net' : x \in net \/ IsRequest(x)
    BY <1>1, <1>13, HeartbeatDoes DEF volatile
  <2> QED
    BY <1>2, <1>4, <2>1, RequestsOfLeaders DEF StaysPut
<1>14. ASSUME NEW n \in Node, StartRead(n)
       PROVE  TermsCounted'
  <2>1. /\ StaysPut /\ votes' = votes
        /\ \A x \in net' : x \in net \/ IsRequest(x)
    BY <1>1, <1>14, StartReadDoes
  <2> QED
    BY <1>2, <1>4, <2>1, RequestsOfLeaders DEF StaysPut
<1>15. ASSUME NEW n \in Node, Snapshot(n)
       PROVE  TermsCounted'
  BY <1>1, <1>4, <1>15, SnapshotDoes DEF StaysPut, volatile
<1>16. ASSUME NEW m \in net, ReadConfirmed(m)
       PROVE  TermsCounted'
  BY <1>1, <1>4, <1>16, ReadConfirmedDoes DEF StaysPut
<1>17. ASSUME NEW n \in Node, Crash(n)
       PROVE  TermsCounted'
  <2>1. meta' = meta /\ net' \subseteq net /\ votes' = [votes EXCEPT ![n] = NoElection]
    BY <1>1, <1>17, CrashDoes DEF durable
  <2>2. \A x \in Node : votes'[x].term = votes[x].term \/ votes'[x].term = 0
    BY <2>1 DEF BaseInv, NoElection
  <2>3. \A x \in Node : votes'[x].term = votes[x].term \/ votes'[x].term <= E
    BY <1>1, <2>2
  <2>4. \A x \in Node : TermOf(x)' = TermOf(x)
    BY <2>1 DEF TermOf
  <2> QED
    BY <1>1, <2>1, <2>3, <2>4, TermsStep DEF E
<1>18. ASSUME NEW n \in Node, Restart(n)
       PROVE  TermsCounted'
  <2>1. meta' = meta /\ net' = net /\ votes' = votes
    BY <1>1, <1>18, RestartDoes DEF durable
  <2> QED
    BY <1>4, <2>1
<1> QED
  BY <1>6, <1>7, <1>8, <1>9, <1>10, <1>11, <1>12, <1>13, <1>14, <1>15, <1>16, <1>17, <1>18 DEF Next, Step

\* What a log took from leaders is numbered as theirs.
LEMMA HeldNumbered ==
  ASSUME NEW logs, LogsOK(logs), NEW last \in Nat, AllNumbered(logs, last),
         NEW log \in Seq(Entry), Held(logs, log)
  PROVE  Numbered(log, last)
<1>1. Len(log) \in Nat
  BY LenProperties
<1>2. CASE Len(log) = 0
  BY <1>2 DEF Numbered, Distinct
<1>3. CASE Len(log) # 0
  <2>1. Len(log) \in 1..Len(log)
    BY <1>1, <1>3
  <2> DEFINE t == log[Len(log)].term
             lead == logs[t]
  <2>2. t \in Nat /\ Agree(log, lead, Len(log))
    BY <2>1, EntryIs DEF Held
  <2>3. lead \in Seq(Entry) /\ Numbered(lead, last)
    BY <2>2, LeadersLog DEF AllNumbered
  <2> HIDE DEF lead
  <2>4. Len(lead) \in Nat /\ \A i \in 1..Len(log) : i \in 1..Len(lead) /\ log[i] = lead[i]
    BY <1>1, <2>2, <2>3, LenProperties DEF Agree
  <2> QED
    BY <2>3, <2>4 DEF Numbered, Distinct
<1> QED
  BY <1>2, <1>3

LEMMA NumberedLonger ==
  ASSUME NEW log \in Seq(Entry), NEW last \in Nat, NEW next \in Nat, last <= next, Numbered(log, last)
  PROVE  Numbered(log, next)
<1>1. \A i \in 1..Len(log) : log[i].cmd \in 1..next
  BY DEF Numbered
<1> QED
  BY <1>1 DEF Numbered

LEMMA NumberedAppend ==
  ASSUME NEW log \in Seq(Entry), NEW last \in Nat, Numbered(log, last), NEW e \in Entry, e.cmd = last + 1
  PROVE  Numbered(Append(log, e), last + 1)
<1> DEFINE longer == Append(log, e)
<1>1. /\ longer \in Seq(Entry) /\ Len(longer) = Len(log) + 1 /\ longer[Len(log) + 1] = e
      /\ \A i \in 1..Len(log) : longer[i] = log[i]
  BY AppendProperties
<1>2. Len(log) \in Nat
  BY LenProperties
<1> HIDE DEF longer
<1>3. \A i \in 1..Len(longer) : i \in 1..Len(log) \/ i = Len(log) + 1
  BY <1>1, <1>2
<1>4. \A i \in 1..Len(log) : log[i].cmd \in Nat /\ log[i].cmd >= 1 /\ log[i].cmd <= last
  BY DEF Numbered
<1>5. \A i \in 1..Len(longer) : \/ i \in 1..Len(log) /\ longer[i].cmd = log[i].cmd
                                \/ i = Len(log) + 1 /\ longer[i].cmd = last + 1
  BY <1>1, <1>3
<1>6. \A i \in 1..Len(longer) : longer[i].cmd \in 1..last + 1
  BY <1>4, <1>5
<1>7. Distinct(longer)
  <2> SUFFICES ASSUME NEW i \in 1..Len(longer), NEW j \in 1..Len(longer), longer[i].cmd = longer[j].cmd
               PROVE  i = j
    BY DEF Distinct
  <2>1. CASE i \in 1..Len(log) /\ j \in 1..Len(log)
    BY <1>1, <2>1 DEF Numbered, Distinct
  <2>2. CASE i \notin 1..Len(log) /\ j \notin 1..Len(log)
    BY <1>3, <2>2
  <2>3. CASE i \in 1..Len(log) /\ j \notin 1..Len(log)
    BY <1>4, <1>5, <2>3
  <2>4. CASE i \notin 1..Len(log) /\ j \in 1..Len(log)
    BY <1>4, <1>5, <2>4
  <2> QED
    BY <2>1, <2>2, <2>3, <2>4
<1> QED
  BY <1>6, <1>7 DEF Numbered, longer

\* The logs of leaders hold what was proposed.
LEMMA NumberedStays ==
  ASSUME NEW logs, LogsOK(logs), NEW last \in Nat, NEW next \in Nat, last <= next, AllNumbered(logs, last)
  PROVE  AllNumbered(logs, next)
  BY LeadersLog, NumberedLonger DEF AllNumbered

LEMMA CountVoteNumbered ==
  ASSUME BaseInv, NEW logs, LogsInv(logs), NEW n \in Node, NEW last \in Nat, AllNumbered(logs, last),
         NEW L, L = [logs EXCEPT ![TermOf(n)] = LogOf(n)]
  PROVE  AllNumbered(L, last)
<1>1. LogOf(n) \in Seq(Entry) /\ Held(logs, LogOf(n)) /\ LogsOK(logs)
  BY LogsOnDisk DEF LogsInv, NodesFit
<1>2. Numbered(LogOf(n), last)
  BY <1>1, HeldNumbered
<1>3. \A t \in Nat : L[t] = logs[t] \/ L[t] = LogOf(n)
  BY <1>1 DEF LogsOK
<1> QED
  BY <1>2, <1>3 DEF AllNumbered

LEMMA ProposeNumbered ==
  ASSUME BaseInv, NEW logs, LogsInv(logs), NEW n \in Node, used.writes \in Nat, AllNumbered(logs, used.writes),
         NEW L, L = [logs EXCEPT ![TermOf(n)] = Append(LogOf(n), [term |-> TermOf(n), cmd |-> used.writes + 1])]
  PROVE  AllNumbered(L, used.writes + 1)
<1> DEFINE e == [term |-> TermOf(n), cmd |-> used.writes + 1]
<1>1. LogOf(n) \in Seq(Entry) /\ Held(logs, LogOf(n)) /\ LogsOK(logs) /\ TermOf(n) \in Nat
  BY LogsOnDisk DEF LogsInv, NodesFit
<1>2. Numbered(LogOf(n), used.writes)
  BY <1>1, HeldNumbered
<1>3. e \in Entry /\ e.cmd = used.writes + 1
  BY <1>1 DEF Entry
<1>4. L = [logs EXCEPT ![TermOf(n)] = Append(LogOf(n), e)]
  OBVIOUS
<1> HIDE DEF e
<1>5. Numbered(Append(LogOf(n), e), used.writes + 1)
  BY <1>1, <1>2, <1>3, NumberedAppend
<1>6. AllNumbered(logs, used.writes + 1)
  BY <1>1, NumberedStays
<1>7. \A t \in Nat : L[t] = logs[t] \/ L[t] = Append(LogOf(n), e)
  BY <1>1, <1>4 DEF LogsOK
<1> QED
  BY <1>5, <1>6, <1>7 DEF AllNumbered

-----------------------------------------------------------------------------
(* What is committed.                                                      *)

Committed(taken, i, t) == Majority({n \in Node : <<n, i, t>> \in taken})

\* What a majority took in its term is in the log of the leader of that term, and of all
\* later ones.
Settled(wins, logs, taken) ==
  \A i \in Nat, t \in Nat : Committed(taken, i, t) =>
    /\ Has(logs[t], i, t) /\ \E n \in Node : <<t, n>> \in wins
    /\ \A u \in Nat, n \in Node : t < u /\ <<u, n>> \in wins => Agree(logs[u], logs[t], i)

LEMMA NotBlocked ==
  ASSUME NEW taken, NEW i \in Nat, NEW t \in Nat, Committed(taken, i, t)
  PROVE  /\ ~ Blocked(taken, i, t)
         /\ \E n \in Node : <<n, i, t>> \in taken
<1> DEFINE Q == {n \in Node : <<n, i, t>> \in taken}
<1>1. Q \in SUBSET Node /\ Majority(Q)
  BY DEF Committed
<1>2. \E n \in Q : n \in Q
  BY <1>1, MajoritiesMeet
<1>3. ASSUME NEW R \in SUBSET Node, Majority(R)
      PROVE  \E n \in R : <<n, i, t>> \in taken
  <2>1. \E n \in R : n \in Q
    BY <1>1, <1>3, MajoritiesMeet
  <2> QED
    BY <2>1
<1>4. ~ Blocked(taken, i, t)
  BY <1>3 DEF Blocked
<1> QED
  BY <1>2, <1>4

\* Who took what is committed still has it.
LEMMA CommittedTaken ==
  ASSUME NEW logs, NEW taken, TakenOK(logs, taken), NEW i \in Nat, NEW t \in Nat, Committed(taken, i, t),
         NEW n \in Node, <<n, i, t>> \in taken
  PROVE  Has(LogOf(n), i, t)
<1>1. Kept(taken, LogOf(n), i, t)
  BY DEF TakenOK
<1> QED
  BY <1>1, NotBlocked DEF Kept

LEMMA SettledHolds ==
  ASSUME NEW given, NEW logs, NEW taken, LogsInv(logs), AcksInv(given, logs, taken)
  PROVE  Settled(elected, logs, taken)
<1> SUFFICES ASSUME NEW i \in Nat, NEW t \in Nat, Committed(taken, i, t)
             PROVE  /\ Has(logs[t], i, t) /\ \E n \in Node : <<t, n>> \in elected
                    /\ \A u \in Nat, n \in Node : t < u /\ <<u, n>> \in elected => Agree(logs[u], logs[t], i)
  BY DEF Settled
<1>1. PICK n \in Node : <<n, i, t>> \in taken
  BY NotBlocked
<1>2. Has(logs[t], i, t)
  BY <1>1 DEF AcksInv, TakenOK
<1>3. logs[t] # <<>>
  BY <1>2 DEF Has
<1>4. LogsOK(logs) /\ logs[t] \in Seq(Entry) /\ Held(logs, logs[t])
  BY LeadersLog DEF LogsInv
<1>5. ASSUME NEW u \in Nat, NEW p \in Node, t < u, <<u, p>> \in elected
      PROVE  Agree(logs[u], logs[t], i)
  <2>1. Kept(taken, logs[u], i, t)
    BY <1>5 DEF AcksInv, ElectedKept
  <2>2. Has(logs[u], i, t)
    BY <2>1, NotBlocked DEF Kept
  <2>3. logs[u] \in Seq(Entry) /\ Held(logs, logs[u])
    BY <1>4, LeadersLog
  <2> QED
    BY <1>2, <1>4, <2>2, <2>3, HeldAgree
<1> QED
  BY <1>2, <1>3, <1>5 DEF LogsInv, NodesFit

\* One sequence begins with the other.
Begins(a, b) == Len(a) <= Len(b) /\ \A j \in 1..Len(a) : a[j] = b[j]

\* A log spells the beginning of an order of commands.
Spells(order, log, k) == k <= Len(log) /\ \A j \in 1..k : order[j] = log[j].cmd

ChosenIs(logs, taken, order) ==
  /\ order \in Seq(Nat)
  /\ order # <<>> =>
       \E t \in Nat : Committed(taken, Len(order), t) /\ Spells(order, logs[t], Len(order))

\* A log has, up to index k, what is committed in a term no later than u.
Reaches(logs, taken, order, log, k, u) ==
  /\ k <= Len(log) /\ k <= Len(order)
  /\ k # 0 => \E i \in Nat, t \in Nat : k <= i /\ t <= u /\ Committed(taken, i, t) /\ Agree(log, logs[t], k)

LEMMA CommittedAgree ==
  ASSUME NEW wins, NEW logs, LogsOK(logs), NEW taken, Settled(wins, logs, taken),
         NEW i \in Nat, NEW t \in Nat, Committed(taken, i, t),
         NEW u \in Nat, NEW n \in Node, <<u, n>> \in wins, t <= u
  PROVE  Agree(logs[u], logs[t], i) /\ i <= Len(logs[t])
<1>1. Has(logs[t], i, t) /\ logs[t] \in Seq(Entry)
  BY LeadersLog DEF Settled
<1>2. i <= Len(logs[t]) /\ Agree(logs[t], logs[t], i)
  BY <1>1 DEF Has, Agree
<1>3. CASE t < u
  BY <1>2, <1>3 DEF Settled
<1>4. CASE t = u
  BY <1>2, <1>4
<1> QED
  BY <1>2, <1>3, <1>4

\* What is committed twice is committed alike.
LEMMA CommittedAlike ==
  ASSUME NEW wins, NEW logs, LogsOK(logs), NEW taken, Settled(wins, logs, taken),
         NEW i \in Nat, NEW t \in Nat, Committed(taken, i, t),
         NEW k \in Nat, NEW u \in Nat, Committed(taken, k, u)
  PROVE  /\ \A j \in 1..i : j <= k => logs[t][j] = logs[u][j]
         /\ i <= Len(logs[t]) /\ k <= Len(logs[u])
<1>1. PICK n \in Node : <<t, n>> \in wins
  BY DEF Settled
<1>2. PICK p \in Node : <<u, p>> \in wins
  BY DEF Settled
<1>3. i <= Len(logs[t]) /\ k <= Len(logs[u])
  <2>1. t <= t /\ u <= u
    OBVIOUS
  <2>2. i <= Len(logs[t])
    BY <1>1, <2>1, CommittedAgree
  <2>3. k <= Len(logs[u])
    BY <1>2, <2>1, CommittedAgree
  <2> QED
    BY <2>2, <2>3
<1>4. CASE t <= u
  <2>1. Agree(logs[u], logs[t], i)
    BY <1>2, <1>4, CommittedAgree
  <2> QED
    BY <1>3, <2>1 DEF Agree
<1>5. CASE u <= t
  <2>1. Agree(logs[t], logs[u], k)
    BY <1>1, <1>5, CommittedAgree
  <2> QED
    BY <1>3, <2>1 DEF Agree
<1> QED
  BY <1>4, <1>5

\* What a log has of the committed entries is what was chosen.
LEMMA ReachedIsChosen ==
  ASSUME NEW wins, NEW logs, LogsOK(logs), NEW taken, Settled(wins, logs, taken),
         NEW order, ChosenIs(logs, taken, order), NEW log \in Seq(Entry), NEW k \in Nat, NEW u \in Nat,
         Reaches(logs, taken, order, log, k, u)
  PROVE  Spells(order, log, k)
<1>1. k <= Len(log) /\ k <= Len(order) /\ Len(order) \in Nat
  BY LenProperties DEF Reaches, ChosenIs
<1>2. CASE k = 0
  BY <1>1, <1>2 DEF Spells
<1>3. CASE k # 0
  <2>1. PICK i \in Nat, t \in Nat : k <= i /\ t <= u /\ Committed(taken, i, t) /\ Agree(log, logs[t], k)
    BY <1>3 DEF Reaches
  <2>2. order # <<>>
    BY <1>1, <1>3
  <2>3. PICK v \in Nat : Committed(taken, Len(order), v) /\ Spells(order, logs[v], Len(order))
    BY <2>2 DEF ChosenIs
  <2> SUFFICES ASSUME NEW j \in 1..k PROVE order[j] = log[j].cmd
    BY <1>1 DEF Spells
  <2>4. j \in 1..i /\ j \in 1..Len(order) /\ j <= Len(order)
    BY <1>1, <2>1
  <2>5. logs[t][j] = logs[v][j]
    BY <1>1, <2>1, <2>3, <2>4, CommittedAlike
  <2>6. log[j] = logs[t][j]
    BY <2>1 DEF Agree
  <2>7. order[j] = logs[v][j].cmd
    BY <2>3, <2>4 DEF Spells
  <2> QED
    BY <2>5, <2>6, <2>7
<1> QED
  BY <1>2, <1>3

LEMMA BeginsStays ==
  ASSUME NEW a \in Seq(Nat), NEW b \in Seq(Nat), NEW c \in Seq(Nat), Begins(a, b), Begins(b, c)
  PROVE  Begins(a, c)
<1>1. Len(a) \in Nat /\ Len(b) \in Nat /\ Len(c) \in Nat
  BY LenProperties
<1> QED
  BY <1>1 DEF Begins

\* What is chosen stays chosen, as logs grow and more is taken.
LEMMA CommittedStays ==
  ASSUME NEW taken, NEW T, taken \subseteq T, NEW i \in Nat, NEW t \in Nat, Committed(taken, i, t)
  PROVE  Committed(T, i, t)
<1> DEFINE Q == {n \in Node : <<n, i, t>> \in taken}
           R == {n \in Node : <<n, i, t>> \in T}
<1>1. R \in SUBSET Node /\ Q \in SUBSET R /\ Majority(Q)
  BY DEF Committed
<1> HIDE DEF Q, R
<1>2. Majority(R)
  BY <1>1, MajorityGrows
<1> QED
  BY <1>2 DEF Committed, R

LEMMA GrownLog ==
  ASSUME NEW logs, LogsOK(logs), NEW L, LogsOK(L), Grown(logs, L), NEW t \in Nat
  PROVE  /\ Len(logs[t]) <= Len(L[t]) /\ \A j \in 1..Len(logs[t]) : L[t][j] = logs[t][j]
         /\ Len(logs[t]) \in Nat /\ Len(L[t]) \in Nat
<1>1. logs[t] \in Seq(Entry) /\ L[t] \in Seq(Entry) /\ Agree(logs[t], L[t], Len(logs[t]))
  BY LeadersLog DEF Grown
<1>2. Len(logs[t]) \in Nat /\ Len(L[t]) \in Nat
  BY <1>1, LenProperties
<1> QED
  BY <1>1, <1>2 DEF Agree

LEMMA ChosenStays ==
  ASSUME NEW logs, LogsOK(logs), NEW L, LogsOK(L), Grown(logs, L), NEW taken, NEW T, taken \subseteq T,
         NEW order, ChosenIs(logs, taken, order)
  PROVE  ChosenIs(L, T, order)
<1> SUFFICES ASSUME order # <<>>
             PROVE  \E t \in Nat : Committed(T, Len(order), t) /\ Spells(order, L[t], Len(order))
  BY DEF ChosenIs
<1>1. PICK t \in Nat : Committed(taken, Len(order), t) /\ Spells(order, logs[t], Len(order))
  BY DEF ChosenIs
<1>2. Len(order) \in Nat
  BY LenProperties DEF ChosenIs
<1>3. Committed(T, Len(order), t)
  BY <1>1, <1>2, CommittedStays
<1>4. /\ Len(logs[t]) <= Len(L[t]) /\ \A j \in 1..Len(logs[t]) : L[t][j] = logs[t][j]
      /\ Len(logs[t]) \in Nat /\ Len(L[t]) \in Nat
  BY GrownLog
<1>5. Len(order) <= Len(logs[t]) /\ \A j \in 1..Len(order) : order[j] = logs[t][j].cmd
  BY <1>1 DEF Spells
<1>6. Len(order) <= Len(L[t])
  BY <1>2, <1>4, <1>5
<1>7. \A j \in 1..Len(order) : j \in 1..Len(logs[t])
  BY <1>2, <1>4, <1>5
<1>8. Spells(order, L[t], Len(order))
  BY <1>4, <1>5, <1>6, <1>7 DEF Spells
<1> QED
  BY <1>3, <1>8

LEMMA ReachesStays ==
  ASSUME NEW logs, LogsOK(logs), NEW L, LogsOK(L), Grown(logs, L), NEW taken, NEW T, taken \subseteq T,
         NEW order \in Seq(Nat), NEW later \in Seq(Nat), Begins(order, later),
         NEW log \in Seq(Entry), NEW longer \in Seq(Entry), Agree(log, longer, Len(log)),
         NEW k \in Nat, NEW u \in Nat, NEW v \in Nat, u <= v, Reaches(logs, taken, order, log, k, u)
  PROVE  Reaches(L, T, later, longer, k, v)
<1>1. /\ Len(order) \in Nat /\ Len(later) \in Nat /\ Len(log) \in Nat /\ Len(longer) \in Nat
      /\ Len(order) <= Len(later) /\ Len(log) <= Len(longer)
      /\ k <= Len(log) /\ k <= Len(order)
  BY LenProperties DEF Begins, Agree, Reaches
<1>2. k <= Len(longer) /\ k <= Len(later)
  BY <1>1
<1>3. ASSUME k # 0
      PROVE  \E i \in Nat, t \in Nat : k <= i /\ t <= v /\ Committed(T, i, t) /\ Agree(longer, L[t], k)
  <2>1. PICK i \in Nat, t \in Nat : k <= i /\ t <= u /\ Committed(taken, i, t) /\ Agree(log, logs[t], k)
    BY <1>3 DEF Reaches
  <2>2. t <= v /\ Committed(T, i, t)
    BY <2>1, CommittedStays
  <2>3. /\ Len(logs[t]) <= Len(L[t]) /\ \A j \in 1..Len(logs[t]) : L[t][j] = logs[t][j]
        /\ Len(logs[t]) \in Nat /\ Len(L[t]) \in Nat
    BY GrownLog
  <2>4. k <= Len(logs[t]) /\ \A j \in 1..k : log[j] = logs[t][j]
    BY <2>1 DEF Agree
  <2>5. k <= Len(L[t])
    BY <2>3, <2>4
  <2>6. ASSUME NEW j \in 1..k
        PROVE  longer[j] = L[t][j]
    <3>1. j \in 1..Len(log) /\ j \in 1..Len(logs[t])
      BY <1>1, <2>3, <2>4
    <3>2. log[j] = longer[j] /\ L[t][j] = logs[t][j]
      BY <2>3, <3>1 DEF Agree
    <3> QED
      BY <2>4, <3>2
  <2>7. Agree(longer, L[t], k)
    BY <1>2, <2>5, <2>6 DEF Agree
  <2> QED
    BY <2>1, <2>2, <2>7
<1> QED
  BY <1>2, <1>3 DEF Reaches

\* A machine that goes on from what is chosen, by a log that has what is chosen, stays in step.
LEMMA GoesOnChosen ==
  ASSUME NEW order \in Seq(Nat), NEW old \in Seq(Nat), NEW new \in Seq(Nat), NEW log \in Seq(Entry),
         NEW k \in Nat, k <= Len(order), Spells(order, log, k), Begins(old, order), GoesOn(new, old, log, k)
  PROVE  Begins(new, order)
<1>1. Len(order) \in Nat /\ Len(old) \in Nat /\ Len(new) \in Nat
  BY LenProperties
<1>2. ASSUME NEW j \in 1..Len(new)
      PROVE  j <= Len(order) /\ new[j] = order[j]
  <2>1. CASE j <= Len(old)
    <3>1. j \in 1..Len(old)
      BY <1>1, <2>1
    <3>2. new[j] = old[j] /\ old[j] = order[j] /\ Len(old) <= Len(order)
      BY <3>1 DEF GoesOn, Begins
    <3> QED
      BY <1>1, <2>1, <3>2
  <2>2. CASE j > Len(old)
    <3>1. j \in Len(old) + 1..Len(new)
      BY <1>1, <2>2
    <3>2. j <= k /\ new[j] = log[j].cmd
      BY <3>1 DEF GoesOn
    <3>3. j \in 1..k
      BY <1>1, <3>2
    <3>4. order[j] = log[j].cmd
      BY <3>3 DEF Spells
    <3> QED
      BY <1>1, <3>2, <3>4
  <2> QED
    BY <1>1, <2>1, <2>2
<1>3. Len(new) <= Len(order)
  <2>1. CASE Len(new) = 0
    BY <1>1, <2>1
  <2>2. CASE Len(new) # 0
    <3>1. Len(new) \in 1..Len(new)
      BY <1>1, <2>2
    <3> QED
      BY <1>2, <3>1
  <2> QED
    BY <2>1, <2>2
<1> QED
  BY <1>2, <1>3 DEF Begins

\* IsPrefix by its elements.
LEMMA PrefixIs ==
  ASSUME NEW a \in Seq(Nat), NEW b \in Seq(Nat)
  PROVE  IsPrefix(a, b) <=> Begins(a, b)
<1>1. Len(a) \in Nat /\ Len(b) \in Nat
  BY LenProperties
<1>2. ASSUME Len(a) <= Len(b)
      PROVE  (a = SubSeq(b, 1, Len(a))) <=> \A j \in 1..Len(a) : a[j] = b[j]
  <2> DEFINE s == SubSeq(b, 1, Len(a))
  <2>1. s \in Seq(Nat) /\ Len(s) = Len(a) /\ \A j \in 1..Len(a) : s[j] = b[j]
    BY <1>1, <1>2
  <2> HIDE DEF s
  <2>2. ASSUME \A j \in 1..Len(a) : a[j] = b[j]
        PROVE  a = s
    BY <2>1, <2>2, SeqEqual
  <2>3. (a = s) <=> \A j \in 1..Len(a) : a[j] = b[j]
    BY <2>1, <2>2
  <2> QED
    BY <2>3 DEF s
<1> QED
  BY <1>2 DEF IsPrefix, Begins

\* What a leader commits goes on from what was committed.
LEMMA ChosenGrows ==
  ASSUME NEW wins, NEW logs, LogsOK(logs), NEW taken, Settled(wins, logs, taken),
         NEW order, ChosenIs(logs, taken, order), NEW i \in Nat, NEW t \in Nat, Committed(taken, i, t),
         NEW now, now = SubSeq(Commands(logs[t]), 1, i),
         NEW later, later = IF IsPrefix(now, order) THEN order ELSE now
  PROVE  /\ ChosenIs(logs, taken, later) /\ Begins(order, later) /\ i <= Len(later)
         /\ later = order \/ Len(order) < Len(later)
<1>1. logs[t] \in Seq(Entry) /\ Has(logs[t], i, t) /\ order \in Seq(Nat)
  BY LeadersLog DEF Settled, ChosenIs
<1>2. Len(logs[t]) \in Nat /\ Len(order) \in Nat /\ i <= Len(logs[t]) /\ i >= 1
  BY <1>1, LenProperties DEF Has
<1>3. now \in Seq(Nat) /\ Len(now) = i /\ \A j \in 1..i : now[j] = logs[t][j].cmd
  <2> DEFINE all == Commands(logs[t])
  <2>1. all = [j \in 1..Len(logs[t]) |-> logs[t][j].cmd]
    BY <1>1 DEF Commands
  <2>2. \A j \in 1..Len(logs[t]) : logs[t][j].cmd \in Nat
    BY <1>1, EntryIs
  <2> HIDE DEF all
  <2>3. all \in Seq(Nat) /\ Len(all) = Len(logs[t]) /\ \A j \in 1..Len(logs[t]) : all[j] = logs[t][j].cmd
    BY <1>2, <2>1, <2>2
  <2>4. now = SubSeq(all, 1, i)
    BY DEF all
  <2>5. now \in Seq(Nat) /\ Len(now) = i /\ \A j \in 1..i : now[j] = all[j]
    BY <1>2, <2>3, <2>4
  <2>6. \A j \in 1..i : j \in 1..Len(logs[t])
    BY <1>2
  <2> QED
    BY <2>3, <2>5, <2>6
<1>4. \A j \in 1..i : j <= Len(order) => now[j] = order[j]
  <2>1. CASE order = <<>>
    BY <1>2, <2>1
  <2>2. CASE order # <<>>
    <3>1. PICK v \in Nat : Committed(taken, Len(order), v) /\ Spells(order, logs[v], Len(order))
      BY <2>2 DEF ChosenIs
    <3> SUFFICES ASSUME NEW j \in 1..i, j <= Len(order) PROVE now[j] = order[j]
      OBVIOUS
    <3>2. logs[t][j] = logs[v][j]
      BY <1>2, <3>1, CommittedAlike
    <3>3. j \in 1..Len(order)
      BY <1>2
    <3> QED
      BY <1>3, <3>1, <3>2, <3>3 DEF Spells
  <2> QED
    BY <2>1, <2>2
<1>5. CASE IsPrefix(now, order)
  <2>1. later = order /\ Begins(now, order)
    BY <1>1, <1>3, <1>5, PrefixIs
  <2>2. i <= Len(later)
    BY <1>3, <2>1 DEF Begins
  <2>3. Begins(order, later)
    BY <1>2, <2>1 DEF Begins
  <2> QED
    BY <2>1, <2>2, <2>3
<1>6. CASE ~ IsPrefix(now, order)
  <2>1. later = now /\ ~ Begins(now, order)
    BY <1>1, <1>3, <1>6, PrefixIs
  <2>2. Len(order) < i
    <3> SUFFICES ASSUME i <= Len(order) PROVE FALSE
      BY <1>2
    <3>1. \A j \in 1..i : now[j] = order[j]
      BY <1>2, <1>4
    <3>2. Begins(now, order)
      BY <1>3, <3>1 DEF Begins
    <3> QED
      BY <2>1, <3>2
  <2>3. \A j \in 1..Len(order) : order[j] = now[j]
    BY <1>2, <1>4, <2>2
  <2>4. Begins(order, now)
    BY <1>2, <1>3, <2>2, <2>3 DEF Begins
  <2>5. Spells(now, logs[t], i)
    BY <1>2, <1>3 DEF Spells
  <2>6. ChosenIs(logs, taken, now)
    BY <1>3, <2>5 DEF ChosenIs
  <2> QED
    BY <1>2, <1>3, <2>1, <2>2, <2>4, <2>6
<1> QED
  BY <1>5, <1>6

\* No command is chosen twice.
LEMMA ChosenDistinct ==
  ASSUME NEW logs, LogsOK(logs), NEW last \in Nat, AllNumbered(logs, last), NEW taken,
         NEW order, ChosenIs(logs, taken, order)
  PROVE  \A i, j \in 1..Len(order) : /\ order[i] = order[j] => i = j
                                     /\ order[i] \in 1..last
<1>1. CASE order = <<>>
  BY <1>1
<1>2. CASE order # <<>>
  <2>1. PICK t \in Nat : Spells(order, logs[t], Len(order))
    BY <1>2 DEF ChosenIs
  <2>2. Numbered(logs[t], last) /\ Len(logs[t]) \in Nat /\ Len(order) \in Nat
    BY LeadersLog, LenProperties DEF AllNumbered, ChosenIs
  <2>3. \A j \in 1..Len(order) : j \in 1..Len(logs[t]) /\ order[j] = logs[t][j].cmd
    BY <2>1, <2>2 DEF Spells
  <2> QED
    BY <2>2, <2>3 DEF Numbered, Distinct
<1> QED
  BY <1>1, <1>2

-----------------------------------------------------------------------------
(* Commit indexes, machines and acknowledgements go by what was chosen.    *)

\* The commit index of a request is one its receiver may go by, once it has the entries.
CommitFits(logs, taken, m) ==
  /\ m.commit <= m.prev + Len(m.entries)
  /\ Reaches(logs, taken, chosen, logs[m.term], m.commit, m.term)

Machines == \A n \in Node : Begins(node[n].applied, chosen) /\ Begins(snap[n], chosen)

ChosenInv(logs, taken) ==
  /\ ChosenIs(logs, taken, chosen)
  /\ \A n \in Node : Reaches(logs, taken, chosen, LogOf(n), meta[n].commit, TermOf(n))
  /\ \A m \in net : m.type = "append" => CommitFits(logs, taken, m)
  /\ Machines
  /\ acked \subseteq {chosen[i] : i \in 1..Len(chosen)}

LEMMA AgreeSelf ==
  ASSUME NEW log \in Seq(Entry)
  PROVE  Agree(log, log, Len(log))
<1>1. Len(log) \in Nat
  BY LenProperties
<1> QED
  BY <1>1 DEF Agree

\* Commit indexes stay valid.
LEMMA ChosenStep ==
  ASSUME BaseInv, BaseInv', NEW logs, LogsInv(logs), NEW L, LogsOK(L), Grown(logs, L), NEW taken, NEW T, taken \subseteq T,
         TermsGrow, ChosenInv(logs, taken), ChosenIs(L, T, chosen'), Begins(chosen, chosen'),
         \A n \in Node : \/ Reaches(L, T, chosen', LogOf(n)', meta'[n].commit, TermOf(n)')
                         \/ Agree(LogOf(n), LogOf(n)', Len(LogOf(n))) /\ meta'[n].commit = meta[n].commit,
         \A m \in net' : m.type = "append" => m \in net \/ (CommitFits(logs, taken, m) /\ MessageOK(m)),
         \A n \in Node : node'[n].applied = node[n].applied \/ Begins(node'[n].applied, chosen'),
         \A n \in Node : snap'[n] = snap[n] \/ snap'[n] = node[n].applied,
         acked' \subseteq acked \cup {chosen'[i] : i \in 1..Len(chosen')}
  PROVE  ChosenInv(L, T)'
<1>1. LogsOK(logs) /\ chosen \in Seq(Nat) /\ chosen' \in Seq(Nat)
  BY DEF LogsInv, ChosenInv, ChosenIs
<1>2. ASSUME NEW n \in Node
      PROVE  Reaches(L, T, chosen', LogOf(n)', meta'[n].commit, TermOf(n)')
  <2> SUFFICES ASSUME Agree(LogOf(n), LogOf(n)', Len(LogOf(n))), meta'[n].commit = meta[n].commit
               PROVE  Reaches(L, T, chosen', LogOf(n)', meta'[n].commit, TermOf(n)')
    OBVIOUS
  <2>1. /\ LogOf(n) \in Seq(Entry) /\ TermOf(n) \in Nat /\ TermOf(n)' \in Nat /\ TermOf(n) <= TermOf(n)'
        /\ meta[n].commit \in Nat
    BY LogsOnDisk DEF TermsGrow, BaseInv, Meta
  <2>2. LogOf(n)' \in Seq(Entry)
    <3>1. file'[n] \in Seq(Line)
      BY DEF BaseInv
    <3> QED
      BY <3>1, EntriesAre DEF LogOf
  <2>3. Reaches(logs, taken, chosen, LogOf(n), meta[n].commit, TermOf(n))
    BY DEF ChosenInv
  <2> DEFINE a == LogOf(n)
             b == LogOf(n)'
             k == meta[n].commit
             u == TermOf(n)
             v == TermOf(n)'
  <2> HIDE DEF a, b, k, u, v
  <2>4. /\ a \in Seq(Entry) /\ b \in Seq(Entry) /\ Agree(a, b, Len(a)) /\ k \in Nat /\ u \in Nat /\ v \in Nat
        /\ u <= v /\ Reaches(logs, taken, chosen, a, k, u)
    BY <2>1, <2>2, <2>3 DEF a, b, k, u, v
  <2>5. Reaches(L, T, chosen', b, k, v)
    BY <1>1, <2>4, ReachesStays
  <2> QED
    BY <2>5 DEF b, k, v
<1>3. ASSUME NEW m \in net', m.type = "append"
      PROVE  CommitFits(L, T, m)'
  <2>1. CommitFits(logs, taken, m) /\ MessageOK(m)
    BY <1>3 DEF ChosenInv, BaseInv
  <2>2. m.term \in Nat /\ m.commit \in Nat
    BY <1>3, <2>1 DEF MessageOK
  <2>3. logs[m.term] \in Seq(Entry) /\ L[m.term] \in Seq(Entry) /\ Agree(logs[m.term], L[m.term], Len(logs[m.term]))
    BY <1>1, <2>2, LeadersLog DEF Grown
  <2>4. Reaches(logs, taken, chosen, logs[m.term], m.commit, m.term) /\ m.term <= m.term
    BY <2>1, <2>2 DEF CommitFits
  <2>5. Reaches(L, T, chosen', L[m.term], m.commit, m.term)
    BY <1>1, <2>2, <2>3, <2>4, ReachesStays
  <2> QED
    BY <2>1, <2>5 DEF CommitFits
<1>4. ASSUME NEW n \in Node
      PROVE  Begins(node'[n].applied, chosen') /\ Begins(snap'[n], chosen')
  <2>1. node[n].applied \in Seq(Nat) /\ snap[n] \in Seq(Nat)
    BY DEF BaseInv, State
  <2>2. Begins(node[n].applied, chosen) /\ Begins(snap[n], chosen)
    BY DEF ChosenInv, Machines
  <2>3. Begins(node[n].applied, chosen') /\ Begins(snap[n], chosen')
    BY <1>1, <2>1, <2>2, BeginsStays
  <2> QED
    BY <2>3
<1>5. acked' \subseteq {chosen'[i] : i \in 1..Len(chosen')}
  <2>1. \A i \in 1..Len(chosen) : i \in 1..Len(chosen') /\ chosen'[i] = chosen[i]
    <3>1. Len(chosen) \in Nat /\ Len(chosen') \in Nat
      BY <1>1, LenProperties
    <3> QED
      BY <3>1 DEF Begins
  <2>2. acked \subseteq {chosen[i] : i \in 1..Len(chosen)}
    BY DEF ChosenInv
  <2>3. {chosen[i] : i \in 1..Len(chosen)} \subseteq {chosen'[i] : i \in 1..Len(chosen')}
    BY <2>1
  <2> QED
    BY <2>2, <2>3
<1> QED
  BY <1>2, <1>3, <1>4, <1>5 DEF ChosenInv, Machines

\* When nothing is chosen, the order and the acknowledgements are as they were.
LEMMA NothingChosen ==
  ASSUME BaseInv, NEW logs, LogsInv(logs), NEW L, LogsOK(L), Grown(logs, L), NEW taken, NEW T, taken \subseteq T,
         ChosenInv(logs, taken), UNCHANGED <<chosen, acked>>
  PROVE  /\ ChosenIs(L, T, chosen') /\ Begins(chosen, chosen')
         /\ acked' \subseteq acked \cup {chosen'[i] : i \in 1..Len(chosen')}
<1>1. ChosenIs(L, T, chosen)
  BY ChosenStays DEF LogsInv, ChosenInv
<1>2. Begins(chosen, chosen)
  <2>1. chosen \in Seq(Nat)
    BY DEF ChosenInv, ChosenIs
  <2>2. Len(chosen) \in Nat
    BY <2>1, LenProperties
  <2> QED
    BY <2>2 DEF Begins
<1> QED
  BY <1>1, <1>2

\* The requests of a leader tell of its commit index.
LEMMA RequestCommits ==
  ASSUME BaseInv, NEW logs, LogsInv(logs), NEW taken, ChosenInv(logs, taken),
         NEW m, IsRequest(m), m.prev <= Len(node[m.from].log)
  PROVE  CommitFits(logs, taken, m) /\ MessageOK(m)
<1>1. m.from \in Node /\ Running(m.from) /\ m.term = TermOf(m.from) /\ Leads(m.from)
  BY RequestsOfLeaders DEF IsRequest
<1>2. /\ LogOf(m.from) = node[m.from].log /\ meta[m.from].commit = node[m.from].commit
      /\ m.commit = node[m.from].commit
  BY <1>1, RunningInSync DEF IsRequest
<1>3. logs[m.term] = LogOf(m.from)
  BY <1>1 DEF LogsInv, NodesFit
<1>4. Reaches(logs, taken, chosen, logs[m.term], m.commit, m.term)
  BY <1>1, <1>2, <1>3 DEF ChosenInv
<1>5. m.prev + Len(m.entries) = Len(node[m.from].log)
  BY DEF IsRequest
<1>6. m.commit <= m.prev + Len(m.entries)
  BY <1>2, <1>3, <1>4, <1>5 DEF Reaches
<1> QED
  BY <1>4, <1>6 DEF CommitFits, IsRequest

\* A node's new state with the log, commit index and machine it had.
LEMMA SameDataChosen ==
  ASSUME BaseInv, NEW n \in Node, Running(n), NEW s, Turns(n, s), SameData(s, node[n])
  PROVE  /\ \A x \in Node : /\ Agree(LogOf(x), LogOf(x)', Len(LogOf(x))) /\ meta'[x].commit = meta[x].commit
                            /\ node'[x].applied = node[x].applied
<1> SUFFICES ASSUME NEW x \in Node
             PROVE  /\ Agree(LogOf(x), LogOf(x)', Len(LogOf(x))) /\ meta'[x].commit = meta[x].commit
                    /\ node'[x].applied = node[x].applied
  OBVIOUS
<1>1. LogOf(x) \in Seq(Entry) /\ Agree(LogOf(x), LogOf(x), Len(LogOf(x)))
  BY LogsOnDisk, AgreeSelf
<1>2. LogOf(x)' = LogOf(x) /\ meta'[x].commit = meta[x].commit /\ node'[x].applied = node[x].applied
  <2>1. CASE x = n
    BY <2>1, TurnsTo, RunningInSync DEF SameData
  <2>2. CASE x # n
    BY <2>2, TurnsTo
  <2> QED
    BY <2>1, <2>2
<1> QED
  BY <1>1, <1>2

LEMMA TurnsGrow ==
  ASSUME BaseInv, NEW n \in Node, NEW s, Turns(n, s), s.term >= TermOf(n)
  PROVE  TermsGrow
<1>1. s.term \in Nat /\ \A x \in Node : TermOf(x) \in Nat
  BY LogsOnDisk DEF Turns, State
<1>2. TermOf(n)' = s.term /\ \A x \in Node \ {n} : TermOf(x)' = TermOf(x)
  BY TurnsTo
<1> QED
  BY <1>1, <1>2 DEF TermsGrow

LEMMA StartElectionChosen ==
  ASSUME DisksWork, BaseInv, budget' = budget, NEW logs, LogsInv(logs), NEW taken, ChosenInv(logs, taken),
         NEW n \in Node, StartElection(n)
  PROVE  ChosenInv(logs, taken)'
<1>1. BaseInv' /\ Running(n)
  BY StartElectionDoes
<1>2. PICK s : /\ Turns(n, s) /\ SameData(s, node[n]) /\ s.term = node[n].term + 1
               /\ \A o \in net' : \/ o \in net
                                  \/ VoteRequest(o, n, s)
  BY StartElectionDoes
<1>3. UNCHANGED <<snap, chosen, acked>>
  BY DEF StartElection, history
<1>4. TermsGrow
  <2>1. TermOf(n) = node[n].term /\ TermOf(n) \in Nat
    BY <1>1, RunningInSync, LogsOnDisk
  <2> QED
    BY <1>2, <2>1, TurnsGrow
<1>5. \A m \in net' : m.type = "append" => m \in net
  BY <1>2 DEF VoteRequest
<1>6. LogsOK(logs) /\ Grown(logs, logs)
  BY GrownSelf DEF LogsInv
<1>7. /\ ChosenIs(logs, taken, chosen') /\ Begins(chosen, chosen')
      /\ acked' \subseteq acked \cup {chosen'[i] : i \in 1..Len(chosen')}
  BY <1>3, <1>6, NothingChosen
<1>8. \A x \in Node : /\ Agree(LogOf(x), LogOf(x)', Len(LogOf(x))) /\ meta'[x].commit = meta[x].commit
                      /\ node'[x].applied = node[x].applied
  BY <1>1, <1>2, SameDataChosen
<1> QED
  BY <1>1, <1>3, <1>4, <1>5, <1>6, <1>7, <1>8, ChosenStep

LEMMA HandleRequestVoteChosen ==
  ASSUME DisksWork, BaseInv, budget' = budget, NEW logs, LogsInv(logs), NEW taken, ChosenInv(logs, taken),
         NEW m, HandleRequestVote(m)
  PROVE  ChosenInv(logs, taken)'
<1>1. BaseInv' /\ m.to \in Node /\ Running(m.to) /\ UNCHANGED <<snap, chosen, acked>>
  BY HandleRequestVoteDoes DEF history
<1>2. PICK s : /\ Turns(m.to, s) /\ Votes(s, node[m.to], m)
               /\ \A o \in net' : o \in net \/ VoteReply(o, m.to, s, m, node[m.to])
  BY HandleRequestVoteDoes
<1>3. SameData(s, node[m.to]) /\ s.term >= node[m.to].term
  BY <1>2 DEF Votes
<1>4. TermsGrow
  BY <1>1, <1>2, <1>3, RunningInSync, TurnsGrow
<1>5. \A o \in net' : o.type = "append" => o \in net
  BY <1>2 DEF VoteReply
<1>6. LogsOK(logs) /\ Grown(logs, logs)
  BY GrownSelf DEF LogsInv
<1>7. /\ ChosenIs(logs, taken, chosen') /\ Begins(chosen, chosen')
      /\ acked' \subseteq acked \cup {chosen'[i] : i \in 1..Len(chosen')}
  BY <1>1, <1>6, NothingChosen
<1>8. \A x \in Node : /\ Agree(LogOf(x), LogOf(x)', Len(LogOf(x))) /\ meta'[x].commit = meta[x].commit
                      /\ node'[x].applied = node[x].applied
  BY <1>1, <1>2, <1>3, SameDataChosen
<1> QED
  BY <1>1, <1>4, <1>5, <1>6, <1>7, <1>8, ChosenStep

LEMMA CountVoteChosen ==
  ASSUME DisksWork, BaseInv, budget' = budget, NEW logs, LogsInv(logs), NEW taken, ChosenInv(logs, taken),
         NEW m, CountVote(m), NEW L, LogsOK(L), Grown(logs, L)
  PROVE  ChosenInv(L, taken)'
<1>1. BaseInv' /\ m.to \in Node /\ Running(m.to) /\ UNCHANGED <<snap, chosen, acked>> /\ net' \subseteq net
  BY CountVoteDoes
<1>2. PICK s : Turns(m.to, s) /\ SameData(s, node[m.to]) /\ VoteCounted(m, m.to, s)
  BY CountVoteDoes
<1>3. TermsGrow
  <2>1. s.term >= node[m.to].term
    <3>1. node[m.to].term \in Nat /\ s.term \in Nat
      BY <1>1, <1>2 DEF Turns, State, BaseInv
    <3> QED
      BY <1>2, <3>1 DEF VoteCounted
  <2> QED
    BY <1>1, <1>2, <2>1, RunningInSync, TurnsGrow
<1>4. /\ ChosenIs(L, taken, chosen') /\ Begins(chosen, chosen')
      /\ acked' \subseteq acked \cup {chosen'[i] : i \in 1..Len(chosen')}
  BY <1>1, NothingChosen
<1>5. \A x \in Node : /\ Agree(LogOf(x), LogOf(x)', Len(LogOf(x))) /\ meta'[x].commit = meta[x].commit
                      /\ node'[x].applied = node[x].applied
  BY <1>1, <1>2, SameDataChosen
<1> QED
  BY <1>1, <1>3, <1>4, <1>5, ChosenStep

LEMMA ProposeChosen ==
  ASSUME DisksWork, BaseInv, budget' = budget, used.writes \in Nat, NEW logs, LogsInv(logs),
         NEW taken, ChosenInv(logs, taken), NEW n \in Node, Propose(n),
         NEW L, LogsOK(L), Grown(logs, L), NEW T, taken \subseteq T
  PROVE  ChosenInv(L, T)'
<1>1. BaseInv' /\ Running(n) /\ UNCHANGED <<snap, chosen, acked, net>>
  BY ProposeDoes DEF history
<1>2. PICK s, c : /\ Turns(n, s) /\ s.role = node[n].role /\ s.term = node[n].term
                  /\ s.votedFor = node[n].votedFor /\ s.commit = node[n].commit
                  /\ s.applied = node[n].applied
                  /\ s.log = Append(node[n].log, [term |-> node[n].term, cmd |-> used.writes + 1])
                  /\ calls' = calls \cup {c}
                  /\ c \in Call /\ c.node = n /\ c.acks = {n} /\ c.todo = Peers(n)
                  /\ c.id.index = Len(s.log) /\ c.id.term = s.term
  BY ProposeDoes
<1>3. /\ TermOf(n) = node[n].term /\ TermOf(n) \in Nat /\ LogOf(n) = node[n].log /\ LogOf(n) \in Seq(Entry)
      /\ meta[n].commit = node[n].commit
  BY <1>1, RunningInSync, LogsOnDisk
<1>4. TermsGrow
  BY <1>2, <1>3, TurnsGrow
<1>5. /\ ChosenIs(L, T, chosen') /\ Begins(chosen, chosen')
      /\ acked' \subseteq acked \cup {chosen'[i] : i \in 1..Len(chosen')}
  BY <1>1, NothingChosen
<1>6. ASSUME NEW x \in Node
      PROVE  /\ Agree(LogOf(x), LogOf(x)', Len(LogOf(x))) /\ meta'[x].commit = meta[x].commit
             /\ node'[x].applied = node[x].applied
  <2>1. CASE x = n
    <3> DEFINE e == [term |-> node[n].term, cmd |-> used.writes + 1]
               log == LogOf(n)
    <3>1. e \in Entry
      BY <1>3 DEF Entry
    <3>2. s.log = Append(log, e)
      BY <1>2, <1>3
    <3> HIDE DEF e, log
    <3>3. log \in Seq(Entry) /\ Len(log) \in Nat
      BY <1>3, LenProperties DEF log
    <3>4. Len(s.log) = Len(log) + 1 /\ \A i \in 1..Len(log) : s.log[i] = log[i]
      BY <3>1, <3>2, <3>3, AppendProperties
    <3>5. Agree(log, s.log, Len(log))
      BY <3>3, <3>4 DEF Agree
    <3>6. LogOf(n)' = s.log /\ meta'[n].commit = s.commit /\ node'[n] = s
      BY <1>2, TurnsTo
    <3> QED
      BY <1>2, <1>3, <2>1, <3>5, <3>6 DEF log
  <2>2. CASE x # n
    <3>1. LogOf(x)' = LogOf(x) /\ meta'[x].commit = meta[x].commit /\ node'[x] = node[x]
      BY <1>2, <2>2, TurnsTo
    <3>2. Agree(LogOf(x), LogOf(x), Len(LogOf(x)))
      BY LogsOnDisk, AgreeSelf
    <3> QED
      BY <3>1, <3>2
  <2> QED
    BY <2>1, <2>2
<1> QED
  BY <1>1, <1>4, <1>5, <1>6, ChosenStep

LEMMA ReachesOn ==
  ASSUME NEW logs, NEW taken, NEW order, NEW log, NEW k, NEW u \in Nat, NEW v \in Nat, u <= v,
         Reaches(logs, taken, order, log, k, u)
  PROVE  Reaches(logs, taken, order, log, k, v)
<1>1. ASSUME k # 0
      PROVE  \E i \in Nat, t \in Nat : k <= i /\ t <= v /\ Committed(taken, i, t) /\ Agree(log, logs[t], k)
  <2>1. PICK i \in Nat, t \in Nat : k <= i /\ t <= u /\ Committed(taken, i, t) /\ Agree(log, logs[t], k)
    BY <1>1 DEF Reaches
  <2> QED
    BY <2>1
<1> QED
  BY <1>1 DEF Reaches

\* A node that takes entries loses nothing that is committed, and commits what its leader has.
LEMMA AcceptsReaches ==
  ASSUME BaseInv, NEW logs, LogsInv(logs), NEW taken, Settled(elected, logs, taken), ChosenInv(logs, taken),
         NEW m \in net, m.type = "append", Running(m.to), NEW s \in State, Accepts(s, node[m.to], m)
  PROVE  Reaches(logs, taken, chosen, s.log, s.commit, s.term) /\ Begins(s.applied, chosen)
<1> DEFINE n == m.to
           o == node[n]
           log == o.log
           lead == logs[m.term]
           last == m.prev + Len(m.entries)
<1>1. MessageOK(m) /\ n \in Node /\ m.term \in Nat /\ m.prev \in Nat /\ m.entries \in Seq(Entry) /\ m.commit \in Nat
  BY DEF BaseInv, MessageOK
<1>2. /\ o \in State /\ log = LogOf(n) /\ o.commit = meta[n].commit /\ TermOf(n) = o.term
      /\ log \in Seq(Entry) /\ o.term \in Nat /\ o.commit \in Nat /\ o.applied \in Seq(Nat)
  BY <1>1, RunningInSync DEF State
<1>3. s.log \in Seq(Entry) /\ s.commit \in Nat /\ s.term = m.term /\ o.term <= m.term /\ s.applied \in Seq(Nat)
  BY <1>2 DEF State, Accepts, Follows
<1>4. /\ Reaches(logs, taken, chosen, log, o.commit, o.term)
      /\ Begins(o.applied, chosen) /\ ChosenIs(logs, taken, chosen) /\ chosen \in Seq(Nat)
  BY <1>1, <1>2 DEF ChosenInv, Machines, ChosenIs
<1>5. CommitFits(logs, taken, m) /\ RequestOK(logs, m)
  BY DEF ChosenInv, LogsInv, MessagesFit
<1>6. LogsOK(logs) /\ lead \in Seq(Entry)
  BY <1>1, LeadersLog DEF LogsInv
<1>7. /\ Agree(s.log, lead, last)
      /\ \/ s.log = log
         \/ /\ Len(s.log) = last
            /\ \E k \in 1..Len(m.entries) : ~ Has(log, m.prev + k, lead[m.prev + k].term)
  BY <1>1, <1>2, AcceptsHeld
<1>8. /\ Len(lead) \in Nat /\ Len(log) \in Nat /\ Len(s.log) \in Nat /\ Len(m.entries) \in Nat
      /\ Len(chosen) \in Nat /\ last \in Nat /\ last <= Len(lead)
  <2>1. /\ Len(lead) \in Nat /\ Len(log) \in Nat /\ Len(s.log) \in Nat /\ Len(m.entries) \in Nat
        /\ Len(chosen) \in Nat
    BY <1>1, <1>2, <1>3, <1>4, <1>6, LenProperties
  <2> QED
    BY <1>1, <1>5, <2>1 DEF RequestOK
<1>9. CASE s.commit = o.commit /\ s.applied = o.applied
  <2>1. CASE s.log = log
    <3>1. Reaches(logs, taken, chosen, s.log, s.commit, o.term)
      BY <1>4, <1>9, <2>1
    <3>2. o.term \in Nat /\ s.term \in Nat /\ o.term <= s.term
      BY <1>1, <1>2, <1>3
    <3>3. Reaches(logs, taken, chosen, s.log, s.commit, s.term)
      BY <3>1, <3>2, ReachesOn
    <3> QED
      BY <1>4, <1>9, <3>3
  <2>2. CASE s.log # log
    <3>1. PICK k \in 1..Len(m.entries) : ~ Has(log, m.prev + k, lead[m.prev + k].term)
      BY <1>7, <2>2
    <3>2. Len(s.log) = last
      BY <1>7, <2>2
    <3>3. CASE o.commit = 0
      BY <1>4, <1>8, <1>9, <3>3 DEF Reaches
    <3>4. CASE o.commit # 0
      <4>1. PICK i \in Nat, t \in Nat : /\ o.commit <= i /\ t <= o.term /\ Committed(taken, i, t)
                                        /\ Agree(log, logs[t], o.commit)
        BY <1>4, <3>4 DEF Reaches
      <4>2. \E p \in Node : <<m.term, p>> \in elected
        <5>1. Len(lead) # 0
          BY <1>1, <1>8, <3>1
        <5>2. lead # <<>>
          BY <1>6, <5>1, EmptySeq
        <5> QED
          BY <1>1, <5>2 DEF LogsInv, NodesFit
      <4>3. t <= m.term
        BY <1>1, <1>2, <1>3, <4>1
      <4>4. Agree(lead, logs[t], i) /\ i <= Len(logs[t])
        BY <1>1, <1>6, <4>1, <4>2, <4>3, CommittedAgree
      <4>5. logs[t] \in Seq(Entry)
        BY <1>6, LeadersLog
      <4> DEFINE other == logs[t]
                 k0 == o.commit
                 at == m.prev + k
      <4> HIDE DEF lead, other, last, k0
      <4>6. at \in Nat /\ at >= 1 /\ at <= last
        <5>1. k \in 1..Len(m.entries) /\ Len(m.entries) \in Nat /\ m.prev \in Nat
          BY <1>1, <1>8, <3>1
        <5> QED
          BY <5>1 DEF last
      <4> HIDE DEF at
      <4>7. /\ k0 \in Nat /\ k0 <= i /\ k0 <= Len(log) /\ \A j \in 1..k0 : log[j] = other[j] /\ j <= Len(log)
            /\ i <= Len(lead) /\ \A j \in 1..i : lead[j] = other[j]
            /\ k0 <= Len(other)
        BY <1>2, <1>4, <1>8, <4>1, <4>4 DEF Agree, Reaches, k0, other
      <4>8. k0 < at
        <5> SUFFICES ASSUME at <= k0 PROVE FALSE
          BY <4>6, <4>7
        <5>1. at \in 1..k0 /\ at \in 1..i
          BY <4>6, <4>7
        <5>2. log[at] = lead[at] /\ at \in 1..Len(log)
          BY <1>8, <4>6, <4>7, <5>1
        <5>3. Has(log, at, lead[at].term)
          BY <5>2 DEF Has
        <5> QED
          BY <3>1, <5>3 DEF at
      <4>9. k0 <= last
        BY <1>8, <4>6, <4>7, <4>8
      <4>10. \A j \in 1..k0 : s.log[j] = other[j]
        <5> SUFFICES ASSUME NEW j \in 1..k0 PROVE s.log[j] = other[j]
          OBVIOUS
        <5>1. j \in 1..last /\ j \in 1..i
          BY <1>8, <4>7, <4>9
        <5>2. s.log[j] = lead[j]
          BY <1>7, <5>1 DEF Agree
        <5> QED
          BY <4>7, <5>1, <5>2
      <4>11. k0 <= Len(s.log) /\ Agree(s.log, other, k0)
        BY <3>2, <4>7, <4>9, <4>10 DEF Agree
      <4>12. k0 <= Len(chosen) /\ k0 # 0
        BY <1>4, <3>4 DEF Reaches, k0
      <4> QED
        BY <1>3, <1>4, <1>9, <4>1, <4>3, <4>11, <4>12 DEF Reaches, k0, other
    <3> QED
      BY <1>4, <1>9, <3>3, <3>4
  <2> QED
    BY <2>1, <2>2
<1>10. CASE s.commit <= m.commit /\ s.commit <= Len(s.log) /\ GoesOn(s.applied, o.applied, s.log, s.commit)
  <2>1. m.commit <= last /\ Reaches(logs, taken, chosen, lead, m.commit, m.term)
    BY <1>5 DEF CommitFits
  <2>2. s.commit <= last
    BY <1>1, <1>3, <1>8, <1>10, <2>1
  <2>3. Agree(lead, s.log, s.commit)
    <3>1. Agree(s.log, lead, s.commit)
      BY <1>3, <1>6, <1>7, <1>8, <2>2, AgreeProperties
    <3> QED
      BY <1>3, <1>6, <3>1, AgreeProperties
  <2>4. Reaches(logs, taken, chosen, s.log, s.commit, s.term)
    <3>1. s.commit <= Len(s.log) /\ s.commit <= Len(chosen)
      <4>1. m.commit <= Len(chosen)
        BY <2>1 DEF Reaches
      <4> QED
        BY <1>1, <1>3, <1>8, <1>10, <4>1
    <3>2. ASSUME s.commit # 0
          PROVE  \E i \in Nat, t \in Nat : s.commit <= i /\ t <= s.term /\ Committed(taken, i, t) /\ Agree(s.log, logs[t], s.commit)
      <4>1. m.commit # 0
        BY <1>1, <1>3, <1>10, <3>2
      <4>2. PICK i \in Nat, t \in Nat : m.commit <= i /\ t <= m.term /\ Committed(taken, i, t) /\ Agree(lead, logs[t], m.commit)
        BY <2>1, <4>1 DEF Reaches
      <4>3. logs[t] \in Seq(Entry)
        BY <1>6, LeadersLog
      <4>4. Agree(lead, logs[t], s.commit)
        BY <1>1, <1>3, <1>6, <1>10, <4>2, <4>3, AgreeProperties
      <4>5. Agree(s.log, lead, s.commit)
        BY <1>3, <1>6, <2>3, AgreeProperties
      <4>6. Agree(s.log, logs[t], s.commit)
        BY <1>3, <1>6, <4>3, <4>4, <4>5, AgreeProperties
      <4>7. s.commit <= i
        BY <1>1, <1>3, <1>10, <4>2
      <4> QED
        BY <1>3, <4>2, <4>6, <4>7
    <3> QED
      BY <3>1, <3>2 DEF Reaches
  <2>5. Spells(chosen, s.log, s.commit)
    <3>1. s.term \in Nat
      BY <1>1, <1>3
    <3> QED
      BY <1>3, <1>4, <1>6, <2>4, <3>1, ReachedIsChosen
  <2>6. s.commit <= Len(chosen)
    BY <2>4 DEF Reaches
  <2>7. Begins(s.applied, chosen)
    BY <1>2, <1>3, <1>4, <1>10, <2>5, <2>6, GoesOnChosen
  <2> QED
    BY <2>4, <2>7
<1> QED
  BY <1>9, <1>10 DEF Accepts

LEMMA HandleAppendEntriesChosen ==
  ASSUME DisksWork, BaseInv, budget' = budget, NEW logs, LogsInv(logs),
         NEW taken, Settled(elected, logs, taken), ChosenInv(logs, taken), NEW m, HandleAppendEntries(m),
         NEW T, taken \subseteq T
  PROVE  ChosenInv(logs, T)'
<1>1. BaseInv' /\ m \in net /\ m.type = "append" /\ m.to \in Node /\ Running(m.to) /\ UNCHANGED <<snap, chosen, acked>>
  BY HandleAppendEntriesDoes DEF history
<1>2. PICK s : /\ Turns(m.to, s)
               /\ \/ /\ m.term < node[m.to].term /\ s = node[m.to]
                     /\ \A x \in net' : x \in net \/ AppendReply(x, m, s, FALSE)
                  \/ /\ Follows(s, node[m.to], m) /\ SameData(s, node[m.to])
                     /\ \A x \in net' : x \in net \/ (AppendReply(x, m, s, FALSE) /\ x.conflict <= m.prev)
                  \/ /\ Accepts(s, node[m.to], m)
                     /\ \A x \in net' : x \in net \/ AppendReply(x, m, s, TRUE)
  BY HandleAppendEntriesDoes
<1>3. s \in State /\ s.term \in Nat /\ TermOf(m.to) = node[m.to].term /\ TermOf(m.to) \in Nat /\ m.term \in Nat
  BY <1>1, <1>2, RunningInSync, LogsOnDisk DEF Turns, State, BaseInv, MessageOK
<1>4. TermsGrow
  <2>1. s.term >= TermOf(m.to)
    <3>1. s = node[m.to] \/ Follows(s, node[m.to], m)
      BY <1>2 DEF Accepts
    <3> QED
      BY <1>3, <3>1 DEF Follows
  <2> QED
    BY <1>1, <1>2, <2>1, TurnsGrow
<1>5. \A o \in net' : o.type = "append" => o \in net
  BY <1>2 DEF AppendReply
<1>6. LogsOK(logs) /\ Grown(logs, logs)
  BY GrownSelf DEF LogsInv
<1>7. /\ ChosenIs(logs, T, chosen') /\ Begins(chosen, chosen')
      /\ acked' \subseteq acked \cup {chosen'[i] : i \in 1..Len(chosen')}
  BY <1>1, <1>6, NothingChosen
<1>8. CASE SameData(s, node[m.to])
  <2>1. \A x \in Node : /\ Agree(LogOf(x), LogOf(x)', Len(LogOf(x))) /\ meta'[x].commit = meta[x].commit
                        /\ node'[x].applied = node[x].applied
    BY <1>1, <1>2, <1>8, SameDataChosen
  <2> QED
    BY <1>1, <1>4, <1>5, <1>6, <1>7, <2>1, ChosenStep
<1>9. CASE Accepts(s, node[m.to], m)
  <2>1. Reaches(logs, taken, chosen, s.log, s.commit, s.term) /\ Begins(s.applied, chosen)
    BY <1>1, <1>3, <1>9, AcceptsReaches
  <2>2. Reaches(logs, T, chosen, s.log, s.commit, s.term)
    <3>1. s.log \in Seq(Entry) /\ s.commit \in Nat /\ s.term <= s.term /\ chosen \in Seq(Nat)
      BY <1>3 DEF State, ChosenInv, ChosenIs
    <3>2. Agree(s.log, s.log, Len(s.log)) /\ Begins(chosen, chosen)
      BY <1>1, <1>7, <3>1, AgreeSelf
    <3> QED
      BY <1>3, <1>6, <2>1, <3>1, <3>2, ReachesStays
  <2>3. /\ LogOf(m.to)' = s.log /\ meta'[m.to].commit = s.commit /\ TermOf(m.to)' = s.term /\ node'[m.to] = s
        /\ \A x \in Node \ {m.to} : LogOf(x)' = LogOf(x) /\ meta'[x].commit = meta[x].commit /\ node'[x] = node[x]
    BY <1>1, <1>2, TurnsTo
  <2>4. \A x \in Node : \/ Reaches(logs, T, chosen', LogOf(x)', meta'[x].commit, TermOf(x)')
                        \/ Agree(LogOf(x), LogOf(x)', Len(LogOf(x))) /\ meta'[x].commit = meta[x].commit
    <3> SUFFICES ASSUME NEW x \in Node
                 PROVE  \/ Reaches(logs, T, chosen', LogOf(x)', meta'[x].commit, TermOf(x)')
                        \/ Agree(LogOf(x), LogOf(x)', Len(LogOf(x))) /\ meta'[x].commit = meta[x].commit
      OBVIOUS
    <3>1. CASE x = m.to
      BY <1>1, <2>2, <2>3, <3>1
    <3>2. CASE x # m.to
      <4>1. Agree(LogOf(x), LogOf(x), Len(LogOf(x)))
        BY LogsOnDisk, AgreeSelf
      <4> QED
        BY <2>3, <3>2, <4>1
    <3> QED
      BY <3>1, <3>2
  <2>5. \A x \in Node : node'[x].applied = node[x].applied \/ Begins(node'[x].applied, chosen')
    BY <1>1, <2>1, <2>3
  <2> QED
    BY <1>1, <1>4, <1>5, <1>6, <1>7, <2>4, <2>5, ChosenStep
<1> QED
  BY <1>2, <1>8, <1>9 DEF SameData

\* A call that a majority answered has what is committed.
LEMMA DecidedCommitted ==
  ASSUME BaseInv, NEW taken, AcksOK(taken), NEW m \in net, m.type = "appended", m.call.k = "write",
         m.success, NEW c \in calls, c.id = m.call, Majority(c.acks \cup {m.from})
  PROVE  Committed(taken, c.id.index, c.id.term)
<1> DEFINE Q == c.acks \cup {m.from}
           R == {n \in Node : <<n, c.id.index, c.id.term>> \in taken}
<1>1. m.from \in Node /\ c.acks \in SUBSET Node
  BY DEF BaseInv, MessageOK, Call
<1>2. \A n \in Q : n \in Node /\ <<n, c.id.index, c.id.term>> \in taken
  BY <1>1 DEF AcksOK
<1>3. Q \in SUBSET R /\ R \in SUBSET Node /\ Majority(Q)
  BY <1>2
<1> HIDE DEF Q, R
<1>4. Majority(R)
  BY <1>3, MajorityGrows
<1> QED
  BY <1>4 DEF Committed, R

LEMMA ReplicatedChosen ==
  ASSUME DisksWork, BaseInv, budget' = budget, NEW given, NEW logs, LogsInv(logs),
         NEW taken, AcksInv(given, logs, taken), ChosenInv(logs, taken), NEW m, Replicated(m)
  PROVE  ChosenInv(logs, taken)' /\ (chosen' = chosen \/ Len(chosen) < Len(chosen'))
<1>0. CallsInRange
  BY CallsAreInRange
<1>1. /\ BaseInv' /\ m \in net /\ m.type = "appended" /\ m.call.k = "write"
      /\ m.to \in Node /\ m.from \in Node /\ Running(m.to) /\ UNCHANGED <<reads, snap, elected, used>>
  BY <1>0, ReplicatedDoes
<1>2. PICK c, s : c \in calls /\ c \in Call /\ c.node = m.to /\ c.id = m.call /\ Turns(m.to, s) /\ Learns(m, s, node[m.to], c)
  BY <1>0, ReplicatedDoes
<1> DEFINE n == m.to
           o == node[n]
<1>3. /\ s \in State /\ s.term \in Nat /\ o \in State /\ TermOf(n) = o.term /\ TermOf(n) \in Nat
      /\ LogOf(n) = o.log /\ meta[n].commit = o.commit /\ m.term \in Nat
      /\ c.id.index \in Nat \ {0} /\ c.id.term \in Nat
  BY <1>1, <1>2, RunningInSync, LogsOnDisk, CallIds DEF Turns, State, BaseInv, MessageOK
<1>4. TermsGrow
  <2>1. s.term >= TermOf(n)
    BY <1>2, <1>3 DEF Learns, Decides
  <2> QED
    BY <1>1, <1>2, <2>1, TurnsGrow
<1>5. Settled(elected, logs, taken) /\ LogsOK(logs) /\ Grown(logs, logs)
  BY SettledHolds, GrownSelf DEF LogsInv
<1>6. \A x \in net' : x.type = "append" => x \in net \/ (CommitFits(logs, taken, x) /\ MessageOK(x))
  <2> SUFFICES ASSUME NEW x \in net', x.type = "append", x \notin net
               PROVE  CommitFits(logs, taken, x) /\ MessageOK(x)
    OBVIOUS
  <2>1. /\ o.role = "leader" /\ o.term = c.id.term /\ m.term <= o.term /\ ~m.success
        /\ IsRequest(x) /\ x.from = n /\ x.call = c.id /\ x.prev = m.conflict - 1
    BY <1>2 DEF Learns
  <2>2. RefusalOK(logs, m) /\ m.conflict \in Nat
    BY <1>1 DEF LogsInv, MessagesFit, BaseInv, MessageOK
  <2>3. m.conflict <= Len(logs[c.id.term]) + 1
    BY <1>1, <1>2, <1>3, <2>1, <2>2 DEF RefusalOK
  <2>4. logs[c.id.term] = o.log
    BY <1>1, <1>3, <2>1 DEF LogsInv, NodesFit, Leads
  <2>5. Len(o.log) \in Nat
    BY <1>3, LenProperties DEF State
  <2>6. x.prev <= Len(node[x.from].log)
    BY <2>1, <2>2, <2>3, <2>4, <2>5
  <2> QED
    BY <2>1, <2>6, RequestCommits
<1>7. CASE SameData(s, o) /\ UNCHANGED <<chosen, acked>>
  <2>1. \A x \in Node : /\ Agree(LogOf(x), LogOf(x)', Len(LogOf(x))) /\ meta'[x].commit = meta[x].commit
                        /\ node'[x].applied = node[x].applied
    BY <1>1, <1>2, <1>7, SameDataChosen
  <2>2. /\ ChosenIs(logs, taken, chosen') /\ Begins(chosen, chosen')
        /\ acked' \subseteq acked \cup {chosen'[i] : i \in 1..Len(chosen')}
    BY <1>5, <1>7, NothingChosen
  <2> QED
    BY <1>1, <1>4, <1>5, <1>6, <1>7, <2>1, <2>2, ChosenStep
<1>8. CASE Decides(s, o, c) /\ m.success /\ Majority(c.acks \cup {m.from})
  <2> DEFINE i == c.id.index
             t == c.id.term
             now == SubSeq(Commands(o.log), 1, i)
             lead == logs[t]
  <2>1. Committed(taken, i, t)
    BY <1>1, <1>2, <1>8, DecidedCommitted DEF AcksInv
  <2>2. lead = o.log /\ s.log = o.log /\ s.term = t /\ o.term = t
    BY <1>1, <1>3, <1>8 DEF LogsInv, NodesFit, Leads, Decides
  <2>3. chosen' = IF IsPrefix(now, chosen) THEN chosen ELSE now
    BY <1>8 DEF Decides, Commits
  <2>4. ChosenIs(logs, taken, chosen)
    BY DEF ChosenInv
  <2>5. /\ ChosenIs(logs, taken, chosen') /\ Begins(chosen, chosen') /\ i <= Len(chosen')
        /\ chosen' = chosen \/ Len(chosen) < Len(chosen')
    <3>1. now = SubSeq(Commands(logs[t]), 1, i)
      BY <2>2
    <3> HIDE DEF now, i, t
    <3>2. i \in Nat /\ t \in Nat
      BY <1>3 DEF i, t
    <3> QED
      BY <1>5, <2>1, <2>3, <2>4, <3>1, <3>2, ChosenGrows
  <2>6. Reaches(logs, taken, chosen', s.log, s.commit, s.term)
    <3>1. s.commit = i /\ i \in Nat /\ t \in Nat
      BY <1>3, <1>8 DEF Decides
    <3>2. Has(lead, i, t) /\ lead \in Seq(Entry)
      BY <1>5, <2>1, <3>1, LeadersLog DEF Settled
    <3>3. i <= Len(lead) /\ Agree(lead, lead, i)
      BY <3>2 DEF Has, Agree
    <3> QED
      BY <2>1, <2>2, <2>5, <3>1, <3>3 DEF Reaches
  <2>7. Spells(chosen', s.log, s.commit)
    <3>1. s.log \in Seq(Entry) /\ s.commit \in Nat
      BY <1>3 DEF State
    <3> QED
      BY <1>3, <1>5, <2>5, <2>6, <3>1, ReachedIsChosen
  <2>8. s.commit = i /\ GoesOn(s.applied, o.applied, s.log, s.commit) /\ acked' = acked \cup {o.log[i].cmd}
    BY <1>8 DEF Decides
  <2>9. /\ chosen \in Seq(Nat) /\ chosen' \in Seq(Nat) /\ o.applied \in Seq(Nat) /\ s.applied \in Seq(Nat)
        /\ s.log \in Seq(Entry) /\ s.commit \in Nat
    BY <1>3, <2>4, <2>5 DEF ChosenIs, State
  <2>10. Begins(o.applied, chosen')
    BY <1>1, <2>5, <2>9, BeginsStays DEF ChosenInv, Machines
  <2>11. Begins(s.applied, chosen')
    BY <2>5, <2>7, <2>8, <2>9, <2>10, GoesOnChosen
  <2>12. acked' \subseteq acked \cup {chosen'[j] : j \in 1..Len(chosen')}
    <3>1. i \in 1..Len(chosen') /\ i \in 1..s.commit
      <4>1. Len(chosen') \in Nat /\ i \in Nat /\ i >= 1
        BY <1>3, <2>9, LenProperties
      <4> QED
        BY <2>5, <2>8, <4>1
    <3>2. chosen'[i] = o.log[i].cmd
      BY <2>2, <2>7, <3>1 DEF Spells
    <3> QED
      BY <2>8, <3>1, <3>2
  <2>13. /\ LogOf(n)' = s.log /\ meta'[n].commit = s.commit /\ TermOf(n)' = s.term /\ node'[n] = s
         /\ \A x \in Node \ {n} : LogOf(x)' = LogOf(x) /\ meta'[x].commit = meta[x].commit /\ node'[x] = node[x]
    BY <1>1, <1>2, TurnsTo
  <2> HIDE DEF i, t, now, lead
  <2>14. \A x \in Node : \/ Reaches(logs, taken, chosen', LogOf(x)', meta'[x].commit, TermOf(x)')
                         \/ Agree(LogOf(x), LogOf(x)', Len(LogOf(x))) /\ meta'[x].commit = meta[x].commit
    <3> SUFFICES ASSUME NEW x \in Node
                 PROVE  \/ Reaches(logs, taken, chosen', LogOf(x)', meta'[x].commit, TermOf(x)')
                        \/ Agree(LogOf(x), LogOf(x)', Len(LogOf(x))) /\ meta'[x].commit = meta[x].commit
      OBVIOUS
    <3>1. CASE x = n
      BY <2>6, <2>13, <3>1
    <3>2. CASE x # n
      <4>1. Agree(LogOf(x), LogOf(x), Len(LogOf(x)))
        BY LogsOnDisk, AgreeSelf
      <4> QED
        BY <2>13, <3>2, <4>1
    <3> QED
      BY <3>1, <3>2
  <2>15. \A x \in Node : node'[x].applied = node[x].applied \/ Begins(node'[x].applied, chosen')
    BY <2>11, <2>13
  <2> QED
    BY <1>1, <1>4, <1>5, <1>6, <2>5, <2>12, <2>14, <2>15, ChosenStep
<1> QED
  BY <1>2, <1>7, <1>8 DEF Learns, SameData

LEMMA RestartChosen ==
  ASSUME DisksWork, BaseInv, budget' = budget, NEW logs, LogsInv(logs),
         NEW taken, Settled(elected, logs, taken), ChosenInv(logs, taken), NEW n \in Node, Restart(n)
  PROVE  ChosenInv(logs, taken)'
<1>1. BaseInv' /\ UNCHANGED <<net, snap, chosen, acked>>
  BY RestartDoes DEF durable, history
<1>2. PICK s : /\ Turns(n, s) /\ s.role = "follower" /\ s.term = TermOf(n) /\ s.votedFor = VoteOf(n)
               /\ s.log = LogOf(n) /\ s.commit = meta[n].commit
               /\ GoesOn(s.applied, snap[n], LogOf(n), meta[n].commit)
  BY RestartDoes
<1>3. /\ s \in State /\ LogOf(n) \in Seq(Entry) /\ TermOf(n) \in Nat /\ meta[n].commit \in Nat
      /\ s.applied \in Seq(Nat) /\ snap[n] \in Seq(Nat)
  BY <1>2, LogsOnDisk DEF Turns, State, BaseInv, Meta
<1>4. TermsGrow
  BY <1>2, <1>3, TurnsGrow
<1>5. LogsOK(logs) /\ Grown(logs, logs)
  BY GrownSelf DEF LogsInv
<1>6. /\ ChosenIs(logs, taken, chosen') /\ Begins(chosen, chosen')
      /\ acked' \subseteq acked \cup {chosen'[i] : i \in 1..Len(chosen')}
  BY <1>1, <1>5, NothingChosen
<1>7. /\ Reaches(logs, taken, chosen, LogOf(n), meta[n].commit, TermOf(n)) /\ ChosenIs(logs, taken, chosen)
      /\ chosen \in Seq(Nat) /\ Begins(snap[n], chosen) /\ meta[n].commit <= Len(chosen)
  BY DEF ChosenInv, Machines, ChosenIs, Reaches
<1>8. Spells(chosen, LogOf(n), meta[n].commit)
  <2> DEFINE log == LogOf(n)
             k == meta[n].commit
             u == TermOf(n)
  <2>1. /\ log \in Seq(Entry) /\ k \in Nat /\ u \in Nat /\ Reaches(logs, taken, chosen, log, k, u)
    BY <1>3, <1>7
  <2> HIDE DEF log, k, u
  <2>2. Spells(chosen, log, k)
    BY <1>5, <1>7, <2>1, ReachedIsChosen
  <2> QED
    BY <2>2 DEF log, k
<1>9. Begins(s.applied, chosen)
  BY <1>2, <1>3, <1>7, <1>8, GoesOnChosen
<1>10. ASSUME NEW x \in Node
       PROVE  /\ Agree(LogOf(x), LogOf(x)', Len(LogOf(x))) /\ meta'[x].commit = meta[x].commit
              /\ node'[x].applied = node[x].applied \/ Begins(node'[x].applied, chosen')
  <2>1. LogOf(x)' = LogOf(x) /\ meta'[x].commit = meta[x].commit
    BY <1>2, TurnsTo
  <2>2. Agree(LogOf(x), LogOf(x), Len(LogOf(x)))
    BY LogsOnDisk, AgreeSelf
  <2>3. node'[x].applied = node[x].applied \/ Begins(node'[x].applied, chosen')
    BY <1>1, <1>2, <1>9, TurnsTo
  <2> QED
    BY <2>1, <2>2, <2>3
<1> QED
  BY <1>1, <1>4, <1>5, <1>6, <1>10, ChosenStep

LEMMA CrashChosen ==
  ASSUME DisksWork, BaseInv, budget' = budget, NEW logs, LogsInv(logs),
         NEW taken, ChosenInv(logs, taken), NEW n \in Node, Crash(n)
  PROVE  ChosenInv(logs, taken)'
<1>1. /\ BaseInv' /\ UNCHANGED <<file, meta, snap, chosen, acked>> /\ node' = [node EXCEPT ![n] = Off]
      /\ net' \subseteq net
  BY CrashDoes DEF durable, history
<1>2. TermsGrow
  BY <1>1, LogsOnDisk DEF TermsGrow, TermOf
<1>3. LogsOK(logs) /\ Grown(logs, logs)
  BY GrownSelf DEF LogsInv
<1>4. /\ ChosenIs(logs, taken, chosen') /\ Begins(chosen, chosen')
      /\ acked' \subseteq acked \cup {chosen'[i] : i \in 1..Len(chosen')}
  BY <1>1, <1>3, NothingChosen
<1>5. ASSUME NEW x \in Node
      PROVE  /\ Agree(LogOf(x), LogOf(x)', Len(LogOf(x))) /\ meta'[x].commit = meta[x].commit
             /\ node'[x].applied = node[x].applied \/ Begins(node'[x].applied, chosen')
  <2>1. LogOf(x)' = LogOf(x) /\ meta'[x].commit = meta[x].commit
    BY <1>1 DEF LogOf
  <2>2. Agree(LogOf(x), LogOf(x), Len(LogOf(x)))
    BY LogsOnDisk, AgreeSelf
  <2>3. CASE x = n
    <3>1. node'[x].applied = <<>>
      BY <1>1, <2>3 DEF BaseInv, Off
    <3>2. chosen \in Seq(Nat)
      BY DEF ChosenInv, ChosenIs
    <3>3. Begins(<<>>, chosen)
      BY <3>2, LenProperties DEF Begins
    <3> QED
      BY <1>1, <2>1, <2>2, <3>1, <3>3
  <2>4. CASE x # n
    BY <1>1, <2>1, <2>2, <2>4 DEF BaseInv
  <2> QED
    BY <2>3, <2>4
<1> QED
  BY <1>1, <1>2, <1>3, <1>4, <1>5, ChosenStep

\* A step that leaves the nodes alone.
LEMMA StaysPutChosen ==
  ASSUME BaseInv, BaseInv', StaysPut, NEW logs, LogsInv(logs), NEW taken, ChosenInv(logs, taken),
         UNCHANGED <<chosen, acked>>,
         \A m \in net' : m.type = "append" => m \in net \/ (IsRequest(m) /\ m.prev <= Len(node[m.from].log)),
         \A n \in Node : snap'[n] = snap[n] \/ snap'[n] = node[n].applied
  PROVE  ChosenInv(logs, taken)'
<1>1. TermsGrow
  BY LogsOnDisk DEF TermsGrow, TermOf, StaysPut
<1>2. LogsOK(logs) /\ Grown(logs, logs)
  BY GrownSelf DEF LogsInv
<1>3. /\ ChosenIs(logs, taken, chosen') /\ Begins(chosen, chosen')
      /\ acked' \subseteq acked \cup {chosen'[i] : i \in 1..Len(chosen')}
  BY <1>2, NothingChosen
<1>4. \A x \in Node : /\ Agree(LogOf(x), LogOf(x)', Len(LogOf(x))) /\ meta'[x].commit = meta[x].commit
                      /\ node'[x].applied = node[x].applied
  <2> SUFFICES ASSUME NEW x \in Node
               PROVE  Agree(LogOf(x), LogOf(x)', Len(LogOf(x)))
    BY DEF StaysPut
  <2>1. LogOf(x)' = LogOf(x)
    BY DEF StaysPut, LogOf
  <2>2. Agree(LogOf(x), LogOf(x), Len(LogOf(x)))
    BY LogsOnDisk, AgreeSelf
  <2> QED
    BY <2>1, <2>2
<1>5. \A m \in net' : m.type = "append" => m \in net \/ (CommitFits(logs, taken, m) /\ MessageOK(m))
  BY RequestCommits
<1> QED
  BY <1>1, <1>2, <1>3, <1>4, <1>5, ChosenStep

LEMMA RestChosen ==
  ASSUME DisksWork, BaseInv, budget' = budget, used.reads \in Nat, NEW logs, LogsInv(logs),
         NEW taken, ChosenInv(logs, taken),
         \/ \E c \in calls : \E p \in c.todo : Replicate(c, p)
         \/ \E n \in Node : Heartbeat(n) \/ StartRead(n) \/ Snapshot(n)
         \/ \E m \in net : ReadConfirmed(m)
  PROVE  ChosenInv(logs, taken)'
<1>1. ASSUME NEW n \in Node, Leads(n)
      PROVE  Len(node[n].log) \in Nat
  <2>1. node[n].log \in Seq(Entry)
    BY DEF BaseInv, State
  <2> QED
    BY <2>1, LenProperties
<1>2. ASSUME NEW c \in calls, NEW p \in c.todo, Replicate(c, p)
      PROVE  ChosenInv(logs, taken)'
  <2>1. /\ BaseInv' /\ StaysPut /\ UNCHANGED <<snap, chosen, acked>> /\ c.node \in Node /\ Leads(c.node)
        /\ \A x \in net' : x \in net \/ (IsRequest(x) /\ x.from = c.node /\ x.prev < Len(node[c.node].log))
    BY <1>2, ReplicateDoes DEF durable, history, Call
  <2>2. \A x \in net' : x.type = "append" => x \in net \/ (IsRequest(x) /\ x.prev <= Len(node[x.from].log))
    <3> SUFFICES ASSUME NEW x \in net', x.type = "append", x \notin net
                 PROVE  IsRequest(x) /\ x.prev <= Len(node[x.from].log)
      OBVIOUS
    <3>1. IsRequest(x) /\ x.from = c.node /\ x.prev < Len(node[c.node].log) /\ x.prev \in Nat
      BY <2>1 DEF IsRequest, MessageOK
    <3> QED
      BY <1>1, <2>1, <3>1
  <2> QED
    BY <2>1, <2>2, StaysPutChosen
<1>3. ASSUME NEW n \in Node, Heartbeat(n)
      PROVE  ChosenInv(logs, taken)'
  <2>1. /\ BaseInv' /\ StaysPut /\ UNCHANGED <<snap, chosen, acked>> /\ Leads(n)
        /\ \A x \in net' : x \in net \/ (IsRequest(x) /\ x.from = n /\ x.prev = Len(node[n].log))
    BY <1>3, HeartbeatDoes DEF durable, history, Heartbeat, Leads
  <2> QED
    BY <1>1, <2>1, StaysPutChosen
<1>4. ASSUME NEW n \in Node, StartRead(n)
      PROVE  ChosenInv(logs, taken)'
  <2>1. /\ BaseInv' /\ StaysPut /\ UNCHANGED <<snap, chosen, acked>> /\ Leads(n)
        /\ \A x \in net' : x \in net \/ (IsRequest(x) /\ x.from = n /\ x.prev = Len(node[n].log))
    BY <1>4, StartReadDoes DEF durable, history
  <2> QED
    BY <1>1, <2>1, StaysPutChosen
<1>5. ASSUME NEW n \in Node, Snapshot(n)
      PROVE  ChosenInv(logs, taken)'
  <2>1. /\ BaseInv' /\ StaysPut /\ UNCHANGED <<net, chosen, acked>> /\ snap' = [snap EXCEPT ![n] = node[n].applied]
    BY <1>5, SnapshotDoes DEF history
  <2>2. \A x \in Node : snap'[x] = snap[x] \/ snap'[x] = node[x].applied
    BY <2>1 DEF BaseInv
  <2> QED
    BY <2>1, <2>2, StaysPutChosen
<1>6. ASSUME NEW m \in net, ReadConfirmed(m)
      PROVE  ChosenInv(logs, taken)'
  <2>1. BaseInv' /\ StaysPut /\ UNCHANGED <<snap, chosen, acked>> /\ net' \subseteq net
    BY <1>6, ReadConfirmedDoes DEF durable, history
  <2> QED
    BY <2>1, StaysPutChosen
<1> QED
  BY <1>2, <1>3, <1>4, <1>5, <1>6

-----------------------------------------------------------------------------
(* Reads.                                                                  *)

Listed(seq) == {seq[i] : i \in 1..Len(seq)}

\* A majority has passed term u, and will not confirm the read any more.
Passed(r, u) ==
  \E Q \in SUBSET Node : Majority(Q) /\ \A n \in Q :
    /\ TermOf(n) > u /\ n \notin r.acks
    /\ \A m \in net : m.type = "appended" /\ m.call = r.id /\ m.from = n => ~m.success

\* A read that waits, by its requests of term u: its leader has what had finished, or a
\* majority will not confirm it.
ReadFits(r) ==
  \E u \in Nat :
    /\ \A m \in net : m.type = "append" /\ m.call = r.id => m.term = u
    /\ r.must \subseteq Listed(node[r.node].applied) \/ Passed(r, u)

ReadOK(r) ==
  /\ r.id.nr < used.reads
  /\ ~r.served => Running(r.node) /\ (r.own => ReadFits(r))
  /\ r.served => (r.own => r.must \subseteq Listed(r.got))

ReadsInv ==
  /\ \A r \in reads : ReadOK(r)
  /\ \A m \in net : m.type \in {"append", "appended"} /\ m.call.k = "read" => m.call.nr < used.reads

\* The leader of the term in which the last entry was chosen has applied it.
LeaderKnows(taken) ==
  chosen # <<>> =>
    \E t \in Nat : /\ Committed(taken, Len(chosen), t)
                   /\ \A n \in Node : Leads(n) /\ TermOf(n) = t => Len(chosen) <= Len(node[n].applied)

\* What a step does to nodes: a machine that goes on running goes on from what it applied, and
\* who leads led, or is the first to be elected in its term.
MachinesGrow ==
  \A n \in Node : Running(n) /\ Running(n)' => Begins(node[n].applied, node'[n].applied)

OfficesStand ==
  \A n \in Node : Leads(n)' => \/ Leads(n) /\ TermOf(n)' = TermOf(n)
                               \/ \A p \in Node : <<TermOf(n)', p>> \notin elected

NodesGoOn == TermsGrow /\ MachinesGrow /\ OfficesStand

LEMMA TurnsGoOn ==
  ASSUME BaseInv, NEW n \in Node, NEW s, Turns(n, s), s.term >= TermOf(n),
         Running(n) => Begins(node[n].applied, s.applied),
         s.role = "leader" => \/ Leads(n) /\ s.term = TermOf(n)
                              \/ \A p \in Node : <<s.term, p>> \notin elected
  PROVE  NodesGoOn
<1>1. TermsGrow
  BY TurnsGrow
<1>2. /\ node'[n] = s /\ TermOf(n)' = s.term
      /\ \A x \in Node \ {n} : node'[x] = node[x] /\ TermOf(x)' = TermOf(x)
  BY TurnsTo
<1>3. \A x \in Node : Begins(node[x].applied, node[x].applied)
  <2> SUFFICES ASSUME NEW x \in Node PROVE Begins(node[x].applied, node[x].applied)
    OBVIOUS
  <2>1. node[x].applied \in Seq(Nat)
    BY DEF BaseInv, State
  <2>2. Len(node[x].applied) \in Nat
    BY <2>1, LenProperties
  <2> QED
    BY <2>2 DEF Begins
<1>4. MachinesGrow
  BY <1>2, <1>3 DEF MachinesGrow
<1>5. OfficesStand
  BY <1>2 DEF OfficesStand, Leads
<1> QED
  BY <1>1, <1>4, <1>5 DEF NodesGoOn

LEMMA StaysPutGoesOn ==
  ASSUME BaseInv, StaysPut
  PROVE  NodesGoOn
<1>1. TermsGrow
  BY LogsOnDisk DEF TermsGrow, TermOf, StaysPut
<1>2. MachinesGrow
  <2> SUFFICES ASSUME NEW x \in Node PROVE Begins(node[x].applied, node'[x].applied)
    BY DEF MachinesGrow
  <2>1. node[x].applied \in Seq(Nat) /\ node'[x].applied = node[x].applied
    BY DEF BaseInv, State, StaysPut
  <2>2. Len(node[x].applied) \in Nat
    BY <2>1, LenProperties
  <2> QED
    BY <2>1, <2>2 DEF Begins
<1>3. OfficesStand
  BY DEF OfficesStand, StaysPut, Leads, TermOf
<1> QED
  BY <1>1, <1>2, <1>3 DEF NodesGoOn

LEMMA KnowsStep ==
  ASSUME NEW logs, NEW taken, Settled(elected, logs, taken), LeaderKnows(taken), chosen' = chosen,
         chosen \in Seq(Nat), BaseInv, BaseInv', NodesGoOn, NEW T, taken \subseteq T
  PROVE  LeaderKnows(T)'
<1> SUFFICES ASSUME chosen # <<>>
             PROVE  \E t \in Nat : /\ Committed(T, Len(chosen), t)
                                   /\ \A n \in Node : Leads(n)' /\ TermOf(n)' = t => Len(chosen) <= Len(node'[n].applied)
  BY DEF LeaderKnows
<1>1. PICK t \in Nat : /\ Committed(taken, Len(chosen), t)
                       /\ \A n \in Node : Leads(n) /\ TermOf(n) = t => Len(chosen) <= Len(node[n].applied)
  BY DEF LeaderKnows
<1>2. Len(chosen) \in Nat
  BY LenProperties
<1>3. Committed(T, Len(chosen), t)
  BY <1>1, <1>2, CommittedStays
<1>4. PICK p \in Node : <<t, p>> \in elected
  BY <1>1, <1>2 DEF Settled
<1>5. ASSUME NEW n \in Node, Leads(n)', TermOf(n)' = t
      PROVE  Len(chosen) <= Len(node'[n].applied)
  <2>1. Leads(n) /\ TermOf(n) = t
    BY <1>4, <1>5 DEF NodesGoOn, OfficesStand
  <2>2. Running(n) /\ Running(n)'
    BY <1>5, <2>1 DEF Running, Leads
  <2>3. Len(node[n].applied) <= Len(node'[n].applied)
    BY <2>2 DEF NodesGoOn, MachinesGrow, Begins
  <2>4. node[n].applied \in Seq(Nat) /\ node'[n].applied \in Seq(Nat)
    BY DEF BaseInv, State
  <2>5. Len(node[n].applied) \in Nat /\ Len(node'[n].applied) \in Nat
    BY <2>4, LenProperties
  <2>6. Len(chosen) <= Len(node[n].applied)
    BY <1>1, <2>1
  <2> QED
    BY <1>2, <2>3, <2>5, <2>6
<1> QED
  BY <1>3, <1>5

\* Reads stay in order.
LEMMA ReadFitsStays ==
  ASSUME BaseInv, BaseInv', NodesGoOn, NEW r \in Read, Running(r.node), Running(r.node)', ReadFits(r),
         \A m \in net' : m.type = "append" /\ m.call = r.id => m \in net,
         \A m \in net' : m.type = "appended" /\ m.call = r.id => 
            \/ m \in net
            \/ \E o \in net : /\ o.type = "append" /\ o.call = m.call
                              /\ m.success => TermOf(m.from) <= o.term
  PROVE  ReadFits(r)'
<1>1. PICK u \in Nat : /\ \A m \in net : m.type = "append" /\ m.call = r.id => m.term = u
                       /\ r.must \subseteq Listed(node[r.node].applied) \/ Passed(r, u)
  BY DEF ReadFits
<1>2. \A m \in net' : m.type = "append" /\ m.call = r.id => m.term = u
  BY <1>1
<1>3. r.node \in Node
  BY DEF Read
<1>4. CASE r.must \subseteq Listed(node[r.node].applied)
  <2> DEFINE a == node[r.node].applied
             b == node'[r.node].applied
  <2>1. a \in Seq(Nat) /\ b \in Seq(Nat) /\ Begins(a, b)
    BY <1>3 DEF BaseInv, State, NodesGoOn, MachinesGrow
  <2> HIDE DEF a, b
  <2>2. Len(a) \in Nat /\ Len(b) \in Nat
    BY <2>1, LenProperties
  <2>3. \A i \in 1..Len(a) : i \in 1..Len(b) /\ a[i] = b[i]
    BY <2>1, <2>2 DEF Begins
  <2>4. Listed(a) \subseteq Listed(b)
    BY <2>3 DEF Listed
  <2>5. r.must \subseteq Listed(b)
    BY <1>4, <2>4 DEF a
  <2> QED
    BY <1>2, <2>5 DEF ReadFits, b
<1>5. CASE Passed(r, u)
  <2>1. PICK Q \in SUBSET Node : /\ Majority(Q)
                                 /\ \A n \in Q : /\ TermOf(n) > u /\ n \notin r.acks
                                                 /\ \A m \in net : m.type = "appended" /\ m.call = r.id /\ m.from = n => ~m.success
    BY <1>5 DEF Passed
  <2>2. ASSUME NEW n \in Q
        PROVE  TermOf(n)' > u
    <3>1. TermOf(n) \in Nat /\ TermOf(n)' \in Nat /\ TermOf(n)' >= TermOf(n)
      BY DEF NodesGoOn, TermsGrow
    <3> QED
      BY <2>1, <3>1
  <2>3. ASSUME NEW n \in Q, NEW m \in net', m.type = "appended", m.call = r.id, m.from = n
        PROVE  ~m.success
    <3>1. CASE m \in net
      BY <2>1, <2>3, <3>1
    <3>2. CASE \E o \in net : /\ o.type = "append" /\ o.call = m.call
                              /\ m.success => TermOf(m.from) <= o.term
      <4>1. PICK o \in net : /\ o.type = "append" /\ o.call = m.call
                             /\ m.success => TermOf(m.from) <= o.term
        BY <3>2
      <4>2. o.term = u
        BY <1>1, <2>3, <4>1
      <4>3. TermOf(n) > u /\ TermOf(n) \in Nat
        BY <2>1 DEF NodesGoOn, TermsGrow
      <4>4. ~(TermOf(n) <= u)
        BY <4>3
      <4> QED
        BY <2>3, <4>1, <4>2, <4>4
    <3> QED
      BY <2>3, <3>1, <3>2
  <2>4. Passed(r, u)'
    BY <2>1, <2>2, <2>3 DEF Passed
  <2> QED
    BY <1>2, <2>4 DEF ReadFits
<1> QED
  BY <1>1, <1>4, <1>5

LEMMA ReadsStep ==
  ASSUME BaseInv, BaseInv', NodesGoOn, ReadsInv,
         used.reads \in Nat, used'.reads \in Nat, used.reads <= used'.reads,
         \A r \in reads' : \/ r \in reads /\ (r.served \/ Running(r.node)')
                           \/ ReadOK(r)',
         \A m \in net' : m.type = "append" /\ m.call.k = "read" =>
            m \in net \/ (m.call.nr = used.reads /\ used.reads < used'.reads),
         \A m \in net' : m.type = "appended" /\ m.call.k = "read" => 
            \/ m \in net
            \/ \E o \in net : /\ o.type = "append" /\ o.call = m.call
                              /\ m.success => TermOf(m.from) <= o.term
  PROVE  ReadsInv'
<1>1. ASSUME NEW m \in net', m.type \in {"append", "appended"}, m.call.k = "read"
      PROVE  m.call.nr < used'.reads
  <2>1. ASSUME NEW o \in net, o.type \in {"append", "appended"}, o.call.k = "read"
        PROVE  o.call.nr < used'.reads
    <3>1. o.call.nr \in Nat
      BY <2>1 DEF BaseInv, MessageOK, CallIdOK, ReadId
    <3>2. o.call.nr < used.reads
      BY <2>1 DEF ReadsInv
    <3> QED
      BY <3>1, <3>2
  <2>2. CASE m.type = "append"
    BY <1>1, <2>1, <2>2
  <2>3. CASE m.type = "appended"
    BY <1>1, <2>1, <2>3
  <2> QED
    BY <1>1, <2>2, <2>3
<1>2. ASSUME NEW r \in reads', r \in reads, r.served \/ Running(r.node)'
      PROVE  ReadOK(r)'
  <2>1. r \in Read /\ r.id \in ReadId /\ r.id.nr \in Nat /\ r.id.k = "read"
    BY <1>2 DEF BaseInv, Read, ReadId
  <2>2. ReadOK(r)
    BY <1>2 DEF ReadsInv
  <2>3. r.id.nr < used'.reads
    BY <2>1, <2>2 DEF ReadOK
  <2>4. ASSUME ~r.served, r.own
        PROVE  ReadFits(r)'
    <3>1. Running(r.node) /\ ReadFits(r) /\ Running(r.node)'
      BY <1>2, <2>2, <2>4 DEF ReadOK
    <3>2. \A m \in net' : m.type = "append" /\ m.call = r.id => m \in net
      BY <2>1, <2>2 DEF ReadOK
    <3>3. \A m \in net' : m.type = "appended" /\ m.call = r.id => 
            \/ m \in net
            \/ \E o \in net : /\ o.type = "append" /\ o.call = m.call
                              /\ m.success => TermOf(m.from) <= o.term
      BY <2>1
    <3> QED
      BY <2>1, <3>1, <3>2, <3>3, ReadFitsStays
  <2> QED
    BY <1>2, <2>2, <2>3, <2>4 DEF ReadOK
<1> QED
  BY <1>1, <1>2 DEF ReadsInv

LEMMA BeginsSelf ==
  ASSUME NEW a \in Seq(Nat)
  PROVE  Begins(a, a)
<1>1. Len(a) \in Nat
  BY LenProperties
<1> QED
  BY <1>1 DEF Begins

\* Every step lets nodes go on.
LEMMA NextGoesOn ==
  ASSUME DisksWork, BaseInv, CallsInRange, NEW given, VotesInv(given),
         used.writes \in Nat, used.reads \in Nat, Next
  PROVE  NodesGoOn
<1>1. budget' = budget
  BY DEF Next
<1>2. \A n \in Node : /\ node[n] \in State /\ Begins(node[n].applied, node[n].applied) /\ node[n].term \in Nat
                      /\ Running(n) => TermOf(n) = node[n].term
  BY BeginsSelf, RunningInSync DEF BaseInv, State
<1>3. ASSUME NEW n \in Node, StartElection(n)
      PROVE  NodesGoOn
  <2>1. PICK s : /\ Turns(n, s) /\ SameData(s, node[n]) /\ s.role = "candidate" /\ s.term = node[n].term + 1
    BY <1>1, <1>3, StartElectionDoes
  <2>2. Running(n)
    BY <1>1, <1>3, StartElectionDoes
  <2>3. s.term >= TermOf(n) /\ Begins(node[n].applied, s.applied)
    BY <1>2, <2>1, <2>2 DEF SameData
  <2> QED
    BY <2>1, <2>3, TurnsGoOn
<1>4. ASSUME NEW m \in net, HandleRequestVote(m)
      PROVE  NodesGoOn
  <2>1. m.to \in Node /\ Running(m.to)
    BY <1>1, <1>4, HandleRequestVoteDoes
  <2>2. PICK s : Turns(m.to, s) /\ Votes(s, node[m.to], m)
    BY <1>1, <1>4, HandleRequestVoteDoes
  <2>3. s.term \in Nat /\ s.term >= TermOf(m.to) /\ Begins(node[m.to].applied, s.applied)
    BY <1>2, <2>1, <2>2 DEF Votes, SameData, Turns, State
  <2>4. s.role = "leader" => Leads(m.to) /\ s.term = TermOf(m.to)
    BY <1>2, <2>1, <2>2, <2>3 DEF Votes, Leads
  <2> QED
    BY <2>1, <2>2, <2>3, <2>4, TurnsGoOn
<1>5. ASSUME NEW m \in net, CountVote(m)
      PROVE  NodesGoOn
  <2>1. m.to \in Node /\ Running(m.to) /\ m.type = "voted"
    BY <1>1, <1>5, CountVoteDoes
  <2>2. PICK s : Turns(m.to, s) /\ SameData(s, node[m.to]) /\ VoteCounted(m, m.to, s)
    BY <1>1, <1>5, CountVoteDoes
  <2>3. s.term \in Nat /\ s.term >= TermOf(m.to) /\ Begins(node[m.to].applied, s.applied)
    BY <1>2, <2>1, <2>2 DEF VoteCounted, SameData, Turns, State
  <2>4. s.role = "leader" => \/ Leads(m.to) /\ s.term = TermOf(m.to)
                             \/ \A p \in Node : <<s.term, p>> \notin elected
    <3>1. CASE s = node[m.to]
      BY <1>2, <2>1, <3>1 DEF Leads
    <3>2. CASE /\ node[m.to].role = "candidate" /\ s.term = node[m.to].term /\ s.term = votes[m.to].term
               /\ Majority(Count(m))
      <4>1. TermOf(m.to) = votes[m.to].term /\ s.term = TermOf(m.to)
        BY <1>2, <2>1, <3>2
      <4> QED
        BY <2>1, <3>2, <4>1, WinnerIsFirst
    <3> QED
      BY <2>2, <3>1, <3>2 DEF VoteCounted
  <2> QED
    BY <2>1, <2>2, <2>3, <2>4, TurnsGoOn
<1>6. ASSUME NEW m \in net, HandleAppendEntries(m)
      PROVE  NodesGoOn
  <2>1. m.to \in Node /\ Running(m.to)
    BY <1>1, <1>6, HandleAppendEntriesDoes
  <2>2. PICK s : /\ Turns(m.to, s)
                 /\ \/ s = node[m.to]
                    \/ Follows(s, node[m.to], m) /\ SameData(s, node[m.to])
                    \/ Accepts(s, node[m.to], m)
    BY <1>1, <1>6, HandleAppendEntriesDoes
  <2>3. Begins(node[m.to].applied, s.applied)
    BY <1>2, <2>1, <2>2 DEF SameData, Accepts, GoesOn, Begins
  <2>4. s = node[m.to] \/ Follows(s, node[m.to], m)
    BY <2>2 DEF Accepts
  <2>5. s.term >= TermOf(m.to) /\ (s.role = "leader" => Leads(m.to) /\ s.term = TermOf(m.to))
    <3>1. CASE s = node[m.to]
      BY <1>2, <2>1, <3>1 DEF Leads
    <3>2. CASE Follows(s, node[m.to], m)
      BY <1>2, <2>1, <3>2 DEF Follows
    <3> QED
      BY <2>4, <3>1, <3>2
  <2> QED
    BY <2>1, <2>2, <2>3, <2>5, TurnsGoOn
<1>7. ASSUME NEW n \in Node, Propose(n)
      PROVE  NodesGoOn
  <2>1. Running(n) /\ Leads(n)
    BY <1>1, <1>7, ProposeDoes
  <2>2. PICK s, c : /\ Turns(n, s) /\ s.role = node[n].role /\ s.term = node[n].term
                    /\ s.votedFor = node[n].votedFor /\ s.commit = node[n].commit
                    /\ s.applied = node[n].applied
                    /\ s.log = Append(node[n].log, [term |-> node[n].term, cmd |-> used.writes + 1])
                    /\ calls' = calls \cup {c}
                    /\ c \in Call /\ c.node = n /\ c.acks = {n} /\ c.todo = Peers(n)
                    /\ c.id.index = Len(s.log) /\ c.id.term = s.term
    BY <1>1, <1>7, ProposeDoes
  <2> QED
    BY <1>2, <2>1, <2>2, TurnsGoOn
<1>8. ASSUME NEW m \in net, Replicated(m)
      PROVE  NodesGoOn
  <2>1. m.to \in Node /\ Running(m.to)
    BY <1>1, <1>8, ReplicatedDoes
  <2>2. PICK c, s : c \in calls /\ Turns(m.to, s) /\ Learns(m, s, node[m.to], c)
    BY <1>1, <1>8, ReplicatedDoes
  <2>3. Begins(node[m.to].applied, s.applied)
    BY <1>2, <2>1, <2>2 DEF Learns, Decides, SameData, GoesOn, Begins
  <2>4. s.term >= TermOf(m.to) /\ (s.role = "leader" => Leads(m.to) /\ s.term = TermOf(m.to))
    <3>1. m.term \in Nat
      BY DEF BaseInv, MessageOK
    <3>2. \/ m.term > node[m.to].term /\ s.term = m.term /\ s.role = "follower"
          \/ s.role = node[m.to].role /\ s.term = node[m.to].term
      BY <2>2 DEF Learns, Decides
    <3> QED
      BY <1>2, <2>1, <3>1, <3>2 DEF Leads
  <2> QED
    BY <2>1, <2>2, <2>3, <2>4, TurnsGoOn
<1>9. ASSUME NEW c \in calls, NEW p \in c.todo, Replicate(c, p)
      PROVE  NodesGoOn
  BY <1>1, <1>9, ReplicateDoes, StaysPutGoesOn
<1>10. ASSUME NEW n \in Node, Heartbeat(n) \/ StartRead(n) \/ Snapshot(n)
       PROVE  NodesGoOn
  BY <1>1, <1>10, HeartbeatDoes, StartReadDoes, SnapshotDoes, StaysPutGoesOn
<1>11. ASSUME NEW m \in net, ReadConfirmed(m)
       PROVE  NodesGoOn
  BY <1>1, <1>11, ReadConfirmedDoes, StaysPutGoesOn
<1>12. ASSUME NEW n \in Node, Crash(n)
       PROVE  NodesGoOn
  <2>1. node' = [node EXCEPT ![n] = Off] /\ meta' = meta
    BY <1>1, <1>12, CrashDoes DEF durable
  <2>2. \A x \in Node : TermOf(x)' = TermOf(x) /\ TermOf(x) \in Nat
    BY <2>1, LogsOnDisk DEF TermOf
  <2>3. \A x \in Node : IF x = n THEN ~Running(x)' /\ ~Leads(x)' ELSE node'[x] = node[x]
    BY <2>1 DEF BaseInv, Running, Leads, Off
  <2>4. TermsGrow
    BY <2>2 DEF TermsGrow
  <2>5. MachinesGrow
    BY <1>2, <2>3 DEF MachinesGrow
  <2>6. OfficesStand
    BY <2>2, <2>3 DEF OfficesStand, Leads
  <2> QED
    BY <2>4, <2>5, <2>6 DEF NodesGoOn
<1>13. ASSUME NEW n \in Node, Restart(n)
       PROVE  NodesGoOn
  <2>1. ~Running(n)
    BY <1>1, <1>13, RestartDoes
  <2>2. PICK s : Turns(n, s) /\ s.role = "follower" /\ s.term = TermOf(n)
    BY <1>1, <1>13, RestartDoes
  <2>3. s.term >= TermOf(n)
    BY <2>2, LogsOnDisk
  <2> QED
    BY <2>1, <2>2, <2>3, TurnsGoOn
<1> QED
  BY <1>3, <1>4, <1>5, <1>6, <1>7, <1>8, <1>9, <1>10, <1>11, <1>12, <1>13 DEF Next, Step

\* A step that chooses nothing leaves it with the leader of the term of the last entry.
LEMMA ReplicatedKnows ==
  ASSUME DisksWork, BaseInv, budget' = budget, NEW given, VotesInv(given), NEW logs, LogsInv(logs),
         NEW taken, AcksInv(given, logs, taken), ChosenInv(logs, taken), LeaderKnows(taken), NodesGoOn,
         NEW m, Replicated(m)
  PROVE  LeaderKnows(taken)'
<1>0. CallsInRange
  BY CallsAreInRange
<1>1. /\ BaseInv' /\ m \in net /\ m.type = "appended" /\ m.call.k = "write"
      /\ m.to \in Node /\ m.from \in Node /\ Running(m.to) /\ UNCHANGED <<reads, snap, elected, used>>
  BY <1>0, ReplicatedDoes
<1>2. PICK c, s : c \in calls /\ c \in Call /\ c.node = m.to /\ c.id = m.call /\ Turns(m.to, s) /\ Learns(m, s, node[m.to], c)
  BY <1>0, ReplicatedDoes
<1>3. Settled(elected, logs, taken) /\ chosen \in Seq(Nat)
  BY SettledHolds DEF ChosenInv, ChosenIs
<1>4. CASE chosen' = chosen
  BY <1>1, <1>3, <1>4, KnowsStep
<1>5. CASE chosen' # chosen
  <2> DEFINE n == m.to
             o == node[n]
             i == c.id.index
             t == c.id.term
             now == SubSeq(Commands(o.log), 1, i)
  <2>1. m.success /\ Majority(c.acks \cup {m.from}) /\ Decides(s, o, c)
    BY <1>2, <1>5 DEF Learns
  <2>2. Committed(taken, i, t)
    BY <1>1, <1>2, <2>1, DecidedCommitted DEF AcksInv
  <2>3. chosen' = now
    BY <1>5, <2>1 DEF Decides, Commits
  <2>4. /\ o.role = "leader" /\ o.term = t /\ s.term = t /\ s.commit = i /\ s.commit <= Len(s.applied)
        /\ TermOf(n) = o.term /\ Leads(n) /\ o.log \in Seq(Entry)
    BY <1>1, <2>1, RunningInSync DEF Decides, Leads, State
  <2>5. i \in Nat \ {0} /\ t \in Nat /\ i <= Len(o.log)
    BY <1>0, <1>2, <2>4, CallIds DEF CallsInRange
  <2>6. Len(now) = i
    <3> DEFINE all == Commands(o.log)
    <3>1. all = [j \in 1..Len(o.log) |-> o.log[j].cmd] /\ Len(o.log) \in Nat
      BY <2>4, LenProperties DEF Commands
    <3>2. \A j \in 1..Len(o.log) : o.log[j].cmd \in Nat
      BY <2>4, EntryIs
    <3> HIDE DEF all
    <3>3. all \in Seq(Nat) /\ Len(all) = Len(o.log)
      BY <3>1, <3>2
    <3>4. Len(SubSeq(all, 1, i)) = i
      BY <2>5, <3>1, <3>3
    <3> QED
      BY <3>4 DEF all
  <2>7. node'[n] = s /\ TermOf(n)' = t /\ \A x \in Node \ {n} : node'[x] = node[x] /\ TermOf(x)' = TermOf(x)
    BY <1>1, <1>2, <2>4, TurnsTo
  <2>8. ASSUME NEW x \in Node, Leads(x)', TermOf(x)' = t
        PROVE  x = n
    <3> SUFFICES ASSUME x # n PROVE FALSE
      OBVIOUS
    <3>1. Leads(x) /\ TermOf(x) = t
      BY <2>7, <2>8 DEF Leads
    <3>2. <<t, x>> \in elected /\ <<t, n>> \in elected
      BY <1>1, <2>4, <3>1 DEF VotesInv, ElectedOK
    <3> QED
      BY <1>1, <2>5, <3>2, OneLeaderPerTerm
  <2>9. \A x \in Node : Leads(x)' /\ TermOf(x)' = t => Len(chosen') <= Len(node'[x].applied)
    BY <2>3, <2>4, <2>6, <2>7, <2>8
  <2> QED
    BY <2>2, <2>3, <2>5, <2>6, <2>9 DEF LeaderKnows
<1> QED
  BY <1>4, <1>5

LEMMA OthersChooseNothing ==
  ASSUME Next, \A m \in net : ~ Replicated(m)
  PROVE  UNCHANGED <<chosen, acked>>
<1>1. \A n \in Node : StartElection(n) => UNCHANGED <<chosen, acked>>
  BY DEF StartElection, history
<1>2. \A n \in Node : Propose(n) \/ Heartbeat(n) \/ StartRead(n) => UNCHANGED <<chosen, acked>>
  BY DEF Propose, Heartbeat, StartRead, history
<1>3. \A n \in Node : Crash(n) \/ Restart(n) \/ Snapshot(n) => UNCHANGED <<chosen, acked>>
  BY DEF Crash, Restart, Snapshot, history
<1>4. \A m \in net : HandleRequestVote(m) \/ CountVote(m) => UNCHANGED <<chosen, acked>>
  BY DEF HandleRequestVote, CountVote, history
<1>5. \A m \in net : HandleAppendEntries(m) \/ ReadConfirmed(m) => UNCHANGED <<chosen, acked>>
  BY DEF HandleAppendEntries, ReadConfirmed, history
<1>6. \A c \in calls : \A p \in c.todo : Replicate(c, p) => UNCHANGED <<chosen, acked>>
  BY DEF Replicate, history
<1> QED
  BY <1>1, <1>2, <1>3, <1>4, <1>5, <1>6 DEF Next, Step

\* A read's replies are for it alone, and come no more once it was served.
ServedOnce ==
  /\ \A r, q \in reads : r.id = q.id => r = q
  /\ \A r \in reads : r.served => \A m \in net : m.type = "appended" => m.call # r.id

LEMMA ServedOnceStays ==
  ASSUME BaseInv, ServedOnce, reads' \subseteq reads,
         \A m \in net' : m.type = "appended" =>
           m \in net \/ m.call.k # "read" \/ \E q \in reads : q.id = m.call /\ ~q.served
  PROVE  ServedOnce'
<1>1. \A r, q \in reads' : r.id = q.id => r = q
  BY DEF ServedOnce
<1>2. ASSUME NEW r \in reads', r.served, NEW m \in net', m.type = "appended"
      PROVE  m.call # r.id
  <2>1. r \in reads /\ r.id.k = "read"
    BY DEF BaseInv, Read, ReadId
  <2>2. CASE m \in net
    BY <1>2, <2>1, <2>2 DEF ServedOnce
  <2>3. CASE m.call.k # "read"
    BY <2>1, <2>3
  <2>4. CASE \E q \in reads : q.id = m.call /\ ~q.served
    BY <1>2, <2>1, <2>4 DEF ServedOnce
  <2> QED
    BY <1>2, <2>2, <2>3, <2>4
<1> QED
  BY <1>1, <1>2 DEF ServedOnce

\* Nobody answers a read that does not wait.
LEMMA AnswersAwaited ==
  ASSUME NEW m, HandleAppendEntries(m), NEW x \in net'
  PROVE  x \in net \/ (x.call.k = "read" => \E q \in reads : q.id = x.call /\ ~q.served)
<1>1. ASSUME NEW s, NEW success, NEW conflict, Answer(m, s, success, conflict)
      PROVE  x \in net \/ (x.call.k = "read" => \E q \in reads : q.id = x.call /\ ~q.served)
  <2>1. \/ x \in net
        \/ x.call = m.call /\ Awaited(m)
    BY <1>1 DEF Answer
  <2> QED
    BY <2>1 DEF Awaited
<1>2. \E s, success, conflict : Answer(m, s, success, conflict)
  BY DEF HandleAppendEntries, AcceptEntries
<1> QED
  BY <1>1, <1>2

\* A step that leaves the reads alone.
LEMMA ReadsRest ==
  ASSUME BaseInv, BaseInv', NodesGoOn, ReadsInv, ServedOnce, used.reads \in Nat, used'.reads = used.reads,
         reads' \subseteq reads, \A r \in reads' : r.served \/ (Running(r.node) => Running(r.node)'),
         \A m \in net' : m.type = "append" /\ m.call.k = "read" => m \in net,
         \A m \in net' : m.type = "appended" => 
            \/ m \in net
            \/ \E o \in net : /\ o.type = "append" /\ o.call = m.call
                              /\ m.success => TermOf(m.from) <= o.term
                              /\ m.call.k = "read" => \E q \in reads : q.id = m.call /\ ~q.served
  PROVE  ReadsInv' /\ ServedOnce'
<1>1. \A r \in reads' : r \in reads /\ (r.served \/ Running(r.node)')
  BY DEF ReadsInv, ReadOK
<1>2. used'.reads \in Nat /\ used.reads <= used'.reads
  OBVIOUS
<1>3. \A m \in net' : m.type = "appended" /\ m.call.k = "read" => 
            \/ m \in net
            \/ \E o \in net : /\ o.type = "append" /\ o.call = m.call
                              /\ m.success => TermOf(m.from) <= o.term
  OBVIOUS
<1>4. ReadsInv'
  BY <1>1, <1>2, <1>3, ReadsStep
<1>5. ServedOnce'
  BY ServedOnceStays
<1> QED
  BY <1>4, <1>5

LEMMA KeepsRunning ==
  ASSUME BaseInv, StaysPut \/ \E n \in Node : \E s : Turns(n, s), NEW r \in reads, Running(r.node)
  PROVE  Running(r.node)'
<1>1. r.node \in Node
  BY DEF BaseInv, Read
<1>2. CASE StaysPut
  BY <1>2 DEF StaysPut, Running
<1>3. ASSUME NEW n \in Node, NEW s, Turns(n, s)
      PROVE  Running(r.node)'
  BY <1>1, <1>3, TurnsTo DEF Running
<1> QED
  BY <1>2, <1>3

\* A step that asks and answers nothing about reads, but for answers to those that wait.
LEMMA TurnsReads ==
  ASSUME BaseInv, BaseInv', NodesGoOn, ReadsInv, ServedOnce, used.reads \in Nat, used'.reads = used.reads,
         reads' = reads, StaysPut \/ \E n \in Node : \E s : Turns(n, s),
         \A m \in net' : m.type = "append" /\ m.call.k = "read" => m \in net,
         \A m \in net' : m.type = "appended" => 
            \/ m \in net
            \/ \E o \in net : /\ o.type = "append" /\ o.call = m.call
                              /\ m.success => TermOf(m.from) <= o.term
                              /\ m.call.k = "read" => \E q \in reads : q.id = m.call /\ ~q.served
  PROVE  ReadsInv' /\ ServedOnce'
<1>1. \A r \in reads' : r.served \/ (Running(r.node) => Running(r.node)')
  BY KeepsRunning
<1>2. reads' \subseteq reads
  OBVIOUS
<1> QED
  BY <1>1, <1>2, ReadsRest

LEMMA StartElectionReads ==
  ASSUME DisksWork, BaseInv, UsedOK, budget' = budget, NodesGoOn, ReadsInv, ServedOnce,
         NEW n \in Node, StartElection(n)
  PROVE  ReadsInv' /\ ServedOnce'
<1>1. BaseInv' /\ reads' = reads /\ used' = [used EXCEPT !["elections"] = @ + 1]
  BY StartElectionDoes DEF StartElection, Use
<1>2. used.reads \in Nat /\ used'.reads = used.reads
  BY <1>1 DEF UsedOK, Counts
<1>3. PICK s : /\ Turns(n, s)
               /\ \A o \in net' : \/ o \in net /\ ~(o.type = "voted" /\ o.to = n)
                                  \/ VoteRequest(o, n, s) /\ MessageOK(o)
  BY StartElectionDoes
<1>4. \A m \in net' : m.type \in {"append", "appended"} => m \in net
  BY <1>3 DEF VoteRequest
<1>5. StaysPut \/ \E x \in Node : \E v : Turns(x, v)
  BY <1>3
<1> QED
  BY <1>1, <1>2, <1>4, <1>5, TurnsReads

LEMMA HandleRequestVoteReads ==
  ASSUME DisksWork, BaseInv, UsedOK, budget' = budget, NodesGoOn, ReadsInv, ServedOnce,
         NEW m, HandleRequestVote(m)
  PROVE  ReadsInv' /\ ServedOnce'
<1>1. BaseInv' /\ reads' = reads /\ used' = used /\ m.to \in Node
  BY HandleRequestVoteDoes
<1>2. used.reads \in Nat /\ used'.reads = used.reads
  BY <1>1 DEF UsedOK, Counts
<1>3. PICK s : /\ Turns(m.to, s)
               /\ \A o \in net' : o \in net \/ VoteReply(o, m.to, s, m, node[m.to])
  BY HandleRequestVoteDoes
<1>4. \A o \in net' : o.type \in {"append", "appended"} => o \in net
  BY <1>3 DEF VoteReply
<1>5. StaysPut \/ \E x \in Node : \E v : Turns(x, v)
  BY <1>1, <1>3
<1> QED
  BY <1>1, <1>2, <1>4, <1>5, TurnsReads

LEMMA CountVoteReads ==
  ASSUME DisksWork, BaseInv, UsedOK, budget' = budget, NodesGoOn, ReadsInv, ServedOnce,
         NEW m, CountVote(m)
  PROVE  ReadsInv' /\ ServedOnce'
<1>1. BaseInv' /\ reads' = reads /\ used' = used /\ m.to \in Node /\ net' \subseteq net
  BY CountVoteDoes
<1>2. used.reads \in Nat /\ used'.reads = used.reads
  BY <1>1 DEF UsedOK, Counts
<1>3. PICK s : Turns(m.to, s)
  BY CountVoteDoes
<1>4. StaysPut \/ \E x \in Node : \E v : Turns(x, v)
  BY <1>1, <1>3
<1> QED
  BY <1>1, <1>2, <1>4, TurnsReads

\* Who confirms a read is, or comes, in the term of the request.
LEMMA HandleAppendEntriesReads ==
  ASSUME DisksWork, BaseInv, UsedOK, budget' = budget, NodesGoOn, ReadsInv, ServedOnce,
         NEW m, HandleAppendEntries(m)
  PROVE  ReadsInv' /\ ServedOnce'
<1>1. BaseInv' /\ reads' = reads /\ used' = used /\ m.to \in Node /\ m \in net /\ m.type = "append" /\ Running(m.to)
  BY HandleAppendEntriesDoes
<1>2. used.reads \in Nat /\ used'.reads = used.reads
  BY <1>1 DEF UsedOK, Counts
<1>3. PICK s : /\ Turns(m.to, s)
               /\ \/ \A x \in net' : x \in net \/ AppendReply(x, m, s, FALSE)
                  \/ /\ Accepts(s, node[m.to], m)
                     /\ \A x \in net' : x \in net \/ AppendReply(x, m, s, TRUE)
  BY HandleAppendEntriesDoes
<1>4. TermOf(m.to) = node[m.to].term
  BY <1>1, RunningInSync
<1>5. ASSUME NEW x \in net', x \notin net
      PROVE  /\ x.type = "appended" /\ x.from = m.to /\ x.call = m.call
             /\ x.success => TermOf(m.to) <= m.term
  <2>1. CASE \A y \in net' : y \in net \/ AppendReply(y, m, s, FALSE)
    BY <1>5, <2>1, Zenon DEF AppendReply
  <2>2. CASE /\ Accepts(s, node[m.to], m)
             /\ \A y \in net' : y \in net \/ AppendReply(y, m, s, TRUE)
    <3>1. AppendReply(x, m, s, TRUE)
      BY <1>5, <2>2
    <3>2. m.term >= node[m.to].term
      BY <2>2 DEF Accepts, Follows
    <3>3. m.term \in Nat /\ node[m.to].term \in Nat
      BY <1>1 DEF BaseInv, MessageOK, State
    <3>4. TermOf(m.to) <= m.term
      BY <1>4, <3>2, <3>3
    <3> QED
      BY <3>1, <3>4 DEF AppendReply
  <2> QED
    BY <1>3, <2>1, <2>2
<1>6. ASSUME NEW x \in net', x.type = "appended"
      PROVE  \/ x \in net
             \/ \E o \in net : /\ o.type = "append" /\ o.call = x.call
                               /\ x.success => TermOf(x.from) <= o.term
                               /\ x.call.k = "read" => \E q \in reads : q.id = x.call /\ ~q.served
  <2>1. x \in net \/ (x.call.k = "read" => \E q \in reads : q.id = x.call /\ ~q.served)
    BY AnswersAwaited
  <2> QED
    BY <1>1, <1>5, <2>1
<1>7. \A x \in net' : x.type = "append" /\ x.call.k = "read" => x \in net
  BY <1>5
<1>8. StaysPut \/ \E x \in Node : \E v : Turns(x, v)
  BY <1>1, <1>3
<1> QED
  BY <1>1, <1>2, <1>6, <1>7, <1>8, TurnsReads

LEMMA ProposeReads ==
  ASSUME DisksWork, BaseInv, UsedOK, budget' = budget, NodesGoOn, ReadsInv, ServedOnce,
         NEW n \in Node, Propose(n)
  PROVE  ReadsInv' /\ ServedOnce'
<1>1. used.writes \in Nat
  BY DEF UsedOK, Counts
<1>2. BaseInv' /\ reads' = reads /\ used' = [used EXCEPT !.writes = @ + 1] /\ net' = net
  BY <1>1, ProposeDoes
<1>3. used.reads \in Nat /\ used'.reads = used.reads
  BY <1>2 DEF UsedOK, Counts
<1>4. \E x \in Node : \E v : Turns(x, v)
  <2>1. PICK s, c : /\ Turns(n, s) /\ s.role = node[n].role /\ s.term = node[n].term
                    /\ s.votedFor = node[n].votedFor /\ s.commit = node[n].commit
                    /\ s.applied = node[n].applied
                    /\ s.log = Append(node[n].log, [term |-> node[n].term, cmd |-> used.writes + 1])
                    /\ calls' = calls \cup {c}
                    /\ c \in Call /\ c.node = n /\ c.acks = {n} /\ c.todo = Peers(n)
                    /\ c.id.index = Len(s.log) /\ c.id.term = s.term
    BY <1>1, ProposeDoes
  <2> QED
    BY <2>1
<1> QED
  BY <1>2, <1>3, <1>4, TurnsReads

LEMMA ReplicatedReads ==
  ASSUME DisksWork, BaseInv, CallsInRange, UsedOK, budget' = budget, NodesGoOn, ReadsInv, ServedOnce,
         NEW m, Replicated(m)
  PROVE  ReadsInv' /\ ServedOnce'
<1>1. BaseInv' /\ reads' = reads /\ used' = used /\ m.to \in Node
  BY ReplicatedDoes
<1>2. used.reads \in Nat /\ used'.reads = used.reads
  BY <1>1 DEF UsedOK, Counts
<1>3. PICK c, s : c \in calls /\ c \in Call /\ c.node = m.to /\ c.id = m.call /\ Turns(m.to, s) /\ Learns(m, s, node[m.to], c)
  BY ReplicatedDoes
<1>4. c.id.k = "write"
  BY <1>3, CallIds
<1>5. \A x \in net' : x \in net \/ (x.type = "append" /\ x.call = c.id)
  BY <1>3 DEF Learns, IsRequest
<1>6. \A x \in net' : /\ x.type = "append" /\ x.call.k = "read" => x \in net
                      /\ x.type = "appended" => x \in net
  BY <1>4, <1>5
<1>7. StaysPut \/ \E x \in Node : \E v : Turns(x, v)
  BY <1>1, <1>3
<1> QED
  BY <1>1, <1>2, <1>6, <1>7, TurnsReads

LEMMA ReplicateReads ==
  ASSUME DisksWork, BaseInv, UsedOK, budget' = budget, NodesGoOn, ReadsInv, ServedOnce,
         NEW c \in calls, NEW p \in c.todo, Replicate(c, p)
  PROVE  ReadsInv' /\ ServedOnce'
<1>1. BaseInv' /\ StaysPut /\ reads' = reads /\ used' = used /\ c \in Call
  BY ReplicateDoes
<1>2. used.reads \in Nat /\ used'.reads = used.reads
  BY <1>1 DEF UsedOK, Counts
<1>3. c.id.k = "write"
  BY <1>1, CallIds
<1>4. \A x \in net' : x \in net \/ (x.type = "append" /\ x.call = c.id)
  BY ReplicateDoes DEF IsRequest
<1>5. \A x \in net' : /\ x.type = "append" /\ x.call.k = "read" => x \in net
                      /\ x.type = "appended" => x \in net
  BY <1>3, <1>4
<1> QED
  BY <1>1, <1>2, <1>5, TurnsReads

LEMMA HeartbeatReads ==
  ASSUME DisksWork, BaseInv, UsedOK, budget' = budget, NodesGoOn, ReadsInv, ServedOnce,
         NEW n \in Node, Heartbeat(n) \/ Snapshot(n)
  PROVE  ReadsInv' /\ ServedOnce'
<1>1. BaseInv' /\ StaysPut /\ reads' = reads
  BY HeartbeatDoes, SnapshotDoes DEF volatile
<1>2. used' = [used EXCEPT !.beats = @ + 1] \/ used' = [used EXCEPT !.snapshots = @ + 1]
  BY HeartbeatDoes, SnapshotDoes
<1>3. used.reads \in Nat /\ used'.reads = used.reads
  BY <1>2 DEF UsedOK, Counts
<1>4. \A x \in net' : x \in net \/ (x.type = "append" /\ x.call.k = "beat")
  BY HeartbeatDoes, SnapshotDoes DEF IsRequest
<1>5. \A x \in net' : /\ x.type = "append" /\ x.call.k = "read" => x \in net
                      /\ x.type = "appended" => x \in net
  BY <1>4
<1> QED
  BY <1>1, <1>3, <1>5, TurnsReads

LEMMA RestartReads ==
  ASSUME DisksWork, BaseInv, UsedOK, budget' = budget, NodesGoOn, ReadsInv, ServedOnce,
         NEW n \in Node, Restart(n)
  PROVE  ReadsInv' /\ ServedOnce'
<1>1. BaseInv' /\ reads' = reads /\ used' = used /\ net' = net
  BY RestartDoes
<1>2. used.reads \in Nat /\ used'.reads = used.reads
  BY <1>1 DEF UsedOK, Counts
<1>3. StaysPut \/ \E x \in Node : \E v : Turns(x, v)
  BY RestartDoes
<1> QED
  BY <1>1, <1>2, <1>3, TurnsReads

\* A crash ends the reads that wait at the node.
LEMMA CrashReads ==
  ASSUME DisksWork, BaseInv, UsedOK, budget' = budget, NodesGoOn, ReadsInv, ServedOnce,
         NEW n \in Node, Crash(n)
  PROVE  ReadsInv' /\ ServedOnce'
<1>1. /\ BaseInv' /\ used' = [used EXCEPT !.crashes = @ + 1] /\ node' = [node EXCEPT ![n] = Off]
      /\ \A r \in reads' : r \in reads /\ (r.node # n \/ r.served)
      /\ \A m \in net' : m \in net
  BY CrashDoes
<1>2. used.reads \in Nat /\ used'.reads = used.reads
  BY <1>1 DEF UsedOK, Counts
<1>3. ASSUME NEW r \in reads', ~r.served, Running(r.node)
      PROVE  Running(r.node)'
  <2>1. r.node # n /\ r.node \in Node
    BY <1>1, <1>3 DEF BaseInv, Read
  <2>2. node'[r.node] = node[r.node]
    BY <1>1, <2>1 DEF BaseInv
  <2> QED
    BY <1>3, <2>2 DEF Running
<1> QED
  BY <1>1, <1>2, <1>3, ReadsRest

\* A leader that applied an entry of its term has applied what finished, or a majority has
\* gone on to a later term.
LEMMA ReadBegins ==
  ASSUME BaseInv, NEW given, VotesInv(given), NEW logs, LogsInv(logs),
         NEW taken, AcksInv(given, logs, taken), ChosenInv(logs, taken), LeaderKnows(taken),
         NEW n \in Node, Leads(n), InOffice(node[n])
  PROVE  \/ acked \subseteq Listed(node[n].applied)
         \/ \E Q \in SUBSET Node : Majority(Q) /\ \A x \in Q : TermOf(x) > TermOf(n)
<1> DEFINE a == node[n].applied
           k == Len(chosen)
           u == TermOf(n)
<1>1. /\ Begins(a, chosen) /\ acked \subseteq {chosen[i] : i \in 1..k} /\ chosen \in Seq(Nat)
      /\ a \in Seq(Nat) /\ a # <<>> /\ TermAt(node[n].log, Len(a)) = node[n].term
  BY DEF ChosenInv, ChosenIs, Machines, BaseInv, State, InOffice
<1>2. Len(a) \in Nat \ {0} /\ k \in Nat /\ Len(a) <= k /\ \A i \in 1..Len(a) : a[i] = chosen[i]
  BY <1>1, LenProperties, EmptySeq DEF Begins
<1>3. Running(n)
  BY DEF Leads, Running
<1>4. u = node[n].term /\ LogOf(n) = node[n].log /\ logs[u] = LogOf(n) /\ u \in Nat
  BY <1>3, RunningInSync, LogsOnDisk DEF LogsInv, NodesFit
<1>5. logs[u][Len(a)].term = u
  BY <1>1, <1>2, <1>4 DEF TermAt
<1>6. <<u, n>> \in elected
  BY DEF VotesInv, ElectedOK
<1>7. Settled(elected, logs, taken) /\ LogsOK(logs)
  BY SettledHolds DEF LogsInv
<1>8. PICK t \in Nat : /\ Committed(taken, k, t)
                       /\ \A x \in Node : Leads(x) /\ TermOf(x) = t => k <= Len(node[x].applied)
  <2>1. chosen # <<>>
    BY <1>1, <1>2, EmptySeq
  <2> QED
    BY <2>1 DEF LeaderKnows
<1> HIDE DEF a, k, u
<1>9. CASE t > u
  <2> DEFINE Q == {x \in Node : <<x, k, t>> \in taken}
  <2>1. Q \in SUBSET Node /\ Majority(Q)
    BY <1>8 DEF Committed
  <2>2. ASSUME NEW x \in Q
        PROVE  TermOf(x) > u
    <3>1. TermOf(x) >= t
      BY <1>2, <1>8, <2>2 DEF AcksInv, TakenOK
    <3>2. TermOf(x) \in Nat
      BY <2>2, LogsOnDisk
    <3> QED
      BY <1>4, <1>8, <1>9, <3>1, <3>2
  <2> QED
    BY <2>1, <2>2 DEF u
<1>10. CASE t <= u
  <2>1. CASE t = u
    <3>1. k <= Len(a)
      BY <1>8, <2>1 DEF a, u
    <3>2. Len(a) = k
      BY <1>2, <3>1
    <3>3. \A i \in 1..k : a[i] = chosen[i]
      BY <1>2, <3>2
    <3>4. acked \subseteq Listed(a)
      BY <1>1, <3>2, <3>3 DEF Listed, k
    <3> QED
      BY <3>4 DEF a
  <2>2. CASE t < u
    <3>1. Agree(logs[u], logs[t], k) /\ k <= Len(logs[t])
      BY <1>2, <1>4, <1>6, <1>7, <1>8, <1>10, CommittedAgree
    <3>2. Len(a) \in 1..k
      BY <1>2
    <3>3. logs[u][Len(a)] = logs[t][Len(a)]
      BY <3>1, <3>2 DEF Agree
    <3>4. Len(a) \in 1..Len(logs[t])
      <4>1. Len(logs[t]) \in Nat
        BY <1>7, LeadersLog, LenProperties
      <4> QED
        BY <1>2, <3>1, <3>2, <4>1
    <3>5. logs[t][Len(a)].term <= t /\ logs[t][Len(a)].term \in Nat
      BY <1>7, <3>4, LeadersLog, EntryIs
    <3>6. u <= t
      BY <1>5, <3>3, <3>5
    <3> QED
      BY <1>4, <2>2, <3>6
  <2> QED
    BY <1>4, <1>10, <2>1, <2>2
<1> QED
  BY <1>4, <1>8, <1>9, <1>10

LEMMA StartReadReads ==
  ASSUME DisksWork, BaseInv, UsedOK, budget' = budget, NodesGoOn, NEW given, VotesInv(given), 
         NEW logs, LogsInv(logs), NEW taken, AcksInv(given, logs, taken), ChosenInv(logs, taken),
         LeaderKnows(taken), ReadsInv, ServedOnce, NEW n \in Node, StartRead(n)
  PROVE  ReadsInv' /\ ServedOnce'
<1> DEFINE id == [k |-> "read", nr |-> used.reads]
<1>1. used.reads \in Nat
  BY DEF UsedOK, Counts
<1>2. /\ BaseInv' /\ StaysPut /\ Leads(n) /\ node' = node /\ meta' = meta
      /\ used' = [used EXCEPT !.reads = @ + 1]
      /\ \A x \in net' : \/ x \in net
                         \/ IsRequest(x) /\ x.from = n /\ x.call = id
  BY <1>1, StartReadDoes DEF durable
<1>3. PICK r \in Read : /\ reads' = reads \cup {r}
                        /\ r.node = n /\ r.id = id /\ r.acks = {n}
                        /\ r.must = acked /\ ~r.served /\ (r.own => InOffice(node[n]))
  BY <1>1, StartReadDoes
<1>4. id.k = "read" /\ id.nr = used.reads
  OBVIOUS
<1> HIDE DEF id
<1>5. used'.reads \in Nat /\ used.reads <= used'.reads /\ used.reads < used'.reads
  <2>1. used'.reads = used.reads + 1
    BY <1>2 DEF UsedOK, Counts
  <2> QED
    BY <1>1, <2>1
<1>6. \A x \in net : x.type \in {"append", "appended"} => x.call # id
  <2> SUFFICES ASSUME NEW x \in net, x.type \in {"append", "appended"}, x.call = id
               PROVE  FALSE
    OBVIOUS
  <2>1. used.reads < used.reads
    BY <1>4 DEF ReadsInv
  <2> QED
    BY <1>1, <2>1
<1>7. \A x \in reads : x.id # id
  <2> SUFFICES ASSUME NEW x \in reads, x.id = id
               PROVE  FALSE
    OBVIOUS
  <2>1. used.reads < used.reads
    BY <1>4 DEF ReadsInv, ReadOK
  <2> QED
    BY <1>1, <2>1
<1>8. \A x \in net' : x.type = "appended" => x \in net
  BY <1>2 DEF IsRequest
<1>9. Running(n) /\ \A x \in Node : Running(x)' <=> Running(x)
  BY <1>2 DEF Leads, Running
<1>10. ASSUME r.own
       PROVE  ReadFits(r)'
  <2>1. PICK u \in Nat : u = TermOf(n) /\ u = node[n].term
    BY <1>9, RunningInSync, LogsOnDisk
  <2>2. \A x \in net' : x.type = "append" /\ x.call = r.id => x.term = u
    BY <1>2, <1>3, <1>6, <2>1 DEF IsRequest
  <2>3. \/ acked \subseteq Listed(node[n].applied)
        \/ \E Q \in SUBSET Node : Majority(Q) /\ \A x \in Q : TermOf(x) > TermOf(n)
    BY <1>2, <1>3, <1>10, ReadBegins
  <2>4. CASE acked \subseteq Listed(node[n].applied)
    BY <1>2, <1>3, <2>1, <2>2, <2>4 DEF ReadFits
  <2>5. CASE \E Q \in SUBSET Node : Majority(Q) /\ \A x \in Q : TermOf(x) > TermOf(n)
    <3>1. PICK Q \in SUBSET Node : Majority(Q) /\ \A x \in Q : TermOf(x) > u
      BY <2>1, <2>5
    <3>2. n \notin Q
      <4> SUFFICES ASSUME n \in Q PROVE FALSE
        OBVIOUS
      <4>1. u > u
        BY <2>1, <3>1
      <4> QED
        BY <4>1
    <3>3. \A x \in Q : TermOf(x)' > u /\ x \notin r.acks
      BY <1>2, <1>3, <3>1, <3>2 DEF TermOf
    <3>4. \A x \in net' : x.type = "appended" => x.call # r.id
      BY <1>3, <1>6, <1>8
    <3>5. Passed(r, u)'
      BY <3>1, <3>3, <3>4 DEF Passed
    <3> QED
      BY <2>1, <2>2, <3>5 DEF ReadFits
  <2> QED
    BY <2>3, <2>4, <2>5
<1>11. ReadOK(r)'
  BY <1>3, <1>4, <1>5, <1>9, <1>10 DEF ReadOK
<1>12. \A x \in reads : x.served \/ Running(x.node)'
  BY <1>9 DEF ReadsInv, ReadOK, BaseInv, Read
<1>13. \A x \in net' : x.type = "append" /\ x.call.k = "read" =>
         x \in net \/ (x.call.nr = used.reads /\ used.reads < used'.reads)
  BY <1>2, <1>4, <1>5
<1>14. ReadsInv'
  <2>1. \A x \in reads' : \/ x \in reads /\ (x.served \/ Running(x.node)')
                          \/ ReadOK(x)'
    BY <1>3, <1>11, <1>12
  <2> QED
    BY <1>1, <1>2, <1>5, <1>8, <1>13, <2>1, ReadsStep
<1>15. ServedOnce'
  <2>1. \A x, y \in reads' : x.id = y.id => x = y
    BY <1>3, <1>7 DEF ServedOnce
  <2>2. \A x \in reads' : x.served => \A o \in net' : o.type = "appended" => o.call # x.id
    BY <1>3, <1>8 DEF ServedOnce
  <2> QED
    BY <2>1, <2>2 DEF ServedOnce
<1> QED
  BY <1>14, <1>15

\* A read is served from what its leader has once a majority confirmed it.
LEMMA ReadConfirmedReads ==
  ASSUME DisksWork, BaseInv, UsedOK, budget' = budget, NodesGoOn, ReadsInv, ServedOnce,
         NEW m, ReadConfirmed(m)
  PROVE  ReadsInv' /\ ServedOnce'
<1>1. /\ BaseInv' /\ StaysPut /\ m \in net /\ m.type = "appended" /\ m.call.k = "read"
      /\ node' = node /\ meta' = meta /\ used' = used /\ net' \subseteq net
  BY ReadConfirmedDoes DEF durable
<1>2. PICK r \in reads, q \in Read :
        /\ r \in Read /\ r.node = m.to /\ r.id = m.call /\ reads' = (reads \ {r}) \cup {q}
        /\ q.node = r.node /\ q.id = r.id /\ q.must = r.must /\ q.own = r.own
        /\ q.acks = Confirming(r, m)
        /\ IF Majority(q.acks) THEN q.served /\ q.got = node[r.node].applied
           ELSE q.served = r.served /\ q.got = r.got
  BY ReadConfirmedDoes
<1>3. used.reads \in Nat /\ used'.reads = used.reads
  BY <1>1 DEF UsedOK, Counts
<1>4. ~r.served
  BY <1>1, <1>2 DEF ServedOnce
<1>5. Majority(q.acks) => \A o \in net' : o.type = "appended" => o.call # m.call
  <2>1. PICK x \in {y \in reads : y.node = m.to /\ y.id = m.call} :
          net' = IF Majority(Confirming(x, m)) THEN {o \in net : o.type = "appended" => o.call # m.call}
                 ELSE net \ {m}
    BY DEF ReadConfirmed
  <2>2. x = r
    BY <1>2, <2>1 DEF ServedOnce
  <2> QED
    BY <1>2, <2>1, <2>2
<1>6. q.acks \subseteq r.acks \cup {m.from} /\ (m.from \in q.acks => m.success \/ m.from \in r.acks)
  BY <1>2 DEF Confirming
<1>7. q.served <=> Majority(q.acks)
  BY <1>2, <1>4
<1>8. ReadOK(r)
  BY <1>2 DEF ReadsInv
<1>9. Running(r.node) /\ (r.own => ReadFits(r)) /\ r.id.nr < used.reads
  BY <1>4, <1>8 DEF ReadOK
<1>10. \A u \in Nat : Passed(r, u) => \E Q \in SUBSET Node : /\ Majority(Q)
          /\ \A n \in Q : /\ TermOf(n) > u /\ n \notin q.acks
                          /\ \A o \in net : o.type = "appended" /\ o.call = r.id /\ o.from = n => ~o.success
  <2> SUFFICES ASSUME NEW u \in Nat, NEW Q \in SUBSET Node, Majority(Q), 
                      \A n \in Q : /\ TermOf(n) > u /\ n \notin r.acks
                                   /\ \A o \in net : o.type = "appended" /\ o.call = r.id /\ o.from = n => ~o.success
               PROVE  \A n \in Q : n \notin q.acks
    BY DEF Passed
  <2> QED
    BY <1>1, <1>2, <1>6
<1>11. ASSUME q.own, ~q.served
       PROVE  ReadFits(q)'
  <2>1. PICK u \in Nat : /\ \A o \in net : o.type = "append" /\ o.call = r.id => o.term = u
                         /\ r.must \subseteq Listed(node[r.node].applied) \/ Passed(r, u)
    BY <1>2, <1>9, <1>11 DEF ReadFits
  <2>2. \A o \in net' : o.type = "append" /\ o.call = q.id => o.term = u
    BY <1>1, <1>2, <2>1
  <2>3. CASE r.must \subseteq Listed(node[r.node].applied)
    <3>1. q.must \subseteq Listed(node'[q.node].applied)
      BY <1>1, <1>2, <2>3
    <3> QED
      BY <2>2, <3>1 DEF ReadFits
  <2>4. CASE Passed(r, u)
    <3>1. PICK Q \in SUBSET Node : /\ Majority(Q)
            /\ \A n \in Q : /\ TermOf(n) > u /\ n \notin q.acks
                            /\ \A o \in net : o.type = "appended" /\ o.call = r.id /\ o.from = n => ~o.success
      BY <1>10, <2>4
    <3>2. \A n \in Q : TermOf(n)' > u
      BY <1>1, <3>1 DEF TermOf
    <3>3. \A n \in Q : \A o \in net' : o.type = "appended" /\ o.call = q.id /\ o.from = n => ~o.success
      BY <1>1, <1>2, <3>1
    <3>4. Passed(q, u)'
      BY <3>1, <3>2, <3>3 DEF Passed
    <3> QED
      BY <2>2, <3>4 DEF ReadFits
  <2> QED
    BY <2>1, <2>3, <2>4
<1>12. ASSUME q.own, q.served
       PROVE  q.must \subseteq Listed(q.got)
  <2>1. PICK u \in Nat : r.must \subseteq Listed(node[r.node].applied) \/ Passed(r, u)
    BY <1>2, <1>9, <1>12 DEF ReadFits
  <2>2. ~ Passed(r, u)
    <3> SUFFICES ASSUME NEW Q \in SUBSET Node, Majority(Q), \A n \in Q : n \notin q.acks
                 PROVE  FALSE
      BY <1>10
    <3>1. q.acks \in SUBSET Node /\ Majority(q.acks)
      BY <1>7, <1>12 DEF Read
    <3> QED
      BY <3>1, MajoritiesMeet
  <2>3. q.got = node[r.node].applied
    BY <1>2, <1>7, <1>12
  <2> QED
    BY <1>2, <2>1, <2>2, <2>3
<1>13. ReadOK(q)'
  <2>1. q.id.nr < used'.reads
    BY <1>2, <1>3, <1>9
  <2>2. Running(q.node)'
    BY <1>1, <1>2, <1>9 DEF Running
  <2> QED
    BY <2>1, <2>2, <1>11, <1>12 DEF ReadOK
<1>14. \A x \in reads : x.served \/ Running(x.node)'
  BY <1>1 DEF ReadsInv, ReadOK, Running
<1>15. ReadsInv'
  <2>1. \A x \in reads' : \/ x \in reads /\ (x.served \/ Running(x.node)')
                          \/ ReadOK(x)'
    BY <1>2, <1>13, <1>14
  <2>2. used'.reads \in Nat /\ used.reads <= used'.reads
    BY <1>3
  <2> QED
    BY <1>1, <1>3, <2>1, <2>2, ReadsStep
<1>16. ServedOnce'
  <2>1. \A x, y \in reads' : x.id = y.id => x = y
    BY <1>2 DEF ServedOnce
  <2>2. \A x \in reads' : x.served => \A o \in net' : o.type = "appended" => o.call # x.id
    BY <1>1, <1>2, <1>5, <1>7 DEF ServedOnce
  <2> QED
    BY <2>1, <2>2 DEF ServedOnce
<1> QED
  BY <1>15, <1>16

-----------------------------------------------------------------------------
(* The invariant.                                                          *)

\* Everything at once, for the votes given, the logs leaders had in their terms, and the
\* entries taken in theirs.
Whole(given, logs, taken) ==
  /\ BaseInv /\ UsedOK /\ TermsCounted
  /\ VotesInv(given) /\ LogsInv(logs) /\ AcksInv(given, logs, taken)
  /\ AllNumbered(logs, used.writes) /\ ChosenInv(logs, taken) /\ LeaderKnows(taken)
  /\ ReadsInv /\ ServedOnce

IInv == \E given, logs, taken : Whole(given, logs, taken)

LEMMA InitStarts ==
  ASSUME Init
  PROVE  IInv
<1> DEFINE none == [t \in Nat |-> <<>>]
           first == [role |-> "follower", term |-> 0, votedFor |-> None, log |-> <<>>, commit |-> 0,
                     applied |-> <<>>]
<1>1. /\ [Off EXCEPT !.role = "follower"] = first
      /\ first \in State /\ first.role = "follower" /\ first.term = 0 /\ first.log = <<>>
      /\ first.commit = 0 /\ first.applied = <<>> /\ first.votedFor = None
  BY DEF Off, State
<1>2. /\ MetaOf(Off) \in Meta /\ MetaOf(Off) = MetaOf(first)
      /\ MetaOf(Off).term = 0 /\ MetaOf(Off).votedFor = None /\ MetaOf(Off).commit = 0
  BY DEF MetaOf, Off, Meta
<1>3. node = [n \in Node |-> first]
  BY <1>1 DEF Init
<1>4. \A n \in Node : node[n] = first
  BY <1>3
<1> HIDE DEF first
<1>5. Lines(<<>>) = <<>> /\ Entries(<<>>) = <<>> /\ Readable(<<>>)
  <2>1. <<>> \in Seq(Entry)
    OBVIOUS
  <2>2. Lines(<<>>) \in Seq(Line) /\ Len(Lines(<<>>)) = 0 /\ Readable(Lines(<<>>)) /\ Entries(Lines(<<>>)) = <<>>
    BY <2>1, LinesReadBack, EmptySeq
  <2>3. Lines(<<>>) = <<>>
    BY <2>2, EmptySeq
  <2> QED
    BY <2>2, <2>3
<1>6. \A n \in Node : /\ file[n] = <<>> /\ meta[n] = MetaOf(Off) /\ snap[n] = <<>> /\ votes[n] = NoElection
  BY DEF Init
<1>7. NoElection \in [term : Nat, from : SUBSET Node] /\ NoElection.term = 0 /\ NoElection.from = {}
  BY DEF NoElection
<1>8. calls = {} /\ reads = {} /\ net = {} /\ faults = 0 /\ chosen = <<>> /\ acked = {} /\ elected = {}
      /\ budget \in Budgets
  BY DEF Init
<1>9. \A n \in Node : /\ LogOf(n) = <<>> /\ TermOf(n) = 0 /\ VoteOf(n) = None
                      /\ Running(n) /\ ~Leads(n) /\ node[n].role = "follower" /\ meta[n].commit = 0
                      /\ node[n].applied = <<>>
  BY <1>1, <1>2, <1>4, <1>5, <1>6 DEF LogOf, TermOf, VoteOf, Running, Leads
<1>10. BaseInv
  <2>1. /\ node \in [Node -> State] /\ votes \in [Node -> [term : Nat, from : SUBSET Node]]
        /\ meta \in [Node -> Meta] /\ file \in [Node -> Seq(Line)] /\ snap \in [Node -> Seq(Nat)]
    BY <1>1, <1>2, <1>3, <1>7 DEF Init
  <2>2. \A n \in Node : InSync(n)
    BY <1>1, <1>2, <1>4, <1>5, <1>6, <1>9 DEF InSync
  <2> QED
    BY <1>8, <2>1, <2>2 DEF BaseInv
<1>11. UsedOK
  <2>1. budget \in [{"elections", "beats", "writes", "waiting", "crashes", "faults",
                     "reads", "snapshots"} -> Nat]
    BY <1>8, RaftAssumption
  <2>2. budget["elections"] \in Nat /\ budget["writes"] \in Nat
    BY <2>1
  <2>3. used = [elections |-> 0, beats |-> 0, writes |-> 0, crashes |-> 0, reads |-> 0, snapshots |-> 0]
    BY DEF Init
  <2>4. used \in Counts /\ used.elections = 0 /\ used.writes = 0
    BY <2>3 DEF Counts
  <2>5. budget.elections \in Nat /\ budget.writes \in Nat
    BY <2>2
  <2> QED
    BY <2>4, <2>5 DEF UsedOK
<1>12. TermsCounted
  BY <1>6, <1>7, <1>8, <1>9, <1>11 DEF TermsCounted, UsedOK, Counts
<1>13. VotesInv({})
  BY <1>6, <1>7, <1>8, <1>9 DEF VotesInv, GivenOK, CountedOK, RequestsOK, ElectedOK
<1>14. /\ none \in [Nat -> Seq(Entry)] /\ \A t \in Nat : none[t] = <<>> /\ Len(none[t]) = 0
  OBVIOUS
<1> HIDE DEF none
<1>15. LogsInv(none)
  <2>1. \A t \in Nat : Held(none, none[t]) /\ \A i \in 1..Len(none[t]) : none[t][i].term <= t
    BY <1>14 DEF Held
  <2>2. \A n \in Node : /\ Len(LogOf(n)) = 0 /\ Held(none, LogOf(n))
                        /\ \A i \in 1..Len(LogOf(n)) : LogOf(n)[i].term <= TermOf(n)
    BY <1>9 DEF Held
  <2> QED
    BY <1>8, <1>9, <1>14, <2>1, <2>2 DEF LogsInv, LogsOK, NodesFit, MessagesFit, CallsFit
<1>16. AcksInv({}, none, {})
  BY <1>8 DEF AcksInv, TakenOK, ElectedKept, CandidatesKept, AcksOK
<1>17. AllNumbered(none, used.writes)
  BY <1>14 DEF AllNumbered, Numbered, Distinct
<1>18. ChosenInv(none, {})
  <2>1. Len(chosen) = 0 /\ chosen \in Seq(Nat)
    BY <1>8
  <2>2. ChosenIs(none, {}, chosen)
    BY <1>8, <2>1 DEF ChosenIs
  <2>3. \A n \in Node : Reaches(none, {}, chosen, LogOf(n), meta[n].commit, TermOf(n))
    BY <1>9, <2>1 DEF Reaches
  <2>4. Machines
    BY <1>6, <1>9, <2>1 DEF Machines, Begins
  <2> QED
    BY <1>8, <2>2, <2>3, <2>4 DEF ChosenInv
<1>19. LeaderKnows({}) /\ ReadsInv /\ ServedOnce
  BY <1>8 DEF LeaderKnows, ReadsInv, ServedOnce
<1>20. Whole({}, none, {})
  BY <1>10, <1>11, <1>12, <1>13, <1>15, <1>16, <1>17, <1>18, <1>19 DEF Whole
<1> QED
  BY <1>20 DEF IInv

\* What every step of a state in the invariant does.
LEMMA StepCommon ==
  ASSUME DisksWork, NEW given, NEW logs, NEW taken, Whole(given, logs, taken), Next
  PROVE  /\ budget' = budget /\ CallsInRange /\ UsedOK' /\ TermsCounted' /\ NodesGoOn
         /\ Settled(elected, logs, taken) /\ used.writes \in Nat /\ used.reads \in Nat
         /\ LogsOK(logs) /\ Grown(logs, logs) /\ AllNumbered(logs, used'.writes)
         /\ \A n \in Node : Propose(n) => used'.writes = used.writes + 1
<1>1. BaseInv /\ UsedOK /\ TermsCounted /\ VotesInv(given) /\ LogsInv(logs) /\ AcksInv(given, logs, taken)
  BY DEF Whole
<1>2. budget' = budget
  BY DEF Next
<1>3. CallsInRange
  BY <1>1, CallsAreInRange
<1>4. used.writes \in Nat /\ used.reads \in Nat
  BY <1>1 DEF UsedOK, Counts
<1>5. UsedOK' /\ used'.writes >= used.writes /\ \A n \in Node : Propose(n) => used'.writes = used.writes + 1
  BY <1>1, UsedKept
<1>6. TermsCounted'
  BY <1>1, <1>3, TermsKept
<1>7. NodesGoOn
  BY <1>1, <1>3, <1>4, NextGoesOn
<1>8. Settled(elected, logs, taken)
  BY <1>1, SettledHolds
<1>9. LogsOK(logs) /\ Grown(logs, logs)
  BY <1>1, GrownSelf DEF LogsInv
<1>10. AllNumbered(logs, used'.writes)
  <2> DEFINE last == used.writes
             next == used'.writes
  <2>1. last \in Nat /\ next \in Nat /\ last <= next
    BY <1>4, <1>5 DEF UsedOK, Counts
  <2>2. AllNumbered(logs, last)
    BY DEF Whole
  <2> HIDE DEF last, next
  <2>3. AllNumbered(logs, next)
    BY <1>9, <2>1, <2>2, NumberedStays
  <2> QED
    BY <2>3 DEF next
<1> QED
  BY <1>2, <1>3, <1>4, <1>5, <1>6, <1>7, <1>8, <1>9, <1>10

\* The parts of the invariant together.
LEMMA WholeStep ==
  ASSUME DisksWork, NEW given, NEW logs, NEW taken, Whole(given, logs, taken), Next,
         NEW W, NEW L, NEW T, BaseInv', VotesInv(W)', LogsInv(L)', AcksInv(W, L, T)', ChosenInv(L, T)',
         AllNumbered(L, used'.writes), (chosen' = chosen /\ taken \subseteq T) \/ LeaderKnows(T)',
         ReadsInv' /\ ServedOnce'
  PROVE  IInv'
<1>1. UsedOK' /\ TermsCounted' /\ NodesGoOn /\ Settled(elected, logs, taken)
  BY StepCommon
<1>2. LeaderKnows(T)'
  <2>1. CASE chosen' = chosen /\ taken \subseteq T
    <3>1. BaseInv /\ LeaderKnows(taken) /\ chosen \in Seq(Nat)
      BY DEF Whole, ChosenInv, ChosenIs
    <3> QED
      BY <1>1, <2>1, <3>1, KnowsStep
  <2> QED
    BY <2>1
<1>3. AllNumbered(L, used.writes)'
  OBVIOUS
<1>4. Whole(W, L, T)'
  BY <1>1, <1>2, <1>3 DEF Whole
<1> QED
  BY <1>4 DEF IInv

LEMMA StartElectionStep ==
  ASSUME DisksWork, NEW given, NEW logs, NEW taken, Whole(given, logs, taken), Next,
         NEW n \in Node, StartElection(n)
  PROVE  IInv'
<1>1. /\ BaseInv /\ UsedOK /\ TermsCounted /\ VotesInv(given) /\ LogsInv(logs) /\ AcksInv(given, logs, taken)
      /\ ChosenInv(logs, taken) /\ ReadsInv /\ ServedOnce
  BY DEF Whole
<1>2. budget' = budget /\ NodesGoOn /\ AllNumbered(logs, used'.writes)
  BY StepCommon
<1>3. BaseInv'
  BY <1>1, <1>2, StartElectionDoes
<1>4. PICK V : V = given \cup {<<n, n, TermOf(n) + 1>>}
  OBVIOUS
<1>5. VotesInv(V)' /\ AcksInv(V, logs, taken)'
  BY <1>1, <1>2, <1>4, StartElectionVotes, StartElectionAcks
<1>6. LogsInv(logs)' /\ ChosenInv(logs, taken)' /\ ReadsInv' /\ ServedOnce'
  BY <1>1, <1>2, StartElectionLogs, StartElectionChosen, StartElectionReads
<1>7. chosen' = chosen /\ taken \subseteq taken
  BY DEF StartElection, history
<1> QED
  BY <1>2, <1>3, <1>5, <1>6, <1>7, WholeStep

LEMMA HandleRequestVoteStep ==
  ASSUME DisksWork, NEW given, NEW logs, NEW taken, Whole(given, logs, taken), Next,
         NEW m, HandleRequestVote(m)
  PROVE  IInv'
<1>1. /\ BaseInv /\ UsedOK /\ TermsCounted /\ VotesInv(given) /\ LogsInv(logs) /\ AcksInv(given, logs, taken)
      /\ ChosenInv(logs, taken) /\ ReadsInv /\ ServedOnce
  BY DEF Whole
<1>2. budget' = budget /\ NodesGoOn /\ AllNumbered(logs, used'.writes)
  BY StepCommon
<1>3. BaseInv'
  BY <1>1, <1>2, HandleRequestVoteDoes
<1>4. PICK s : /\ Turns(m.to, s) /\ Votes(s, node[m.to], m)
               /\ \A o \in net' : o \in net \/ VoteReply(o, m.to, s, m, node[m.to])
  BY <1>1, <1>2, HandleRequestVoteDoes
<1>5. PICK V : V = IF Grants(s, node[m.to], m) THEN given \cup {<<m.to, m.from, m.term>>} ELSE given
  OBVIOUS
<1>6. VotesInv(V)' /\ AcksInv(V, logs, taken)'
  BY <1>1, <1>2, <1>4, <1>5, HandleRequestVoteVotes, HandleRequestVoteAcks
<1>7. LogsInv(logs)' /\ ChosenInv(logs, taken)' /\ ReadsInv' /\ ServedOnce'
  BY <1>1, <1>2, HandleRequestVoteLogs, HandleRequestVoteChosen, HandleRequestVoteReads
<1>8. chosen' = chosen /\ taken \subseteq taken
  BY DEF HandleRequestVote, history
<1> QED
  BY <1>2, <1>3, <1>6, <1>7, <1>8, WholeStep

LEMMA CountVoteStep ==
  ASSUME DisksWork, NEW given, NEW logs, NEW taken, Whole(given, logs, taken), Next,
         NEW m, CountVote(m)
  PROVE  IInv'
<1>1. /\ BaseInv /\ UsedOK /\ TermsCounted /\ VotesInv(given) /\ LogsInv(logs) /\ AcksInv(given, logs, taken)
      /\ ChosenInv(logs, taken) /\ ReadsInv /\ ServedOnce
  BY DEF Whole
<1>2. budget' = budget /\ NodesGoOn /\ AllNumbered(logs, used'.writes)
  BY StepCommon
<1>3. BaseInv' /\ used' = used /\ chosen' = chosen /\ m.to \in Node
  BY <1>1, <1>2, CountVoteDoes
<1>4. PICK s : Turns(m.to, s) /\ SameData(s, node[m.to]) /\ VoteCounted(m, m.to, s)
  BY <1>1, <1>2, CountVoteDoes
<1>5. PICK L : L = IF elected' = elected THEN logs ELSE [logs EXCEPT ![TermOf(m.to)] = LogOf(m.to)]
  OBVIOUS
<1>6. VotesInv(given)'
  BY <1>1, <1>2, <1>4, CountVoteVotes
<1>7. LogsInv(L)' /\ Grown(logs, L)
  BY <1>1, <1>2, <1>4, <1>5, CountVoteLogs
<1>8. AcksInv(given, L, taken)'
  BY <1>1, <1>2, <1>4, <1>5, CountVoteAcks
<1>9. LogsOK(L)
  BY <1>7 DEF LogsInv
<1>10. ChosenInv(L, taken)' /\ ReadsInv' /\ ServedOnce'
  BY <1>1, <1>2, <1>7, <1>9, CountVoteChosen, CountVoteReads
<1>11. AllNumbered(L, used'.writes)
  <2>1. CASE elected' = elected
    BY <1>2, <1>5, <2>1
  <2>2. CASE elected' # elected
    <3> DEFINE last == used'.writes
    <3>1. L = [logs EXCEPT ![TermOf(m.to)] = LogOf(m.to)]
      BY <1>5, <2>2
    <3>2. last \in Nat /\ AllNumbered(logs, last)
      BY <1>1, <1>2, <1>3 DEF UsedOK, Counts
    <3> HIDE DEF last
    <3>3. AllNumbered(L, last)
      BY <1>1, <1>3, <3>1, <3>2, CountVoteNumbered
    <3> QED
      BY <3>3 DEF last
  <2> QED
    BY <2>1, <2>2
<1>12. chosen' = chosen /\ taken \subseteq taken
  BY <1>3
<1> QED
  BY <1>3, <1>6, <1>7, <1>8, <1>10, <1>11, <1>12, WholeStep

LEMMA HandleAppendEntriesStep ==
  ASSUME DisksWork, NEW given, NEW logs, NEW taken, Whole(given, logs, taken), Next,
         NEW m, HandleAppendEntries(m)
  PROVE  IInv'
<1>1. /\ BaseInv /\ UsedOK /\ TermsCounted /\ VotesInv(given) /\ LogsInv(logs) /\ AcksInv(given, logs, taken)
      /\ ChosenInv(logs, taken) /\ ReadsInv /\ ServedOnce
  BY DEF Whole
<1>2. budget' = budget /\ NodesGoOn /\ AllNumbered(logs, used'.writes) /\ Settled(elected, logs, taken)
  BY StepCommon
<1>3. BaseInv'
  BY <1>1, <1>2, HandleAppendEntriesDoes
<1>4. PICK s : /\ Turns(m.to, s)
               /\ \/ /\ m.term < node[m.to].term /\ s = node[m.to]
                     /\ \A x \in net' : x \in net \/ AppendReply(x, m, s, FALSE)
                  \/ /\ Follows(s, node[m.to], m) /\ SameData(s, node[m.to])
                     /\ \A x \in net' : x \in net \/ AppendReply(x, m, s, FALSE)
                  \/ /\ Accepts(s, node[m.to], m)
                     /\ \A x \in net' : x \in net \/ AppendReply(x, m, s, TRUE)
  <2>1. PICK s : /\ Turns(m.to, s)
                 /\ \/ /\ m.term < node[m.to].term /\ s = node[m.to]
                       /\ \A x \in net' : x \in net \/ AppendReply(x, m, s, FALSE)
                    \/ /\ Follows(s, node[m.to], m) /\ SameData(s, node[m.to])
                       /\ \A x \in net' : x \in net \/ (AppendReply(x, m, s, FALSE) /\ x.conflict <= m.prev)
                    \/ /\ Accepts(s, node[m.to], m)
                       /\ \A x \in net' : x \in net \/ AppendReply(x, m, s, TRUE)
    BY <1>1, <1>2, HandleAppendEntriesDoes
  <2>2. \/ /\ m.term < node[m.to].term /\ s = node[m.to]
           /\ \A x \in net' : x \in net \/ AppendReply(x, m, s, FALSE)
        \/ /\ Follows(s, node[m.to], m) /\ SameData(s, node[m.to])
           /\ \A x \in net' : x \in net \/ AppendReply(x, m, s, FALSE)
        \/ /\ Accepts(s, node[m.to], m)
           /\ \A x \in net' : x \in net \/ AppendReply(x, m, s, TRUE)
    BY <2>1, Zenon
  <2> QED
    BY <2>1, <2>2
<1>5. PICK T : T = IF Accepts(s, node[m.to], m) /\ m.call.k = "write"
                   THEN taken \cup {<<m.to, m.call.index, m.call.term>>} ELSE taken
  OBVIOUS
<1>6. taken \subseteq T
  BY <1>5
<1>7. AcksInv(given, logs, T)'
  BY <1>1, <1>2, <1>4, <1>5, HandleAppendEntriesAcks
<1>8. VotesInv(given)' /\ LogsInv(logs)' /\ ReadsInv' /\ ServedOnce'
  BY <1>1, <1>2, HandleAppendEntriesQuiet, VotesKept, HandleAppendEntriesLogs, HandleAppendEntriesReads
<1>9. ChosenInv(logs, T)'
  BY <1>1, <1>2, <1>6, HandleAppendEntriesChosen
<1>10. chosen' = chosen
  BY DEF HandleAppendEntries, history
<1> QED
  BY <1>2, <1>3, <1>6, <1>7, <1>8, <1>9, <1>10, WholeStep

LEMMA ProposeStep ==
  ASSUME DisksWork, NEW given, NEW logs, NEW taken, Whole(given, logs, taken), Next,
         NEW n \in Node, Propose(n)
  PROVE  IInv'
<1>1. /\ BaseInv /\ UsedOK /\ TermsCounted /\ VotesInv(given) /\ LogsInv(logs) /\ AcksInv(given, logs, taken)
      /\ ChosenInv(logs, taken) /\ ReadsInv /\ ServedOnce /\ AllNumbered(logs, used.writes)
  BY DEF Whole
<1>2. budget' = budget /\ NodesGoOn /\ used.writes \in Nat /\ used'.writes = used.writes + 1
  BY StepCommon
<1>3. BaseInv' /\ chosen' = chosen
  BY <1>1, <1>2, ProposeDoes DEF history
<1>4. PICK L : L = [logs EXCEPT ![TermOf(n)] = Append(LogOf(n), [term |-> TermOf(n), cmd |-> used.writes + 1])]
  OBVIOUS
<1>5. PICK T : T = taken \cup {<<n, Len(LogOf(n)) + 1, TermOf(n)>>}
  OBVIOUS
<1>6. VotesInv(given)'
  BY <1>1, <1>2, ProposeQuiet, VotesKept
<1>7. LogsInv(L)' /\ Grown(logs, L)
  BY <1>1, <1>2, <1>4, ProposeLogs
<1>8. AcksInv(given, L, T)'
  BY <1>1, <1>2, <1>4, <1>5, ProposeAcks
<1>9. LogsOK(L) /\ taken \subseteq T
  BY <1>5, <1>7 DEF LogsInv
<1>10. ChosenInv(L, T)' /\ ReadsInv' /\ ServedOnce'
  BY <1>1, <1>2, <1>7, <1>9, ProposeChosen, ProposeReads
<1>11. AllNumbered(L, used.writes + 1)
  BY <1>1, <1>2, <1>4, ProposeNumbered
<1>12. AllNumbered(L, used'.writes)
  BY <1>2, <1>11
<1> QED
  BY <1>3, <1>6, <1>7, <1>8, <1>9, <1>10, <1>12, WholeStep

LEMMA ReplicatedStep ==
  ASSUME DisksWork, NEW given, NEW logs, NEW taken, Whole(given, logs, taken), Next,
         NEW m, Replicated(m)
  PROVE  IInv' /\ (chosen' = chosen \/ Len(chosen) < Len(chosen'))
<1>1. /\ BaseInv /\ UsedOK /\ TermsCounted /\ VotesInv(given) /\ LogsInv(logs) /\ AcksInv(given, logs, taken)
      /\ ChosenInv(logs, taken) /\ ReadsInv /\ ServedOnce /\ LeaderKnows(taken)
  BY DEF Whole
<1>2. budget' = budget /\ NodesGoOn /\ AllNumbered(logs, used'.writes) /\ CallsInRange
  BY StepCommon
<1>3. BaseInv'
  BY <1>1, <1>2, ReplicatedDoes
<1>4. VotesInv(given)' /\ LogsInv(logs)' /\ AcksInv(given, logs, taken)'
  BY <1>1, <1>2, ReplicatedQuiet, VotesKept, ReplicatedLogs, ReplicatedAcks
<1>5. ChosenInv(logs, taken)' /\ (chosen' = chosen \/ Len(chosen) < Len(chosen'))
  BY <1>1, <1>2, ReplicatedChosen
<1>6. LeaderKnows(taken)'
  BY <1>1, <1>2, ReplicatedKnows
<1>7. ReadsInv' /\ ServedOnce'
  BY <1>1, <1>2, ReplicatedReads
<1> QED
  BY <1>2, <1>3, <1>4, <1>5, <1>6, <1>7, WholeStep

LEMMA RestartStep ==
  ASSUME DisksWork, NEW given, NEW logs, NEW taken, Whole(given, logs, taken), Next,
         NEW n \in Node, Restart(n) \/ Crash(n)
  PROVE  IInv'
<1>1. /\ BaseInv /\ UsedOK /\ TermsCounted /\ VotesInv(given) /\ LogsInv(logs) /\ AcksInv(given, logs, taken)
      /\ ChosenInv(logs, taken) /\ ReadsInv /\ ServedOnce
  BY DEF Whole
<1>2. budget' = budget /\ NodesGoOn /\ AllNumbered(logs, used'.writes) /\ Settled(elected, logs, taken)
      /\ used.reads \in Nat
  BY StepCommon
<1>3. BaseInv'
  BY <1>1, <1>2, RestartDoes, CrashDoes
<1>4. VotesQuiet
  BY <1>1, <1>2, RestartQuiet, CrashQuiet
<1>5. VotesInv(given)'
  BY <1>1, <1>4, VotesKept
<1>6. LogsInv(logs)'
  BY <1>1, <1>2, RestartLogs, CrashLogs
<1>7. AcksInv(given, logs, taken)'
  BY <1>1, <1>2, RestAcks
<1>8. ChosenInv(logs, taken)'
  BY <1>1, <1>2, RestartChosen, CrashChosen
<1>9. ReadsInv' /\ ServedOnce'
  BY <1>1, <1>2, RestartReads, CrashReads
<1>10. chosen' = chosen /\ taken \subseteq taken
  BY DEF Restart, Crash, history
<1> QED
  BY <1>2, <1>3, <1>5, <1>6, <1>7, <1>8, <1>9, <1>10, WholeStep

LEMMA RestStep ==
  ASSUME DisksWork, NEW given, NEW logs, NEW taken, Whole(given, logs, taken), Next,
         \/ \E c \in calls : \E p \in c.todo : Replicate(c, p)
         \/ \E n \in Node : Heartbeat(n) \/ StartRead(n) \/ Snapshot(n)
         \/ \E m \in net : ReadConfirmed(m)
  PROVE  IInv'
<1>1. /\ BaseInv /\ UsedOK /\ TermsCounted /\ VotesInv(given) /\ LogsInv(logs) /\ AcksInv(given, logs, taken)
      /\ ChosenInv(logs, taken) /\ ReadsInv /\ ServedOnce /\ LeaderKnows(taken)
  BY DEF Whole
<1>2. budget' = budget /\ NodesGoOn /\ AllNumbered(logs, used'.writes) /\ used.reads \in Nat
  BY StepCommon
<1>3. BaseInv'
  BY <1>1, <1>2, ReplicateDoes, HeartbeatDoes, StartReadDoes, SnapshotDoes, ReadConfirmedDoes
<1>4. VotesQuiet
  BY <1>1, <1>2, RestQuiet
<1>5. VotesInv(given)'
  BY <1>1, <1>4, VotesKept
<1>6. LogsInv(logs)'
  BY <1>1, <1>2, RestLogs
<1>7. AcksInv(given, logs, taken)'
  BY <1>1, <1>2, RestAcks
<1>8. ChosenInv(logs, taken)'
  BY <1>1, <1>2, RestChosen
<1>9. ReadsInv' /\ ServedOnce'
  BY <1>1, <1>2, ReplicateReads, HeartbeatReads, StartReadReads, ReadConfirmedReads
<1>10. chosen' = chosen /\ taken \subseteq taken
  BY DEF Replicate, Heartbeat, StartRead, Snapshot, ReadConfirmed, history
<1> QED
  BY <1>2, <1>3, <1>5, <1>6, <1>7, <1>8, <1>9, <1>10, WholeStep

LEMMA StutterStep ==
  ASSUME NEW given, NEW logs, NEW taken, Whole(given, logs, taken), UNCHANGED vars
  PROVE  IInv'
<1>1. /\ BaseInv /\ UsedOK /\ TermsCounted /\ VotesInv(given) /\ LogsInv(logs) /\ AcksInv(given, logs, taken)
      /\ ChosenInv(logs, taken) /\ ReadsInv /\ ServedOnce /\ LeaderKnows(taken) /\ AllNumbered(logs, used.writes)
  BY DEF Whole
<1>2. UNCHANGED <<node, votes, calls, reads, net, file, meta, snap, faults, chosen, acked, elected, budget, used>>
  BY DEF vars, volatile, durable, history
<1>3. StaysPut
  BY <1>2 DEF StaysPut
<1>4. BaseInv'
  <2>1. /\ node' \in [Node -> State] /\ votes' \in [Node -> [term : Nat, from : SUBSET Node]]
        /\ meta' \in [Node -> Meta] /\ file' \in [Node -> Seq(Line)] /\ snap' \in [Node -> Seq(Nat)]
        /\ calls' \subseteq Call /\ reads' \subseteq Read /\ acked' \subseteq Nat
        /\ faults' = 0 /\ budget' \in Budgets
    BY <1>1, <1>2 DEF BaseInv
  <2>2. \A m \in net' : MessageOK(m) /\ (m.type = "voted" => Running(m.to)')
    BY <1>1, <1>2 DEF BaseInv, Running
  <2>3. \A n \in Node : InSync(n)'
    BY <1>1, <1>2 DEF BaseInv, InSync, Running
  <2>4. \A c \in calls' : Running(c.node)' /\ c.todo \subseteq Peers(c.node)
    BY <1>1, <1>2 DEF BaseInv, Running
  <2> QED
    BY <2>1, <2>2, <2>3, <2>4 DEF BaseInv
<1>5. UsedOK' /\ TermsCounted'
  BY <1>1, <1>2 DEF UsedOK, TermsCounted, TermOf
<1>6. VotesQuiet /\ NodesGoOn
  BY <1>1, <1>2, <1>3, StaysPutQuiet, StaysPutGoesOn
<1>7. VotesInv(given)'
  BY <1>1, <1>6, VotesKept
<1>8. LogsInv(logs)'
  <2>1. LogsQuiet(logs)
    BY <1>1, <1>2, <1>3, StaysPutLogsQuiet
  <2> QED
    BY <1>1, <2>1, LogsKept
<1>9. AcksInv(given, logs, taken)'
  <2>1. TermsGrow /\ OfficesKept
    BY <1>6 DEF VotesQuiet
  <2>2. \A n \in Node : LogOf(n)' = LogOf(n)
    BY <1>2 DEF LogOf
  <2>3. /\ \A c \in calls' : \A n \in c.acks : <<n, c.id.index, c.id.term>> \in taken
        /\ \A m \in net' : m.type = "appended" /\ m.call.k = "write" /\ m.success =>
             m \in net \/ <<m.from, m.call.index, m.call.term>> \in taken
    BY <1>1, <1>2 DEF AcksInv, AcksOK
  <2> QED
    BY <1>1, <1>2, <1>7, <2>1, <2>2, <2>3, AcksKept
<1>10. ChosenInv(logs, taken)'
  BY <1>1, <1>2, <1>3, <1>4, StaysPutChosen
<1>11. LeaderKnows(taken)'
  <2>1. Settled(elected, logs, taken) /\ chosen \in Seq(Nat) /\ taken \subseteq taken
    BY <1>1, SettledHolds DEF ChosenInv, ChosenIs
  <2> QED
    BY <1>1, <1>2, <1>4, <1>6, <2>1, KnowsStep
<1>12. ReadsInv' /\ ServedOnce'
  <2>1. used.reads \in Nat /\ used'.reads = used.reads
    BY <1>1, <1>2 DEF UsedOK, Counts
  <2> QED
    BY <1>1, <1>2, <1>3, <1>4, <1>6, <2>1, TurnsReads
<1>13. AllNumbered(logs, used.writes)'
  BY <1>1, <1>2
<1>14. Whole(given, logs, taken)'
  BY <1>4, <1>5, <1>7, <1>8, <1>9, <1>10, <1>11, <1>12, <1>13 DEF Whole
<1> QED
  BY <1>14 DEF IInv

LEMMA StepKeeps ==
  ASSUME DisksWork, IInv, [Next]_vars
  PROVE  IInv' /\ (chosen' = chosen \/ Len(chosen) < Len(chosen'))
<1>1. PICK given, logs, taken : Whole(given, logs, taken)
  BY DEF IInv
<1>2. CASE UNCHANGED vars
  BY <1>1, <1>2, StutterStep DEF vars, history
<1>3. CASE Next
  <2>1. ASSUME NEW m \in net, Replicated(m)
        PROVE  IInv' /\ (chosen' = chosen \/ Len(chosen) < Len(chosen'))
    BY <1>1, <1>3, <2>1, ReplicatedStep
  <2>2. ASSUME \A m \in net : ~ Replicated(m)
        PROVE  chosen' = chosen
    BY <1>3, <2>2, OthersChooseNothing
  <2>3. ASSUME NEW n \in Node, StartElection(n) \/ Propose(n) \/ Crash(n) \/ Restart(n)
        PROVE  IInv'
    BY <1>1, <1>3, <2>3, StartElectionStep, ProposeStep, RestartStep
  <2>4. ASSUME NEW m \in net, HandleRequestVote(m) \/ CountVote(m) \/ HandleAppendEntries(m)
        PROVE  IInv'
    BY <1>1, <1>3, <2>4, HandleRequestVoteStep, CountVoteStep, HandleAppendEntriesStep
  <2>5. ASSUME \/ \E c \in calls : \E p \in c.todo : Replicate(c, p)
               \/ \E n \in Node : Heartbeat(n) \/ StartRead(n) \/ Snapshot(n)
               \/ \E m \in net : ReadConfirmed(m)
        PROVE  IInv'
    BY <1>1, <1>3, <2>5, RestStep
  <2> QED
    BY <1>3, <2>1, <2>2, <2>3, <2>4, <2>5 DEF Next, Step
<1> QED
  BY <1>2, <1>3

\* In every state the disks, the network and what was promised fit together, as long as no
\* write to a disk fails: the invariant of elections, replication, commits and reads holds.
THEOREM Invariant ==
  ASSUME DisksWork
  PROVE  Spec => []IInv
<1>1. Init => IInv
  BY InitStarts
<1>2. IInv /\ [Next]_vars => IInv'
  BY StepKeeps
<1> QED
  BY <1>1, <1>2, PTL DEF Spec

-----------------------------------------------------------------------------
(* What the invariant says of the runs' properties.                        *)

LEMMA ElectionSafetyFollows ==
  ASSUME IInv
  PROVE  ElectionSafety
<1>1. PICK given, logs, taken : Whole(given, logs, taken)
  BY DEF IInv
<1>2. VotesInv(given)
  BY <1>1 DEF Whole
<1> SUFFICES ASSUME NEW e \in elected, NEW f \in elected, e[1] = f[1]
             PROVE  e[2] = f[2]
  BY DEF ElectionSafety
<1>3. e \in Nat \X Node /\ f \in Nat \X Node
  BY <1>2 DEF VotesInv, ElectedOK
<1>4. /\ e = <<e[1], e[2]>> /\ f = <<e[1], f[2]>>
      /\ e[1] \in Nat /\ e[2] \in Node /\ f[2] \in Node
  BY <1>3
<1>5. <<e[1], e[2]>> \in elected /\ <<e[1], f[2]>> \in elected
  BY <1>4
<1> QED
  BY <1>2, <1>4, <1>5, OneLeaderPerTerm

\* A file by its log.
LEMMA FileIs ==
  ASSUME BaseInv, NEW n \in Node
  PROVE  /\ LogOf(n) \in Seq(Entry) /\ Len(LogOf(n)) = Len(file[n]) /\ Len(file[n]) \in Nat
         /\ file[n] \in Seq(Line) /\ DOMAIN file[n] = 1..Len(file[n])
         /\ \A i \in 1..Len(file[n]) :
              file[n][i] = [index |-> i, term |-> LogOf(n)[i].term, cmd |-> LogOf(n)[i].cmd]
<1>1. file[n] \in Seq(Line) /\ Readable(file[n])
  BY DEF BaseInv, InSync
<1>2. LogOf(n) \in Seq(Entry) /\ Len(LogOf(n)) = Len(file[n])
  BY LogsOnDisk
<1>3. Lines(LogOf(n)) = file[n]
  BY <1>1, ReadableReadsBack DEF LogOf
<1>4. DOMAIN LogOf(n) = 1..Len(file[n]) /\ DOMAIN file[n] = 1..Len(file[n]) /\ Len(file[n]) \in Nat
  BY <1>1, <1>2, LenProperties
<1> DEFINE log == LogOf(n)
<1> HIDE DEF log
<1>5. Lines(log) = [i \in DOMAIN log |-> [index |-> i, term |-> log[i].term, cmd |-> log[i].cmd]]
  BY DEF Lines
<1>6. \A i \in DOMAIN log : Lines(log)[i] = [index |-> i, term |-> log[i].term, cmd |-> log[i].cmd]
  BY <1>5
<1> QED
  BY <1>1, <1>2, <1>3, <1>4, <1>6 DEF log

LEMMA LogMatchingFollows ==
  ASSUME BaseInv, NEW logs, LogsInv(logs)
  PROVE  LogMatching
<1> SUFFICES ASSUME NEW n \in Node, NEW p \in Node, NEW i \in DOMAIN file[n] \cap DOMAIN file[p],
                    file[n][i].term = file[p][i].term
             PROVE  SubSeq(file[n], 1, i) = SubSeq(file[p], 1, i)
  BY DEF LogMatching
<1> DEFINE a == file[n]
           b == file[p]
           log == LogOf(n)
           other == LogOf(p)
<1>1. /\ log \in Seq(Entry) /\ Len(log) = Len(a) /\ Len(a) \in Nat /\ a \in Seq(Line) /\ DOMAIN a = 1..Len(a)
      /\ \A j \in 1..Len(a) : a[j] = [index |-> j, term |-> log[j].term, cmd |-> log[j].cmd]
  BY FileIs
<1>2. /\ other \in Seq(Entry) /\ Len(other) = Len(b) /\ Len(b) \in Nat /\ b \in Seq(Line) /\ DOMAIN b = 1..Len(b)
      /\ \A j \in 1..Len(b) : b[j] = [index |-> j, term |-> other[j].term, cmd |-> other[j].cmd]
  BY FileIs
<1>3. LogsOK(logs) /\ Held(logs, log) /\ Held(logs, other)
  BY DEF LogsInv, NodesFit
<1>4. a[i].term = b[i].term /\ i \in 1..Len(a) /\ i \in 1..Len(b)
  BY <1>1, <1>2
<1> HIDE DEF a, b, log, other
<1>5. log[i].term = other[i].term /\ log[i].term \in Nat /\ i \in Nat
  <2>1. a[i].term = log[i].term
    <3>1. a[i] = [index |-> i, term |-> log[i].term, cmd |-> log[i].cmd]
      BY <1>1, <1>4
    <3> QED
      BY <3>1
  <2>2. b[i].term = other[i].term
    <3>1. b[i] = [index |-> i, term |-> other[i].term, cmd |-> other[i].cmd]
      BY <1>2, <1>4
    <3> QED
      BY <3>1
  <2>3. i \in 1..Len(log) /\ i \in Nat
    BY <1>1, <1>4
  <2>4. log[i].term \in Nat
    BY <1>1, <2>3, EntryIs
  <2> QED
    BY <1>4, <2>1, <2>2, <2>3, <2>4
<1>6. Has(log, i, log[i].term) /\ Has(other, i, log[i].term)
  BY <1>1, <1>2, <1>4, <1>5 DEF Has
<1>7. Agree(log, other, i)
  BY <1>1, <1>2, <1>3, <1>5, <1>6, HeldAgree
<1>8. \A j \in 1..i : a[j] = b[j]
  <2> SUFFICES ASSUME NEW j \in 1..i PROVE a[j] = b[j]
    OBVIOUS
  <2>1. log[j] = other[j]
    BY <1>7 DEF Agree
  <2>2. j \in 1..Len(a) /\ j \in 1..Len(b)
    BY <1>1, <1>2, <1>4
  <2>3. a[j] = [index |-> j, term |-> log[j].term, cmd |-> log[j].cmd]
    BY <1>1, <2>2
  <2>4. b[j] = [index |-> j, term |-> other[j].term, cmd |-> other[j].cmd]
    BY <1>2, <2>2
  <2> QED
    BY <2>1, <2>3, <2>4
<1>9. SubSeq(a, 1, i) = SubSeq(b, 1, i)
  <2>1. SubSeq(a, 1, i) = [j \in 1..i |-> a[j]] /\ SubSeq(b, 1, i) = [j \in 1..i |-> b[j]]
    BY <1>1, <1>2, <1>4
  <2> QED
    BY <1>8, <2>1
<1> QED
  BY <1>9 DEF a, b

LEMMA CommandsAre ==
  ASSUME NEW log \in Seq(Entry)
  PROVE  /\ Commands(log) \in Seq(Nat) /\ Len(Commands(log)) = Len(log)
         /\ \A i \in 1..Len(log) : Commands(log)[i] = log[i].cmd
<1>1. Commands(log) = [i \in 1..Len(log) |-> log[i].cmd] /\ Len(log) \in Nat
  BY LenProperties DEF Commands
<1>2. \A i \in 1..Len(log) : log[i].cmd \in Nat
  BY EntryIs
<1> QED
  BY <1>1, <1>2

LEMMA LeaderCompleteFollows ==
  ASSUME NEW given, NEW logs, NEW taken, Whole(given, logs, taken)
  PROVE  LeaderComplete
<1>1. BaseInv /\ VotesInv(given) /\ LogsInv(logs) /\ AcksInv(given, logs, taken) /\ ChosenInv(logs, taken)
  BY DEF Whole
<1> SUFFICES ASSUME NEW n \in Node, Leads(n), \A e \in elected : e[1] <= node[n].term
             PROVE  IsPrefix(chosen, Commands(node[n].log))
  BY DEF LeaderComplete, Leads
<1> DEFINE log == node[n].log
           k == Len(chosen)
           u == node[n].term
<1>2. Running(n)
  BY DEF Leads, Running
<1>3. log \in Seq(Entry) /\ logs[u] = log /\ u \in Nat /\ <<u, n>> \in elected
  BY <1>1, <1>2, RunningInSync DEF State, LogsInv, NodesFit, VotesInv, ElectedOK
<1>4. chosen \in Seq(Nat) /\ k \in Nat /\ Len(log) \in Nat
  BY <1>1, <1>3, LenProperties DEF ChosenInv, ChosenIs
<1>5. Commands(log) \in Seq(Nat) /\ Len(Commands(log)) = Len(log) /\ \A i \in 1..Len(log) : Commands(log)[i] = log[i].cmd
  BY <1>3, CommandsAre
<1>6. Settled(elected, logs, taken) /\ LogsOK(logs)
  BY <1>1, SettledHolds DEF LogsInv
<1>7. Begins(chosen, Commands(log))
  <2>1. CASE chosen = <<>>
    BY <1>4, <1>5, <2>1 DEF Begins
  <2>2. CASE chosen # <<>>
    <3>1. PICK t \in Nat : Committed(taken, k, t) /\ Spells(chosen, logs[t], k)
      BY <1>1, <2>2 DEF ChosenInv, ChosenIs
    <3>2. PICK p \in Node : <<t, p>> \in elected
      BY <1>4, <1>6, <3>1 DEF Settled
    <3>3. t <= u
      BY <3>2
    <3> HIDE DEF log, k, u
    <3>4. Agree(log, logs[t], k)
      BY <1>3, <1>4, <1>6, <3>1, <3>3, CommittedAgree
    <3>5. k <= Len(log) /\ \A j \in 1..k : chosen[j] = log[j].cmd
      BY <3>1, <3>4 DEF Agree, Spells
    <3>6. \A j \in 1..k : chosen[j] = Commands(log)[j]
      BY <1>4, <1>5, <3>5
    <3> QED
      BY <1>5, <3>5, <3>6 DEF Begins, k
  <2> QED
    BY <2>1, <2>2
<1> QED
  BY <1>4, <1>5, <1>7, PrefixIs

LEMMA LogsAgreeFollows ==
  ASSUME IInv
  PROVE  LogsAgree
<1>1. PICK given, logs, taken : Whole(given, logs, taken)
  BY DEF IInv
<1>2. BaseInv /\ LogsInv(logs) /\ ChosenInv(logs, taken)
  BY <1>1 DEF Whole
<1>3. LogMatching
  BY <1>2, LogMatchingFollows
<1>4. LeaderComplete
  BY <1>1, LeaderCompleteFollows
<1>5. MachinesAgree
  <2> SUFFICES ASSUME NEW n \in Node
               PROVE  IsPrefix(node[n].applied, chosen) /\ IsPrefix(snap[n], chosen)
    BY DEF MachinesAgree
  <2>1. Begins(node[n].applied, chosen) /\ Begins(snap[n], chosen)
    BY <1>2 DEF ChosenInv, Machines
  <2>2. node[n].applied \in Seq(Nat) /\ snap[n] \in Seq(Nat) /\ chosen \in Seq(Nat)
    BY <1>2 DEF BaseInv, State, ChosenInv, ChosenIs
  <2> QED
    BY <2>1, <2>2, PrefixIs
<1> QED
  BY <1>3, <1>4, <1>5 DEF LogsAgree

LEMMA ReadsFollow ==
  ASSUME IInv
  PROVE  ReadsInOfficeSeeFinishedWrites
<1>1. PICK given, logs, taken : Whole(given, logs, taken)
  BY DEF IInv
<1>2. BaseInv /\ ReadsInv
  BY <1>1 DEF Whole
<1> SUFFICES ASSUME NEW r \in reads, r.served, r.own
             PROVE  SawFinished(r)
  BY DEF ReadsInOfficeSeeFinishedWrites
<1>3. r.must \subseteq Listed(r.got) /\ r.got \in Seq(Nat)
  BY <1>2 DEF ReadsInv, ReadOK, BaseInv, Read
<1>4. DOMAIN r.got = 1..Len(r.got)
  BY <1>3
<1> QED
  BY <1>3, <1>4 DEF SawFinished, Listed

\* A sequence by what it is made of.
LEMMA SeqOfSmaller ==
  ASSUME NEW S, NEW R, NEW seq \in Seq(S), \A i \in 1..Len(seq) : seq[i] \in R
  PROVE  seq \in Seq(R)
<1>1. seq = [i \in 1..Len(seq) |-> seq[i]] /\ Len(seq) \in Nat
  BY LenProperties
<1> QED
  BY <1>1

LEMMA TypesFollow ==
  ASSUME NEW given, NEW logs, NEW taken, Whole(given, logs, taken)
  PROVE  TypeOK
<1>1. /\ BaseInv /\ LogsInv(logs) /\ ChosenInv(logs, taken) /\ AllNumbered(logs, used.writes)
      /\ UsedOK /\ TermsCounted
  BY DEF Whole
<1> DEFINE terms == used.elections
           writes == used.writes
           maxTerms == budget.elections
           maxWrites == budget.writes
<1>2. /\ terms \in Nat /\ maxTerms \in Nat /\ terms <= maxTerms
      /\ writes \in Nat /\ maxWrites \in Nat /\ writes <= maxWrites
  BY <1>1 DEF UsedOK, Counts
<1>3. AllNumbered(logs, writes) /\ Term = 0..maxTerms /\ Log = Seq([term : Term, cmd : 1..maxWrites])
  BY <1>1 DEF Term, Log
<1>4. \A n \in Node : TermOf(n) <= terms /\ votes[n].term <= terms
  BY <1>1 DEF TermsCounted
<1> HIDE DEF terms, writes, maxTerms, maxWrites
<1>5. ASSUME NEW n \in Node
      PROVE  TermOf(n) \in Term /\ votes[n].term \in Term
  <2>1. TermOf(n) \in Nat /\ votes[n].term \in Nat
    BY <1>1, LogsOnDisk DEF BaseInv
  <2>2. TermOf(n) <= terms /\ votes[n].term <= terms
    BY <1>4
  <2> QED
    BY <1>2, <1>3, <2>1, <2>2
<1>6. ASSUME NEW n \in Node
      PROVE  LogOf(n) \in Log /\ meta[n].commit <= Len(LogOf(n))
  <2> DEFINE log == LogOf(n)
  <2>1. log \in Seq(Entry) /\ Held(logs, log) /\ TermOf(n) \in Nat
        /\ \A i \in 1..Len(log) : log[i].term <= TermOf(n)
    BY <1>1, LogsOnDisk DEF LogsInv, NodesFit
  <2>2. meta[n].commit <= Len(log)
    BY <1>1 DEF ChosenInv, Reaches
  <2> HIDE DEF log
  <2>3. Numbered(log, writes)
    BY <1>1, <1>2, <1>3, <2>1, HeldNumbered DEF LogsInv
  <2>4. ASSUME NEW i \in 1..Len(log)
        PROVE  log[i] \in [term : Term, cmd : 1..maxWrites]
    <3>1. log[i] \in Entry /\ log[i].term \in Nat /\ log[i].cmd \in Nat
      BY <2>1, EntryIs
    <3>2. log[i].term \in Term
      <4>1. log[i].term <= TermOf(n) /\ TermOf(n) \in Term
        BY <1>5, <2>1
      <4> QED
        BY <1>2, <1>3, <3>1, <4>1
    <3>3. log[i].cmd \in 1..maxWrites
      <4>1. log[i].cmd \in 1..writes
        BY <2>3 DEF Numbered
      <4> QED
        BY <1>2, <4>1
    <3> QED
      BY <3>1, <3>2, <3>3 DEF Entry
  <2>5. log \in Seq([term : Term, cmd : 1..maxWrites])
    BY <2>1, <2>4, SeqOfSmaller
  <2> QED
    BY <1>3, <2>2, <2>5 DEF log
<1>7. ASSUME NEW n \in Node
      PROVE  node[n].applied \in Seq(1..maxWrites)
  <2> DEFINE a == node[n].applied
  <2>1. a \in Seq(Nat) /\ Begins(a, chosen) /\ ChosenIs(logs, taken, chosen) /\ chosen \in Seq(Nat)
    BY <1>1 DEF BaseInv, State, ChosenInv, Machines, ChosenIs
  <2> HIDE DEF a
  <2>2. \A i \in 1..Len(chosen) : chosen[i] \in 1..writes
    BY <1>1, <1>2, <1>3, <2>1, ChosenDistinct DEF LogsInv
  <2>3. a = [i \in 1..Len(a) |-> a[i]] /\ Len(a) \in Nat /\ Len(chosen) \in Nat
    BY <2>1, LenProperties
  <2>4. \A i \in 1..Len(a) : a[i] = chosen[i] /\ i \in 1..Len(chosen)
    BY <2>1, <2>3 DEF Begins
  <2>5. \A i \in 1..Len(a) : a[i] \in 1..maxWrites
    <3> SUFFICES ASSUME NEW i \in 1..Len(a) PROVE a[i] \in 1..maxWrites
      OBVIOUS
    <3>1. a[i] \in 1..writes
      BY <2>2, <2>4
    <3> QED
      BY <1>2, <3>1
  <2>6. a \in Seq(1..maxWrites)
    BY <2>1, <2>5, SeqOfSmaller
  <2> QED
    BY <2>6 DEF a
<1>8. ASSUME NEW n \in Node
      PROVE  LET s == node[n]
             IN  /\ s.role \in {"down", "follower", "candidate", "leader"}
                 /\ s.term \in Term /\ s.votedFor \in Node \cup {None}
                 /\ s.log \in Log /\ s.commit \in 0..Len(s.log)
                 /\ s.applied \in Seq(1..maxWrites)
                 /\ votes[n].term \in Term /\ votes[n].from \subseteq Node
                 /\ meta[n].term \in Term /\ meta[n].commit \in Nat
  <2>1. node[n] \in State /\ votes[n].from \subseteq Node /\ meta[n].commit \in Nat
    BY <1>1 DEF BaseInv, Meta
  <2>2. /\ node[n].role \in {"down", "follower", "candidate", "leader"}
        /\ node[n].votedFor \in Node \cup {None} /\ node[n].log \in Seq(Entry) /\ node[n].commit \in Nat
    BY <2>1 DEF State
  <2>3. meta[n].term \in Term /\ votes[n].term \in Term
    BY <1>5 DEF TermOf
  <2>4. CASE Running(n)
    <3>1. TermOf(n) = node[n].term /\ LogOf(n) = node[n].log /\ meta[n].commit = node[n].commit
      BY <1>1, <2>4, RunningInSync
    <3>2. node[n].term \in Term /\ node[n].log \in Log /\ node[n].commit <= Len(node[n].log)
      BY <1>5, <1>6, <3>1
    <3>3. Len(node[n].log) \in Nat
      BY <2>2, LenProperties
    <3>4. node[n].commit \in 0..Len(node[n].log)
      BY <2>2, <3>2, <3>3
    <3> QED
      BY <1>7, <2>1, <2>2, <2>3, <3>2, <3>4
  <2>5. CASE ~Running(n)
    <3>1. node[n] = Off
      BY <1>1, <2>5 DEF BaseInv, InSync
    <3>2. node[n].term = 0 /\ node[n].log = <<>> /\ node[n].commit = 0
      BY <3>1 DEF Off
    <3>3. node[n].term \in Term /\ node[n].log \in Log /\ node[n].commit \in 0..Len(node[n].log)
      BY <1>2, <1>3, <3>2
    <3> QED
      BY <1>7, <2>1, <2>2, <2>3, <3>3
  <2> QED
    BY <2>4, <2>5
<1>9. ASSUME NEW c \in calls
      PROVE  c.todo \subseteq Peers(c.node) /\ Cardinality(c.acks) <= Cardinality(Node)
  <2>1. c.acks \subseteq Node /\ c.todo \subseteq Peers(c.node)
    BY <1>1 DEF BaseInv, Call
  <2> QED
    BY <2>1, RaftAssumption, FS_Subset
<1>10. \A m \in net : m.from # m.to
  BY <1>1 DEF BaseInv, MessageOK
<1> QED
  BY <1>8, <1>9, <1>10 DEF TypeOK, maxWrites

LEMMA CanRestartFollows ==
  ASSUME BaseInv, NEW logs, NEW taken, ChosenInv(logs, taken)
  PROVE  CanRestart
<1> SUFFICES ASSUME NEW n \in Node
             PROVE  CanLoad(n)
  BY DEF CanRestart
<1>1. Readable(file[n])
  BY DEF BaseInv, InSync
<1>2. meta[n].commit <= Len(LogOf(n)) /\ Len(LogOf(n)) = Len(file[n])
  BY LogsOnDisk DEF ChosenInv, Reaches
<1> QED
  BY <1>1, <1>2 DEF CanLoad

LEMMA HeldByMajorityFollows ==
  ASSUME IInv
  PROVE  HeldByMajority
<1>1. PICK given, logs, taken : Whole(given, logs, taken)
  BY DEF IInv
<1>2. BaseInv /\ LogsInv(logs) /\ AcksInv(given, logs, taken) /\ ChosenInv(logs, taken)
  BY <1>1 DEF Whole
<1>3. TypeOK /\ CanRestart
  BY <1>1, <1>2, TypesFollow, CanRestartFollows
<1>4. ASSUME NEW i \in DOMAIN chosen
      PROVE  Majority({n \in Node : i <= Len(file[n]) /\ file[n][i].cmd = chosen[i]})
  <2> DEFINE k == Len(chosen)
             R == {n \in Node : i <= Len(file[n]) /\ file[n][i].cmd = chosen[i]}
  <2>1. chosen \in Seq(Nat) /\ k \in Nat /\ i \in 1..k /\ chosen # <<>>
    BY <1>2, <1>4, LenProperties DEF ChosenInv, ChosenIs
  <2>2. PICK t \in Nat : Committed(taken, k, t) /\ Spells(chosen, logs[t], k)
    BY <1>2, <2>1 DEF ChosenInv, ChosenIs
  <2> DEFINE Q == {n \in Node : <<n, k, t>> \in taken}
  <2> HIDE DEF k
  <2>3. Majority(Q)
    BY <2>2 DEF Committed
  <2>4. ASSUME NEW n \in Q
        PROVE  i <= Len(file[n]) /\ file[n][i].cmd = chosen[i]
    <3>1. /\ LogOf(n) \in Seq(Entry) /\ Len(LogOf(n)) = Len(file[n]) /\ Len(file[n]) \in Nat
          /\ \A j \in 1..Len(file[n]) :
               file[n][j] = [index |-> j, term |-> LogOf(n)[j].term, cmd |-> LogOf(n)[j].cmd]
      BY <1>2, <2>4, FileIs
    <3>2. Has(LogOf(n), k, t)
      BY <1>2, <2>1, <2>2, <2>4, CommittedTaken DEF AcksInv
    <3>3. LogsOK(logs) /\ Held(logs, LogOf(n))
      BY <1>2, <2>4 DEF LogsInv, NodesFit
    <3>4. Agree(LogOf(n), logs[t], k)
      BY <2>1, <3>1, <3>2, <3>3, HeldIs
    <3>5. k <= Len(file[n]) /\ LogOf(n)[i] = logs[t][i]
      BY <2>1, <3>1, <3>4 DEF Agree
    <3>6. i \in 1..Len(file[n]) /\ i <= Len(file[n])
      BY <2>1, <3>1, <3>5
    <3>7. file[n][i].cmd = LogOf(n)[i].cmd
      <4>1. file[n][i] = [index |-> i, term |-> LogOf(n)[i].term, cmd |-> LogOf(n)[i].cmd]
        BY <3>1, <3>6
      <4> QED
        BY <4>1
    <3>8. chosen[i] = logs[t][i].cmd
      BY <2>1, <2>2 DEF Spells
    <3> QED
      BY <3>5, <3>6, <3>7, <3>8
  <2>5. Q \in SUBSET R /\ R \in SUBSET Node
    BY <2>4
  <2> QED
    BY <2>3, <2>5, MajorityGrows
<1> QED
  BY <1>3, <1>4 DEF HeldByMajority

LEMMA ChosenAlike ==
  ASSUME NEW wins, NEW logs, LogsOK(logs), NEW taken, Settled(wins, logs, taken),
         NEW order, ChosenIs(logs, taken, order), NEW later, ChosenIs(logs, taken, later),
         Len(order) <= Len(later)
  PROVE  Begins(order, later)
<1>1. order \in Seq(Nat) /\ later \in Seq(Nat) /\ Len(order) \in Nat /\ Len(later) \in Nat
  BY LenProperties DEF ChosenIs
<1>2. CASE order = <<>>
  BY <1>1, <1>2 DEF Begins
<1>3. CASE order # <<>>
  <2> DEFINE i == Len(order)
             k == Len(later)
  <2>1. i # 0 /\ k # 0 /\ later # <<>>
    BY <1>1, <1>3, EmptySeq
  <2>2. PICK t \in Nat : Committed(taken, i, t) /\ Spells(order, logs[t], i)
    BY <1>3 DEF ChosenIs
  <2>3. PICK u \in Nat : Committed(taken, k, u) /\ Spells(later, logs[u], k)
    BY <2>1 DEF ChosenIs
  <2>4. i \in Nat /\ k \in Nat /\ i <= k
    BY <1>1
  <2> HIDE DEF i, k
  <2>5. \A j \in 1..i : j <= k => logs[t][j] = logs[u][j]
    BY <2>2, <2>3, <2>4, CommittedAlike
  <2>6. ASSUME NEW j \in 1..i
        PROVE  order[j] = later[j]
    <3>1. j \in 1..k /\ j <= k
      BY <2>4
    <3>2. logs[t][j] = logs[u][j]
      BY <2>5, <3>1
    <3>3. order[j] = logs[t][j].cmd /\ later[j] = logs[u][j].cmd
      BY <2>2, <2>3, <3>1 DEF Spells
    <3> QED
      BY <3>2, <3>3
  <2> QED
    BY <2>4, <2>6 DEF Begins, i, k
<1> QED
  BY <1>2, <1>3

\* Who learns that a majority has its entry commits after what was committed, and tells of
\* what is committed then.
LEMMA ReplicatedKeeps ==
  ASSUME DisksWork, NEW given, NEW logs, NEW taken, Whole(given, logs, taken), budget' = budget,
         NEW m, Replicated(m)
  PROVE  Ledger!Next \/ UNCHANGED <<chosen, acked>>
<1>1. /\ BaseInv /\ UsedOK /\ LogsInv(logs) /\ AcksInv(given, logs, taken) /\ ChosenInv(logs, taken)
      /\ AllNumbered(logs, used.writes)
  BY DEF Whole
<1>2. CallsInRange
  BY <1>1, CallsAreInRange
<1>3. ChosenInv(logs, taken)' /\ (chosen' = chosen \/ Len(chosen) < Len(chosen'))
  BY <1>1, ReplicatedChosen
<1>4. acked \subseteq acked'
  <2>1. PICK c, s : c \in calls /\ c \in Call /\ c.node = m.to /\ c.id = m.call /\ Turns(m.to, s) /\ Learns(m, s, node[m.to], c)
    BY <1>1, <1>2, ReplicatedDoes
  <2> QED
    BY <2>1 DEF Learns, Decides
<1>5. ChosenIs(logs, taken, chosen) /\ ChosenIs(logs, taken, chosen') /\ chosen \in Seq(Nat) /\ chosen' \in Seq(Nat)
  BY <1>1, <1>3 DEF ChosenInv, ChosenIs
<1>6. DOMAIN chosen = 1..Len(chosen) /\ DOMAIN chosen' = 1..Len(chosen') /\ Len(chosen) \in Nat /\ Len(chosen') \in Nat
  BY <1>5, LenProperties
<1>7. acked' \subseteq {chosen'[i] : i \in DOMAIN chosen'}
  BY <1>3, <1>6 DEF ChosenInv
<1>8. CASE chosen' = chosen
  <2>1. acked' \subseteq {chosen[i] : i \in DOMAIN chosen}
    BY <1>7, <1>8
  <2>2. Ledger!Acknowledge
    BY <1>4, <1>8, <2>1 DEF Ledger!Acknowledge, Ledger!Listed
  <2> QED
    BY <2>2 DEF Ledger!Next
<1>9. CASE Len(chosen) < Len(chosen')
  <2>1. Settled(elected, logs, taken) /\ LogsOK(logs)
    BY <1>1, SettledHolds DEF LogsInv
  <2>2. Begins(chosen, chosen')
    <3>1. Len(chosen) <= Len(chosen')
      BY <1>6, <1>9
    <3> QED
      BY <1>5, <2>1, <3>1, ChosenAlike
  <2>3. \A i \in DOMAIN chosen : chosen'[i] = chosen[i]
    BY <1>6, <2>2 DEF Begins
  <2>4. used.writes \in Nat
    BY <1>1 DEF UsedOK, Counts
  <2>5. \A i, j \in 1..Len(chosen') : chosen'[i] = chosen'[j] => i = j
    <3> DEFINE last == used.writes
               later == chosen'
    <3>1. last \in Nat /\ AllNumbered(logs, last) /\ ChosenIs(logs, taken, later)
      BY <1>1, <1>5, <2>4
    <3> HIDE DEF last, later
    <3>2. \A i, j \in 1..Len(later) : later[i] = later[j] => i = j
      BY <2>1, <3>1, ChosenDistinct
    <3> QED
      BY <3>2 DEF later
  <2>6. Ledger!Grows
    BY <1>6, <1>9, <2>3, <2>5 DEF Ledger!Grows
  <2>7. Ledger!CommitAndTell
    BY <1>4, <1>7, <2>6 DEF Ledger!CommitAndTell, Ledger!Listed
  <2> QED
    BY <2>7 DEF Ledger!Next
<1> QED
  BY <1>3, <1>8, <1>9

LEMMA LedgerStep ==
  ASSUME DisksWork, IInv, [Next]_vars
  PROVE  [Ledger!Next]_<<chosen, acked>>
<1>1. PICK given, logs, taken : Whole(given, logs, taken)
  BY DEF IInv
<1>2. CASE UNCHANGED vars
  BY <1>2 DEF vars, history
<1>3. CASE Next
  <2>1. ASSUME NEW m \in net, Replicated(m)
        PROVE  Ledger!Next \/ UNCHANGED <<chosen, acked>>
    BY <1>1, <1>3, <2>1, ReplicatedKeeps DEF Next
  <2>2. ASSUME \A m \in net : ~ Replicated(m)
        PROVE  UNCHANGED <<chosen, acked>>
    BY <1>3, <2>2, OthersChooseNothing
  <2> QED
    BY <2>1, <2>2
<1> QED
  BY <1>2, <1>3

-----------------------------------------------------------------------------
(* The theorems, on disks that work.                                       *)

\* Two nodes never win the same term, whatever crashes and whatever is lost or late between a
\* vote and the next: HandleRequestVote saves the vote before it answers.
THEOREM ElectionsAreSafe ==
  ASSUME DisksWork
  PROVE  Spec => []ElectionSafety
<1>1. IInv => ElectionSafety
  BY ElectionSafetyFollows
<1> QED
  BY <1>1, Invariant, PTL

\* Files that have an entry of a term at an index agree up to it, a leader that no later one
\* replaced has every committed command, and machines apply the committed commands in their
\* order: HandleAppendEntries checks the entry before those it takes, HandleRequestVote the
\* log of the candidate, and NewNode goes on from the snapshot.
THEOREM LogsStayInAgreement ==
  ASSUME DisksWork
  PROVE  Spec => []LogsAgree
<1>1. IInv => LogsAgree
  BY LogsAgreeFollows
<1> QED
  BY <1>1, Invariant, PTL

\* A committed command is in the file of a majority, in its place, every node can be started
\* from its disk, and everything has its type: Propose commits once a majority appended.
THEOREM CommittedIsHeld ==
  ASSUME DisksWork
  PROVE  Spec => []HeldByMajority
<1>1. IInv => HeldByMajority
  BY HeldByMajorityFollows
<1> QED
  BY <1>1, Invariant, PTL

\* A read that began when its leader had applied an entry of its own term, and that a majority
\* confirmed, sees every write that had finished by then: quorumHeartbeat.
THEOREM ReadsSeeWhatFinished ==
  ASSUME DisksWork
  PROVE  Spec => []ReadsInOfficeSeeFinishedWrites
<1>1. IInv => ReadsInOfficeSeeFinishedWrites
  BY ReadsFollow
<1> QED
  BY <1>1, Invariant, PTL

\* The nodes, the network and the crashes together are one log that loses nothing of which a
\* Propose told its caller: each step commits new entries after those there are, tells of
\* committed ones, or does neither.
THEOREM RaftKeepsLedger ==
  ASSUME DisksWork
  PROVE  Spec => KeepsLedger
<1>1. Init => Ledger!Init
  BY DEF Init, Ledger!Init
<1>2. IInv /\ [Next]_vars => [Ledger!Next]_<<chosen, acked>>
  BY LedgerStep
<1> QED
  BY <1>1, <1>2, Invariant, PTL DEF KeepsLedger, Ledger!Spec, Spec
=============================================================================
