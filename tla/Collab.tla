------------------------------- MODULE Collab -------------------------------
(***************************************************************************)
(* One live document: the document actor (src/internal/collab/session.go), *)
(* its operation log, and the editors connected to it (ui/collab.js).      *)
(*                                                                         *)
(* The actor handles messages in memory, collecting what it wants to say   *)
(* in a batch; Flush writes the batch to the log with one fsync and only   *)
(* then releases what was collected.  A client keeps one operation in      *)
(* flight (outst) and composes later edits into buf.  Connections break,   *)
(* clients reconnect while the server may still be reading what they sent  *)
(* on the old connection, appends fail, and the process crashes.           *)
(***************************************************************************)
EXTENDS OT

CONSTANTS
  Client,       \* editors: one CollabClient object each
  Slot,         \* connections a client can have at the server at one time
  Unit,         \* Unit[c]: what client c types
  Seed,         \* the template text of the new document
  None,
  MaxEdits,     \* bound: MaxEdits[c] edits by client c
  MaxDrops,     \* bound: connections lost or given up for silence
  MaxCrashes,   \* bound: crashes and failed appends
  MaxDocUnits   \* the size limit of a document (maxDocUnits)

ASSUME CollabAssumption ==
  /\ 0 \notin Slot
  /\ Len(Seed) <= MaxDocUnits

VARIABLES
  hist,      \* docState.history: committed operations, in memory
  disk,      \* the records in the log file
  out,       \* batch.after: out[k] is what Flush will say on connection k
  alive,     \* the session is running
  phase,     \* phase[k]: the server's end of connection k
  up, down,  \* messages between a connection's client and the actor
  cl,        \* the clients
  sock,      \* the connection a client listens to, 0 when it has none
  acked,     \* history: operations a client was told are committed, by name
  edits,     \* edits made so far, by client
  drops, crashes

server  == <<hist, disk, out, alive, phase>>
network == <<up, down>>
clients == <<cl, sock, acked, edits>>
vars    == <<server, network, clients, drops, crashes>>

Conns == Client \X Slot

NoRev == -1      \* rev === null: nothing loaded yet
NoId  == 0       \* a wire operation without an id

-----------------------------------------------------------------------------
(* The document as a function of its history.                              *)

\* The text at revision rev of history h.
TextAt(h, rev) ==
  LET text[i \in 0..rev] == IF i = 0 THEN <<>> ELSE Apply(h[i].op, text[i-1])
  IN  text[rev]

Text == TextAt(hist, Len(hist))

\* opIDs: an operation is named by its client and the id the client chose.
Names(h) == {<<h[i].client, h[i].id>> : i \in DOMAIN h}

\* An operation made at revision base, transformed across everything since.
CatchUp(op, base) ==
  LET carried[i \in base..Len(hist)] ==
        IF i = base THEN op ELSE Transform(carried[i-1], hist[i].op)[1]
  IN  carried[Len(hist)]

SeedHistory == <<[op |-> Insert(<<>>, Seed), client |-> None, id |-> NoId]>>

-----------------------------------------------------------------------------
(* The actor.                                                              *)

Owner(k) == k[1]
Joined   == {k \in Conns : phase[k] = "joined"}
InUse(k) == sock[Owner(k)] = k[2]

\* The server's end of k is gone; the slot is free once the client's is too.
Gone(k) == IF InUse(k) THEN "closed" ELSE "idle"

Say(k, m) == [out EXCEPT ![k] = Append(@, m)]

Reject(k) ==
  /\ phase' = [phase EXCEPT ![k] = "rejected"]
  /\ out' = Say(k, [t |-> "error"])
  /\ UNCHANGED hist

\* What c missed since rev.  Only c's own operations carry their ids.
Missed(c, rev) ==
  [i \in 1..Len(hist) - rev |->
     LET e == hist[rev + i]
     IN  [t |-> "op", rev |-> rev + i, op |-> e.op,
          id |-> IF e.client = c THEN e.id ELSE NoId]]

HandleHello(k, m) ==
  /\ phase' = [phase EXCEPT ![k] = "joined"]
  /\ out' = Say(k,
       IF m.rev \in 0..Len(hist)
       THEN [t |-> "catchup", rev |-> Len(hist), ops |-> Missed(Owner(k), m.rev)]
       ELSE [t |-> "text", rev |-> Len(hist), text |-> Text])
  /\ UNCHANGED hist

\* Mutant: the newer connection of the same client is not told.
Commit_NoEcho(k, op, id) ==
  LET rev == Len(hist) + 1
      echo == [t |-> "op", rev |-> rev, op |-> op, id |-> NoId]
  IN  /\ hist' = Append(hist, [op |-> op, client |-> Owner(k), id |-> id])
      /\ out' = [j \in Conns |->
                   IF j = k THEN Append(out[j], [t |-> "ack", rev |-> rev, id |-> id])
                   ELSE IF j \in Joined /\ Owner(j) # Owner(k) THEN Append(out[j], echo)
                   ELSE out[j]]
      /\ UNCHANGED phase

\* commit and afterOp: an ack for the sender, the operation for everyone else.
Commit(k, op, id) ==
  LET rev == Len(hist) + 1
      Echo(j) == [t |-> "op", rev |-> rev, op |-> op,
                  id |-> IF Owner(j) = Owner(k) THEN id ELSE NoId]
  IN  /\ hist' = Append(hist, [op |-> op, client |-> Owner(k), id |-> id])
      /\ out' = [j \in Conns |->
                   IF j = k THEN Append(out[j], [t |-> "ack", rev |-> rev, id |-> id])
                   ELSE IF j \in Joined THEN Append(out[j], Echo(j))
                   ELSE out[j]]
      /\ UNCHANGED phase

\* Mutant: the limit is checked before transforming.
HandleOp_EarlyLimit(k, m) ==
  IF <<Owner(k), m.id>> \in Names(hist) THEN UNCHANGED <<hist, out, phase>>
  ELSE IF TargetLen(m.op) <= MaxDocUnits THEN Commit(k, CatchUp(m.op, m.rev), m.id)
  ELSE Reject(k)

HandleOp(k, m) ==
  LET op == CatchUp(m.op, m.rev)
      acceptable == /\ m.id # NoId
                    /\ m.rev \in 0..Len(hist)
                    /\ BaseLen(m.op) = Len(TextAt(hist, m.rev))
                    /\ TargetLen(op) <= MaxDocUnits
  IN  IF m.id # NoId /\ <<Owner(k), m.id>> \in Names(hist)
      THEN UNCHANGED <<hist, out, phase>>
      ELSE IF acceptable THEN Commit(k, op, m.id)
      ELSE Reject(k)

CanHandle(k) == alive /\ up[k] # <<>> /\ phase[k] \in {"open", "joined"}

Handle(k) ==
  /\ CanHandle(k)
  /\ LET m == Head(up[k])
     IN  CASE m.t = "hello" /\ phase[k] = "open"   -> HandleHello(k, m)
           [] m.t = "op"    /\ phase[k] = "joined" -> HandleOp(k, m)
           [] OTHER                                -> Reject(k)
  /\ up' = [up EXCEPT ![k] = Tail(@)]
  /\ UNCHANGED <<disk, alive, down, clients, drops, crashes>>

Silent == [k \in Conns |-> <<>>]

\* There is something to write or to say.
BatchDue == alive /\ (Len(disk) < Len(hist) \/ out # Silent)

Delivered(k) == IF InUse(k) THEN down[k] \o out[k] ELSE down[k]

\* Mutant: replies are released before the append.
Flush_NotWritten ==
  /\ BatchDue
  /\ down' = [k \in Conns |-> Delivered(k)]
  /\ out' = Silent
  /\ UNCHANGED <<hist, disk, alive, phase, up, clients, drops, crashes>>

\* log.Append succeeded: deliver, and close what was rejected.
Flush ==
  /\ BatchDue
  /\ disk' = hist
  /\ down' = [k \in Conns |-> Delivered(k)]
  /\ phase' = [k \in Conns |-> IF phase[k] = "rejected" THEN Gone(k) ELSE phase[k]]
  /\ up' = [k \in Conns |-> IF phase[k] = "rejected" THEN <<>> ELSE up[k]]
  /\ out' = Silent
  /\ UNCHANGED <<hist, alive, clients, drops, crashes>>

\* The reader of k sees the connection end: unread messages are lost and the
\* connection leaves.  Either its client gave it up or the network broke it.
CanHangUp(k) == alive /\ phase[k] \in {"open", "joined", "rejected"}

HangUp(k) ==
  /\ CanHangUp(k)
  /\ InUse(k) => drops < MaxDrops
  /\ drops' = IF InUse(k) THEN drops + 1 ELSE drops
  /\ phase' = [phase EXCEPT ![k] = Gone(k)]
  /\ up' = [up EXCEPT ![k] = <<>>]
  /\ out' = [out EXCEPT ![k] = <<>>]
  /\ UNCHANGED <<hist, disk, alive, down, clients, crashes>>

\* Mutant: the truncation that follows a failed append cuts one record too many.
Fail_CutsTooMuch ==
  /\ alive /\ crashes < MaxCrashes /\ Len(disk) > 0
  /\ disk' = SubSeq(disk, 1, Len(disk) - 1)
  /\ crashes' = crashes + 1
  /\ alive' = FALSE /\ out' = Silent
  /\ phase' = [k \in Conns |-> IF phase[k] = "idle" THEN "idle" ELSE Gone(k)]
  /\ up' = [k \in Conns |-> <<>>]
  /\ UNCHANGED <<hist, down, clients, drops>>

\* The append fails or the process dies.  The batch was acknowledged to nobody;
\* any part of it may be in the file all the same.
Fail ==
  /\ alive /\ crashes < MaxCrashes
  /\ \E n \in Len(disk)..Len(hist) : disk' = SubSeq(hist, 1, n)
  /\ crashes' = crashes + 1
  /\ alive' = FALSE
  /\ out' = Silent
  /\ phase' = [k \in Conns |-> IF phase[k] = "idle" THEN "idle" ELSE Gone(k)]
  /\ up' = [k \in Conns |-> <<>>]
  /\ UNCHANGED <<hist, down, clients, drops>>

\* The next access rebuilds the session from what the log holds.
Reopen ==
  /\ ~alive
  /\ alive' = TRUE
  /\ hist' = disk
  /\ UNCHANGED <<disk, out, phase, network, clients, drops, crashes>>

-----------------------------------------------------------------------------
(* The client.  A handler maps the client record to its next value: sent   *)
(* collects what it writes to the socket, quits says it closes the socket. *)

Has(x) == x # None

SendOutstanding(k) ==
  [k EXCEPT !.sent = Append(@, [t |-> "op", rev |-> k.rev,
                                id |-> k.outst.id, op |-> k.outst.op])]

Abandoned(k) == [k EXCEPT !.quits = TRUE, !.ready = FALSE]

Desync(k) == [Abandoned(k) EXCEPT !.resetNext = TRUE]

Acknowledged(k, rev) ==
  IF rev # k.rev + 1 THEN Desync(k)
  ELSE IF Has(k.buf)
  THEN SendOutstanding([k EXCEPT !.rev = rev, !.seq = @ + 1, !.buf = None,
                                 !.outst = [id |-> k.seq + 1, op |-> k.buf]])
  ELSE [k EXCEPT !.rev = rev, !.outst = None]

\* Mutant: the buffer is not transformed across what came before it.
ServerOp_BufferLeftBehind(k, m) ==
  IF Has(k.outst) /\ m.id # NoId /\ m.id = k.outst.id THEN Acknowledged(k, m.rev)
  ELSE LET o == IF Has(k.outst) THEN Transform(k.outst.op, m.op) ELSE <<None, m.op>>
       IN  [k EXCEPT !.outst = IF Has(@) THEN [@ EXCEPT !.op = o[1]] ELSE None,
                     !.text = IF Len(@) = BaseLen(o[2]) THEN Apply(o[2], @) ELSE @,
                     !.rev = m.rev]

ServerOp(k, m) ==
  IF Has(k.outst) /\ m.id # NoId /\ m.id = k.outst.id THEN Acknowledged(k, m.rev)
  ELSE IF m.rev # k.rev + 1 THEN Desync(k)
  ELSE LET o == IF Has(k.outst) THEN Transform(k.outst.op, m.op) ELSE <<None, m.op>>
           b == IF Has(k.buf) THEN Transform(k.buf, o[2]) ELSE <<None, o[2]>>
       IN  [k EXCEPT !.outst = IF Has(@) THEN [@ EXCEPT !.op = o[1]] ELSE None,
                     !.buf   = b[1],
                     !.text  = Apply(b[2], @),
                     !.rev   = m.rev]

\* Mutant: nothing is resent after a reconnect.
Ready_NoResend(k) == [k EXCEPT !.ready = TRUE]

\* The end of init: resend what is outstanding.
Ready(k) ==
  LET r == [k EXCEPT !.ready = TRUE]
  IN  IF Has(k.outst) THEN SendOutstanding(r) ELSE r

ReceiveText(k, m) ==
  Ready([k EXCEPT !.text = m.text, !.rev = m.rev, !.outst = None, !.buf = None,
                  !.resetNext = FALSE])

\* Catching up stops where sync is lost.
ReceiveCatchUp(k, m) ==
  LET after[i \in 0..Len(m.ops)] ==
        IF i = 0 THEN k
        ELSE IF i > 1 /\ after[i-1].resetNext THEN after[i-1]
        ELSE ServerOp(after[i-1], m.ops[i])
      end == after[Len(m.ops)]
  IN  IF m.ops # <<>> /\ end.resetNext THEN end
      ELSE IF end.rev # m.rev THEN Desync(end)
      ELSE Ready(end)

Received(k, m) ==
  CASE m.t = "text" -> ReceiveText(k, m)
    [] m.t = "catchup" -> ReceiveCatchUp(k, m)
    [] m.t = "op" /\ ~k.resetNext -> ServerOp(k, m)
    [] m.t = "ack" /\ ~k.resetNext /\ Has(k.outst) /\ m.id = k.outst.id ->
         Acknowledged(k, m.rev)
    [] m.t = "error" -> [k EXCEPT !.resetNext = TRUE]
    [] OTHER -> k

\* Client c's record becomes k: what it sent enters its connection if the
\* server still reads it, and an abandoned connection is no longer heard.
Become(c, k, heard) ==
  LET conn == <<c, sock[c]>>
  IN  /\ cl' = [cl EXCEPT ![c] = [k EXCEPT !.sent = <<>>, !.quits = FALSE]]
      /\ sock' = IF k.quits THEN [sock EXCEPT ![c] = 0] ELSE sock
      /\ up' = IF conn \in Conns /\ phase[conn] \in {"open", "joined"}
               THEN [up EXCEPT ![conn] = @ \o k.sent] ELSE up
      /\ down' = IF conn \in Conns
                 THEN [down EXCEPT ![conn] = IF k.quits THEN <<>> ELSE heard] ELSE down
      /\ phase' = IF conn \in Conns /\ k.quits /\ phase[conn] = "closed"
                  THEN [phase EXCEPT ![conn] = "idle"] ELSE phase
      /\ UNCHANGED <<hist, disk, out, alive, crashes>>

Heard(c) == IF sock[c] \in Slot THEN down[<<c, sock[c]>>] ELSE <<>>

\* The operations message m tells client c are committed.
Told(c, m) ==
  {<<c, id>> : id \in
     (CASE m.t \in {"ack", "op"} -> {m.id}
        [] m.t = "catchup" -> {m.ops[i].id : i \in DOMAIN m.ops}
        [] OTHER -> {}) \ {NoId}}

Receive(c) ==
  /\ Heard(c) # <<>>
  /\ LET m == Head(Heard(c))
     IN  /\ Become(c, Received(cl[c], m), Tail(Heard(c)))
         /\ acked' = acked \cup Told(c, m)
  /\ UNCHANGED <<edits, drops>>

\* The edits a person can make on a text: type or delete one unit.
EditsOn(c, text) ==
  {ReplaceOp(Len(text), p, p, <<Unit[c]>>) : p \in 0..Len(text)}
    \cup {ReplaceOp(Len(text), p, p + 1, <<>>) : p \in 0..Len(text) - 1}

LocallyApplied(k, op) ==
  LET e == [k EXCEPT !.text = Apply(op, @)]
      o == [e EXCEPT !.seq = @ + 1, !.outst = [id |-> k.seq + 1, op |-> op]]
  IN  IF ~Has(k.outst) THEN (IF k.ready THEN SendOutstanding(o) ELSE o)
      ELSE [e EXCEPT !.buf = IF Has(@) THEN Compose(@, op) ELSE op]

ApplyLocal(c) ==
  /\ cl[c].rev # NoRev
  /\ edits[c] < MaxEdits[c]
  /\ \E op \in EditsOn(c, cl[c].text) : Become(c, LocallyApplied(cl[c], op), Heard(c))
  /\ edits' = [edits EXCEPT ![c] = @ + 1]
  /\ UNCHANGED <<acked, drops>>

\* Notice that the server closed the connection, everything it said before having
\* arrived; or give up on a silent connection.
Closed(c) ==
  sock[c] # 0 /\ phase[<<c, sock[c]>>] = "closed" /\ Heard(c) = <<>>

Abandon(c) ==
  /\ sock[c] # 0
  /\ Closed(c) \/ drops < MaxDrops
  /\ drops' = IF Closed(c) THEN drops ELSE drops + 1
  /\ Become(c, Abandoned(cl[c]), <<>>)
  /\ UNCHANGED <<acked, edits>>

\* Mutant: a reconnecting client always asks for the whole text.
Connect_FullText(c) ==
  /\ alive /\ sock[c] = 0
  /\ \E sl \in Slot :
       LET k == <<c, sl>>
       IN  /\ phase[k] = "idle"
           /\ phase' = [phase EXCEPT ![k] = "open"]
           /\ sock' = [sock EXCEPT ![c] = sl]
           /\ up' = [up EXCEPT ![k] = <<[t |-> "hello", rev |-> NoRev]>>]
           /\ down' = [down EXCEPT ![k] = <<>>]
  /\ UNCHANGED <<hist, disk, out, alive, cl, acked, edits, drops, crashes>>

\* connect and onopen: say which revision is held, unless it is to be reloaded.
Connect(c) ==
  /\ alive /\ sock[c] = 0
  /\ \E s \in Slot :
       LET k == <<c, s>>
       IN  /\ phase[k] = "idle"
           /\ phase' = [phase EXCEPT ![k] = "open"]
           /\ sock' = [sock EXCEPT ![c] = s]
           /\ up' = [up EXCEPT ![k] =
                <<[t |-> "hello",
                   rev |-> IF cl[c].resetNext THEN NoRev ELSE cl[c].rev]>>]
           /\ down' = [down EXCEPT ![k] = <<>>]
  /\ UNCHANGED <<hist, disk, out, alive, cl, acked, edits, drops, crashes>>

-----------------------------------------------------------------------------
NewClient ==
  [text |-> <<>>, rev |-> NoRev, outst |-> None, buf |-> None, seq |-> 0,
   ready |-> FALSE, resetNext |-> FALSE, sent |-> <<>>, quits |-> FALSE]

Init ==
  /\ hist = SeedHistory /\ disk = SeedHistory
  /\ out = Silent /\ alive = TRUE
  /\ phase = [k \in Conns |-> "idle"]
  /\ up = [k \in Conns |-> <<>>] /\ down = [k \in Conns |-> <<>>]
  /\ cl = [c \in Client |-> NewClient] /\ sock = [c \in Client |-> 0]
  /\ acked = {} /\ edits = [c \in Client |-> 0]
  /\ drops = 0 /\ crashes = 0

Next ==
  \/ \E k \in Conns : Handle(k) \/ HangUp(k)
  \/ Flush \/ Fail \/ Reopen
  \/ \E c \in Client : Receive(c) \/ ApplyLocal(c) \/ Abandon(c) \/ Connect(c)

Spec == Init /\ [][Next]_vars

\* The actor drains its inbox and writes every batch, messages arrive on a
\* connection that stays up, a connection that ends is noticed at both ends, a
\* dead session is reopened by the next access, and clients reconnect.  Nobody
\* has to type, and no connection has to break.  Weak fairness of an action whose
\* guard is G is written []<>~G \/ []<><<A>>_vars where TLC would otherwise have
\* to compute ENABLED of a whole handler.
Fairness ==
  /\ \A k \in Conns :
       /\ []<>~CanHandle(k) \/ []<><<Handle(k)>>_vars
       /\ WF_vars(~InUse(k) /\ HangUp(k))
  /\ WF_vars(Flush) /\ WF_vars(Reopen)
  /\ \A c \in Client :
       /\ []<>(Heard(c) = <<>>) \/ []<><<Receive(c)>>_vars
       /\ WF_vars(Connect(c))
       /\ WF_vars(Closed(c) /\ Abandon(c))

FairSpec == Spec /\ Fairness

-----------------------------------------------------------------------------
\* The operations in the log; the template text is nobody's operation.
Committed == {<<disk[i].client, disk[i].id>> : i \in DOMAIN disk \ {1}}

\* A message with an id is about the operation of that name at that revision.
Own(h, k, o) ==
  o.id # NoId =>
    /\ o.rev \in 1..Len(h)
    /\ h[o.rev].client = Owner(k) /\ h[o.rev].id = o.id

\* The state stays within the shapes the code gives it: memory is the log and
\* perhaps a batch more, a connection with no reader has nothing to read, and a
\* client hears only the connection it listens to, which is never reused for
\* another while it does (connect, collab.js:76-115; removeConn, session.go).
ConnectionsOK ==
  /\ phase \in [Conns -> {"idle", "open", "joined", "rejected", "closed"}]
  /\ sock \in [Client -> Slot \cup {0}]
  /\ DOMAIN up = Conns
  /\ \A k \in Conns :
       /\ phase[k] \in {"idle", "closed"} => up[k] = <<>>
       /\ phase[k] = "idle" => ~InUse(k)
       /\ ~InUse(k) => down[k] = <<>>
       /\ ~alive => phase[k] \in {"idle", "closed"}

TypeOK ==
  /\ Len(disk) <= Len(hist) /\ SubSeq(hist, 1, Len(disk)) = disk
  /\ ConnectionsOK

\* Many people typing in one document converge on the same text, whatever the
\* network does (live-docs.md): what a client shows is exactly the durable text
\* at its revision with the edits it still has pending.
ClientShowsItsRevision ==
  \A c \in Client :
    LET k == cl[c]
        outst == IF Has(k.outst) THEN k.outst.op ELSE None
        Fits(x, text) == Has(x) => BaseLen(x) = Len(text)
        Pending(x, text) == IF Has(x) THEN Apply(x, text) ELSE text
    IN  k.rev # NoRev =>
          /\ k.rev <= Len(disk)
          /\ LET durable == TextAt(disk, k.rev)
             IN  /\ Fits(outst, durable)
                 /\ Fits(k.buf, Pending(outst, durable))
                 /\ k.text = Pending(k.buf, Pending(outst, durable))

\* The document as its users may think of it: the names of the operations in the
\* log, and the acknowledgements that arrived.
Ledger == INSTANCE PromisedLog WITH
  log  <- [i \in 1..Len(disk) - 1 |-> <<disk[i+1].client, disk[i+1].id>>],
  told <- acked

\* Every step of the actor, of the clients, of the network and of a crash is a
\* step of that ledger or leaves it unchanged.
KeepsLedger == Ledger!Spec

\* A crash never applies an edit twice, and neither does a resend after a
\* reconnect (handleOp's duplicate check, session.go:574).
ExactlyOnce ==
  \A i, j \in DOMAIN disk :
    i # j => <<disk[i].client, disk[i].id>> # <<disk[j].client, disk[j].id>>

\* A crash never loses an acknowledged edit (run, session.go:244-255).
AckedIsDurable == acked \subseteq Committed

\* Nothing a client has been sent can be lost by a crash: no message speaks of
\* a revision the log does not hold (batch.after, session.go:142-149).
SaidIsDurable ==
  \A k \in Conns : \A i \in DOMAIN down[k] :
    down[k][i].t # "error" => down[k][i].rev <= Len(disk)

\* An id is shown only to the client that chose it, and names the operation
\* it comes with (session.go:516-521 and 625-637).
IdsStayPrivate ==
  \A k \in Conns : \A i \in DOMAIN down[k] :
    LET m == down[k][i]
    IN  /\ m.t \in {"op", "ack"} => Own(disk, k, m)
        /\ m.t = "catchup" => \A j \in DOMAIN m.ops : Own(disk, k, m.ops[j])

\* Concurrent inserts cannot take the document past its limit (session.go:585).
WithinLimit == Len(TextAt(disk, Len(disk))) <= MaxDocUnits

\* A dropped connection costs nothing: a client loses its place, and with it its
\* pending edits, only because the server refused one of them.
OnlyRejectionForcesReload ==
  [][\A c \in Client :
       ~cl[c].resetNext /\ cl'[c].resetNext => Head(Heard(c)).t = "error"]_vars

\* An operation leaves a client's hands only once it is in the log, unless the
\* client is reloading after a refusal.
NothingGivenUp ==
  [][\A c \in Client :
       LET o == cl[c].outst
           n == cl'[c].outst
       IN  (Has(o) /\ (Has(n) => n.id # o.id)) =>
             <<c, o.id>> \in Names(disk) \/ cl[c].resetNext]_vars

\* Why those hold: an inductive invariant.  It says nothing of what clients hold
\* or send, nor of what Transform computes, so the server keeps its promises
\* whatever its clients do.
IsSeq(s) == s \in Seq({s[i] : i \in 1..Len(s)})

\* The log is the beginning of memory, and both hold each operation once.
MemoryExtendsLog ==
  /\ IsSeq(hist) /\ IsSeq(disk)
  /\ 1 <= Len(disk) /\ Len(disk) <= Len(hist)
  /\ \A i \in 1..Len(disk) : disk[i] = hist[i]
  /\ hist[1].id = NoId
  /\ \A i \in 2..Len(hist) : hist[i].client \in Client /\ hist[i].id # NoId
  /\ \A i, j \in 1..Len(hist) :
       i # j => <<hist[i].client, hist[i].id>> # <<hist[j].client, hist[j].id>>

\* Message m, said on connection k, is true of history h.
Agrees(h, k, m) ==
  /\ m.t # "error" => m.rev \in 0..Len(h)
  /\ m.t \in {"op", "ack"} => Own(h, k, m)
  /\ m.t = "catchup" => \A j \in DOMAIN m.ops : Own(h, k, m.ops[j])

AllAgree(h, said) ==
  \A k \in Conns : IsSeq(said[k]) /\ \A i \in 1..Len(said[k]) : Agrees(h, k, said[k][i])

Promises ==
  /\ MemoryExtendsLog
  /\ DOMAIN out = Conns /\ AllAgree(hist, out)
  /\ DOMAIN down = Conns /\ AllAgree(disk, down)
  /\ ~alive => out = Silent
  /\ acked \subseteq Committed

Synced(c) == cl[c].ready /\ ~Has(cl[c].outst) /\ ~Has(cl[c].buf)

\* Once people stop typing and connections stop breaking, every editor shows
\* the durable text with nothing pending.
Converges ==
  <>[](\A c \in Client :
         Synced(c) /\ cl[c].text = TextAt(disk, Len(disk)))
=============================================================================
