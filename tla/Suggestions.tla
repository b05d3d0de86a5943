---------------------------- MODULE Suggestions ----------------------------
(***************************************************************************)
(* Suggestions of agents in a live document                                *)
(* (src/internal/collab: agent.go, state.go, session.go).                  *)
(*                                                                         *)
(* An agent reads a range of the document, thinks while people go on       *)
(* editing, and proposes.  The actor carries the range to the revision the *)
(* proposal meets, posts it as a suggestion, moves its anchors with every  *)
(* operation, and applies it when a person accepts it.  All of it is       *)
(* records of the document's log: appended and synced a batch at a time,   *)
(* told to anybody only then, replayed after a failed append or a crash.   *)
(*                                                                         *)
(* How a person's edit reaches the actor is the subject of Collab; here it *)
(* is any operation on the current text.  Texts hold no surrogate pairs,   *)
(* so insidePair never refuses a range.                                    *)
(***************************************************************************)
EXTENDS OT

CONSTANTS
  Seed,         \* the text of the new document, units [by, nr]
  PerHour,      \* Options.AgentRunsPerHour
  Concurrent,   \* Options.AgentConcurrency
  Hour,         \* an hour, in the ticks of the clock
  MaxDocUnits,  \* the size limit of a document
  Budgets       \* bounds: what a behaviour may spend, one of these records of edits,
                \*   invokes, resolves, joins (of the viewer), fails (of appends), crashes
                \*   and ticks, and targets, the ranges <<start, end>> agents are asked for

\* Who typed or wrote a unit.
Person == <<"person", 0>>
Agent(i) == <<"agent", i>>

ASSUME SuggestionsAssumption ==
  /\ Seed \in Seq([by : {Person}, nr : Nat]) /\ Len(Seed) <= MaxDocUnits
  /\ Hour \in Nat /\ PerHour \in Nat /\ Concurrent \in Nat
  /\ \A b \in Budgets : /\ \A what \in DOMAIN b \ {"targets"} : b[what] \in Nat
                        /\ b.targets \subseteq Int \X Int

VARIABLES
  doc,       \* docState: text, attr (who wrote each unit), ops (its history) and suggestions
  log,       \* the records of the log, those of the batch under way behind them
  durable,   \* how many of them are on disk
  shown,     \* session.runs: shown[i] is the range run i is shown at
  after,     \* batch.after: what Flush will send the viewer
  replies,   \* batch.after: the runs whose question Flush will answer, as they go on
  alive,     \* the session is running
  joined,    \* the viewer's connection is among session.conns
  wire,      \* what the viewer's connection was sent and has not read
  view,      \* what the viewer shows: open suggestions and agents at work, by id
  runs,      \* the calls of Store.Invoke, in the order they came
  started,   \* budget.started: when the runs of the last hour began
  running,   \* budget.running
  now,
  told,      \* history: what the viewer and the callers of Invoke learned of suggestions
  charged,   \* history: [run, at] of the runs that work or were answered
  misdated,  \* history: a run that was not charged gave back the entry of another
  budget, used

session == <<doc, log, durable, shown, after, replies, alive, joined>>
limits  == <<started, running, charged, misdated>>
viewer  == <<wire, view, told>>
vars    == <<session, viewer, runs, limits, now, budget, used>>

maxAgentAttempts == 2
NoReply == [pc |-> "none"]

Spend(what) == used[what] < budget[what] /\ used' = [used EXCEPT ![what] = @ + 1]

-----------------------------------------------------------------------------
(* docState.                                                               *)

Open(s) == s.status \in {"pending", "stale"}

Authors(op, attr, author) ==
  Apply([j \in DOMAIN op |-> IF IsIns(op[j]) THEN Ins(author) ELSE op[j]], attr)

\* applyOp's loop over the open suggestions.
Moved(s, op) ==
  LET r == MapRange(op, s.start, s.end)
  IN  IF ~Open(s) THEN s
      ELSE [s EXCEPT !.start = r[1], !.end = r[2], !.status = IF r[3] THEN "stale" ELSE @]

\* docState.apply: the document after one record.
ApplyRecord(d, r) ==
  CASE r.k = "op" ->
         [text |-> Apply(r.op, d.text),
          attr |-> Authors(r.op, d.attr, r.by),
          ops  |-> Append(d.ops, r.op),
          sugs |-> [i \in DOMAIN d.sugs |->
                      IF i = r.accepts THEN [d.sugs[i] EXCEPT !.status = "accepted"]
                      ELSE Moved(d.sugs[i], r.op)]]
    [] r.k = "sug" -> [d EXCEPT !.sugs = Append(@, r.s)]
    [] r.k = "res" -> [d EXCEPT !.sugs[r.sid].status = r.action]

Fresh == [text |-> <<>>, attr |-> <<>>, ops |-> <<>>, sugs |-> <<>>]

Replay(records) ==
  LET d[i \in 0..Len(records)] == IF i = 0 THEN Fresh ELSE ApplyRecord(d[i-1], records[i])
  IN  d[Len(records)]

Rev == Len(doc.ops)
LengthAt(rev) == IF rev < Rev THEN BaseLen(doc.ops[rev + 1]) ELSE Len(doc.text)

Fits(rev, start, end) ==
  rev \in 0..Rev /\ 0 <= start /\ start <= end /\ end <= LengthAt(rev)

\* mapRangeFrom: <<start, end, touched>>
MapRangeFrom(rev, start, end) ==
  LET at[i \in rev..Rev] ==
        IF i = rev THEN <<start, end, FALSE>>
        ELSE LET m == MapRange(doc.ops[i], at[i-1][1], at[i-1][2])
             IN  <<m[1], m[2], at[i-1][3] \/ m[3]>>
  IN  at[Rev]

\* The elements of s that are in S, in their order.
Selected(s, S) ==
  LET kept[k \in 0..Len(s)] ==
        IF k = 0 THEN <<>> ELSE IF s[k] \in S THEN Append(kept[k-1], s[k]) ELSE kept[k-1]
  IN  kept[Len(s)]

Changed(d, e) == Selected([i \in DOMAIN e.sugs |-> i],
                          {i \in DOMAIN e.sugs : i \notin DOMAIN d.sugs \/ d.sugs[i].status # e.sugs[i].status})

-----------------------------------------------------------------------------
(* What the session tells its viewer.                                      *)

OpenOf(d) == [i \in {j \in DOMAIN d.sugs : Open(d.sugs[j])} |-> d.sugs[i]]

Tell(messages) == after' = IF joined THEN after \o messages ELSE after

SugMessages(d, ids) == [n \in DOMAIN ids |-> [t |-> "sug", id |-> ids[n], s |-> d.sugs[ids[n]]]]
Presence(agents) == [t |-> "presence", agents |-> agents]

\* session.commit
Commit(r) ==
  /\ doc' = ApplyRecord(doc, r)
  /\ log' = Append(log, r)

RangesMoved(agents, op) ==
  [i \in DOMAIN agents |-> LET m == MapRange(op, agents[i][1], agents[i][2]) IN <<m[1], m[2]>>]

\* An operation is committed: commit and afterOp.
CommitOp(r) ==
  /\ Commit(r)
  /\ shown' = RangesMoved(shown, r.op)
  /\ Tell(<<[t |-> "op", op |-> r.op]>>
            \o SugMessages(ApplyRecord(doc, r), Changed(doc, ApplyRecord(doc, r))))

\* handleOp, of a person's edit.
Edit(start, end, text) ==
  /\ alive /\ Spend("edits")
  /\ LET op == ReplaceOp(Len(doc.text), start, end, text)
     IN  /\ start <= end /\ end <= Len(doc.text) /\ ~IsNoop(op)
         /\ TargetLen(op) <= MaxDocUnits
         /\ CommitOp([k |-> "op", op |-> op, by |-> Person, accepts |-> 0])
  /\ UNCHANGED <<durable, replies, alive, joined, viewer, runs, limits, now, budget>>

\* handleHello of the viewer, which reconnects and learns all that is open.
Join ==
  /\ alive /\ Spend("joins")
  /\ joined' = TRUE
  /\ after' = <<[t |-> "init", sugs |-> OpenOf(doc), agents |-> shown]>>
  /\ wire' = <<>>
  /\ UNCHANGED <<doc, log, durable, shown, replies, alive, view, told, runs, limits, now, budget>>

-----------------------------------------------------------------------------
(* People's decisions.                                                     *)

\* Mutant: the status is not looked at.
CanAccept_Always(s) == TRUE

CanAccept(s) == s.status = "pending"

Writer(s) == s.agent

Accept(i) ==
  LET s == doc.sugs[i]
      op == ReplaceOp(Len(doc.text), IF s.placement = "after" THEN s.end ELSE s.start, s.end, s.text)
  IN  IF ~CanAccept(s)
      THEN Tell(SugMessages(doc, <<i>>)) /\ UNCHANGED <<doc, log, shown>>
      ELSE IF TargetLen(op) > MaxDocUnits THEN UNCHANGED <<doc, log, shown, after>>
      ELSE CommitOp([k |-> "op", op |-> op, by |-> Writer(s), accepts |-> i])

\* reject and dismiss
Refuse(i) ==
  LET r == [k |-> "res", sid |-> i,
            action |-> IF doc.sugs[i].status = "stale" THEN "dismissed" ELSE "rejected"]
  IN  /\ IF Open(doc.sugs[i])
         THEN Commit(r) /\ Tell(SugMessages(ApplyRecord(doc, r), <<i>>))
         ELSE UNCHANGED <<doc, log, after>>
      /\ UNCHANGED shown

\* handleResolve, of a suggestion the viewer shows.
HandleResolve(i) ==
  /\ alive /\ joined /\ i \in DOMAIN view.sugs /\ Spend("resolves")
  /\ IF i \in DOMAIN doc.sugs THEN Accept(i) \/ Refuse(i) ELSE UNCHANGED <<doc, log, shown, after>>
  /\ UNCHANGED <<durable, replies, alive, joined, viewer, runs, limits, now, budget>>

-----------------------------------------------------------------------------
(* Store.Invoke: a run of an agent, and the budget it takes.               *)

Recent == Selected(started, {at \in 0..now : now - at < Hour})

\* Invoke, up to its first question: budget.acquire.
Invoke(rev, target) ==
  /\ alive /\ Spend("invokes") /\ rev \in 0..Rev
  /\ started' = IF running < Concurrent /\ Len(Recent) < PerHour THEN Append(Recent, now) ELSE Recent
  /\ IF running < Concurrent /\ Len(Recent) < PerHour
     THEN /\ running' = running + 1
          /\ runs' = Append(runs, [pc |-> "reading", rev |-> rev, start |-> target[1], end |-> target[2],
                                   attempt |-> 1, text |-> <<>>, draft |-> <<>>, placement |-> "replace",
                                   answered |-> FALSE, lost |-> FALSE, at |-> now])
          /\ replies' = Append(replies, NoReply)
          /\ charged' = charged \cup {[run |-> Len(runs) + 1, at |-> now]}
     ELSE UNCHANGED <<running, runs, replies, charged>>
  /\ UNCHANGED <<doc, log, durable, shown, after, alive, joined, viewer, misdated, now, budget>>

\* A question a run asks the actor, not handled yet.
Asks(i, pc) == alive /\ ~runs[i].lost /\ runs[i].pc = pc /\ replies[i] = NoReply

Answer(i, run) == replies' = [replies EXCEPT ![i] = run]

\* beginRead
BeginRead(i) ==
  /\ Asks(i, "reading")
  /\ LET run == runs[i]
         m == MapRangeFrom(run.rev, run.start, run.end)
         agents == [j \in DOMAIN shown \cup {i} |-> IF j = i THEN <<m[1], m[2]>> ELSE shown[j]]
     IN  IF Fits(run.rev, run.start, run.end)
         THEN /\ shown' = agents
              /\ Tell(<<Presence(agents)>>)
              /\ Answer(i, [run EXCEPT !.pc = "thinking", !.rev = Rev, !.start = m[1], !.end = m[2],
                                       !.text = SubSeq(doc.text, m[1] + 1, m[2])])
         ELSE Answer(i, [run EXCEPT !.pc = "ending"]) /\ UNCHANGED <<shown, after>>
  /\ UNCHANGED <<doc, log, durable, alive, joined, viewer, runs, limits, now, budget, used>>

\* agent.Run returns: an error or the end of its time, nothing to suggest, or a draft.
Think(i) ==
  /\ runs[i].pc = "thinking"
  /\ LET run == runs[i]
     IN  \/ runs' = [runs EXCEPT ![i] = [run EXCEPT !.pc = "ending"]]
         \/ runs' = [runs EXCEPT ![i] = [run EXCEPT !.pc = "ending", !.answered = TRUE]]
         \/ \E text \in {<<>>, <<[by |-> Agent(i), nr |-> run.attempt]>>}, placement \in {"replace", "after"} :
              /\ ~(text = <<>> /\ (placement = "after" \/ run.start = run.end))
              /\ runs' = [runs EXCEPT ![i] = [run EXCEPT !.pc = "proposing", !.answered = TRUE,
                                                         !.draft = text, !.placement = placement]]
  /\ UNCHANGED <<session, viewer, limits, now, budget, used>>

\* Mutant: the text may have changed under the agent.
Status_Pending(touched) == "pending"

Status(touched) == IF touched THEN "stale" ELSE "pending"

\* propose
Propose(i) ==
  /\ Asks(i, "proposing")
  /\ LET run == runs[i]
         m == MapRangeFrom(run.rev, run.start, run.end)
         s == [run |-> i, agent |-> Agent(i), start |-> m[1], end |-> m[2], placement |-> run.placement,
               original |-> run.text, text |-> run.draft, status |-> Status(m[3])]
     IN  IF m[3] /\ run.attempt < maxAgentAttempts
         THEN /\ Answer(i, [run EXCEPT !.pc = "reading", !.rev = Rev, !.start = m[1], !.end = m[2],
                                       !.attempt = @ + 1])
              /\ UNCHANGED <<doc, log, after>>
         ELSE /\ Commit([k |-> "sug", s |-> s])
              /\ Tell(<<[t |-> "sug", id |-> Len(doc.sugs) + 1, s |-> s]>>)
              /\ Answer(i, [run EXCEPT !.pc = "ending"])
  /\ UNCHANGED <<durable, shown, alive, joined, viewer, runs, limits, now, budget, used>>

Without(f, i) == [j \in DOMAIN f \ {i} |-> f[j]]

\* endRun, which Invoke asks for whatever happened before.
EndRun(i) ==
  /\ Asks(i, "ending")
  /\ IF i \in DOMAIN shown
     THEN shown' = Without(shown, i) /\ Tell(<<Presence(Without(shown, i))>>)
     ELSE UNCHANGED <<shown, after>>
  /\ Answer(i, [runs[i] EXCEPT !.pc = "ended"])
  /\ UNCHANGED <<doc, log, durable, alive, joined, viewer, runs, limits, now, budget, used>>

\* Mutant: a proposal waits for a reply that nobody sends.
Failed_ButProposals(i) == runs[i].lost /\ runs[i].pc \in {"reading", "ending"}

Failed(i) == runs[i].lost /\ runs[i].pc \in {"reading", "proposing", "ending"}

\* ask on a session that died.
AskFails(i) ==
  /\ Failed(i)
  /\ runs' = [runs EXCEPT ![i].pc = IF @ = "ending" THEN "ended" ELSE "ending"]
  /\ UNCHANGED <<session, viewer, limits, now, budget, used>>

\* Mutant: no run is charged.
GivesBack_Always(run) == TRUE

GivesBack(run) == ~run.answered

\* budget.release: a run that is not charged takes the last entry out.
Release(i) ==
  /\ runs[i].pc = "ended"
  /\ runs' = [runs EXCEPT ![i].pc = "over"]
  /\ running' = running - 1
  /\ IF GivesBack(runs[i]) /\ started # <<>>
     THEN /\ started' = SubSeq(started, 1, Len(started) - 1)
          /\ misdated' = (misdated \/ started[Len(started)] # runs[i].at)
     ELSE UNCHANGED <<started, misdated>>
  /\ charged' = IF runs[i].answered THEN charged ELSE {c \in charged : c.run # i}
  /\ UNCHANGED <<session, viewer, now, budget, used>>

-----------------------------------------------------------------------------
(* The end of a batch, failures, and the viewer.                           *)

BatchDue == alive /\ (durable < Len(log) \/ after # <<>> \/ \E i \in DOMAIN runs : replies[i] # NoReply)

\* Mutant: what was collected is told before it is written.
Flush_NotWritten ==
  /\ BatchDue
  /\ wire' = wire \o after /\ after' = <<>>
  /\ runs' = [i \in DOMAIN runs |-> IF replies[i] = NoReply THEN runs[i] ELSE replies[i]]
  /\ replies' = [i \in DOMAIN runs |-> NoReply]
  /\ UNCHANGED <<doc, log, durable, shown, alive, joined, view, told, limits, now, budget, used>>

\* run, after the last event of a batch: append, then tell.
Flush ==
  /\ BatchDue
  /\ durable' = Len(log)
  /\ wire' = wire \o after /\ after' = <<>>
  /\ runs' = [i \in DOMAIN runs |-> IF replies[i] = NoReply THEN runs[i] ELSE replies[i]]
  /\ replies' = [i \in DOMAIN runs |-> NoReply]
  /\ UNCHANGED <<doc, log, shown, alive, joined, view, told, limits, now, budget, used>>

\* The session is gone; any part of the batch may be in the file.
Gone ==
  /\ alive' = FALSE /\ joined' = FALSE
  /\ \E n \in durable..Len(log) : log' = SubSeq(log, 1, n) /\ durable' = n
  /\ doc' = Fresh /\ shown' = <<>> /\ after' = <<>> /\ wire' = <<>>
  /\ replies' = [i \in DOMAIN runs |-> NoReply]
  /\ UNCHANGED <<view, told, now, budget>>

\* The append fails: the session ends, its questions fail.
Fail ==
  /\ alive /\ durable < Len(log) /\ Spend("fails")
  /\ Gone
  /\ runs' = [i \in DOMAIN runs |-> [runs[i] EXCEPT !.lost = TRUE]]
  /\ UNCHANGED limits

\* The process ends: runs and budget are gone with it.
Crash ==
  /\ alive /\ Spend("crashes")
  /\ Gone
  /\ runs' = [i \in DOMAIN runs |-> [runs[i] EXCEPT !.pc = "over"]]
  /\ started' = <<>> /\ running' = 0 /\ charged' = {} /\ misdated' = FALSE

\* openSession: the next access replays the log.
Reopen ==
  /\ ~alive /\ alive' = TRUE
  /\ doc' = Replay(log)
  /\ UNCHANGED <<log, durable, shown, after, replies, joined, viewer, runs, limits, now, budget, used>>

Put(f, i, x) == [j \in DOMAIN f \cup {i} |-> IF j = i THEN x ELSE f[j]]

\* Mutant: the viewer leaves anchors where they are.
Advanced_Not(sugs, op) == sugs

\* advance: the viewer moves anchors on its own.
Advanced(sugs, op) ==
  [i \in DOMAIN sugs |->
     LET r == MapRange(op, sugs[i].start, sugs[i].end) IN [sugs[i] EXCEPT !.start = r[1], !.end = r[2]]]

\* What the viewer shows when it has read one message more.
Shows(v, m) ==
  CASE m.t = "init"     -> [sugs |-> m.sugs, agents |-> m.agents]
    [] m.t = "presence" -> [v EXCEPT !.agents = m.agents]
    [] m.t = "op"       -> [sugs |-> Advanced(v.sugs, m.op), agents |-> RangesMoved(v.agents, m.op)]
    [] m.t = "sug"      -> [v EXCEPT !.sugs = IF Open(m.s) THEN Put(@, m.id, m.s) ELSE Without(@, m.id)]

\* receive
Receive ==
  /\ wire # <<>> /\ wire' = Tail(wire)
  /\ LET m == Head(wire)
     IN  /\ view' = Shows(view, m)
         /\ told' = told \cup IF m.t = "sug" THEN {[id |-> m.id, run |-> m.s.run, status |-> m.s.status]} ELSE {}
  /\ UNCHANGED <<session, runs, limits, now, budget, used>>

Tick ==
  /\ Spend("ticks") /\ now' = now + 1
  /\ UNCHANGED <<session, viewer, runs, limits, budget>>

-----------------------------------------------------------------------------
SeedLog == <<[k |-> "op", op |-> Insert(<<>>, Seed), by |-> Person, accepts |-> 0]>>

Init ==
  /\ log = SeedLog /\ durable = Len(log) /\ doc = Replay(log)
  /\ shown = <<>> /\ after = <<>> /\ replies = <<>> /\ alive = TRUE /\ joined = FALSE
  /\ wire = <<>> /\ view = [sugs |-> <<>>, agents |-> <<>>] /\ told = {}
  /\ runs = <<>> /\ started = <<>> /\ running = 0 /\ now = 0 /\ charged = {} /\ misdated = FALSE
  /\ budget \in Budgets /\ used = [what \in DOMAIN budget \ {"targets"} |-> 0]

\* What a person types next: one new unit, or nothing.
Typing == {<<>>, <<[by |-> Person, nr |-> used.edits + 1]>>}

Next ==
  \/ \E start, end \in 0..Len(doc.text), text \in Typing : Edit(start, end, text)
  \/ Join \/ Flush \/ Fail \/ Crash \/ Reopen \/ Receive \/ Tick
  \/ \E i \in DOMAIN view.sugs : HandleResolve(i)
  \/ \E rev \in 0..Rev, target \in budget.targets : Invoke(rev, target)
  \/ \E i \in DOMAIN runs :
       \/ BeginRead(i) \/ Think(i) \/ Propose(i) \/ EndRun(i) \/ AskFails(i) \/ Release(i)

Spec == Init /\ [][Next]_vars

\* A run whose next step waits for nobody but the scheduler and, at most agentTimeout,
\* its agent; and a step of it.
CanWork(i) ==
  \/ runs[i].pc \in {"thinking", "ended"} \/ Failed(i)
  \/ \E pc \in {"reading", "proposing", "ending"} : Asks(i, pc)

Works(i) == replies[i] = NoReply /\ <<runs'[i].pc, replies'[i]>> # <<runs[i].pc, NoReply>>

\* The actor ends its batches, an access finds the session again, and runs go on: weak
\* fairness of Flush, of Reopen and of the steps of runs, their guards written out.
FairSpec ==
  /\ Spec
  /\ []<>~BatchDue /\ []<>alive
  /\ []<>(\A i \in DOMAIN runs : ~CanWork(i)) \/ []<><<\E i \in DOMAIN runs : Works(i)>>_vars

-----------------------------------------------------------------------------
(* What must hold.                                                         *)

\* Anchors lie in the text and runs have their replies in the same batch.
TypeOK ==
  /\ durable <= Len(log) /\ Len(replies) = Len(runs)
  /\ \A i \in DOMAIN doc.sugs :
       /\ doc.sugs[i].status \in {"pending", "stale", "accepted", "rejected", "dismissed"}
       /\ Open(doc.sugs[i]) =>
            0 <= doc.sugs[i].start /\ doc.sugs[i].start <= doc.sugs[i].end /\ doc.sugs[i].end <= Len(doc.text)
  /\ Len(doc.attr) = Len(doc.text)

\* Every character is credited to the person who typed it or the agent that wrote it,
\* however it moved and whoever accepted it (applyAttribution).
CreditWhereDue ==
  \A j \in DOMAIN doc.text : doc.attr[j] = doc.text[j].by

\* A suggestion that can be accepted stands on exactly the text its agent read, whatever
\* was edited, accepted, retried or replayed since (propose, applyOp: "becomes stale"); and
\* what is accepted is credited to its agent.
PendingStandsOnWhatWasRead ==
  /\ TypeOK
  /\ \A i \in DOMAIN doc.sugs :
       LET s == doc.sugs[i] IN s.status = "pending" => SubSeq(doc.text, s.start + 1, s.end) = s.original
  /\ CreditWhereDue

Decides(r, i) == (r.k = "op" /\ r.accepts = i) \/ (r.k = "res" /\ r.sid = i)

\* The log settles a suggestion at most once: two people who decide, on views that lag,
\* and a crash in between do not apply it twice (handleResolve).
SettledOnce ==
  \A i \in DOMAIN doc.sugs : \A m, n \in DOMAIN log :
    Decides(log[m], i) /\ Decides(log[n], i) => m = n

\* What a viewer was told of a suggestion the log bears out after any failure: it is the
\* suggestion of that run, and what was settled stays settled the same way.
ToldIsDurable ==
  \A t \in told :
    LET d == Replay(SubSeq(log, 1, durable))
    IN  /\ t.id \in DOMAIN d.sugs /\ d.sugs[t.id].run = t.run
        /\ t.status \notin {"pending", "stale"} => d.sugs[t.id].status = t.status

\* A decision is taken once and lasts: SettledOnce, and what anybody was told of it.
DecisionsStand == SettledOnce /\ ToldIsDurable

\* An agent is shown where its proposal would land, and no run that is over is shown.
ShownWhereItPosts ==
  \A i \in DOMAIN shown :
    /\ runs[i].pc \notin {"ended", "over"}
    /\ runs[i].pc \in {"thinking", "proposing"} =>
         LET m == MapRangeFrom(runs[i].rev, runs[i].start, runs[i].end) IN shown[i] = <<m[1], m[2]>>

\* A viewer with nothing left to read shows the open suggestions at their places and the
\* agents at work where they will post, though it moved the anchors on its own (collab.js,
\* advance; session.afterOp).
ViewAgrees ==
  /\ ShownWhereItPosts
  /\ joined /\ after = <<>> /\ wire = <<>> => view.sugs = OpenOf(doc) /\ view.agents = shown

\* No more runs at once than allowed, each counted until it is released, and no more
\* charged ones in an hour, as long as no run gave back the entry of another.
WithinBudget ==
  /\ running = Cardinality({i \in DOMAIN runs : runs[i].pc # "over"}) /\ running <= Concurrent
  /\ ~misdated => Cardinality({c \in charged : now - c.at < Hour}) <= PerHour

\* Every run ends and gives back its place, whatever fails (Invoke's deferred calls).
EveryRunEnds == \A i \in 1..3 : (i \in DOMAIN runs) ~> (i \in DOMAIN runs /\ runs[i].pc = "over")
=============================================================================
