---------------------------- MODULE CollabProofs ----------------------------
(***************************************************************************)
(* What the document actor promises, proved for any number of clients,     *)
(* connections, edits and crashes.  The argument is one inductive          *)
(* invariant, Promises (Collab.tla): memory is the log and perhaps a batch *)
(* more, everything waiting to be said is true of memory, and everything   *)
(* said is true of the log.  Nothing is assumed of what clients hold or    *)
(* send, nor of what Transform computes: their operators stay unexpanded.  *)
(***************************************************************************)
EXTENDS Collab, TLAPS

-----------------------------------------------------------------------------
(* Sequences of anything: Append, \o, Tail and SubSeq keep them sequences. *)

\* A sequence over any set is one over its own elements.
LEMMA SeqIsSeq == ASSUME NEW S, NEW s \in Seq(S) PROVE IsSeq(s)
  <1> DEFINE R == {s[i] : i \in 1..Len(s)}
  <1>1. Len(s) \in Nat /\ s = [i \in 1..Len(s) |-> s[i]]
    OBVIOUS
  <1>2. s \in [1..Len(s) -> R]
    BY <1>1
  <1>3. s \in Seq(R)
    BY <1>1, <1>2
  <1> QED BY <1>3 DEF IsSeq

\* Appending keeps the earlier elements (docState.apply, state.go:222-226).
LEMMA AppendIsSeq ==
  ASSUME NEW s, IsSeq(s), NEW e
  PROVE  /\ IsSeq(Append(s, e))
         /\ Len(Append(s, e)) = Len(s) + 1 /\ Len(s) \in Nat
         /\ \A i \in 1..Len(s) : Append(s, e)[i] = s[i]
         /\ Append(s, e)[Len(s) + 1] = e
  <1> DEFINE R == {s[i] : i \in 1..Len(s)}
             T == R \cup {e}
  <1>1. s \in Seq(R) BY DEF IsSeq
  <1>2. s \in Seq(T)
    <2>1. Len(s) \in Nat /\ s \in [1..Len(s) -> R] BY <1>1
    <2>2. s \in [1..Len(s) -> T] BY <2>1
    <2> QED BY <2>1, <2>2
  <1> HIDE DEF T
  <1>3. e \in T BY DEF T
  <1>4. Append(s, e) \in Seq(T) BY <1>2, <1>3
  <1>5. IsSeq(Append(s, e)) BY <1>4, SeqIsSeq
  <1> QED BY <1>2, <1>3, <1>5

\* Concatenating keeps both parts in place (conn.enqueue, session.go:59-66).
LEMMA ConcatIsSeq ==
  ASSUME NEW s, NEW t, IsSeq(s), IsSeq(t)
  PROVE  /\ IsSeq(s \o t)
         /\ Len(s) \in Nat /\ Len(t) \in Nat /\ Len(s \o t) = Len(s) + Len(t)
         /\ \A i \in 1..Len(s) : (s \o t)[i] = s[i]
         /\ \A i \in Len(s) + 1..Len(s) + Len(t) : (s \o t)[i] = t[i - Len(s)]
  <1> DEFINE T == {s[i] : i \in 1..Len(s)} \cup {t[i] : i \in 1..Len(t)}
  <1>1. s \in Seq(T)
    <2>1. Len(s) \in Nat /\ s \in [1..Len(s) -> {s[i] : i \in 1..Len(s)}] BY DEF IsSeq
    <2>2. s \in [1..Len(s) -> T] BY <2>1
    <2> QED BY <2>1, <2>2
  <1>2. t \in Seq(T)
    <2>1. Len(t) \in Nat /\ t \in [1..Len(t) -> {t[i] : i \in 1..Len(t)}] BY DEF IsSeq
    <2>2. t \in [1..Len(t) -> T] BY <2>1
    <2> QED BY <2>1, <2>2
  <1> HIDE DEF T
  <1>3. s \o t \in Seq(T) BY <1>1, <1>2
  <1>4. IsSeq(s \o t) BY <1>3, SeqIsSeq
  <1> QED BY <1>1, <1>2, <1>4

\* Taking the next message leaves the others in order.
LEMMA TailIsSeq ==
  ASSUME NEW s, IsSeq(s), s # <<>>
  PROVE  /\ IsSeq(Tail(s)) /\ Len(s) \in Nat \ {0} /\ Head(s) = s[1]
         /\ Len(Tail(s)) = Len(s) - 1
         /\ \A i \in 1..Len(s) - 1 : Tail(s)[i] = s[i + 1]
  <1> DEFINE R == {s[i] : i \in 1..Len(s)}
  <1>1. s \in Seq(R) BY DEF IsSeq
  <1> HIDE DEF R
  <1>2. Tail(s) \in Seq(R) BY <1>1
  <1>3. IsSeq(Tail(s)) BY <1>2, SeqIsSeq
  <1> QED BY <1>1, <1>3

\* What a crash leaves of a log is a prefix of it (oplog.go:87-113).
LEMMA SubSeqIsSeq ==
  ASSUME NEW s, IsSeq(s), NEW n \in 0..Len(s)
  PROVE  /\ IsSeq(SubSeq(s, 1, n)) /\ Len(s) \in Nat
         /\ Len(SubSeq(s, 1, n)) = n
         /\ \A i \in 1..n : SubSeq(s, 1, n)[i] = s[i]
  <1> DEFINE R == {s[i] : i \in 1..Len(s)}
  <1>1. s \in Seq(R) BY DEF IsSeq
  <1> HIDE DEF R
  <1>2. Len(s) \in Nat /\ \A i \in 1..Len(s) : s[i] \in R BY <1>1
  <1>3. SubSeq(s, 1, n) \in Seq(R) /\ Len(SubSeq(s, 1, n)) = n
        /\ \A i \in 1..n : SubSeq(s, 1, n)[i] = s[i]
    BY <1>1, <1>2
  <1>4. IsSeq(SubSeq(s, 1, n)) BY <1>3, SeqIsSeq
  <1> QED BY <1>2, <1>3, <1>4

\* An empty batch is a sequence.
LEMMA EmptyIsSeq == IsSeq(<<>>) /\ Len(<<>>) = 0
  <1>1. <<>> \in Seq({}) OBVIOUS
  <1> QED BY <1>1, SeqIsSeq

-----------------------------------------------------------------------------
(* What a message says stays true as the history it speaks of grows.       *)

Extends(g, h) ==
  /\ Len(h) \in Nat /\ Len(g) \in Nat /\ Len(h) <= Len(g)
  /\ \A i \in 1..Len(h) : g[i] = h[i]

\* What a message says of a history stays true of a longer one: nothing is ever
\* rewritten (docState.apply, state.go:222-226).
LEMMA AgreesLater ==
  ASSUME NEW g, NEW h, Extends(g, h), NEW k, NEW m, Agrees(h, k, m)
  PROVE  Agrees(g, k, m)
  <1>1. \A o : Own(h, k, o) => Own(g, k, o)
    BY DEF Own, Extends
  <1> QED BY <1>1 DEF Agrees, Extends

\* So does everything that is waiting or under way.
LEMMA AllAgreeLater ==
  ASSUME NEW g, NEW h, Extends(g, h), NEW said, AllAgree(h, said)
  PROVE  AllAgree(g, said)
  BY AgreesLater DEF AllAgree

\* Saying nothing is true of any history.
LEMMA SilentAgrees == ASSUME NEW h PROVE AllAgree(h, Silent)
  BY EmptyIsSeq DEF AllAgree, Silent

\* One more true message in a batch (session.send, session.go:397-400).
LEMMA MessageAdded ==
  ASSUME NEW h, NEW said, DOMAIN said = Conns, AllAgree(h, said),
         NEW k \in Conns, NEW m, Agrees(h, k, m)
  PROVE  AllAgree(h, [said EXCEPT ![k] = Append(@, m)])
  <1> DEFINE after == [said EXCEPT ![k] = Append(@, m)]
  <1>1. \A j \in Conns \ {k} : after[j] = said[j]
    OBVIOUS
  <1>2. after[k] = Append(said[k], m)
    OBVIOUS
  <1>3. IsSeq(said[k]) /\ \A i \in 1..Len(said[k]) : Agrees(h, k, said[k][i])
    BY DEF AllAgree
  <1>4. IsSeq(Append(said[k], m))
        /\ \A i \in 1..Len(Append(said[k], m)) : Agrees(h, k, Append(said[k], m)[i])
    BY <1>3, AppendIsSeq
  <1> QED BY <1>1, <1>2, <1>4 DEF AllAgree

\* A batch delivered behind what is already under way (run, session.go:251-256).
LEMMA BatchAdded ==
  ASSUME NEW h, NEW k, NEW s, NEW t, IsSeq(s), IsSeq(t),
         \A i \in 1..Len(s) : Agrees(h, k, s[i]),
         \A i \in 1..Len(t) : Agrees(h, k, t[i])
  PROVE  IsSeq(s \o t) /\ \A i \in 1..Len(s \o t) : Agrees(h, k, (s \o t)[i])
  <1> DEFINE st == s \o t
  <1>1. /\ IsSeq(st) /\ Len(s) \in Nat /\ Len(t) \in Nat /\ Len(st) = Len(s) + Len(t)
        /\ \A i \in 1..Len(s) : st[i] = s[i]
        /\ \A i \in Len(s) + 1..Len(s) + Len(t) : st[i] = t[i - Len(s)]
    BY ConcatIsSeq
  <1> HIDE DEF st
  <1>2. ASSUME NEW i \in 1..Len(st) PROVE Agrees(h, k, st[i])
    <2>1. CASE i \in 1..Len(s)
      BY <1>1, <2>1
    <2>2. CASE i \in Len(s) + 1..Len(s) + Len(t)
      <3>1. i - Len(s) \in 1..Len(t)
        BY <1>1, <2>2
      <3> QED BY <1>1, <2>2, <3>1
    <2> QED BY <1>1, <1>2, <2>1, <2>2
  <1>3. IsSeq(st) /\ \A i \in 1..Len(st) : Agrees(h, k, st[i])
    BY <1>1, <1>2
  <1> QED BY <1>3 DEF st

\* Memory extends the log.
LEMMA LogLength == MemoryExtendsLog => Extends(hist, disk)
  <1>1. ASSUME MemoryExtendsLog PROVE Len(hist) \in Nat /\ Len(disk) \in Nat
    BY <1>1 DEF MemoryExtendsLog, IsSeq
  <1> QED BY <1>1 DEF Extends, MemoryExtendsLog

-----------------------------------------------------------------------------
(* Every step keeps the promises.                                          *)

\* A new document: the template is in memory and in the log (Store.Create).
LEMMA InitPromises == Init => Promises
  <1> SUFFICES ASSUME Init PROVE Promises OBVIOUS
  <1> DEFINE e == [op |-> Insert(<<>>, Seed), client |-> None, id |-> NoId]
  <1> HIDE DEF e
  <1>1. hist = <<e>> /\ disk = <<e>> /\ e.id = NoId
    BY DEF Init, SeedHistory, e
  <1>2. <<e>> \in Seq({e}) /\ Len(<<e>>) = 1
    OBVIOUS
  <1>3. IsSeq(<<e>>)
    BY <1>2, SeqIsSeq
  <1>4. MemoryExtendsLog
    BY <1>1, <1>2, <1>3 DEF MemoryExtendsLog
  <1>5. out = Silent /\ down = Silent
    BY DEF Init, Silent
  <1>6. acked \subseteq Committed
    BY DEF Init
  <1> QED BY <1>4, <1>5, <1>6, SilentAgrees DEF Promises, Silent

\* handleHello keeps the promises: a catch-up shows a client only its own ids.
LEMMA HelloPromises ==
  ASSUME Promises, NEW k \in Conns, NEW m, HandleHello(k, m), UNCHANGED <<disk, down, acked>>,
         alive' = alive, alive
  PROVE  Promises'
  <1> DEFINE reply == IF m.rev \in 0..Len(hist)
                      THEN [t |-> "catchup", rev |-> Len(hist), ops |-> Missed(Owner(k), m.rev)]
                      ELSE [t |-> "text", rev |-> Len(hist), text |-> Text]
  <1>1. Len(hist) \in Nat
    BY LogLength DEF Promises, Extends
  <1>2. ASSUME m.rev \in 0..Len(hist)
        PROVE  \A i \in DOMAIN Missed(Owner(k), m.rev) :
                 Own(hist, k, Missed(Owner(k), m.rev)[i])
    <2> DEFINE o(i) == Missed(Owner(k), m.rev)[i]
    <2>1. DOMAIN Missed(Owner(k), m.rev) = 1..Len(hist) - m.rev
      BY DEF Missed
    <2> SUFFICES ASSUME NEW i \in 1..Len(hist) - m.rev PROVE Own(hist, k, o(i))
      BY <2>1
    <2>2. /\ o(i).rev = m.rev + i
          /\ o(i).id = IF hist[m.rev + i].client = Owner(k) THEN hist[m.rev + i].id ELSE NoId
      BY DEF Missed
    <2>3. m.rev + i \in 1..Len(hist)
      BY <1>1, <1>2
    <2> HIDE DEF o
    <2> QED BY <2>2, <2>3 DEF Own
  <1>3. Agrees(hist, k, reply)
    BY <1>1, <1>2 DEF Agrees
  <1>4. out' = [out EXCEPT ![k] = Append(@, reply)] /\ hist' = hist
    BY DEF HandleHello, Say
  <1> HIDE DEF reply
  <1>5. DOMAIN out' = Conns /\ AllAgree(hist, out')
    BY <1>3, <1>4, MessageAdded DEF Promises
  <1>6. MemoryExtendsLog' /\ Committed' = Committed
    BY <1>4 DEF Promises, MemoryExtendsLog, Committed
  <1> QED BY <1>4, <1>5, <1>6 DEF Promises

\* reject keeps the promises.
LEMMA RejectPromises ==
  ASSUME Promises, NEW k \in Conns, Reject(k), UNCHANGED <<disk, down, acked>>,
         alive' = alive, alive
  PROVE  Promises'
  <1> DEFINE reply == [t |-> "error"]
  <1>1. Agrees(hist, k, reply)
    BY DEF Agrees
  <1>2. out' = [out EXCEPT ![k] = Append(@, reply)] /\ hist' = hist
    BY DEF Reject, Say
  <1> HIDE DEF reply
  <1>3. DOMAIN out' = Conns /\ AllAgree(hist, out')
    BY <1>1, <1>2, MessageAdded DEF Promises
  <1>4. MemoryExtendsLog' /\ Committed' = Committed
    BY <1>2 DEF Promises, MemoryExtendsLog, Committed
  <1> QED BY <1>2, <1>3, <1>4 DEF Promises

\* commit and afterOp keep the promises: the new revision is one nobody committed
\* before, and what is said of it is true of memory.
LEMMA CommitPromises ==
  ASSUME Promises, NEW k \in Conns, NEW op, NEW id, Commit(k, op, id),
         id # NoId, <<Owner(k), id>> \notin Names(hist),
         UNCHANGED <<disk, down, acked>>, alive' = alive, alive
  PROVE  Promises'
  <1> DEFINE e == [op |-> op, client |-> Owner(k), id |-> id]
             n == Len(hist) + 1
             ack == [t |-> "ack", rev |-> n, id |-> id]
             Echo(j) == [t |-> "op", rev |-> n, op |-> op,
                         id |-> IF Owner(j) = Owner(k) THEN id ELSE NoId]
  <1>1. hist' = Append(hist, e)
    BY DEF Commit
  <1>2. out' = [j \in Conns |-> IF j = k THEN Append(out[j], ack)
                                ELSE IF j \in Joined THEN Append(out[j], Echo(j))
                                ELSE out[j]]
    BY DEF Commit
  <1>3. e.client = Owner(k) /\ e.id = id
    OBVIOUS
  <1>4. Owner(k) \in Client
    BY DEF Conns, Owner
  <1>5. IsSeq(hist) /\ Len(hist) \in Nat
    BY LogLength DEF Promises, MemoryExtendsLog, Extends
  <1> HIDE DEF e
  <1>6. /\ IsSeq(hist') /\ Len(hist') = n
        /\ \A i \in 1..Len(hist) : hist'[i] = hist[i]
        /\ hist'[n] = e
    BY <1>1, <1>5, AppendIsSeq
  <1>7. Extends(hist', hist)
    BY <1>5, <1>6 DEF Extends
  <1>8. \A i \in 1..Len(hist) : <<hist[i].client, hist[i].id>> # <<Owner(k), id>>
    <2>1. DOMAIN hist = 1..Len(hist)
      BY <1>5 DEF IsSeq
    <2> QED BY <2>1 DEF Names
  <1>9. MemoryExtendsLog'
    <2>1. IsSeq(disk') /\ 1 <= Len(disk') /\ Len(disk') <= Len(hist') /\ Len(disk) \in Nat
          /\ \A i \in 1..Len(disk') : disk'[i] = hist'[i]
          /\ hist'[1].id = NoId
      BY <1>5, <1>6, LogLength DEF Promises, MemoryExtendsLog, Extends
    <2>2. \A i \in 2..Len(hist') : hist'[i].client \in Client /\ hist'[i].id # NoId
      <3> SUFFICES ASSUME NEW i \in 2..n PROVE hist'[i].client \in Client /\ hist'[i].id # NoId
        BY <1>6
      <3>1. CASE i = n BY <3>1, <1>3, <1>4, <1>6
      <3>2. CASE i \in 2..Len(hist)
        BY <3>2, <1>5, <1>6 DEF Promises, MemoryExtendsLog
      <3> QED BY <3>1, <3>2, <1>5
    <2>3. \A i, j \in 1..Len(hist') :
            i # j => <<hist'[i].client, hist'[i].id>> # <<hist'[j].client, hist'[j].id>>
      <3> SUFFICES ASSUME NEW i \in 1..n, NEW j \in 1..n, i # j
                   PROVE  <<hist'[i].client, hist'[i].id>> # <<hist'[j].client, hist'[j].id>>
        BY <1>6
      <3>1. CASE i = n BY <3>1, <1>3, <1>5, <1>6, <1>8
      <3>2. CASE j = n BY <3>2, <1>3, <1>5, <1>6, <1>8
      <3>3. CASE i \in 1..Len(hist) /\ j \in 1..Len(hist)
        BY <3>3, <1>6 DEF Promises, MemoryExtendsLog
      <3> QED BY <3>1, <3>2, <3>3, <1>5
    <2> QED BY <1>6, <2>1, <2>2, <2>3 DEF MemoryExtendsLog
  <1>10. Agrees(hist', k, ack)
    BY <1>3, <1>5, <1>6 DEF Agrees, Own
  <1>11. \A j \in Conns : Agrees(hist', j, Echo(j))
    BY <1>3, <1>5, <1>6 DEF Agrees, Own
  <1>12. AllAgree(hist', out)
    BY <1>7, AllAgreeLater DEF Promises
  <1> HIDE DEF ack, Echo
  <1>13. AllAgree(hist', out')
    <2> SUFFICES ASSUME NEW j \in Conns
                 PROVE  IsSeq(out'[j])
                        /\ \A i \in 1..Len(out'[j]) : Agrees(hist', j, out'[j][i])
      BY DEF AllAgree
    <2>1. IsSeq(out[j]) /\ \A i \in 1..Len(out[j]) : Agrees(hist', j, out[j][i])
      BY <1>12 DEF AllAgree
    <2>2. ASSUME NEW m, Agrees(hist', j, m), out'[j] = Append(out[j], m)
          PROVE  IsSeq(out'[j]) /\ \A i \in 1..Len(out'[j]) : Agrees(hist', j, out'[j][i])
      BY <2>1, <2>2, AppendIsSeq
    <2>3. out'[j] = out[j] \/ out'[j] = Append(out[j], Echo(j))
          \/ (j = k /\ out'[j] = Append(out[j], ack))
      BY <1>2
    <2> QED BY <2>1, <2>2, <2>3, <1>10, <1>11
  <1>14. Committed' = Committed /\ DOMAIN out' = Conns
    BY <1>2 DEF Committed
  <1> QED BY <1>9, <1>13, <1>14 DEF Promises

\* handle keeps the promises, whatever the message says.
LEMMA HandlePromises ==
  ASSUME Promises, NEW k \in Conns, Handle(k)
  PROVE  Promises'
  <1> DEFINE m == Head(up[k])
  <1>1. alive /\ alive' = alive /\ UNCHANGED <<disk, down, acked>>
    BY DEF Handle, CanHandle, clients
  <1>2. HandleHello(k, m) \/ HandleOp(k, m) \/ Reject(k)
    BY DEF Handle
  <1> HIDE DEF m
  <1>3. CASE HandleHello(k, m)
    BY <1>1, <1>3, HelloPromises
  <1>4. CASE Reject(k)
    BY <1>1, <1>4, RejectPromises
  <1>5. CASE HandleOp(k, m)
    <2> DEFINE op == CatchUp(m.op, m.rev)
    <2>1. \/ UNCHANGED <<hist, out, phase>>
          \/ Reject(k)
          \/ /\ Commit(k, op, m.id) /\ m.id # NoId
             /\ <<Owner(k), m.id>> \notin Names(hist)
      BY <1>5 DEF HandleOp
    <2> HIDE DEF op
    <2>2. CASE UNCHANGED <<hist, out, phase>>
      BY <1>1, <2>2 DEF Promises, MemoryExtendsLog, Committed
    <2>3. CASE Reject(k)
      BY <1>1, <2>3, RejectPromises
    <2>4. CASE /\ Commit(k, op, m.id) /\ m.id # NoId
               /\ <<Owner(k), m.id>> \notin Names(hist)
      BY <1>1, <2>4, CommitPromises
    <2> QED BY <2>1, <2>2, <2>3, <2>4
  <1> QED BY <1>2, <1>3, <1>4, <1>5

\* A log that grows to another beginning of memory keeps what it was.
LEMMA LogGrows ==
  ASSUME Promises, UNCHANGED hist, Extends(disk', disk), Extends(hist, disk'), IsSeq(disk')
  PROVE  /\ MemoryExtendsLog'
         /\ AllAgree(disk', down)
         /\ Committed \subseteq Committed'
  <1>1. MemoryExtendsLog'
    BY DEF Promises, MemoryExtendsLog, Extends
  <1>2. AllAgree(disk', down)
    BY AllAgreeLater DEF Promises
  <1>3. DOMAIN disk = 1..Len(disk) /\ DOMAIN disk' = 1..Len(disk')
    BY DEF Promises, MemoryExtendsLog, IsSeq
  <1>4. Committed \subseteq Committed'
    BY <1>3 DEF Committed, Extends
  <1> QED BY <1>1, <1>2, <1>4

\* run keeps the promises: the log becomes all of memory before anything is said.
LEMMA FlushPromises == ASSUME Promises, Flush PROVE Promises'
  <1>1. /\ disk' = hist /\ hist' = hist /\ out' = Silent /\ alive' = alive
        /\ acked' = acked
        /\ down' = [k \in Conns |-> IF InUse(k) THEN down[k] \o out[k] ELSE down[k]]
    BY DEF Flush, Delivered, clients
  <1>2. Extends(hist, disk) /\ Extends(hist, hist) /\ IsSeq(hist)
    BY LogLength DEF Promises, MemoryExtendsLog, Extends
  <1>3. MemoryExtendsLog' /\ AllAgree(hist, down) /\ Committed \subseteq Committed'
    BY <1>1, <1>2, LogGrows
  <1>4. AllAgree(hist, down')
    <2> SUFFICES ASSUME NEW k \in Conns
                 PROVE  IsSeq(down'[k]) /\ \A i \in 1..Len(down'[k]) : Agrees(hist, k, down'[k][i])
      BY DEF AllAgree
    <2>1. IsSeq(down[k]) /\ \A i \in 1..Len(down[k]) : Agrees(hist, k, down[k][i])
      BY <1>3 DEF AllAgree
    <2>2. IsSeq(out[k]) /\ \A i \in 1..Len(out[k]) : Agrees(hist, k, out[k][i])
      BY DEF AllAgree, Promises
    <2>3. CASE InUse(k)
      <3>1. down'[k] = down[k] \o out[k] BY <1>1, <2>3
      <3> QED BY <2>1, <2>2, <3>1, BatchAdded
    <2>4. CASE ~InUse(k)
      BY <1>1, <2>1, <2>4
    <2> QED BY <2>3, <2>4
  <1>5. acked' \subseteq Committed'
    BY <1>1, <1>3 DEF Promises
  <1> QED BY <1>1, <1>3, <1>4, <1>5, SilentAgrees DEF Promises, Silent

\* A failed append or a crash keeps the promises, whatever part of the batch the
\* file holds.
LEMMA FailPromises == ASSUME Promises, Fail PROVE Promises'
  <1>1. UNCHANGED <<hist, down, acked>> /\ out' = Silent
    BY DEF Fail, clients
  <1>2. PICK n \in Len(disk)..Len(hist) : disk' = SubSeq(hist, 1, n)
    BY DEF Fail
  <1>3. Extends(hist, disk)
    BY LogLength DEF Promises
  <1>4. n \in 0..Len(hist)
    BY <1>3 DEF Extends
  <1>5. /\ IsSeq(disk') /\ Len(disk') = n /\ \A i \in 1..n : disk'[i] = hist[i]
    BY <1>2, <1>4, SubSeqIsSeq DEF Promises, MemoryExtendsLog
  <1>6. Extends(disk', disk) /\ Extends(hist, disk')
    BY <1>2, <1>3, <1>4, <1>5 DEF Extends
  <1>7. MemoryExtendsLog' /\ AllAgree(disk', down) /\ Committed \subseteq Committed'
    BY <1>1, <1>5, <1>6, LogGrows
  <1> QED BY <1>1, <1>7, SilentAgrees DEF Promises, Silent

\* Rebuilding the session from the log keeps the promises.
LEMMA ReopenPromises == ASSUME Promises, Reopen PROVE Promises'
  <1>1. hist' = disk /\ UNCHANGED <<disk, out, down, acked>> /\ out = Silent
    BY DEF Reopen, network, clients, Promises
  <1>2. MemoryExtendsLog'
    <2>1. Len(disk) \in Nat /\ Len(hist) \in Nat
      BY LogLength DEF Promises, Extends
    <2> QED BY <1>1, <2>1 DEF Promises, MemoryExtendsLog
  <1>3. Committed' = Committed
    BY <1>1 DEF Committed
  <1> QED BY <1>1, <1>2, <1>3, SilentAgrees DEF Promises, Silent

\* A connection that leaves keeps the promises.
LEMMA HangUpPromises == ASSUME Promises, NEW k \in Conns, HangUp(k) PROVE Promises'
  <1>1. UNCHANGED <<hist, disk, down, acked, alive>> /\ alive
        /\ out' = [out EXCEPT ![k] = <<>>]
    BY DEF HangUp, CanHangUp, clients
  <1>2. DOMAIN out' = Conns /\ AllAgree(hist, out')
    BY <1>1, EmptyIsSeq DEF Promises, AllAgree
  <1>3. MemoryExtendsLog' /\ Committed' = Committed
    BY <1>1 DEF Promises, MemoryExtendsLog, Committed
  <1> QED BY <1>1, <1>2, <1>3 DEF Promises

\* A client that becomes anything at all changes only what it has yet to hear.
LEMMA BecomePromises ==
  ASSUME Promises, NEW c \in Client, NEW k, NEW heard, Become(c, k, heard),
         <<c, sock[c]>> \in Conns =>
           /\ IsSeq(heard)
           /\ \A i \in 1..Len(heard) : Agrees(disk, <<c, sock[c]>>, heard[i]),
         acked' \subseteq Committed
  PROVE  Promises'
  <1> DEFINE conn == <<c, sock[c]>>
  <1>1. UNCHANGED <<hist, disk, out, alive>>
    BY DEF Become
  <1>2. down' = IF conn \in Conns
                THEN [down EXCEPT ![conn] = IF k.quits THEN <<>> ELSE heard] ELSE down
    BY DEF Become
  <1> HIDE DEF conn
  <1>3. conn \in Conns =>
           IsSeq(heard) /\ \A i \in 1..Len(heard) : Agrees(disk, conn, heard[i])
    BY DEF conn
  <1>4. DOMAIN down' = Conns /\ AllAgree(disk, down')
    BY <1>2, <1>3, EmptyIsSeq DEF Promises, AllAgree
  <1>5. MemoryExtendsLog' /\ Committed' = Committed
    BY <1>1 DEF Promises, MemoryExtendsLog, Committed
  <1> QED BY <1>1, <1>4, <1>5 DEF Promises

\* What a client has yet to hear is true of the log.
LEMMA HeardAgrees ==
  ASSUME Promises, NEW c \in Client
  PROVE  /\ IsSeq(Heard(c))
         /\ \A i \in 1..Len(Heard(c)) : Agrees(disk, <<c, sock[c]>>, Heard(c)[i])
  <1>1. CASE sock[c] \in Slot
    <2>1. <<c, sock[c]>> \in Conns /\ Heard(c) = down[<<c, sock[c]>>]
      BY <1>1 DEF Conns, Heard
    <2> QED BY <2>1 DEF Promises, AllAgree
  <1>2. CASE sock[c] \notin Slot
    BY <1>2, EmptyIsSeq DEF Heard
  <1> QED BY <1>1, <1>2

\* What a message tells a client is committed, the log holds.
LEMMA ToldIsCommitted ==
  ASSUME Promises, NEW c \in Client, NEW s, NEW m, Agrees(disk, <<c, s>>, m)
  PROVE  Told(c, m) \subseteq Committed
  <1>1. Len(disk) \in Nat /\ DOMAIN disk = 1..Len(disk)
    BY LogLength DEF Promises, MemoryExtendsLog, Extends, IsSeq
  <1>2. disk[1].id = NoId
    BY <1>1 DEF Promises, MemoryExtendsLog
  <1>3. ASSUME NEW o, Own(disk, <<c, s>>, o), o.id # NoId
        PROVE  <<c, o.id>> \in Committed
    BY <1>1, <1>2, <1>3 DEF Own, Owner, Committed
  <1> QED BY <1>3 DEF Told, Agrees

\* A client that handles a message (receive) keeps the promises.
LEMMA ReceivePromises == ASSUME Promises, NEW c \in Client, Receive(c) PROVE Promises'
  <1> DEFINE h == Heard(c)
             m == Head(h)
             k == Received(cl[c], m)
  <1>1. h # <<>> /\ Become(c, k, Tail(h)) /\ acked' = acked \cup Told(c, m)
    BY DEF Receive
  <1>2. IsSeq(h) /\ \A i \in 1..Len(h) : Agrees(disk, <<c, sock[c]>>, h[i])
    BY HeardAgrees
  <1> HIDE DEF h, k
  <1>3. /\ IsSeq(Tail(h)) /\ Len(h) \in Nat \ {0} /\ m = h[1]
        /\ Len(Tail(h)) = Len(h) - 1
        /\ \A i \in 1..Len(h) - 1 : Tail(h)[i] = h[i + 1]
    BY <1>1, <1>2, TailIsSeq
  <1> DEFINE rest == Tail(h)
  <1> HIDE DEF m, rest
  <1>4. IsSeq(rest) /\ \A i \in 1..Len(rest) : Agrees(disk, <<c, sock[c]>>, rest[i])
    BY <1>2, <1>3 DEF rest
  <1>5. Agrees(disk, <<c, sock[c]>>, m)
    BY <1>2, <1>3
  <1>6. acked' \subseteq Committed
    BY <1>1, <1>5, ToldIsCommitted DEF Promises
  <1>7. Become(c, k, rest)
    BY <1>1 DEF rest
  <1> QED BY <1>4, <1>6, <1>7, BecomePromises

\* A client that edits (applyLocal) keeps the promises.
LEMMA ApplyLocalPromises == ASSUME Promises, NEW c \in Client, ApplyLocal(c) PROVE Promises'
  <1>1. PICK op : Become(c, LocallyApplied(cl[c], op), Heard(c))
    BY DEF ApplyLocal
  <1>2. acked' \subseteq Committed
    BY DEF ApplyLocal, Promises
  <1> QED BY <1>1, <1>2, HeardAgrees, BecomePromises

\* A client that gives up its connection (abandon, onclose) keeps the promises.
LEMMA AbandonPromises == ASSUME Promises, NEW c \in Client, Abandon(c) PROVE Promises'
  <1>1. Become(c, Abandoned(cl[c]), <<>>) /\ acked' \subseteq Committed
    BY DEF Abandon, Promises
  <1>2. IsSeq(<<>>) /\ \A i \in 1..Len(<<>>) : Agrees(disk, <<c, sock[c]>>, <<>>[i])
    BY EmptyIsSeq
  <1> QED BY <1>1, <1>2, BecomePromises

\* A client that connects keeps the promises.
LEMMA ConnectPromises == ASSUME Promises, NEW c \in Client, Connect(c) PROVE Promises'
  <1>1. UNCHANGED <<hist, disk, out, alive, acked>>
    BY DEF Connect
  <1>2. PICK k : down' = [down EXCEPT ![k] = <<>>]
    BY DEF Connect
  <1>3. DOMAIN down' = Conns /\ AllAgree(disk, down')
    BY <1>2, EmptyIsSeq DEF Promises, AllAgree
  <1>4. MemoryExtendsLog' /\ Committed' = Committed
    BY <1>1 DEF Promises, MemoryExtendsLog, Committed
  <1> QED BY <1>1, <1>3, <1>4 DEF Promises

\* Every step keeps the promises.
LEMMA StepPromises == Promises /\ [Next]_vars => Promises'
  <1> SUFFICES ASSUME Promises, [Next]_vars PROVE Promises' OBVIOUS
  <1>1. ASSUME NEW k \in Conns, Handle(k) PROVE Promises'
    BY <1>1, HandlePromises
  <1>2. ASSUME NEW k \in Conns, HangUp(k) PROVE Promises'
    BY <1>2, HangUpPromises
  <1>3. CASE Flush
    BY <1>3, FlushPromises
  <1>4. CASE Fail
    BY <1>4, FailPromises
  <1>5. CASE Reopen
    BY <1>5, ReopenPromises
  <1>6. ASSUME NEW c \in Client, Receive(c) PROVE Promises'
    BY <1>6, ReceivePromises
  <1>7. ASSUME NEW c \in Client, ApplyLocal(c) PROVE Promises'
    BY <1>7, ApplyLocalPromises
  <1>8. ASSUME NEW c \in Client, Abandon(c) PROVE Promises'
    BY <1>8, AbandonPromises
  <1>9. ASSUME NEW c \in Client, Connect(c) PROVE Promises'
    BY <1>9, ConnectPromises
  <1>10. CASE UNCHANGED vars
    <2>1. UNCHANGED <<hist, disk, out, alive, down, acked>>
      BY <1>10 DEF vars, server, network, clients
    <2> QED BY <2>1 DEF Promises, MemoryExtendsLog, Committed
  <1> QED BY <1>1, <1>2, <1>3, <1>4, <1>5, <1>6, <1>7, <1>8, <1>9, <1>10 DEF Next

\* The promises hold in every reachable state, whatever clients hold and send.
THEOREM PromisesHold == Spec => []Promises
  BY InitPromises, StepPromises, PTL DEF Spec

-----------------------------------------------------------------------------
(* What follows from the promises.                                         *)

\* A crash or a resend never applies an edit twice (handleOp, session.go:574).
THEOREM ExactlyOnceHolds == Spec => []ExactlyOnce
  <1>1. Promises => ExactlyOnce
    <2> SUFFICES ASSUME Promises PROVE ExactlyOnce OBVIOUS
    <2>1. DOMAIN disk = 1..Len(disk) /\ Len(disk) \in Nat /\ Len(hist) \in Nat
      BY LogLength DEF Promises, MemoryExtendsLog, IsSeq, Extends
    <2> QED BY <2>1 DEF Promises, MemoryExtendsLog, ExactlyOnce
  <1> QED BY <1>1, PromisesHold, PTL

\* A crash never loses an edit its author was told is committed (run,
\* session.go:244-255).
THEOREM AckedIsDurableHolds == Spec => []AckedIsDurable
  <1>1. Promises => AckedIsDurable
    BY DEF Promises, AckedIsDurable
  <1> QED BY <1>1, PromisesHold, PTL

\* No message in flight speaks of a revision the log does not hold.
THEOREM SaidIsDurableHolds == Spec => []SaidIsDurable
  <1>1. Promises => SaidIsDurable
    <2> SUFFICES ASSUME Promises, NEW k \in Conns, NEW i \in DOMAIN down[k],
                        down[k][i].t # "error"
                 PROVE  down[k][i].rev <= Len(disk)
      BY DEF SaidIsDurable
    <2>1. DOMAIN down[k] = 1..Len(down[k]) /\ Len(disk) \in Nat
      BY LogLength DEF Promises, AllAgree, IsSeq, Extends
    <2>2. Agrees(disk, k, down[k][i])
      BY <2>1 DEF Promises, AllAgree
    <2> QED BY <2>1, <2>2 DEF Agrees
  <1> QED BY <1>1, PromisesHold, PTL

\* An id reaches only the client that chose it (handleHello, session.go:516-521;
\* afterOp, session.go:625-637).
THEOREM IdsStayPrivateHolds == Spec => []IdsStayPrivate
  <1>1. Promises => IdsStayPrivate
    <2> SUFFICES ASSUME Promises, NEW k \in Conns, NEW i \in DOMAIN down[k]
                 PROVE  LET m == down[k][i]
                        IN  /\ m.t \in {"op", "ack"} => Own(disk, k, m)
                            /\ m.t = "catchup" => \A j \in DOMAIN m.ops : Own(disk, k, m.ops[j])
      BY DEF IdsStayPrivate
    <2>1. DOMAIN down[k] = 1..Len(down[k])
      BY DEF Promises, AllAgree, IsSeq
    <2>2. Agrees(disk, k, down[k][i])
      BY <2>1 DEF Promises, AllAgree
    <2> QED BY <2>2 DEF Agrees
  <1> QED BY <1>1, PromisesHold, PTL

-----------------------------------------------------------------------------
(* Connections.                                                            *)

\* No connection exists before the first connect.
LEMMA InitConnections == Init => ConnectionsOK
  BY CollabAssumption DEF Init, ConnectionsOK, Conns, InUse, Owner

\* A client that leaves its connection lets its slot go once the server has too.
LEMMA BecomeConnections ==
  ASSUME ConnectionsOK, Promises, NEW c \in Client, NEW k, NEW heard, Become(c, k, heard)
  PROVE  ConnectionsOK'
  <1> DEFINE conn == <<c, sock[c]>>
  <1>1. /\ UNCHANGED alive
        /\ sock' = IF k.quits THEN [sock EXCEPT ![c] = 0] ELSE sock
        /\ up' = IF conn \in Conns /\ phase[conn] \in {"open", "joined"}
                 THEN [up EXCEPT ![conn] = @ \o k.sent] ELSE up
        /\ down' = IF conn \in Conns
                   THEN [down EXCEPT ![conn] = IF k.quits THEN <<>> ELSE heard] ELSE down
        /\ phase' = IF conn \in Conns /\ k.quits /\ phase[conn] = "closed"
                    THEN [phase EXCEPT ![conn] = "idle"] ELSE phase
    BY DEF Become
  <1>2. \A j \in Conns : j # conn =>
          /\ up'[j] = up[j] /\ down'[j] = down[j] /\ phase'[j] = phase[j]
    BY <1>1 DEF ConnectionsOK, Promises
  <1>3. \A j \in Conns : j # conn => (InUse(j)' <=> InUse(j))
    BY <1>1, CollabAssumption DEF ConnectionsOK, InUse, Conns, Owner
  <1>4. /\ phase' \in [Conns -> {"idle", "open", "joined", "rejected", "closed"}]
        /\ sock' \in [Client -> Slot \cup {0}]
        /\ DOMAIN up' = Conns
    BY <1>1 DEF ConnectionsOK
  <1> HIDE DEF conn
  <1>5. ASSUME NEW j \in Conns
        PROVE  /\ phase'[j] \in {"idle", "closed"} => up'[j] = <<>>
               /\ phase'[j] = "idle" => ~InUse(j)'
               /\ ~InUse(j)' => down'[j] = <<>>
               /\ ~alive' => phase'[j] \in {"idle", "closed"}
    <2>1. CASE j # conn
      BY <1>1, <1>2, <1>3, <2>1 DEF ConnectionsOK
    <2>2. CASE j = conn
      <3>1. conn \in Conns BY <2>2
      <3>2. InUse(j) BY <2>2 DEF conn, InUse, Owner
      <3>3. CASE k.quits
        <4>1. ~InUse(j)'
          BY <1>1, <2>2, <3>1, <3>3, CollabAssumption
             DEF conn, InUse, Owner, Conns, ConnectionsOK
        <4>2. down'[j] = <<>>
          BY <1>1, <2>2, <3>1, <3>3 DEF Promises
        <4> QED BY <1>1, <2>2, <3>1, <4>1, <4>2 DEF ConnectionsOK
      <3>4. CASE ~k.quits
        <4>1. InUse(j)' BY <1>1, <3>2, <3>4 DEF InUse
        <4> QED BY <1>1, <2>2, <3>1, <3>2, <3>4, <4>1 DEF ConnectionsOK
      <3> QED BY <3>3, <3>4
    <2> QED BY <2>1, <2>2
  <1> QED BY <1>4, <1>5 DEF ConnectionsOK

\* The actor never frees a slot its client still listens to (conn.kill, removeConn).
LEMMA ActorConnections ==
  ASSUME ConnectionsOK, Promises, Flush \/ Fail \/ Reopen \/ \E k \in Conns : Handle(k) \/ HangUp(k)
  PROVE  ConnectionsOK'
  <1>1. CASE Flush
    BY <1>1 DEF Flush, BatchDue, Delivered, ConnectionsOK, Promises, Gone, InUse, clients
  <1>2. CASE Fail
    BY <1>2 DEF Fail, ConnectionsOK, Promises, Gone, InUse, clients
  <1>3. CASE Reopen
    BY <1>3 DEF Reopen, ConnectionsOK, InUse, clients, network
  <1>4. ASSUME NEW k \in Conns, HangUp(k) PROVE ConnectionsOK'
    BY <1>4 DEF HangUp, CanHangUp, ConnectionsOK, Gone, InUse, clients
  <1>5. ASSUME NEW k \in Conns, Handle(k) PROVE ConnectionsOK'
    <2>1. phase[k] \in {"open", "joined"} /\ alive /\ UNCHANGED <<alive, down, sock>>
          /\ up' = [up EXCEPT ![k] = Tail(@)]
      BY <1>5 DEF Handle, CanHandle, clients
    <2>2. \/ UNCHANGED phase
          \/ phase' = [phase EXCEPT ![k] = "joined"]
          \/ phase' = [phase EXCEPT ![k] = "rejected"]
      BY <1>5 DEF Handle, HandleHello, HandleOp, Commit, Reject
    <2> QED BY <2>1, <2>2 DEF ConnectionsOK, InUse
  <1> QED BY <1>1, <1>2, <1>3, <1>4, <1>5

\* A client connects on a slot nobody uses (connect, collab.js:76-115).
LEMMA ConnectConnections ==
  ASSUME ConnectionsOK, Promises, NEW c \in Client, Connect(c)
  PROVE  ConnectionsOK'
  <1>1. PICK s \in Slot :
          /\ phase[<<c, s>>] = "idle" /\ phase' = [phase EXCEPT ![<<c, s>>] = "open"]
          /\ sock' = [sock EXCEPT ![c] = s]
          /\ \E m : up' = [up EXCEPT ![<<c, s>>] = m]
          /\ down' = [down EXCEPT ![<<c, s>>] = <<>>]
    BY DEF Connect
  <1>2. <<c, s>> \in Conns /\ alive' /\ sock[c] = 0
    BY DEF Connect, Conns
  <1>3. \A j \in Conns : j # <<c, s>> => (InUse(j)' <=> InUse(j))
    BY <1>1, <1>2, CollabAssumption DEF InUse, Owner, Conns, ConnectionsOK
  <1>4. InUse(<<c, s>>)'
    BY <1>1 DEF InUse, Owner, ConnectionsOK
  <1> QED BY <1>1, <1>2, <1>3, <1>4 DEF ConnectionsOK, Promises

\* Every step keeps connections in order.
LEMMA StepConnections == ConnectionsOK /\ Promises /\ [Next]_vars => ConnectionsOK'
  <1> SUFFICES ASSUME ConnectionsOK, Promises, [Next]_vars PROVE ConnectionsOK' OBVIOUS
  <1>1. CASE Flush \/ Fail \/ Reopen \/ \E k \in Conns : Handle(k) \/ HangUp(k)
    BY <1>1, ActorConnections
  <1>2. ASSUME NEW c \in Client, Receive(c) \/ ApplyLocal(c) \/ Abandon(c)
        PROVE  ConnectionsOK'
    <2>1. PICK k, heard : Become(c, k, heard)
      BY <1>2 DEF Receive, ApplyLocal, Abandon
    <2> QED BY <2>1, BecomeConnections
  <1>3. ASSUME NEW c \in Client, Connect(c) PROVE ConnectionsOK'
    BY <1>3, ConnectConnections
  <1>4. CASE UNCHANGED vars
    BY <1>4 DEF vars, server, network, clients, ConnectionsOK, InUse
  <1> QED BY <1>1, <1>2, <1>3, <1>4 DEF Next

\* Sequences with the same elements are equal.
LEMMA SameSeq ==
  ASSUME NEW s, NEW t, IsSeq(s), IsSeq(t), Len(s) = Len(t),
         \A i \in 1..Len(s) : s[i] = t[i]
  PROVE  s = t
  <1>1. s = [i \in 1..Len(s) |-> s[i]] /\ t = [i \in 1..Len(t) |-> t[i]]
    BY DEF IsSeq
  <1> QED BY <1>1

\* The log is the beginning of memory, and no connection is reused for another
\* client's page while the first still listens to it.
THEOREM TypeOKHolds == Spec => []TypeOK
  <1>1. Promises => Len(disk) <= Len(hist) /\ SubSeq(hist, 1, Len(disk)) = disk
    <2> SUFFICES ASSUME Promises
                 PROVE  Len(disk) <= Len(hist) /\ SubSeq(hist, 1, Len(disk)) = disk
      OBVIOUS
    <2>1. Extends(hist, disk) /\ IsSeq(hist) /\ IsSeq(disk)
      BY LogLength DEF Promises, MemoryExtendsLog
    <2>2. Len(disk) \in 0..Len(hist)
      BY <2>1 DEF Extends
    <2> DEFINE p == SubSeq(hist, 1, Len(disk))
    <2>3. IsSeq(p) /\ Len(p) = Len(disk) /\ \A i \in 1..Len(disk) : p[i] = hist[i]
      BY <2>1, <2>2, SubSeqIsSeq
    <2> HIDE DEF p
    <2>4. p = disk
      BY <2>1, <2>3, SameSeq DEF Extends
    <2> QED BY <2>1, <2>4 DEF p, Extends
  <1>2. Spec => []ConnectionsOK
    BY InitConnections, StepConnections, PromisesHold, PTL DEF Spec
  <1> QED BY <1>1, <1>2, PromisesHold, PTL DEF TypeOK

-----------------------------------------------------------------------------
(* The document implements its ledger of edits.                            *)

LedgerLog == [i \in 1..Len(disk) - 1 |-> <<disk[i+1].client, disk[i+1].id>>]

LedgerShape ==
  /\ Ledger!Listed(LedgerLog) = Committed
  /\ LedgerLog \in Seq(Committed)
  /\ Len(LedgerLog) = Len(disk) - 1
  /\ Len(disk) \in Nat /\ Len(disk) - 1 \in Nat
  /\ DOMAIN disk = 1..Len(disk)

\* The log without its template is the ledger of edits.
LEMMA LedgerLists == Promises => LedgerShape
  <1> SUFFICES ASSUME Promises PROVE LedgerShape
    OBVIOUS
  <1>1. Len(disk) \in Nat /\ Len(disk) - 1 \in Nat /\ DOMAIN disk = 1..Len(disk)
    BY LogLength DEF Promises, MemoryExtendsLog, IsSeq, Extends
  <1>2. \A i \in 1..Len(disk) - 1 : i + 1 \in DOMAIN disk \ {1}
    BY <1>1
  <1>3. \A i \in DOMAIN disk \ {1} : i - 1 \in 1..Len(disk) - 1 /\ (i - 1) + 1 = i
    BY <1>1
  <1>4. LedgerLog \in [1..Len(disk) - 1 -> Committed]
    BY <1>2 DEF LedgerLog, Committed
  <1>5. LedgerLog \in Seq(Committed) /\ Len(LedgerLog) = Len(disk) - 1
    <2> DEFINE n == Len(disk) - 1
    <2>1. LedgerLog \in [1..n -> Committed] /\ n \in Nat
      BY <1>1, <1>4
    <2> HIDE DEF n
    <2>2. LedgerLog \in Seq(Committed) /\ Len(LedgerLog) = n
      BY <2>1
    <2> QED BY <2>2 DEF n
  <1>6. Committed \subseteq {LedgerLog[i] : i \in DOMAIN LedgerLog}
    <2> SUFFICES ASSUME NEW i \in DOMAIN disk \ {1}
                 PROVE  <<disk[i].client, disk[i].id>> \in {LedgerLog[j] : j \in DOMAIN LedgerLog}
      BY DEF Committed
    <2>1. LedgerLog[i - 1] = <<disk[i].client, disk[i].id>> /\ i - 1 \in DOMAIN LedgerLog
      BY <1>3 DEF LedgerLog
    <2> QED BY <2>1
  <1>7. {LedgerLog[i] : i \in DOMAIN LedgerLog} \subseteq Committed
    BY <1>4
  <1> QED BY <1>1, <1>5, <1>6, <1>7 DEF Ledger!Listed, LedgerShape

\* What a step does to the log and to what was told.
LEMMA StepLedger ==
  ASSUME Promises, Next
  PROVE  \/ Extends(disk', disk) /\ UNCHANGED acked
         \/ UNCHANGED disk /\ acked \subseteq acked'
  <1>1. Extends(hist, disk) /\ Extends(disk, disk) /\ IsSeq(hist)
    BY LogLength DEF Promises, Extends, MemoryExtendsLog
  <1>2. CASE Flush
    BY <1>1, <1>2 DEF Flush, clients
  <1>3. CASE Fail
    <2>1. PICK n \in Len(disk)..Len(hist) : disk' = SubSeq(hist, 1, n)
      BY <1>3 DEF Fail
    <2>2. n \in 0..Len(hist)
      BY <1>1 DEF Extends
    <2>3. Len(disk') = n /\ \A i \in 1..n : disk'[i] = hist[i]
      BY <1>1, <2>1, <2>2, SubSeqIsSeq
    <2> QED BY <1>1, <1>3, <2>1, <2>2, <2>3 DEF Extends, Fail, clients
  <1>4. CASE Reopen
    BY <1>4 DEF Reopen, clients
  <1>5. ASSUME NEW k \in Conns, Handle(k) \/ HangUp(k) PROVE UNCHANGED <<disk, acked>>
    BY <1>5 DEF Handle, HangUp, clients
  <1>6. ASSUME NEW c \in Client, Receive(c) \/ ApplyLocal(c) \/ Abandon(c) \/ Connect(c)
        PROVE  UNCHANGED disk /\ acked \subseteq acked'
    BY <1>6 DEF Receive, ApplyLocal, Abandon, Connect, Become
  <1> QED BY <1>2, <1>3, <1>4, <1>5, <1>6 DEF Next

\* Every step is a step of the ledger of edits, or leaves it alone: nothing
\* leaves the log, nothing enters it twice, nobody is told of what is not there.
THEOREM KeepsLedgerHolds == Spec => KeepsLedger
  <1>1. Init => Ledger!Init
    <2> SUFFICES ASSUME Init PROVE LedgerLog = <<>> /\ acked = {}
      BY DEF Ledger!Init, LedgerLog
    <2>1. disk \in Seq({disk[1]}) /\ Len(disk) = 1
      BY DEF Init, SeedHistory
    <2> QED BY <2>1 DEF Init, LedgerLog
  <1>2. Promises /\ Promises' /\ [Next]_vars =>
          [Ledger!Next]_<<LedgerLog, acked>>
    <2> SUFFICES ASSUME Promises, Promises', [Next]_vars
                 PROVE  [Ledger!Next]_<<LedgerLog, acked>>
      OBVIOUS
    <2>1. LedgerShape
      BY LedgerLists
    <2>2. LedgerShape'
      BY LedgerLists, PTL
    <2>3. acked' \subseteq Committed'
      BY DEF Promises
    <2>4. Extends(hist, disk)'
      BY LogLength, PTL DEF Promises
    <2>5. CASE UNCHANGED vars
      BY <2>5 DEF vars, server, clients, LedgerLog
    <2>6. ASSUME UNCHANGED disk, acked \subseteq acked' PROVE Ledger!Acknowledge
      <3>1. UNCHANGED LedgerLog /\ Committed' = Committed
        BY <2>6 DEF LedgerLog, Committed
      <3> QED BY <2>1, <2>3, <2>6, <3>1 DEF Ledger!Acknowledge, LedgerLog, LedgerShape
    <2>7. ASSUME Extends(disk', disk), UNCHANGED acked, Len(disk') = Len(disk)
          PROVE  UNCHANGED <<LedgerLog, acked>>
      <3>1. disk' = disk
        BY <2>7, SameSeq DEF Extends, Promises, MemoryExtendsLog
      <3> QED BY <2>7, <3>1 DEF LedgerLog
    <2>8. ASSUME Extends(disk', disk), UNCHANGED acked, Len(disk') > Len(disk)
          PROVE  Ledger!Commit
      <3>1. Len(LedgerLog') > Len(LedgerLog)
        BY <2>1, <2>2, <2>8 DEF LedgerShape
      <3>2. \A i \in DOMAIN LedgerLog : LedgerLog'[i] = LedgerLog[i]
        <4> SUFFICES ASSUME NEW i \in 1..Len(disk) - 1 PROVE LedgerLog'[i] = LedgerLog[i]
          BY <2>1 DEF LedgerLog
        <4>1. i + 1 \in 1..Len(disk) /\ i \in 1..Len(disk') - 1
          BY <2>1, <2>2, <2>8 DEF LedgerShape
        <4>2. disk'[i + 1] = disk[i + 1]
          BY <2>8, <4>1 DEF Extends
        <4> QED BY <4>1, <4>2 DEF LedgerLog
      <3>3. ASSUME NEW i \in DOMAIN LedgerLog', NEW j \in DOMAIN LedgerLog', i # j
            PROVE  LedgerLog'[i] # LedgerLog'[j]
        <4>1. \A a, b \in 1..Len(disk') :
                a # b => <<disk'[a].client, disk'[a].id>> # <<disk'[b].client, disk'[b].id>>
          <5>1. \A a \in 1..Len(disk') : a \in 1..Len(hist') /\ disk'[a] = hist'[a]
            BY <2>2, <2>4 DEF LedgerShape, Extends
          <5>2. \A a, b \in 1..Len(hist') :
                  a # b => <<hist'[a].client, hist'[a].id>> # <<hist'[b].client, hist'[b].id>>
            BY DEF Promises, MemoryExtendsLog
          <5> QED BY <5>1, <5>2
        <4>2. i + 1 \in 1..Len(disk') /\ j + 1 \in 1..Len(disk') /\ i + 1 # j + 1
          BY <2>2, <3>3 DEF LedgerLog, LedgerShape
        <4> QED BY <3>3, <4>1, <4>2 DEF LedgerLog
      <3> QED BY <2>8, <3>1, <3>2, <3>3 DEF Ledger!Commit, Ledger!Grows, LedgerLog
    <2>9. CASE Next
      <3>1. CASE UNCHANGED disk /\ acked \subseteq acked'
        BY <2>6, <3>1 DEF Ledger!Next
      <3>2. CASE Extends(disk', disk) /\ UNCHANGED acked
        <4>1. Len(disk') = Len(disk) \/ Len(disk') > Len(disk)
          BY <3>2 DEF Extends
        <4> QED BY <2>7, <2>8, <3>2, <4>1 DEF Ledger!Next
      <3> QED BY <2>9, <3>1, <3>2, StepLedger
    <2> QED BY <2>5, <2>9
  <1> QED BY <1>1, <1>2, PromisesHold, PTL DEF KeepsLedger, Ledger!Spec, Spec, LedgerLog
=============================================================================
