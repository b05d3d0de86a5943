------------------------- MODULE SearchClusterProofs -------------------------
(***************************************************************************)
(* Atlas Search, proofs: what the coordinator acknowledged is in the logs  *)
(* of a majority, a search fails only after every replica failed it, and a *)
(* restart brings back what a replica serves, for any number of replicas,  *)
(* documents, writes under way at once, failed appends, torn lines, lost   *)
(* answers and crashes, and whenever the index compacts.                   *)
(***************************************************************************)
EXTENDS SearchCluster, FiniteSetTheorems, WellFoundedInduction, TLAPS

Lines == (UNION {b.documents : b \in Budgets}) \cup {Torn}

Writes == [doc : budget.documents,
           handler : [Replicas -> {"sent", "logged", "over"}],
           outcome : [Replicas -> {"none", "stored", "failed"}],
           answer : {"none", "created", "unavailable"}]

Types == budget \in Budgets /\ wal \in [Replicas -> Seq(Lines)] /\ writes \in Seq(Writes)

\* The log has the document, or is one that no node starts from.
Has(n, doc) == IsTorn(n) \/ \E k \in DOMAIN wal[n] : wal[n][k] = doc

\* What a replica logged, or told the coordinator it has, is in its log.
StoredIsLogged ==
  \A w \in DOMAIN writes, n \in Replicas :
    writes[w].handler[n] = "logged" \/ writes[w].outcome[n] = "stored" => Has(n, writes[w].doc)

Stored(w) == {n \in Replicas : writes[w].outcome[n] = "stored"}

\* What is acknowledged, a majority told the coordinator it has.
CreatedByQuorum ==
  \A w \in DOMAIN writes : writes[w].answer = "created" => 2 * Cardinality(Stored(w)) > budget.replicas

WritesInv == Types /\ StoredIsLogged /\ CreatedByQuorum

Searches == [asked : 0..budget.replicas, pending : SUBSET Replicas, failed : SUBSET Replicas,
             hedge : BOOLEAN, result : {"none", "found", "failed", "late"}]

\* A hedge has a replica to go to, a replica that was asked is waited for or failed,
\* and a search that failed asked them all.
SearchInv ==
  /\ budget \in Budgets /\ search \in Searches
  /\ search.hedge => search.asked < budget.replicas
  /\ search.result = "none" => search.pending \cup search.failed = 1..search.asked
  /\ FailsOnlyWhenAllFailed

-----------------------------------------------------------------------------
\* A line that is written leaves what the logs have where it is, and is in its log or
\* glued to a torn line.
LEMMA LineKeeps ==
  ASSUME Types, NEW n \in Replicas, NEW doc \in Lines,
         wal' = [wal EXCEPT ![n] = Line(n, doc)], UNCHANGED budget
  PROVE  /\ wal' \in [Replicas -> Seq(Lines)]
         /\ \A m \in Replicas : \A d : Has(m, d) => Has(m, d)'
         /\ Has(n, doc)'
<1> USE DEF Types
<1> wal[n] \in Seq(Lines)
  OBVIOUS
<1> Replicas' = Replicas
  BY DEF Replicas
<1>1. CASE IsTorn(n)
  <2>1. wal' = wal
    BY <1>1 DEF Line
  <2> QED
    BY <1>1, <2>1 DEF Has, IsTorn
<1>2. CASE ~IsTorn(n)
  <2>1. /\ wal'[n] = Append(wal[n], doc)
        /\ \A m \in Replicas : m # n => wal'[m] = wal[m]
        /\ wal' \in [Replicas -> Seq(Lines)]
    BY <1>2 DEF Line
  <2>2. /\ DOMAIN wal[n] \subseteq DOMAIN (wal'[n]) /\ \A k \in DOMAIN wal[n] : wal'[n][k] = wal[n][k]
        /\ Len(wal[n]) + 1 \in DOMAIN (wal'[n]) /\ wal'[n][Len(wal[n]) + 1] = doc
    <3> HIDE DEF Lines
    <3> DEFINE s == wal[n]
    <3>1. s \in Seq(Lines) /\ doc \in Lines
      OBVIOUS
    <3> HIDE DEF s
    <3>2. /\ DOMAIN s \subseteq DOMAIN Append(s, doc) /\ \A k \in DOMAIN s : Append(s, doc)[k] = s[k]
          /\ Len(s) + 1 \in DOMAIN Append(s, doc) /\ Append(s, doc)[Len(s) + 1] = doc
      BY <3>1
    <3> QED
      BY <2>1, <3>2 DEF s
  <2>3. \A d : Has(n, d) => Has(n, d)'
    BY <1>2, <2>2 DEF Has
  <2>4. ASSUME NEW m \in Replicas, m # n, NEW d, Has(m, d)
        PROVE  Has(m, d)'
    BY <2>1, <2>4 DEF Has, IsTorn
  <2>5. Has(n, doc)'
    BY <2>2 DEF Has
  <2> QED
    BY <2>1, <2>3, <2>4, <2>5
<1> QED
  BY <1>1, <1>2

\* What the logs have does not depend on anything else.
LEMMA LogsKept ==
  ASSUME UNCHANGED <<wal, budget>>
  PROVE  \A m, d : Has(m, d) => Has(m, d)'
BY DEF Has, IsTorn

\* Writes that were under way stay what they are about; what is acknowledged stays so.
WritesKept ==
  /\ DOMAIN writes \subseteq DOMAIN writes'
  /\ \A w \in DOMAIN writes :
       /\ writes'[w].doc = writes[w].doc
       /\ \A n \in Replicas : writes[w].outcome[n] = "stored" => writes'[w].outcome[n] = "stored"

LEMMA StoredIsFinite ==
  ASSUME Types, NEW w
  PROVE  IsFiniteSet(Stored(w)) /\ Cardinality(Stored(w)) \in Nat /\ budget.replicas \in Nat
<1>1. budget.replicas \in Nat
  BY ClusterAssumption DEF Types
<1>2. IsFiniteSet(Replicas)
  BY <1>1, FS_Interval DEF Replicas
<1> QED
  BY <1>1, <1>2, FS_Subset, FS_CardinalityType DEF Stored

\* An outcome that is known stays, so a quorum that answered stays one.
LEMMA QuorumStays ==
  ASSUME Types, Types', CreatedByQuorum, UNCHANGED budget, WritesKept,
         \A w \in DOMAIN writes' : writes'[w].answer = "created" =>
           w \in DOMAIN writes /\ writes[w].answer = "created"
  PROVE  CreatedByQuorum'
<1> SUFFICES ASSUME NEW w \in DOMAIN writes', writes'[w].answer = "created"
             PROVE  2 * Cardinality(Stored(w)') > budget.replicas
  BY DEF CreatedByQuorum
<1>1. w \in DOMAIN writes /\ writes[w].answer = "created"
  OBVIOUS
<1>2. Stored(w) \subseteq Stored(w)'
  BY <1>1 DEF Stored, WritesKept, Replicas
<1>3. IsFiniteSet(Stored(w)') /\ Cardinality(Stored(w)') \in Nat
  <2>1. Stored(w)' = {n \in Replicas : writes'[w].outcome[n] = "stored"}
    BY DEF Stored, Replicas
  <2>2. budget.replicas \in Nat
    BY ClusterAssumption DEF Types
  <2>3. IsFiniteSet(Replicas)
    BY <2>2, FS_Interval DEF Replicas
  <2> QED
    BY <2>1, <2>3, FS_Subset, FS_CardinalityType
<1>4. Cardinality(Stored(w)) \in Nat /\ budget.replicas \in Nat
  BY StoredIsFinite
<1>5. Cardinality(Stored(w)) <= Cardinality(Stored(w)')
  BY <1>2, <1>3, FS_Subset
<1>6. 2 * Cardinality(Stored(w)) > budget.replicas
  BY <1>1 DEF CreatedByQuorum
<1> QED
  BY <1>3, <1>4, <1>5, <1>6

-----------------------------------------------------------------------------
\* A write gets further: the logs keep what they had, and have what it says is logged or
\* stored now.
LEMMA WriteGoesOn ==
  ASSUME WritesInv, UNCHANGED budget, wal' \in [Replicas -> Seq(Lines)],
         \A m \in Replicas : \A d : Has(m, d) => Has(m, d)',
         NEW w \in DOMAIN writes, NEW new \in Writes, writes' = [writes EXCEPT ![w] = new],
         new.doc = writes[w].doc, new.answer = writes[w].answer,
         \A m \in Replicas : writes[w].outcome[m] = "stored" => new.outcome[m] = "stored",
         \A m \in Replicas : new.handler[m] = "logged" \/ new.outcome[m] = "stored" => Has(m, new.doc)'
  PROVE  WritesInv'
<1> USE DEF WritesInv
<1> Replicas' = Replicas /\ Writes' = Writes
  BY DEF Replicas, Writes
<1>1. writes \in Seq(Writes) /\ budget \in Budgets
  BY DEF Types
<1>2. /\ writes' \in Seq(Writes) /\ DOMAIN writes' = DOMAIN writes /\ writes'[w] = new
      /\ \A v \in DOMAIN writes : v # w => writes'[v] = writes[v]
  BY <1>1
<1>3. Types'
  BY <1>1, <1>2 DEF Types
<1>4. StoredIsLogged'
  <2>1. ASSUME NEW v \in DOMAIN writes, NEW m \in Replicas, NEW d, d = writes'[v].doc,
               writes'[v].handler[m] = "logged" \/ writes'[v].outcome[m] = "stored"
        PROVE  Has(m, d)'
    <3>1. CASE v = w
      BY <1>2, <2>1, <3>1
    <3>2. CASE v # w
      BY <1>2, <2>1, <3>2 DEF StoredIsLogged
    <3> QED
      BY <3>1, <3>2
  <2> QED
    BY <1>2, <2>1 DEF StoredIsLogged, Has, IsTorn
<1>5. WritesKept
  BY <1>2 DEF WritesKept
<1>6. \A v \in DOMAIN writes' : writes'[v].answer = "created" =>
        v \in DOMAIN writes /\ writes[v].answer = "created"
  BY <1>2
<1> QED
  BY <1>3, <1>4, <1>5, <1>6, QuorumStays

LEMMA LogWriteInv ==
  ASSUME WritesInv, NEW w \in DOMAIN writes, NEW n \in Replicas, LogWrite(w, n)
  PROVE  WritesInv'
<1> USE DEF WritesInv
<1> PICK old \in Writes : old = writes[w]
  BY DEF Types
<1> DEFINE new == [old EXCEPT !.handler[n] = "logged"]
<1>1. budget' = budget /\ wal' = [wal EXCEPT ![n] = Line(n, old.doc)]
  BY DEF LogWrite
<1>2. writes' = [writes EXCEPT ![w] = new]
  BY DEF LogWrite, Types
<1>3. /\ new \in Writes /\ new.doc = old.doc /\ new.answer = old.answer /\ new.outcome = old.outcome
      /\ \A m \in Replicas : m # n => new.handler[m] = old.handler[m]
  BY DEF Writes
<1>4. old.doc \in Lines
  BY DEF Lines, Writes, Types
<1>5. /\ wal' \in [Replicas -> Seq(Lines)] /\ Has(n, old.doc)'
      /\ \A m \in Replicas : \A d : Has(m, d) => Has(m, d)'
  BY <1>1, <1>4, LineKeeps
<1> HIDE DEF new
<1>6. \A m \in Replicas : new.handler[m] = "logged" \/ new.outcome[m] = "stored" => Has(m, new.doc)'
  BY <1>3, <1>5 DEF StoredIsLogged
<1> QED
  BY <1>1, <1>2, <1>3, <1>5, <1>6, WriteGoesOn

LEMMA LogFailsInv ==
  ASSUME WritesInv, NEW w \in DOMAIN writes, NEW n \in Replicas, LogFails(w, n)
  PROVE  WritesInv'
<1> USE DEF WritesInv
<1> PICK old \in Writes : old = writes[w]
  BY DEF Types
<1> DEFINE new == [old EXCEPT !.handler[n] = "over", !.outcome[n] = IF @ = "none" THEN "failed" ELSE @]
<1>1. budget' = budget
  BY DEF LogFails
<1>2. writes' = [writes EXCEPT ![w] = new]
  BY DEF LogFails, Outcome, Types, Writes
<1>3. /\ new \in Writes /\ new.doc = old.doc /\ new.answer = old.answer
      /\ \A m \in Replicas : /\ new.outcome[m] = "stored" <=> old.outcome[m] = "stored"
                             /\ new.handler[m] = "logged" => old.handler[m] = "logged"
  BY DEF Writes
<1>4. old.doc \in Lines /\ Torn \in Lines
  BY DEF Lines, Writes, Types
<1>5. /\ wal' \in [Replicas -> Seq(Lines)]
      /\ \A m \in Replicas : \A d : Has(m, d) => Has(m, d)'
  <2>1. CASE wal' = wal
    BY <1>1, <2>1, LogsKept DEF Types
  <2>2. ASSUME NEW line \in Lines, wal' = [wal EXCEPT ![n] = Line(n, line)]
        PROVE  wal' \in [Replicas -> Seq(Lines)] /\ \A m \in Replicas : \A d : Has(m, d) => Has(m, d)'
    BY <1>1, <2>2, LineKeeps
  <2> QED
    BY <1>4, <2>1, <2>2 DEF LogFails
<1> HIDE DEF new
<1>6. \A m \in Replicas : new.handler[m] = "logged" \/ new.outcome[m] = "stored" => Has(m, new.doc)'
  BY <1>3, <1>5 DEF StoredIsLogged
<1> QED
  BY <1>1, <1>2, <1>3, <1>5, <1>6, WriteGoesOn

LEMMA StoreWriteInv ==
  ASSUME WritesInv, NEW w \in DOMAIN writes, NEW n \in Replicas, StoreWrite(w, n)
  PROVE  WritesInv'
<1> USE DEF WritesInv
<1> PICK old \in Writes : old = writes[w]
  BY DEF Types
<1> DEFINE new == [old EXCEPT !.handler[n] = "over", !.outcome[n] = IF @ = "none" THEN "stored" ELSE @]
<1>1. budget' = budget /\ wal' = wal /\ old.handler[n] = "logged"
  BY DEF StoreWrite
<1>2. writes' = [writes EXCEPT ![w] = new]
  BY DEF StoreWrite, Outcome, Types, Writes
<1>3. /\ new \in Writes /\ new.doc = old.doc /\ new.answer = old.answer
      /\ \A m \in Replicas : /\ old.outcome[m] = "stored" => new.outcome[m] = "stored"
                             /\ new.outcome[m] = "stored" => old.outcome[m] = "stored" \/ m = n
                             /\ new.handler[m] = "logged" => old.handler[m] = "logged"
  BY DEF Writes
<1>4. /\ wal' \in [Replicas -> Seq(Lines)]
      /\ \A m \in Replicas : \A d : Has(m, d) => Has(m, d)'
  BY <1>1, LogsKept DEF Types
<1> HIDE DEF new
<1>5. \A m \in Replicas : new.handler[m] = "logged" \/ new.outcome[m] = "stored" => Has(m, new.doc)'
  BY <1>1, <1>3, <1>4 DEF StoredIsLogged
<1> QED
  BY <1>1, <1>2, <1>3, <1>4, <1>5, WriteGoesOn

LEMMA GiveUpInv ==
  ASSUME WritesInv, NEW w \in DOMAIN writes, NEW n \in Replicas, GiveUp(w, n)
  PROVE  WritesInv'
<1> USE DEF WritesInv
<1> PICK old \in Writes : old = writes[w]
  BY DEF Types
<1> DEFINE new == [old EXCEPT !.outcome[n] = "failed"]
<1>1. budget' = budget /\ wal' = wal /\ old.outcome[n] = "none"
  BY DEF GiveUp
<1>2. writes' = [writes EXCEPT ![w] = new]
  BY DEF GiveUp, Types
<1>3. /\ new \in Writes /\ new.doc = old.doc /\ new.answer = old.answer /\ new.handler = old.handler
      /\ \A m \in Replicas : new.outcome[m] = "stored" <=> old.outcome[m] = "stored"
  BY <1>1 DEF Writes
<1>4. /\ wal' \in [Replicas -> Seq(Lines)]
      /\ \A m \in Replicas : \A d : Has(m, d) => Has(m, d)'
  BY <1>1, LogsKept DEF Types
<1> HIDE DEF new
<1>5. \A m \in Replicas : new.handler[m] = "logged" \/ new.outcome[m] = "stored" => Has(m, new.doc)'
  BY <1>3, <1>4 DEF StoredIsLogged
<1> QED
  BY <1>1, <1>2, <1>3, <1>4, <1>5, WriteGoesOn

\* The answer is the count of what is stored, which goes on as it is.
LEMMA AnswerWriteInv ==
  ASSUME WritesInv, NEW w \in DOMAIN writes, AnswerWrite(w)
  PROVE  WritesInv'
<1> USE DEF WritesInv
<1> PICK old \in Writes : old = writes[w]
  BY DEF Types
<1> DEFINE N == Cardinality(Stored(w))
<1> PICK answer : answer = IF Quorum(N) THEN "created" ELSE "unavailable"
  OBVIOUS
<1> DEFINE new == [old EXCEPT !.answer = answer]
<1>1. budget' = budget /\ wal' = wal
  BY DEF AnswerWrite
<1>2. writes' = [writes EXCEPT ![w] = new]
  BY DEF AnswerWrite, Types, Stored
<1>3. new \in Writes /\ new.doc = old.doc /\ new.outcome = old.outcome /\ new.handler = old.handler /\ new.answer = answer
  BY DEF Writes
<1> Replicas' = Replicas /\ Writes' = Writes
  BY <1>1 DEF Replicas, Writes
<1> HIDE DEF new
<1>4. writes \in Seq(Writes)
  BY DEF Types
<1>5. /\ writes' \in Seq(Writes) /\ DOMAIN writes' = DOMAIN writes
      /\ \A v \in DOMAIN writes : /\ writes'[v].doc = writes[v].doc /\ writes'[v].outcome = writes[v].outcome
                                  /\ writes'[v].handler = writes[v].handler
                                  /\ v # w => writes'[v].answer = writes[v].answer
      /\ writes'[w].answer = answer
  BY <1>2, <1>3, <1>4
<1>6. Types'
  BY <1>1, <1>5 DEF Types
<1>7. StoredIsLogged'
  BY <1>1, <1>5 DEF StoredIsLogged, Has, IsTorn
<1>8. CreatedByQuorum'
  <2>1. \A v \in DOMAIN writes : Stored(v)' = Stored(v)
    BY <1>5 DEF Stored
  <2>2. answer = "created" => 2 * N > budget.replicas
    <3>1. N \in Nat /\ budget.replicas \in Nat
      BY StoredIsFinite
    <3>2. answer = "created" => N >= budget.replicas \div 2 + 1
      BY DEF Quorum
    <3> HIDE DEF N
    <3> QED
      BY <3>1, <3>2
  <2>3. ASSUME NEW v \in DOMAIN writes', writes'[v].answer = "created"
        PROVE  2 * Cardinality(Stored(v)') > budget'.replicas
    <3>1. CASE v = w
      BY <1>1, <1>5, <2>1, <2>2, <2>3, <3>1
    <3>2. CASE v # w
      BY <1>1, <1>5, <2>1, <2>3, <3>2 DEF CreatedByQuorum
    <3> QED
      BY <3>1, <3>2
  <2> QED
    BY <2>3 DEF CreatedByQuorum
<1> QED
  BY <1>6, <1>7, <1>8

\* A new write has been taken by nobody.
LEMMA NewWriteInv ==
  ASSUME WritesInv, NEW doc \in budget.documents, Write(doc)
  PROVE  WritesInv'
<1> USE DEF WritesInv
<1> DEFINE new == [doc |-> doc, handler |-> [n \in Replicas |-> "sent"],
                   outcome |-> [n \in Replicas |-> "none"], answer |-> "none"]
<1>1. budget' = budget /\ wal' = wal /\ writes' = Append(writes, new)
  BY DEF Write
<1> Replicas' = Replicas /\ Writes' = Writes
  BY <1>1 DEF Replicas, Writes
<1>2. /\ new \in Writes /\ new.answer = "none"
      /\ \A m \in Replicas : new.outcome[m] = "none" /\ new.handler[m] = "sent"
  BY DEF Writes
<1> HIDE DEF new
<1>3. writes \in Seq(Writes)
  BY DEF Types
<1>4. /\ writes' \in Seq(Writes) /\ DOMAIN writes \subseteq DOMAIN writes'
      /\ \A v \in DOMAIN writes : writes'[v] = writes[v]
      /\ \A v \in DOMAIN writes' \ DOMAIN writes : writes'[v] = new
  BY <1>1, <1>2, <1>3
<1>5. Types'
  BY <1>1, <1>4 DEF Types
<1>6. StoredIsLogged'
  <2>1. ASSUME NEW v \in DOMAIN writes', NEW m \in Replicas,
               writes'[v].handler[m] = "logged" \/ writes'[v].outcome[m] = "stored"
        PROVE  v \in DOMAIN writes
    BY <1>2, <1>4, <2>1
  <2> QED
    BY <1>1, <1>4, <2>1 DEF StoredIsLogged, Has, IsTorn
<1>7. WritesKept
  BY <1>4 DEF WritesKept
<1>8. \A v \in DOMAIN writes' : writes'[v].answer = "created" =>
        v \in DOMAIN writes /\ writes[v].answer = "created"
  BY <1>2, <1>4
<1> QED
  BY <1>1, <1>5, <1>6, <1>7, <1>8, QuorumStays

\* A crash ends handlers; the log, and what the coordinator was told, stay.
LEMMA CrashInv ==
  ASSUME WritesInv, NEW n \in Replicas, Crash(n)
  PROVE  WritesInv'
<1> USE DEF WritesInv
<1> DEFINE Ended(w) == [writes[w] EXCEPT !.handler[n] = IF @ = "logged" THEN "over" ELSE @]
<1>1. budget' = budget /\ wal' = wal /\ writes' = [w \in DOMAIN writes |-> Ended(w)]
  BY DEF Crash
<1> Replicas' = Replicas /\ Writes' = Writes
  BY <1>1 DEF Replicas, Writes
<1>2. ASSUME NEW w \in DOMAIN writes
      PROVE  /\ Ended(w) \in Writes /\ Ended(w).doc = writes[w].doc
             /\ Ended(w).outcome = writes[w].outcome /\ Ended(w).answer = writes[w].answer
             /\ \A m \in Replicas : Ended(w).handler[m] = "logged" => writes[w].handler[m] = "logged"
  <2>1. writes[w] \in Writes
    BY DEF Types
  <2> QED
    BY <2>1 DEF Writes
<1> HIDE DEF Ended
<1>3. /\ writes' \in Seq(Writes) /\ DOMAIN writes' = DOMAIN writes
      /\ \A w \in DOMAIN writes : writes'[w] = Ended(w)
  <2>1. writes \in Seq(Writes)
    BY DEF Types
  <2> QED
    BY <1>1, <1>2, <2>1
<1>4. Types'
  BY <1>1, <1>3 DEF Types
<1>5. StoredIsLogged'
  BY <1>1, <1>2, <1>3 DEF StoredIsLogged, Has, IsTorn
<1>6. WritesKept
  BY <1>2, <1>3 DEF WritesKept
<1>7. \A v \in DOMAIN writes' : writes'[v].answer = "created" =>
        v \in DOMAIN writes /\ writes[v].answer = "created"
  BY <1>2, <1>3
<1> QED
  BY <1>1, <1>4, <1>5, <1>6, <1>7, QuorumStays

LEMMA WritesUnmoved ==
  ASSUME WritesInv, UNCHANGED <<budget, wal, writes>>
  PROVE  WritesInv'
<1> Replicas' = Replicas
  BY DEF Replicas
<1>1. Types'
  BY DEF WritesInv, Types, Writes
<1>2. StoredIsLogged'
  BY DEF WritesInv, StoredIsLogged, Has, IsTorn
<1>3. CreatedByQuorum'
  BY DEF WritesInv, CreatedByQuorum, Stored
<1> QED
  BY <1>1, <1>2, <1>3 DEF WritesInv

LEMMA WritesInvStep ==
  ASSUME WritesInv, [Next]_vars
  PROVE  WritesInv'
<1>1. CASE UNCHANGED vars
  BY <1>1, WritesUnmoved DEF vars
<1>2. CASE \E doc \in budget.documents : Write(doc)
  BY <1>2, NewWriteInv
<1>3. ASSUME NEW w \in DOMAIN writes, AnswerWrite(w)
      PROVE  WritesInv'
  BY <1>3, AnswerWriteInv
<1>4. ASSUME NEW w \in DOMAIN writes, NEW n \in Replicas,
             LogWrite(w, n) \/ LogFails(w, n) \/ StoreWrite(w, n) \/ GiveUp(w, n)
      PROVE  WritesInv'
  BY <1>4, LogWriteInv, LogFailsInv, StoreWriteInv, GiveUpInv
<1>5. ASSUME NEW n \in Replicas, Crash(n)
      PROVE  WritesInv'
  BY <1>5, CrashInv
<1>6. ASSUME NEW n \in Replicas, Start(n) \/ Answer(n) \/ Refuse(n)
      PROVE  WritesInv'
  BY <1>6, WritesUnmoved DEF Start, Answer, Refuse
<1>7. CASE Ask \/ Hedge \/ Deadline
  BY <1>7, WritesUnmoved DEF Ask, Hedge, Deadline
<1> QED
  BY <1>1, <1>2, <1>3, <1>4, <1>5, <1>6, <1>7 DEF Next

LEMMA WritesInvInit ==
  ASSUME Init
  PROVE  WritesInv
<1>1. budget \in Budgets /\ wal = [n \in Replicas |-> <<>>] /\ writes = <<>>
  BY DEF Init
<1>2. wal \in [Replicas -> Seq(Lines)] /\ writes \in Seq(Writes) /\ DOMAIN writes = {}
  BY <1>1
<1> QED
  BY <1>1, <1>2 DEF WritesInv, Types, StoredIsLogged, CreatedByQuorum

\* Every replica that said so has the document in its log, and they are a majority.
LEMMA WritesInvAcked ==
  ASSUME WritesInv
  PROVE  AckedOnMajority
<1> SUFFICES ASSUME NEW w \in DOMAIN writes, writes[w].answer = "created"
             PROVE  2 * Cardinality({n \in Replicas : Has(n, writes[w].doc)}) > budget.replicas
  BY DEF AckedOnMajority, Has
<1> DEFINE H == {n \in Replicas : Has(n, writes[w].doc)}
<1>1. budget.replicas \in Nat
  BY ClusterAssumption DEF WritesInv, Types
<1>2. IsFiniteSet(Replicas)
  BY <1>1, FS_Interval DEF Replicas
<1>3. IsFiniteSet(H) /\ Cardinality(H) \in Nat
  BY <1>2, FS_Subset, FS_CardinalityType
<1>4. Stored(w) \subseteq H
  BY DEF WritesInv, StoredIsLogged, Stored
<1>5. Cardinality(Stored(w)) \in Nat
  BY StoredIsFinite DEF WritesInv
<1>6. Cardinality(Stored(w)) <= Cardinality(H)
  BY <1>3, <1>4, FS_Subset
<1>7. 2 * Cardinality(Stored(w)) > budget.replicas
  BY DEF WritesInv, CreatedByQuorum
<1> HIDE DEF H
<1>8. 2 * Cardinality(H) > budget.replicas
  BY <1>1, <1>3, <1>5, <1>6, <1>7
<1> QED
  BY <1>8 DEF H

\* A document the coordinator acknowledged is in the logs of a majority of its shard for
\* good (Coordinator.handleDocument counts to its quorum, Node.handleDocument appends and
\* syncs before it answers).
THEOREM AckedOnMajorityHolds == FairSpec => []AckedOnMajority
<1>1. FairSpec => []WritesInv
  BY WritesInvInit, WritesInvStep, PTL DEF FairSpec
<1>2. WritesInv => AckedOnMajority
  BY WritesInvAcked
<1> QED
  BY <1>1, <1>2, PTL

-----------------------------------------------------------------------------
LEMMA SearchInvInit ==
  ASSUME Init
  PROVE  SearchInv
BY ClusterAssumption DEF Init, SearchInv, Searches, NoSearch, FailsOnlyWhenAllFailed, Replicas

LEMMA SearchInvStep ==
  ASSUME SearchInv, [Next]_vars
  PROVE  SearchInv'
<1> PICK n \in Nat : n = budget.replicas /\ n > 0
  BY ClusterAssumption DEF SearchInv
<1> USE DEF SearchInv
<1> DEFINE R == 1..n
           S == [asked : 0..n, pending : SUBSET R, failed : SUBSET R,
                 hedge : BOOLEAN, result : {"none", "found", "failed", "late"}]
           OK(s) == /\ s \in S
                    /\ s.hedge => s.asked < n
                    /\ s.result = "none" => s.pending \cup s.failed = 1..s.asked
                    /\ s.result = "failed" => s.failed = R
<1> PICK s \in S : s = search
  BY DEF Searches, Replicas
<1>1. OK(s)
  BY DEF FailsOnlyWhenAllFailed, Replicas
<1>2. ASSUME NEW t, OK(t), search' = t, budget' = budget
      PROVE  SearchInv'
  BY <1>2 DEF Searches, FailsOnlyWhenAllFailed, Replicas
<1>3. ASSUME NEW t \in S, t.asked < n, t.result = "none", t.pending \cup t.failed = 1..t.asked
      PROVE  OK(Launched(t)) /\ Launched(t).pending # {} /\ Launched(t).result = "none"
  <2> DEFINE a == t.asked + 1
  <2>1. Launched(t) = [t EXCEPT !.asked = a, !.pending = @ \cup {a}, !.hedge = a < n]
    BY DEF Launched
  <2>2. a \in R /\ a \in 0..n /\ 1..a = 1..t.asked \cup {a}
    BY <1>3
  <2>3. t.pending \cup {a} \in SUBSET R /\ (a < n) \in BOOLEAN
    BY <2>2
  <2> HIDE DEF a, R
  <2>4. Launched(t) = [asked |-> a, pending |-> t.pending \cup {a}, failed |-> t.failed,
                       hedge |-> a < n, result |-> "none"]
    BY <1>3, <2>1
  <2>5. Launched(t) \in S
    BY <2>2, <2>3, <2>4
  <2>6. Launched(t).pending \cup Launched(t).failed = 1..Launched(t).asked
    BY <1>3, <2>2, <2>4
  <2>7. Launched(t).hedge => Launched(t).asked < n
    <3> PICK h \in BOOLEAN : h = (a < n)
      BY <2>3
    <3>1. Launched(t).hedge = h /\ Launched(t).asked = a
      BY <2>4
    <3> QED
      BY <3>1
  <2>8. a \in Launched(t).pending /\ Launched(t).result = "none"
    BY <2>4
  <2> QED
    BY <2>5, <2>6, <2>7, <2>8
<1>4. CASE UNCHANGED <<search, budget>>
  BY <1>1, <1>2, <1>4
<1>5. CASE Ask
  <2>1. s.asked = 0 /\ s.result = "none" /\ s.pending = {} /\ s.failed = {} /\ search' = Launched(s) /\ budget' = budget
    BY <1>5 DEF Ask, NoSearch
  <2>2. s.pending \cup s.failed = 1..s.asked
    BY <2>1
  <2> QED
    BY <1>2, <1>3, <2>1, <2>2
<1>6. CASE Hedge
  BY <1>1, <1>2, <1>3, <1>6 DEF Hedge, HedgeDue
<1>7. CASE Deadline
  <2>1. search' = [s EXCEPT !.result = "late"] /\ budget' = budget
    BY <1>7 DEF Deadline
  <2> QED
    BY <1>1, <1>2, <2>1
<1>8. ASSUME NEW r \in Replicas, Answer(r)
      PROVE  SearchInv'
  <2>1. search' = [s EXCEPT !.pending = @ \ {r}, !.result = "found"] /\ budget' = budget
    BY <1>8 DEF Answer
  <2>2. OK([s EXCEPT !.pending = @ \ {r}, !.result = "found"])
    BY <1>1
  <2> QED
    BY <1>2, <2>1, <2>2
<1>9. ASSUME NEW r \in Replicas, Refuse(r)
      PROVE  SearchInv'
  <2> DEFINE t == [s EXCEPT !.pending = @ \ {r}, !.failed = @ \cup {r}]
  <2>1. /\ budget' = budget /\ s.result = "none" /\ r \in s.pending
        /\ search' = IF Replaced(t).pending = {} THEN [Replaced(t) EXCEPT !.result = "failed"] ELSE Replaced(t)
    BY <1>9 DEF Refuse
  <2>2. /\ t \in S /\ t.asked = s.asked /\ t.result = "none" /\ t.hedge = s.hedge
        /\ t.pending \cup t.failed = s.pending \cup s.failed
    BY <2>1
  <2> HIDE DEF t
  <2>3. CASE t.asked < n
    BY <1>1, <1>2, <1>3, <2>1, <2>2, <2>3 DEF Replaced
  <2>4. CASE ~(t.asked < n)
    <3>1. Replaced(t) = t /\ t.asked = n
      BY <2>2, <2>4 DEF Replaced
    <3>2. OK(t)
      BY <1>1, <2>1, <2>2
    <3>3. CASE t.pending = {}
      <4>1. t.failed = R
        BY <1>1, <2>1, <2>2, <3>1, <3>3
      <4>2. OK([t EXCEPT !.result = "failed"])
        BY <2>2, <3>2, <4>1
      <4> QED
        BY <1>2, <2>1, <3>1, <3>3, <4>2
    <3>4. CASE t.pending # {}
      BY <1>2, <2>1, <3>1, <3>2, <3>4
    <3> QED
      BY <3>3, <3>4
  <2> QED
    BY <2>3, <2>4
<1>10. ASSUME NEW w \in DOMAIN writes, NEW r \in Replicas,
              LogWrite(w, r) \/ LogFails(w, r) \/ StoreWrite(w, r) \/ GiveUp(w, r)
       PROVE  SearchInv'
  BY <1>4, <1>10 DEF LogWrite, LogFails, StoreWrite, GiveUp
<1>11. ASSUME NEW w \in DOMAIN writes, AnswerWrite(w)
       PROVE  SearchInv'
  BY <1>4, <1>11 DEF AnswerWrite
<1>12. ASSUME NEW r \in Replicas, Crash(r) \/ Start(r)
       PROVE  SearchInv'
  BY <1>4, <1>12 DEF Crash, Start
<1>13. ASSUME NEW doc, Write(doc)
       PROVE  SearchInv'
  BY <1>4, <1>13 DEF Write
<1>14. CASE UNCHANGED vars
  BY <1>4, <1>14 DEF vars
<1> QED
  BY <1>5, <1>6, <1>7, <1>8, <1>9, <1>10, <1>11, <1>12, <1>13, <1>14 DEF Next

\* A search fails only after every replica of the shard did: hedges do not count a
\* replica twice, or forget one (Coordinator.searchShard).
THEOREM FailsOnlyWhenAllFailedHolds == FairSpec => []FailsOnlyWhenAllFailed
<1>1. FairSpec => []SearchInv
  BY SearchInvInit, SearchInvStep, PTL DEF FairSpec
<1>2. SearchInv => FailsOnlyWhenAllFailed
  BY DEF SearchInv
<1> QED
  BY <1>1, <1>2, PTL

-----------------------------------------------------------------------------
(* Slots: what an index serves of an id.                                   *)

\* A set of numbers has a least one.
LEMMA Minimum ==
  ASSUME NEW U \in SUBSET Nat, U # {}
  PROVE  \E m \in U : \A k \in U : m <= k
<1>1. PICK m \in U : \A k \in U : ~ (<<k, m>> \in OpToRel(<, Nat))
  BY WFMin, NatLessThanWellFounded
<1>2. \A k \in U : ~(k < m)
  BY <1>1 DEF OpToRel
<1> QED BY <1>2

LEMMA Induction ==
  ASSUME NEW S, NEW n \in Nat, 0 \in S, \A k \in 0..n - 1 : k \in S => k + 1 \in S
  PROVE  \A k \in 0..n : k \in S
<1> DEFINE U == {k \in 0..n : k \notin S}
<1> SUFFICES ASSUME U # {} PROVE FALSE
  OBVIOUS
<1>1. U \in SUBSET Nat
  OBVIOUS
<1>2. PICK m \in U : \A k \in U : m <= k
  BY <1>1, Minimum
<1>3. m \in 1..n /\ m \notin S
  BY <1>2
<1>4. m - 1 \in 0..n - 1 /\ m - 1 \in S
  BY <1>2, <1>3
<1> QED
  BY <1>3, <1>4

IsSeq(s) == \E S : s \in Seq(S)

Longer(y, t, u) == IsSeq(y) /\ Len(y) = Len(t) + 1 /\ y[Len(t) + 1] = u /\ \A k \in 1..Len(t) : y[k] = t[k]

LEMMA AppendIs ==
  ASSUME NEW t, IsSeq(t), NEW u
  PROVE  Longer(Append(t, u), t, u)
<1>1. PICK S : t \in Seq(S)
  BY DEF IsSeq
<1>2. t \in Seq(S \cup {u}) /\ u \in S \cup {u}
  BY <1>1
<1>3. Append(t, u) \in Seq(S \cup {u}) /\ Len(Append(t, u)) = Len(t) + 1
  BY <1>2
<1>4. Append(t, u)[Len(t) + 1] = u /\ \A k \in 1..Len(t) : Append(t, u)[k] = t[k]
  BY <1>2
<1> QED
  BY <1>3, <1>4 DEF Longer, IsSeq

\* One element changed.
ButAt(y, t, i, u) == IsSeq(y) /\ Len(y) = Len(t) /\ y[i] = u /\ \A k \in 1..Len(t) : k # i => y[k] = t[k]

LEMMA ButAtIs ==
  ASSUME NEW t, IsSeq(t), NEW i \in 1..Len(t), NEW u
  PROVE  ButAt([t EXCEPT ![i] = u], t, i, u)
<1>1. PICK S : t \in Seq(S)
  BY DEF IsSeq
<1>2. t \in Seq(S \cup {u}) /\ u \in S \cup {u}
  BY <1>1
<1> DEFINE y == [t EXCEPT ![i] = u]
<1>3. y \in Seq(S \cup {u}) /\ Len(y) = Len(t)
  BY <1>2
<1>4. y[i] = u /\ \A k \in 1..Len(t) : k # i => y[k] = t[k]
  BY <1>2
<1> QED
  BY <1>3, <1>4 DEF ButAt, IsSeq

\* Every id has a live slot with its document, and every live slot is its document's.
Fit(slots, docs, live) ==
  /\ IsSeq(docs) /\ live \in Seq(BOOLEAN) /\ Len(live) = Len(docs)
  /\ \A id \in DOMAIN slots : slots[id] \in 1..Len(docs) /\ live[slots[id]] /\ docs[slots[id]].id = id
  /\ \A s \in 1..Len(docs) : live[s] => docs[s].id \in DOMAIN slots /\ slots[docs[s].id] = s

\* Of some ids an index has what another had.
Keeps(slots, docs, slots2, docs2, ids) ==
  \A id \in ids : id \in DOMAIN slots2 /\ docs2[slots2[id]] = docs[slots[id]]

LEMMA Retiring ==
  ASSUME NEW slots, NEW docs, NEW live, Fit(slots, docs, live),
         NEW id \in DOMAIN slots, NEW slot, slot = slots[id],
         NEW slots2, slots2 = Without(slots, {id}),
         NEW docs2, docs2 = [docs EXCEPT ![slot] = NoDoc],
         NEW live2, live2 = [live EXCEPT ![slot] = FALSE]
  PROVE  /\ Fit(slots2, docs2, live2) /\ DOMAIN slots2 = DOMAIN slots \ {id}
         /\ Keeps(slots, docs, slots2, docs2, DOMAIN slots \ {id})
<1>1. PICK S : docs \in Seq(S)
  BY DEF Fit, IsSeq
<1>2. PICK n \in Nat : n = Len(docs) /\ n = Len(live)
  BY <1>1 DEF Fit
<1>3. slot \in 1..n /\ live \in Seq(BOOLEAN)
  BY <1>2 DEF Fit
<1>4. /\ DOMAIN slots2 = DOMAIN slots \ {id}
      /\ \A other \in DOMAIN slots2 : slots2[other] = slots[other]
  BY DEF Without
<1>5. /\ IsSeq(docs2) /\ Len(docs2) = n
      /\ \A s \in 1..n : s # slot => docs2[s] = docs[s]
  <2>1. IsSeq(docs) /\ slot \in 1..Len(docs)
    BY <1>2, <1>3 DEF Fit
  <2>2. ButAt([docs EXCEPT ![slot] = NoDoc], docs, slot, NoDoc)
    BY <2>1, ButAtIs
  <2>3. ButAt(docs2, docs, slot, NoDoc)
    BY <2>2
  <2> QED
    BY <1>2, <2>3 DEF ButAt
<1>6. /\ live2 \in Seq(BOOLEAN) /\ Len(live2) = n /\ live2[slot] = FALSE
      /\ \A s \in 1..n : s # slot => live2[s] = live[s]
  BY <1>2, <1>3
<1>7. ASSUME NEW other \in DOMAIN slots2
      PROVE  /\ slots2[other] \in 1..n /\ slots2[other] # slot
             /\ live2[slots2[other]] /\ docs2[slots2[other]].id = other
             /\ docs2[slots2[other]] = docs[slots[other]]
  <2>1. other \in DOMAIN slots /\ other # id /\ slots2[other] = slots[other]
    BY <1>4
  <2>2. slots[other] \in 1..n /\ live[slots[other]] /\ docs[slots[other]].id = other /\ docs[slot].id = id
    BY <1>2, <2>1 DEF Fit
  <2>3. slots[other] # slot
    BY <2>1, <2>2
  <2> QED
    BY <1>5, <1>6, <2>1, <2>2, <2>3
<1>8. ASSUME NEW s \in 1..n, live2[s]
      PROVE  docs2[s].id \in DOMAIN slots2 /\ slots2[docs2[s].id] = s
  <2>1. s # slot
    BY <1>6, <1>8
  <2>2. live[s] /\ docs2[s] = docs[s]
    BY <1>5, <1>6, <1>8, <2>1
  <2>3. docs[s].id \in DOMAIN slots /\ slots[docs[s].id] = s
    BY <1>2, <2>2 DEF Fit
  <2>4. docs[s].id # id
    BY <2>1, <2>3
  <2> QED
    BY <1>4, <2>2, <2>3, <2>4
<1> QED
  <2>1. Fit(slots2, docs2, live2)
    BY <1>5, <1>6, <1>7, <1>8 DEF Fit
  <2> QED
    BY <1>4, <1>7, <2>1 DEF Keeps

OneMore(slots, docs, id) == With(slots, id, Len(docs) + 1)
OneLive(live) == Append(live, TRUE)

Enters(slots, docs, doc, id, slots2, docs2, live2) ==
  /\ Fit(slots2, docs2, live2) /\ DOMAIN slots2 = DOMAIN slots \cup {id}
  /\ docs2[slots2[id]] = doc
  /\ Keeps(slots, docs, slots2, docs2, DOMAIN slots)

LEMMA Entering ==
  ASSUME NEW slots, NEW docs, NEW live, Fit(slots, docs, live),
         NEW doc, NEW id, id = doc.id, id \notin DOMAIN slots
  PROVE  Enters(slots, docs, doc, id, OneMore(slots, docs, id), Append(docs, doc), OneLive(live))
<1> PICK slots2, docs2, live2 :
      slots2 = OneMore(slots, docs, id) /\ docs2 = Append(docs, doc) /\ live2 = OneLive(live)
  OBVIOUS
<1>1. PICK S : docs \in Seq(S)
  BY DEF Fit, IsSeq
<1>2. PICK n \in Nat : n = Len(docs) /\ n = Len(live)
  BY <1>1 DEF Fit
<1>3. live \in Seq(BOOLEAN)
  BY DEF Fit
<1>4. /\ DOMAIN slots2 = DOMAIN slots \cup {id} /\ slots2[id] = n + 1
      /\ \A other \in DOMAIN slots : slots2[other] = slots[other]
  BY <1>2 DEF OneMore, With
<1>5. /\ IsSeq(docs2) /\ Len(docs2) = n + 1 /\ docs2[n + 1] = doc
      /\ \A s \in 1..n : docs2[s] = docs[s]
  <2>1. IsSeq(docs)
    BY DEF Fit
  <2>2. Longer(docs2, docs, doc)
    BY <2>1, AppendIs
  <2> QED
    BY <1>2, <2>2 DEF Longer
<1>6. /\ live2 \in Seq(BOOLEAN) /\ Len(live2) = n + 1 /\ live2[n + 1] = TRUE
      /\ \A s \in 1..n : live2[s] = live[s]
  BY <1>2, <1>3 DEF OneLive
<1>7. ASSUME NEW other \in DOMAIN slots
      PROVE  /\ slots2[other] \in 1..n /\ live2[slots2[other]] /\ docs2[slots2[other]].id = other
             /\ docs2[slots2[other]] = docs[slots[other]]
  <2>1. slots[other] \in 1..n /\ live[slots[other]] /\ docs[slots[other]].id = other
    BY <1>2 DEF Fit
  <2> QED
    BY <1>4, <1>5, <1>6, <2>1
<1>8. ASSUME NEW s \in 1..n, live2[s]
      PROVE  docs2[s].id \in DOMAIN slots2 /\ slots2[docs2[s].id] = s
  <2>1. live[s] /\ docs2[s] = docs[s]
    BY <1>5, <1>6, <1>8
  <2>2. docs[s].id \in DOMAIN slots /\ slots[docs[s].id] = s
    BY <1>2, <2>1 DEF Fit
  <2> QED
    BY <1>4, <2>1, <2>2
<1>9. \A s \in 1..n + 1 : s \in 1..n \/ s = n + 1
  OBVIOUS
<1>10. \A x \in 1..n : x \in 1..n + 1
  OBVIOUS
<1>11. \A other \in DOMAIN slots2 :
         slots2[other] \in 1..n + 1 /\ live2[slots2[other]] /\ docs2[slots2[other]].id = other
  BY <1>4, <1>5, <1>6, <1>7, <1>10
<1>12. \A s \in 1..n + 1 : live2[s] => docs2[s].id \in DOMAIN slots2 /\ slots2[docs2[s].id] = s
  BY <1>4, <1>5, <1>8, <1>9
<1>13. Fit(slots2, docs2, live2)
  BY <1>5, <1>6, <1>9, <1>11, <1>12 DEF Fit
<1>14. Enters(slots, docs, doc, id, slots2, docs2, live2)
  BY <1>4, <1>5, <1>7, <1>13 DEF Keeps, Enters
<1> QED
  BY <1>14

\* The new numbers of live slots.
Counted(live, s) == Cardinality({r \in 1..s : live[r]})

LEMMA CountedOn ==
  ASSUME NEW live, NEW i \in Nat
  PROVE  /\ Counted(live, 0) = 0 /\ Counted(live, i) \in Nat
         /\ Counted(live, i + 1) = Counted(live, i) + (IF live[i + 1] THEN 1 ELSE 0)
<1> DEFINE S == {r \in 1..i : live[r]}
           T == {r \in 1..i + 1 : live[r]}
<1>1. Counted(live, 0) = 0
  <2>1. {r \in 1..0 : live[r]} = {}
    OBVIOUS
  <2> QED
    BY <2>1, FS_EmptySet DEF Counted
<1>2. IsFiniteSet(S) /\ Cardinality(S) \in Nat
  <2>1. IsFiniteSet(1..i)
    BY FS_Interval
  <2>2. S \in SUBSET (1..i)
    OBVIOUS
  <2> QED
    BY <2>1, <2>2, FS_Subset, FS_CardinalityType
<1>3. Counted(live, i) = Cardinality(S) /\ Counted(live, i + 1) = Cardinality(T)
  BY DEF Counted
<1>4. i + 1 \notin S /\ T = IF live[i + 1] THEN S \cup {i + 1} ELSE S
  <2>1. 1..i + 1 = 1..i \cup {i + 1} /\ i + 1 \notin 1..i
    OBVIOUS
  <2> QED
    BY <2>1
<1> HIDE DEF S, T
<1>5. CASE live[i + 1]
  <2>1. Cardinality(S \cup {i + 1}) = Cardinality(S) + 1
    BY <1>2, <1>4, FS_AddElement
  <2> QED
    BY <1>1, <1>2, <1>3, <1>4, <1>5, <2>1
<1>6. CASE ~live[i + 1]
  BY <1>1, <1>2, <1>3, <1>4, <1>6
<1> QED
  BY <1>5, <1>6

\* A live slot has a number of its own.
LEMMA NumbersGrow ==
  ASSUME NEW live, NEW n \in Nat
  PROVE  \A t \in 1..n : Counted(live, t) <= Counted(live, n)
                         /\ \A s \in 1..t : live[t] /\ s # t => Counted(live, s) < Counted(live, t)
<1> DEFINE T == {k \in Nat : \A s \in 0..k : Counted(live, s) <= Counted(live, k)}
<1>1. 0 \in T
  BY CountedOn
<1>2. ASSUME NEW k \in 0..n - 1, k \in T
      PROVE  k + 1 \in T
  <2>1. Counted(live, k) <= Counted(live, k + 1) /\ Counted(live, k) \in Nat /\ Counted(live, k + 1) \in Nat
    <3>1. CASE live[k + 1]
      BY <3>1, CountedOn
    <3>2. CASE ~live[k + 1]
      BY <3>2, CountedOn
    <3> QED
      BY <3>1, <3>2
  <2>2. ASSUME NEW s \in 0..k
        PROVE  Counted(live, s) <= Counted(live, k + 1)
    <3>1. Counted(live, s) <= Counted(live, k) /\ Counted(live, s) \in Nat
      BY <1>2, CountedOn
    <3> QED
      BY <2>1, <3>1
  <2>3. \A s \in 0..k + 1 : s \in 0..k \/ s = k + 1
    OBVIOUS
  <2> QED
    BY <2>1, <2>2, <2>3
<1> HIDE DEF T
<1>3. \A k \in 0..n : k \in T
  BY <1>1, <1>2, Induction
<1>4. \A k \in 0..n : \A s \in 0..k : Counted(live, s) <= Counted(live, k)
  BY <1>3 DEF T
<1>5. ASSUME NEW t \in 1..n, NEW s \in 1..t, live[t], s # t
      PROVE  Counted(live, s) < Counted(live, t)
  <2>1. PICK k \in 0..n : k + 1 = t /\ s \in 0..k
    <3>1. t - 1 \in 0..n /\ (t - 1) + 1 = t /\ s \in 0..(t - 1)
      BY <1>5
    <3> QED
      BY <3>1
  <2>2. Counted(live, s) <= Counted(live, k)
    BY <1>4, <2>1
  <2>3. Counted(live, t) = Counted(live, k) + 1 /\ Counted(live, k) \in Nat /\ Counted(live, s) \in Nat
    BY <1>5, <2>1, CountedOn
  <2> QED
    BY <2>2, <2>3
<1> QED
  BY <1>4, <1>5

\* Every number is that of a live slot.
LEMMA NumbersAreUsed ==
  ASSUME NEW live, NEW n \in Nat
  PROVE  \A x \in 1..Counted(live, n) : \E s \in 1..n : live[s] /\ Counted(live, s) = x
<1> DEFINE T == {k \in Nat : \A x \in 1..Counted(live, k) : \E s \in 1..k : live[s] /\ Counted(live, s) = x}
<1>1. 0 \in T
  <2>1. Counted(live, 0) = 0
    BY CountedOn
  <2> QED
    BY <2>1
<1>2. ASSUME NEW k \in 0..n - 1, k \in T
      PROVE  k + 1 \in T
  <2>1. ASSUME NEW x \in 1..Counted(live, k + 1)
        PROVE  \E s \in 1..k + 1 : live[s] /\ Counted(live, s) = x
    <3>1. CASE x \in 1..Counted(live, k)
      <4>1. PICK s \in 1..k : live[s] /\ Counted(live, s) = x
        BY <1>2, <3>1
      <4> QED
        BY <4>1
    <3>2. CASE x \notin 1..Counted(live, k)
      <4>1. Counted(live, k) \in Nat /\ (live[k + 1] => Counted(live, k + 1) = Counted(live, k) + 1)
            /\ (~live[k + 1] => Counted(live, k + 1) = Counted(live, k))
        BY CountedOn
      <4>2. live[k + 1]
        BY <3>2, <4>1
      <4>3. x = Counted(live, k + 1)
        BY <3>2, <4>1, <4>2
      <4> QED
        BY <4>2, <4>3
    <3> QED
      BY <3>1, <3>2
  <2> QED
    BY <2>1
<1> HIDE DEF T
<1>3. n \in T
  BY <1>1, <1>2, Induction
<1> QED
  BY <1>3 DEF T

\* The slots that are kept, and what is where afterwards.
KeptOf(docs, live) ==
  [n \in 1..Counted(live, Len(docs)) |-> CHOOSE s \in DOMAIN docs : live[s] /\ Counted(live, s) = n]
NewSlots(slots, live) == [id \in DOMAIN slots |-> Counted(live, slots[id])]
NewDocs(docs, kept)   == [n \in DOMAIN kept |-> docs[kept[n]]]
AllLive(kept)         == [n \in DOMAIN kept |-> TRUE]

LEMMA Compacting ==
  ASSUME NEW slots, NEW docs, NEW live, Fit(slots, docs, live),
         NEW kept, kept = KeptOf(docs, live), NEW slots2, slots2 = NewSlots(slots, live),
         NEW docs2, docs2 = NewDocs(docs, kept), NEW live2, live2 = AllLive(kept)
  PROVE  /\ Fit(slots2, docs2, live2) /\ DOMAIN slots2 = DOMAIN slots
         /\ Keeps(slots, docs, slots2, docs2, DOMAIN slots)
<1> USE DEF KeptOf, NewSlots, NewDocs, AllLive
<1> PICK last : last = Counted(live, Len(docs))
  OBVIOUS
<1>1. PICK S : docs \in Seq(S)
  BY DEF Fit, IsSeq
<1>2. PICK n \in Nat : n = Len(docs) /\ DOMAIN docs = 1..n
  BY <1>1
<1>3. last \in Nat /\ last = Counted(live, n)
  BY <1>2, CountedOn
<1>4. ASSUME NEW x \in 1..last
      PROVE  kept[x] \in 1..n /\ live[kept[x]] /\ Counted(live, kept[x]) = x
  <2>1. \E s \in DOMAIN docs : live[s] /\ Counted(live, s) = x
    <3>1. \E s \in 1..n : live[s] /\ Counted(live, s) = x
      BY <1>3, NumbersAreUsed
    <3> QED
      BY <1>2, <3>1
  <2>2. kept[x] = CHOOSE s \in DOMAIN docs : live[s] /\ Counted(live, s) = x
    OBVIOUS
  <2> QED
    BY <1>2, <2>1, <2>2
<1>5. ASSUME NEW s \in 1..n, live[s]
      PROVE  Counted(live, s) \in 1..last /\ kept[Counted(live, s)] = s
  <2>1. Counted(live, s) <= last
    BY <1>3, NumbersGrow
  <2>2. Counted(live, s) \in Nat /\ Counted(live, s) > 0
    <3>1. PICK k \in Nat : s = k + 1
      <4>1. s - 1 \in Nat /\ s = (s - 1) + 1
        OBVIOUS
      <4> QED
        BY <4>1
    <3>2. Counted(live, k) \in Nat /\ Counted(live, s) = Counted(live, k) + 1
      BY <1>5, <3>1, CountedOn
    <3> QED
      BY <3>2
  <2>3. PICK x \in 1..last : x = Counted(live, s)
    BY <1>3, <2>1, <2>2
  <2>4. PICK r \in 1..n : r = kept[x] /\ live[r] /\ Counted(live, r) = Counted(live, s)
    BY <1>4, <2>3
  <2>5. ~(r < s) /\ ~(s < r)
    <3>1. r < s => r \in 1..s /\ r # s
      OBVIOUS
    <3>2. s < r => s \in 1..r /\ r # s
      OBVIOUS
    <3>3. r < s => Counted(live, r) < Counted(live, s)
      BY <1>5, <3>1, NumbersGrow
    <3>4. s < r => Counted(live, s) < Counted(live, r)
      BY <2>4, <3>2, NumbersGrow
    <3> QED
      BY <2>2, <2>4, <3>3, <3>4
  <2>6. r = s
    BY <2>5
  <2> QED
    BY <2>3, <2>4, <2>6
<1>6. DOMAIN kept = 1..last
  OBVIOUS
<1>7. docs2 = [x \in 1..last |-> docs[kept[x]]] /\ live2 = [x \in 1..last |-> TRUE]
  BY <1>6
<1>8. docs2 \in Seq(S) /\ Len(docs2) = last /\ live2 \in Seq(BOOLEAN) /\ Len(live2) = last
  <2>1. ASSUME NEW x \in 1..last
        PROVE  docs[kept[x]] \in S
    <3>1. kept[x] \in 1..n
      BY <1>4
    <3> QED
      BY <1>1, <1>2, <3>1
  <2>2. docs2 \in Seq(S) /\ Len(docs2) = last
    <3> DEFINE f == [x \in 1..last |-> docs[kept[x]]]
    <3>1. f \in [1..last -> S]
      BY <2>1
    <3> HIDE DEF f
    <3>2. f \in Seq(S) /\ Len(f) = last
      BY <1>3, <3>1
    <3> QED
      BY <1>7, <3>2 DEF f
  <2>3. live2 \in Seq(BOOLEAN) /\ Len(live2) = last
    <3> DEFINE f == [x \in 1..last |-> TRUE]
    <3>1. f \in [1..last -> BOOLEAN]
      OBVIOUS
    <3> HIDE DEF f
    <3>2. f \in Seq(BOOLEAN) /\ Len(f) = last
      BY <1>3, <3>1
    <3> QED
      BY <1>7, <3>2 DEF f
  <2> QED
    BY <2>2, <2>3
<1>9. IsSeq(docs2)
  BY <1>8 DEF IsSeq
<1>10. ASSUME NEW id \in DOMAIN slots
       PROVE  /\ slots2[id] \in 1..last /\ live2[slots2[id]] /\ docs2[slots2[id]] = docs[slots[id]]
              /\ docs2[slots2[id]].id = id
  <2>1. slots[id] \in 1..n /\ live[slots[id]] /\ docs[slots[id]].id = id
    BY <1>2 DEF Fit
  <2>2. slots2[id] = Counted(live, slots[id])
    OBVIOUS
  <2>3. slots2[id] \in 1..last /\ kept[slots2[id]] = slots[id]
    BY <1>5, <2>1, <2>2
  <2>4. PICK x \in 1..last : x = slots2[id] /\ kept[x] = slots[id]
    BY <2>3
  <2>5. live2[x] = TRUE /\ docs2[x] = docs[kept[x]]
    BY <1>7
  <2> QED
    BY <2>1, <2>4, <2>5
<1>11. ASSUME NEW x \in 1..last
       PROVE  docs2[x].id \in DOMAIN slots2 /\ slots2[docs2[x].id] = x
  <2>1. docs2[x] = docs[kept[x]]
    BY <1>7
  <2>2. PICK s \in 1..n : s = kept[x] /\ live[s] /\ Counted(live, s) = x
    BY <1>4
  <2>3. docs2[x] = docs[s]
    BY <2>1, <2>2
  <2>4. docs[s].id \in DOMAIN slots /\ slots[docs[s].id] = s
    BY <1>2, <2>2 DEF Fit
  <2> QED
    BY <2>2, <2>3, <2>4
<1>12. DOMAIN slots2 = DOMAIN slots
  OBVIOUS
<1>13. Fit(slots2, docs2, live2)
  BY <1>8, <1>9, <1>10, <1>11, <1>12 DEF Fit
<1> QED
  BY <1>10, <1>12, <1>13 DEF Keeps

Fields(ix) ==
  ix = [slots |-> ix.slots, docs |-> ix.docs, lengths |-> ix.lengths, live |-> ix.live,
        terms |-> ix.terms, tokens |-> ix.tokens, dead |-> ix.dead]

IndexOK(ix) == Fields(ix) /\ Fit(ix.slots, ix.docs, ix.live)

LEMMA RetireIs ==
  ASSUME NEW ix, IndexOK(ix), NEW id \in DOMAIN ix.slots, NEW jx, jx = Retire(ix, ix.slots[id])
  PROVE  /\ IndexOK(jx) /\ DOMAIN jx.slots = DOMAIN ix.slots \ {id}
         /\ Keeps(ix.slots, ix.docs, jx.slots, jx.docs, DOMAIN ix.slots \ {id})
<1> PICK slot : slot = ix.slots[id]
  OBVIOUS
<1>1. ix.docs[slot].id = id
  BY DEF IndexOK, Fit
<1>2. /\ Fields(jx) /\ jx.slots = Without(ix.slots, {id})
      /\ jx.docs = [ix.docs EXCEPT ![slot] = NoDoc] /\ jx.live = [ix.live EXCEPT ![slot] = FALSE]
  BY <1>1 DEF IndexOK, Fields, Retire
<1>3. Fit(ix.slots, ix.docs, ix.live)
  BY DEF IndexOK
<1> QED
  BY <1>2, <1>3, Retiring DEF IndexOK

LEMMA CompactIs ==
  ASSUME NEW ix, IndexOK(ix), NEW jx, jx = Compact(ix)
  PROVE  /\ IndexOK(jx) /\ DOMAIN jx.slots = DOMAIN ix.slots
         /\ Keeps(ix.slots, ix.docs, jx.slots, jx.docs, DOMAIN ix.slots)
<1> PICK slots, docs, live : slots = ix.slots /\ docs = ix.docs /\ live = ix.live
  OBVIOUS
<1> PICK kept : kept = KeptOf(docs, live)
  OBVIOUS
<1>1. Fields(jx)
  BY DEF IndexOK, Fields, Compact
<1>2. jx.slots = NewSlots(slots, live)
  BY DEF IndexOK, Fields, Compact, Remap, Counted, NewSlots
<1>3. jx.docs = NewDocs(docs, kept) /\ jx.live = AllLive(kept)
  BY DEF IndexOK, Fields, Compact, Remap, Counted, KeptOf, NewDocs, AllLive
<1>4. Fit(slots, docs, live)
  BY DEF IndexOK
<1>5. Fit(jx.slots, jx.docs, jx.live) /\ DOMAIN jx.slots = DOMAIN slots
      /\ Keeps(slots, docs, jx.slots, jx.docs, DOMAIN slots)
  BY <1>2, <1>3, <1>4, Compacting
<1> QED
  BY <1>1, <1>5 DEF IndexOK

LEMMA AddSlotIs ==
  ASSUME NEW ix, IndexOK(ix), NEW doc, doc.id \notin DOMAIN ix.slots, NEW jx, jx = AddSlot(ix, doc)
  PROVE  /\ IndexOK(jx) /\ DOMAIN jx.slots = DOMAIN ix.slots \cup {doc.id}
         /\ jx.docs[jx.slots[doc.id]] = doc
         /\ Keeps(ix.slots, ix.docs, jx.slots, jx.docs, DOMAIN ix.slots)
<1>1. Fields(jx)
  BY DEF IndexOK, Fields, AddSlot
<1>2. /\ jx.slots = OneMore(ix.slots, ix.docs, doc.id)
      /\ jx.docs = Append(ix.docs, doc) /\ jx.live = OneLive(ix.live)
  BY DEF IndexOK, Fields, AddSlot, OneMore, OneLive
<1>3. Fit(ix.slots, ix.docs, ix.live)
  BY DEF IndexOK
<1>4. Enters(ix.slots, ix.docs, doc, doc.id, OneMore(ix.slots, ix.docs, doc.id), Append(ix.docs, doc), OneLive(ix.live))
  BY <1>3, Entering
<1> QED
  BY <1>1, <1>2, <1>4 DEF IndexOK, Enters

\* An index takes a version of a document in the place of the one it had.
Takes(jx, ix, doc) ==
  /\ DOMAIN jx.slots = DOMAIN ix.slots \cup {doc.id}
  /\ jx.docs[jx.slots[doc.id]] = doc
  /\ Keeps(ix.slots, ix.docs, jx.slots, jx.docs, DOMAIN ix.slots \ {doc.id})

LEMMA UpsertIs ==
  ASSUME NEW ix, IndexOK(ix), NEW doc
  PROVE  IndexOK(Upsert(ix, doc)) /\ Takes(Upsert(ix, doc), ix, doc)
<1> PICK jx : jx = IF doc.id \in DOMAIN ix.slots THEN Retire(ix, ix.slots[doc.id]) ELSE ix
  OBVIOUS
<1> PICK kx : kx = AddSlot(jx, doc)
  OBVIOUS
<1>1. /\ IndexOK(jx) /\ DOMAIN jx.slots = DOMAIN ix.slots \ {doc.id}
      /\ Keeps(ix.slots, ix.docs, jx.slots, jx.docs, DOMAIN ix.slots \ {doc.id})
  <2>1. CASE doc.id \in DOMAIN ix.slots
    BY <2>1, RetireIs
  <2>2. CASE doc.id \notin DOMAIN ix.slots
    BY <2>2 DEF Keeps
  <2> QED
    BY <2>1, <2>2
<1>2. doc.id \notin DOMAIN jx.slots
  BY <1>1
<1>3. /\ IndexOK(kx) /\ DOMAIN kx.slots = DOMAIN jx.slots \cup {doc.id}
      /\ kx.docs[kx.slots[doc.id]] = doc
      /\ Keeps(jx.slots, jx.docs, kx.slots, kx.docs, DOMAIN jx.slots)
  BY <1>1, <1>2, AddSlotIs
<1>4. Takes(kx, ix, doc)
  BY <1>1, <1>3 DEF Takes, Keeps
<1>5. CASE CompactDue(kx)
  <2>1. PICK new : new = Compact(kx) /\ new = Upsert(ix, doc)
    BY <1>5 DEF Upsert
  <2>2. /\ IndexOK(new) /\ DOMAIN new.slots = DOMAIN kx.slots
        /\ Keeps(kx.slots, kx.docs, new.slots, new.docs, DOMAIN kx.slots)
    BY <1>3, <2>1, CompactIs
  <2>3. Takes(new, ix, doc)
    BY <1>4, <2>2 DEF Takes, Keeps
  <2> QED
    BY <2>1, <2>2, <2>3
<1>6. CASE ~CompactDue(kx)
  <2>1. kx = Upsert(ix, doc)
    BY <1>6 DEF Upsert
  <2> QED
    BY <1>3, <1>4, <2>1
<1> QED
  BY <1>5, <1>6

LEMMA NewIndexIs == IndexOK(NewIndex) /\ DOMAIN NewIndex.slots = {}
<1>1. IsSeq(<<>>) /\ <<>> \in Seq(BOOLEAN) /\ Len(<<>>) = 0 /\ DOMAIN <<>> = {}
  BY DEF IsSeq
<1>2. NewIndex.slots = <<>> /\ NewIndex.docs = <<>> /\ NewIndex.live = <<>> /\ Fields(NewIndex)
  BY DEF NewIndex, Fields
<1>3. Fit(NewIndex.slots, NewIndex.docs, NewIndex.live)
  BY <1>1, <1>2 DEF Fit
<1> QED
  BY <1>1, <1>2, <1>3 DEF IndexOK

\* The live documents of an id are the one in its slot.
LEMMA LiveIs ==
  ASSUME NEW ix, IndexOK(ix), NEW id \in DOMAIN ix.slots
  PROVE  {d \in LiveDocs(ix) : d.id = id} = {ix.docs[ix.slots[id]]}
<1>1. Fit(ix.slots, ix.docs, ix.live) /\ IsSeq(ix.docs)
  BY DEF IndexOK, Fit
<1>2. DOMAIN ix.docs = 1..Len(ix.docs)
  BY <1>1 DEF IsSeq
<1>3. ix.slots[id] \in DOMAIN ix.docs /\ ix.live[ix.slots[id]] /\ ix.docs[ix.slots[id]].id = id
  BY <1>1, <1>2 DEF Fit
<1>4. ASSUME NEW s \in DOMAIN ix.docs, ix.live[s], ix.docs[s].id = id
      PROVE  s = ix.slots[id]
  BY <1>1, <1>2, <1>4 DEF Fit
<1> QED
  BY <1>3, <1>4 DEF LiveDocs

-----------------------------------------------------------------------------
(* Replays.                                                                *)

\* The last version of an id among the first k lines.
LatestOf(lines, k, id, d) ==
  d.id = id /\ \E i \in 1..k : lines[i] = d /\ \A j \in i + 1..k : lines[j].id # id

\* Of an id an index has the last version among the first k lines, if there is one.
Serves(ix, lines, k, id) ==
  /\ id \in DOMAIN ix.slots => LatestOf(lines, k, id, ix.docs[ix.slots[id]])
  /\ id \notin DOMAIN ix.slots => \A j \in 1..k : lines[j].id # id

LEMMA LatestOn ==
  ASSUME NEW lines, NEW k \in Nat
  PROVE  /\ LatestOf(lines, k + 1, lines[k + 1].id, lines[k + 1])
         /\ \A id, d : id # lines[k + 1].id /\ LatestOf(lines, k, id, d) => LatestOf(lines, k + 1, id, d)
<1>1. k + 1 \in 1..k + 1 /\ \A j \in (k + 1) + 1..k + 1 : FALSE
  OBVIOUS
<1>2. LatestOf(lines, k + 1, lines[k + 1].id, lines[k + 1])
  BY <1>1 DEF LatestOf
<1>3. ASSUME NEW id, NEW d, id # lines[k + 1].id, LatestOf(lines, k, id, d)
      PROVE  LatestOf(lines, k + 1, id, d)
  <2>1. PICK i \in 1..k : lines[i] = d /\ \A j \in i + 1..k : lines[j].id # id
    BY <1>3 DEF LatestOf
  <2>2. i \in 1..k + 1 /\ \A j \in i + 1..k + 1 : j \in i + 1..k \/ j = k + 1
    OBVIOUS
  <2>3. \A j \in i + 1..k + 1 : lines[j].id # id
    BY <1>3, <2>1, <2>2
  <2> QED
    BY <1>3, <2>1, <2>2, <2>3 DEF LatestOf
<1> QED
  BY <1>2, <1>3

LEMMA ServesOn ==
  ASSUME NEW ix, IndexOK(ix), NEW lines, NEW k \in Nat, NEW id, Serves(ix, lines, k, id)
  PROVE  Serves(Upsert(ix, lines[k + 1]), lines, k + 1, id)
<1> PICK doc, jx : doc = lines[k + 1] /\ jx = Upsert(ix, doc)
  OBVIOUS
<1>1. Takes(jx, ix, doc)
  BY UpsertIs
<1>2. CASE id = doc.id
  <2>1. id \in DOMAIN jx.slots /\ jx.docs[jx.slots[id]] = doc
    BY <1>1, <1>2 DEF Takes
  <2>2. LatestOf(lines, k + 1, id, doc)
    BY <1>2, LatestOn
  <2> QED
    BY <2>1, <2>2 DEF Serves
<1>3. CASE id # doc.id
  <2>1. CASE id \in DOMAIN ix.slots
    <3>1. id \in DOMAIN jx.slots /\ jx.docs[jx.slots[id]] = ix.docs[ix.slots[id]]
      BY <1>1, <1>3, <2>1 DEF Takes, Keeps
    <3>2. LatestOf(lines, k, id, ix.docs[ix.slots[id]])
      BY <2>1 DEF Serves
    <3>3. LatestOf(lines, k + 1, id, ix.docs[ix.slots[id]])
      BY <1>3, <3>2, LatestOn
    <3> QED
      BY <3>1, <3>3 DEF Serves
  <2>2. CASE id \notin DOMAIN ix.slots
    <3>1. id \notin DOMAIN jx.slots
      BY <1>1, <1>3, <2>2 DEF Takes
    <3>2. \A j \in 1..k + 1 : j \in 1..k \/ j = k + 1
      OBVIOUS
    <3>3. \A j \in 1..k + 1 : lines[j].id # id
      BY <1>3, <2>2, <3>2 DEF Serves
    <3> QED
      BY <3>1, <3>3 DEF Serves
  <2> QED
    BY <2>1, <2>2
<1> QED
  BY <1>2, <1>3

\* What is served of a log says nothing of later lines.
LEMMA ServesSame ==
  ASSUME NEW ix, NEW lines, NEW more, NEW k \in Nat, \A j \in 1..k : more[j] = lines[j],
         NEW id, Serves(ix, lines, k, id)
  PROVE  Serves(ix, more, k, id)
<1>1. ASSUME NEW d, LatestOf(lines, k, id, d)
      PROVE  LatestOf(more, k, id, d)
  <2>1. PICK i \in 1..k : lines[i] = d /\ \A j \in i + 1..k : lines[j].id # id
    BY <1>1 DEF LatestOf
  <2>2. \A j \in i + 1..k : j \in 1..k
    OBVIOUS
  <2>3. \A j \in i + 1..k : more[j].id # id
    BY <2>1, <2>2
  <2> QED
    BY <1>1, <2>1, <2>3 DEF LatestOf
<1> QED
  BY <1>1 DEF Serves

Builds(f, n, lines) ==
  f = [k \in 0..n |-> IF k = 0 THEN NewIndex ELSE Upsert(f[k - 1], lines[k])]

LEMMA BuildsOn ==
  ASSUME NEW lines, NEW n \in Nat
  PROVE  \E f : Builds(f, n, lines)
<1> DEFINE T == {k \in Nat : \E f : Builds(f, k, lines)}
           Then(before, i) == Upsert(before, lines[i])
<1>0. ASSUME NEW f, NEW k
      PROVE  Builds(f, k, lines) <=> f = [i \in 0..k |-> IF i = 0 THEN NewIndex ELSE Then(f[i-1], i)]
  BY DEF Builds
<1>1. 0 \in T
  <2> DEFINE f == [i \in 0..0 |-> NewIndex]
  <2>1. Builds(f, 0, lines)
    BY DEF Builds
  <2> QED
    BY <2>1
<1> HIDE DEF Then
<1>2. ASSUME NEW k \in 0..n - 1, k \in T
      PROVE  k + 1 \in T
  <2>1. PICK f : Builds(f, k, lines)
    BY <1>2
  <2>2. f = [i \in 0..k |-> IF i = 0 THEN NewIndex ELSE Then(f[i-1], i)]
    BY <1>0, <2>1
  <2> DEFINE g == [i \in 0..k + 1 |-> IF i = k + 1 THEN Then(f[k], k + 1) ELSE f[i]]
  <2>3. ASSUME NEW i \in 0..k + 1
        PROVE  g[i] = IF i = 0 THEN NewIndex ELSE Then(g[i-1], i)
    <3>1. CASE i = k + 1
      BY <3>1
    <3>2. CASE i \in 0..k
      <4>1. f[i] = IF i = 0 THEN NewIndex ELSE Then(f[i-1], i)
        BY <2>2, <3>2
      <4>2. g[i] = f[i] /\ (i # 0 => g[i-1] = f[i-1])
        BY <3>2
      <4> QED
        BY <4>1, <4>2
    <3> QED
      BY <3>1, <3>2
  <2>4. Builds(g, k + 1, lines)
    <3> DEFINE h == [i \in 0..k + 1 |-> IF i = 0 THEN NewIndex ELSE Then(g[i-1], i)]
    <3>1. \A i \in 0..k + 1 : g[i] = h[i]
      BY <2>3
    <3>2. g = h
      BY <3>1
    <3> HIDE DEF g
    <3> QED
      BY <1>0, <3>2
  <2> QED
    BY <2>4
<1> HIDE DEF T
<1>3. n \in T
  BY <1>1, <1>2, Induction
<1> QED
  BY <1>3 DEF T

\* A replay serves the last version of every id.
LEMMA ReplayServes ==
  ASSUME NEW lines, IsSeq(lines)
  PROVE  IndexOK(Replayed(lines)) /\ \A id : Serves(Replayed(lines), lines, Len(lines), id)
<1>1. PICK n \in Nat : n = Len(lines)
  BY DEF IsSeq
<1> DEFINE f == CHOOSE g : Builds(g, n, lines)
           Then(before, i) == Upsert(before, lines[i])
<1>2. Builds(f, n, lines)
  BY BuildsOn
<1>3. Replayed(lines) = f[n]
  BY <1>1 DEF Replayed, Builds
<1> HIDE DEF f
<1>4. f = [i \in 0..n |-> IF i = 0 THEN NewIndex ELSE Then(f[i-1], i)]
  BY <1>2 DEF Builds
<1> HIDE DEF Then
<1>5. \A i \in 0..n : f[i] = IF i = 0 THEN NewIndex ELSE Then(f[i-1], i)
  BY <1>4
<1>6. f[0] = NewIndex /\ \A i \in 1..n : f[i] = Upsert(f[i-1], lines[i])
  BY <1>5 DEF Then
<1> DEFINE T == {k \in Nat : IndexOK(f[k]) /\ \A id : Serves(f[k], lines, k, id)}
<1>7. 0 \in T
  <2>1. \A j \in 1..0 : FALSE
    OBVIOUS
  <2> QED
    BY <1>6, <2>1, NewIndexIs DEF Serves
<1>8. ASSUME NEW k \in 0..n - 1, k \in T
      PROVE  k + 1 \in T
  <2>1. k + 1 \in 1..n /\ (k + 1) - 1 = k /\ k \in Nat
    BY <1>1
  <2>2. f[k + 1] = Upsert(f[k], lines[k + 1])
    BY <1>6, <2>1
  <2>3. IndexOK(f[k + 1])
    BY <1>8, <2>2, UpsertIs
  <2>4. \A id : Serves(f[k + 1], lines, k + 1, id)
    BY <1>8, <2>1, <2>2, ServesOn
  <2> QED
    BY <2>1, <2>3, <2>4
<1> HIDE DEF T
<1>9. \A k \in 0..n : k \in T
  BY <1>7, <1>8, Induction
<1>10. n \in T
  BY <1>9
<1> QED
  BY <1>1, <1>3, <1>10 DEF T

\* What is served is what is live, and Latest is the last version.
LEMMA ServedIsLatest ==
  ASSUME NEW ix, IndexOK(ix), NEW lines, NEW id, IsSeq(lines), Serves(ix, lines, Len(lines), id),
         NEW k \in DOMAIN lines, lines[k].id = id
  PROVE  {d \in LiveDocs(ix) : d.id = id} = {Latest(lines, id)}
<1>1. PICK n \in Nat : n = Len(lines) /\ DOMAIN lines = 1..n
  BY DEF IsSeq
<1>2. id \in DOMAIN ix.slots
  BY <1>1 DEF Serves
<1>3. PICK d : d = ix.docs[ix.slots[id]] /\ LatestOf(lines, n, id, d)
  BY <1>1, <1>2 DEF Serves
<1>4. PICK i \in 1..n : lines[i] = d /\ d.id = id /\ \A j \in i + 1..n : lines[j].id # id
  BY <1>3 DEF LatestOf
<1> DEFINE versions == {j \in DOMAIN lines : lines[j].id = id}
<1>5. i \in versions /\ \A j \in versions : j <= i
  <2>1. ASSUME NEW j \in 1..n, lines[j].id = id
        PROVE  j <= i
    <3>1. j > i => j \in i + 1..n
      BY <1>1
    <3> QED
      BY <1>4, <2>1, <3>1
  <2> QED
    BY <1>1, <1>4, <2>1
<1>6. versions \in SUBSET Nat
  BY <1>1
<1>7. Latest(lines, id) = lines[CHOOSE m \in versions : \A j \in versions : j <= m]
  BY DEF Latest
<1> HIDE DEF versions
<1>8. (CHOOSE m \in versions : \A j \in versions : j <= m) = i
  <2>1. PICK last : last = CHOOSE m \in versions : \A j \in versions : j <= m
    OBVIOUS
  <2>2. last \in versions /\ \A j \in versions : j <= last
    BY <1>5, <2>1
  <2>3. last = i
    BY <1>5, <1>6, <2>2
  <2> QED
    BY <2>1, <2>3
<1>9. Latest(lines, id) = d
  BY <1>4, <1>7, <1>8
<1> QED
  BY <1>2, <1>3, <1>9, LiveIs

LEMMA ServesAlong ==
  ASSUME NEW ix, NEW lines, NEW k \in Nat, NEW id, id # lines[k + 1].id, Serves(ix, lines, k, id)
  PROVE  Serves(ix, lines, k + 1, id)
<1>1. id \in DOMAIN ix.slots => LatestOf(lines, k + 1, id, ix.docs[ix.slots[id]])
  <2>1. PICK d : d = ix.docs[ix.slots[id]]
    OBVIOUS
  <2>2. LatestOf(lines, k, id, d) => LatestOf(lines, k + 1, id, d)
    BY LatestOn
  <2> QED
    BY <2>1, <2>2 DEF Serves
<1>2. \A j \in 1..k + 1 : j \in 1..k \/ j = k + 1
  OBVIOUS
<1>3. id \notin DOMAIN ix.slots => \A j \in 1..k + 1 : lines[j].id # id
  BY <1>2 DEF Serves
<1> QED
  BY <1>1, <1>3 DEF Serves

LEMMA ServesOthers ==
  ASSUME NEW ix, IndexOK(ix), NEW doc, NEW lines, NEW k, NEW id, id # doc.id, Serves(ix, lines, k, id)
  PROVE  Serves(Upsert(ix, doc), lines, k, id)
<1> PICK jx : jx = Upsert(ix, doc)
  OBVIOUS
<1>1. Takes(jx, ix, doc)
  BY UpsertIs
<1>2. id \in DOMAIN jx.slots <=> id \in DOMAIN ix.slots
  BY <1>1 DEF Takes
<1>3. id \in DOMAIN ix.slots => jx.docs[jx.slots[id]] = ix.docs[ix.slots[id]]
  BY <1>1 DEF Takes, Keeps
<1> QED
  BY <1>2, <1>3 DEF Serves

LEMMA ServesTaken ==
  ASSUME NEW ix, IndexOK(ix), NEW doc, NEW lines, NEW k, LatestOf(lines, k, doc.id, doc)
  PROVE  Serves(Upsert(ix, doc), lines, k, doc.id)
<1> PICK jx : jx = Upsert(ix, doc)
  OBVIOUS
<1>1. Takes(jx, ix, doc)
  BY UpsertIs
<1>2. doc.id \in DOMAIN jx.slots /\ jx.docs[jx.slots[doc.id]] = doc
  BY <1>1 DEF Takes
<1> QED
  BY <1>2 DEF Serves

-----------------------------------------------------------------------------
(* Restarts: the invariant and its steps.                                  *)

\* Of an id in order a replica serves the last version in its log, or the one write of
\* it that is between log and index is that version.
InOrder(n, id) ==
  \/ At(n, id, "logged") = {} /\ Serves(index[n], wal[n], Len(wal[n]), id)
  \/ \E w \in DOMAIN writes :
       At(n, id, "logged") = {w} /\ LatestOf(wal[n], Len(wal[n]), id, writes[w].doc)

ReplicaOK(n) ==
  /\ IndexOK(index[n])
  /\ ~up[n] => \A id : At(n, id, "logged") = {}
  /\ up[n] /\ ~IsTorn(n) => \A id : id \notin unordered[n] => InOrder(n, id)

Shapes == DOMAIN index = Replicas /\ up \in [Replicas -> BOOLEAN] /\ DOMAIN unordered = Replicas

RestartInv == WritesInv /\ Shapes /\ \A n \in Replicas : ReplicaOK(n)

\* A replica to which nothing happens.
Untouched(n) ==
  /\ index'[n] = index[n] /\ up'[n] = up[n] /\ wal'[n] = wal[n] /\ unordered'[n] = unordered[n]
  /\ \A id : At(n, id, "logged")' = At(n, id, "logged")

DocsStay == \A w \in DOMAIN writes : w \in DOMAIN writes' /\ writes'[w].doc = writes[w].doc

LEMMA UntouchedOK ==
  ASSUME NEW n, ReplicaOK(n), Untouched(n), DocsStay
  PROVE  ReplicaOK(n)'
<1>1. \A id : InOrder(n, id) => InOrder(n, id)'
  BY DEF InOrder, Untouched, DocsStay
<1>2. IsTorn(n)' <=> IsTorn(n)
  BY DEF IsTorn, Untouched
<1>3. \A id : At(n, id, "logged")' = At(n, id, "logged")
  BY DEF Untouched
<1> QED
  BY <1>1, <1>2, <1>3 DEF ReplicaOK, Untouched

\* Write w is at a step with replica n; nothing else of the writes matters here.
Moved(w, n, step) ==
  /\ DOMAIN writes' = DOMAIN writes
  /\ \A v \in DOMAIN writes :
       /\ writes'[v].doc = writes[v].doc
       /\ \A m \in Replicas : writes'[v].handler[m] = IF v = w /\ m = n THEN step ELSE writes[v].handler[m]

LEMMA AtMoved ==
  ASSUME NEW w \in DOMAIN writes, NEW n \in Replicas, NEW step, Moved(w, n, step),
         NEW m \in Replicas, NEW id
  PROVE  /\ m # n \/ id # writes[w].doc.id => At(m, id, "logged")' = At(m, id, "logged")
         /\ m = n /\ id = writes[w].doc.id /\ step = "logged" => At(m, id, "logged")' = At(m, id, "logged") \cup {w}
         /\ m = n /\ id = writes[w].doc.id /\ step # "logged" => At(m, id, "logged")' = At(m, id, "logged") \ {w}
         /\ step # "logged" /\ writes[w].handler[n] # "logged" => At(m, id, "logged")' = At(m, id, "logged")
         /\ DocsStay
BY DEF Moved, At, DocsStay

\* A step of one replica.
LEMMA OneReplica ==
  ASSUME RestartInv, NEW w \in DOMAIN writes, NEW n \in Replicas, NEW step, Moved(w, n, step), WritesInv',
         UNCHANGED budget, Shapes',
         \A m \in Replicas : m # n => index'[m] = index[m] /\ up'[m] = up[m] /\ wal'[m] = wal[m]
                                      /\ unordered'[m] = unordered[m],
         ReplicaOK(n)'
  PROVE  RestartInv'
<1> Replicas' = Replicas
  BY DEF Replicas
<1>1. ASSUME NEW m \in Replicas, m # n
      PROVE  ReplicaOK(m)'
  <2>1. \A id : At(m, id, "logged")' = At(m, id, "logged")
    BY <1>1, AtMoved
  <2>2. DocsStay
    BY AtMoved
  <2>3. Untouched(m)
    BY <1>1, <2>1 DEF Untouched
  <2> QED
    BY <2>2, <2>3, UntouchedOK DEF RestartInv
<1> QED
  BY <1>1 DEF RestartInv

LEMMA HandlerMoves ==
  ASSUME Types, NEW w \in DOMAIN writes, NEW n \in Replicas, NEW step, NEW outcome,
         writes' = [writes EXCEPT ![w].handler[n] = step, ![w].outcome[n] = outcome]
  PROVE  Moved(w, n, step)
<1>1. /\ writes \in Seq(Writes) /\ \A v \in DOMAIN writes : writes[v] \in Writes
  BY DEF Types
<1>2. \A v \in DOMAIN writes : DOMAIN writes[v].handler = Replicas
  BY <1>1 DEF Writes
<1>3. PICK new : new = [writes[w] EXCEPT !.handler[n] = step, !.outcome[n] = outcome]
  OBVIOUS
<1>4. new.doc = writes[w].doc /\ new.handler = [writes[w].handler EXCEPT ![n] = step]
  BY <1>1, <1>3 DEF Writes
<1>5. DOMAIN writes' = DOMAIN writes /\ writes'[w] = new /\ \A v \in DOMAIN writes : v # w => writes'[v] = writes[v]
  BY <1>1, <1>3
<1> QED
  BY <1>2, <1>4, <1>5 DEF Moved

\* A line more in a log that is not torn: of other ids nothing changes.
LEMMA LineMore ==
  ASSUME RestartInv, NEW n \in Replicas, ~IsTorn(n), NEW doc, wal' = [wal EXCEPT ![n] = Line(n, doc)]
  PROVE  /\ Len(wal'[n]) = Len(wal[n]) + 1 /\ Len(wal[n]) \in Nat /\ wal'[n][Len(wal[n]) + 1] = doc
         /\ \A id : id # doc.id => /\ Serves(index[n], wal[n], Len(wal[n]), id) => Serves(index[n], wal'[n], Len(wal'[n]), id)
                                   /\ \A d : LatestOf(wal[n], Len(wal[n]), id, d) => LatestOf(wal'[n], Len(wal'[n]), id, d)
         /\ LatestOf(wal'[n], Len(wal'[n]), doc.id, doc)
<1>1. wal \in [Replicas -> Seq(Lines)]
  BY DEF RestartInv, WritesInv, Types
<1>2. PICK lines : lines = wal[n] /\ IsSeq(lines)
  BY <1>1 DEF IsSeq
<1>3. PICK more : more = wal'[n] /\ more = Append(lines, doc)
  BY <1>1, <1>2 DEF Line
<1>4. PICK k \in Nat : k = Len(lines)
  BY <1>2 DEF IsSeq
<1>5. Longer(more, lines, doc)
  BY <1>2, <1>3, AppendIs
<1>6. Len(more) = k + 1 /\ more[k + 1] = doc /\ \A j \in 1..k : more[j] = lines[j]
  BY <1>4, <1>5 DEF Longer
<1>7. ASSUME NEW id, id # doc.id
      PROVE  /\ Serves(index[n], lines, k, id) => Serves(index[n], more, k + 1, id)
             /\ \A d : LatestOf(lines, k, id, d) => LatestOf(more, k + 1, id, d)
  <2>1. Serves(index[n], lines, k, id) => Serves(index[n], more, k, id)
    BY <1>6, ServesSame
  <2>2. Serves(index[n], more, k, id) => Serves(index[n], more, k + 1, id)
    BY <1>6, <1>7, ServesAlong
  <2>3. ASSUME NEW d, LatestOf(lines, k, id, d)
        PROVE  LatestOf(more, k, id, d)
    <3>1. PICK i \in 1..k : lines[i] = d /\ \A j \in i + 1..k : lines[j].id # id
      BY <2>3 DEF LatestOf
    <3>2. \A j \in i + 1..k : j \in 1..k
      OBVIOUS
    <3>3. \A j \in i + 1..k : more[j].id # id
      BY <1>6, <3>1, <3>2
    <3> QED
      BY <1>6, <2>3, <3>1, <3>3 DEF LatestOf
  <2>4. \A d : LatestOf(more, k, id, d) => LatestOf(more, k + 1, id, d)
    BY <1>6, <1>7, LatestOn
  <2> QED
    BY <2>1, <2>2, <2>3, <2>4
<1>8. LatestOf(more, k + 1, doc.id, doc)
  BY <1>6, LatestOn
<1> QED
  BY <1>2, <1>3, <1>4, <1>6, <1>7, <1>8

\* A torn line stays, and a line that is torn leaves the log torn.
LEMMA TornStays ==
  ASSUME RestartInv, NEW n \in Replicas, NEW doc, wal' = [wal EXCEPT ![n] = Line(n, doc)]
  PROVE  /\ IsTorn(n) => IsTorn(n)'
         /\ doc = Torn => IsTorn(n)'
         /\ \A m \in Replicas : m # n => wal'[m] = wal[m]
<1>1. wal \in [Replicas -> Seq(Lines)]
  BY DEF RestartInv, WritesInv, Types
<1>2. wal'[n] = Line(n, doc) /\ \A m \in Replicas : m # n => wal'[m] = wal[m]
  BY <1>1
<1>3. IsTorn(n) => IsTorn(n)'
  BY <1>2 DEF Line, IsTorn
<1>4. ASSUME doc = Torn, ~IsTorn(n)
      PROVE  IsTorn(n)'
  <2>1. PICK lines : lines = wal[n] /\ IsSeq(lines)
    BY <1>1 DEF IsSeq
  <2>2. PICK more : more = wal'[n] /\ more = Append(lines, doc)
    BY <1>2, <1>4, <2>1 DEF Line
  <2>3. PICK k \in Nat : k = Len(lines)
    BY <2>1 DEF IsSeq
  <2>4. Longer(more, lines, doc)
    BY <2>1, <2>2, AppendIs
  <2>5. IsSeq(more) /\ Len(more) = k + 1 /\ more[k + 1] = Torn
    BY <1>4, <2>3, <2>4 DEF Longer
  <2>6. more # <<>> /\ Last(more) = Torn
    BY <2>5 DEF Last
  <2> QED
    BY <2>2, <2>6 DEF IsTorn
<1> QED
  BY <1>2, <1>3, <1>4

\* Of the id that is logged the log has the new version last, and the write is between
\* log and index; an earlier write there makes the id unordered.
LEMMA LogWriteOK ==
  ASSUME RestartInv, WritesInv', NEW w \in DOMAIN writes, NEW n \in Replicas, LogWrite(w, n)
  PROVE  RestartInv'
<1> PICK doc : doc = writes[w].doc
  OBVIOUS
<1>1. /\ up[n] /\ writes[w].handler[n] = "sent" /\ budget' = budget /\ index' = index /\ up' = up
      /\ wal' = [wal EXCEPT ![n] = Line(n, doc)]
      /\ unordered' = [unordered EXCEPT ![n] = IF At(n, doc.id, "logged") = {} THEN @ ELSE @ \cup {doc.id}]
  BY DEF LogWrite
<1>2. Moved(w, n, "logged")
  <2>1. Types
    BY DEF RestartInv, WritesInv
  <2>2. writes' = [writes EXCEPT ![w].handler[n] = "logged", ![w].outcome[n] = writes[w].outcome[n]]
    <3>1. PICK old \in Writes : old = writes[w]
      BY <2>1 DEF Types
    <3>2. old.outcome = [old.outcome EXCEPT ![n] = old.outcome[n]]
      BY <3>1 DEF Writes
    <3>3. [old EXCEPT !.handler[n] = "logged"] = [old EXCEPT !.handler[n] = "logged", !.outcome[n] = old.outcome[n]]
      BY <3>1, <3>2 DEF Writes
    <3>4. writes' = [writes EXCEPT ![w] = [old EXCEPT !.handler[n] = "logged"]]
      BY <2>1, <3>1 DEF LogWrite, Types
    <3> QED
      BY <2>1, <3>1, <3>3, <3>4 DEF Types
  <2> QED
    BY <2>1, <2>2, HandlerMoves
<1>3. Shapes' /\ \A m \in Replicas : m # n => unordered'[m] = unordered[m]
  BY <1>1 DEF RestartInv, Shapes, Replicas
<1>4. \A m \in Replicas : m # n => wal'[m] = wal[m]
  BY <1>1, TornStays
<1>5. ReplicaOK(n)
  BY DEF RestartInv
<1>6. ASSUME ~IsTorn(n)', NEW id, id \notin unordered'[n]
      PROVE  InOrder(n, id)'
  <2>1. ~IsTorn(n)
    BY <1>1, <1>6, TornStays
  <2>2. id \notin unordered[n] /\ (id = doc.id => At(n, id, "logged") = {})
    BY <1>1, <1>6 DEF RestartInv, Shapes
  <2>3. InOrder(n, id)
    BY <1>1, <1>5, <2>1, <2>2 DEF ReplicaOK
  <2>4. CASE id = doc.id
    <3>1. At(n, id, "logged")' = {w}
      BY <1>2, <2>2, <2>4, AtMoved
    <3>2. LatestOf(wal'[n], Len(wal'[n]), id, doc)
      BY <1>1, <2>1, <2>4, LineMore
    <3>3. w \in DOMAIN writes' /\ writes'[w].doc = doc
      BY <1>2 DEF Moved
    <3> QED
      BY <3>1, <3>2, <3>3 DEF InOrder
  <2>5. CASE id # doc.id
    <3>1. At(n, id, "logged")' = At(n, id, "logged") /\ DocsStay
      BY <1>2, <2>5, AtMoved
    <3>2. /\ Serves(index[n], wal[n], Len(wal[n]), id) => Serves(index[n], wal'[n], Len(wal'[n]), id)
          /\ \A d : LatestOf(wal[n], Len(wal[n]), id, d) => LatestOf(wal'[n], Len(wal'[n]), id, d)
      BY <1>1, <2>1, <2>5, LineMore
    <3> QED
      BY <1>1, <2>3, <3>1, <3>2 DEF InOrder, DocsStay
  <2> QED
    BY <2>4, <2>5
<1>7. ReplicaOK(n)'
  BY <1>1, <1>5, <1>6 DEF ReplicaOK
<1> QED
  BY <1>1, <1>2, <1>3, <1>4, <1>7, OneReplica

\* A line that an append left is torn, or makes the id unordered.
LEMMA LogFailsOK ==
  ASSUME RestartInv, WritesInv', NEW w \in DOMAIN writes, NEW n \in Replicas, LogFails(w, n)
  PROVE  RestartInv'
<1> PICK doc : doc = writes[w].doc
  OBVIOUS
<1>1. /\ up[n] /\ writes[w].handler[n] = "sent" /\ budget' = budget /\ index' = index /\ up' = up
      /\ \/ wal' = wal /\ unordered' = unordered
         \/ wal' = [wal EXCEPT ![n] = Line(n, Torn)] /\ unordered' = unordered
         \/ wal' = [wal EXCEPT ![n] = Line(n, doc)] /\ unordered' = [unordered EXCEPT ![n] = @ \cup {doc.id}]
  BY DEF LogFails
<1>2. Moved(w, n, "over")
  <2>1. Types
    BY DEF RestartInv, WritesInv
  <2>2. PICK outcome : outcome = Outcome(w, n, "failed")
    OBVIOUS
  <2>3. writes' = [writes EXCEPT ![w].handler[n] = "over", ![w].outcome[n] = outcome]
    BY <2>2 DEF LogFails
  <2> QED
    BY <2>1, <2>3, HandlerMoves
<1>3. Shapes' /\ \A m \in Replicas : m # n => unordered'[m] = unordered[m]
  BY <1>1 DEF RestartInv, Shapes, Replicas
<1>4. \A m \in Replicas : m # n => wal'[m] = wal[m]
  BY <1>1, TornStays
<1>5. ReplicaOK(n)
  BY DEF RestartInv
<1>6. (\A id : At(n, id, "logged")' = At(n, id, "logged")) /\ DocsStay
  BY <1>1, <1>2, AtMoved
<1>7. ASSUME ~IsTorn(n)', NEW id, id \notin unordered'[n]
      PROVE  InOrder(n, id)'
  <2>1. CASE wal' = wal /\ unordered' = unordered
    <3>1. InOrder(n, id)
      BY <1>1, <1>5, <1>7, <2>1 DEF ReplicaOK, IsTorn
    <3> QED
      BY <1>1, <1>6, <2>1, <3>1 DEF InOrder, DocsStay
  <2>2. CASE wal' = [wal EXCEPT ![n] = Line(n, Torn)]
    BY <1>7, <2>2, TornStays
  <2>3. CASE wal' = [wal EXCEPT ![n] = Line(n, doc)] /\ unordered' = [unordered EXCEPT ![n] = @ \cup {doc.id}]
    <3>1. ~IsTorn(n)
      BY <1>7, <2>3, TornStays
    <3>2. id \notin unordered[n] /\ id # doc.id
      BY <1>7, <2>3 DEF RestartInv, Shapes
    <3>3. InOrder(n, id)
      BY <1>1, <1>5, <3>1, <3>2 DEF ReplicaOK
    <3>4. /\ Serves(index[n], wal[n], Len(wal[n]), id) => Serves(index[n], wal'[n], Len(wal'[n]), id)
          /\ \A d : LatestOf(wal[n], Len(wal[n]), id, d) => LatestOf(wal'[n], Len(wal'[n]), id, d)
      BY <2>3, <3>1, <3>2, LineMore
    <3> QED
      BY <1>1, <1>6, <3>3, <3>4 DEF InOrder, DocsStay
  <2> QED
    BY <1>1, <2>1, <2>2, <2>3
<1>8. ReplicaOK(n)'
  BY <1>1, <1>5, <1>7 DEF ReplicaOK
<1> QED
  BY <1>1, <1>2, <1>3, <1>4, <1>8, OneReplica

\* The index takes the version that the log has last, if the write was the only one
\* of its id between log and index.
LEMMA StoreWriteOK ==
  ASSUME RestartInv, WritesInv', NEW w \in DOMAIN writes, NEW n \in Replicas, StoreWrite(w, n)
  PROVE  RestartInv'
<1> PICK doc : doc = writes[w].doc
  OBVIOUS
<1>1. /\ up[n] /\ writes[w].handler[n] = "logged" /\ budget' = budget /\ up' = up
      /\ wal' = wal /\ unordered' = unordered
      /\ index' = [index EXCEPT ![n] = Upsert(@, doc)]
  BY DEF StoreWrite
<1>2. Moved(w, n, "over")
  <2>1. Types
    BY DEF RestartInv, WritesInv
  <2>2. PICK outcome : outcome = Outcome(w, n, "stored")
    OBVIOUS
  <2>3. writes' = [writes EXCEPT ![w].handler[n] = "over", ![w].outcome[n] = outcome]
    BY <2>2 DEF StoreWrite
  <2> QED
    BY <2>1, <2>3, HandlerMoves
<1>3. Shapes' /\ \A m \in Replicas : m # n => index'[m] = index[m]
  BY <1>1 DEF RestartInv, Shapes, Replicas
<1>4. index'[n] = Upsert(index[n], doc)
  BY <1>1 DEF RestartInv, Shapes
<1>5. ReplicaOK(n)
  BY DEF RestartInv
<1>6. IndexOK(index[n]) /\ IndexOK(index'[n])
  BY <1>4, <1>5, UpsertIs DEF ReplicaOK
<1>7. ASSUME ~IsTorn(n)', NEW id, id \notin unordered'[n]
      PROVE  InOrder(n, id)'
  <2>1. InOrder(n, id)
    BY <1>1, <1>5, <1>7 DEF ReplicaOK, IsTorn
  <2>2. CASE id = doc.id
    <3>1. w \in At(n, id, "logged")
      BY <1>1, <2>2 DEF At
    <3>2. At(n, id, "logged") = {w} /\ LatestOf(wal[n], Len(wal[n]), id, doc)
      BY <2>1, <3>1 DEF InOrder
    <3>3. At(n, id, "logged")' = {}
      <4>1. At(n, doc.id, "logged")' = At(n, doc.id, "logged") \ {w}
        BY <1>2, AtMoved
      <4>2. {w} \ {w} = {}
        OBVIOUS
      <4> QED
        BY <2>2, <3>2, <4>1, <4>2
    <3>4. Serves(index'[n], wal[n], Len(wal[n]), id)
      BY <1>4, <1>6, <2>2, <3>2, ServesTaken
    <3> QED
      BY <1>1, <3>3, <3>4 DEF InOrder
  <2>3. CASE id # doc.id
    <3>1. At(n, id, "logged")' = At(n, id, "logged") /\ DocsStay
      BY <1>2, <2>3, AtMoved
    <3>2. Serves(index[n], wal[n], Len(wal[n]), id) => Serves(index'[n], wal[n], Len(wal[n]), id)
      BY <1>4, <1>6, <2>3, ServesOthers
    <3> QED
      BY <1>1, <2>1, <3>1, <3>2 DEF InOrder, DocsStay
  <2> QED
    BY <2>2, <2>3
<1>8. ReplicaOK(n)'
  BY <1>1, <1>6, <1>7 DEF ReplicaOK
<1> QED
  BY <1>1, <1>2, <1>3, <1>8, OneReplica

-----------------------------------------------------------------------------
\* No handler gets to a step, or leaves it, and the replicas stay as they are.
LEMMA NothingMoves ==
  ASSUME RestartInv, WritesInv', UNCHANGED <<budget, wal, index, up, unordered>>, DocsStay,
         \A w \in DOMAIN writes', n \in Replicas :
           writes'[w].handler[n] = "logged" => w \in DOMAIN writes /\ writes[w].handler[n] = "logged",
         \A w \in DOMAIN writes, n \in Replicas :
           writes[w].handler[n] = "logged" => writes'[w].handler[n] = "logged"
  PROVE  RestartInv'
<1> Replicas' = Replicas
  BY DEF Replicas
<1>1. ASSUME NEW n \in Replicas
      PROVE  ReplicaOK(n)'
  <2>1. \A id : At(n, id, "logged")' = At(n, id, "logged")
    BY DEF At, DocsStay
  <2>2. Untouched(n)
    BY <2>1 DEF Untouched
  <2> QED
    BY <2>2, UntouchedOK DEF RestartInv
<1>2. Shapes'
  BY DEF RestartInv, Shapes
<1> QED
  BY <1>1, <1>2 DEF RestartInv

LEMMA GiveUpOK ==
  ASSUME RestartInv, WritesInv', NEW w \in DOMAIN writes, NEW n \in Replicas, GiveUp(w, n)
  PROVE  RestartInv'
<1> PICK old \in Writes : old = writes[w]
  BY DEF RestartInv, WritesInv, Types
<1> PICK new : new = [old EXCEPT !.outcome[n] = "failed"]
  OBVIOUS
<1>1. new.doc = old.doc /\ new.handler = old.handler
  BY DEF Writes
<1>2. writes' = [writes EXCEPT ![w] = new] /\ UNCHANGED <<budget, wal, index, up, unordered>>
  BY DEF GiveUp, RestartInv, WritesInv, Types
<1>3. DOMAIN writes' = DOMAIN writes /\ writes'[w] = new /\ \A v \in DOMAIN writes : v # w => writes'[v] = writes[v]
  BY <1>2 DEF RestartInv, WritesInv, Types
<1>4. \A v \in DOMAIN writes : writes'[v].doc = writes[v].doc /\ writes'[v].handler = writes[v].handler
  BY <1>1, <1>3
<1> QED
  BY <1>2, <1>3, <1>4, NothingMoves DEF DocsStay

LEMMA AnswerWriteOK ==
  ASSUME RestartInv, WritesInv', NEW w \in DOMAIN writes, AnswerWrite(w)
  PROVE  RestartInv'
<1> PICK old \in Writes : old = writes[w]
  BY DEF RestartInv, WritesInv, Types
<1> PICK answer : answer = IF Quorum(Cardinality({n \in Replicas : old.outcome[n] = "stored"})) THEN "created" ELSE "unavailable"
  OBVIOUS
<1> PICK new : new = [old EXCEPT !.answer = answer]
  OBVIOUS
<1>1. new.doc = old.doc /\ new.handler = old.handler
  BY DEF Writes
<1>2. writes' = [writes EXCEPT ![w] = new] /\ UNCHANGED <<budget, wal, index, up, unordered>>
  BY DEF AnswerWrite, RestartInv, WritesInv, Types
<1>3. DOMAIN writes' = DOMAIN writes /\ writes'[w] = new /\ \A v \in DOMAIN writes : v # w => writes'[v] = writes[v]
  BY <1>2 DEF RestartInv, WritesInv, Types
<1>4. \A v \in DOMAIN writes : writes'[v].doc = writes[v].doc /\ writes'[v].handler = writes[v].handler
  BY <1>1, <1>3
<1> QED
  BY <1>2, <1>3, <1>4, NothingMoves DEF DocsStay

\* A new write has reached no replica.
LEMMA WriteOK ==
  ASSUME RestartInv, WritesInv', NEW doc, Write(doc)
  PROVE  RestartInv'
<1> DEFINE new == [doc |-> doc, handler |-> [n \in Replicas |-> "sent"],
                   outcome |-> [n \in Replicas |-> "none"], answer |-> "none"]
<1>1. writes' = Append(writes, new) /\ UNCHANGED <<budget, wal, index, up, unordered>>
  BY DEF Write
<1>2. \A n \in Replicas : new.handler[n] = "sent"
  OBVIOUS
<1> HIDE DEF new
<1>3. PICK k \in Nat : k = Len(writes) /\ DOMAIN writes = 1..k /\ IsSeq(writes)
  BY DEF RestartInv, WritesInv, Types, IsSeq
<1>4. Longer(Append(writes, new), writes, new)
  BY <1>3, AppendIs
<1>5. DOMAIN writes' = 1..k + 1 /\ writes'[k + 1] = new /\ \A v \in 1..k : writes'[v] = writes[v]
  BY <1>1, <1>3, <1>4 DEF Longer, IsSeq
<1>6. 1..k \subseteq 1..k + 1 /\ \A v \in 1..k + 1 : v \in 1..k \/ v = k + 1
  OBVIOUS
<1>7. DocsStay
  BY <1>3, <1>5, <1>6 DEF DocsStay
<1>8. ASSUME NEW w \in DOMAIN writes', NEW n \in Replicas, writes'[w].handler[n] = "logged"
      PROVE  w \in DOMAIN writes /\ writes[w].handler[n] = "logged"
  BY <1>2, <1>3, <1>5, <1>6, <1>8
<1>9. ASSUME NEW w \in DOMAIN writes, NEW n \in Replicas, writes[w].handler[n] = "logged"
      PROVE  writes'[w].handler[n] = "logged"
  BY <1>3, <1>5, <1>9
<1> QED
  BY <1>1, <1>7, <1>8, <1>9, NothingMoves

\* A crash takes the index, and every write that was between log and index.
LEMMA CrashOK ==
  ASSUME RestartInv, WritesInv', NEW n \in Replicas, Crash(n)
  PROVE  RestartInv'
<1> Replicas' = Replicas
  BY DEF Crash, Replicas
<1> DEFINE Ended(w) == [writes[w] EXCEPT !.handler[n] = IF @ = "logged" THEN "over" ELSE @]
<1>1. /\ UNCHANGED <<budget, wal, unordered>> /\ up' = [up EXCEPT ![n] = FALSE]
      /\ index' = [index EXCEPT ![n] = NewIndex] /\ writes' = [w \in DOMAIN writes |-> Ended(w)]
  BY DEF Crash
<1>2. ASSUME NEW w \in DOMAIN writes
      PROVE  /\ Ended(w).doc = writes[w].doc /\ Ended(w).handler[n] # "logged"
             /\ \A m \in Replicas : m # n => Ended(w).handler[m] = writes[w].handler[m]
  <2>1. writes[w] \in Writes
    BY DEF RestartInv, WritesInv, Types
  <2> QED
    BY <2>1 DEF Writes
<1> HIDE DEF Ended
<1>3. DOMAIN writes' = DOMAIN writes /\ \A w \in DOMAIN writes : writes'[w] = Ended(w)
  BY <1>1
<1>4. DocsStay
  BY <1>2, <1>3 DEF DocsStay
<1>5. /\ Shapes' /\ up'[n] = FALSE /\ index'[n] = NewIndex
      /\ \A m \in Replicas : m # n => up'[m] = up[m] /\ index'[m] = index[m]
  BY <1>1 DEF RestartInv, Shapes
<1>6. \A id : At(n, id, "logged")' = {}
  BY <1>2, <1>3 DEF At
<1>7. ReplicaOK(n)'
  BY <1>5, <1>6, NewIndexIs DEF ReplicaOK
<1>8. ASSUME NEW m \in Replicas, m # n
      PROVE  ReplicaOK(m)'
  <2>1. \A id : At(m, id, "logged")' = At(m, id, "logged")
    BY <1>2, <1>3, <1>8 DEF At
  <2>2. Untouched(m)
    BY <1>1, <1>5, <1>8, <2>1 DEF Untouched
  <2> QED
    BY <1>4, <2>2, UntouchedOK DEF RestartInv
<1> QED
  BY <1>5, <1>7, <1>8 DEF RestartInv

\* A replica that starts serves what its log replays to.
LEMMA StartOK ==
  ASSUME RestartInv, WritesInv', NEW n \in Replicas, Start(n)
  PROVE  RestartInv'
<1> Replicas' = Replicas
  BY DEF Start, Replicas
<1>1. /\ UNCHANGED <<budget, wal, writes>> /\ ~up[n] /\ up' = [up EXCEPT ![n] = TRUE]
      /\ index' = [index EXCEPT ![n] = Replayed(wal[n])] /\ unordered' = [unordered EXCEPT ![n] = {}]
  BY DEF Start
<1>2. PICK lines : lines = wal[n] /\ IsSeq(lines)
  BY DEF RestartInv, WritesInv, Types, IsSeq
<1>3. IndexOK(Replayed(lines)) /\ \A id : Serves(Replayed(lines), lines, Len(lines), id)
  BY <1>2, ReplayServes
<1>4. /\ Shapes' /\ up'[n] /\ index'[n] = Replayed(lines)
      /\ \A m \in Replicas : m # n => up'[m] = up[m] /\ index'[m] = index[m] /\ unordered'[m] = unordered[m]
  BY <1>1, <1>2 DEF RestartInv, Shapes
<1>5. DocsStay /\ \A m \in Replicas : \A id : At(m, id, "logged")' = At(m, id, "logged")
  BY <1>1 DEF DocsStay, At
<1>6. \A id : At(n, id, "logged") = {}
  BY <1>1 DEF RestartInv, ReplicaOK
<1>7. \A id : InOrder(n, id)'
  BY <1>1, <1>2, <1>3, <1>4, <1>5, <1>6 DEF InOrder
<1>8. ReplicaOK(n)'
  BY <1>3, <1>4, <1>7 DEF ReplicaOK
<1>9. ASSUME NEW m \in Replicas, m # n
      PROVE  ReplicaOK(m)'
  <2>1. Untouched(m)
    BY <1>1, <1>4, <1>5, <1>9 DEF Untouched
  <2> QED
    BY <1>5, <2>1, UntouchedOK DEF RestartInv
<1> QED
  BY <1>4, <1>8, <1>9 DEF RestartInv

LEMMA RestartInvInit ==
  ASSUME Init
  PROVE  RestartInv
<1>1. /\ wal = [n \in Replicas |-> <<>>] /\ index = [n \in Replicas |-> NewIndex]
      /\ up = [n \in Replicas |-> TRUE] /\ unordered = [n \in Replicas |-> {}] /\ writes = <<>>
  BY DEF Init
<1>2. WritesInv /\ Shapes
  BY <1>1, WritesInvInit DEF Shapes
<1>3. ASSUME NEW n \in Replicas
      PROVE  ReplicaOK(n)
  <2>1. wal[n] = <<>> /\ Len(<<>>) = 0 /\ index[n] = NewIndex /\ \A j \in 1..0 : FALSE
    BY <1>1
  <2>2. \A id : Serves(NewIndex, <<>>, 0, id)
    BY <2>1, NewIndexIs DEF Serves
  <2>3. \A id : At(n, id, "logged") = {}
    BY <1>1 DEF At
  <2>4. \A id : InOrder(n, id)
    BY <2>1, <2>2, <2>3 DEF InOrder
  <2> QED
    BY <2>1, <2>3, <2>4, NewIndexIs DEF ReplicaOK
<1> QED
  BY <1>2, <1>3 DEF RestartInv

LEMMA RestartInvStep ==
  ASSUME RestartInv, [Next]_vars
  PROVE  RestartInv'
<1>0. WritesInv'
  BY WritesInvStep DEF RestartInv
<1>1. CASE UNCHANGED <<budget, wal, index, up, unordered, writes>>
  BY <1>0, <1>1, NothingMoves DEF DocsStay, Replicas
<1>2. CASE UNCHANGED vars
  BY <1>1, <1>2 DEF vars
<1>3. ASSUME NEW doc \in budget.documents, Write(doc)
      PROVE  RestartInv'
  BY <1>0, <1>3, WriteOK
<1>4. ASSUME NEW w \in DOMAIN writes, AnswerWrite(w)
      PROVE  RestartInv'
  BY <1>0, <1>4, AnswerWriteOK
<1>5. ASSUME NEW w \in DOMAIN writes, NEW n \in Replicas,
             LogWrite(w, n) \/ LogFails(w, n) \/ StoreWrite(w, n) \/ GiveUp(w, n)
      PROVE  RestartInv'
  BY <1>0, <1>5, LogWriteOK, LogFailsOK, StoreWriteOK, GiveUpOK
<1>6. ASSUME NEW n \in Replicas, Crash(n) \/ Start(n)
      PROVE  RestartInv'
  BY <1>0, <1>6, CrashOK, StartOK
<1>7. ASSUME NEW n \in Replicas, Answer(n) \/ Refuse(n)
      PROVE  RestartInv'
  BY <1>1, <1>7 DEF Answer, Refuse
<1>8. CASE Ask \/ Hedge \/ Deadline
  BY <1>1, <1>8 DEF Ask, Hedge, Deadline
<1> QED
  BY <1>2, <1>3, <1>4, <1>5, <1>6, <1>7, <1>8 DEF Next

\* With no write of it between log and index, an id in order is served as its last version.
LEMMA RestartInvServes ==
  ASSUME RestartInv
  PROVE  RestartBringsBack
<1> SUFFICES ASSUME NEW n \in Replicas, up[n], ~IsTorn(n), NEW k \in DOMAIN wal[n],
                    NEW id, id = wal[n][k].id, id \notin unordered[n], At(n, id, "logged") = {}
             PROVE  {d \in LiveDocs(index[n]) : d.id = id} = {Latest(wal[n], id)}
  BY DEF RestartBringsBack
<1>1. IndexOK(index[n]) /\ InOrder(n, id)
  BY DEF RestartInv, ReplicaOK
<1>2. Serves(index[n], wal[n], Len(wal[n]), id)
  BY <1>1 DEF InOrder
<1>3. IsSeq(wal[n])
  BY DEF RestartInv, WritesInv, Types, IsSeq
<1> QED
  BY <1>1, <1>2, <1>3, ServedIsLatest

\* A restart brings back what a replica serves: of every id the last version in its log,
\* unless versions of it were under way at once or an append failed and left its line
\* (Node.handleDocument appends and then enters in the index, WAL.Replay goes through
\* the log in order, Index.Upsert replaces the version it has and compacts).
THEOREM RestartBringsBackHolds == FairSpec => []RestartBringsBack
<1>1. FairSpec => []RestartInv
  BY RestartInvInit, RestartInvStep, PTL DEF FairSpec
<1>2. RestartInv => RestartBringsBack
  BY RestartInvServes
<1> QED
  BY <1>1, <1>2, PTL
=============================================================================
