--------------------------- MODULE CatalogProofs ---------------------------
(***************************************************************************)
(* What the catalog answers holds, and search follows it, for any entries, *)
(* runs, requests, failures and restarts.  The inductive invariant is Inv: *)
(* AnswersHold with where the last save of a settled entry is, in the      *)
(* index and in the log (Catalog.tla).                                     *)
(***************************************************************************)
EXTENDS Catalog, TLAPS

Inv == AnswersHold /\ IndexFollows /\ LogFollows

-----------------------------------------------------------------------------
(* Sequences.                                                              *)

LEMMA AppendProperties ==
  ASSUME NEW S, NEW s \in Seq(S), NEW e \in S
  PROVE  /\ Append(s, e) \in Seq(S)
         /\ Len(Append(s, e)) = Len(s) + 1 /\ Len(s) \in Nat
         /\ DOMAIN s = 1..Len(s) /\ DOMAIN Append(s, e) = 1..Len(s) + 1
         /\ \A i \in 1..Len(s) : Append(s, e)[i] = s[i] /\ s[i] \in S
         /\ Append(s, e)[Len(s) + 1] = e
  OBVIOUS

\* Changing one element keeps the others.
LEMMA ExceptProperties ==
  ASSUME NEW S, NEW s \in Seq(S), NEW i \in DOMAIN s, NEW e \in S
  PROVE  /\ [s EXCEPT ![i] = e] \in Seq(S)
         /\ DOMAIN [s EXCEPT ![i] = e] = DOMAIN s
         /\ [s EXCEPT ![i] = e][i] = e
         /\ \A j \in DOMAIN s : j # i => [s EXCEPT ![i] = e][j] = s[j]
  OBVIOUS

LEMMA ElementProperty == ASSUME NEW S, NEW s \in Seq(S), NEW i \in DOMAIN s PROVE s[i] \in S
  OBVIOUS

\* No line of the log is a torn one (WAL.Append, wal.go:31-46).
LEMMA TornIsNoLine == Torn \notin LogLine
  BY DEF Torn, LogLine

\* One handler goes on; which id it saves stays.
LEMMA HandlerChanges ==
  ASSUME TypeOK, NEW w \in DOMAIN saves, NEW h \in Handler, h.id = saves[w].id,
         saves' = [saves EXCEPT ![w] = h]
  PROVE  /\ saves' \in Seq(Handler) /\ DOMAIN saves' = DOMAIN saves
         /\ saves'[w] = h
         /\ \A v \in DOMAIN saves : v # w => saves'[v] = saves[v]
         /\ \A v \in DOMAIN saves : saves'[v].id = saves[v].id
  <1>1. saves \in Seq(Handler) BY DEF TypeOK
  <1>2. /\ saves' \in Seq(Handler) /\ DOMAIN saves' = DOMAIN saves
        /\ saves'[w] = h
        /\ \A v \in DOMAIN saves : v # w => saves'[v] = saves[v]
    BY <1>1, ExceptProperties
  <1> QED BY <1>2

\* A handler that is at work, of an entry.
LEMMA AtWorkFacts ==
  ASSUME TypeOK, NEW w \in DOMAIN saves, saves[w].at # "over"
  PROVE  up /\ saves[w].answer = "none" /\ saves[w].id \in Entries /\ w \in AtWork
  BY DEF TypeOK, AtWork

\* Every line but a last torn one is of an entry.
LEMMA LogIsOfEntries == ASSUME TypeOK, ~IsTorn PROVE Logged \subseteq Entries
  <1> SUFFICES ASSUME NEW i \in DOMAIN log PROVE log[i].id \in Entries
    BY DEF Logged
  <1>1. log \in Seq(LogLine \cup {Torn}) /\ \A j \in 1..Len(log) - 1 : log[j] # Torn
    BY DEF TypeOK
  <1>2. i \in 1..Len(log) /\ Len(log) \in Nat BY <1>1
  <1>3. i \in 1..Len(log) - 1 \/ i = Len(log) BY <1>2
  <1>4. log[i] # Torn BY <1>1, <1>2, <1>3 DEF IsTorn
  <1>5. log[i] \in LogLine BY <1>1, <1>2, <1>4
  <1> QED BY <1>5 DEF LogLine

\* A line is appended behind a log that is not torn (WAL.Append, wal.go:42).
LEMMA LineProperties ==
  ASSUME TypeOK, NEW w \in DOMAIN saves, saves[w].id \in Entries
  PROVE  /\ Line(w) \in Seq(LogLine \cup {Torn})
         /\ \A i \in 1..Len(Line(w)) - 1 : Line(w)[i] # Torn
         /\ IsTorn => Line(w) = log
         /\ ~IsTorn => /\ DOMAIN log = 1..Len(log) /\ Len(log) \in Nat
                       /\ DOMAIN Line(w) = 1..Len(log) + 1
                       /\ \A i \in DOMAIN log : Line(w)[i] = log[i]
                       /\ Line(w)[Len(log) + 1] = [id |-> saves[w].id, version |-> w]
  <1> DEFINE line == [id |-> saves[w].id, version |-> w]
  <1>1. log \in Seq(LogLine \cup {Torn}) /\ \A j \in 1..Len(log) - 1 : log[j] # Torn
    BY DEF TypeOK
  <1>2. CASE IsTorn
    BY <1>1, <1>2 DEF Line
  <1>3. CASE ~IsTorn
    <2>1. w \in Nat \ {0} BY DEF TypeOK
    <2>2. line \in LogLine \cup {Torn} BY <2>1 DEF LogLine
    <2>3. Line(w) = Append(log, line) BY <1>3 DEF Line
    <2> HIDE DEF line
    <2>4. /\ Line(w) \in Seq(LogLine \cup {Torn})
          /\ Len(Line(w)) = Len(log) + 1 /\ Len(log) \in Nat
          /\ DOMAIN log = 1..Len(log) /\ DOMAIN Line(w) = 1..Len(log) + 1
          /\ \A i \in 1..Len(log) : Line(w)[i] = log[i]
          /\ Line(w)[Len(log) + 1] = line
      BY <1>1, <2>2, <2>3, AppendProperties
    <2>5. ASSUME NEW i \in 1..Len(Line(w)) - 1 PROVE Line(w)[i] # Torn
      <3>1. i \in 1..Len(log) BY <2>4
      <3>2. Len(log) \in Nat BY <2>4
      <3>3. i \in 1..Len(log) - 1 \/ i = Len(log) BY <3>1, <3>2
      <3>4. log[i] # Torn BY <1>1, <1>3, <3>1, <3>2, <3>3 DEF IsTorn
      <3> QED BY <2>4, <3>1, <3>4
    <2> QED BY <1>3, <2>4, <2>5 DEF line
  <1> QED BY <1>2, <1>3

\* A log that is cut short in a line can be read no more (WAL.Replay, wal.go:61-63).
LEMMA TornProperties ==
  ASSUME TypeOK, ~IsTorn
  PROVE  /\ Append(log, Torn) \in Seq(LogLine \cup {Torn})
         /\ \A i \in 1..Len(Append(log, Torn)) - 1 : Append(log, Torn)[i] # Torn
         /\ Append(log, Torn) # <<>> /\ Append(log, Torn)[Len(Append(log, Torn))] = Torn
  <1>1. log \in Seq(LogLine \cup {Torn}) /\ \A j \in 1..Len(log) - 1 : log[j] # Torn
    BY DEF TypeOK
  <1>2. /\ Append(log, Torn) \in Seq(LogLine \cup {Torn})
        /\ Len(Append(log, Torn)) = Len(log) + 1 /\ Len(log) \in Nat
        /\ \A i \in 1..Len(log) : Append(log, Torn)[i] = log[i]
        /\ Append(log, Torn)[Len(log) + 1] = Torn
    BY <1>1, AppendProperties
  <1>3. ASSUME NEW i \in 1..Len(log) PROVE Append(log, Torn)[i] # Torn
    <2>1. i \in 1..Len(log) - 1 \/ i = Len(log) BY <1>2
    <2>2. log[i] # Torn BY <1>1, <1>2, <2>1 DEF IsTorn
    <2> QED BY <1>2, <2>2
  <1>4. Append(log, Torn) # <<>> BY <1>1
  <1> QED BY <1>2, <1>3, <1>4

-----------------------------------------------------------------------------
LEMMA InitInv == Init => Inv
  BY DEF Init, Inv, AnswersHold, TypeOK, IndexFollows, LogFollows, SettledEntries, Empty, IsTorn, AtWork

-----------------------------------------------------------------------------
(* SaveEntry and SaveRun.                                                  *)

\* What a save puts into memory and the file is the last of its id
\* (SaveEntry, catalog.go:141-151).
LEMMA SaveInv == ASSUME Inv, NEW id \in Entries \cup Runs, Save(id) PROVE Inv'
  <1> DEFINE n == Len(saves) + 1
             h == [id |-> id, at |-> IF id \in Runs THEN "over" ELSE "saved",
                   answer |-> IF id \in Runs THEN "created" ELSE "none"]
  <1>1. /\ up /\ up' = up /\ UNCHANGED <<log, index, unsettled>>
        /\ saves' = Append(saves, h) /\ catalog' = file' /\ file' = Put(file, id, n)
    BY DEF Save, Inv, AnswersHold
  <1>2. h \in Handler
    BY DEF Handler
  <1>3. TypeOK BY DEF Inv, AnswersHold
  <1>4. /\ saves' \in Seq(Handler) /\ n \in Nat \ {0} /\ DOMAIN saves = 1..n - 1 /\ DOMAIN saves' = 1..n
        /\ \A w \in DOMAIN saves : saves'[w] = saves[w] /\ w # n
        /\ saves'[n].id = id /\ saves'[n].at = (IF id \in Runs THEN "over" ELSE "saved")
        /\ saves'[n].answer = (IF id \in Runs THEN "created" ELSE "none")
    <2>1. saves'[n] = h /\ n \in Nat \ {0}
      BY <1>1, <1>2, <1>3, AppendProperties DEF TypeOK
    <2>2. /\ saves' \in Seq(Handler) /\ DOMAIN saves = 1..n - 1 /\ DOMAIN saves' = 1..n
          /\ \A w \in DOMAIN saves : saves'[w] = saves[w] /\ w # n
      BY <1>1, <1>2, <1>3, AppendProperties DEF TypeOK
    <2> HIDE DEF n
    <2> QED BY <2>1, <2>2
  <1>5. /\ DOMAIN file' = DOMAIN file \cup {id} /\ file'[id] = n
        /\ \A x \in DOMAIN file : x # id => file'[x] = file[x]
    BY <1>1 DEF Put
  <1> HIDE DEF n, h
  <1>6. TypeOK'
    <2>1. \A x \in DOMAIN file' : file'[x] \in DOMAIN saves' /\ saves'[file'[x]].id = x
      BY <1>3, <1>4, <1>5 DEF TypeOK
    <2>2. \A w \in DOMAIN saves' :
            IF saves'[w].answer = "none" THEN up' /\ saves'[w].id \in Entries /\ saves'[w].at # "over"
            ELSE saves'[w].at = "over"
      <3>1. \A w \in DOMAIN saves' : w \in DOMAIN saves \/ w = n BY <1>4
      <3> QED BY <1>1, <1>3, <1>4, <3>1 DEF TypeOK
    <2> QED BY <1>1, <1>3, <1>4, <2>1, <2>2 DEF TypeOK
  <1>7. AnswersHold'
    <2> SUFFICES ASSUME NEW w \in DOMAIN saves'
                 PROVE  /\ saves'[w].answer # "refused" =>
                             saves'[w].id \in DOMAIN file' /\ file'[saves'[w].id] >= w
                        /\ saves'[w].answer = "refused" => ~\E x \in DOMAIN file' : file'[x] = w
      BY <1>1, <1>6 DEF AnswersHold
    <2>1. CASE w = n
      <3>1. n >= n BY <1>4
      <3> QED BY <1>4, <1>5, <2>1, <3>1
    <2>2. CASE w \in DOMAIN saves
      <3>1. w \in Nat /\ n > w BY <1>4, <2>2
      <3>2. saves'[w] = saves[w] BY <1>4, <2>2
      <3>3. ASSUME saves[w].answer # "refused"
            PROVE  saves[w].id \in DOMAIN file' /\ file'[saves[w].id] >= w
        <4>1. saves[w].id \in DOMAIN file /\ file[saves[w].id] >= w
          BY <2>2, <3>3 DEF Inv, AnswersHold
        <4>2. n >= w BY <1>4, <3>1
        <4> QED BY <1>5, <4>1, <4>2
      <3>4. ASSUME saves[w].answer = "refused", NEW x \in DOMAIN file'
            PROVE  file'[x] # w
        <4>1. x = id \/ file[x] # w BY <1>5, <2>2, <3>4 DEF Inv, AnswersHold
        <4>2. n # w BY <1>4, <2>2
        <4> QED BY <1>5, <4>1, <4>2
      <3> QED BY <3>2, <3>3, <3>4
    <2>3. w = n \/ w \in DOMAIN saves BY <1>4
    <2> QED BY <2>1, <2>2, <2>3
  <1>8. /\ AtWork' = AtWork \cup (IF id \in Runs THEN {} ELSE {n})
        /\ \A w \in DOMAIN saves : saves[w].id # id =>
             {x \in AtWork' \ {w} : saves'[x].id = saves'[w].id} = {x \in AtWork \ {w} : saves[x].id = saves[w].id}
    <2>1. AtWork' = AtWork \cup (IF id \in Runs THEN {} ELSE {n})
      BY <1>4 DEF AtWork
    <2>2. \A w \in AtWork : w \in DOMAIN saves BY DEF AtWork
    <2> QED BY <1>4, <2>1, <2>2
  <1>9. IndexFollows'
    <2> SUFFICES ASSUME NEW x \in SettledEntries'
                 PROVE \/ /\ x \in DOMAIN index /\ index[x] = file'[x]
                          /\ \A w \in AtWork' : saves'[w].id # x
                       \/ /\ file'[x] \in AtWork'
                          /\ saves'[file'[x]].at = "logged" => Others(file[x])' = {}
      BY <1>1 DEF IndexFollows
    <2>1. CASE x = id
      BY <1>4, <1>5, <1>8, <2>1 DEF SettledEntries
    <2>2. CASE x # id
      <3>1. x \in SettledEntries /\ file'[x] = file[x] /\ x \in DOMAIN file
        BY <1>1, <1>5, <2>2 DEF SettledEntries
      <3>2. file[x] \in DOMAIN saves /\ saves[file[x]].id = x BY <1>3, <3>1 DEF TypeOK
      <3>3. \A w \in AtWork : w \in DOMAIN saves BY DEF AtWork
      <3> QED BY <1>1, <1>4, <1>8, <2>2, <3>1, <3>2, <3>3 DEF Inv, IndexFollows, Others
    <2> QED BY <2>1, <2>2
  <1>10. LogFollows'
    <2> SUFFICES ASSUME ~IsTorn, NEW x \in SettledEntries'
                 PROVE \/ x \notin Logged
                       \/ \E i \in DOMAIN log : /\ log[i] = [id |-> x, version |-> file'[x]]
                                                /\ \A j \in DOMAIN log : log[j].id = x => j <= i
                       \/ saves'[file'[x]].at = "saved"
      BY <1>1 DEF LogFollows, IsTorn, Logged
    <2>1. CASE x = id
      BY <1>4, <1>5, <2>1 DEF SettledEntries
    <2>2. CASE x # id
      <3>1. x \in SettledEntries /\ file'[x] = file[x] /\ x \in DOMAIN file
        BY <1>1, <1>5, <2>2 DEF SettledEntries
      <3>2. file[x] \in DOMAIN saves BY <1>3, <3>1 DEF TypeOK
      <3> QED BY <1>4, <3>1, <3>2 DEF Inv, LogFollows
    <2> QED BY <2>1, <2>2
  <1> QED BY <1>7, <1>9, <1>10 DEF Inv

\* A save that fails changes nothing but the answer (SaveEntry, catalog.go:143-150).
LEMMA SaveFailsInv == ASSUME Inv, NEW id \in Entries \cup Runs, SaveFails(id) PROVE Inv'
  <1> DEFINE n == Len(saves) + 1
             h == [id |-> id, at |-> "over", answer |-> "refused"]
  <1>1. /\ up' = up /\ UNCHANGED <<log, index, unsettled, file, catalog>>
        /\ saves' = Append(saves, h)
    BY DEF SaveFails, Restored
  <1>2. h \in Handler
    BY DEF Handler
  <1>3. TypeOK BY DEF Inv, AnswersHold
  <1>4. /\ saves' \in Seq(Handler) /\ n \in Nat \ {0} /\ DOMAIN saves = 1..n - 1 /\ DOMAIN saves' = 1..n
        /\ \A w \in DOMAIN saves : saves'[w] = saves[w] /\ w # n
        /\ saves'[n].id = id /\ saves'[n].at = "over" /\ saves'[n].answer = "refused"
    <2>1. saves'[n] = h /\ n \in Nat \ {0}
      BY <1>1, <1>2, <1>3, AppendProperties DEF TypeOK
    <2>2. /\ saves' \in Seq(Handler) /\ DOMAIN saves = 1..n - 1 /\ DOMAIN saves' = 1..n
          /\ \A w \in DOMAIN saves : saves'[w] = saves[w] /\ w # n
      BY <1>1, <1>2, <1>3, AppendProperties DEF TypeOK
    <2> HIDE DEF n
    <2> QED BY <2>1, <2>2
  <1> HIDE DEF n, h
  <1>5. TypeOK'
    <2>1. \A w \in DOMAIN saves' : w \in DOMAIN saves \/ w = n BY <1>4
    <2> QED BY <1>1, <1>3, <1>4, <2>1 DEF TypeOK
  <1>6. AnswersHold'
    <2> SUFFICES ASSUME NEW w \in DOMAIN saves'
                 PROVE  /\ saves'[w].answer # "refused" =>
                             saves'[w].id \in DOMAIN file /\ file[saves'[w].id] >= w
                        /\ saves'[w].answer = "refused" => ~\E x \in DOMAIN file : file[x] = w
      BY <1>1, <1>5 DEF Inv, AnswersHold
    <2>1. CASE w = n
      <3>1. \A x \in DOMAIN file : file[x] # n BY <1>3, <1>4 DEF TypeOK
      <3> QED BY <1>4, <2>1, <3>1
    <2>2. CASE w \in DOMAIN saves
      BY <1>4, <2>2 DEF Inv, AnswersHold
    <2>3. w = n \/ w \in DOMAIN saves BY <1>4
    <2> QED BY <2>1, <2>2, <2>3
  <1>7. AtWork' = AtWork
    BY <1>4 DEF AtWork
  <1>8. \A w \in DOMAIN saves : Others(w)' = Others(w)
    <2>1. \A w \in AtWork : w \in DOMAIN saves BY DEF AtWork
    <2> QED BY <1>4, <1>7, <2>1 DEF Others
  <1>9. \A x \in SettledEntries : file[x] \in DOMAIN saves
    BY <1>3 DEF SettledEntries, TypeOK
  <1>10. SettledEntries' = SettledEntries BY <1>1 DEF SettledEntries
  <1>11. IndexFollows'
    <2>1. \A w \in AtWork : w \in DOMAIN saves /\ saves'[w] = saves[w] BY <1>4 DEF AtWork
    <2> SUFFICES ASSUME up, NEW x \in SettledEntries
                 PROVE  \/ /\ x \in DOMAIN index /\ index[x] = file[x]
                           /\ \A w \in AtWork : saves'[w].id # x
                        \/ /\ file[x] \in AtWork
                           /\ saves'[file[x]].at = "logged" => Others(file[x])' = {}
      BY <1>1, <1>7, <1>10 DEF IndexFollows
    <2>2. \/ /\ x \in DOMAIN index /\ index[x] = file[x]
             /\ \A w \in AtWork : saves[w].id # x
          \/ /\ file[x] \in AtWork
             /\ saves[file[x]].at = "logged" => Others(file[x]) = {}
      BY DEF Inv, IndexFollows
    <2>3. CASE /\ x \in DOMAIN index /\ index[x] = file[x]
               /\ \A w \in AtWork : saves[w].id # x
      BY <2>1, <2>3
    <2>4. CASE /\ file[x] \in AtWork
               /\ saves[file[x]].at = "logged" => Others(file[x]) = {}
      <3>1. saves'[file[x]] = saves[file[x]] /\ Others(file[x])' = Others(file[x])
        <4>1. PICK w \in DOMAIN saves : w = file[x] /\ w = file'[x] /\ saves'[w] = saves[w]
          BY <1>1, <2>1, <2>4
        <4>2. Others(w)' = Others(w) BY <1>8
        <4> QED BY <4>1, <4>2
      <3> QED BY <2>4, <3>1
    <2> QED BY <2>2, <2>3, <2>4
  <1>12. LogFollows'
    BY <1>1, <1>4, <1>9, <1>10 DEF Inv, LogFollows, IsTorn, Logged
  <1> QED BY <1>6, <1>11, <1>12 DEF Inv

-----------------------------------------------------------------------------
(* Server.entries.                                                         *)

\* What is logged is the last save of its id, or the id is unsettled (Server.entries,
\* server.go:266).
LEMMA LogEntryInv == ASSUME Inv, NEW w \in DOMAIN saves, LogEntry(w) PROVE Inv'
  <1> DEFINE h == [saves[w] EXCEPT !.at = "logged"]
             own == saves[w].id
  <1>1. /\ up /\ up' = up /\ UNCHANGED <<catalog, file, index>>
        /\ saves[w].at = "saved" /\ saves' = [saves EXCEPT ![w] = h] /\ log' = Line(w)
        /\ unsettled' = IF Others(w) = {} /\ file[own] = w THEN unsettled \ {own} ELSE unsettled \cup {own}
    BY DEF LogEntry
  <1>2. TypeOK BY DEF Inv, AnswersHold
  <1>3. saves[w] \in Handler BY <1>2 DEF TypeOK
  <1>4. h \in Handler /\ h.id = own /\ h.at = "logged" /\ h.answer = saves[w].answer
    BY <1>3 DEF Handler
  <1> HIDE DEF h
  <1>5. /\ saves' \in Seq(Handler) /\ DOMAIN saves' = DOMAIN saves
        /\ saves'[w] = h
        /\ \A v \in DOMAIN saves : v # w => saves'[v] = saves[v]
        /\ \A v \in DOMAIN saves : saves'[v].id = saves[v].id
    BY <1>1, <1>2, <1>4, HandlerChanges
  <1>6. saves[w].answer = "none" /\ own \in Entries /\ w \in AtWork
    BY <1>1, <1>2, AtWorkFacts
  <1>7. \A v \in DOMAIN saves : saves'[v].answer = saves[v].answer
    BY <1>4, <1>5
  <1>8. AtWork' = AtWork /\ AtWork \subseteq DOMAIN saves
    BY <1>5, <1>7 DEF AtWork
  <1>9. AnswersHold'
    <2>1. \A v \in DOMAIN saves' :
            IF saves'[v].answer = "none" THEN up' /\ saves'[v].id \in Entries /\ saves'[v].at # "over"
            ELSE saves'[v].at = "over"
      BY <1>1, <1>2, <1>4, <1>5, <1>6 DEF TypeOK
    <2>2. log' \in Seq(LogLine \cup {Torn}) /\ \A i \in 1..Len(log') - 1 : log'[i] # Torn
      BY <1>1, <1>2, <1>6, LineProperties
    <2>3. TypeOK'
      BY <1>1, <1>2, <1>5, <2>1, <2>2 DEF TypeOK
    <2> QED BY <1>1, <1>5, <1>7, <2>3 DEF Inv, AnswersHold
  <1>10. ASSUME NEW x \in SettledEntries'
         PROVE  /\ x \in DOMAIN file /\ file[x] \in DOMAIN saves /\ saves[file[x]].id = x
                /\ x # own => x \in SettledEntries /\ file[x] # w /\ saves'[file[x]] = saves[file[x]]
                /\ x = own => Others(w) = {} /\ file[x] = w
    <2>1. x \in DOMAIN file /\ x \notin Runs /\ x \notin unsettled' BY <1>1 DEF SettledEntries
    <2>2. file[x] \in DOMAIN saves /\ saves[file[x]].id = x BY <1>2, <2>1 DEF TypeOK
    <2>3. x # own => x \notin unsettled BY <1>1, <2>1
    <2>4. x # own => file[x] # w BY <2>2
    <2>5. x = own => Others(w) = {} /\ file[x] = w BY <1>1, <2>1
    <2> QED BY <1>5, <2>1, <2>2, <2>3, <2>4, <2>5 DEF SettledEntries
  <1>11. IndexFollows'
    <2> SUFFICES ASSUME NEW x \in SettledEntries'
                 PROVE \/ /\ x \in DOMAIN index /\ index[x] = file[x]
                          /\ \A v \in AtWork : saves[v].id # x
                       \/ /\ file[x] \in AtWork
                          /\ saves'[file[x]].at = "logged" => Others(file[x]) = {}
      <3>1. \A v \in DOMAIN saves : {y \in AtWork' \ {v} : saves'[y].id = saves'[v].id}
                                      = {y \in AtWork \ {v} : saves[y].id = saves[v].id}
        BY <1>5, <1>8
      <3> QED BY <1>1, <1>5, <1>8, <1>10, <3>1 DEF IndexFollows, Others
    <2>1. CASE x = own
      BY <1>6, <1>10, <2>1
    <2>2. CASE x # own
      BY <1>1, <1>10, <2>2 DEF Inv, IndexFollows
    <2> QED BY <2>1, <2>2
  <1>12. LogFollows'
    <2> SUFFICES ASSUME ~IsTorn', NEW x \in SettledEntries'
                 PROVE \/ x \notin Logged'
                       \/ \E i \in DOMAIN log' : /\ log'[i] = [id |-> x, version |-> file[x]]
                                                 /\ \A j \in DOMAIN log' : log'[j].id = x => j <= i
                       \/ saves'[file[x]].at = "saved"
      BY <1>1 DEF LogFollows
    <2>1. ~IsTorn
      BY <1>1, <1>2, <1>6, LineProperties DEF IsTorn
    <2>2. /\ DOMAIN log = 1..Len(log) /\ Len(log) \in Nat
          /\ DOMAIN log' = 1..Len(log) + 1
          /\ \A i \in DOMAIN log : log'[i] = log[i]
          /\ log'[Len(log) + 1] = [id |-> own, version |-> w]
      BY <1>1, <1>2, <1>6, <2>1, LineProperties
    <2>3. CASE x = own
      <3>1. log'[Len(log) + 1] = [id |-> x, version |-> file[x]] BY <1>10, <2>2, <2>3
      <3>2. Len(log) + 1 \in DOMAIN log' /\ \A j \in DOMAIN log' : j <= Len(log) + 1 BY <2>2
      <3> QED BY <3>1, <3>2
    <2>4. CASE x # own
      <3>1. Logged' = Logged \cup {own}
        <4>1. log'[Len(log) + 1].id = own BY <2>2
        <4>2. \A j \in DOMAIN log' : j \in DOMAIN log \/ j = Len(log) + 1 BY <2>2
        <4> QED BY <2>2, <4>1, <4>2 DEF Logged
      <3>2. x \in SettledEntries /\ saves'[file[x]] = saves[file[x]] BY <1>10, <2>4
      <3>3. CASE x \notin Logged BY <2>4, <3>1, <3>3
      <3>4. CASE saves[file[x]].at = "saved" BY <3>2, <3>4
      <3>5. CASE \E i \in DOMAIN log : /\ log[i] = [id |-> x, version |-> file[x]]
                                       /\ \A j \in DOMAIN log : log[j].id = x => j <= i
        <4>1. PICK i \in DOMAIN log : /\ log[i] = [id |-> x, version |-> file[x]]
                                      /\ \A j \in DOMAIN log : log[j].id = x => j <= i
          BY <3>5
        <4>2. ASSUME NEW j \in DOMAIN log', log'[j].id = x PROVE j <= i
          <5>1. log'[Len(log) + 1].id = own BY <2>2
          <5>2. j \in DOMAIN log BY <2>2, <2>4, <4>2, <5>1
          <5> QED BY <2>2, <4>1, <4>2, <5>2
        <4>3. i \in DOMAIN log' /\ log'[i] = log[i] BY <2>2
        <4> QED BY <4>1, <4>2, <4>3
      <3> QED BY <2>1, <3>2, <3>3, <3>4, <3>5 DEF Inv, LogFollows
    <2> QED BY <2>3, <2>4
  <1> QED BY <1>9, <1>11, <1>12 DEF Inv

\* A handler at work that answers is at work no more, and its save stays.
LEMMA AnswerKeeps ==
  ASSUME Inv, NEW w \in DOMAIN saves, saves[w].at # "over", NEW answer \in {"created", "not indexed"},
         Answers(w, answer), UNCHANGED <<up, file>>
  PROVE  /\ saves' \in Seq(Handler) /\ DOMAIN saves' = DOMAIN saves
         /\ \A v \in DOMAIN saves : v # w => saves'[v] = saves[v]
         /\ \A v \in DOMAIN saves : saves'[v].id = saves[v].id
         /\ up /\ saves[w].id \in Entries /\ w \in AtWork
         /\ saves'[w].at = "over" /\ saves'[w].answer = answer
         /\ AtWork' = AtWork \ {w} /\ AtWork \subseteq DOMAIN saves
         /\ \A v \in DOMAIN saves' :
              IF saves'[v].answer = "none" THEN up' /\ saves'[v].id \in Entries /\ saves'[v].at # "over"
              ELSE saves'[v].at = "over"
         /\ \A v \in DOMAIN saves' :
              /\ saves'[v].answer # "refused" => saves'[v].id \in DOMAIN file' /\ file'[saves'[v].id] >= v
              /\ saves'[v].answer = "refused" => ~\E id \in DOMAIN file' : file'[id] = v
  <1> DEFINE h == [id |-> saves[w].id, at |-> "over", answer |-> answer]
  <1>1. TypeOK BY DEF Inv, AnswersHold
  <1>2. saves[w] \in Handler
    <2>1. saves \in Seq(Handler) BY <1>1 DEF TypeOK
    <2> QED BY <2>1, ElementProperty
  <1>3. h \in Handler /\ h.id = saves[w].id /\ h.at = "over" /\ h.answer = answer
    BY <1>2 DEF Handler
  <1>4. saves' = [saves EXCEPT ![w] = h] BY DEF Answers
  <1> HIDE DEF h
  <1>5. /\ saves' \in Seq(Handler) /\ DOMAIN saves' = DOMAIN saves
        /\ saves'[w] = h
        /\ \A v \in DOMAIN saves : v # w => saves'[v] = saves[v]
        /\ \A v \in DOMAIN saves : saves'[v].id = saves[v].id
    BY <1>1, <1>3, <1>4, HandlerChanges
  <1>6. up /\ saves[w].answer = "none" /\ saves[w].id \in Entries /\ w \in AtWork
    BY <1>1, AtWorkFacts
  <1>7. AtWork' = AtWork \ {w} /\ AtWork \subseteq DOMAIN saves
    BY <1>3, <1>5 DEF AtWork
  <1>8. \A v \in DOMAIN saves' :
          IF saves'[v].answer = "none" THEN up' /\ saves'[v].id \in Entries /\ saves'[v].at # "over"
          ELSE saves'[v].at = "over"
    <2> TAKE v \in DOMAIN saves'
    <2>1. CASE v = w BY <1>3, <1>5, <2>1
    <2>2. CASE v # w BY <1>1, <1>5, <2>2 DEF TypeOK
    <2> QED BY <2>1, <2>2
  <1>9. ASSUME NEW v \in DOMAIN saves'
        PROVE  /\ saves'[v].answer # "refused" => saves'[v].id \in DOMAIN file' /\ file'[saves'[v].id] >= v
               /\ saves'[v].answer = "refused" => ~\E id \in DOMAIN file' : file'[id] = v
    <2>1. saves'[v].answer = "refused" <=> saves[v].answer = "refused" BY <1>3, <1>5, <1>6
    <2> QED BY <1>5, <2>1 DEF Inv, AnswersHold
  <1> QED BY <1>3, <1>5, <1>6, <1>7, <1>8, <1>9

\* An entry that could not be logged is saved all the same (Server.entries, server.go:266-269).
LEMMA LogFailsInv == ASSUME Inv, NEW w \in DOMAIN saves, LogFails(w) PROVE Inv'
  <1> DEFINE own == saves[w].id
  <1>1. /\ up' = up /\ UNCHANGED <<catalog, file, index>>
        /\ saves[w].at = "saved" /\ Answers(w, "not indexed")
        /\ log' \in {log, Line(w)} \cup (IF Line(w) = log THEN {} ELSE {Append(log, Torn)})
        /\ unsettled' = unsettled \cup {own}
    BY DEF LogFails
  <1>2. TypeOK BY DEF Inv, AnswersHold
  <1>3. /\ saves' \in Seq(Handler) /\ DOMAIN saves' = DOMAIN saves
        /\ \A v \in DOMAIN saves : v # w => saves'[v] = saves[v]
        /\ \A v \in DOMAIN saves : saves'[v].id = saves[v].id
        /\ up /\ own \in Entries /\ w \in AtWork
        /\ AtWork' = AtWork \ {w} /\ AtWork \subseteq DOMAIN saves
        /\ \A v \in DOMAIN saves' :
             IF saves'[v].answer = "none" THEN up' /\ saves'[v].id \in Entries /\ saves'[v].at # "over"
             ELSE saves'[v].at = "over"
        /\ \A v \in DOMAIN saves' :
             /\ saves'[v].answer # "refused" => saves'[v].id \in DOMAIN file' /\ file'[saves'[v].id] >= v
             /\ saves'[v].answer = "refused" => ~\E id \in DOMAIN file' : file'[id] = v
    BY <1>1, AnswerKeeps
  <1>4. \/ log' = log
        \/ log' = Line(w)
        \/ ~IsTorn /\ log' = Append(log, Torn)
    BY <1>1, <1>2, <1>3, LineProperties
  <1>5. log' \in Seq(LogLine \cup {Torn}) /\ \A i \in 1..Len(log') - 1 : log'[i] # Torn
    <2>1. CASE log' = log BY <1>2, <2>1 DEF TypeOK
    <2>2. CASE log' = Line(w)
      <3>1. own \in Entries BY <1>3
      <3> QED BY <1>2, <2>2, <3>1, LineProperties
    <2>3. CASE ~IsTorn /\ log' = Append(log, Torn) BY <1>2, <2>3, TornProperties
    <2> QED BY <1>4, <2>1, <2>2, <2>3
  <1>6. AnswersHold'
    <2>1. TypeOK'
      BY <1>1, <1>2, <1>3, <1>5 DEF TypeOK
    <2> QED BY <1>1, <1>3, <2>1 DEF Inv, AnswersHold
  <1>7. ASSUME NEW x \in SettledEntries'
        PROVE  /\ x \in SettledEntries /\ x # own
               /\ file[x] \in DOMAIN saves /\ saves[file[x]].id = x
               /\ file[x] # w /\ saves'[file[x]] = saves[file[x]]
    <2>1. x \in SettledEntries /\ x # own /\ x \in DOMAIN file BY <1>1 DEF SettledEntries
    <2>2. file[x] \in DOMAIN saves /\ saves[file[x]].id = x BY <1>2, <2>1 DEF TypeOK
    <2> QED BY <1>3, <2>1, <2>2
  <1>8. IndexFollows'
    <2> SUFFICES ASSUME NEW x \in SettledEntries'
                 PROVE \/ /\ x \in DOMAIN index /\ index[x] = file[x]
                          /\ \A v \in AtWork' : saves[v].id # x
                       \/ /\ file[x] \in AtWork'
                          /\ saves'[file[x]].at = "logged" =>
                               {y \in AtWork' \ {file[x]} : saves[y].id = saves[file[x]].id} = {}
      <3>1. \A v \in AtWork' : saves'[v].id = saves[v].id BY <1>3
      <3>2. \A x \in SettledEntries' : saves'[file[x]].id = saves[file[x]].id BY <1>7
      <3>3. \A x \in SettledEntries' : {y \in AtWork' \ {file[x]} : saves'[y].id = saves'[file[x]].id}
                                         = {y \in AtWork' \ {file[x]} : saves[y].id = saves[file[x]].id}
        BY <3>1, <3>2
      <3>4. file' = file /\ index' = index BY <1>1
      <3> QED BY <3>1, <3>3, <3>4 DEF IndexFollows, Others
    <2>1. /\ x \in SettledEntries /\ file[x] # w
          /\ file[x] \in DOMAIN saves /\ saves'[file[x]] = saves[file[x]]
      BY <1>7
    <2>2. \/ /\ x \in DOMAIN index /\ index[x] = file[x]
             /\ \A v \in AtWork : saves[v].id # x
          \/ /\ file[x] \in AtWork
             /\ saves[file[x]].at = "logged" => {y \in AtWork \ {file[x]} : saves[y].id = saves[file[x]].id} = {}
      BY <1>3, <2>1 DEF Inv, IndexFollows, Others
    <2> QED BY <1>3, <2>1, <2>2
  <1>9. LogFollows'
    <2> SUFFICES ASSUME ~IsTorn', NEW x \in SettledEntries'
                 PROVE \/ x \notin Logged'
                       \/ \E i \in DOMAIN log' : /\ log'[i] = [id |-> x, version |-> file[x]]
                                                 /\ \A j \in DOMAIN log' : log'[j].id = x => j <= i
                       \/ saves'[file[x]].at = "saved"
      BY <1>1 DEF LogFollows
    <2>1. x \in SettledEntries /\ x # own /\ saves'[file[x]] = saves[file[x]] BY <1>7
    <2>2. CASE log' = log
      BY <2>1, <2>2 DEF Inv, LogFollows, IsTorn, Logged
    <2>3. CASE log' = Line(w) /\ ~IsTorn
      <3>1. /\ DOMAIN log = 1..Len(log) /\ Len(log) \in Nat
            /\ DOMAIN log' = 1..Len(log) + 1
            /\ \A i \in DOMAIN log : log'[i] = log[i]
            /\ log'[Len(log) + 1] = [id |-> own, version |-> w]
        BY <1>2, <1>3, <2>3, LineProperties
      <3>2. log'[Len(log) + 1].id = own BY <3>1
      <3>3. ASSUME NEW j \in DOMAIN log', log'[j].id = x PROVE j \in DOMAIN log /\ log'[j] = log[j]
        BY <2>1, <3>1, <3>2, <3>3
      <3>4. x \notin Logged => x \notin Logged'
        BY <3>3 DEF Logged
      <3>5. ASSUME NEW i \in DOMAIN log, log[i] = [id |-> x, version |-> file[x]],
                   \A j \in DOMAIN log : log[j].id = x => j <= i
            PROVE  /\ i \in DOMAIN log' /\ log'[i] = [id |-> x, version |-> file[x]]
                   /\ \A j \in DOMAIN log' : log'[j].id = x => j <= i
        <4>1. i \in DOMAIN log' /\ log'[i] = log[i] BY <3>1
        <4> QED BY <3>3, <3>5, <4>1
      <3> QED BY <2>1, <2>3, <3>4, <3>5 DEF Inv, LogFollows
    <2>4. CASE log' = Line(w) /\ IsTorn
      BY <1>2, <1>3, <2>4, LineProperties DEF IsTorn
    <2>5. CASE ~IsTorn /\ log' = Append(log, Torn)
      BY <1>2, <2>5, TornProperties DEF IsTorn
    <2> QED BY <1>4, <2>2, <2>3, <2>4, <2>5
  <1> QED BY <1>6, <1>8, <1>9 DEF Inv

\* The index gets the last save of a settled entry (Server.entries, server.go:270).
LEMMA EnterEntryInv == ASSUME Inv, NEW w \in DOMAIN saves, EnterEntry(w) PROVE Inv'
  <1> DEFINE own == saves[w].id
  <1>1. /\ up' = up /\ UNCHANGED <<catalog, file, log, unsettled>>
        /\ saves[w].at = "logged" /\ Answers(w, "created") /\ index' = Put(index, own, w)
    BY DEF EnterEntry
  <1>2. TypeOK BY DEF Inv, AnswersHold
  <1>3. /\ saves' \in Seq(Handler) /\ DOMAIN saves' = DOMAIN saves
        /\ \A v \in DOMAIN saves : v # w => saves'[v] = saves[v]
        /\ \A v \in DOMAIN saves : saves'[v].id = saves[v].id
        /\ up /\ own \in Entries /\ w \in AtWork
        /\ AtWork' = AtWork \ {w} /\ AtWork \subseteq DOMAIN saves
        /\ \A v \in DOMAIN saves' :
             IF saves'[v].answer = "none" THEN up' /\ saves'[v].id \in Entries /\ saves'[v].at # "over"
             ELSE saves'[v].at = "over"
        /\ \A v \in DOMAIN saves' :
             /\ saves'[v].answer # "refused" => saves'[v].id \in DOMAIN file' /\ file'[saves'[v].id] >= v
             /\ saves'[v].answer = "refused" => ~\E id \in DOMAIN file' : file'[id] = v
    BY <1>1, AnswerKeeps
  <1>4. /\ DOMAIN index' = DOMAIN index \cup {own} /\ index'[own] = w
        /\ \A x \in DOMAIN index : x # own => index'[x] = index[x]
    BY <1>1 DEF Put
  <1>5. AnswersHold'
    <2>1. TypeOK'
      BY <1>1, <1>2, <1>3, <1>4 DEF TypeOK
    <2> QED BY <1>1, <1>3, <2>1 DEF Inv, AnswersHold
  <1>6. SettledEntries' = SettledEntries BY <1>1 DEF SettledEntries
  <1>7. \A x \in SettledEntries : file[x] \in DOMAIN saves /\ saves[file[x]].id = x
    BY <1>2 DEF SettledEntries, TypeOK
  <1>8. IndexFollows'
    <2> SUFFICES ASSUME NEW x \in SettledEntries
                 PROVE \/ /\ x \in DOMAIN index' /\ index'[x] = file[x]
                          /\ \A v \in AtWork' : saves[v].id # x
                       \/ /\ file[x] \in AtWork'
                          /\ saves'[file[x]].at = "logged" =>
                               {y \in AtWork' \ {file[x]} : saves[y].id = saves[file[x]].id} = {}
      BY <1>1, <1>3, <1>6, <1>7 DEF IndexFollows, Others
    <2>1. file[x] \in DOMAIN saves /\ saves[file[x]].id = x BY <1>7
    <2>2. CASE x # own
      BY <1>3, <1>4, <2>1, <2>2 DEF Inv, IndexFollows, Others
    <2>3. CASE x = own /\ file[x] = w
      <3>1. {y \in AtWork \ {w} : saves[y].id = own} = {}
        BY <1>1, <1>3, <2>3 DEF Inv, IndexFollows, Others
      <3> QED BY <1>3, <1>4, <2>3, <3>1
    <2>4. CASE x = own /\ file[x] # w
      <3>1. file[x] \in AtWork /\ (saves[file[x]].at = "logged" => Others(file[x]) = {})
        BY <1>3, <2>4 DEF Inv, IndexFollows
      <3>2. w \in Others(file[x]) BY <1>3, <2>1, <2>4 DEF Others
      <3>3. saves'[file[x]] = saves[file[x]] BY <1>3, <2>1, <2>4
      <3> QED BY <1>3, <2>4, <3>1, <3>2, <3>3
    <2> QED BY <2>2, <2>3, <2>4
  <1>9. LogFollows'
    <2>1. ASSUME NEW x \in SettledEntries, saves[file[x]].at = "saved" PROVE saves'[file[x]].at = "saved"
      BY <1>1, <1>3, <1>7, <2>1
    <2> QED BY <1>1, <1>6, <2>1 DEF Inv, LogFollows, IsTorn, Logged
  <1> QED BY <1>5, <1>8, <1>9 DEF Inv

-----------------------------------------------------------------------------
(* The end of the process, and Open.                                       *)

\* A crash loses what is in memory; entries that were not logged yet are unsettled.
LEMMA CrashInv == ASSUME Inv, Crash PROVE Inv'
  <1>1. /\ up /\ up' = FALSE /\ UNCHANGED file /\ index' = Empty
        /\ unsettled' = unsettled \cup {saves[w].id : w \in {x \in AtWork : saves[x].at = "saved"}}
        /\ saves' = [w \in DOMAIN saves |->
                       IF w \in AtWork THEN [saves[w] EXCEPT !.answer = "lost", !.at = "over"] ELSE saves[w]]
    BY DEF Crash
  <1>2. TypeOK BY DEF Inv, AnswersHold
  <1>3. log' = log \/ (~IsTorn /\ log' = Append(log, Torn))
    <2>1. log' = log \/ (log' = Append(log, Torn) /\ \E w \in AtWork : Line(w) # log)
      BY DEF Crash
    <2> QED BY <2>1 DEF Line
  <1>4. log' \in Seq(LogLine \cup {Torn}) /\ \A i \in 1..Len(log') - 1 : log'[i] # Torn
    <2>1. CASE log' = log BY <1>2, <2>1 DEF TypeOK
    <2>2. CASE ~IsTorn /\ log' = Append(log, Torn) BY <1>2, <2>2, TornProperties
    <2> QED BY <1>3, <2>1, <2>2
  <1>5. /\ saves' \in Seq(Handler) /\ DOMAIN saves' = DOMAIN saves
        /\ \A w \in DOMAIN saves :
             /\ saves'[w] = IF w \in AtWork THEN [saves[w] EXCEPT !.answer = "lost", !.at = "over"] ELSE saves[w]
             /\ saves'[w].id = saves[w].id
             /\ saves'[w].answer # "none" /\ saves'[w].at = "over"
             /\ saves'[w].answer = "refused" <=> saves[w].answer = "refused"
    <2>1. saves \in Seq(Handler) BY <1>2 DEF TypeOK
    <2>2. ASSUME NEW w \in DOMAIN saves
          PROVE  LET new == IF w \in AtWork THEN [saves[w] EXCEPT !.answer = "lost", !.at = "over"] ELSE saves[w]
                 IN  /\ new \in Handler /\ new.id = saves[w].id
                     /\ new.answer # "none" /\ new.at = "over"
                     /\ new.answer = "refused" <=> saves[w].answer = "refused"
      <3>1. saves[w] \in Handler BY <2>1, ElementProperty
      <3>2. CASE w \in AtWork BY <3>1, <3>2 DEF Handler, AtWork
      <3>3. CASE w \notin AtWork
        <4>1. saves[w].answer # "none" BY <3>3 DEF AtWork
        <4>2. saves[w].at = "over" BY <1>2, <4>1 DEF TypeOK
        <4> QED BY <3>1, <3>3, <4>1, <4>2
      <3> QED BY <3>2, <3>3
    <2>3. Len(saves) \in Nat /\ DOMAIN saves = 1..Len(saves) BY <2>1
    <2>4. saves' \in [1..Len(saves) -> Handler] BY <1>1, <2>2, <2>3
    <2>5. saves' \in Seq(Handler) BY <2>3, <2>4
    <2> QED BY <1>1, <2>2, <2>5
  <1>6. AnswersHold'
    <2>1. DOMAIN index' \subseteq Entries BY <1>1 DEF Empty
    <2>2. \A x \in DOMAIN file' : file'[x] \in DOMAIN saves' /\ saves'[file'[x]].id = x
      <3>1. \A x \in DOMAIN file : file[x] \in DOMAIN saves /\ saves[file[x]].id = x BY <1>2 DEF TypeOK
      <3>2. DOMAIN saves' = DOMAIN saves /\ \A w \in DOMAIN saves : saves'[w].id = saves[w].id BY <1>5
      <3>3. file' = file BY <1>1
      <3> QED BY <3>1, <3>2, <3>3
    <2>3. saves' \in Seq(Handler) /\ \A w \in DOMAIN saves' : saves'[w].answer # "none" /\ saves'[w].at = "over"
      BY <1>5
    <2>4. up' \in BOOLEAN BY <1>1
    <2>5. TypeOK' BY <1>4, <2>1, <2>2, <2>3, <2>4 DEF TypeOK
    <2> QED BY <1>1, <1>5, <2>5 DEF Inv, AnswersHold
  <1>7. IndexFollows' BY <1>1 DEF IndexFollows
  <1>8. LogFollows'
    <2> SUFFICES ASSUME ~IsTorn', NEW x \in SettledEntries'
                 PROVE \/ x \notin Logged'
                       \/ \E i \in DOMAIN log' : /\ log'[i] = [id |-> x, version |-> file[x]]
                                                 /\ \A j \in DOMAIN log' : log'[j].id = x => j <= i
                       \/ saves'[file[x]].at = "saved"
      BY <1>1 DEF LogFollows
    <2>1. CASE log' = log
      <3>1. x \in SettledEntries /\ x \in DOMAIN file BY <1>1 DEF SettledEntries
      <3>2. file[x] \in DOMAIN saves /\ saves[file[x]].id = x BY <1>2, <3>1 DEF TypeOK
      <3>3. saves[file[x]].at # "saved"
        <4>1. SUFFICES ASSUME saves[file[x]].at = "saved" PROVE FALSE OBVIOUS
        <4>2. file[x] \in AtWork BY <1>2, <3>2, <4>1, AtWorkFacts
        <4>3. x \in unsettled' BY <1>1, <3>2, <4>1, <4>2
        <4> QED BY <4>3 DEF SettledEntries
      <3> QED BY <2>1, <3>1, <3>3 DEF Inv, LogFollows, IsTorn, Logged
    <2>2. CASE ~IsTorn /\ log' = Append(log, Torn)
      BY <1>2, <2>2, TornProperties DEF IsTorn
    <2> QED BY <1>3, <2>1, <2>2
  <1> QED BY <1>6, <1>7, <1>8 DEF Inv

\* The last line of an id is what replay leaves of it (OpenWithOptions, server.go:93).
LEMMA ReplayedIsLast ==
  ASSUME TypeOK, NEW id, NEW i \in DOMAIN log, log[i].id = id,
         \A j \in DOMAIN log : log[j].id = id => j <= i
  PROVE  Replayed(id) = log[i].version
  <1> DEFINE IsLast(k) == log[k].id = id /\ \A j \in DOMAIN log : log[j].id = id => j <= k
             last == CHOOSE k \in DOMAIN log : IsLast(k)
  <1>1. last \in DOMAIN log /\ IsLast(last) OBVIOUS
  <1>2. \A k \in DOMAIN log : k \in Nat BY DEF TypeOK
  <1>3. last <= i /\ i <= last BY <1>1
  <1>4. Replayed(id) = log[last].version BY DEF Replayed
  <1> HIDE DEF last
  <1>5. last = i BY <1>1, <1>2, <1>3
  <1> QED BY <1>4, <1>5

\* A start indexes the file's entries and what was logged over them.
LEMMA OpenInv == ASSUME Inv, Open PROVE Inv'
  <1>1. /\ ~up /\ ~IsTorn /\ up' = TRUE /\ catalog' = file /\ UNCHANGED <<file, log, saves>>
        /\ index' = Indexed /\ unsettled' = unsettled \cap Logged
    BY DEF Open
  <1>2. TypeOK BY DEF Inv, AnswersHold
  <1>3. \A x \in DOMAIN file : file[x] \in DOMAIN saves /\ saves[file[x]].id = x
    BY <1>2 DEF TypeOK
  <1>4. /\ DOMAIN index' = (DOMAIN file \ Runs) \cup Logged
        /\ \A x \in DOMAIN index' : index'[x] = IF x \in Logged THEN Replayed(x) ELSE file[x]
    BY <1>1 DEF Indexed
  <1>5. AtWork' = {} /\ \A w \in DOMAIN saves : saves[w].answer # "none" /\ saves[w].at = "over"
    BY <1>1, <1>2 DEF AtWork, TypeOK
  <1>6. AnswersHold'
    <2>1. DOMAIN index' \subseteq Entries
      <3>1. ASSUME NEW x \in DOMAIN file, x \notin Runs PROVE x \in Entries
        <4>1. saves \in Seq(Handler) BY <1>2 DEF TypeOK
        <4>2. saves[file[x]] \in Handler BY <1>3, <4>1, ElementProperty
        <4> QED BY <1>3, <3>1, <4>2 DEF Handler
      <3>2. Logged \subseteq Entries BY <1>1, <1>2, LogIsOfEntries
      <3> QED BY <1>4, <3>1, <3>2
    <2>2. TypeOK' BY <1>1, <1>2, <1>5, <2>1 DEF TypeOK
    <2> QED BY <1>1, <2>2 DEF Inv, AnswersHold
  <1>7. ASSUME NEW x \in SettledEntries', x \in Logged
        PROVE  \E i \in DOMAIN log : /\ log[i] = [id |-> x, version |-> file[x]]
                                     /\ \A j \in DOMAIN log : log[j].id = x => j <= i
    <2>1. x \in SettledEntries BY <1>1, <1>7 DEF SettledEntries
    <2>2. saves[file[x]].at # "saved" BY <1>3, <1>5, <2>1 DEF SettledEntries
    <2> QED BY <1>1, <1>7, <2>1, <2>2 DEF Inv, LogFollows
  <1>8. IndexFollows'
    <2> SUFFICES ASSUME NEW x \in SettledEntries' PROVE x \in DOMAIN index' /\ index'[x] = file[x]
      BY <1>1, <1>5 DEF IndexFollows
    <2>1. x \in DOMAIN file \ Runs BY <1>1 DEF SettledEntries
    <2>2. CASE x \notin Logged BY <1>4, <2>1, <2>2
    <2>3. CASE x \in Logged
      <3>1. PICK i \in DOMAIN log : /\ log[i] = [id |-> x, version |-> file[x]]
                                    /\ \A j \in DOMAIN log : log[j].id = x => j <= i
        BY <1>7, <2>3
      <3>2. log[i].id = x /\ log[i].version = file[x] BY <3>1
      <3>3. Replayed(x) = file[x] BY <1>2, <3>1, <3>2, ReplayedIsLast
      <3> QED BY <1>4, <2>1, <2>3, <3>3
    <2> QED BY <2>2, <2>3
  <1>9. LogFollows'
    BY <1>1, <1>7 DEF LogFollows, IsTorn, Logged
  <1> QED BY <1>6, <1>8, <1>9 DEF Inv

-----------------------------------------------------------------------------
LEMMA StepInv == Inv /\ [Next]_vars => Inv'
  <1> SUFFICES ASSUME Inv, [Next]_vars PROVE Inv'
    OBVIOUS
  <1>1. ASSUME NEW id \in Entries \cup Runs, Save(id) PROVE Inv'
    BY <1>1, SaveInv
  <1>2. ASSUME NEW id \in Entries \cup Runs, SaveFails(id) PROVE Inv'
    BY <1>2, SaveFailsInv
  <1>3. ASSUME NEW w \in DOMAIN saves, LogEntry(w) PROVE Inv'
    BY <1>3, LogEntryInv
  <1>4. ASSUME NEW w \in DOMAIN saves, LogFails(w) PROVE Inv'
    BY <1>4, LogFailsInv
  <1>5. ASSUME NEW w \in DOMAIN saves, EnterEntry(w) PROVE Inv'
    BY <1>5, EnterEntryInv
  <1>6. CASE Crash BY <1>6, CrashInv
  <1>7. CASE Open BY <1>7, OpenInv
  <1>8. CASE UNCHANGED vars
    BY <1>8 DEF vars, Inv, AnswersHold, TypeOK, IndexFollows, LogFollows, SettledEntries,
                AtWork, Others, IsTorn, Logged
  <1> QED BY <1>1, <1>2, <1>3, <1>4, <1>5, <1>6, <1>7, <1>8 DEF Next

LEMMA InvHolds == Spec => []Inv
  BY InitInv, StepInv, PTL DEF Spec

\* Whatever fails and whenever the process ends, a save that was not refused is in the file
\* or overwritten, and a refused one is not there (SaveEntry, catalog.go:139-151).
THEOREM AnswersHoldHolds == Spec => []AnswersHold
  BY InvHolds, PTL DEF Inv

\* Search and catalog agree on every settled entry nobody is saving, after restarts too
\* (Server.entries, server.go:260-271, and OpenWithOptions, server.go:89-96).
THEOREM SearchFindsTheCatalogHolds == Spec => []SearchFindsTheCatalog
  <1>1. Inv => SearchFindsTheCatalog
    <2> SUFFICES ASSUME Inv PROVE SearchFindsTheCatalog OBVIOUS
    <2> SUFFICES ASSUME up, NEW id \in (DOMAIN catalog \ Runs) \ unsettled,
                        {w \in AtWork : saves[w].id = id} = {}
                 PROVE  id \in DOMAIN index /\ index[id] = catalog[id]
      BY DEF Inv, SearchFindsTheCatalog
    <2>1. catalog = file /\ id \in SettledEntries /\ id \in DOMAIN file
      BY DEF Inv, AnswersHold, SettledEntries
    <2>2. saves[file[id]].id = id BY <2>1 DEF Inv, AnswersHold, TypeOK
    <2>3. file[id] \notin AtWork BY <2>2
    <2> QED BY <2>1, <2>3 DEF Inv, IndexFollows
  <1> QED BY <1>1, InvHolds, PTL
=============================================================================
