------------------------------ MODULE Catalog ------------------------------
(***************************************************************************)
(* The knowledge catalog of Atlas (src/internal/atlas: catalog.go and the  *)
(* handlers of server.go and impact.go that save an entry).                *)
(*                                                                         *)
(* An entry is saved in memory and in one file, under the catalog's lock;  *)
(* then it is appended to the search log, and then entered in the index,   *)
(* with no lock over the three.  A start enters what the file has and then *)
(* what the log has.  Runs are saved in the same file and are not indexed. *)
(* Of an entry its version is kept, the number of the save it is from.     *)
(***************************************************************************)
EXTENDS Integers, Sequences, FiniteSets

CONSTANTS
  Entries, Runs,              \* ids
  MaxSaves,                   \* bound: saves
  MaxWaiting,                 \* bound: handlers at work at a time
  MaxFails, MaxCrashes        \* bounds: failed writes, ends of the process

ASSUME CatalogAssumption == Entries \cap Runs = {} /\ \A b \in {MaxSaves, MaxWaiting, MaxFails, MaxCrashes} : b \in Nat

VARIABLES
  up,
  catalog,    \* Catalog.entries and .runs: id -> version
  file,       \* catalog.json
  log,        \* the lines of knowledge.wal: [id, version], or Torn
  index,      \* id -> version
  saves,      \* the handlers, in the order they saved: [id, at, answer]
  unsettled,  \* history: ids of which two saves overlapped, or one was not logged
  fails, crashes

vars == <<up, catalog, file, log, index, saves, unsettled, fails, crashes>>

Torn == [id |-> "", version |-> 0]
Empty == [id \in {} |-> 0]

Put(f, id, version) == [x \in DOMAIN f \cup {id} |-> IF x = id THEN version ELSE f[x]]

AtWork == {w \in DOMAIN saves : saves[w].answer = "none"}
Others(w) == {x \in AtWork \ {w} : saves[x].id = saves[w].id}

Fails   == fails < MaxFails /\ fails' = fails + 1
Answers(w, answer) == saves' = [saves EXCEPT ![w] = [id |-> @.id, at |-> "over", answer |-> answer]]

-----------------------------------------------------------------------------
(* SaveEntry and SaveRun, with persistLocked.                              *)

Save(id) ==
  LET version == Len(saves) + 1
      new == Put(catalog, id, version)
  IN  /\ up /\ Len(saves) < MaxSaves /\ Cardinality(AtWork) < MaxWaiting
      /\ catalog' = new /\ file' = new
      /\ saves' = Append(saves, [id |-> id, at |-> IF id \in Runs THEN "over" ELSE "saved",
                                 answer |-> IF id \in Runs THEN "created" ELSE "none"])
      /\ UNCHANGED <<up, log, index, unsettled, fails, crashes>>

\* Mutant: what could not be written stays in memory.
Restored_Not(id, version) == Put(catalog, id, version)

Restored(id, version) == catalog

\* The file is not written or not renamed: memory goes back.
SaveFails(id) ==
  /\ up /\ Len(saves) < MaxSaves /\ Fails
  /\ catalog' = Restored(id, Len(saves) + 1)
  /\ saves' = Append(saves, [id |-> id, at |-> "over", answer |-> "refused"])
  /\ UNCHANGED <<up, file, log, index, unsettled, crashes>>

-----------------------------------------------------------------------------
(* The rest of Server.entries and of indexImpactConclusion.                *)

IsTorn == log # <<>> /\ log[Len(log)] = Torn

\* What follows a torn line is on the same line.
Line(w) == IF IsTorn THEN log
           ELSE Append(log, [id |-> saves[w].id, version |-> w])

LogEntry(w) ==
  /\ up /\ saves[w].at = "saved"
  /\ log' = Line(w)
  /\ saves' = [saves EXCEPT ![w].at = "logged"]
  /\ unsettled' = IF Others(w) = {} /\ file[saves[w].id] = w THEN unsettled \ {saves[w].id}
                  ELSE unsettled \cup {saves[w].id}
  /\ UNCHANGED <<up, catalog, file, index, fails, crashes>>

LogFails(w) ==
  /\ up /\ saves[w].at = "saved" /\ Fails
  /\ log' \in {log, Line(w)} \cup (IF Line(w) = log THEN {} ELSE {Append(log, Torn)})
  /\ unsettled' = unsettled \cup {saves[w].id}
  /\ Answers(w, "not indexed")
  /\ UNCHANGED <<up, catalog, file, index, crashes>>

EnterEntry(w) ==
  /\ up /\ saves[w].at = "logged"
  /\ index' = Put(index, saves[w].id, w)
  /\ Answers(w, "created")
  /\ UNCHANGED <<up, catalog, file, log, unsettled, fails, crashes>>

-----------------------------------------------------------------------------
(* The end of the process, and Open.                                       *)

Crash ==
  /\ up /\ crashes < MaxCrashes /\ crashes' = crashes + 1
  /\ up' = FALSE /\ catalog' = Empty /\ index' = Empty
  /\ \E torn \in BOOLEAN :
       /\ torn => \E w \in AtWork : saves[w].at = "saved" /\ Line(w) # log
       /\ log' = IF torn THEN Append(log, Torn) ELSE log
  /\ unsettled' = unsettled \cup {saves[w].id : w \in {x \in AtWork : saves[x].at = "saved"}}
  /\ saves' = [w \in DOMAIN saves |->
                IF w \in AtWork THEN [saves[w] EXCEPT !.answer = "lost", !.at = "over"] ELSE saves[w]]
  /\ UNCHANGED <<file, fails>>

Logged == {log[i].id : i \in DOMAIN log}

\* What replay, line after line, leaves of an id.
Replayed(id) ==
  log[CHOOSE i \in DOMAIN log : log[i].id = id /\ \A j \in DOMAIN log : log[j].id = id => j <= i].version

\* Mutant: the log is all that is indexed.
Indexed_LogOnly == [id \in Logged |-> Replayed(id)]

\* The file's entries, and over them the log's.
Indexed ==
  [id \in (DOMAIN file \ Runs) \cup Logged |-> IF id \in Logged THEN Replayed(id) ELSE file[id]]

\* Atlas does not open with a bad line in the log.
Open ==
  /\ ~up /\ ~IsTorn
  /\ up' = TRUE /\ catalog' = file /\ index' = Indexed
  /\ unsettled' = unsettled \cap Logged
  /\ UNCHANGED <<file, log, saves, fails, crashes>>

Init ==
  /\ up = TRUE /\ catalog = Empty /\ file = Empty /\ log = <<>> /\ index = Empty
  /\ saves = <<>> /\ unsettled = {} /\ fails = 0 /\ crashes = 0

Next ==
  \/ \E id \in Entries \cup Runs : Save(id) \/ SaveFails(id)
  \/ \E w \in DOMAIN saves : LogEntry(w) \/ LogFails(w) \/ EnterEntry(w)
  \/ Crash \/ Open

Spec == Init /\ [][Next]_vars

-----------------------------------------------------------------------------
(* Properties.                                                             *)

Handler == [id : Entries \cup Runs, at : {"saved", "logged", "over"},
            answer : {"none", "created", "not indexed", "refused", "lost"}]
LogLine == [id : Entries, version : Nat \ {0}]

\* Memory and file hold saves of their id, only entries are at work and only while the process
\* is up, and the log is torn at its end if at all.
TypeOK ==
  /\ up \in BOOLEAN
  /\ saves \in Seq(Handler)
  /\ \A w \in DOMAIN saves :
       IF saves[w].answer = "none" THEN up /\ saves[w].id \in Entries /\ saves[w].at # "over"
       ELSE saves[w].at = "over"
  /\ \A id \in DOMAIN file : file[id] \in DOMAIN saves /\ saves[file[id]].id = id
  /\ DOMAIN index \subseteq Entries
  /\ log \in Seq(LogLine \cup {Torn}) /\ \A i \in 1..Len(log) - 1 : log[i] # Torn

\* The catalog is the file; what was saved, indexed or not and answered or not, is there or
\* overwritten, through failed saves of others and restarts, and what was refused is not
\* (SaveEntry restores what was there before).
AnswersHold ==
  /\ TypeOK
  /\ up => catalog = file
  /\ \A w \in DOMAIN saves :
       /\ saves[w].answer # "refused" => saves[w].id \in DOMAIN file /\ file[saves[w].id] >= w
       /\ saves[w].answer = "refused" => ~\E id \in DOMAIN file : file[id] = w

SettledEntries == (DOMAIN file \ Runs) \ unsettled

\* Of a settled entry the last save is in the index, or is on its way there and, once it is
\* logged, alone.
IndexFollows ==
  up => \A id \in SettledEntries :
    \/ /\ id \in DOMAIN index /\ index[id] = file[id]
       /\ \A w \in AtWork : saves[w].id # id
    \/ /\ file[id] \in AtWork
       /\ saves[file[id]].at = "logged" => Others(file[id]) = {}

\* Of a settled entry the log has nothing, or last the last save, or that is on its way.
LogFollows ==
  ~IsTorn => \A id \in SettledEntries :
    \/ id \notin Logged
    \/ \E i \in DOMAIN log : /\ log[i] = [id |-> id, version |-> file[id]]
                             /\ \A j \in DOMAIN log : log[j].id = id => j <= i
    \/ saves[file[id]].at = "saved"

\* Search finds every entry as the catalog has it once its handler is through, and after
\* every restart, those included that never came to the log, as long as the id is new to
\* the log; not so an id of which two saves overlapped, or of which the log has an older
\* version and not the last ("restart will rebuild the index", Server.entries).
SearchFindsTheCatalog ==
  /\ IndexFollows /\ LogFollows
  /\ up => \A id \in (DOMAIN catalog \ Runs) \ unsettled :
       {w \in AtWork : saves[w].id = id} = {} => id \in DOMAIN index /\ index[id] = catalog[id]
=============================================================================
