----------------------------- MODULE PromisedLog ----------------------------
(***************************************************************************)
(* What a durable service promises about what it was asked to record: it   *)
(* enters one order, each entry once; it never leaves it; and nobody is    *)
(* told of an entry that is not there.  Live documents promise this of     *)
(* edits (src/docs/components/live-docs.md, "Reconnects, exactly once" and *)
(* "Durability"), Quorum KV of writes (its README, "Safety path").         *)
(***************************************************************************)
EXTENDS Sequences, Naturals

VARIABLES
  log,    \* the committed entries, in order
  told    \* the entries somebody was told are committed

Listed(l) == {l[i] : i \in DOMAIN l}

Init == log = <<>> /\ told = {}

\* New entries follow the old ones.
Grows ==
  /\ Len(log') > Len(log)
  /\ \A i \in DOMAIN log : log'[i] = log[i]
  /\ \A i, j \in DOMAIN log' : log'[i] = log'[j] => i = j

\* New entries are committed.
Commit == Grows /\ UNCHANGED told

\* Somebody is told of committed entries.
Acknowledge ==
  /\ told \subseteq told' /\ told' \subseteq Listed(log)
  /\ UNCHANGED log

\* Who committed new entries is told at once.
CommitAndTell ==
  /\ Grows
  /\ told \subseteq told' /\ told' \subseteq Listed(log')

Next == Commit \/ Acknowledge \/ CommitAndTell

Spec == Init /\ [][Next]_<<log, told>>
=============================================================================
