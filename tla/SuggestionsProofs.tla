-------------------------- MODULE SuggestionsProofs --------------------------
(***************************************************************************)
(* Suggestions, proofs: a decision on a suggestion is taken once and       *)
(* lasts, agents stay within their budget, a viewer shows what is open and *)
(* who is at work, and what can be accepted stands on the text that was    *)
(* read, for any texts, edits, runs, failed appends and crashes.           *)
(*                                                                         *)
(* Replay, the filters and Apply are recursive functions.  What they       *)
(* compute is proved by induction on a set of numbers, which has a least   *)
(* element when it is not empty.                                           *)
(***************************************************************************)
EXTENDS Suggestions, FiniteSetTheorems, WellFoundedInduction, TLAPS

\* A set of numbers has a least one.
LEMMA Minimum ==
  ASSUME NEW U \in SUBSET Nat, U # {}
  PROVE  \E m \in U : \A k \in U : m <= k
<1>1. PICK m \in U : \A k \in U : ~ (<<k, m>> \in OpToRel(<, Nat))
  BY WFMin, NatLessThanWellFounded
<1>2. \A k \in U : ~(k < m)
  BY <1>1 DEF OpToRel
<1> QED BY <1>2

LEMMA Induction ==
  ASSUME NEW S, NEW n \in Nat, 0 \in S, \A k \in 0..n - 1 : k \in S => k + 1 \in S
  PROVE  \A k \in 0..n : k \in S
<1> DEFINE U == {k \in 0..n : k \notin S}
<1> SUFFICES ASSUME U # {} PROVE FALSE
  OBVIOUS
<1>1. U \in SUBSET Nat
  OBVIOUS
<1>2. PICK m \in U : \A k \in U : m <= k
  BY <1>1, Minimum
<1>3. m \in 1..n /\ m \notin S
  BY <1>2
<1>4. m - 1 \in 0..n - 1 /\ m - 1 \in S
  BY <1>2, <1>3
<1> QED
  BY <1>3, <1>4

-----------------------------------------------------------------------------
(* Replay: the documents a log goes through.                               *)

\* f is the first n documents of a log.
Goes(f, n, records) ==
  f = [i \in 0..n |-> IF i = 0 THEN Fresh ELSE ApplyRecord(f[i-1], records[i])]

States(records) == CHOOSE f : Goes(f, Len(records), records)

LEMMA GoesOn ==
  ASSUME NEW records, NEW n \in Nat
  PROVE  \E f : Goes(f, n, records)
<1> DEFINE S == {k \in Nat : \E f : Goes(f, k, records)}
<1>1. 0 \in S
  <2> DEFINE f == [i \in 0..0 |-> Fresh]
  <2>1. Goes(f, 0, records)
    BY DEF Goes
  <2> QED
    BY <2>1
<1>2. ASSUME NEW k \in 0..n - 1, k \in S
      PROVE  k + 1 \in S
  <2>1. PICK f : Goes(f, k, records)
    BY <1>2
  <2> DEFINE g == [i \in 0..k + 1 |-> IF i = k + 1 THEN ApplyRecord(f[k], records[k + 1]) ELSE f[i]]
  <2>2. ASSUME NEW i \in 0..k + 1
        PROVE  g[i] = IF i = 0 THEN Fresh ELSE ApplyRecord(g[i-1], records[i])
    <3>1. CASE i = k + 1
      BY <3>1
    <3>2. CASE i \in 0..k
      <4>1. f[i] = IF i = 0 THEN Fresh ELSE ApplyRecord(f[i-1], records[i])
        BY <2>1, <3>2 DEF Goes
      <4>2. g[i] = f[i] /\ (i # 0 => g[i-1] = f[i-1])
        BY <3>2
      <4> QED
        BY <4>1, <4>2
    <3> QED
      BY <3>1, <3>2
  <2>3. Goes(g, k + 1, records)
    <3> DEFINE h == [i \in 0..k + 1 |-> IF i = 0 THEN Fresh ELSE ApplyRecord(g[i-1], records[i])]
    <3>1. \A i \in 0..k + 1 : g[i] = h[i]
      BY <2>2
    <3>2. g = h
      BY <3>1
    <3> QED
      BY <3>2 DEF Goes
  <2> QED
    BY <2>3
<1> HIDE DEF S
<1>3. n \in S
  BY <1>1, <1>2, Induction
<1> QED
  BY <1>3 DEF S

LEMMA StatesAre ==
  ASSUME NEW records, Len(records) \in Nat
  PROVE  /\ States(records)[0] = Fresh
         /\ \A i \in 1..Len(records) : States(records)[i] = ApplyRecord(States(records)[i-1], records[i])
         /\ Replay(records) = States(records)[Len(records)]
<1> DEFINE f == States(records)
<1>1. Goes(f, Len(records), records)
  BY GoesOn DEF States
<1>2. Replay(records) = f[Len(records)]
  BY DEF Replay, States, Goes
<1> HIDE DEF f
<1>3. f[0] = Fresh /\ \A i \in 1..Len(records) : f[i] = ApplyRecord(f[i-1], records[i])
  BY <1>1 DEF Goes
<1> QED
  BY <1>2, <1>3 DEF f

\* Logs that begin alike go through the same documents.
LEMMA StatesAgree ==
  ASSUME NEW a, NEW b, NEW n \in Nat, Len(a) \in Nat, Len(b) \in Nat, n <= Len(a), n <= Len(b),
         \A i \in 1..n : a[i] = b[i]
  PROVE  \A i \in 0..n : States(a)[i] = States(b)[i]
<1> DEFINE S == {i \in 0..n : States(a)[i] = States(b)[i]}
<1>1. 0 \in S
  BY StatesAre
<1>2. ASSUME NEW k \in 0..n - 1, k \in S
      PROVE  k + 1 \in S
  <2>1. /\ States(a)[k + 1] = ApplyRecord(States(a)[k], a[k + 1])
        /\ States(b)[k + 1] = ApplyRecord(States(b)[k], b[k + 1])
    <3>1. k + 1 \in 1..Len(a) /\ k + 1 \in 1..Len(b) /\ (k + 1) - 1 = k
      OBVIOUS
    <3> QED
      BY <3>1, StatesAre
  <2> QED
    BY <1>2, <2>1
<1> HIDE DEF S
<1>3. \A k \in 0..n : k \in S
  BY <1>1, <1>2, Induction
<1> QED
  BY <1>3 DEF S

-----------------------------------------------------------------------------
(* Selected: what the filter keeps.                                        *)

Keeps(f, n, s, S) ==
  f = [k \in 0..n |-> IF k = 0 THEN <<>> ELSE IF s[k] \in S THEN Append(f[k-1], s[k]) ELSE f[k-1]]

LEMMA KeepsOn ==
  ASSUME NEW s, NEW S, NEW n \in Nat
  PROVE  \E f : Keeps(f, n, s, S)
<1> DEFINE T == {k \in Nat : \E f : Keeps(f, k, s, S)}
           Next1(before, i) == IF s[i] \in S THEN Append(before, s[i]) ELSE before
<1>1. 0 \in T
  <2> DEFINE f == [i \in 0..0 |-> <<>>]
  <2>1. Keeps(f, 0, s, S)
    BY DEF Keeps
  <2> QED
    BY <2>1
<1>2. ASSUME NEW k \in 0..n - 1, k \in T
      PROVE  k + 1 \in T
  <2>1. PICK f : Keeps(f, k, s, S)
    BY <1>2
  <2> DEFINE g == [i \in 0..k + 1 |-> IF i = k + 1 THEN Next1(f[k], k + 1) ELSE f[i]]
  <2>2. ASSUME NEW i \in 0..k + 1
        PROVE  g[i] = IF i = 0 THEN <<>> ELSE Next1(g[i-1], i)
    <3>1. CASE i = k + 1
      BY <3>1
    <3>2. CASE i \in 0..k
      <4>1. f[i] = IF i = 0 THEN <<>> ELSE Next1(f[i-1], i)
        BY <2>1, <3>2 DEF Keeps
      <4>2. g[i] = f[i] /\ (i # 0 => g[i-1] = f[i-1])
        BY <3>2
      <4> QED
        BY <4>1, <4>2
    <3> QED
      BY <3>1, <3>2
  <2>3. Keeps(g, k + 1, s, S)
    <3> DEFINE h == [i \in 0..k + 1 |-> IF i = 0 THEN <<>> ELSE Next1(g[i-1], i)]
    <3>1. \A i \in 0..k + 1 : g[i] = h[i]
      BY <2>2
    <3>2. g = h
      BY <3>1
    <3> QED
      BY <3>2 DEF Keeps
  <2> QED
    BY <2>3
<1> HIDE DEF T
<1>3. n \in T
  BY <1>1, <1>2, Induction
<1> QED
  BY <1>3 DEF T

LEMMA SelectedIs ==
  ASSUME NEW s, NEW S, Len(s) \in Nat
  PROVE  \E f : /\ f[0] = <<>> /\ Selected(s, S) = f[Len(s)]
                /\ \A k \in 1..Len(s) : f[k] = IF s[k] \in S THEN Append(f[k-1], s[k]) ELSE f[k-1]
<1> DEFINE f == CHOOSE g : Keeps(g, Len(s), s, S)
<1>1. Keeps(f, Len(s), s, S)
  BY KeepsOn
<1>2. Selected(s, S) = f[Len(s)]
  BY DEF Selected, Keeps
<1> HIDE DEF f
<1> PICK n \in Nat : n = Len(s)
  OBVIOUS
<1>3. \A k \in 0..n : f[k] = IF k = 0 THEN <<>> ELSE IF s[k] \in S THEN Append(f[k-1], s[k]) ELSE f[k-1]
  BY <1>1 DEF Keeps
<1>4. f[0] = <<>>
  BY <1>3
<1>5. \A k \in 1..n : f[k] = IF s[k] \in S THEN Append(f[k-1], s[k]) ELSE f[k-1]
  BY <1>3
<1> QED
  BY <1>2, <1>4, <1>5

\* What is kept is a sequence of elements of the set, no longer than what there was, and
\* everything in the set keeps a place of its own.
Placed(g, kept, s, n, S) ==
  LET Of == {k \in 1..n : s[k] \in S}
  IN  /\ \A k \in Of : g[k] \in 1..Len(kept) /\ kept[g[k]] = s[k]
      /\ \A j, k \in Of : g[j] = g[k] => j = k

LEMMA SelectedKeeps ==
  ASSUME NEW s, NEW S, Len(s) \in Nat
  PROVE  /\ Selected(s, S) \in Seq(S) /\ Len(Selected(s, S)) <= Len(s)
         /\ \E g : Placed(g, Selected(s, S), s, Len(s), S)
<1>1. PICK f : /\ f[0] = <<>> /\ Selected(s, S) = f[Len(s)]
               /\ \A k \in 1..Len(s) : f[k] = IF s[k] \in S THEN Append(f[k-1], s[k]) ELSE f[k-1]
  BY SelectedIs
<1> DEFINE T == {n \in 0..Len(s) : f[n] \in Seq(S) /\ Len(f[n]) <= n /\ \E g : Placed(g, f[n], s, n, S)}
<1>2. 0 \in T
  <2>1. \E g : Placed(g, f[0], s, 0, S)
    BY DEF Placed
  <2>2. f[0] \in Seq(S) /\ Len(f[0]) <= 0 /\ 0 \in 0..Len(s)
    BY <1>1
  <2> QED
    BY <2>1, <2>2
<1>3. ASSUME NEW n \in 0..Len(s) - 1, n \in T
      PROVE  n + 1 \in T
  <2>1. f[n + 1] = IF s[n + 1] \in S THEN Append(f[n], s[n + 1]) ELSE f[n]
    <3>1. n + 1 \in 1..Len(s) /\ (n + 1) - 1 = n
      OBVIOUS
    <3> QED
      BY <1>1, <3>1
  <2>2. PICK g : Placed(g, f[n], s, n, S)
    BY <1>3
  <2>3. f[n] \in Seq(S) /\ Len(f[n]) <= n /\ Len(f[n]) \in Nat
    BY <1>3
  <2>4. CASE s[n + 1] \in S
    <3> DEFINE h == [k \in 1..n + 1 |-> IF k = n + 1 THEN Len(f[n]) + 1 ELSE g[k]]
               old == f[n]  new == f[n + 1]
    <3>1. new = Append(old, s[n + 1])
      BY <2>1, <2>4
    <3> HIDE DEF old, new
    <3>2. /\ new \in Seq(S) /\ Len(new) = Len(old) + 1 /\ new[Len(old) + 1] = s[n + 1]
          /\ \A i \in 1..Len(old) : new[i] = old[i]
      BY <2>3, <2>4, <3>1 DEF old
    <3>3. ASSUME NEW k \in 1..n + 1, s[k] \in S
          PROVE  h[k] \in 1..Len(new) /\ new[h[k]] = s[k]
      <4>1. CASE k = n + 1
        BY <2>3, <3>2, <4>1 DEF old
      <4>2. CASE k \in 1..n
        <5>1. h[k] = g[k] /\ g[k] \in 1..Len(old) /\ old[g[k]] = s[k]
          BY <2>2, <3>3, <4>2 DEF Placed, old
        <5> QED
          BY <2>3, <3>2, <5>1 DEF old
      <4> QED
        BY <4>1, <4>2
    <3>4. ASSUME NEW j \in 1..n + 1, NEW k \in 1..n + 1, s[j] \in S, s[k] \in S, h[j] = h[k]
          PROVE  j = k
      BY <2>2, <2>3, <3>4 DEF Placed
    <3>5. Placed(h, new, s, n + 1, S)
      <4> HIDE DEF h
      <4> QED
        BY <3>3, <3>4 DEF Placed
    <3>6. Len(new) <= n + 1
      BY <2>3, <3>2 DEF old
    <3> QED
      BY <3>2, <3>5, <3>6 DEF new
  <2>5. CASE s[n + 1] \notin S
    <3>1. Placed(g, f[n], s, n + 1, S)
      BY <2>2, <2>5 DEF Placed
    <3> QED
      BY <2>1, <2>3, <2>5, <3>1
  <2> QED
    BY <2>4, <2>5
<1> HIDE DEF T
<1>4. \A n \in 0..Len(s) : n \in T
  BY <1>2, <1>3, Induction
<1> QED
  BY <1>1, <1>4 DEF T

-----------------------------------------------------------------------------
(* What a log says of its suggestions.                                     *)

IsSeq(s) == \E S : s \in Seq(S)

Fields(s) ==
  s = [run |-> s.run, agent |-> s.agent, start |-> s.start, end |-> s.end, placement |-> s.placement,
       original |-> s.original, text |-> s.text, status |-> s.status]

DocOK(d) ==
  /\ d = [text |-> d.text, attr |-> d.attr, ops |-> d.ops, sugs |-> d.sugs]
  /\ IsSeq(d.ops)
  /\ IsSeq(d.sugs) /\ \A i \in DOMAIN d.sugs : Fields(d.sugs[i])

\* A record that may follow a document: what it decides is open.
RecordOK(d, r) ==
  \/ r.k = "op" /\ (r.accepts = 0 \/ (r.accepts \in DOMAIN d.sugs /\ Open(d.sugs[r.accepts])))
  \/ r.k = "sug" /\ Fields(r.s) /\ Open(r.s)
  \/ r.k = "res" /\ r.sid \in DOMAIN d.sugs /\ Open(d.sugs[r.sid]) /\ r.action \in {"dismissed", "rejected"}

\* Suggestions stay, those of their runs, and settled ones as they were settled.
Later(d, e) ==
  \A i \in DOMAIN d.sugs :
    /\ i \in DOMAIN e.sugs /\ e.sugs[i].run = d.sugs[i].run
    /\ ~Open(d.sugs[i]) => e.sugs[i].status = d.sugs[i].status

LEMMA AppendIsSeq ==
  ASSUME NEW s, IsSeq(s), NEW x
  PROVE  IsSeq(Append(s, x))
<1>1. PICK S : s \in Seq(S)
  BY DEF IsSeq
<1>2. Append(s, x) \in Seq(S \cup {x})
  BY <1>1
<1> QED
  BY <1>2 DEF IsSeq

LEMMA RecordGoesOn ==
  ASSUME NEW d, NEW r, DocOK(d), RecordOK(d, r)
  PROVE  /\ DocOK(ApplyRecord(d, r)) /\ Later(d, ApplyRecord(d, r))
         /\ \A i : i # 0 /\ Decides(r, i) => /\ i \in DOMAIN d.sugs /\ Open(d.sugs[i])
                                             /\ ~Open(ApplyRecord(d, r).sugs[i])
<1> DEFINE e == ApplyRecord(d, r)
<1>1. PICK S : d.sugs \in Seq(S)
  BY DEF DocOK, IsSeq
<1>2. PICK n \in Nat : n = Len(d.sugs) /\ DOMAIN d.sugs = 1..n
  BY <1>1
<1>3. CASE r.k = "op"
  <2> DEFINE New(i) == IF i = r.accepts THEN [d.sugs[i] EXCEPT !.status = "accepted"] ELSE Moved(d.sugs[i], r.op)
  <2>1. e = [text |-> Apply(r.op, d.text), attr |-> Authors(r.op, d.attr, r.by), ops |-> Append(d.ops, r.op),
             sugs |-> [i \in DOMAIN d.sugs |-> New(i)]]
    BY <1>3 DEF ApplyRecord
  <2>2. ASSUME NEW i \in DOMAIN d.sugs
        PROVE  /\ Fields(New(i)) /\ New(i).run = d.sugs[i].run
               /\ i = r.accepts => New(i).status = "accepted"
               /\ i # r.accepts /\ ~Open(d.sugs[i]) => New(i) = d.sugs[i]
    <3>1. Fields(d.sugs[i])
      BY DEF DocOK
    <3>2. CASE i = r.accepts
      BY <3>1, <3>2 DEF Fields
    <3>3. CASE i # r.accepts
      <4> DEFINE m == MapRange(r.op, d.sugs[i].start, d.sugs[i].end)
                 moved == [d.sugs[i] EXCEPT !.start = m[1], !.end = m[2], !.status = IF m[3] THEN "stale" ELSE @]
      <4>1. New(i) = IF ~Open(d.sugs[i]) THEN d.sugs[i] ELSE moved
        BY <3>3 DEF Moved
      <4> PICK s : s = d.sugs[i] /\ Fields(s)
        BY <3>1
      <4> PICK status : status = IF m[3] THEN "stale" ELSE s.status
        OBVIOUS
      <4> HIDE DEF m
      <4>2. moved = [s EXCEPT !.start = m[1], !.end = m[2], !.status = status]
        OBVIOUS
      <4> HIDE DEF moved
      <4> PICK a, b : a = m[1] /\ b = m[2]
        OBVIOUS
      <4>3. moved = [run |-> s.run, agent |-> s.agent, start |-> a, end |-> b, placement |-> s.placement,
                     original |-> s.original, text |-> s.text, status |-> status]
        BY <4>2 DEF Fields
      <4>4. Fields(moved) /\ moved.run = d.sugs[i].run
        BY <4>3 DEF Fields
      <4> HIDE DEF New
      <4> QED
        BY <3>1, <3>3, <4>1, <4>4
    <3> HIDE DEF New
    <3> QED
      BY <3>2, <3>3
  <2> HIDE DEF New
  <2>3. e.sugs = [i \in 1..n |-> New(i)]
    BY <1>2, <2>1
  <2>4. IsSeq(e.sugs)
    <3>1. e.sugs \in Seq({New(i) : i \in 1..n})
      BY <2>3
    <3> QED
      BY <3>1 DEF IsSeq
  <2>5. DocOK(e)
    <3>1. IsSeq(Append(d.ops, r.op))
      BY AppendIsSeq DEF DocOK
    <3> QED
      BY <1>2, <2>1, <2>2, <2>3, <2>4, <3>1 DEF DocOK
  <2>6. r.accepts # 0 => Open(d.sugs[r.accepts]) /\ r.accepts \in DOMAIN d.sugs
    BY <1>3 DEF RecordOK
  <2>7. Later(d, e)
    <3> SUFFICES ASSUME NEW i \in DOMAIN d.sugs
                 PROVE  /\ i \in DOMAIN e.sugs /\ e.sugs[i].run = d.sugs[i].run
                        /\ ~Open(d.sugs[i]) => e.sugs[i].status = d.sugs[i].status
      BY DEF Later
    <3>1. i \in DOMAIN e.sugs /\ e.sugs[i] = New(i) /\ i # 0
      BY <1>2, <2>3
    <3> QED
      BY <2>2, <2>6, <3>1
  <2>8. ASSUME NEW i, i # 0, Decides(r, i)
        PROVE  i \in DOMAIN d.sugs /\ Open(d.sugs[i]) /\ ~Open(e.sugs[i])
    <3>1. i = r.accepts
      BY <1>3, <2>8 DEF Decides
    <3>2. i \in DOMAIN d.sugs /\ Open(d.sugs[i])
      BY <2>6, <2>8, <3>1
    <3>3. e.sugs[i].status = "accepted"
      BY <1>2, <2>2, <2>3, <3>1, <3>2
    <3> QED
      BY <3>2, <3>3 DEF Open
  <2> QED
    BY <2>5, <2>7, <2>8
<1>4. CASE r.k = "sug"
  <2>1. e = [d EXCEPT !.sugs = Append(@, r.s)]
    BY <1>4 DEF ApplyRecord
  <2>2. e = [text |-> d.text, attr |-> d.attr, ops |-> d.ops, sugs |-> Append(d.sugs, r.s)]
    BY <2>1 DEF DocOK
  <2>3. Fields(r.s)
    BY <1>4 DEF RecordOK
  <2>4. /\ Append(d.sugs, r.s) \in Seq(S \cup {r.s}) /\ DOMAIN d.sugs \subseteq DOMAIN Append(d.sugs, r.s)
        /\ \A i \in DOMAIN d.sugs : Append(d.sugs, r.s)[i] = d.sugs[i]
        /\ \A i \in DOMAIN Append(d.sugs, r.s) \ DOMAIN d.sugs : Append(d.sugs, r.s)[i] = r.s
    BY <1>1
  <2>5. DocOK(e)
    BY <2>2, <2>3, <2>4 DEF DocOK, IsSeq
  <2>6. Later(d, e)
    BY <2>2, <2>4 DEF Later
  <2>7. \A i : ~Decides(r, i)
    BY <1>4 DEF Decides
  <2> QED
    BY <2>5, <2>6, <2>7
<1>5. CASE r.k = "res"
  <2>1. PICK sid : sid = r.sid /\ sid \in DOMAIN d.sugs /\ Open(d.sugs[sid])
    BY <1>5 DEF RecordOK
  <2>2. e = [d EXCEPT !.sugs[sid].status = r.action]
    BY <1>5, <2>1 DEF ApplyRecord
  <2> DEFINE new == [d.sugs[sid] EXCEPT !.status = r.action]
  <2>3. e = [text |-> d.text, attr |-> d.attr, ops |-> d.ops, sugs |-> [d.sugs EXCEPT ![sid] = new]]
    BY <2>2 DEF DocOK
  <2>4. Fields(new) /\ new.run = d.sugs[sid].run /\ new.status = r.action
    BY <2>1 DEF DocOK, Fields
  <2> HIDE DEF new
  <2>5. /\ e.sugs \in Seq(S \cup {new}) /\ DOMAIN e.sugs = DOMAIN d.sugs /\ e.sugs[sid] = new
        /\ \A i \in DOMAIN d.sugs : i # sid => e.sugs[i] = d.sugs[i]
    BY <1>1, <2>1, <2>3
  <2>6. DocOK(e)
    BY <2>3, <2>4, <2>5 DEF DocOK, IsSeq
  <2>7. Later(d, e)
    BY <2>1, <2>4, <2>5 DEF Later
  <2>8. \A i : Decides(r, i) => i = sid
    BY <1>5, <2>1 DEF Decides
  <2>9. ~Open(e.sugs[sid])
    BY <1>5, <2>4, <2>5 DEF Open, RecordOK
  <2> QED
    BY <2>1, <2>6, <2>7, <2>8, <2>9
<1> QED
  BY <1>3, <1>4, <1>5 DEF RecordOK

LogOK(records) ==
  IsSeq(records) /\ \A i \in DOMAIN records : RecordOK(States(records)[i-1], records[i])

LEMMA Seqs ==
  ASSUME NEW s, IsSeq(s)
  PROVE  Len(s) \in Nat /\ DOMAIN s = 1..Len(s)
BY DEF IsSeq

LEMMA LogStates ==
  ASSUME NEW records, LogOK(records)
  PROVE  /\ \A i \in 0..Len(records) : DocOK(States(records)[i])
         /\ \A i \in 1..Len(records) : /\ States(records)[i] = ApplyRecord(States(records)[i-1], records[i])
                                       /\ RecordOK(States(records)[i-1], records[i])
<1>1. Len(records) \in Nat /\ DOMAIN records = 1..Len(records)
  BY Seqs DEF LogOK
<1>2. \A i \in 1..Len(records) : /\ States(records)[i] = ApplyRecord(States(records)[i-1], records[i])
                                 /\ RecordOK(States(records)[i-1], records[i])
  BY <1>1, StatesAre DEF LogOK
<1> DEFINE S == {i \in 0..Len(records) : DocOK(States(records)[i])}
<1>3. 0 \in S
  <2>1. DocOK(Fresh)
    BY DEF DocOK, Fresh, IsSeq
  <2> QED
    BY <1>1, <2>1, StatesAre
<1>4. ASSUME NEW k \in 0..Len(records) - 1, k \in S
      PROVE  k + 1 \in S
  <2>1. k + 1 \in 1..Len(records) /\ (k + 1) - 1 = k
    BY <1>1
  <2>2. States(records)[k + 1] = ApplyRecord(States(records)[k], records[k + 1])
        /\ RecordOK(States(records)[k], records[k + 1])
    BY <1>2, <2>1
  <2> QED
    BY <1>1, <1>4, <2>2, RecordGoesOn
<1> HIDE DEF S
<1>5. \A i \in 0..Len(records) : i \in S
  BY <1>1, <1>3, <1>4, Induction
<1> QED
  BY <1>2, <1>5 DEF S

LEMMA LaterOn ==
  ASSUME NEW c, NEW d, NEW e, Later(c, d), Later(d, e)
  PROVE  Later(c, e)
BY DEF Later, Open

LEMMA LogLater ==
  ASSUME NEW records, LogOK(records), NEW m \in 0..Len(records), NEW n \in m..Len(records)
  PROVE  Later(States(records)[m], States(records)[n])
<1>1. Len(records) \in Nat
  BY Seqs DEF LogOK
<1> DEFINE S == {k \in 0..n - m : Later(States(records)[m], States(records)[m + k])}
<1>2. 0 \in S
  BY <1>1 DEF Later
<1>3. ASSUME NEW k \in 0..(n - m) - 1, k \in S
      PROVE  k + 1 \in S
  <2>1. m + (k + 1) \in 1..Len(records) /\ m + (k + 1) - 1 = m + k /\ m + k \in 0..Len(records) /\ k + 1 \in 0..n - m
    BY <1>1
  <2>2. Later(States(records)[m + k], States(records)[m + (k + 1)])
    BY <2>1, LogStates, RecordGoesOn
  <2> QED
    BY <1>3, <2>1, <2>2, LaterOn
<1> HIDE DEF S
<1>4. n - m \in Nat
  BY <1>1
<1>5. \A k \in 0..n - m : k \in S
  BY <1>2, <1>3, <1>4, Induction
<1>6. n - m \in S /\ m + (n - m) = n
  BY <1>1, <1>4, <1>5
<1> QED
  BY <1>6 DEF S

\* No two records of a log decide on one suggestion.
LEMMA LogSettles ==
  ASSUME NEW records, LogOK(records), NEW i, i # 0, NEW m \in DOMAIN records, NEW n \in DOMAIN records,
         Decides(records[m], i), Decides(records[n], i)
  PROVE  m = n
<1>1. Len(records) \in Nat /\ DOMAIN records = 1..Len(records)
  BY Seqs DEF LogOK
<1>2. ASSUME NEW a \in 1..Len(records), NEW b \in 1..Len(records), a < b,
             Decides(records[a], i), Decides(records[b], i)
      PROVE  FALSE
  <2>1. a \in 0..Len(records) /\ b - 1 \in a..Len(records) /\ a - 1 \in 0..Len(records) /\ b - 1 \in 0..Len(records)
    BY <1>1, <1>2
  <2>2. i \in DOMAIN States(records)[a-1].sugs /\ ~Open(States(records)[a].sugs[i])
    BY <1>2, <2>1, LogStates, RecordGoesOn
  <2>3. i \in DOMAIN States(records)[a].sugs
    BY <2>1, <2>2, LogStates, RecordGoesOn DEF Later
  <2>4. Open(States(records)[b-1].sugs[i])
    BY <1>2, <2>1, LogStates, RecordGoesOn
  <2>5. Later(States(records)[a], States(records)[b-1])
    BY <2>1, LogLater
  <2> QED
    BY <2>2, <2>3, <2>4, <2>5 DEF Later, Open
<1>3. m \in 1..Len(records) /\ n \in 1..Len(records)
  BY <1>1
<1>4. ~(m < n) /\ ~(n < m)
  BY <1>2, <1>3
<1> QED
  BY <1>1, <1>3, <1>4

LEMMA LogPrefix ==
  ASSUME NEW records, LogOK(records), NEW n \in 0..Len(records)
  PROVE  /\ LogOK(SubSeq(records, 1, n)) /\ Len(SubSeq(records, 1, n)) = n
         /\ \A i \in 0..n : States(SubSeq(records, 1, n))[i] = States(records)[i]
         /\ Replay(SubSeq(records, 1, n)) = States(records)[n]
<1> DEFINE p == SubSeq(records, 1, n)
<1>1. PICK S : records \in Seq(S)
  BY DEF LogOK, IsSeq
<1>2. p \in Seq(S) /\ Len(p) = n /\ \A i \in 1..n : p[i] = records[i]
  BY <1>1
<1>3. Len(records) \in Nat /\ n \in Nat /\ n <= Len(records) /\ DOMAIN p = 1..n
  BY <1>1, <1>2
<1> HIDE DEF p
<1>4. \A i \in 0..n : States(p)[i] = States(records)[i]
  <2>1. Len(p) \in Nat /\ n <= Len(p) /\ \A i \in 1..n : p[i] = records[i]
    BY <1>2, <1>3
  <2> QED
    BY ONLY <1>3, <2>1, StatesAgree
<1>5. Replay(p) = States(records)[n]
  BY <1>2, <1>3, <1>4, StatesAre
<1>6. ASSUME NEW i \in 1..n
      PROVE  RecordOK(States(p)[i-1], p[i])
  <2>1. i - 1 \in 0..n /\ i \in 1..Len(records)
    BY <1>3
  <2> QED
    BY <1>2, <1>4, <2>1, LogStates
<1>7. LogOK(p)
  BY <1>2, <1>3, <1>6 DEF LogOK, IsSeq
<1> QED
  BY <1>2, <1>4, <1>5, <1>7 DEF p

LEMMA LogAppend ==
  ASSUME NEW records, LogOK(records), NEW r, RecordOK(Replay(records), r)
  PROVE  /\ LogOK(Append(records, r)) /\ Len(Append(records, r)) = Len(records) + 1
         /\ \A i \in 0..Len(records) : States(Append(records, r))[i] = States(records)[i]
         /\ Replay(Append(records, r)) = ApplyRecord(Replay(records), r)
<1> DEFINE a == Append(records, r)  n == Len(records)
<1>1. PICK S : records \in Seq(S)
  BY DEF LogOK, IsSeq
<1>2. a \in Seq(S \cup {r}) /\ Len(a) = n + 1 /\ a[n + 1] = r /\ n \in Nat /\ \A i \in 1..n : a[i] = records[i]
  <2>1. records \in Seq(S \cup {r}) /\ r \in S \cup {r} /\ n \in Nat
    BY <1>1
  <2>2. a \in Seq(S \cup {r}) /\ Len(a) = n + 1
    BY <2>1
  <2>3. a[n + 1] = r /\ \A i \in 1..n : a[i] = records[i]
    BY <2>1
  <2> QED
    BY <2>1, <2>2, <2>3
<1> HIDE DEF a
<1>3. \A i \in 0..n : States(a)[i] = States(records)[i]
  BY <1>2, StatesAgree
<1>4. DOMAIN a = 1..n + 1
  BY <1>2
<1>5. Replay(records) = States(records)[n]
  BY <1>2, StatesAre
<1>6. ASSUME NEW i \in 1..n + 1
      PROVE  RecordOK(States(a)[i-1], a[i])
  <2>1. i - 1 \in 0..n
    BY <1>2
  <2>2. CASE i = n + 1
    BY <1>2, <1>3, <1>5, <2>1, <2>2
  <2>3. CASE i \in 1..n
    BY <1>2, <1>3, <2>1, <2>3, LogStates
  <2> QED
    BY <2>2, <2>3
<1>7. LogOK(a)
  BY <1>2, <1>4, <1>6 DEF LogOK, IsSeq
<1>8. Replay(a) = ApplyRecord(Replay(records), r)
  <2>1. n + 1 \in 1..Len(a) /\ (n + 1) - 1 = n /\ Len(a) \in Nat /\ n \in 0..n
    BY <1>2
  <2>2. Replay(a) = States(a)[n + 1] /\ States(a)[n + 1] = ApplyRecord(States(a)[n], a[n + 1])
    BY <1>2, <2>1, StatesAre
  <2> QED
    BY <1>2, <1>3, <1>5, <2>1, <2>2
<1> QED
  BY <1>2, <1>3, <1>7, <1>8 DEF a

-----------------------------------------------------------------------------
(* Decisions: the invariant and its steps.                                 *)

\* A message about a suggestion is true of a document: of that run, and settled that way.
Bears(d, m) ==
  m.t = "sug" => /\ m.id \in DOMAIN d.sugs /\ d.sugs[m.id].run = m.s.run
                 /\ ~Open(m.s) => d.sugs[m.id].status = m.s.status

OnDisk == States(log)[durable]

\* Memory is what the log says, what will be sent is true of it, and what was sent or
\* told is true of what is on disk.
DecInv ==
  /\ LogOK(log) /\ durable \in 0..Len(log)
  /\ doc = IF alive THEN Replay(log) ELSE Fresh
  /\ IsSeq(after) /\ \A k \in DOMAIN after : Bears(Replay(log), after[k])
  /\ IsSeq(wire) /\ \A k \in DOMAIN wire : Bears(OnDisk, wire[k])
  /\ \A t \in told : /\ t.id \in DOMAIN OnDisk.sugs /\ OnDisk.sugs[t.id].run = t.run
                     /\ t.status \notin {"pending", "stale"} => OnDisk.sugs[t.id].status = t.status

LEMMA BearsLater ==
  ASSUME NEW d, NEW e, Later(d, e), NEW m, Bears(d, m)
  PROVE  Bears(e, m)
BY DEF Later, Bears, Open

LEMMA LastState ==
  ASSUME LogOK(log)
  PROVE  /\ Len(log) \in Nat /\ Replay(log) = States(log)[Len(log)] /\ DocOK(Replay(log))
<1>1. Len(log) \in Nat
  BY Seqs DEF LogOK
<1>2. Len(log) \in 0..Len(log)
  BY <1>1
<1> QED
  BY <1>1, <1>2, StatesAre, LogStates

\* Messages about suggestions as a document has them, by their ids.
LEMMA SugMessagesBear ==
  ASSUME NEW d, NEW ids \in Seq(DOMAIN d.sugs)
  PROVE  IsSeq(SugMessages(d, ids)) /\ \A k \in DOMAIN SugMessages(d, ids) : Bears(d, SugMessages(d, ids)[k])
<1> DEFINE Message(k) == [t |-> "sug", id |-> ids[k], s |-> d.sugs[ids[k]]]
           n == Len(ids)
<1>1. n \in Nat /\ DOMAIN ids = 1..n /\ \A k \in 1..n : ids[k] \in DOMAIN d.sugs
  OBVIOUS
<1>2. SugMessages(d, ids) = [k \in 1..n |-> Message(k)]
  BY <1>1 DEF SugMessages
<1>3. \A k \in 1..n : Bears(d, Message(k))
  BY <1>1 DEF Bears
<1> HIDE DEF Message, n
<1>4. SugMessages(d, ids) \in Seq({Message(k) : k \in 1..n})
  BY <1>1, <1>2
<1> QED
  BY <1>2, <1>3, <1>4 DEF IsSeq

\* Sequences that follow one another.
LEMMA Behind ==
  ASSUME NEW s, NEW t, IsSeq(s), IsSeq(t), NEW d,
         \A k \in DOMAIN s : Bears(d, s[k]), \A k \in DOMAIN t : Bears(d, t[k])
  PROVE  IsSeq(s \o t) /\ \A k \in DOMAIN (s \o t) : Bears(d, (s \o t)[k])
<1>1. PICK S, T : s \in Seq(S) /\ t \in Seq(T)
  BY DEF IsSeq
<1>2. s \in Seq(S \cup T) /\ t \in Seq(S \cup T)
  BY <1>1
<1>3. s \o t \in Seq(S \cup T)
  BY <1>2
<1>4. ASSUME NEW k \in DOMAIN (s \o t)
      PROVE  (\E j \in DOMAIN s : (s \o t)[k] = s[j]) \/ \E j \in DOMAIN t : (s \o t)[k] = t[j]
  BY <1>2
<1> QED
  BY <1>3, <1>4 DEF IsSeq

\* The actor says something, after it committed a record or not.
LEMMA SaysInv ==
  ASSUME DecInv, alive, UNCHANGED <<durable, alive, wire, told>>,
         LogOK(log') /\ doc' = Replay(log'), Len(log) <= Len(log'),
         \A i \in 0..Len(log) : States(log')[i] = States(log)[i], Later(doc, doc'),
         NEW messages, IsSeq(messages), \A k \in DOMAIN messages : Bears(doc', messages[k]),
         after' = after \/ after' = after \o messages
  PROVE  DecInv'
<1>1. Len(log) \in Nat /\ Len(log') \in Nat
  BY Seqs DEF DecInv, LogOK
<1>2. durable \in 0..Len(log') /\ States(log')[durable] = OnDisk
  BY <1>1 DEF DecInv, OnDisk
<1>3. \A k \in DOMAIN after : Bears(doc', after[k])
  BY BearsLater DEF DecInv
<1>4. IsSeq(after') /\ \A k \in DOMAIN after' : Bears(doc', after'[k])
  BY <1>3, Behind DEF DecInv
<1> QED
  BY <1>2, <1>4 DEF DecInv, OnDisk

LEMMA CommitsInv ==
  ASSUME DecInv, alive, UNCHANGED <<durable, alive, wire, told>>,
         NEW r, RecordOK(doc, r), Commit(r),
         NEW messages, IsSeq(messages), \A k \in DOMAIN messages : Bears(doc', messages[k]), Tell(messages)
  PROVE  DecInv'
<1>1. doc = Replay(log) /\ LogOK(log)
  BY DEF DecInv
<1>2. log' = Append(log, r) /\ doc' = ApplyRecord(doc, r)
  BY DEF Commit
<1>3. /\ LogOK(log') /\ doc' = Replay(log') /\ Len(log') = Len(log) + 1
      /\ \A i \in 0..Len(log) : States(log')[i] = States(log)[i]
  BY <1>1, <1>2, LogAppend
<1>4. Later(doc, doc')
  BY <1>1, <1>2, LastState, RecordGoesOn
<1>5. Len(log) <= Len(log')
  BY <1>1, <1>3, LastState
<1>6. after' = after \/ after' = after \o messages
  BY DEF Tell
<1> QED
  BY <1>3, <1>4, <1>5, <1>6, SaysInv

LEMMA TellsInv ==
  ASSUME DecInv, alive, UNCHANGED <<durable, alive, wire, told, log, doc>>,
         NEW messages, IsSeq(messages), \A k \in DOMAIN messages : Bears(doc, messages[k]), Tell(messages)
  PROVE  DecInv'
<1>1. LogOK(log') /\ doc' = Replay(log') /\ Len(log) <= Len(log')
  BY LastState DEF DecInv
<1>2. Later(doc, doc')
  <2>1. doc' = doc
    OBVIOUS
  <2> QED
    BY <2>1 DEF Later
<1>3. after' = after \/ after' = after \o messages
  BY DEF Tell
<1> QED
  BY <1>1, <1>2, <1>3, SaysInv

LEMMA DecUnmoved ==
  ASSUME DecInv, UNCHANGED <<doc, log, durable, after, alive, wire, told>>
  PROVE  DecInv'
BY DEF DecInv, OnDisk

LEMMA ChangedAre ==
  ASSUME NEW d, NEW e, DocOK(e)
  PROVE  Changed(d, e) \in Seq(DOMAIN e.sugs)
<1> DEFINE ids == [i \in DOMAIN e.sugs |-> i]
           S == {i \in DOMAIN e.sugs : i \notin DOMAIN d.sugs \/ d.sugs[i].status # e.sugs[i].status}
<1>1. PICK n \in Nat : DOMAIN e.sugs = 1..n
  BY Seqs DEF DocOK
<1>2. Len(ids) \in Nat
  BY <1>1
<1>3. Changed(d, e) = Selected(ids, S)
  BY DEF Changed
<1>4. S \subseteq DOMAIN e.sugs
  OBVIOUS
<1> HIDE DEF ids, S
<1>5. Selected(ids, S) \in Seq(S)
  BY <1>2, SelectedKeeps
<1> QED
  BY <1>1, <1>3, <1>4, <1>5

LEMMA OneIsSeq ==
  ASSUME NEW S, NEW x \in S
  PROVE  <<x>> \in Seq(S) /\ DOMAIN <<x>> = {1} /\ <<x>>[1] = x
<1>1. Len(<<x>>) = 1 /\ <<x>>[1] = x
  OBVIOUS
<1>2. <<x>> \in Seq(S)
  OBVIOUS
<1> QED
  BY <1>1, <1>2

\* One message.
LEMMA Single ==
  ASSUME NEW d, NEW m, Bears(d, m)
  PROVE  IsSeq(<<m>>) /\ \A k \in DOMAIN <<m>> : Bears(d, <<m>>[k])
<1>1. m \in {m}
  OBVIOUS
<1>2. <<m>> \in Seq({m}) /\ DOMAIN <<m>> = {1} /\ <<m>>[1] = m
  BY <1>1, OneIsSeq
<1> QED
  BY <1>2 DEF IsSeq

LEMMA CommitOpInv ==
  ASSUME DecInv, alive, UNCHANGED <<durable, alive, wire, told>>,
         NEW r, r.k = "op", RecordOK(doc, r), CommitOp(r)
  PROVE  DecInv'
<1> DEFINE e == ApplyRecord(doc, r)  m == [t |-> "op", op |-> r.op]
           s == SugMessages(e, Changed(doc, e))
<1>1. Commit(r) /\ Tell(<<m>> \o s) /\ doc' = e
  BY DEF CommitOp, Commit
<1>2. DocOK(e)
  BY LastState, RecordGoesOn DEF DecInv
<1> HIDE DEF e
<1>3. IsSeq(s) /\ \A k \in DOMAIN s : Bears(e, s[k])
  BY <1>2, ChangedAre, SugMessagesBear
<1>4. Bears(e, m)
  BY DEF Bears
<1> HIDE DEF m, s
<1>5. IsSeq(<<m>> \o s) /\ \A k \in DOMAIN (<<m>> \o s) : Bears(e, (<<m>> \o s)[k])
  BY <1>3, <1>4, Single, Behind
<1> HIDE DEF CommitOp, Commit, Tell
<1>6. \A k \in DOMAIN (<<m>> \o s) : Bears(doc', (<<m>> \o s)[k])
  BY <1>1, <1>5
<1> QED
  BY <1>1, <1>5, <1>6, CommitsInv

LEMMA EditInv ==
  ASSUME DecInv, NEW start, NEW end, NEW text, Edit(start, end, text)
  PROVE  DecInv'
<1>1. PICK op : CommitOp([k |-> "op", op |-> op, by |-> Person, accepts |-> 0])
  BY DEF Edit
<1>2. alive /\ UNCHANGED <<durable, alive, wire, told>>
  BY DEF Edit, viewer
<1> DEFINE r == [k |-> "op", op |-> op, by |-> Person, accepts |-> 0]
<1>3. r.k = "op" /\ RecordOK(doc, r)
  BY DEF RecordOK
<1> HIDE DEF r
<1>4. CommitOp(r)
  BY <1>1 DEF r
<1> QED
  BY <1>2, <1>3, <1>4, CommitOpInv

LEMMA OneSugMessage ==
  ASSUME NEW d, NEW i \in DOMAIN d.sugs
  PROVE  /\ IsSeq(SugMessages(d, <<i>>))
         /\ \A k \in DOMAIN SugMessages(d, <<i>>) : Bears(d, SugMessages(d, <<i>>)[k])
<1>1. <<i>> \in Seq(DOMAIN d.sugs)
  BY OneIsSeq
<1> QED
  BY <1>1, SugMessagesBear

LEMMA AcceptInv ==
  ASSUME DecInv, alive, UNCHANGED <<durable, alive, wire, told>>, NEW i \in DOMAIN doc.sugs, Accept(i)
  PROVE  DecInv'
<1>1. CASE ~CanAccept(doc.sugs[i])
  <2>1. Tell(SugMessages(doc, <<i>>)) /\ UNCHANGED <<log, doc>>
    BY <1>1 DEF Accept
  <2> DEFINE ms == SugMessages(doc, <<i>>)
  <2>2. IsSeq(ms) /\ \A k \in DOMAIN ms : Bears(doc, ms[k])
    BY OneSugMessage
  <2>3. Tell(ms)
    BY <2>1
  <2> HIDE DEF ms
  <2> QED
    BY <2>1, <2>2, <2>3, TellsInv
<1>2. CASE UNCHANGED <<doc, log, shown, after>>
  BY <1>2, DecUnmoved
<1>3. ASSUME CanAccept(doc.sugs[i]), NEW op, NEW by,
             CommitOp([k |-> "op", op |-> op, by |-> by, accepts |-> i])
      PROVE  DecInv'
  <2> DEFINE r == [k |-> "op", op |-> op, by |-> by, accepts |-> i]
  <2>1. r.k = "op" /\ RecordOK(doc, r)
    BY <1>3 DEF RecordOK, CanAccept, Open
  <2> HIDE DEF r
  <2>2. CommitOp(r)
    BY <1>3 DEF r
  <2> QED
    BY <2>1, <2>2, CommitOpInv
<1> QED
  BY <1>1, <1>2, <1>3 DEF Accept

LEMMA RefuseInv ==
  ASSUME DecInv, alive, UNCHANGED <<durable, alive, wire, told>>, NEW i \in DOMAIN doc.sugs, Refuse(i)
  PROVE  DecInv'
<1>1. CASE Open(doc.sugs[i])
  <2> PICK action \in {"dismissed", "rejected"} :
        action = IF doc.sugs[i].status = "stale" THEN "dismissed" ELSE "rejected"
    OBVIOUS
  <2> DEFINE r == [k |-> "res", sid |-> i, action |-> action]  e == ApplyRecord(doc, r)
             ms == SugMessages(e, <<i>>)
  <2>1. Commit(r) /\ Tell(ms)
    BY <1>1 DEF Refuse
  <2>2. RecordOK(doc, r)
    BY <1>1 DEF RecordOK
  <2> HIDE DEF r
  <2>3. doc' = e
    BY <2>1 DEF Commit
  <2>4. i \in DOMAIN e.sugs
    BY <2>2, LastState, RecordGoesOn DEF DecInv, Later
  <2> HIDE DEF e
  <2>5. IsSeq(ms) /\ \A k \in DOMAIN ms : Bears(e, ms[k])
    BY <2>4, OneSugMessage
  <2> HIDE DEF ms
  <2>6. \A k \in DOMAIN ms : Bears(doc', ms[k])
    BY <2>3, <2>5
  <2> QED
    BY <2>1, <2>2, <2>5, <2>6, CommitsInv
<1>2. CASE ~Open(doc.sugs[i])
  BY <1>2, DecUnmoved DEF Refuse
<1> QED
  BY <1>1, <1>2

LEMMA ResolveInv ==
  ASSUME DecInv, NEW i, HandleResolve(i)
  PROVE  DecInv'
<1>1. alive /\ UNCHANGED <<durable, alive, wire, told>>
  BY DEF HandleResolve, viewer
<1>2. CASE i \in DOMAIN doc.sugs
  BY <1>1, <1>2, AcceptInv, RefuseInv DEF HandleResolve
<1>3. CASE i \notin DOMAIN doc.sugs
  BY <1>1, <1>3, DecUnmoved DEF HandleResolve
<1> QED
  BY <1>2, <1>3

LEMMA ReadInv ==
  ASSUME DecInv, NEW i, BeginRead(i)
  PROVE  DecInv'
<1>1. alive /\ UNCHANGED <<durable, alive, wire, told, log, doc>>
  BY DEF BeginRead, Asks, viewer
<1>2. (\E agents : Tell(<<Presence(agents)>>)) \/ UNCHANGED after
  BY DEF BeginRead
<1>3. ASSUME NEW agents, Tell(<<Presence(agents)>>)
      PROVE  DecInv'
  <2> PICK m : m = Presence(agents)
    OBVIOUS
  <2>1. Bears(doc, m)
    BY DEF Bears, Presence
  <2> QED
    BY <1>1, <1>3, <2>1, Single, TellsInv
<1> QED
  BY <1>1, <1>2, <1>3, DecUnmoved

LEMMA EndInv ==
  ASSUME DecInv, NEW i, EndRun(i)
  PROVE  DecInv'
<1>1. alive /\ UNCHANGED <<durable, alive, wire, told, log, doc>>
  BY DEF EndRun, Asks, viewer
<1>2. (\E agents : Tell(<<Presence(agents)>>)) \/ UNCHANGED after
  BY DEF EndRun
<1>3. ASSUME NEW agents, Tell(<<Presence(agents)>>)
      PROVE  DecInv'
  <2> PICK m : m = Presence(agents)
    OBVIOUS
  <2>1. Bears(doc, m)
    BY DEF Bears, Presence
  <2> QED
    BY <1>1, <1>3, <2>1, Single, TellsInv
<1> QED
  BY <1>1, <1>2, <1>3, DecUnmoved

LEMMA ProposeInv ==
  ASSUME DecInv, NEW i, Propose(i)
  PROVE  DecInv'
<1>1. alive /\ UNCHANGED <<durable, alive, wire, told>>
  BY DEF Propose, Asks, viewer
<1> DEFINE Suggestion(a, start, end, placement, original, text, status) ==
      [run |-> i, agent |-> a, start |-> start, end |-> end, placement |-> placement,
       original |-> original, text |-> text, status |-> status]
           Posts(a, start, end, placement, original, text, status) ==
      LET s == Suggestion(a, start, end, placement, original, text, status)
      IN  Commit([k |-> "sug", s |-> s]) /\ Tell(<<[t |-> "sug", id |-> Len(doc.sugs) + 1, s |-> s]>>)
<1>2. \/ UNCHANGED <<doc, log, after>>
      \/ \E a, start, end, placement, original, text : \E status \in {"stale", "pending"} :
           Posts(a, start, end, placement, original, text, status)
  <2> DEFINE m == MapRangeFrom(runs[i].rev, runs[i].start, runs[i].end)
  <2>1. Status(m[3]) \in {"stale", "pending"}
    BY DEF Status
  <2> QED
    BY <2>1 DEF Propose
<1>3. ASSUME NEW a, NEW start, NEW end, NEW placement, NEW original, NEW text, NEW status \in {"stale", "pending"},
             Posts(a, start, end, placement, original, text, status)
      PROVE  DecInv'
  <2> PICK s : s = Suggestion(a, start, end, placement, original, text, status)
    OBVIOUS
  <2>1. Fields(s) /\ Open(s)
    BY DEF Fields, Open
  <2> PICK id : id = Len(doc.sugs) + 1
    OBVIOUS
  <2> DEFINE r == [k |-> "sug", s |-> s]  m == [t |-> "sug", id |-> id, s |-> s]
  <2>2. Commit(r) /\ Tell(<<m>>)
    BY <1>3
  <2>3. RecordOK(doc, r)
    BY <2>1 DEF RecordOK
  <2>4. IsSeq(doc.sugs) /\ doc = [text |-> doc.text, attr |-> doc.attr, ops |-> doc.ops, sugs |-> doc.sugs]
    BY <1>1, LastState DEF DecInv, DocOK
  <2>5. doc'.sugs = Append(doc.sugs, s)
    BY <2>2, <2>4 DEF Commit, ApplyRecord
  <2>6. id \in DOMAIN doc'.sugs /\ doc'.sugs[id] = s
    BY <2>4, <2>5 DEF IsSeq
  <2>7. Bears(doc', m)
    BY <2>6 DEF Bears
  <2> HIDE DEF m, r
  <2> QED
    BY <1>1, <2>2, <2>3, <2>7, Single, CommitsInv
<1>4. CASE UNCHANGED <<doc, log, after>>
  BY <1>1, <1>4, DecUnmoved
<1> HIDE DEF Posts
<1> QED
  BY <1>2, <1>3, <1>4

LEMMA JoinInv ==
  ASSUME DecInv, Join
  PROVE  DecInv'
<1>1. alive /\ wire' = <<>> /\ UNCHANGED <<doc, log, durable, alive, told>>
  BY DEF Join
<1>2. PICK m : m = [t |-> "init", sugs |-> OpenOf(doc), agents |-> shown] /\ after' = <<m>>
  BY DEF Join
<1>3. Bears(Replay(log), m)
  BY <1>2 DEF Bears
<1>4. IsSeq(<<m>>) /\ \A k \in DOMAIN <<m>> : Bears(Replay(log), <<m>>[k])
  BY <1>3, Single
<1>5. IsSeq(<<>>) /\ DOMAIN <<>> = {}
  BY DEF IsSeq
<1> QED
  BY <1>1, <1>2, <1>4, <1>5 DEF DecInv, OnDisk

\* What is on disk after a batch or a failure, for those who were told of it before.
LEMMA DiskLater ==
  ASSUME DecInv, LogOK(log'), durable' \in 0..Len(log'), Later(OnDisk, OnDisk'), UNCHANGED told,
         doc' = IF alive' THEN Replay(log') ELSE Fresh, after' = <<>>,
         IsSeq(wire'), \A k \in DOMAIN wire' : Bears(OnDisk', wire'[k])
  PROVE  DecInv'
<1>1. IsSeq(after') /\ \A k \in DOMAIN after' : Bears(Replay(log'), after'[k])
  BY DEF IsSeq
<1>2. ASSUME NEW t \in told
      PROVE  /\ t.id \in DOMAIN OnDisk'.sugs /\ OnDisk'.sugs[t.id].run = t.run
             /\ t.status \notin {"pending", "stale"} => OnDisk'.sugs[t.id].status = t.status
  <2>1. /\ t.id \in DOMAIN OnDisk.sugs /\ OnDisk.sugs[t.id].run = t.run
        /\ t.status \notin {"pending", "stale"} => OnDisk.sugs[t.id].status = t.status
    BY DEF DecInv
  <2> QED
    BY <2>1 DEF Later, Open
<1> QED
  BY <1>1, <1>2 DEF DecInv

LEMMA FlushInv ==
  ASSUME DecInv, Flush
  PROVE  DecInv'
<1>1. /\ durable' = Len(log) /\ wire' = wire \o after /\ after' = <<>>
      /\ UNCHANGED <<doc, log, alive, told>>
  BY DEF Flush
<1>2. LogOK(log) /\ Len(log) \in Nat /\ durable \in 0..Len(log) /\ Replay(log) = States(log)[Len(log)]
  BY LastState DEF DecInv
<1>3. OnDisk' = Replay(log)
  BY <1>1, <1>2 DEF OnDisk
<1>4. Later(OnDisk, Replay(log))
  BY <1>2, LogLater DEF OnDisk
<1>5. \A k \in DOMAIN wire : Bears(Replay(log), wire[k])
  BY <1>4, BearsLater DEF DecInv
<1>6. IsSeq(wire \o after) /\ \A k \in DOMAIN (wire \o after) : Bears(Replay(log), (wire \o after)[k])
  BY <1>5, Behind DEF DecInv
<1>7. LogOK(log') /\ durable' \in 0..Len(log') /\ doc' = IF alive' THEN Replay(log') ELSE Fresh
  BY <1>1, <1>2 DEF DecInv
<1> QED
  BY <1>1, <1>3, <1>4, <1>6, <1>7, DiskLater

LEMMA GoneInv ==
  ASSUME DecInv, Gone
  PROVE  DecInv'
<1>1. PICK n \in durable..Len(log) : log' = SubSeq(log, 1, n) /\ durable' = n
  BY DEF Gone
<1>2. LogOK(log) /\ Len(log) \in Nat /\ durable \in 0..Len(log)
  BY LastState DEF DecInv
<1>3. n \in 0..Len(log) /\ n \in 0..n
  BY <1>2
<1>4. LogOK(log') /\ Len(log') = n /\ OnDisk' = States(log)[n]
  BY <1>1, <1>2, <1>3, LogPrefix DEF OnDisk
<1>5. Later(OnDisk, States(log)[n])
  BY <1>2, LogLater DEF OnDisk
<1>6. ~alive' /\ doc' = Fresh /\ after' = <<>> /\ wire' = <<>> /\ UNCHANGED told
  BY DEF Gone
<1>7. IsSeq(wire') /\ \A k \in DOMAIN wire' : Bears(OnDisk', wire'[k])
  BY <1>6 DEF IsSeq
<1>8. durable' \in 0..Len(log')
  BY <1>1, <1>3, <1>4
<1> QED
  BY <1>4, <1>5, <1>6, <1>7, <1>8, DiskLater

LEMMA ReceiveInv ==
  ASSUME DecInv, Receive
  PROVE  DecInv'
<1>1. wire # <<>> /\ wire' = Tail(wire) /\ UNCHANGED <<doc, log, durable, after, alive>>
  BY DEF Receive, session
<1>2. PICK m : m = Head(wire)
  OBVIOUS
<1>3. told' = told \cup IF m.t = "sug" THEN {[id |-> m.id, run |-> m.s.run, status |-> m.s.status]} ELSE {}
  BY <1>2 DEF Receive
<1>4. PICK S : wire \in Seq(S)
  BY DEF DecInv, IsSeq
<1>5. 1 \in DOMAIN wire /\ m = wire[1]
  BY <1>1, <1>2, <1>4
<1>6. Bears(OnDisk, m)
  BY <1>5 DEF DecInv
<1>7. wire' \in Seq(S) /\ \A k \in DOMAIN wire' : k + 1 \in DOMAIN wire /\ wire'[k] = wire[k + 1]
  BY <1>1, <1>4
<1>8. OnDisk' = OnDisk
  BY <1>1 DEF OnDisk
<1>9. IsSeq(wire') /\ \A k \in DOMAIN wire' : Bears(OnDisk, wire'[k])
  BY <1>7 DEF DecInv, IsSeq
<1>10. ASSUME NEW t \in told'
       PROVE  /\ t.id \in DOMAIN OnDisk.sugs /\ OnDisk.sugs[t.id].run = t.run
              /\ t.status \notin {"pending", "stale"} => OnDisk.sugs[t.id].status = t.status
  <2>1. CASE t \in told
    BY <2>1 DEF DecInv
  <2>2. CASE t \notin told
    <3>1. m.t = "sug" /\ t = [id |-> m.id, run |-> m.s.run, status |-> m.s.status]
      BY <1>3, <2>2
    <3>2. t.id = m.id /\ t.run = m.s.run /\ t.status = m.s.status
      BY <3>1
    <3> QED
      BY <1>6, <3>1, <3>2 DEF Bears, Open
  <2> QED
    BY <2>1, <2>2
<1> QED
  BY <1>1, <1>8, <1>9, <1>10 DEF DecInv

LEMMA ReopenInv ==
  ASSUME DecInv, Reopen
  PROVE  DecInv'
<1>1. alive' /\ doc' = Replay(log) /\ UNCHANGED <<log, durable, after, wire, told>>
  BY DEF Reopen, viewer
<1> QED
  BY <1>1 DEF DecInv, OnDisk

LEMMA DecInit ==
  ASSUME Init
  PROVE  DecInv
<1>1. PICK r : log = <<r>> /\ r.k = "op" /\ r.accepts = 0
  BY DEF Init, SeedLog
<1>2. r \in {r}
  OBVIOUS
<1>3. IsSeq(log) /\ Len(log) = 1 /\ DOMAIN log = {1} /\ log[1] = r
  BY <1>1, <1>2, OneIsSeq DEF IsSeq
<1>4. LogOK(log)
  BY <1>1, <1>3 DEF LogOK, RecordOK
<1>5. durable = Len(log) /\ doc = Replay(log) /\ alive /\ after = <<>> /\ wire = <<>> /\ told = {}
  BY DEF Init
<1>6. IsSeq(<<>>) /\ DOMAIN <<>> = {}
  BY DEF IsSeq
<1> QED
  BY <1>3, <1>4, <1>5, <1>6 DEF DecInv

LEMMA DecNext ==
  ASSUME DecInv, [Next]_vars
  PROVE  DecInv'
<1>1. CASE \E start, end \in 0..Len(doc.text), text \in Typing : Edit(start, end, text)
  BY <1>1, EditInv
<1>2. CASE Join \/ Flush \/ Reopen \/ Receive
  BY <1>2, JoinInv, FlushInv, ReopenInv, ReceiveInv
<1>3. CASE Fail \/ Crash
  BY <1>3, GoneInv DEF Fail, Crash
<1>4. CASE \E i \in DOMAIN view.sugs : HandleResolve(i)
  BY <1>4, ResolveInv
<1>5. ASSUME NEW i, BeginRead(i) \/ Propose(i) \/ EndRun(i)
      PROVE  DecInv'
  BY <1>5, ReadInv, ProposeInv, EndInv
<1>6. ASSUME UNCHANGED <<session, wire, told>>
      PROVE  DecInv'
  BY <1>6, DecUnmoved DEF session
<1>7. CASE Tick
  BY <1>6, <1>7 DEF Tick, viewer
<1>8. CASE \E rev \in 0..Rev, target \in budget.targets : Invoke(rev, target)
  BY <1>8, DecUnmoved DEF Invoke, viewer
<1>9. ASSUME NEW i, Think(i) \/ AskFails(i) \/ Release(i)
      PROVE  DecInv'
  BY <1>6, <1>9 DEF Think, AskFails, Release, viewer
<1>10. CASE UNCHANGED vars
  BY <1>6, <1>10 DEF vars, viewer
<1> QED
  BY <1>1, <1>2, <1>3, <1>4, <1>5, <1>7, <1>8, <1>9, <1>10 DEF Next

\* The log settles a suggestion once, whoever decided on views that lag, and what a viewer
\* was told is on disk: no failed append, no crash and no replay takes a decision back
\* (handleResolve, Flush's order of append and send, openSession).
THEOREM DecisionsStandHolds == Spec => []DecisionsStand
<1>1. Init => DecInv
  BY DecInit
<1>2. DecInv /\ [Next]_vars => DecInv'
  BY DecNext
<1>3. ASSUME DecInv
      PROVE  DecisionsStand
  <2>1. LogOK(log) /\ durable \in 0..Len(log) /\ DocOK(Replay(log))
    BY <1>3, LastState DEF DecInv
  <2>2. 0 \notin DOMAIN doc.sugs
    <3>1. CASE alive
      <4>1. IsSeq(doc.sugs)
        BY <1>3, <2>1, <3>1 DEF DecInv, DocOK
      <4> QED
        BY <4>1 DEF IsSeq
    <3>2. CASE ~alive
      BY <1>3, <3>2 DEF DecInv, Fresh
    <3> QED
      BY <3>1, <3>2
  <2>3. SettledOnce
    BY <2>1, <2>2, LogSettles DEF SettledOnce
  <2>4. Replay(SubSeq(log, 1, durable)) = OnDisk
    BY <2>1, LogPrefix DEF OnDisk
  <2>5. ToldIsDurable
    BY <1>3, <2>4 DEF ToldIsDurable, DecInv
  <2> QED
    BY <2>3, <2>5 DEF DecisionsStand
<1> QED
  BY <1>1, <1>2, <1>3, PTL DEF Spec
-----------------------------------------------------------------------------
(* The budget of agents.                                                   *)

Run(r) ==
  /\ r = [pc |-> r.pc, rev |-> r.rev, start |-> r.start, end |-> r.end, attempt |-> r.attempt,
          text |-> r.text, draft |-> r.draft, placement |-> r.placement,
          answered |-> r.answered, lost |-> r.lost, at |-> r.at]
  /\ r.answered \in BOOLEAN

\* A run waits for the answer it has coming: nothing else moves it.
RunsInv ==
  /\ IsSeq(runs) /\ IsSeq(replies) /\ Len(replies) = Len(runs)
  /\ \A i \in DOMAIN runs :
       /\ Run(runs[i]) /\ runs[i].at \in 0..now
       /\ replies[i] # NoReply =>
            /\ Run(replies[i]) /\ replies[i].pc # "over" /\ replies[i].at = runs[i].at
            /\ runs[i].pc \in {"reading", "proposing", "ending"} /\ ~runs[i].lost

Busy == {i \in DOMAIN runs : runs[i].pc # "over"}
Entry(i) == [run |-> i, at |-> runs[i].at]
InHour == {c \in charged : now - c.at < Hour}

\* Every charged run of the last hour has an entry of its own in started.
Slots(g) ==
  /\ \A c \in InHour : g[c] \in DOMAIN started /\ started[g[c]] = c.at
  /\ \A b, c \in InHour : g[b] = g[c] => b = c

\* Runs that are not over are counted and charged; the entries of the last hour are
\* enough for what is charged, and few enough.
BudgetInv ==
  /\ now \in Nat /\ running = Cardinality(Busy) /\ running <= Concurrent
  /\ IsSeq(started) /\ Len(started) <= PerHour
  /\ \A c \in charged : c.run \in DOMAIN runs /\ c = Entry(c.run)
  /\ \A i \in Busy : Entry(i) \in charged
  /\ misdated \in BOOLEAN /\ (~misdated => \E g : Slots(g))

LEMMA BusyIsFinite ==
  ASSUME RunsInv
  PROVE  IsFiniteSet(Busy) /\ Cardinality(Busy) \in Nat
<1>1. Len(runs) \in Nat /\ DOMAIN runs = 1..Len(runs)
  BY Seqs DEF RunsInv
<1>2. IsFiniteSet(1..Len(runs)) /\ Busy \in SUBSET (1..Len(runs))
  BY <1>1, FS_Interval DEF Busy
<1>3. IsFiniteSet(Busy)
  BY <1>2, FS_Subset
<1> QED
  BY <1>3, FS_CardinalityType

\* Runs go on, none of them becomes over, and nothing is acquired or released.
LEMMA BudgetSteady ==
  ASSUME RunsInv, BudgetInv, UNCHANGED <<limits, now>>, DOMAIN runs' = DOMAIN runs,
         \A i \in DOMAIN runs : runs'[i].at = runs[i].at /\ (runs'[i].pc = "over" <=> runs[i].pc = "over")
  PROVE  BudgetInv'
<1>1. UNCHANGED <<started, running, charged, misdated, now>>
  BY DEF limits
<1>2. Busy' = Busy
  BY DEF Busy
<1>3. \A i \in DOMAIN runs : Entry(i)' = Entry(i)
  BY DEF Entry
<1>4. ASSUME NEW c \in charged
      PROVE  c.run \in DOMAIN runs' /\ c = Entry(c.run)'
  BY <1>3 DEF BudgetInv, Entry
<1>5. \A i \in Busy : Entry(i)' \in charged
  BY <1>3 DEF BudgetInv, Busy
<1>6. ASSUME NEW g, Slots(g)
      PROVE  Slots(g)'
  BY <1>1, <1>6 DEF Slots, InHour
<1> QED
  BY <1>1, <1>2, <1>4, <1>5, <1>6 DEF BudgetInv

LEMMA AnswerInv ==
  ASSUME RunsInv, NEW i \in DOMAIN runs, NEW pc \in {"reading", "proposing", "ending"}, Asks(i, pc),
         NEW x, Answer(i, x), Run(x), x.pc # "over", x.at = runs[i].at, UNCHANGED <<runs, now>>
  PROVE  RunsInv'
<1>1. PICK S : replies \in Seq(S)
  BY DEF RunsInv, IsSeq
<1>2. DOMAIN runs = 1..Len(runs) /\ DOMAIN replies = DOMAIN runs /\ Len(runs) \in Nat
  BY <1>1, Seqs DEF RunsInv
<1>3. replies' = [replies EXCEPT ![i] = x]
  BY DEF Answer
<1>4. replies' \in Seq(S \cup {x}) /\ Len(replies') = Len(replies)
  BY <1>1, <1>2, <1>3
<1>5. replies'[i] = x /\ \A j \in DOMAIN runs : j # i => replies'[j] = replies[j]
  BY <1>2, <1>3
<1>6. ASSUME NEW j \in DOMAIN runs, replies'[j] # NoReply
      PROVE  /\ Run(replies'[j]) /\ replies'[j].pc # "over" /\ replies'[j].at = runs[j].at
             /\ runs[j].pc \in {"reading", "proposing", "ending"} /\ ~runs[j].lost
  <2>1. CASE j = i
    BY <1>5, <2>1 DEF Asks
  <2>2. CASE j # i
    BY <1>5, <1>6, <2>2 DEF RunsInv
  <2> QED
    BY <2>1, <2>2
<1>7. IsSeq(replies') /\ Len(replies') = Len(runs)
  BY <1>4 DEF IsSeq, RunsInv
<1> QED
  BY <1>6, <1>7 DEF RunsInv

\* A run goes on by itself.
LEMMA MovesInv ==
  ASSUME RunsInv, NEW i \in DOMAIN runs, replies[i] = NoReply, NEW x, Run(x), x.at = runs[i].at,
         runs' = [runs EXCEPT ![i] = x], UNCHANGED <<replies, now>>
  PROVE  RunsInv' /\ DOMAIN runs' = DOMAIN runs /\ runs'[i] = x /\ \A j \in DOMAIN runs : j # i => runs'[j] = runs[j]
<1>1. PICK S : runs \in Seq(S)
  BY DEF RunsInv, IsSeq
<1>2. runs' \in Seq(S \cup {x}) /\ Len(runs') = Len(runs)
  BY <1>1
<1>3. DOMAIN runs' = DOMAIN runs /\ runs'[i] = x /\ \A j \in DOMAIN runs : j # i => runs'[j] = runs[j]
  BY <1>1
<1>4. IsSeq(runs') /\ Len(replies') = Len(runs')
  BY <1>2 DEF IsSeq, RunsInv
<1>5. ASSUME NEW j \in DOMAIN runs
      PROVE  /\ Run(runs'[j]) /\ runs'[j].at \in 0..now
             /\ replies[j] # NoReply =>
                  /\ Run(replies[j]) /\ replies[j].pc # "over" /\ replies[j].at = runs'[j].at
                  /\ runs'[j].pc \in {"reading", "proposing", "ending"} /\ ~runs'[j].lost
  <2>1. CASE j = i
    BY <1>3, <2>1 DEF RunsInv
  <2>2. CASE j # i
    BY <1>3, <2>2 DEF RunsInv
  <2> QED
    BY <2>1, <2>2
<1> QED
  BY <1>3, <1>4, <1>5 DEF RunsInv

\* A run goes on by itself and is not over before or after.
LEMMA MovesOn ==
  ASSUME RunsInv, BudgetInv, NEW i \in DOMAIN runs, replies[i] = NoReply, NEW x, Run(x), x.at = runs[i].at,
         runs[i].pc # "over", x.pc # "over", runs' = [runs EXCEPT ![i] = x], UNCHANGED <<replies, limits, now>>
  PROVE  RunsInv' /\ BudgetInv'
<1>1. RunsInv' /\ DOMAIN runs' = DOMAIN runs /\ runs'[i] = x /\ \A j \in DOMAIN runs : j # i => runs'[j] = runs[j]
  BY MovesInv
<1>2. \A j \in DOMAIN runs : runs'[j].at = runs[j].at /\ (runs'[j].pc = "over" <=> runs[j].pc = "over")
  BY <1>1
<1> QED
  BY <1>1, <1>2, BudgetSteady

LEMMA RunsUnmoved ==
  ASSUME RunsInv, BudgetInv, UNCHANGED <<runs, replies, limits, now>>
  PROVE  RunsInv' /\ BudgetInv'
<1>1. RunsInv'
  BY DEF RunsInv
<1>2. DOMAIN runs' = DOMAIN runs
      /\ \A i \in DOMAIN runs : runs'[i].at = runs[i].at /\ (runs'[i].pc = "over" <=> runs[i].pc = "over")
  OBVIOUS
<1> QED
  BY <1>1, <1>2, BudgetSteady

\* A run that is at work, of the same start.
AtWork(x, run) == Run(x) /\ x.pc # "over" /\ x.at = run.at

LEMMA RunsWork ==
  ASSUME NEW run, Run(run), NEW pc \in {"thinking", "proposing", "reading", "ending", "ended"}
  PROVE  /\ AtWork([run EXCEPT !.pc = pc], run)
         /\ AtWork([run EXCEPT !.pc = pc, !.answered = TRUE], run)
         /\ \A draft, placement :
              AtWork([run EXCEPT !.pc = pc, !.answered = TRUE, !.draft = draft, !.placement = placement], run)
         /\ \A rev, start, end, text :
              AtWork([run EXCEPT !.pc = pc, !.rev = rev, !.start = start, !.end = end, !.text = text], run)
         /\ \A rev, start, end :
              AtWork([run EXCEPT !.pc = pc, !.rev = rev, !.start = start, !.end = end, !.attempt = @ + 1], run)
<1> DEFINE R(rev, start, end, attempt, text, draft, placement, answered) ==
      [pc |-> pc, rev |-> rev, start |-> start, end |-> end, attempt |-> attempt, text |-> text,
       draft |-> draft, placement |-> placement, answered |-> answered, lost |-> run.lost, at |-> run.at]
<1>1. run.answered \in BOOLEAN
  BY DEF Run
<1>2. \A rev, start, end, attempt, text, draft, placement : \A answered \in BOOLEAN :
        AtWork(R(rev, start, end, attempt, text, draft, placement, answered), run)
  BY DEF AtWork, Run
<1>3. ASSUME NEW x, x = [run EXCEPT !.pc = pc]
      PROVE  AtWork(x, run)
  <2>1. x = R(run.rev, run.start, run.end, run.attempt, run.text, run.draft, run.placement, run.answered)
    BY <1>1, <1>3 DEF Run
  <2> HIDE DEF R
  <2> QED
    BY <1>1, <1>2, <2>1
<1>4. ASSUME NEW x, x = [run EXCEPT !.pc = pc, !.answered = TRUE]
      PROVE  AtWork(x, run)
  <2>1. x = R(run.rev, run.start, run.end, run.attempt, run.text, run.draft, run.placement, TRUE)
    BY <1>1, <1>4 DEF Run
  <2> HIDE DEF R
  <2> QED
    BY <1>1, <1>2, <2>1
<1>5. ASSUME NEW x, NEW draft, NEW placement, x = [run EXCEPT !.pc = pc, !.answered = TRUE, !.draft = draft, !.placement = placement]
      PROVE  AtWork(x, run)
  <2>1. x = R(run.rev, run.start, run.end, run.attempt, run.text, draft, placement, TRUE)
    BY <1>1, <1>5 DEF Run
  <2> HIDE DEF R
  <2> QED
    BY <1>1, <1>2, <2>1
<1>6. ASSUME NEW x, NEW rev, NEW start, NEW end, NEW text, x = [run EXCEPT !.pc = pc, !.rev = rev, !.start = start, !.end = end, !.text = text]
      PROVE  AtWork(x, run)
  <2>1. x = R(rev, start, end, run.attempt, text, run.draft, run.placement, run.answered)
    BY <1>1, <1>6 DEF Run
  <2> HIDE DEF R
  <2> QED
    BY <1>1, <1>2, <2>1
<1>7. ASSUME NEW x, NEW rev, NEW start, NEW end, x = [run EXCEPT !.pc = pc, !.rev = rev, !.start = start, !.end = end, !.attempt = @ + 1]
      PROVE  AtWork(x, run)
  <2>1. x = R(rev, start, end, run.attempt + 1, run.text, run.draft, run.placement, run.answered)
    BY <1>1, <1>7 DEF Run
  <2> HIDE DEF R
  <2> QED
    BY <1>1, <1>2, <2>1
<1> QED
  BY <1>3, <1>4, <1>5, <1>6, <1>7, Zenon

\* The actor's answers.
LEMMA AsksInv ==
  ASSUME RunsInv, BudgetInv, NEW i \in DOMAIN runs, BeginRead(i) \/ Propose(i) \/ EndRun(i)
  PROVE  RunsInv' /\ BudgetInv'
<1>1. UNCHANGED <<runs, limits, now>>
  BY DEF BeginRead, Propose, EndRun
<1>2. \E pc \in {"reading", "proposing", "ending"} : Asks(i, pc)
  BY DEF BeginRead, Propose, EndRun
<1> PICK run : run = runs[i] /\ Run(run)
  BY DEF RunsInv
<1>3. ASSUME NEW x, Answer(i, x), AtWork(x, run)
      PROVE  RunsInv' /\ BudgetInv'
  <2>1. RunsInv'
    BY <1>1, <1>2, <1>3, AnswerInv DEF AtWork
  <2>2. \A j \in DOMAIN runs : runs'[j].at = runs[j].at /\ (runs'[j].pc = "over" <=> runs[j].pc = "over")
    BY <1>1
  <2>3. UNCHANGED <<limits, now>> /\ DOMAIN runs' = DOMAIN runs
    BY <1>1
  <2> QED
    BY <2>1, <2>2, <2>3, BudgetSteady
<1>4. \/ \E rev, start, end, text :
           Answer(i, [run EXCEPT !.pc = "thinking", !.rev = rev, !.start = start, !.end = end, !.text = text])
      \/ \E rev, start, end :
           Answer(i, [run EXCEPT !.pc = "reading", !.rev = rev, !.start = start, !.end = end, !.attempt = @ + 1])
      \/ \E pc \in {"ending", "ended"} : Answer(i, [run EXCEPT !.pc = pc])
  <2>1. CASE BeginRead(i)
    <3>1. PICK m : m = MapRangeFrom(run.rev, run.start, run.end)
      OBVIOUS
    <3>2. \/ Answer(i, [run EXCEPT !.pc = "thinking", !.rev = Rev, !.start = m[1], !.end = m[2],
                                   !.text = SubSeq(doc.text, m[1] + 1, m[2])])
          \/ Answer(i, [run EXCEPT !.pc = "ending"])
      BY <2>1, <3>1 DEF BeginRead
    <3> QED
      BY <3>2
  <2>2. CASE Propose(i)
    <3>1. PICK m : m = MapRangeFrom(run.rev, run.start, run.end)
      OBVIOUS
    <3>2. \/ Answer(i, [run EXCEPT !.pc = "reading", !.rev = Rev, !.start = m[1], !.end = m[2], !.attempt = @ + 1])
          \/ Answer(i, [run EXCEPT !.pc = "ending"])
      BY <2>2, <3>1 DEF Propose
    <3> QED
      BY <3>2
  <2>3. CASE EndRun(i)
    BY <2>3 DEF EndRun
  <2> QED
    BY <2>1, <2>2, <2>3
<1> QED
  BY <1>3, <1>4, RunsWork

LEMMA ThinkInv ==
  ASSUME RunsInv, BudgetInv, NEW i \in DOMAIN runs, Think(i)
  PROVE  RunsInv' /\ BudgetInv'
<1> PICK run : run = runs[i] /\ Run(run)
  BY DEF RunsInv
<1>1. run.pc = "thinking" /\ replies[i] = NoReply /\ UNCHANGED <<replies, limits, now>>
  BY DEF Think, RunsInv, session
<1>2. ASSUME NEW x, AtWork(x, run), runs' = [runs EXCEPT ![i] = x]
      PROVE  RunsInv' /\ BudgetInv'
  BY <1>1, <1>2, MovesOn DEF AtWork
<1>3. \/ runs' = [runs EXCEPT ![i] = [run EXCEPT !.pc = "ending"]]
      \/ runs' = [runs EXCEPT ![i] = [run EXCEPT !.pc = "ending", !.answered = TRUE]]
      \/ \E draft, placement :
           runs' = [runs EXCEPT ![i] = [run EXCEPT !.pc = "proposing", !.answered = TRUE,
                                                   !.draft = draft, !.placement = placement]]
  BY DEF Think
<1> QED
  BY <1>2, <1>3, RunsWork

LEMMA AskFailsInv ==
  ASSUME RunsInv, BudgetInv, NEW i \in DOMAIN runs, AskFails(i)
  PROVE  RunsInv' /\ BudgetInv'
<1> PICK run : run = runs[i] /\ Run(run)
  BY DEF RunsInv
<1>1. /\ run.pc \in {"reading", "proposing", "ending"} /\ replies[i] = NoReply
      /\ UNCHANGED <<replies, limits, now>>
  BY DEF AskFails, Failed, RunsInv, session
<1> PICK pc \in {"ending", "ended"} : pc = IF run.pc = "ending" THEN "ended" ELSE "ending"
  OBVIOUS
<1> PICK x : x = [run EXCEPT !.pc = pc]
  OBVIOUS
<1>2. runs' = [runs EXCEPT ![i] = x]
  BY DEF AskFails
<1>3. x = [pc |-> pc, rev |-> run.rev, start |-> run.start, end |-> run.end, attempt |-> run.attempt,
           text |-> run.text, draft |-> run.draft, placement |-> run.placement,
           answered |-> run.answered, lost |-> run.lost, at |-> run.at]
  BY DEF Run
<1>4. Run(x) /\ x.at = run.at /\ x.pc # "over"
  BY <1>3 DEF Run
<1> QED
  BY <1>1, <1>2, <1>4, MovesOn
\* Every run is told, or none, and none has an answer coming any more.
LEMMA AllMove ==
  ASSUME RunsInv, replies' = [i \in DOMAIN runs |-> NoReply], UNCHANGED now,
         DOMAIN runs' = DOMAIN runs, runs' = [i \in DOMAIN runs |-> runs'[i]],
         \A i \in DOMAIN runs : Run(runs'[i]) /\ runs'[i].at = runs[i].at
  PROVE  RunsInv'
<1>1. PICK n \in Nat : n = Len(runs) /\ DOMAIN runs = 1..n
  BY Seqs DEF RunsInv
<1>2. PICK f : f = runs'
  OBVIOUS
<1>3. f = [i \in 1..n |-> f[i]] /\ replies' = [i \in 1..n |-> NoReply]
  BY <1>1, <1>2
<1>4. f \in Seq({f[i] : i \in 1..n}) /\ Len(f) = n
  BY <1>3
<1>5. replies' \in Seq({NoReply}) /\ Len(replies') = n
  BY <1>3
<1>6. IsSeq(runs') /\ IsSeq(replies') /\ Len(replies') = Len(runs')
  BY <1>2, <1>4, <1>5 DEF IsSeq
<1>7. \A i \in DOMAIN runs' : Run(runs'[i]) /\ runs'[i].at \in 0..now' /\ replies'[i] = NoReply
  BY <1>1, <1>3 DEF RunsInv
<1> QED
  BY <1>6, <1>7 DEF RunsInv

LEMMA FlushBudget ==
  ASSUME RunsInv, BudgetInv, Flush
  PROVE  RunsInv' /\ BudgetInv'
<1> DEFINE F(i) == IF replies[i] = NoReply THEN runs[i] ELSE replies[i]
<1>1. /\ runs' = [i \in DOMAIN runs |-> F(i)] /\ replies' = [i \in DOMAIN runs |-> NoReply]
      /\ UNCHANGED <<limits, now>>
  BY DEF Flush
<1>2. \A i \in DOMAIN runs : Run(F(i)) /\ F(i).at = runs[i].at /\ (F(i).pc = "over" <=> runs[i].pc = "over")
  BY DEF RunsInv
<1> HIDE DEF F
<1>3. RunsInv' /\ DOMAIN runs' = DOMAIN runs /\ \A i \in DOMAIN runs : runs'[i] = F(i)
  <2>1. DOMAIN runs' = DOMAIN runs /\ \A i \in DOMAIN runs : runs'[i] = F(i)
    BY <1>1
  <2>2. runs' = [i \in DOMAIN runs |-> runs'[i]]
    BY <1>1, <2>1
  <2> QED
    BY <1>1, <1>2, <2>1, <2>2, AllMove
<1>4. \A i \in DOMAIN runs : runs'[i].at = runs[i].at /\ (runs'[i].pc = "over" <=> runs[i].pc = "over")
  BY <1>2, <1>3
<1> QED
  BY <1>1, <1>3, <1>4, BudgetSteady

LEMMA FailBudget ==
  ASSUME RunsInv, BudgetInv, Fail
  PROVE  RunsInv' /\ BudgetInv'
<1> DEFINE F(i) == [runs[i] EXCEPT !.lost = TRUE]
<1>1. /\ runs' = [i \in DOMAIN runs |-> F(i)] /\ replies' = [i \in DOMAIN runs |-> NoReply]
      /\ UNCHANGED <<limits, now>>
  BY DEF Fail, Gone
<1>2. ASSUME NEW i \in DOMAIN runs
      PROVE  Run(F(i)) /\ F(i).at = runs[i].at /\ F(i).pc = runs[i].pc
  <2> PICK run, x : run = runs[i] /\ Run(run) /\ x = [run EXCEPT !.lost = TRUE]
    BY DEF RunsInv
  <2>1. x = [pc |-> run.pc, rev |-> run.rev, start |-> run.start, end |-> run.end, attempt |-> run.attempt,
             text |-> run.text, draft |-> run.draft, placement |-> run.placement,
             answered |-> run.answered, lost |-> TRUE, at |-> run.at]
    BY DEF Run
  <2>2. Run(x) /\ x.at = run.at /\ x.pc = run.pc
    BY <2>1 DEF Run
  <2> QED
    BY <2>2
<1> HIDE DEF F
<1>3. RunsInv' /\ DOMAIN runs' = DOMAIN runs /\ \A i \in DOMAIN runs : runs'[i] = F(i)
  <2>1. DOMAIN runs' = DOMAIN runs /\ \A i \in DOMAIN runs : runs'[i] = F(i)
    BY <1>1
  <2>2. runs' = [i \in DOMAIN runs |-> runs'[i]]
    BY <1>1, <2>1
  <2> QED
    BY <1>1, <1>2, <2>1, <2>2, AllMove
<1>4. \A i \in DOMAIN runs : runs'[i].at = runs[i].at /\ (runs'[i].pc = "over" <=> runs[i].pc = "over")
  BY <1>2, <1>3
<1> QED
  BY <1>1, <1>3, <1>4, BudgetSteady

LEMMA CrashBudget ==
  ASSUME RunsInv, BudgetInv, Crash
  PROVE  RunsInv' /\ BudgetInv'
<1> DEFINE F(i) == [runs[i] EXCEPT !.pc = "over"]
<1>1. /\ runs' = [i \in DOMAIN runs |-> F(i)] /\ replies' = [i \in DOMAIN runs |-> NoReply] /\ UNCHANGED now
      /\ started' = <<>> /\ running' = 0 /\ charged' = {} /\ misdated' = FALSE
  BY DEF Crash, Gone
<1>2. ASSUME NEW i \in DOMAIN runs
      PROVE  Run(F(i)) /\ F(i).at = runs[i].at /\ F(i).pc = "over"
  <2> PICK run, x : run = runs[i] /\ Run(run) /\ x = [run EXCEPT !.pc = "over"]
    BY DEF RunsInv
  <2>1. x = [pc |-> "over", rev |-> run.rev, start |-> run.start, end |-> run.end, attempt |-> run.attempt,
             text |-> run.text, draft |-> run.draft, placement |-> run.placement,
             answered |-> run.answered, lost |-> run.lost, at |-> run.at]
    BY DEF Run
  <2>2. Run(x) /\ x.at = run.at /\ x.pc = "over"
    BY <2>1 DEF Run
  <2> QED
    BY <2>2
<1> HIDE DEF F
<1>3. RunsInv' /\ DOMAIN runs' = DOMAIN runs /\ \A i \in DOMAIN runs : runs'[i] = F(i)
  <2>1. DOMAIN runs' = DOMAIN runs /\ \A i \in DOMAIN runs : runs'[i] = F(i)
    BY <1>1
  <2>2. runs' = [i \in DOMAIN runs |-> runs'[i]]
    BY <1>1, <2>1
  <2> QED
    BY <1>1, <1>2, <2>1, <2>2, AllMove
<1>4. Busy' = {}
  BY <1>2, <1>3 DEF Busy
<1>5. running' = Cardinality(Busy') /\ running' <= Concurrent
  BY <1>1, <1>4, FS_EmptySet, SuggestionsAssumption
<1>6. IsSeq(started') /\ Len(started') <= PerHour
  BY <1>1, SuggestionsAssumption DEF IsSeq
<1>7. Slots(<<>>)'
  BY <1>1 DEF Slots, InHour
<1> QED
  BY <1>1, <1>3, <1>4, <1>5, <1>6, <1>7 DEF BudgetInv

LEMMA TickBudget ==
  ASSUME RunsInv, BudgetInv, Tick
  PROVE  RunsInv' /\ BudgetInv'
<1>1. now' = now + 1 /\ now \in Nat /\ UNCHANGED <<runs, replies, limits>>
  BY DEF Tick, session, BudgetInv
<1>2. RunsInv'
  BY <1>1 DEF RunsInv
<1>3. \A c \in charged : c.at \in Nat
  BY <1>1 DEF BudgetInv, RunsInv, Entry
<1>4. InHour' \subseteq InHour
  BY <1>1, <1>3, SuggestionsAssumption DEF InHour, limits
<1>5. \A g : Slots(g) => Slots(g)'
  BY <1>1, <1>4 DEF Slots, limits
<1>6. Busy' = Busy /\ \A i : Entry(i)' = Entry(i)
  BY <1>1 DEF Busy, Entry
<1>7. now' \in Nat
  BY <1>1
<1> QED
  BY <1>1, <1>2, <1>5, <1>6, <1>7 DEF BudgetInv, limits

\* A run that is over gives back its place and, if it was not charged, the last entry.
LEMMA ReleaseInv ==
  ASSUME RunsInv, BudgetInv, NEW i \in DOMAIN runs, Release(i)
  PROVE  RunsInv' /\ BudgetInv'
<1> PICK run, x : run = runs[i] /\ Run(run) /\ x = [run EXCEPT !.pc = "over"]
  BY DEF RunsInv
<1>1. run.pc = "ended" /\ runs' = [runs EXCEPT ![i] = x] /\ running' = running - 1 /\ UNCHANGED <<replies, now>>
  BY DEF Release, session
<1>2. x = [pc |-> "over", rev |-> run.rev, start |-> run.start, end |-> run.end, attempt |-> run.attempt,
           text |-> run.text, draft |-> run.draft, placement |-> run.placement,
           answered |-> run.answered, lost |-> run.lost, at |-> run.at]
  BY DEF Run
<1>3. Run(x) /\ x.at = run.at /\ x.pc = "over"
  BY <1>2 DEF Run
<1>4. replies[i] = NoReply
  BY <1>1 DEF RunsInv
<1>5. RunsInv' /\ DOMAIN runs' = DOMAIN runs /\ runs'[i] = x /\ \A j \in DOMAIN runs : j # i => runs'[j] = runs[j]
  BY <1>1, <1>3, <1>4, MovesInv
<1>6. i \in Busy /\ Busy' = Busy \ {i}
  BY <1>1, <1>3, <1>5 DEF Busy
<1>7. running' = Cardinality(Busy') /\ running' <= Concurrent
  <2>1. IsFiniteSet(Busy) /\ Cardinality(Busy) \in Nat
    BY BusyIsFinite
  <2>2. Cardinality(Busy \ {i}) = Cardinality(Busy) - 1
    BY <1>6, <2>1, FS_RemoveElement
  <2>3. running = Cardinality(Busy) /\ running <= Concurrent /\ Concurrent \in Nat
    BY SuggestionsAssumption DEF BudgetInv
  <2>4. Cardinality(Busy') = Cardinality(Busy) - 1
    BY <1>6, <2>2
  <2> HIDE DEF Busy
  <2> QED
    BY <1>1, <2>1, <2>3, <2>4
<1>8. \A j \in DOMAIN runs : Entry(j)' = Entry(j)
  BY <1>3, <1>5 DEF Entry
<1>9. charged' \subseteq charged /\ \A c \in charged : c \notin charged' => c.run = i
  BY DEF Release
<1>10. ASSUME NEW c \in charged'
       PROVE  c.run \in DOMAIN runs' /\ c = Entry(c.run)'
  BY <1>5, <1>8, <1>9 DEF BudgetInv
<1>11. ASSUME NEW j \in Busy'
       PROVE  Entry(j)' \in charged'
  <2>1. j # i /\ j \in Busy /\ j \in DOMAIN runs
    BY <1>6 DEF Busy
  <2>2. Entry(j) \in charged /\ Entry(j).run = j
    BY <2>1 DEF BudgetInv, Entry
  <2> QED
    BY <1>8, <1>9, <2>1, <2>2
<1>12. InHour' \subseteq InHour
  BY <1>1, <1>9 DEF InHour
<1>13. /\ IsSeq(started') /\ Len(started') <= PerHour
       /\ misdated' \in BOOLEAN /\ (~misdated' => \E g : Slots(g)')
  <2>1. CASE UNCHANGED <<started, misdated>>
    <3>1. \A g : Slots(g) => Slots(g)'
      BY <1>12, <2>1 DEF Slots
    <3> QED
      BY <2>1, <3>1 DEF BudgetInv
  <2>2. CASE ~run.answered /\ started # <<>>
    <3> PICK last, S : last = Len(started) /\ started \in Seq(S)
      BY DEF BudgetInv, IsSeq
    <3>1. started' = SubSeq(started, 1, last - 1) /\ misdated' = (misdated \/ started[last] # run.at)
          /\ charged' = {c \in charged : c.run # i}
      BY <2>2 DEF Release, GivesBack
    <3>2. last \in Nat /\ last >= 1 /\ last <= PerHour
      BY <2>2 DEF BudgetInv
    <3>3. started' \in Seq(S) /\ Len(started') = last - 1 /\ \A k \in 1..last - 1 : started'[k] = started[k]
      BY <3>1, <3>2
    <3>4. IsSeq(started') /\ Len(started') <= PerHour
      BY <3>2, <3>3, SuggestionsAssumption DEF IsSeq
    <3>5. ASSUME ~misdated'
          PROVE  \E g : Slots(g)'
      <4>1. ~misdated /\ started[last] = run.at
        BY <3>1, <3>5 DEF BudgetInv
      <4>2. PICK g : Slots(g)
        BY <4>1 DEF BudgetInv
      <4> DEFINE own == Entry(i)
                 h == [c \in InHour |-> IF g[c] = last THEN g[own] ELSE g[c]]
      <4>3. own \in charged /\ own.at = run.at /\ own.run = i
        BY <1>6 DEF BudgetInv, Entry
      <4> HIDE DEF own
      <4>4. ASSUME NEW c \in InHour', g[c] = last
            PROVE  own \in InHour /\ own # c
        <5>1. c \in InHour /\ c.run # i /\ started[g[c]] = c.at
          BY <1>12, <3>1, <4>2 DEF InHour, Slots
        <5>2. c.at = own.at
          BY <4>1, <4>3, <4>4, <5>1
        <5> QED
          BY <4>3, <5>1, <5>2 DEF InHour
      <4>5. ASSUME NEW c \in InHour'
            PROVE  h[c] \in 1..last - 1 /\ started[h[c]] = c.at
        <5>1. c \in InHour /\ DOMAIN started = 1..last
          BY <1>12, <3>2
        <5>2. CASE g[c] = last
          <6>1. own \in InHour /\ own # c
            BY <4>4, <5>2
          <6>2. h[c] = g[own] /\ g[own] # last /\ g[own] \in 1..last /\ started[g[own]] = own.at
            BY <4>2, <5>1, <5>2, <6>1 DEF Slots
          <6>3. c.at = own.at
            BY <4>1, <4>2, <4>3, <5>1, <5>2 DEF Slots
          <6> QED
            BY <3>2, <6>2, <6>3
        <5>3. CASE g[c] # last
          <6>1. h[c] = g[c] /\ g[c] \in 1..last /\ started[g[c]] = c.at
            BY <4>2, <5>1, <5>3 DEF Slots
          <6> QED
            BY <3>2, <5>3, <6>1
        <5> QED
          BY <5>2, <5>3
      <4>6. ASSUME NEW b \in InHour', NEW c \in InHour', h[b] = h[c]
            PROVE  b = c
        <5>1. b \in InHour /\ c \in InHour /\ b # own /\ c # own
          BY <1>12, <3>1, <4>3 DEF InHour
        <5>2. \A p, q \in InHour : g[p] = g[q] => p = q
          BY <4>2 DEF Slots
        <5>3. (g[b] = last => own \in InHour) /\ (g[c] = last => own \in InHour)
          BY <4>4
        <5>4. h[b] = (IF g[b] = last THEN g[own] ELSE g[b]) /\ h[c] = (IF g[c] = last THEN g[own] ELSE g[c])
          BY <5>1
        <5> QED
          BY <4>6, <5>1, <5>2, <5>3, <5>4
      <4>7. \E f : f = h
        OBVIOUS
      <4> HIDE DEF h
      <4>8. PICK f : f = h
        BY <4>7
      <4>9. Slots(f)'
        BY <3>2, <3>3, <4>5, <4>6, <4>8 DEF Slots
      <4> QED
        BY <4>9
    <3> QED
      BY <3>1, <3>4, <3>5
  <2> QED
    BY <2>1, <2>2 DEF Release, GivesBack
<1>14. now' \in Nat
  BY <1>1 DEF BudgetInv
<1> QED
  BY <1>5, <1>7, <1>10, <1>11, <1>13, <1>14 DEF BudgetInv
\* What is left of started after the hour keeps the entries of what is charged in it.
LEMMA RecentKeeps ==
  ASSUME RunsInv, BudgetInv
  PROVE  /\ IsSeq(Recent) /\ Len(Recent) <= PerHour /\ Len(Recent) \in Nat
         /\ ~misdated => \E g : /\ \A c \in InHour : g[c] \in 1..Len(Recent) /\ Recent[g[c]] = c.at
                               /\ \A b, c \in InHour : g[b] = g[c] => b = c
<1> DEFINE S == {at \in 0..now : now - at < Hour}  kept == Selected(started, S)
<1>1. Len(started) \in Nat /\ DOMAIN started = 1..Len(started) /\ Len(started) <= PerHour
  BY Seqs DEF BudgetInv
<1>2. ASSUME NEW c \in InHour
      PROVE  c.at \in S
  BY SuggestionsAssumption DEF InHour, BudgetInv, RunsInv, Entry
<1>3. Recent = kept
  BY DEF Recent
<1> HIDE DEF S
<1>4. kept \in Seq(S) /\ Len(kept) <= Len(started)
  BY <1>1, SelectedKeeps
<1>5. PICK h : Placed(h, kept, started, Len(started), S)
  BY <1>1, SelectedKeeps
<1> HIDE DEF kept
<1>6. IsSeq(kept) /\ Len(kept) <= PerHour /\ Len(kept) \in Nat
  BY <1>1, <1>4, SuggestionsAssumption DEF IsSeq
<1>7. ASSUME ~misdated
      PROVE  \E g : /\ \A c \in InHour : g[c] \in 1..Len(kept) /\ kept[g[c]] = c.at
                   /\ \A b, c \in InHour : g[b] = g[c] => b = c
  <2>1. PICK f : Slots(f)
    BY <1>7 DEF BudgetInv
  <2>2. PICK g : g = [c \in InHour |-> h[f[c]]]
    OBVIOUS
  <2>3. \A c \in InHour : g[c] = h[f[c]] /\ f[c] \in 1..Len(started) /\ started[f[c]] = c.at /\ started[f[c]] \in S
    BY <1>1, <1>2, <2>1, <2>2 DEF Slots
  <2>4. \A c \in InHour : g[c] \in 1..Len(kept) /\ kept[g[c]] = c.at
    BY <1>5, <2>3 DEF Placed
  <2>5. \A b, c \in InHour : g[b] = g[c] => b = c
    BY <1>5, <2>1, <2>3 DEF Placed, Slots
  <2> QED
    BY <2>4, <2>5
<1> QED
  BY <1>3, <1>6, <1>7

LEMMA InvokeInv ==
  ASSUME RunsInv, BudgetInv, NEW rev, NEW target, Invoke(rev, target)
  PROVE  RunsInv' /\ BudgetInv'
<1> PICK kept : kept = Recent
  OBVIOUS
<1>1. /\ IsSeq(kept) /\ Len(kept) <= PerHour /\ Len(kept) \in Nat
      /\ ~misdated => \E g : /\ \A c \in InHour : g[c] \in 1..Len(kept) /\ kept[g[c]] = c.at
                            /\ \A b, c \in InHour : g[b] = g[c] => b = c
  BY RecentKeeps
<1>2. UNCHANGED <<misdated, now>>
  BY DEF Invoke
<1>3. CASE started' = kept /\ UNCHANGED <<running, runs, replies, charged>>
  <2>1. RunsInv'
    BY <1>2, <1>3 DEF RunsInv
  <2>2. InHour' = InHour /\ DOMAIN kept = 1..Len(kept)
    BY <1>1, <1>2, <1>3, Seqs DEF InHour
  <2>3. ~misdated' => \E g : Slots(g)'
    BY <1>1, <1>2, <1>3, <2>2 DEF Slots
  <2>4. Busy' = Busy /\ \A i : Entry(i)' = Entry(i)
    BY <1>3 DEF Busy, Entry
  <2> QED
    BY <1>1, <1>2, <1>3, <2>1, <2>3, <2>4 DEF BudgetInv
<1>4. CASE ~(started' = kept /\ UNCHANGED <<running, runs, replies, charged>>)
  <2> PICK new : new = Len(runs) + 1
    OBVIOUS
  <2> PICK run : run = [pc |-> "reading", rev |-> rev, start |-> target[1], end |-> target[2],
                        attempt |-> 1, text |-> <<>>, draft |-> <<>>, placement |-> "replace",
                        answered |-> FALSE, lost |-> FALSE, at |-> now]
    OBVIOUS
  <2> PICK own : own = [run |-> new, at |-> now]
    OBVIOUS
  <2>1. /\ running < Concurrent /\ Len(kept) < PerHour
        /\ started' = Append(kept, now) /\ running' = running + 1 /\ runs' = Append(runs, run)
        /\ replies' = Append(replies, NoReply) /\ charged' = charged \cup {own}
    BY <1>4 DEF Invoke
  <2>2. Run(run) /\ run.pc = "reading" /\ run.at = now /\ now \in Nat
    BY DEF Run, BudgetInv
  <2> PICK S, T : runs \in Seq(S) /\ replies \in Seq(T)
    BY DEF RunsInv, IsSeq
  <2>3. /\ Len(runs) \in Nat /\ DOMAIN runs = 1..Len(runs) /\ runs' \in Seq(S \cup {run})
        /\ Len(runs') = new /\ runs'[new] = run /\ \A i \in DOMAIN runs : runs'[i] = runs[i]
    BY <2>1
  <2>4. /\ Len(replies) = Len(runs) /\ replies' \in Seq(T \cup {NoReply}) /\ Len(replies') = new
        /\ replies'[new] = NoReply /\ \A i \in DOMAIN runs : replies'[i] = replies[i]
    BY <2>1, <2>3 DEF RunsInv
  <2>5. DOMAIN runs' = DOMAIN runs \cup {new} /\ new \notin DOMAIN runs
    BY <2>3
  <2>6. RunsInv'
    <3>1. IsSeq(runs') /\ IsSeq(replies') /\ Len(replies') = Len(runs')
      BY <2>3, <2>4 DEF IsSeq
    <3>2. run.at \in 0..now
      BY <2>2
    <3>3. ASSUME NEW i \in DOMAIN runs'
          PROVE  /\ Run(runs'[i]) /\ runs'[i].at \in 0..now
                 /\ replies'[i] # NoReply =>
                      /\ Run(replies'[i]) /\ replies'[i].pc # "over" /\ replies'[i].at = runs'[i].at
                      /\ runs'[i].pc \in {"reading", "proposing", "ending"} /\ ~runs'[i].lost
      <4>1. CASE i = new
        BY <2>2, <2>3, <2>4, <3>2, <4>1
      <4>2. CASE i \in DOMAIN runs
        BY <2>3, <2>4, <4>2 DEF RunsInv
      <4> QED
        BY <2>5, <4>1, <4>2
    <3> QED
      BY <1>2, <3>1, <3>3 DEF RunsInv
  <2>7. Busy' = Busy \cup {new} /\ new \notin Busy
    BY <2>2, <2>3, <2>5 DEF Busy
  <2>8. running' = Cardinality(Busy') /\ running' <= Concurrent
    <3>1. IsFiniteSet(Busy) /\ Cardinality(Busy) \in Nat
      BY BusyIsFinite
    <3>2. Cardinality(Busy \cup {new}) = Cardinality(Busy) + 1
      BY <2>7, <3>1, FS_AddElement
    <3>3. running = Cardinality(Busy) /\ Concurrent \in Nat
      BY SuggestionsAssumption DEF BudgetInv
    <3>4. Cardinality(Busy') = Cardinality(Busy) + 1
      BY <2>7, <3>2
    <3> HIDE DEF Busy
    <3> QED
      BY <2>1, <3>1, <3>3, <3>4
  <2>9. Entry(new)' = own /\ \A i \in DOMAIN runs : Entry(i)' = Entry(i)
    BY <2>2, <2>3 DEF Entry
  <2>10. ASSUME NEW c \in charged'
         PROVE  c.run \in DOMAIN runs' /\ c = Entry(c.run)'
    BY <2>1, <2>5, <2>9 DEF BudgetInv
  <2>11. ASSUME NEW i \in Busy'
         PROVE  Entry(i)' \in charged'
    BY <2>1, <2>7, <2>9 DEF BudgetInv, Busy
  <2>12. own \notin charged
    BY <2>5 DEF BudgetInv
  <2>13. InHour' \subseteq InHour \cup {own}
    BY <1>2, <2>1 DEF InHour
  <2>14. /\ IsSeq(started') /\ Len(started') = Len(kept) + 1 /\ DOMAIN started' = 1..Len(kept) + 1
         /\ started'[Len(kept) + 1] = now /\ \A k \in 1..Len(kept) : started'[k] = kept[k]
    <3> PICK U : kept \in Seq(U)
      BY <1>1 DEF IsSeq
    <3> PICK z : z = now
      OBVIOUS
    <3>1. started' = Append(kept, z)
      BY <2>1
    <3>2. started' \in Seq(U \cup {z}) /\ Len(started') = Len(kept) + 1
      BY <3>1
    <3>3. started'[Len(kept) + 1] = z /\ \A k \in 1..Len(kept) : started'[k] = kept[k]
      BY <3>1
    <3> QED
      BY <3>2, <3>3 DEF IsSeq
  <2>15. Len(started') <= PerHour
    BY <1>1, <2>1, <2>14, SuggestionsAssumption
  <2>16. ASSUME ~misdated'
         PROVE  \E g : Slots(g)'
    <3>1. PICK g : /\ \A c \in InHour : g[c] \in 1..Len(kept) /\ kept[g[c]] = c.at
                   /\ \A b, c \in InHour : g[b] = g[c] => b = c
      BY <1>1, <1>2, <2>16
    <3>2. PICK h : h = [c \in InHour \cup {own} |-> IF c = own THEN Len(kept) + 1 ELSE g[c]]
      OBVIOUS
    <3>3. own \notin InHour /\ h[own] = Len(kept) + 1 /\ \A c \in InHour : h[c] = g[c]
      BY <2>12, <3>2 DEF InHour
    <3>4. ASSUME NEW c \in InHour'
          PROVE  h[c] \in DOMAIN started' /\ started'[h[c]] = c.at
      <4>1. CASE c = own
        BY <1>1, <2>14, <3>3, <4>1
      <4>2. CASE c \in InHour
        BY <1>1, <2>14, <3>1, <3>3, <4>2
      <4> QED
        BY <2>13, <4>1, <4>2
    <3>5. ASSUME NEW b \in InHour', NEW c \in InHour', h[b] = h[c]
          PROVE  b = c
      <4>1. \A d \in InHour : h[d] # h[own]
        BY <1>1, <3>1, <3>3
      <4> QED
        BY <2>13, <3>1, <3>3, <3>5, <4>1
    <3> QED
      BY <3>4, <3>5 DEF Slots
  <2> QED
    BY <1>2, <2>2, <2>6, <2>8, <2>10, <2>11, <2>14, <2>15, <2>16 DEF BudgetInv
<1> QED
  BY <1>3, <1>4

LEMMA BudgetInit ==
  ASSUME Init
  PROVE  RunsInv /\ BudgetInv
<1>1. runs = <<>> /\ replies = <<>> /\ started = <<>> /\ running = 0 /\ now = 0 /\ charged = {} /\ misdated = FALSE
  BY DEF Init
<1>2. IsSeq(<<>>) /\ Len(<<>>) = 0 /\ DOMAIN <<>> = {}
  BY DEF IsSeq
<1>3. RunsInv
  BY <1>1, <1>2 DEF RunsInv
<1>4. Busy = {} /\ InHour = {}
  BY <1>1, <1>2 DEF Busy, InHour
<1>5. Slots(<<>>)
  BY <1>4 DEF Slots
<1>6. now \in Nat /\ running = Cardinality(Busy) /\ running <= Concurrent
  BY <1>1, <1>4, FS_EmptySet, SuggestionsAssumption
<1>7. IsSeq(started) /\ Len(started) <= PerHour
  BY <1>1, <1>2, SuggestionsAssumption
<1>8. misdated \in BOOLEAN /\ \E g : Slots(g)
  BY <1>1, <1>5
<1>9. \A c \in charged : c.run \in DOMAIN runs /\ c = Entry(c.run)
  BY <1>1
<1>10. \A i \in Busy : Entry(i) \in charged
  BY <1>4
<1> QED
  BY <1>3, <1>6, <1>7, <1>8, <1>9, <1>10 DEF BudgetInv

LEMMA BudgetNext ==
  ASSUME RunsInv, BudgetInv, [Next]_vars
  PROVE  RunsInv' /\ BudgetInv'
<1>1. CASE UNCHANGED <<runs, replies, limits, now>>
  BY <1>1, RunsUnmoved
<1>2. CASE \E start, end \in 0..Len(doc.text), text \in Typing : Edit(start, end, text)
  BY <1>1, <1>2 DEF Edit
<1>3. CASE Join \/ Reopen \/ Receive \/ UNCHANGED vars
  BY <1>1, <1>3 DEF Join, Reopen, Receive, session, vars
<1>4. CASE \E i \in DOMAIN view.sugs : HandleResolve(i)
  BY <1>1, <1>4 DEF HandleResolve
<1>5. CASE Flush \/ Fail \/ Crash \/ Tick
  BY <1>5, FlushBudget, FailBudget, CrashBudget, TickBudget
<1>6. CASE \E rev \in 0..Rev, target \in budget.targets : Invoke(rev, target)
  BY <1>6, InvokeInv
<1>7. ASSUME NEW i \in DOMAIN runs,
             BeginRead(i) \/ Think(i) \/ Propose(i) \/ EndRun(i) \/ AskFails(i) \/ Release(i)
      PROVE  RunsInv' /\ BudgetInv'
  BY <1>7, AsksInv, ThinkInv, AskFailsInv, ReleaseInv
<1> QED
  BY <1>2, <1>3, <1>4, <1>5, <1>6, <1>7 DEF Next

\* No more agents at work than allowed, each counted until it is released, and no more
\* charged runs in an hour, as long as no run that is not charged took the entry of another
\* out (budget.acquire, budget.release).
THEOREM WithinBudgetHolds == Spec => []WithinBudget
<1>1. Init => RunsInv /\ BudgetInv
  BY BudgetInit
<1>2. RunsInv /\ BudgetInv /\ [Next]_vars => (RunsInv /\ BudgetInv)'
  BY BudgetNext
<1>3. ASSUME RunsInv, BudgetInv
      PROVE  WithinBudget
  <2>1. running = Cardinality({i \in DOMAIN runs : runs[i].pc # "over"}) /\ running <= Concurrent
    BY <1>3 DEF BudgetInv, Busy
  <2>2. ASSUME ~misdated
        PROVE  Cardinality(InHour) <= PerHour
    <3>1. PICK g : Slots(g)
      BY <1>3, <2>2 DEF BudgetInv
    <3>2. PICK n \in Nat : n = Len(started) /\ DOMAIN started = 1..n /\ n <= PerHour
      BY <1>3, Seqs DEF BudgetInv
    <3>3. PICK f : f = [c \in InHour |-> g[c]]
      OBVIOUS
    <3>4. f \in Injection(InHour, 1..n)
      BY <3>1, <3>2, <3>3 DEF Slots, Injection, IsInjective
    <3>5. IsFiniteSet(1..n) /\ Cardinality(1..n) = n
      BY FS_Interval
    <3>6. IsFiniteSet(InHour) /\ Cardinality(InHour) <= n
      BY <3>4, <3>5, FS_Injection
    <3>7. Cardinality(InHour) \in Nat
      BY <3>6, FS_CardinalityType
    <3> QED
      BY <3>2, <3>6, <3>7, SuggestionsAssumption
  <2> QED
    BY <2>1, <2>2 DEF WithinBudget, InHour
<1> QED
  BY <1>1, <1>2, <1>3, PTL DEF Spec

-----------------------------------------------------------------------------
(* Where a range is by now.                                                *)

\* f follows a range from revision rev through operations up to revision n.
Follows(f, ops, rev, n, start, end) ==
  f = [i \in rev..n |->
         IF i = rev THEN <<start, end, FALSE>>
         ELSE LET m == MapRange(ops[i], f[i-1][1], f[i-1][2]) IN <<m[1], m[2], f[i-1][3] \/ m[3]>>]

\* MapRangeFrom, of the first n operations of any history.
Mapped(ops, rev, n, start, end) == (CHOOSE f : Follows(f, ops, rev, n, start, end))[n]

LEMMA MappedIs ==
  ASSUME NEW rev, NEW start, NEW end
  PROVE  MapRangeFrom(rev, start, end) = Mapped(doc.ops, rev, Rev, start, end)
BY DEF MapRangeFrom, Mapped, Follows

\* The first step of the way, and one more.
Unmoved(start, end) == <<start, end, FALSE>>
Along(m, op) == LET r == MapRange(op, m[1], m[2]) IN <<r[1], r[2], m[3] \/ r[3]>>

LEMMA FollowsIs ==
  ASSUME NEW f, NEW ops, NEW rev, NEW n, NEW start, NEW end
  PROVE  Follows(f, ops, rev, n, start, end) <=>
           f = [i \in rev..n |-> IF i = rev THEN Unmoved(start, end) ELSE Along(f[i-1], ops[i])]
BY DEF Follows, Along, Unmoved

LEMMA FollowsFirst ==
  ASSUME NEW f, NEW ops, NEW rev \in Nat, NEW n \in Nat, NEW start, NEW end,
         Follows(f, ops, rev, n, start, end), rev <= n
  PROVE  f[rev] = Unmoved(start, end)
<1> DEFINE First == Unmoved(start, end)
           Then(i) == Along(f[i-1], ops[i])
<1>1. f = [i \in rev..n |-> IF i = rev THEN First ELSE Then(i)]
  BY FollowsIs
<1> HIDE DEF First, Then
<1>2. \A i \in rev..n : f[i] = IF i = rev THEN First ELSE Then(i)
  BY <1>1
<1>3. f[rev] = First
  BY <1>2
<1> QED
  BY <1>3 DEF First

LEMMA FollowsNext ==
  ASSUME NEW f, NEW ops, NEW rev \in Nat, NEW n \in Nat, NEW start, NEW end,
         Follows(f, ops, rev, n, start, end)
  PROVE  \A i \in rev + 1..n : f[i] = Along(f[i-1], ops[i])
<1> DEFINE First == Unmoved(start, end)
           Then(i) == Along(f[i-1], ops[i])
<1>1. f = [i \in rev..n |-> IF i = rev THEN First ELSE Then(i)]
  BY FollowsIs
<1> HIDE DEF First, Then
<1>2. \A i \in rev..n : f[i] = IF i = rev THEN First ELSE Then(i)
  BY <1>1
<1>3. \A i \in rev + 1..n : f[i] = Then(i)
  BY <1>2
<1> QED
  BY <1>3 DEF Then

LEMMA FollowsOne ==
  ASSUME NEW f, NEW ops, NEW rev \in Nat, NEW n \in Nat, rev <= n, NEW start, NEW end,
         Follows(f, ops, rev, n, start, end),
         NEW x, x = Along(f[n], ops[n + 1])
  PROVE  Follows([i \in rev..n + 1 |-> IF i = n + 1 THEN x ELSE f[i]], ops, rev, n + 1, start, end)
<1> DEFINE First == Unmoved(start, end)
           g == [i \in rev..n + 1 |-> IF i = n + 1 THEN x ELSE f[i]]
           h == [i \in rev..n + 1 |-> IF i = rev THEN First ELSE Along(g[i-1], ops[i])]
<1>1. f[rev] = First
  BY FollowsFirst
<1>2. \A i \in rev + 1..n : f[i] = Along(f[i-1], ops[i])
  BY FollowsNext
<1> HIDE DEF First
<1>3. ASSUME NEW i \in rev..n + 1
      PROVE  g[i] = h[i]
  <2>1. CASE i = n + 1
    <3>1. i # rev /\ i - 1 = n /\ g[i - 1] = f[n] /\ h[i] = Along(g[i-1], ops[i])
      BY <2>1
    <3> QED
      BY <2>1, <3>1
  <2>2. CASE i \in rev..n /\ i = rev
    BY <1>1, <2>2
  <2>3. CASE i \in rev..n /\ i # rev
    <3>1. g[i - 1] = f[i - 1] /\ g[i] = f[i] /\ f[i] = Along(f[i-1], ops[i]) /\ h[i] = Along(g[i-1], ops[i])
      BY <1>2, <2>3
    <3> QED
      BY <3>1
  <2> QED
    BY <2>1, <2>2, <2>3
<1>4. g = h
  BY <1>3
<1> QED
  <2> HIDE DEF g
  <2>1. g = [i \in rev..n + 1 |-> IF i = rev THEN Unmoved(start, end) ELSE Along(g[i-1], ops[i])]
    BY <1>4 DEF First
  <2>2. Follows(g, ops, rev, n + 1, start, end)
    BY <2>1, FollowsIs
  <2> QED
    BY <2>2 DEF g

LEMMA FollowsOn ==
  ASSUME NEW ops, NEW rev \in Nat, NEW k \in Nat, NEW start, NEW end
  PROVE  \E f : Follows(f, ops, rev, rev + k, start, end)
<1> DEFINE T == {j \in Nat : \E f : Follows(f, ops, rev, rev + j, start, end)}
<1>1. 0 \in T
  <2> DEFINE f == [i \in rev..rev |-> Unmoved(start, end)]
  <2>1. f = [i \in rev..rev |-> IF i = rev THEN Unmoved(start, end) ELSE Along(f[i-1], ops[i])]
    OBVIOUS
  <2>2. Follows(f, ops, rev, rev, start, end)
    <3> HIDE DEF f
    <3> QED
      BY <2>1, FollowsIs
  <2> QED
    BY <2>2
<1>2. ASSUME NEW j \in 0..k - 1, j \in T
      PROVE  j + 1 \in T
  <2>1. PICK f : Follows(f, ops, rev, rev + j, start, end)
    BY <1>2
  <2>2. PICK n \in Nat : n = rev + j /\ rev <= n /\ n + 1 = rev + (j + 1)
    OBVIOUS
  <2>3. PICK x : x = Along(f[n], ops[n + 1])
    OBVIOUS
  <2>4. Follows([i \in rev..n + 1 |-> IF i = n + 1 THEN x ELSE f[i]], ops, rev, n + 1, start, end)
    BY <2>1, <2>2, <2>3, FollowsOne
  <2> QED
    BY <2>2, <2>4
<1> HIDE DEF T
<1>3. \A j \in 0..k : j \in T
  BY <1>1, <1>2, Induction
<1>4. k \in T
  BY <1>3
<1> QED
  BY <1>4 DEF T

LEMMA MappedStart ==
  ASSUME NEW ops, NEW rev \in Nat, NEW start, NEW end
  PROVE  Mapped(ops, rev, rev, start, end) = Unmoved(start, end)
<1> DEFINE f == CHOOSE g : Follows(g, ops, rev, rev, start, end)
<1>1. rev + 0 = rev
  OBVIOUS
<1>2. Follows(f, ops, rev, rev, start, end)
  BY <1>1, FollowsOn
<1>3. Mapped(ops, rev, rev, start, end) = f[rev]
  BY DEF Mapped
<1> HIDE DEF f
<1>4. f[rev] = Unmoved(start, end)
  BY <1>2, FollowsFirst
<1> QED
  BY <1>3, <1>4

SameBetween(rev, m, more, ops) == \A i \in rev + 1..m : more[i] = ops[i]

\* Two ways that begin alike are alike as far as they go.
LEMMA FollowsAlike ==
  ASSUME NEW f, NEW g, NEW ops, NEW more, NEW rev \in Nat, NEW m \in Nat, NEW n \in Nat, rev <= m, m <= n,
         NEW start, NEW end, SameBetween(rev, m, more, ops),
         Follows(f, ops, rev, m, start, end), Follows(g, more, rev, n, start, end)
  PROVE  f[m] = g[m]
<1>1. f[rev] = g[rev] /\ \A i \in rev + 1..m : f[i] = Along(f[i-1], ops[i])
  <2>1. rev <= n
    OBVIOUS
  <2>2. f[rev] = Unmoved(start, end)
    BY FollowsFirst
  <2>3. g[rev] = Unmoved(start, end)
    BY <2>1, FollowsFirst
  <2>4. \A i \in rev + 1..m : f[i] = Along(f[i-1], ops[i])
    BY FollowsNext
  <2> QED
    BY <2>2, <2>3, <2>4
<1>2. \A i \in rev + 1..m : g[i] = Along(g[i-1], more[i])
  <2>1. \A i \in rev + 1..n : g[i] = Along(g[i-1], more[i])
    BY FollowsNext
  <2> QED
    BY <2>1
<1> PICK k \in Nat : k = m - rev
  OBVIOUS
<1> DEFINE T == {j \in Nat : f[rev + j] = g[rev + j]}
<1>3. 0 \in T
  <2>1. rev + 0 = rev
    OBVIOUS
  <2> QED
    BY <1>1, <2>1
<1>4. ASSUME NEW j \in 0..k - 1, j \in T
      PROVE  j + 1 \in T
  <2>1. PICK i \in rev + 1..m : i = rev + (j + 1) /\ i - 1 = rev + j
    OBVIOUS
  <2>2. f[i - 1] = g[i - 1]
    BY <1>4, <2>1
  <2>3. f[i] = Along(f[i-1], ops[i]) /\ g[i] = Along(g[i-1], more[i])
    BY <1>1, <1>2
  <2>4. more[i] = ops[i]
    BY DEF SameBetween
  <2>5. f[i] = g[i]
    BY <2>2, <2>3, <2>4
  <2> QED
    BY <2>1, <2>5
<1> HIDE DEF T
<1>5. \A j \in 0..k : j \in T
  BY <1>3, <1>4, Induction
<1>6. k \in T /\ rev + k = m
  BY <1>5
<1> QED
  BY <1>6 DEF T

LEMMA MappedFollows ==
  ASSUME NEW ops, NEW rev \in Nat, NEW n \in Nat, rev <= n, NEW start, NEW end
  PROVE  \E f : Follows(f, ops, rev, n, start, end) /\ Mapped(ops, rev, n, start, end) = f[n]
<1> DEFINE f == CHOOSE x : Follows(x, ops, rev, n, start, end)
<1>1. n - rev \in Nat /\ rev + (n - rev) = n
  OBVIOUS
<1>2. Follows(f, ops, rev, n, start, end)
  BY <1>1, FollowsOn
<1>3. Mapped(ops, rev, n, start, end) = f[n]
  BY DEF Mapped
<1> QED
  BY <1>2, <1>3

LEMMA MappedLonger ==
  ASSUME NEW ops, NEW more, NEW rev \in Nat, NEW n \in Nat, NEW q \in Nat, rev <= n, q = n + 1,
         NEW start, NEW end, SameBetween(rev, n, more, ops)
  PROVE  Mapped(more, rev, q, start, end) = Along(Mapped(ops, rev, n, start, end), more[q])
<1>1. PICK f : Follows(f, ops, rev, n, start, end) /\ Mapped(ops, rev, n, start, end) = f[n]
  BY MappedFollows
<1>2. rev <= q /\ n <= q
  OBVIOUS
<1>3. PICK g : Follows(g, more, rev, q, start, end) /\ Mapped(more, rev, q, start, end) = g[q]
  BY <1>2, MappedFollows
<1>4. Follows(f, ops, rev, n, start, end) /\ Follows(g, more, rev, q, start, end)
  BY <1>1, <1>3
<1>5. f[n] = g[n]
  BY <1>2, <1>4, FollowsAlike
<1>6. q \in rev + 1..q /\ q - 1 = n
  OBVIOUS
<1>7. g[q] = Along(g[q-1], more[q])
  BY <1>4, <1>6, FollowsNext
<1>8. g[q] = Along(g[n], more[q])
  BY <1>6, <1>7
<1> QED
  BY <1>1, <1>3, <1>5, <1>8

\* One operation more moves the range once more.
LEMMA MappedOn ==
  ASSUME NEW S, NEW ops \in Seq(S), NEW op, NEW rev \in 0..Len(ops), NEW start, NEW end
  PROVE  Mapped(Append(ops, op), rev, Len(ops) + 1, start, end) = Along(Mapped(ops, rev, Len(ops), start, end), op)
<1> DEFINE more == Append(ops, op)
<1>1. more[Len(ops) + 1] = op /\ \A i \in 1..Len(ops) : more[i] = ops[i]
  OBVIOUS
<1> HIDE DEF more
<1>2. rev \in Nat /\ Len(ops) \in Nat /\ Len(ops) + 1 \in Nat /\ rev <= Len(ops)
  OBVIOUS
<1>3. SameBetween(rev, Len(ops), more, ops)
  BY <1>1, <1>2 DEF SameBetween
<1>4. Mapped(more, rev, Len(ops) + 1, start, end) = Along(Mapped(ops, rev, Len(ops), start, end), more[Len(ops) + 1])
  BY <1>2, <1>3, MappedLonger
<1> QED
  BY <1>1, <1>4 DEF more

-----------------------------------------------------------------------------
(* What a viewer shows when it has read what was sent.                     *)

\* Reading messages leads from what is shown before to what is shown after.
Leads(v, messages, w) ==
  \E f : /\ f[0] = v /\ f[Len(messages)] = w
         /\ \A k \in 1..Len(messages) : f[k] = Shows(f[k-1], messages[k])

LEMMA LeadsNowhere ==
  ASSUME NEW v, NEW w
  PROVE  Leads(v, <<>>, w) <=> v = w
<1>1. ASSUME v = w
      PROVE  Leads(v, <<>>, w)
  <2> DEFINE f == [k \in {0} |-> v]
  <2>1. f[0] = v /\ f[0] = w /\ Len(<<>>) = 0 /\ 1..0 = {}
    BY <1>1
  <2> HIDE DEF f
  <2> QED
    BY <2>1 DEF Leads
<1>2. ASSUME Leads(v, <<>>, w)
      PROVE  v = w
  BY <1>2 DEF Leads
<1> QED
  BY <1>1, <1>2

LEMMA LeadsOne ==
  ASSUME NEW v, NEW m
  PROVE  Leads(v, <<m>>, Shows(v, m))
<1> PICK w : w = Shows(v, m)
  OBVIOUS
<1> DEFINE f == [k \in 0..1 |-> IF k = 0 THEN v ELSE w]
<1>1. f[0] = v /\ f[1] = w /\ Len(<<m>>) = 1 /\ <<m>>[1] = m
  OBVIOUS
<1> HIDE DEF f
<1>2. \A k \in 1..1 : f[k] = Shows(f[k-1], <<m>>[k])
  <2> TAKE k \in 1..1
  <2>1. k = 1 /\ k - 1 = 0
    OBVIOUS
  <2> QED
    BY <1>1, <2>1
<1> QED
  BY <1>1, <1>2 DEF Leads

LEMMA LeadsOn ==
  ASSUME NEW v, NEW w, NEW x, NEW a, NEW b, IsSeq(a), IsSeq(b), Leads(v, a, w), Leads(w, b, x)
  PROVE  Leads(v, a \o b, x)
<1> PICK n \in Nat, m \in Nat : n = Len(a) /\ m = Len(b)
  BY Seqs
<1> PICK c : c = a \o b
  OBVIOUS
<1>1. Len(c) = n + m /\ (\A k \in 1..n : c[k] = a[k]) /\ \A k \in n + 1..n + m : c[k] = b[k - n]
  <2>1. PICK S, T : a \in Seq(S) /\ b \in Seq(T)
    BY DEF IsSeq
  <2>2. a \in Seq(S \cup T) /\ b \in Seq(S \cup T)
    BY <2>1
  <2> QED
    BY <2>2
<1>2. PICK f : f[0] = v /\ f[n] = w /\ \A k \in 1..n : f[k] = Shows(f[k-1], a[k])
  BY DEF Leads
<1>3. PICK g : g[0] = w /\ g[m] = x /\ \A k \in 1..m : g[k] = Shows(g[k-1], b[k])
  BY DEF Leads
<1> DEFINE h == [k \in 0..n + m |-> IF k <= n THEN f[k] ELSE g[k - n]]
<1>4. \A k \in 0..n + m : h[k] = IF k <= n THEN f[k] ELSE g[k - n]
  OBVIOUS
<1> HIDE DEF h
<1>5. h[0] = v /\ h[n + m] = x
  <2>1. CASE m = 0
    BY <1>2, <1>3, <1>4, <2>1
  <2>2. CASE m # 0
    BY <1>2, <1>3, <1>4, <2>2
  <2> QED
    BY <2>1, <2>2
<1>6. ASSUME NEW k \in 1..n + m
      PROVE  h[k] = Shows(h[k-1], c[k])
  <2>1. CASE k <= n
    <3>1. k \in 1..n /\ h[k] = f[k] /\ h[k-1] = f[k-1]
      BY <1>4, <2>1
    <3> QED
      BY <1>1, <1>2, <3>1
  <2>2. CASE k > n
    <3>1. k - n \in 1..m /\ k \in n + 1..n + m /\ h[k] = g[k - n]
      BY <1>4, <2>2
    <3>2. h[k-1] = g[(k - n) - 1]
      <4>1. CASE k - 1 = n
        <5>1. h[k-1] = f[n] /\ (k - n) - 1 = 0
          BY <1>4, <4>1
        <5> QED
          BY <1>2, <1>3, <5>1
      <4>2. CASE k - 1 # n
        <5>1. k - 1 \in 0..n + m /\ ~(k - 1 <= n) /\ (k - 1) - n = (k - n) - 1
          BY <2>2, <4>2
        <5> QED
          BY <1>4, <5>1
      <4> QED
        BY <4>1, <4>2
    <3>3. g[k - n] = Shows(g[(k - n) - 1], b[k - n])
      BY <1>3, <3>1
    <3> QED
      BY <1>1, <3>1, <3>2, <3>3
  <2> QED
    BY <2>1, <2>2
<1> QED
  BY <1>1, <1>5, <1>6 DEF Leads

LEMMA LeadsRest ==
  ASSUME NEW v, NEW w, NEW a, IsSeq(a), a # <<>>, Leads(v, a, w)
  PROVE  Leads(Shows(v, Head(a)), Tail(a), w)
<1> PICK n \in Nat : n = Len(a) - 1 /\ Len(a) = n + 1
  BY DEF IsSeq
<1> PICK b : b = Tail(a)
  OBVIOUS
<1>1. Len(b) = n /\ Head(a) = a[1] /\ \A k \in 1..n : b[k] = a[k + 1]
  <2>1. PICK S : a \in Seq(S)
    BY DEF IsSeq
  <2> QED
    BY <2>1
<1>2. PICK f : f[0] = v /\ f[n + 1] = w /\ \A k \in 1..n + 1 : f[k] = Shows(f[k-1], a[k])
  BY DEF Leads
<1> DEFINE h == [k \in 0..n |-> f[k + 1]]
<1>3. \A k \in 0..n : h[k] = f[k + 1]
  OBVIOUS
<1> HIDE DEF h
<1>4. h[0] = Shows(v, Head(a)) /\ h[n] = w
  <2>1. 1 \in 1..n + 1 /\ 1 - 1 = 0
    OBVIOUS
  <2>2. f[1] = Shows(f[0], a[1])
    BY <1>2, <2>1
  <2> QED
    BY <1>1, <1>2, <1>3, <2>2
<1>5. ASSUME NEW k \in 1..n
      PROVE  h[k] = Shows(h[k-1], b[k])
  <2>1. k + 1 \in 1..n + 1 /\ (k + 1) - 1 = k /\ k - 1 \in 0..n /\ (k - 1) + 1 = k
    OBVIOUS
  <2>2. f[k + 1] = Shows(f[k], a[k + 1])
    BY <1>2, <2>1
  <2>3. h[k] = f[k + 1] /\ h[k-1] = f[k]
    BY <1>3, <2>1
  <2> QED
    BY <1>1, <2>2, <2>3
<1> QED
  BY <1>1, <1>4, <1>5 DEF Leads

\* Messages about suggestions bring every suggestion they name up to date.
Brought(A, O, ids, k) ==
  LET done == {ids[j] : j \in 1..k}
  IN  [i \in {j \in DOMAIN A \cup DOMAIN O : IF j \in done THEN j \in DOMAIN O ELSE j \in DOMAIN A} |->
         IF i \in done THEN O[i] ELSE A[i]]

LEMMA BroughtOne ==
  ASSUME NEW A, NEW O, NEW ids, NEW k \in Nat, k # 0, NEW i, i = ids[k]
  PROVE  Brought(A, O, ids, k) = IF i \in DOMAIN O THEN Put(Brought(A, O, ids, k - 1), i, O[i])
                                 ELSE Without(Brought(A, O, ids, k - 1), i)
<1> DEFINE done == {ids[j] : j \in 1..k}  before == {ids[j] : j \in 1..k - 1}
           dom == {j \in DOMAIN A \cup DOMAIN O : IF j \in done THEN j \in DOMAIN O ELSE j \in DOMAIN A}
           was == {j \in DOMAIN A \cup DOMAIN O : IF j \in before THEN j \in DOMAIN O ELSE j \in DOMAIN A}
           Now1(j) == IF j \in done THEN O[j] ELSE A[j]
           Then(j) == IF j \in before THEN O[j] ELSE A[j]
           old == [j \in was |-> Then(j)]
<1>1. done = before \cup {i}
  <2>1. 1..k = (1..k - 1) \cup {k}
    OBVIOUS
  <2> QED
    BY <2>1
<1>2. Brought(A, O, ids, k) = [j \in dom |-> Now1(j)] /\ Brought(A, O, ids, k - 1) = old
  BY DEF Brought
<1> HIDE DEF done, before
<1>3. \A j : j # i => Now1(j) = Then(j) /\ (j \in dom <=> j \in was)
  BY <1>1
<1>4. Now1(i) = O[i] /\ (i \in dom <=> i \in DOMAIN O)
  BY <1>1
<1> HIDE DEF dom, was, Now1, Then
<1>5. DOMAIN old = was /\ \A j \in was : old[j] = Then(j)
  OBVIOUS
<1> HIDE DEF old
<1>6. CASE i \in DOMAIN O
  <2>1. dom = was \cup {i}
    BY <1>3, <1>4, <1>6
  <2>2. Put(old, i, O[i]) = [j \in was \cup {i} |-> IF j = i THEN O[i] ELSE old[j]]
    BY <1>5 DEF Put
  <2>3. [j \in dom |-> Now1(j)] = [j \in was \cup {i} |-> IF j = i THEN O[i] ELSE old[j]]
    BY <1>3, <1>4, <1>5, <2>1
  <2> QED
    BY <1>2, <1>6, <2>2, <2>3
<1>7. CASE i \notin DOMAIN O
  <2>1. dom = was \ {i}
    BY <1>3, <1>4, <1>7
  <2>2. Without(old, i) = [j \in was \ {i} |-> old[j]]
    BY <1>5 DEF Without
  <2>3. [j \in dom |-> Now1(j)] = [j \in was \ {i} |-> old[j]]
    BY <1>3, <1>5, <2>1
  <2> QED
    BY <1>2, <1>7, <2>2, <2>3
<1> QED
  BY <1>6, <1>7

IsFcn(f) == f = [i \in DOMAIN f |-> f[i]]

LEMMA BroughtFirst ==
  ASSUME NEW A, NEW O, NEW ids, IsFcn(A)
  PROVE  Brought(A, O, ids, 0) = A
<1>1. {ids[j] : j \in 1..0} = {}
  OBVIOUS
<1>2. Brought(A, O, ids, 0) = [i \in DOMAIN A |-> A[i]]
  <2> DEFINE dom == {j \in DOMAIN A \cup DOMAIN O : IF j \in {} THEN j \in DOMAIN O ELSE j \in DOMAIN A}
  <2>1. dom = DOMAIN A
    OBVIOUS
  <2>2. Brought(A, O, ids, 0) = [i \in dom |-> IF i \in {} THEN O[i] ELSE A[i]]
    BY <1>1 DEF Brought
  <2> HIDE DEF dom
  <2> QED
    BY <2>1, <2>2
<1> QED
  BY <1>2 DEF IsFcn

LEMMA BroughtLast ==
  ASSUME NEW A, NEW O, NEW ids, NEW n \in Nat, IsFcn(O),
         \A i : i \notin {ids[j] : j \in 1..n} =>
                 (i \in DOMAIN A <=> i \in DOMAIN O) /\ (i \in DOMAIN O => A[i] = O[i])
  PROVE  Brought(A, O, ids, n) = O
<1> DEFINE done == {ids[j] : j \in 1..n}
           dom == {j \in DOMAIN A \cup DOMAIN O : IF j \in done THEN j \in DOMAIN O ELSE j \in DOMAIN A}
<1>1. Brought(A, O, ids, n) = [i \in dom |-> IF i \in done THEN O[i] ELSE A[i]]
  BY DEF Brought
<1> HIDE DEF done
<1>2. \A i : i \notin done => (i \in DOMAIN A <=> i \in DOMAIN O) /\ (i \in DOMAIN O => A[i] = O[i])
  BY DEF done
<1>3. dom = DOMAIN O
  BY <1>2
<1> HIDE DEF dom
<1>4. [i \in dom |-> IF i \in done THEN O[i] ELSE A[i]] = [i \in DOMAIN O |-> O[i]]
  BY <1>2, <1>3
<1> QED
  BY <1>1, <1>4 DEF IsFcn

\* The suggestions a sequence of ids names.
Named(ids) == {ids[k] : k \in 1..Len(ids)}

Views(sugs, agents) == [sugs |-> sugs, agents |-> agents]

LEMMA ShowsSug ==
  ASSUME NEW sugs, NEW agents, NEW i, NEW s
  PROVE  Shows(Views(sugs, agents), [t |-> "sug", id |-> i, s |-> s])
           = Views(IF Open(s) THEN Put(sugs, i, s) ELSE Without(sugs, i), agents)
<1> DEFINE v == [sugs |-> sugs, agents |-> agents]
           new == IF Open(s) THEN Put(sugs, i, s) ELSE Without(sugs, i)
<1>1. Shows(v, [t |-> "sug", id |-> i, s |-> s]) = [v EXCEPT !.sugs = new]
  BY DEF Shows
<1> HIDE DEF new
<1>2. [v EXCEPT !.sugs = new] = [sugs |-> new, agents |-> agents]
  OBVIOUS
<1> QED
  BY <1>1, <1>2 DEF Views, new

LEMMA ShowsPresence ==
  ASSUME NEW sugs, NEW agents, NEW new
  PROVE  Shows(Views(sugs, agents), Presence(new)) = Views(sugs, new)
<1> DEFINE v == [sugs |-> sugs, agents |-> agents]
<1>1. Shows(v, [t |-> "presence", agents |-> new]) = [v EXCEPT !.agents = new]
  BY DEF Shows
<1>2. [v EXCEPT !.agents = new] = [sugs |-> sugs, agents |-> new]
  OBVIOUS
<1> QED
  BY <1>1, <1>2 DEF Views, Presence

LEMMA ShowsOp ==
  ASSUME NEW sugs, NEW agents, NEW op
  PROVE  Shows(Views(sugs, agents), [t |-> "op", op |-> op]) = Views(Advanced(sugs, op), RangesMoved(agents, op))
BY DEF Shows, Views

LEMMA ShowsInit ==
  ASSUME NEW v, NEW sugs, NEW agents
  PROVE  Shows(v, [t |-> "init", sugs |-> sugs, agents |-> agents]) = Views(sugs, agents)
BY DEF Shows, Views

LEMMA OpenOfIs ==
  ASSUME NEW d
  PROVE  /\ IsFcn(OpenOf(d)) /\ DOMAIN OpenOf(d) = {i \in DOMAIN d.sugs : Open(d.sugs[i])}
         /\ \A i \in DOMAIN d.sugs : Open(d.sugs[i]) => OpenOf(d)[i] = d.sugs[i]
BY DEF OpenOf, IsFcn

\* Messages about the suggestions that differ lead to what is open.
LEMMA SugsLead ==
  ASSUME NEW d, NEW A, IsFcn(A), NEW agents, NEW ids \in Seq(DOMAIN d.sugs),
         \A i : i \notin Named(ids) =>
                 /\ i \in DOMAIN A <=> i \in DOMAIN OpenOf(d)
                 /\ i \in DOMAIN OpenOf(d) => A[i] = OpenOf(d)[i]
  PROVE  Leads(Views(A, agents), SugMessages(d, ids), Views(OpenOf(d), agents))
<1> DEFINE O == OpenOf(d)
           Message(k) == [t |-> "sug", id |-> ids[k], s |-> d.sugs[ids[k]]]
           ms == SugMessages(d, ids)
           f == [k \in 0..Len(ids) |-> Views(Brought(A, O, ids, k), agents)]
<1> PICK n \in Nat : n = Len(ids)
  OBVIOUS
<1>1. Len(ms) = n /\ \A k \in 1..n : ms[k] = Message(k) /\ ids[k] \in DOMAIN d.sugs
  BY DEF SugMessages
<1>2. \A k \in 0..n : f[k] = Views(Brought(A, O, ids, k), agents)
  OBVIOUS
<1> HIDE DEF f, ms
<1>3. f[0] = Views(A, agents)
  <2>1. Brought(A, O, ids, 0) = A
    BY BroughtFirst
  <2> QED
    BY <1>2, <2>1
<1>4. f[n] = Views(O, agents)
  <2>1. IsFcn(O)
    BY OpenOfIs
  <2>2. \A i : i \notin {ids[j] : j \in 1..n} =>
                (i \in DOMAIN A <=> i \in DOMAIN O) /\ (i \in DOMAIN O => A[i] = O[i])
    BY DEF Named
  <2> HIDE DEF O
  <2>3. Brought(A, O, ids, n) = O
    BY <2>1, <2>2, BroughtLast
  <2> QED
    BY <1>2, <2>3
<1>5. ASSUME NEW k \in 1..n
      PROVE  f[k] = Shows(f[k-1], ms[k])
  <2> PICK i \in DOMAIN d.sugs : i = ids[k]
    BY <1>1
  <2> PICK X : X = Brought(A, O, ids, k - 1)
    OBVIOUS
  <2>1. Brought(A, O, ids, k) = IF i \in DOMAIN O THEN Put(X, i, O[i]) ELSE Without(X, i)
    BY BroughtOne
  <2>2. (i \in DOMAIN O <=> Open(d.sugs[i])) /\ (Open(d.sugs[i]) => O[i] = d.sugs[i])
    BY OpenOfIs
  <2> PICK s : s = d.sugs[i]
    OBVIOUS
  <2>3. Brought(A, O, ids, k) = IF Open(s) THEN Put(X, i, s) ELSE Without(X, i)
    BY <2>1, <2>2
  <2>4. ms[k] = [t |-> "sug", id |-> i, s |-> s]
    BY <1>1
  <2>5. Shows(Views(X, agents), ms[k]) = Views(IF Open(s) THEN Put(X, i, s) ELSE Without(X, i), agents)
    BY <2>4, ShowsSug
  <2>6. k \in 0..n /\ k - 1 \in 0..n
    OBVIOUS
  <2>7. f[k-1] = Views(X, agents) /\ f[k] = Views(Brought(A, O, ids, k), agents)
    BY <1>2, <2>6
  <2> QED
    BY <2>3, <2>5, <2>7
<1> QED
  BY <1>1, <1>3, <1>4, <1>5 DEF Leads, ms

\* What is not changed has its status.
LEMMA ChangedAll ==
  ASSUME NEW d, NEW e, DocOK(e), NEW i \in DOMAIN e.sugs,
         i \notin DOMAIN d.sugs \/ d.sugs[i].status # e.sugs[i].status
  PROVE  i \in Named(Changed(d, e))
<1> DEFINE ids == [j \in DOMAIN e.sugs |-> j]
           S == {j \in DOMAIN e.sugs : j \notin DOMAIN d.sugs \/ d.sugs[j].status # e.sugs[j].status}
<1>1. PICK n \in Nat : DOMAIN e.sugs = 1..n
  BY Seqs DEF DocOK
<1>2. Len(ids) = n /\ ids[i] = i /\ i \in 1..n
  BY <1>1
<1>3. Changed(d, e) = Selected(ids, S) /\ i \in S
  BY DEF Changed
<1> HIDE DEF ids, S
<1>4. PICK g : Placed(g, Selected(ids, S), ids, Len(ids), S)
  BY <1>2, SelectedKeeps
<1>5. g[i] \in 1..Len(Selected(ids, S)) /\ Selected(ids, S)[g[i]] = i
  BY <1>2, <1>3, <1>4 DEF Placed
<1> QED
  BY <1>3, <1>5 DEF Named

MovedTo(s, op, status) ==
  LET r == MapRange(op, s.start, s.end)
  IN  [run |-> s.run, agent |-> s.agent, start |-> r[1], end |-> r[2], placement |-> s.placement,
       original |-> s.original, text |-> s.text, status |-> status]

LEMMA MovedIs ==
  ASSUME NEW s, Fields(s), Open(s), NEW op
  PROVE  /\ Moved(s, op) = MovedTo(s, op, IF MapRange(op, s.start, s.end)[3] THEN "stale" ELSE s.status)
         /\ Open(Moved(s, op))
<1> PICK r : r = MapRange(op, s.start, s.end)
  OBVIOUS
<1> DEFINE st == IF r[3] THEN "stale" ELSE s.status
<1>1. Moved(s, op) = [s EXCEPT !.start = r[1], !.end = r[2], !.status = st]
  BY DEF Moved
<1>2. MovedTo(s, op, st) = [run |-> s.run, agent |-> s.agent, start |-> r[1], end |-> r[2],
                            placement |-> s.placement, original |-> s.original, text |-> s.text, status |-> st]
  BY DEF MovedTo
<1>3. Open([status |-> st])
  BY DEF Open
<1> HIDE DEF st
<1>4. Moved(s, op) = MovedTo(s, op, st)
  BY <1>1, <1>2 DEF Fields
<1>5. Moved(s, op).status = st
  BY <1>2, <1>4
<1> QED
  BY <1>3, <1>4, <1>5 DEF st, Open

LEMMA AdvancedIs ==
  ASSUME NEW sugs, NEW op
  PROVE  /\ IsFcn(Advanced(sugs, op)) /\ DOMAIN Advanced(sugs, op) = DOMAIN sugs
         /\ \A i \in DOMAIN sugs : Fields(sugs[i]) => Advanced(sugs, op)[i] = MovedTo(sugs[i], op, sugs[i].status)
<1> DEFINE To(s) == LET r == MapRange(op, s.start, s.end) IN [s EXCEPT !.start = r[1], !.end = r[2]]
<1>1. Advanced(sugs, op) = [i \in DOMAIN sugs |-> To(sugs[i])]
  BY DEF Advanced
<1>2. ASSUME NEW s, Fields(s)
      PROVE  To(s) = MovedTo(s, op, s.status)
  <2> PICK r : r = MapRange(op, s.start, s.end)
    OBVIOUS
  <2>1. MovedTo(s, op, s.status) = [run |-> s.run, agent |-> s.agent, start |-> r[1], end |-> r[2],
              placement |-> s.placement, original |-> s.original, text |-> s.text, status |-> s.status]
    BY DEF MovedTo
  <2>2. To(s) = [s EXCEPT !.start = r[1], !.end = r[2]]
    OBVIOUS
  <2> HIDE DEF To
  <2> QED
    BY <1>2, <2>1, <2>2 DEF Fields
<1> HIDE DEF To
<1> QED
  BY <1>1, <1>2 DEF IsFcn

\* A suggestion nothing is said about has moved where the viewer moved it.
LEMMA OpKeeps ==
  ASSUME NEW d, NEW r, DocOK(d), RecordOK(d, r), r.k = "op",
         NEW i, i \notin Named(Changed(d, ApplyRecord(d, r)))
  PROVE  LET A == Advanced(OpenOf(d), r.op)  O == OpenOf(ApplyRecord(d, r))
         IN  (i \in DOMAIN A <=> i \in DOMAIN O) /\ (i \in DOMAIN O => A[i] = O[i])
<1> DEFINE A == Advanced(OpenOf(d), r.op)
           New(j) == IF j = r.accepts THEN [d.sugs[j] EXCEPT !.status = "accepted"] ELSE Moved(d.sugs[j], r.op)
<1> PICK e : e = ApplyRecord(d, r)
  OBVIOUS
<1>1. e.sugs = [j \in DOMAIN d.sugs |-> New(j)]
  BY DEF ApplyRecord
<1>2. DocOK(e)
  BY RecordGoesOn
<1>3. i \in DOMAIN e.sugs => i \in DOMAIN d.sugs /\ d.sugs[i].status = e.sugs[i].status
  BY <1>2, ChangedAll
<1>4. DOMAIN e.sugs = DOMAIN d.sugs
  BY <1>1
<1>5. /\ DOMAIN A = {j \in DOMAIN d.sugs : Open(d.sugs[j])}
      /\ DOMAIN OpenOf(e) = {j \in DOMAIN e.sugs : Open(e.sugs[j])}
  BY AdvancedIs, OpenOfIs
<1>6. i \in DOMAIN A <=> i \in DOMAIN OpenOf(e)
  BY <1>3, <1>4, <1>5 DEF Open
<1>7. ASSUME i \in DOMAIN OpenOf(e)
      PROVE  A[i] = OpenOf(e)[i]
  <2> PICK s : s = d.sugs[i]
    OBVIOUS
  <2>1. i \in DOMAIN d.sugs /\ Open(e.sugs[i]) /\ Open(s) /\ Fields(s) /\ e.sugs[i].status = s.status
    BY <1>3, <1>4, <1>5, <1>7 DEF DocOK, Open
  <2>2. e.sugs[i] = New(i)
    BY <1>1, <2>1
  <2>3. i # r.accepts
    <3> SUFFICES ASSUME i = r.accepts PROVE FALSE
      OBVIOUS
    <3>1. e.sugs[i] = [s EXCEPT !.status = "accepted"]
      BY <2>2
    <3>2. e.sugs[i].status = "accepted"
      BY <2>1, <3>1 DEF Fields
    <3> QED
      BY <2>1, <3>2 DEF Open
  <2>4. e.sugs[i] = Moved(s, r.op)
    BY <2>2, <2>3
  <2> PICK status : status = IF MapRange(r.op, s.start, s.end)[3] THEN "stale" ELSE s.status
    OBVIOUS
  <2>5. e.sugs[i] = MovedTo(s, r.op, status)
    BY <2>1, <2>4, MovedIs
  <2>6. e.sugs[i].status = status
    BY <2>5 DEF MovedTo
  <2>7. OpenOf(e)[i] = e.sugs[i] /\ OpenOf(d)[i] = s /\ i \in DOMAIN OpenOf(d)
    BY <1>4, <2>1, OpenOfIs
  <2>8. A[i] = MovedTo(s, r.op, s.status)
    BY <2>1, <2>7, AdvancedIs
  <2> QED
    BY <2>1, <2>5, <2>6, <2>7, <2>8
<1> QED
  BY <1>6, <1>7

-----------------------------------------------------------------------------
(* What the viewer shows: the invariant and its steps.                     *)

\* What was sent and what will be leads a viewer to what is open and who is at work.
ViewInv == joined => Leads(view, wire \o after, Views(OpenOf(doc), shown))

LEMMA SameSeq ==
  ASSUME NEW s, IsSeq(s)
  PROVE  s \o <<>> = s /\ <<>> \o s = s
<1>1. PICK S : s \in Seq(S)
  BY DEF IsSeq
<1> QED
  BY <1>1

LEMMA ConcIsSeq ==
  ASSUME NEW a, NEW b, NEW c, IsSeq(a), IsSeq(b), IsSeq(c)
  PROVE  IsSeq(a \o b) /\ a \o (b \o c) = (a \o b) \o c
<1>1. PICK S, T, U : a \in Seq(S) /\ b \in Seq(T) /\ c \in Seq(U)
  BY DEF IsSeq
<1>2. a \in Seq(S \cup T \cup U) /\ b \in Seq(S \cup T \cup U) /\ c \in Seq(S \cup T \cup U)
  BY <1>1
<1>3. a \o b \in Seq(S \cup T \cup U)
  BY <1>2
<1>4. a \o (b \o c) = (a \o b) \o c
  BY <1>2
<1> QED
  BY <1>3, <1>4 DEF IsSeq

LEMMA ViewTells ==
  ASSUME DecInv, ViewInv, NEW messages, IsSeq(messages), Tell(messages), UNCHANGED <<wire, view, joined>>,
         Leads(Views(OpenOf(doc), shown), messages, Views(OpenOf(doc'), shown'))
  PROVE  ViewInv'
<1>1. CASE joined
  <2>1. after' = after \o messages /\ IsSeq(wire) /\ IsSeq(after)
    BY <1>1 DEF Tell, DecInv
  <2>2. wire \o after' = (wire \o after) \o messages /\ IsSeq(wire \o after)
    BY <2>1, ConcIsSeq
  <2>3. Leads(view, wire \o after, Views(OpenOf(doc), shown))
    BY <1>1 DEF ViewInv
  <2>4. Leads(view, wire \o after', Views(OpenOf(doc'), shown'))
    BY <2>2, <2>3, LeadsOn
  <2> QED
    BY <2>4 DEF ViewInv
<1>2. CASE ~joined
  BY <1>2 DEF ViewInv
<1> QED
  BY <1>1, <1>2

LEMMA ViewUnmoved ==
  ASSUME ViewInv, UNCHANGED <<doc, shown, after, joined, wire, view>>
  PROVE  ViewInv'
BY DEF ViewInv

\* Messages about one suggestion.
LEMMA OneLeads ==
  ASSUME NEW d, NEW e, NEW i \in DOMAIN e.sugs, NEW agents,
         \A j : j # i => /\ j \in DOMAIN OpenOf(d) <=> j \in DOMAIN OpenOf(e)
                         /\ j \in DOMAIN OpenOf(e) => OpenOf(d)[j] = OpenOf(e)[j]
  PROVE  /\ Leads(Views(OpenOf(d), agents), SugMessages(e, <<i>>), Views(OpenOf(e), agents))
         /\ SugMessages(e, <<i>>) = <<[t |-> "sug", id |-> i, s |-> e.sugs[i]]>> /\ IsSeq(SugMessages(e, <<i>>))
<1> PICK ids : ids = <<i>>
  OBVIOUS
<1>1. ids \in Seq(DOMAIN e.sugs) /\ Len(ids) = 1 /\ ids[1] = i
  <2>1. ids \in Seq(DOMAIN e.sugs)
    BY OneIsSeq
  <2>2. Len(ids) = 1 /\ ids[1] = i
    OBVIOUS
  <2> QED
    BY <2>1, <2>2
<1>2. \A j : j \notin Named(ids) =>
              /\ j \in DOMAIN OpenOf(d) <=> j \in DOMAIN OpenOf(e)
              /\ j \in DOMAIN OpenOf(e) => OpenOf(d)[j] = OpenOf(e)[j]
  <2>1. i \in Named(ids)
    BY <1>1 DEF Named
  <2> QED
    BY <2>1
<1>3. IsFcn(OpenOf(d))
  BY OpenOfIs
<1>4. Leads(Views(OpenOf(d), agents), SugMessages(e, ids), Views(OpenOf(e), agents))
  BY <1>1, <1>2, <1>3, SugsLead
<1>5. SugMessages(e, ids) = <<[t |-> "sug", id |-> i, s |-> e.sugs[i]]>>
  BY DEF SugMessages
<1>6. IsSeq(SugMessages(e, ids))
  BY <1>1, SugMessagesBear
<1> QED
  BY <1>4, <1>5, <1>6

\* Two documents have the same suggestions, one apart.
Alike(d, e, i) ==
  \A j : j # i => /\ j \in DOMAIN d.sugs <=> j \in DOMAIN e.sugs
                  /\ j \in DOMAIN d.sugs => e.sugs[j] = d.sugs[j]

LEMMA OpenAlike ==
  ASSUME NEW d, NEW e, NEW i, Alike(d, e, i)
  PROVE  \A j : j # i => /\ j \in DOMAIN OpenOf(d) <=> j \in DOMAIN OpenOf(e)
                         /\ j \in DOMAIN OpenOf(e) => OpenOf(d)[j] = OpenOf(e)[j]
<1> TAKE j
<1> HAVE j # i
<1>1. \A c : /\ j \in DOMAIN OpenOf(c) <=> j \in DOMAIN c.sugs /\ Open(c.sugs[j])
             /\ j \in DOMAIN OpenOf(c) => OpenOf(c)[j] = c.sugs[j]
  BY DEF OpenOf
<1>2. j \in DOMAIN OpenOf(d) <=> j \in DOMAIN OpenOf(e)
  BY <1>1 DEF Alike, Open
<1>3. ASSUME j \in DOMAIN OpenOf(e)
      PROVE  OpenOf(d)[j] = OpenOf(e)[j]
  BY <1>1, <1>2, <1>3 DEF Alike
<1> QED
  BY <1>2, <1>3

LEMMA OpLeads ==
  ASSUME NEW d, NEW r, DocOK(d), RecordOK(d, r), r.k = "op", NEW agents,
         NEW messages, messages = <<[t |-> "op", op |-> r.op]>>
                                    \o SugMessages(ApplyRecord(d, r), Changed(d, ApplyRecord(d, r)))
  PROVE  /\ IsSeq(messages)
         /\ Leads(Views(OpenOf(d), agents), messages, Views(OpenOf(ApplyRecord(d, r)), RangesMoved(agents, r.op)))
<1> PICK e, ids : e = ApplyRecord(d, r) /\ ids = Changed(d, e)
  OBVIOUS
<1> PICK m : m = [t |-> "op", op |-> r.op]
  OBVIOUS
<1> DEFINE A == Advanced(OpenOf(d), r.op)  moved == RangesMoved(agents, r.op)  rest == SugMessages(e, ids)
<1>1. Leads(Views(OpenOf(d), agents), <<m>>, Views(A, moved))
  <2>1. Shows(Views(OpenOf(d), agents), m) = Views(A, moved)
    BY ShowsOp
  <2> QED
    BY <2>1, LeadsOne
<1>2. DocOK(e)
  BY RecordGoesOn
<1>3. ids \in Seq(DOMAIN e.sugs)
  BY <1>2, ChangedAre
<1>4. \A i : i \notin Named(ids) =>
              (i \in DOMAIN A <=> i \in DOMAIN OpenOf(e)) /\ (i \in DOMAIN OpenOf(e) => A[i] = OpenOf(e)[i])
  BY OpKeeps
<1>5. IsFcn(A)
  BY AdvancedIs
<1> HIDE DEF A, moved
<1>6. Leads(Views(A, moved), SugMessages(e, ids), Views(OpenOf(e), moved))
  BY <1>3, <1>4, <1>5, SugsLead
<1>7. IsSeq(rest)
  BY <1>3, SugMessagesBear
<1> HIDE DEF rest
<1>8. IsSeq(<<m>>) /\ messages = <<m>> \o rest
  BY Single DEF Bears, rest
<1>9. Leads(Views(OpenOf(d), agents), <<m>> \o rest, Views(OpenOf(e), moved))
  BY <1>1, <1>6, <1>7, <1>8, LeadsOn DEF rest
<1>10. IsSeq(<<m>> \o rest)
  BY <1>7, <1>8, ConcIsSeq
<1> QED
  BY <1>8, <1>9, <1>10 DEF moved

LEMMA CommitOpView ==
  ASSUME DecInv, ViewInv, alive, NEW r, r.k = "op", RecordOK(doc, r), CommitOp(r), UNCHANGED <<wire, view, joined>>
  PROVE  ViewInv'
<1> DEFINE e == ApplyRecord(doc, r)
<1> PICK messages : messages = <<[t |-> "op", op |-> r.op]>> \o SugMessages(e, Changed(doc, e))
  OBVIOUS
<1>1. doc' = e /\ shown' = RangesMoved(shown, r.op) /\ Tell(messages)
  BY DEF CommitOp, Commit
<1>2. DocOK(doc)
  BY LastState DEF DecInv
<1>3. IsSeq(messages) /\ Leads(Views(OpenOf(doc), shown), messages, Views(OpenOf(e), RangesMoved(shown, r.op)))
  BY <1>2, OpLeads
<1> HIDE DEF e
<1>4. Leads(Views(OpenOf(doc), shown), messages, Views(OpenOf(doc'), shown'))
  BY <1>1, <1>3
<1> QED
  BY <1>1, <1>3, <1>4, ViewTells

LEMMA EditView ==
  ASSUME DecInv, ViewInv, NEW start, NEW end, NEW text, Edit(start, end, text)
  PROVE  ViewInv'
<1>1. PICK op : CommitOp([k |-> "op", op |-> op, by |-> Person, accepts |-> 0])
  BY DEF Edit
<1>2. alive /\ UNCHANGED <<wire, view, joined>>
  BY DEF Edit, viewer
<1> DEFINE r == [k |-> "op", op |-> op, by |-> Person, accepts |-> 0]
<1>3. r.k = "op" /\ RecordOK(doc, r)
  BY DEF RecordOK
<1> HIDE DEF r
<1>4. CommitOp(r)
  BY <1>1 DEF r
<1> QED
  BY <1>2, <1>3, <1>4, CommitOpView

LEMMA AcceptView ==
  ASSUME DecInv, ViewInv, alive, UNCHANGED <<wire, view, joined>>, NEW i \in DOMAIN doc.sugs, Accept(i)
  PROVE  ViewInv'
<1>1. CASE ~CanAccept(doc.sugs[i])
  <2> DEFINE ms == SugMessages(doc, <<i>>)
  <2>1. Tell(ms) /\ UNCHANGED <<doc, shown>>
    BY <1>1 DEF Accept
  <2>2. Leads(Views(OpenOf(doc), shown), ms, Views(OpenOf(doc), shown)) /\ IsSeq(ms)
    BY OneLeads
  <2> HIDE DEF ms
  <2>3. Leads(Views(OpenOf(doc), shown), ms, Views(OpenOf(doc'), shown'))
    BY <2>1, <2>2
  <2> QED
    BY <2>1, <2>2, <2>3, ViewTells
<1>2. CASE UNCHANGED <<doc, log, shown, after>>
  BY <1>2, ViewUnmoved
<1>3. ASSUME CanAccept(doc.sugs[i]), NEW op, NEW by,
             CommitOp([k |-> "op", op |-> op, by |-> by, accepts |-> i])
      PROVE  ViewInv'
  <2> DEFINE r == [k |-> "op", op |-> op, by |-> by, accepts |-> i]
  <2>1. r.k = "op" /\ RecordOK(doc, r)
    BY <1>3 DEF RecordOK, CanAccept, Open
  <2> HIDE DEF r
  <2>2. CommitOp(r)
    BY <1>3 DEF r
  <2> QED
    BY <2>1, <2>2, CommitOpView
<1> QED
  BY <1>1, <1>2, <1>3 DEF Accept

\* A record that settles a suggestion leaves the others alone.
LEMMA SettlesOne ==
  ASSUME NEW d, DocOK(d), NEW r, r.k = "res", RecordOK(d, r), NEW e, e = ApplyRecord(d, r)
  PROVE  /\ DOMAIN e.sugs = DOMAIN d.sugs /\ e.ops = d.ops
         /\ \A j \in DOMAIN d.sugs : j # r.sid => e.sugs[j] = d.sugs[j]
<1>1. PICK S : d.sugs \in Seq(S)
  BY DEF DocOK, IsSeq
<1>2. PICK sid : sid = r.sid /\ sid \in DOMAIN d.sugs
  BY DEF RecordOK
<1>3. e = [d EXCEPT !.sugs[sid].status = r.action]
  BY <1>2 DEF ApplyRecord
<1> PICK new : new = [d.sugs[sid] EXCEPT !.status = r.action]
  OBVIOUS
<1>4. e = [text |-> d.text, attr |-> d.attr, ops |-> d.ops, sugs |-> [d.sugs EXCEPT ![sid] = new]]
  BY <1>3 DEF DocOK
<1>5. e.ops = d.ops /\ e.sugs = [d.sugs EXCEPT ![sid] = new]
  BY <1>4
<1> QED
  BY <1>1, <1>2, <1>5

LEMMA RefuseView ==
  ASSUME DecInv, ViewInv, alive, UNCHANGED <<wire, view, joined>>, NEW i \in DOMAIN doc.sugs, Refuse(i)
  PROVE  ViewInv'
<1>1. CASE Open(doc.sugs[i])
  <2> PICK action \in {"dismissed", "rejected"} :
        action = IF doc.sugs[i].status = "stale" THEN "dismissed" ELSE "rejected"
    OBVIOUS
  <2> DEFINE r == [k |-> "res", sid |-> i, action |-> action]
  <2> PICK e : e = ApplyRecord(doc, r)
    OBVIOUS
  <2> DEFINE ms == SugMessages(e, <<i>>)
  <2>1. doc' = e /\ Tell(ms) /\ shown' = shown
    BY <1>1 DEF Refuse, Commit
  <2>2. RecordOK(doc, r) /\ r.k = "res" /\ r.sid = i
    BY <1>1 DEF RecordOK
  <2>3. DocOK(doc)
    BY LastState DEF DecInv
  <2> HIDE DEF r
  <2>4. DOMAIN e.sugs = DOMAIN doc.sugs /\ \A j \in DOMAIN doc.sugs : j # i => e.sugs[j] = doc.sugs[j]
    BY <2>2, <2>3, SettlesOne
  <2>5. \A j : j # i => /\ j \in DOMAIN OpenOf(doc) <=> j \in DOMAIN OpenOf(e)
                        /\ j \in DOMAIN OpenOf(e) => OpenOf(doc)[j] = OpenOf(e)[j]
    <3>1. Alike(doc, e, i)
      BY <2>4 DEF Alike
    <3> QED
      BY <3>1, OpenAlike
  <2>6. Leads(Views(OpenOf(doc), shown), ms, Views(OpenOf(e), shown)) /\ IsSeq(ms)
    BY <2>4, <2>5, OneLeads
  <2> HIDE DEF ms
  <2>7. Leads(Views(OpenOf(doc), shown), ms, Views(OpenOf(doc'), shown'))
    BY <2>1, <2>6
  <2> QED
    BY <2>1, <2>6, <2>7, ViewTells
<1>2. CASE ~Open(doc.sugs[i])
  BY <1>2, ViewUnmoved DEF Refuse
<1> QED
  BY <1>1, <1>2

LEMMA ResolveView ==
  ASSUME DecInv, ViewInv, NEW i, HandleResolve(i)
  PROVE  ViewInv'
<1>1. alive /\ UNCHANGED <<wire, view, joined>>
  BY DEF HandleResolve, viewer
<1>2. CASE i \in DOMAIN doc.sugs
  BY <1>1, <1>2, AcceptView, RefuseView DEF HandleResolve
<1>3. CASE i \notin DOMAIN doc.sugs
  BY <1>1, <1>3, ViewUnmoved DEF HandleResolve
<1> QED
  BY <1>2, <1>3

LEMMA PresenceView ==
  ASSUME DecInv, ViewInv, NEW agents, Tell(<<Presence(agents)>>), shown' = agents,
         UNCHANGED <<doc, wire, view, joined>>
  PROVE  ViewInv'
<1> PICK m : m = Presence(agents)
  OBVIOUS
<1>1. Leads(Views(OpenOf(doc), shown), <<m>>, Views(OpenOf(doc), agents))
  BY ShowsPresence, LeadsOne
<1>2. IsSeq(<<m>>)
  BY Single DEF Bears, Presence
<1>3. Leads(Views(OpenOf(doc), shown), <<m>>, Views(OpenOf(doc'), shown'))
  BY <1>1
<1> QED
  BY <1>2, <1>3, ViewTells

LEMMA ReadView ==
  ASSUME DecInv, ViewInv, NEW i, BeginRead(i)
  PROVE  ViewInv'
<1>1. UNCHANGED <<doc, wire, view, joined>>
  BY DEF BeginRead, viewer
<1>2. (\E agents : shown' = agents /\ Tell(<<Presence(agents)>>)) \/ UNCHANGED <<shown, after>>
  BY DEF BeginRead
<1> QED
  BY <1>1, <1>2, PresenceView, ViewUnmoved

LEMMA EndView ==
  ASSUME DecInv, ViewInv, NEW i, EndRun(i)
  PROVE  ViewInv'
<1>1. UNCHANGED <<doc, wire, view, joined>>
  BY DEF EndRun, viewer
<1>2. (\E agents : shown' = agents /\ Tell(<<Presence(agents)>>)) \/ UNCHANGED <<shown, after>>
  BY DEF EndRun
<1> QED
  BY <1>1, <1>2, PresenceView, ViewUnmoved

LEMMA ProposeView ==
  ASSUME DecInv, ViewInv, NEW i, Propose(i)
  PROVE  ViewInv'
<1>1. alive /\ UNCHANGED <<wire, view, joined, shown>>
  BY DEF Propose, Asks, viewer
<1>2. \/ UNCHANGED <<doc, log, after>>
      \/ \E s : Commit([k |-> "sug", s |-> s]) /\ Tell(<<[t |-> "sug", id |-> Len(doc.sugs) + 1, s |-> s]>>)
  BY DEF Propose
<1>3. CASE UNCHANGED <<doc, log, after>>
  BY <1>1, <1>3, ViewUnmoved
<1>4. ASSUME NEW s, Commit([k |-> "sug", s |-> s]), Tell(<<[t |-> "sug", id |-> Len(doc.sugs) + 1, s |-> s]>>)
      PROVE  ViewInv'
  <2>0. PICK e, id : e = ApplyRecord(doc, [k |-> "sug", s |-> s]) /\ id = Len(doc.sugs) + 1
    OBVIOUS
  <2>1. DocOK(doc)
    BY <1>1, LastState DEF DecInv
  <2>2. e.sugs = Append(doc.sugs, s)
    BY <2>0, <2>1 DEF ApplyRecord, DocOK
  <2>3. PICK S : doc.sugs \in Seq(S)
    BY <2>1 DEF DocOK, IsSeq
  <2>4. /\ DOMAIN e.sugs = DOMAIN doc.sugs \cup {id} /\ e.sugs[id] = s /\ id \notin DOMAIN doc.sugs
        /\ \A j \in DOMAIN doc.sugs : e.sugs[j] = doc.sugs[j]
    BY <2>0, <2>2, <2>3
  <2>5. \A j : j # id => /\ j \in DOMAIN OpenOf(doc) <=> j \in DOMAIN OpenOf(e)
                         /\ j \in DOMAIN OpenOf(e) => OpenOf(doc)[j] = OpenOf(e)[j]
    <3>1. Alike(doc, e, id)
      BY <2>4 DEF Alike
    <3> QED
      BY <3>1, OpenAlike
  <2> DEFINE ms == SugMessages(e, <<id>>)
  <2>6. /\ Leads(Views(OpenOf(doc), shown), ms, Views(OpenOf(e), shown)) /\ IsSeq(ms)
        /\ ms = <<[t |-> "sug", id |-> id, s |-> e.sugs[id]]>>
    <3>1. id \in DOMAIN e.sugs
      BY <2>4
    <3> QED
      BY <2>5, <3>1, OneLeads
  <2>7. doc' = e /\ Tell(ms)
    BY <1>4, <2>0, <2>4, <2>6 DEF Commit
  <2> HIDE DEF ms
  <2>8. Leads(Views(OpenOf(doc), shown), ms, Views(OpenOf(doc'), shown'))
    BY <1>1, <2>6, <2>7
  <2> QED
    BY <1>1, <2>6, <2>7, <2>8, ViewTells
<1> QED
  BY <1>2, <1>3, <1>4

LEMMA JoinView ==
  ASSUME Join
  PROVE  ViewInv'
<1>1. PICK m : m = [t |-> "init", sugs |-> OpenOf(doc), agents |-> shown]
  OBVIOUS
<1>2. wire' = <<>> /\ after' = <<m>> /\ UNCHANGED <<doc, shown, view>>
  BY <1>1 DEF Join
<1>3. Leads(view, <<m>>, Views(OpenOf(doc), shown))
  BY <1>1, ShowsInit, LeadsOne
<1>4. IsSeq(<<m>>)
  BY <1>1, Single DEF Bears
<1>5. wire' \o after' = <<m>>
  BY <1>2, <1>4, SameSeq
<1> QED
  BY <1>2, <1>3, <1>5 DEF ViewInv

LEMMA FlushView ==
  ASSUME DecInv, ViewInv, Flush
  PROVE  ViewInv'
<1>1. wire' = wire \o after /\ after' = <<>> /\ UNCHANGED <<doc, shown, joined, view>>
  BY DEF Flush
<1>2. IsSeq(wire) /\ IsSeq(after) /\ IsSeq(<<>>)
  BY DEF DecInv, IsSeq
<1>3. IsSeq(wire \o after)
  BY <1>2, ConcIsSeq
<1>4. wire' \o after' = wire \o after
  BY <1>1, <1>3, SameSeq
<1> QED
  BY <1>1, <1>4 DEF ViewInv

LEMMA ReceiveView ==
  ASSUME DecInv, ViewInv, Receive
  PROVE  ViewInv'
<1>1. wire # <<>> /\ wire' = Tail(wire) /\ view' = Shows(view, Head(wire)) /\ UNCHANGED <<doc, shown, joined, after>>
  BY DEF Receive, session
<1>2. IsSeq(wire) /\ IsSeq(after)
  BY DEF DecInv
<1> PICK c : c = wire \o after
  OBVIOUS
<1>3. c # <<>> /\ Head(c) = Head(wire) /\ Tail(c) = Tail(wire) \o after /\ IsSeq(c)
  <2>1. PICK S, T : wire \in Seq(S) /\ after \in Seq(T)
    BY <1>2 DEF IsSeq
  <2>2. wire \in Seq(S \cup T) /\ after \in Seq(S \cup T)
    BY <2>1
  <2>3. c # <<>> /\ Head(c) = Head(wire) /\ Tail(c) = Tail(wire) \o after
    BY <1>1, <2>2
  <2> QED
    BY <1>2, <2>3, ConcIsSeq
<1>4. ASSUME joined
      PROVE  Leads(Shows(view, Head(wire)), Tail(wire) \o after, Views(OpenOf(doc), shown))
  <2>1. Leads(view, c, Views(OpenOf(doc), shown))
    BY <1>4 DEF ViewInv
  <2>2. Leads(Shows(view, Head(c)), Tail(c), Views(OpenOf(doc), shown))
    BY <1>3, <2>1, LeadsRest
  <2> QED
    BY <1>3, <2>2
<1> QED
  BY <1>1, <1>4 DEF ViewInv

-----------------------------------------------------------------------------
(* Where agents are shown: the invariant and its steps.                    *)

Place(m) == <<m[1], m[2]>>

\* A run, or the answer it has coming, that is shown at a place.
Stands(x, at, ops) ==
  /\ x.pc \notin {"ended", "over"} /\ (x.pc = "none" \/ ~x.lost)
  /\ x.pc \in {"thinking", "proposing"} =>
       x.rev \in 0..Len(ops) /\ at = Place(Mapped(ops, x.rev, Len(ops), x.start, x.end))

\* Agents are shown by a session that runs, where they stand, whatever is coming to them.
ShownInv ==
  /\ joined => alive
  /\ ~alive => shown = <<>>
  /\ \A i \in DOMAIN shown : /\ i \in DOMAIN runs
                             /\ Stands(runs[i], shown[i], doc.ops) /\ Stands(replies[i], shown[i], doc.ops)

LEMMA NoReplyStands ==
  ASSUME NEW at, NEW ops
  PROVE  Stands(NoReply, at, ops)
BY DEF Stands, NoReply

\* Runs and answers change, and what is shown does not.
LEMMA ShownKeeps ==
  ASSUME ShownInv, UNCHANGED <<shown, joined, alive>>, alive => doc'.ops = doc.ops, DOMAIN runs \subseteq DOMAIN runs',
         \A i \in DOMAIN shown : /\ runs'[i] = runs[i] \/ Stands(runs'[i], shown[i], doc.ops)
                                 /\ replies'[i] = replies[i] \/ Stands(replies'[i], shown[i], doc.ops)
  PROVE  ShownInv'
<1>1. ASSUME NEW i \in DOMAIN shown'
      PROVE  /\ i \in DOMAIN runs'
             /\ Stands(runs'[i], shown'[i], doc'.ops) /\ Stands(replies'[i], shown'[i], doc'.ops)
  <2>1. alive
    BY DEF ShownInv
  <2>2. doc'.ops = doc.ops /\ shown'[i] = shown[i] /\ i \in DOMAIN shown
    BY <2>1
  <2>3. Stands(runs'[i], shown[i], doc.ops) /\ Stands(replies'[i], shown[i], doc.ops)
    BY <2>2 DEF ShownInv
  <2> QED
    BY <2>2, <2>3 DEF ShownInv
<1> QED
  BY <1>1 DEF ShownInv

LEMMA ShownUnmoved ==
  ASSUME ShownInv, UNCHANGED <<doc, shown, alive, joined, runs, replies>>
  PROVE  ShownInv'
BY DEF ShownInv

LEMMA StandsMoves ==
  ASSUME NEW x, NEW at, NEW ops, IsSeq(ops), Stands(x, at, ops), NEW op, NEW to, to = Place(MapRange(op, at[1], at[2]))
  PROVE  Stands(x, to, Append(ops, op))
<1>1. PICK S : ops \in Seq(S)
  BY DEF IsSeq
<1>2. Len(Append(ops, op)) = Len(ops) + 1 /\ Len(ops) \in Nat
  BY <1>1
<1>3. ASSUME x.pc \in {"thinking", "proposing"}
      PROVE  x.rev \in 0..Len(ops) + 1 /\ to = Place(Mapped(Append(ops, op), x.rev, Len(ops) + 1, x.start, x.end))
  <2>1. x.rev \in 0..Len(ops) /\ at = Place(Mapped(ops, x.rev, Len(ops), x.start, x.end))
    BY <1>3 DEF Stands
  <2> PICK m : m = Mapped(ops, x.rev, Len(ops), x.start, x.end)
    OBVIOUS
  <2>2. Mapped(Append(ops, op), x.rev, Len(ops) + 1, x.start, x.end) = Along(m, op)
    BY <1>1, <2>1, MappedOn
  <2>3. at[1] = m[1] /\ at[2] = m[2]
    BY <2>1 DEF Place
  <2>4. Place(Along(m, op)) = Place(MapRange(op, m[1], m[2]))
    BY DEF Place, Along
  <2>5. x.rev \in 0..Len(ops) + 1
    BY <1>2, <2>1
  <2> QED
    BY <2>2, <2>3, <2>4, <2>5
<1> QED
  BY <1>2, <1>3 DEF Stands

LEMMA CommitOpShown ==
  ASSUME DecInv, ShownInv, alive, NEW r, r.k = "op", CommitOp(r), UNCHANGED <<runs, replies, alive, joined>>
  PROVE  ShownInv'
<1>1. shown' = RangesMoved(shown, r.op) /\ doc' = ApplyRecord(doc, r)
  BY DEF CommitOp, Commit
<1>2. doc'.ops = Append(doc.ops, r.op)
  BY <1>1 DEF ApplyRecord
<1>3. IsSeq(doc.ops)
  BY LastState DEF DecInv, DocOK
<1>4. DOMAIN shown' = DOMAIN shown /\ \A i \in DOMAIN shown : shown'[i] = Place(MapRange(r.op, shown[i][1], shown[i][2]))
  BY <1>1 DEF RangesMoved, Place
<1>5. ASSUME NEW i \in DOMAIN shown
      PROVE  /\ Stands(runs[i], shown'[i], doc'.ops) /\ Stands(replies[i], shown'[i], doc'.ops)
             /\ i \in DOMAIN runs
  <2>1. Stands(runs[i], shown[i], doc.ops) /\ Stands(replies[i], shown[i], doc.ops) /\ i \in DOMAIN runs
    BY DEF ShownInv
  <2>2. shown'[i] = Place(MapRange(r.op, shown[i][1], shown[i][2]))
    BY <1>4
  <2> QED
    BY <1>2, <1>3, <2>1, <2>2, StandsMoves
<1> QED
  BY <1>4, <1>5 DEF ShownInv

LEMMA EditShown ==
  ASSUME DecInv, ShownInv, NEW start, NEW end, NEW text, Edit(start, end, text)
  PROVE  ShownInv'
<1>1. PICK op : CommitOp([k |-> "op", op |-> op, by |-> Person, accepts |-> 0])
  BY DEF Edit
<1>2. alive /\ UNCHANGED <<runs, replies, alive, joined>>
  BY DEF Edit, viewer
<1> PICK r : r = [k |-> "op", op |-> op, by |-> Person, accepts |-> 0]
  OBVIOUS
<1>3. r.k = "op" /\ CommitOp(r)
  BY <1>1
<1> QED
  BY <1>2, <1>3, CommitOpShown

LEMMA ResolveShown ==
  ASSUME DecInv, ShownInv, NEW i, HandleResolve(i)
  PROVE  ShownInv'
<1>1. alive /\ UNCHANGED <<runs, replies, alive, joined>>
  BY DEF HandleResolve
<1>2. ASSUME i \in DOMAIN doc.sugs, Accept(i)
      PROVE  ShownInv'
  <2>1. \/ \E op, by : CommitOp([k |-> "op", op |-> op, by |-> by, accepts |-> i])
        \/ UNCHANGED <<doc, log, shown>>
    BY <1>2 DEF Accept
  <2>2. ASSUME NEW op, NEW by, CommitOp([k |-> "op", op |-> op, by |-> by, accepts |-> i])
        PROVE  ShownInv'
    <3> PICK r : r = [k |-> "op", op |-> op, by |-> by, accepts |-> i]
      OBVIOUS
    <3>1. r.k = "op" /\ CommitOp(r)
      BY <2>2
    <3> QED
      BY <1>1, <3>1, CommitOpShown
  <2>3. CASE UNCHANGED <<doc, log, shown>>
    BY <1>1, <2>3, ShownUnmoved
  <2> QED
    BY <2>1, <2>2, <2>3
<1>3. ASSUME i \in DOMAIN doc.sugs, Refuse(i)
      PROVE  ShownInv'
  <2>1. CASE Open(doc.sugs[i])
    <3> PICK action \in {"dismissed", "rejected"} :
          action = IF doc.sugs[i].status = "stale" THEN "dismissed" ELSE "rejected"
      OBVIOUS
    <3> PICK r : r = [k |-> "res", sid |-> i, action |-> action]
      OBVIOUS
    <3>1. doc' = ApplyRecord(doc, r) /\ shown' = shown
      BY <1>3, <2>1 DEF Refuse, Commit
    <3>2. RecordOK(doc, r) /\ r.k = "res"
      BY <1>3, <2>1 DEF RecordOK
    <3>3. DocOK(doc)
      BY <1>1, LastState DEF DecInv
    <3>4. doc'.ops = doc.ops
      BY <3>1, <3>2, <3>3, SettlesOne
    <3> QED
      BY <1>1, <3>1, <3>4, ShownKeeps
  <2>2. CASE ~Open(doc.sugs[i])
    BY <1>1, <1>3, <2>2, ShownUnmoved DEF Refuse
  <2> QED
    BY <2>1, <2>2
<1> QED
  BY <1>1, <1>2, <1>3, ShownUnmoved DEF HandleResolve

\* A run that goes on at a place, of a session that lost it or not.
GoesTo(x, run, pc, rev, start, end) ==
  x.pc = pc /\ x.rev = rev /\ x.start = start /\ x.end = end /\ (x.lost <=> run.lost)

LEMMA RunsGo ==
  ASSUME NEW run, Run(run), NEW pc
  PROVE  /\ GoesTo([run EXCEPT !.pc = pc], run, pc, run.rev, run.start, run.end)
         /\ GoesTo([run EXCEPT !.pc = pc, !.answered = TRUE], run, pc, run.rev, run.start, run.end)
         /\ \A draft, placement :
              GoesTo([run EXCEPT !.pc = pc, !.answered = TRUE, !.draft = draft, !.placement = placement],
                     run, pc, run.rev, run.start, run.end)
         /\ \A rev, start, end, text :
              GoesTo([run EXCEPT !.pc = pc, !.rev = rev, !.start = start, !.end = end, !.text = text],
                     run, pc, rev, start, end)
         /\ \A rev, start, end :
              GoesTo([run EXCEPT !.pc = pc, !.rev = rev, !.start = start, !.end = end, !.attempt = @ + 1],
                     run, pc, rev, start, end)
<1> DEFINE R(rev, start, end, attempt, text, draft, placement, answered) ==
      [pc |-> pc, rev |-> rev, start |-> start, end |-> end, attempt |-> attempt, text |-> text,
       draft |-> draft, placement |-> placement, answered |-> answered, lost |-> run.lost, at |-> run.at]
<1>1. run.answered \in BOOLEAN
  BY DEF Run
<1>2. \A rev, start, end, attempt, text, draft, placement : \A answered \in BOOLEAN :
        GoesTo(R(rev, start, end, attempt, text, draft, placement, answered), run, pc, rev, start, end)
  BY DEF GoesTo
<1>3. ASSUME NEW x, x = [run EXCEPT !.pc = pc]
      PROVE  GoesTo(x, run, pc, run.rev, run.start, run.end)
  <2>1. x = R(run.rev, run.start, run.end, run.attempt, run.text, run.draft, run.placement, run.answered)
    BY <1>1, <1>3 DEF Run
  <2> HIDE DEF R
  <2> QED
    BY <1>1, <1>2, <2>1
<1>4. ASSUME NEW x, x = [run EXCEPT !.pc = pc, !.answered = TRUE]
      PROVE  GoesTo(x, run, pc, run.rev, run.start, run.end)
  <2>1. x = R(run.rev, run.start, run.end, run.attempt, run.text, run.draft, run.placement, TRUE)
    BY <1>1, <1>4 DEF Run
  <2> HIDE DEF R
  <2> QED
    BY <1>1, <1>2, <2>1
<1>5. ASSUME NEW x, NEW draft, NEW placement, x = [run EXCEPT !.pc = pc, !.answered = TRUE, !.draft = draft, !.placement = placement]
      PROVE  GoesTo(x, run, pc, run.rev, run.start, run.end)
  <2>1. x = R(run.rev, run.start, run.end, run.attempt, run.text, draft, placement, TRUE)
    BY <1>1, <1>5 DEF Run
  <2> HIDE DEF R
  <2> QED
    BY <1>1, <1>2, <2>1
<1>6. ASSUME NEW x, NEW rev, NEW start, NEW end, NEW text, x = [run EXCEPT !.pc = pc, !.rev = rev, !.start = start, !.end = end, !.text = text]
      PROVE  GoesTo(x, run, pc, rev, start, end)
  <2>1. x = R(rev, start, end, run.attempt, text, run.draft, run.placement, run.answered)
    BY <1>1, <1>6 DEF Run
  <2> HIDE DEF R
  <2> QED
    BY <1>1, <1>2, <2>1
<1>7. ASSUME NEW x, NEW rev, NEW start, NEW end, x = [run EXCEPT !.pc = pc, !.rev = rev, !.start = start, !.end = end, !.attempt = @ + 1]
      PROVE  GoesTo(x, run, pc, rev, start, end)
  <2>1. x = R(rev, start, end, run.attempt + 1, run.text, run.draft, run.placement, run.answered)
    BY <1>1, <1>7 DEF Run
  <2> HIDE DEF R
  <2> QED
    BY <1>1, <1>2, <2>1
<1> QED
  BY <1>3, <1>4, <1>5, <1>6, <1>7, Zenon

LEMMA AnswerIs ==
  ASSUME RunsInv, NEW i \in DOMAIN runs, NEW x, Answer(i, x)
  PROVE  replies'[i] = x /\ \A j \in DOMAIN runs : j # i => replies'[j] = replies[j]
<1>1. DOMAIN replies = DOMAIN runs
  BY Seqs DEF RunsInv
<1> QED
  BY <1>1 DEF Answer

\* The actor answers, and shows what it showed.
LEMMA AnswerShown ==
  ASSUME ShownInv, RunsInv, NEW i \in DOMAIN runs, NEW x, Answer(i, x),
         UNCHANGED <<shown, joined, alive, runs>>, alive => doc'.ops = doc.ops,
         i \in DOMAIN shown => Stands(x, shown[i], doc.ops)
  PROVE  ShownInv'
<1>1. replies'[i] = x /\ \A j \in DOMAIN runs : j # i => replies'[j] = replies[j]
  BY AnswerIs
<1>2. ASSUME NEW j \in DOMAIN shown
      PROVE  replies'[j] = replies[j] \/ Stands(replies'[j], shown[j], doc.ops)
  <2>1. CASE j = i
    BY <1>1, <2>1
  <2>2. CASE j # i
    BY <1>1, <2>2 DEF ShownInv
  <2> QED
    BY <2>1, <2>2
<1>3. DOMAIN runs \subseteq DOMAIN runs' /\ \A j \in DOMAIN shown : runs'[j] = runs[j]
  OBVIOUS
<1> QED
  BY <1>2, <1>3, ShownKeeps

LEMMA ReadShown ==
  ASSUME DecInv, ShownInv, RunsInv, NEW i \in DOMAIN runs, BeginRead(i)
  PROVE  ShownInv'
<1> PICK run : run = runs[i] /\ Run(run)
  BY DEF RunsInv
<1>1. alive /\ ~run.lost /\ UNCHANGED <<doc, joined, alive, runs>>
  BY DEF BeginRead, Asks
<1> PICK m : m = MapRangeFrom(run.rev, run.start, run.end)
  OBVIOUS
<1>2. CASE ~Fits(run.rev, run.start, run.end)
  <2> PICK x : x = [run EXCEPT !.pc = "ending"]
    OBVIOUS
  <2>1. Answer(i, x) /\ shown' = shown
    BY <1>2 DEF BeginRead
  <2>2. GoesTo(x, run, "ending", run.rev, run.start, run.end)
    BY RunsGo
  <2>3. Stands(x, shown[i], doc.ops)
    BY <1>1, <2>2 DEF Stands, GoesTo
  <2> QED
    BY <1>1, <2>1, <2>3, AnswerShown
<1>3. CASE Fits(run.rev, run.start, run.end)
  <2> DEFINE agents == [j \in DOMAIN shown \cup {i} |-> IF j = i THEN Place(m) ELSE shown[j]]
  <2>0. PICK rev, start, end, text :
           rev = Rev /\ start = m[1] /\ end = m[2] /\ text = SubSeq(doc.text, m[1] + 1, m[2])
    OBVIOUS
  <2>9. PICK x : x = [run EXCEPT !.pc = "thinking", !.rev = rev, !.start = start, !.end = end, !.text = text]
    OBVIOUS
  <2>1. Answer(i, x) /\ shown' = agents
    BY <1>3, <2>0, <2>9 DEF BeginRead, Place
  <2>10. GoesTo(x, run, "thinking", rev, start, end)
    BY <2>9, RunsGo
  <2>2. GoesTo(x, run, "thinking", Rev, m[1], m[2])
    BY <2>0, <2>10
  <2>3. DOMAIN shown' = DOMAIN shown \cup {i} /\ shown'[i] = Place(m)
        /\ \A j \in DOMAIN shown : j # i => shown'[j] = shown[j]
    BY <2>1
  <2>4. Len(doc.ops) \in Nat
    BY <1>1, LastState, Seqs DEF DecInv, DocOK
  <2>5. Stands(x, Place(m), doc.ops)
    <3>1. Mapped(doc.ops, Len(doc.ops), Len(doc.ops), m[1], m[2]) = Unmoved(m[1], m[2])
      BY <2>4, MappedStart
    <3>2. Place(Unmoved(m[1], m[2])) = Place(m)
      BY DEF Place, Unmoved
    <3> QED
      BY <1>1, <2>2, <2>4, <3>1, <3>2 DEF Stands, GoesTo, Rev
  <2>6. Stands(runs[i], Place(m), doc.ops)
    BY <1>1 DEF BeginRead, Asks, Stands
  <2>7. replies'[i] = x /\ \A j \in DOMAIN runs : j # i => replies'[j] = replies[j]
    BY <2>1, AnswerIs
  <2>8. ASSUME NEW j \in DOMAIN shown'
        PROVE  /\ j \in DOMAIN runs'
               /\ Stands(runs'[j], shown'[j], doc'.ops) /\ Stands(replies'[j], shown'[j], doc'.ops)
    <3>1. CASE j = i
      BY <1>1, <2>3, <2>5, <2>6, <2>7, <3>1
    <3>2. CASE j # i
      <4>1. j \in DOMAIN shown /\ shown'[j] = shown[j]
        BY <2>3, <3>2
      <4> QED
        BY <1>1, <2>7, <3>2, <4>1 DEF ShownInv
    <3> QED
      BY <3>1, <3>2
  <2> QED
    BY <1>1, <2>8 DEF ShownInv
<1> QED
  BY <1>2, <1>3

LEMMA EndShown ==
  ASSUME ShownInv, RunsInv, NEW i \in DOMAIN runs, EndRun(i)
  PROVE  ShownInv'
<1> PICK x : x = [runs[i] EXCEPT !.pc = "ended"]
  OBVIOUS
<1>1. alive /\ Answer(i, x) /\ UNCHANGED <<doc, joined, alive, runs>>
  BY DEF EndRun, Asks
<1>2. replies'[i] = x /\ \A j \in DOMAIN runs : j # i => replies'[j] = replies[j]
  BY <1>1, AnswerIs
<1>3. DOMAIN shown' = DOMAIN shown \ {i} /\ \A j \in DOMAIN shown : j # i => shown'[j] = shown[j]
  BY DEF EndRun, Without
<1>4. ASSUME NEW j \in DOMAIN shown'
      PROVE  /\ j \in DOMAIN runs'
             /\ Stands(runs'[j], shown'[j], doc'.ops) /\ Stands(replies'[j], shown'[j], doc'.ops)
  <2>1. j \in DOMAIN shown /\ shown'[j] = shown[j] /\ j # i
    BY <1>3
  <2> QED
    BY <1>1, <1>2, <2>1 DEF ShownInv
<1> QED
  BY <1>1, <1>4 DEF ShownInv

LEMMA ProposeShown ==
  ASSUME DecInv, ShownInv, RunsInv, NEW i \in DOMAIN runs, Propose(i)
  PROVE  ShownInv'
<1> PICK run : run = runs[i] /\ Run(run)
  BY DEF RunsInv
<1>1. alive /\ ~run.lost /\ UNCHANGED <<shown, joined, alive, runs>>
  BY DEF Propose, Asks
<1>2. doc'.ops = doc.ops
  <2>1. doc' = doc \/ \E s : doc' = ApplyRecord(doc, [k |-> "sug", s |-> s])
    BY DEF Propose, Commit
  <2>2. DocOK(doc)
    BY <1>1, LastState DEF DecInv
  <2>3. ASSUME NEW s
        PROVE  ApplyRecord(doc, [k |-> "sug", s |-> s]).ops = doc.ops
    BY <2>2 DEF ApplyRecord, DocOK
  <2> QED
    BY <2>1, <2>3
<1>3. \E x, pc, rev, start, end : pc \in {"reading", "ending"} /\ GoesTo(x, run, pc, rev, start, end) /\ Answer(i, x)
  <2> PICK m : m = MapRangeFrom(run.rev, run.start, run.end)
    OBVIOUS
  <2> DEFINE again == [run EXCEPT !.pc = "reading", !.rev = Rev, !.start = m[1], !.end = m[2], !.attempt = @ + 1]
             over  == [run EXCEPT !.pc = "ending"]
  <2>1. Answer(i, again) \/ Answer(i, over)
    BY DEF Propose
  <2>2. GoesTo(again, run, "reading", Rev, m[1], m[2])
    BY RunsGo, Zenon
  <2>3. GoesTo(over, run, "ending", run.rev, run.start, run.end)
    BY RunsGo, Zenon
  <2> HIDE DEF again, over
  <2> QED
    BY <2>1, <2>2, <2>3
<1>4. PICK x, pc, rev, start, end : pc \in {"reading", "ending"} /\ GoesTo(x, run, pc, rev, start, end) /\ Answer(i, x)
  BY <1>3
<1>5. Stands(x, shown[i], doc.ops)
  BY <1>1, <1>4 DEF Stands, GoesTo
<1> QED
  BY <1>1, <1>2, <1>4, <1>5, AnswerShown

ThinksTo(x, run) ==
  \/ x = [run EXCEPT !.pc = "ending"]
  \/ x = [run EXCEPT !.pc = "ending", !.answered = TRUE]
  \/ \E draft, placement :
       x = [run EXCEPT !.pc = "proposing", !.answered = TRUE, !.draft = draft, !.placement = placement]

LEMMA ThinksGo ==
  ASSUME NEW run, Run(run), NEW x, ThinksTo(x, run)
  PROVE  \E pc \in {"ending", "proposing"} : GoesTo(x, run, pc, run.rev, run.start, run.end)
<1>1. CASE x = [run EXCEPT !.pc = "ending"]
  BY <1>1, RunsGo
<1>2. CASE x = [run EXCEPT !.pc = "ending", !.answered = TRUE]
  BY <1>2, RunsGo
<1>3. ASSUME NEW draft, NEW placement,
             x = [run EXCEPT !.pc = "proposing", !.answered = TRUE, !.draft = draft, !.placement = placement]
      PROVE  GoesTo(x, run, "proposing", run.rev, run.start, run.end)
  BY <1>3, RunsGo
<1> QED
  BY <1>1, <1>2, <1>3 DEF ThinksTo

LEMMA ThinkShown ==
  ASSUME ShownInv, RunsInv, NEW i \in DOMAIN runs, Think(i)
  PROVE  ShownInv'
<1> PICK run : run = runs[i] /\ Run(run)
  BY DEF RunsInv
<1>1. run.pc = "thinking" /\ UNCHANGED <<doc, shown, alive, joined, replies>>
  BY DEF Think, session
<1>2. PICK x : ThinksTo(x, run) /\ runs' = [runs EXCEPT ![i] = x]
  BY DEF Think, ThinksTo
<1>3. PICK pc \in {"ending", "proposing"} : GoesTo(x, run, pc, run.rev, run.start, run.end)
  BY <1>2, ThinksGo
<1>4. GoesTo(x, run, pc, run.rev, run.start, run.end) /\ runs' = [runs EXCEPT ![i] = x]
  BY <1>2, <1>3
<1>5. runs'[i] = x /\ DOMAIN runs' = DOMAIN runs /\ \A j \in DOMAIN runs : j # i => runs'[j] = runs[j]
  BY <1>4
<1>6. ASSUME NEW j \in DOMAIN shown
      PROVE  runs'[j] = runs[j] \/ Stands(runs'[j], shown[j], doc.ops)
  <2>1. CASE j = i
    <3>1. Stands(run, shown[i], doc.ops)
      BY <2>1 DEF ShownInv
    <3>2. Stands(x, shown[i], doc.ops)
      BY <1>1, <1>4, <3>1 DEF Stands, GoesTo
    <3> QED
      BY <1>5, <2>1, <3>2
  <2>2. CASE j # i
    BY <1>5, <2>2 DEF ShownInv
  <2> QED
    BY <2>1, <2>2
<1> QED
  BY <1>1, <1>5, <1>6, ShownKeeps

\* Runs nobody shows.
LEMMA HiddenMoves ==
  ASSUME ShownInv, NEW i, i \notin DOMAIN shown, UNCHANGED <<doc, shown, alive, joined, replies>>,
         DOMAIN runs \subseteq DOMAIN runs', \A j \in DOMAIN runs : j # i => runs'[j] = runs[j]
  PROVE  ShownInv'
<1>1. \A j \in DOMAIN shown : runs'[j] = runs[j]
  BY DEF ShownInv
<1> QED
  BY <1>1, ShownKeeps

LEMMA AskFailsShown ==
  ASSUME ShownInv, NEW i \in DOMAIN runs, AskFails(i)
  PROVE  ShownInv'
<1>1. runs[i].lost /\ runs[i].pc \in {"reading", "proposing", "ending"} /\ UNCHANGED <<doc, shown, alive, joined, replies>>
  BY DEF AskFails, Failed, session
<1>2. i \notin DOMAIN shown
  BY <1>1 DEF ShownInv, Stands
<1>3. DOMAIN runs' = DOMAIN runs /\ \A j \in DOMAIN runs : j # i => runs'[j] = runs[j]
  BY DEF AskFails
<1> QED
  BY <1>1, <1>2, <1>3, HiddenMoves

LEMMA ReleaseShown ==
  ASSUME ShownInv, NEW i \in DOMAIN runs, Release(i)
  PROVE  ShownInv'
<1>1. runs[i].pc = "ended" /\ UNCHANGED <<doc, shown, alive, joined, replies>>
  BY DEF Release, session
<1>2. i \notin DOMAIN shown
  BY <1>1 DEF ShownInv, Stands
<1>3. DOMAIN runs' = DOMAIN runs /\ \A j \in DOMAIN runs : j # i => runs'[j] = runs[j]
  BY DEF Release
<1> QED
  BY <1>1, <1>2, <1>3, HiddenMoves

LEMMA InvokeShown ==
  ASSUME ShownInv, RunsInv, NEW rev, NEW target, Invoke(rev, target)
  PROVE  ShownInv'
<1>1. UNCHANGED <<doc, shown, alive, joined>>
  BY DEF Invoke
<1>2. UNCHANGED <<runs, replies>> \/ \E run : runs' = Append(runs, run) /\ replies' = Append(replies, NoReply)
  BY DEF Invoke
<1>3. ASSUME NEW run, runs' = Append(runs, run), replies' = Append(replies, NoReply)
      PROVE  ShownInv'
  <2>1. PICK S, T : runs \in Seq(S) /\ replies \in Seq(T) /\ Len(replies) = Len(runs)
    BY DEF RunsInv, IsSeq
  <2>2. DOMAIN runs \subseteq DOMAIN runs' /\ \A j \in DOMAIN runs : runs'[j] = runs[j] /\ replies'[j] = replies[j]
    BY <1>3, <2>1
  <2>3. \A j \in DOMAIN shown : j \in DOMAIN runs
    BY DEF ShownInv
  <2> QED
    BY <1>1, <2>2, <2>3, ShownKeeps
<1> QED
  BY <1>1, <1>2, <1>3, ShownUnmoved

LEMMA FlushShown ==
  ASSUME ShownInv, Flush
  PROVE  ShownInv'
<1>1. UNCHANGED <<doc, shown, alive, joined>> /\ replies' = [i \in DOMAIN runs |-> NoReply]
  BY DEF Flush
<1>2. DOMAIN runs' = DOMAIN runs /\ \A i \in DOMAIN runs : runs'[i] = runs[i] \/ runs'[i] = replies[i]
  BY DEF Flush
<1>3. ASSUME NEW j \in DOMAIN shown
      PROVE  /\ runs'[j] = runs[j] \/ Stands(runs'[j], shown[j], doc.ops)
             /\ Stands(replies'[j], shown[j], doc.ops)
  <2>1. j \in DOMAIN runs /\ Stands(replies[j], shown[j], doc.ops)
    BY DEF ShownInv
  <2>2. replies'[j] = NoReply
    BY <1>1, <2>1
  <2> QED
    BY <1>2, <2>1, <2>2, NoReplyStands
<1> QED
  BY <1>1, <1>2, <1>3, ShownKeeps

LEMMA GoneShown ==
  ASSUME Gone
  PROVE  ShownInv' /\ ViewInv'
<1>1. ~alive' /\ ~joined' /\ shown' = <<>> /\ DOMAIN <<>> = {}
  BY DEF Gone
<1> QED
  BY <1>1 DEF ShownInv, ViewInv

LEMMA ReopenShown ==
  ASSUME ShownInv, Reopen
  PROVE  ShownInv' /\ ViewInv'
<1>1. ~alive /\ UNCHANGED <<shown, joined>> /\ alive'
  BY DEF Reopen
<1>2. shown' = <<>> /\ ~joined' /\ DOMAIN <<>> = {}
  BY <1>1 DEF ShownInv
<1> QED
  BY <1>1, <1>2 DEF ShownInv, ViewInv

LEMMA ShownInit ==
  ASSUME Init
  PROVE  ShownInv /\ ViewInv
<1>1. shown = <<>> /\ ~joined /\ DOMAIN <<>> = {}
  BY DEF Init
<1> QED
  BY <1>1 DEF ShownInv, ViewInv

LEMMA RunsInvInit ==
  ASSUME Init
  PROVE  RunsInv
<1>1. IsSeq(<<>>) /\ DOMAIN <<>> = {}
  BY DEF IsSeq
<1> QED
  BY <1>1 DEF Init, RunsInv

\* What a document, its runs and its viewer are to one another.
AgreeInv == DecInv /\ RunsInv /\ BudgetInv /\ ShownInv /\ ViewInv

LEMMA AgreeNext ==
  ASSUME AgreeInv, [Next]_vars
  PROVE  AgreeInv'
<1> USE DEF AgreeInv
<1>1. DecInv' /\ RunsInv' /\ BudgetInv'
  BY DecNext, BudgetNext
<1> SUFFICES ShownInv' /\ ViewInv'
  BY <1>1
<1>2. ASSUME NEW start, NEW end, NEW text, Edit(start, end, text)
      PROVE  ShownInv' /\ ViewInv'
  BY <1>2, EditShown, EditView
<1>3. CASE Join
  <2>1. UNCHANGED <<doc, shown, alive, replies, runs>> /\ alive
    BY <1>3 DEF Join
  <2>2. ShownInv'
    BY <2>1 DEF ShownInv
  <2> QED
    BY <1>3, <2>2, JoinView
<1>4. CASE Flush
  BY <1>4, FlushShown, FlushView
<1>5. CASE Fail \/ Crash
  BY <1>5, GoneShown DEF Fail, Crash
<1>6. CASE Reopen
  BY <1>6, ReopenShown
<1>7. CASE Receive
  <2>1. UNCHANGED <<doc, shown, alive, joined, runs, replies>>
    BY <1>7 DEF Receive, session
  <2> QED
    BY <1>7, <2>1, ShownUnmoved, ReceiveView
<1>8. ASSUME UNCHANGED <<session, wire, view, runs>>
      PROVE  ShownInv' /\ ViewInv'
  BY <1>8, ShownUnmoved, ViewUnmoved DEF session
<1>9. CASE Tick
  BY <1>8, <1>9 DEF Tick, viewer
<1>10. CASE \E i \in DOMAIN view.sugs : HandleResolve(i)
  BY <1>10, ResolveShown, ResolveView
<1>11. ASSUME NEW rev, NEW target, Invoke(rev, target)
       PROVE  ShownInv' /\ ViewInv'
  <2>1. UNCHANGED <<doc, shown, after, joined, wire, view>>
    BY <1>11 DEF Invoke, viewer
  <2> QED
    BY <1>11, <2>1, InvokeShown, ViewUnmoved
<1>12. ASSUME NEW i \in DOMAIN runs, BeginRead(i)
       PROVE  ShownInv' /\ ViewInv'
  BY <1>12, ReadShown, ReadView
<1>13. ASSUME NEW i \in DOMAIN runs, Propose(i)
       PROVE  ShownInv' /\ ViewInv'
  BY <1>13, ProposeShown, ProposeView
<1>14. ASSUME NEW i \in DOMAIN runs, EndRun(i)
       PROVE  ShownInv' /\ ViewInv'
  BY <1>14, EndShown, EndView
<1>15. ASSUME NEW i \in DOMAIN runs, Think(i) \/ AskFails(i) \/ Release(i)
       PROVE  ShownInv' /\ ViewInv'
  <2>1. UNCHANGED <<doc, shown, after, joined, wire, view>>
    BY <1>15 DEF Think, AskFails, Release, session, viewer
  <2> QED
    BY <1>15, <2>1, ThinkShown, AskFailsShown, ReleaseShown, ViewUnmoved
<1>16. CASE UNCHANGED vars
  BY <1>8, <1>16 DEF vars, viewer
<1> QED
  BY <1>2, <1>3, <1>4, <1>5, <1>6, <1>7, <1>9, <1>10, <1>11, <1>12, <1>13, <1>14, <1>15, <1>16 DEF Next

LEMMA ShownWhere ==
  ASSUME ShownInv
  PROVE  ShownWhereItPosts
<1> SUFFICES ASSUME NEW i \in DOMAIN shown
             PROVE  /\ runs[i].pc \notin {"ended", "over"}
                    /\ runs[i].pc \in {"thinking", "proposing"} =>
                         LET m == MapRangeFrom(runs[i].rev, runs[i].start, runs[i].end) IN shown[i] = <<m[1], m[2]>>
  BY DEF ShownWhereItPosts
<1>1. Stands(runs[i], shown[i], doc.ops)
  BY DEF ShownInv
<1>2. MapRangeFrom(runs[i].rev, runs[i].start, runs[i].end) = Mapped(doc.ops, runs[i].rev, Rev, runs[i].start, runs[i].end)
  BY MappedIs
<1> QED
  BY <1>1, <1>2 DEF Stands, Place, Rev

\* A viewer that has read everything shows what is open where it is, and the agents at work
\* where their proposals will land, for any edits, decisions, runs and failures, though it
\* moves the anchors on its own and is told only what changed its status (collab.js, advance;
\* session.afterOp).
THEOREM ViewAgreesHolds == Spec => []ViewAgrees
<1>1. Init => AgreeInv
  BY DecInit, BudgetInit, ShownInit DEF AgreeInv
<1>2. AgreeInv /\ [Next]_vars => AgreeInv'
  BY AgreeNext
<1>3. ASSUME AgreeInv
      PROVE  ViewAgrees
  <2>1. ShownWhereItPosts
    BY <1>3, ShownWhere DEF AgreeInv
  <2>2. ASSUME joined, after = <<>>, wire = <<>>
        PROVE  view.sugs = OpenOf(doc) /\ view.agents = shown
    <3>1. wire \o after = <<>>
      BY <2>2
    <3>2. Leads(view, <<>>, Views(OpenOf(doc), shown))
      BY <1>3, <2>2, <3>1 DEF AgreeInv, ViewInv
    <3>3. view = Views(OpenOf(doc), shown)
      BY <3>2, LeadsNowhere
    <3> QED
      BY <3>3 DEF Views
  <2> QED
    BY <2>1, <2>2 DEF ViewAgrees
<1> QED
  BY <1>1, <1>2, <1>3, PTL DEF Spec

-----------------------------------------------------------------------------
(* What an operation does to a text and to ranges of it.                   *)

\* Of the first i components: units of the result, of inserted text, and deleted ones.
Kept(op, i)    == Cardinality({j \in 1..i : ~IsDrop(op[j])})
Typed(op, i)   == Cardinality({j \in 1..i : IsIns(op[j])})
Dropped(op, i) == Cardinality({j \in 1..i : IsDrop(op[j])})

\* One number more.
LEMMA CountOn ==
  ASSUME NEW i \in Nat, NEW S, S \in SUBSET (1..i + 1)
  PROVE  /\ IsFiniteSet(S) /\ Cardinality(S) \in Nat
         /\ Cardinality(S \ {i + 1}) \in Nat
         /\ Cardinality(S) = Cardinality(S \ {i + 1}) + (IF i + 1 \in S THEN 1 ELSE 0)
<1>1. IsFiniteSet(1..i + 1)
  BY FS_Interval
<1>2. IsFiniteSet(S) /\ Cardinality(S) \in Nat
  BY <1>1, FS_Subset, FS_CardinalityType
<1>3. IsFiniteSet(S \ {i + 1}) /\ Cardinality(S \ {i + 1}) \in Nat
  <2>1. S \ {i + 1} \in SUBSET S
    OBVIOUS
  <2> QED
    BY <1>2, <2>1, FS_Subset, FS_CardinalityType
<1>4. CASE i + 1 \in S
  <2>1. (S \ {i + 1}) \cup {i + 1} = S /\ i + 1 \notin S \ {i + 1}
    BY <1>4
  <2>2. Cardinality((S \ {i + 1}) \cup {i + 1}) = Cardinality(S \ {i + 1}) + 1
    BY <1>3, <2>1, FS_AddElement
  <2> QED
    BY <1>2, <1>3, <1>4, <2>1, <2>2
<1>5. CASE i + 1 \notin S
  <2>1. S \ {i + 1} = S /\ (IF i + 1 \in S THEN 1 ELSE 0) = 0
    BY <1>5
  <2>2. PICK R : R = S \ {i + 1}
    OBVIOUS
  <2>3. R = S
    BY <2>1, <2>2
  <2>4. Cardinality(R) = Cardinality(S) /\ Cardinality(S) + 0 = Cardinality(S)
    BY <1>2, <2>3
  <2> QED
    BY <1>2, <2>1, <2>2, <2>4
<1> QED
  BY <1>4, <1>5

LEMMA CountsStart ==
  ASSUME NEW op
  PROVE  Walked(op, 0) = 0 /\ Kept(op, 0) = 0 /\ Typed(op, 0) = 0 /\ Dropped(op, 0) = 0
<1>1. \A j \in 1..0 : FALSE
  OBVIOUS
<1>2. /\ {j \in 1..0 : ~IsIns(op[j])} = {} /\ {j \in 1..0 : ~IsDrop(op[j])} = {}
      /\ {j \in 1..0 : IsIns(op[j])} = {} /\ {j \in 1..0 : IsDrop(op[j])} = {}
  BY <1>1
<1> QED
  BY <1>2, FS_EmptySet DEF Walked, Kept, Typed, Dropped

\* One component more.
LEMMA CountsOn ==
  ASSUME NEW op, NEW i \in Nat
  PROVE  /\ Walked(op, i) \in Nat /\ Kept(op, i) \in Nat /\ Typed(op, i) \in Nat /\ Dropped(op, i) \in Nat
         /\ Walked(op, i + 1) = Walked(op, i) + (IF IsIns(op[i + 1]) THEN 0 ELSE 1)
         /\ Kept(op, i + 1) = Kept(op, i) + (IF IsDrop(op[i + 1]) THEN 0 ELSE 1)
         /\ Typed(op, i + 1) = Typed(op, i) + (IF IsIns(op[i + 1]) THEN 1 ELSE 0)
         /\ Dropped(op, i + 1) = Dropped(op, i) + (IF IsDrop(op[i + 1]) THEN 1 ELSE 0)
<1>0. 1..i + 1 \ {i + 1} = 1..i /\ i + 1 \in 1..i + 1
  OBVIOUS
<1>1. Walked(op, i) \in Nat /\ Walked(op, i + 1) = Walked(op, i) + (IF IsIns(op[i + 1]) THEN 0 ELSE 1)
  <2> DEFINE S == {j \in 1..i + 1 : ~IsIns(op[j])}
  <2>1. S \ {i + 1} = {j \in 1..i : ~IsIns(op[j])} /\ (i + 1 \in S <=> ~IsIns(op[i + 1])) /\ S \in SUBSET (1..i + 1)
    BY <1>0
  <2>2. Walked(op, i + 1) = Cardinality(S) /\ Walked(op, i) = Cardinality(S \ {i + 1})
    BY <2>1 DEF Walked
  <2> HIDE DEF S
  <2>3. Cardinality(S \ {i + 1}) \in Nat /\ Cardinality(S) = Cardinality(S \ {i + 1}) + (IF i + 1 \in S THEN 1 ELSE 0)
    BY <2>1, CountOn
  <2> QED
    BY <2>1, <2>2, <2>3
<1>2. Kept(op, i) \in Nat /\ Kept(op, i + 1) = Kept(op, i) + (IF IsDrop(op[i + 1]) THEN 0 ELSE 1)
  <2> DEFINE S == {j \in 1..i + 1 : ~IsDrop(op[j])}
  <2>1. S \ {i + 1} = {j \in 1..i : ~IsDrop(op[j])} /\ (i + 1 \in S <=> ~IsDrop(op[i + 1])) /\ S \in SUBSET (1..i + 1)
    BY <1>0
  <2>2. Kept(op, i + 1) = Cardinality(S) /\ Kept(op, i) = Cardinality(S \ {i + 1})
    BY <2>1 DEF Kept
  <2> HIDE DEF S
  <2>3. Cardinality(S \ {i + 1}) \in Nat /\ Cardinality(S) = Cardinality(S \ {i + 1}) + (IF i + 1 \in S THEN 1 ELSE 0)
    BY <2>1, CountOn
  <2> QED
    BY <2>1, <2>2, <2>3
<1>3. Typed(op, i) \in Nat /\ Typed(op, i + 1) = Typed(op, i) + (IF IsIns(op[i + 1]) THEN 1 ELSE 0)
  <2> DEFINE S == {j \in 1..i + 1 : IsIns(op[j])}
  <2>1. S \ {i + 1} = {j \in 1..i : IsIns(op[j])} /\ (i + 1 \in S <=> IsIns(op[i + 1])) /\ S \in SUBSET (1..i + 1)
    BY <1>0
  <2>2. Typed(op, i + 1) = Cardinality(S) /\ Typed(op, i) = Cardinality(S \ {i + 1})
    BY <2>1 DEF Typed
  <2> HIDE DEF S
  <2>3. Cardinality(S \ {i + 1}) \in Nat /\ Cardinality(S) = Cardinality(S \ {i + 1}) + (IF i + 1 \in S THEN 1 ELSE 0)
    BY <2>1, CountOn
  <2> QED
    BY <2>1, <2>2, <2>3
<1>4. Dropped(op, i) \in Nat /\ Dropped(op, i + 1) = Dropped(op, i) + (IF IsDrop(op[i + 1]) THEN 1 ELSE 0)
  <2> DEFINE S == {j \in 1..i + 1 : IsDrop(op[j])}
  <2>1. S \ {i + 1} = {j \in 1..i : IsDrop(op[j])} /\ (i + 1 \in S <=> IsDrop(op[i + 1])) /\ S \in SUBSET (1..i + 1)
    BY <1>0
  <2>2. Dropped(op, i + 1) = Cardinality(S) /\ Dropped(op, i) = Cardinality(S \ {i + 1})
    BY <2>1 DEF Dropped
  <2> HIDE DEF S
  <2>3. Cardinality(S \ {i + 1}) \in Nat /\ Cardinality(S) = Cardinality(S \ {i + 1}) + (IF i + 1 \in S THEN 1 ELSE 0)
    BY <2>1, CountOn
  <2> QED
    BY <2>1, <2>2, <2>3
<1> QED
  BY <1>1, <1>2, <1>3, <1>4

LEMMA WalkedOn ==
  ASSUME NEW op, NEW i \in Nat
  PROVE  Walked(op, i + 1) <= Walked(op, i) + 1
<1>1. Walked(op, i) \in Nat /\ Walked(op, i + 1) = Walked(op, i) + (IF IsIns(op[i + 1]) THEN 0 ELSE 1)
  BY CountsOn
<1>2. CASE IsIns(op[i + 1])
  BY <1>1, <1>2
<1>3. CASE ~IsIns(op[i + 1])
  BY <1>1, <1>3
<1> QED
  BY <1>2, <1>3

\* What is kept is what was walked over and typed, without what was dropped.
LEMMA CountsBalance ==
  ASSUME NEW op, NEW n \in Nat
  PROVE  Kept(op, n) = Walked(op, n) + Typed(op, n) - Dropped(op, n)
<1> DEFINE T == {k \in Nat : Kept(op, k) = Walked(op, k) + Typed(op, k) - Dropped(op, k)}
<1>1. 0 \in T
  BY CountsStart
<1>2. ASSUME NEW k \in 0..n - 1, k \in T
      PROVE  k + 1 \in T
  <2>1. ~(IsIns(op[k + 1]) /\ IsDrop(op[k + 1]))
    BY DEF IsIns, IsDrop
  <2>2. Kept(op, k) = Walked(op, k) + Typed(op, k) - Dropped(op, k)
    BY <1>2
  <2> QED
    BY <2>1, <2>2, CountsOn
<1> HIDE DEF T
<1>3. n \in T
  BY <1>1, <1>2, Induction
<1> QED
  BY <1>3 DEF T

LEMMA CountsGrow ==
  ASSUME NEW op, NEW i \in Nat, NEW j \in Nat, i <= j
  PROVE  Walked(op, i) <= Walked(op, j) /\ Kept(op, i) <= Kept(op, j)
<1> DEFINE T == {k \in Nat : Walked(op, i) <= Walked(op, i + k) /\ Kept(op, i) <= Kept(op, i + k)}
<1> PICK n \in Nat : n = j - i
  OBVIOUS
<1>1. 0 \in T
  BY CountsOn
<1>2. ASSUME NEW k \in 0..n - 1, k \in T
      PROVE  k + 1 \in T
  <2>1. PICK h \in Nat : h = i + k /\ i + (k + 1) = h + 1
    OBVIOUS
  <2>2. Walked(op, i) <= Walked(op, h) /\ Kept(op, i) <= Kept(op, h)
    BY <1>2, <2>1
  <2>3. Walked(op, h) <= Walked(op, h + 1) /\ Kept(op, h) <= Kept(op, h + 1)
    BY CountsOn
  <2>4. Walked(op, i) <= Walked(op, h + 1) /\ Kept(op, i) <= Kept(op, h + 1)
    BY <2>2, <2>3, CountsOn
  <2> QED
    BY <2>1, <2>4
<1> HIDE DEF T
<1>3. n \in T
  BY <1>1, <1>2, Induction
<1>4. i + n = j
  OBVIOUS
<1> QED
  BY <1>3, <1>4 DEF T

\* Where a text position comes up first and last.
First(op, p, i) == Walked(op, i) = p /\ \A j \in 0..i - 1 : Walked(op, j) < p
Last(op, p, n, i) == Walked(op, i) = p /\ \A j \in i + 1..n : Walked(op, j) > p

LEMMA HasFirst ==
  ASSUME NEW op, NEW n \in Nat, NEW p \in 0..Walked(op, n)
  PROVE  \E i \in 0..n : First(op, p, i)
<1>0. \A i \in Nat : Walked(op, i) \in Nat
  BY CountsOn
<1> DEFINE U == {i \in 0..n : Walked(op, i) >= p}
<1>1. U \in SUBSET Nat /\ U # {}
  BY <1>0
<1>2. PICK m \in U : \A k \in U : m <= k
  BY <1>1, Minimum
<1>3. m \in 0..n /\ Walked(op, m) >= p
  BY <1>2
<1>4. \A j \in 0..m - 1 : Walked(op, j) < p
  <2>1. ASSUME NEW j \in 0..m - 1
        PROVE  Walked(op, j) < p
    <3>1. j \in 0..n /\ ~(m <= j) /\ j \in Nat
      BY <1>3
    <3>2. j \notin U
      BY <1>2, <3>1
    <3> QED
      BY <1>0, <3>1, <3>2
  <2> QED
    BY <2>1
<1>5. Walked(op, m) = p
  <2>1. CASE m = 0
    BY <1>3, <2>1, CountsStart
  <2>2. CASE m # 0
    <3>1. PICK h \in Nat : m = h + 1 /\ h \in 0..m - 1
      BY <1>3, <2>2
    <3>2. Walked(op, h + 1) <= Walked(op, h) + 1
      BY WalkedOn
    <3>3. Walked(op, h) < p
      BY <1>4, <3>1
    <3> QED
      BY <1>0, <1>3, <3>1, <3>2, <3>3
  <2> QED
    BY <2>1, <2>2
<1> QED
  BY <1>3, <1>4, <1>5 DEF First

LEMMA HasLast ==
  ASSUME NEW op, NEW n \in Nat, NEW p \in 0..Walked(op, n)
  PROVE  \E i \in 0..n : Last(op, p, n, i)
<1>0. \A i \in Nat : Walked(op, i) \in Nat
  BY CountsOn
<1> DEFINE U == {i \in 0..n + 1 : i = n + 1 \/ Walked(op, i) > p}
<1>1. U \in SUBSET Nat /\ n + 1 \in U
  BY <1>0
<1>2. PICK m \in U : \A k \in U : m <= k
  BY <1>1, Minimum
<1>3. m \in 0..n + 1 /\ (m = n + 1 \/ Walked(op, m) > p)
  BY <1>2
<1>4. m # 0
  BY <1>3, CountsStart
<1>5. PICK h \in Nat : m = h + 1 /\ h \in 0..n
  BY <1>3, <1>4
<1>6. Walked(op, h) <= p
  <2>1. h \notin U
    BY <1>2, <1>5
  <2> QED
    BY <1>0, <1>5, <2>1
<1>7. Walked(op, h) = p
  <2>1. CASE m = n + 1
    BY <1>0, <1>5, <1>6, <2>1
  <2>2. CASE Walked(op, m) > p
    <3>1. Walked(op, h + 1) <= Walked(op, h) + 1
      BY WalkedOn
    <3> QED
      BY <1>0, <1>5, <1>6, <2>2, <3>1
  <2> QED
    BY <1>3, <2>1, <2>2
<1>8. \A j \in h + 1..n : Walked(op, j) > p
  <2>1. ASSUME NEW j \in h + 1..n
        PROVE  Walked(op, j) > p
    <3>1. j \in Nat /\ m \in Nat /\ m <= j /\ m <= n
      BY <1>5
    <3>2. Walked(op, m) > p /\ Walked(op, m) <= Walked(op, j)
      BY <1>3, <3>1, CountsGrow
    <3> QED
      BY <1>0, <3>1, <3>2
  <2> QED
    BY <2>1
<1> QED
  BY <1>5, <1>7, <1>8 DEF Last

\* A position after which nothing or everything typed there counts, by components.
LEMMA MapPosFirst ==
  ASSUME NEW op, IsSeq(op), NEW p \in 0..BaseLen(op), NEW i \in 0..Len(op), First(op, p, i)
  PROVE  MapPos(op, p, FALSE) = Kept(op, i)
<1>1. PICK n \in Nat : n = Len(op) /\ DOMAIN op = 1..n
  BY Seqs
<1>2. \A j \in Nat : Walked(op, j) \in Nat
  BY CountsOn
<1>3. ASSUME NEW j \in 1..n
      PROVE  At(op, j) < p <=> j \in 1..i
  <2>1. j - 1 \in Nat /\ i \in Nat /\ At(op, j) = Walked(op, j - 1) /\ Walked(op, i) = p
    BY <1>1 DEF At, First
  <2>2. j \in 1..i => j - 1 \in 0..i - 1
    BY <2>1
  <2>3. ~(j \in 1..i) => i <= j - 1
    BY <2>1
  <2>4. i <= j - 1 => Walked(op, i) <= Walked(op, j - 1)
    BY <2>1, CountsGrow
  <2>5. CASE j \in 1..i
    BY <2>1, <2>2, <2>5 DEF First
  <2>6. CASE ~(j \in 1..i)
    <3>1. p <= Walked(op, j - 1) /\ p \in Int /\ Walked(op, j - 1) \in Nat
      BY <1>2, <2>1, <2>3, <2>4, <2>6
    <3> QED
      BY <2>1, <2>6, <3>1
  <2> QED
    BY <2>5, <2>6
<1>4. {j \in 1..n : /\ IsIns(op[j]) /\ (At(op, j) < p \/ (FALSE /\ At(op, j) = p))} = {j \in 1..i : IsIns(op[j])}
  BY <1>1, <1>3
<1>5. {j \in 1..n : IsDrop(op[j]) /\ At(op, j) < p} = {j \in 1..i : IsDrop(op[j])}
  BY <1>1, <1>3
<1>6. MapPos(op, p, FALSE) = p + Typed(op, i) - Dropped(op, i)
  BY <1>1, <1>4, <1>5 DEF MapPos, Typed, Dropped
<1>7. Kept(op, i) = Walked(op, i) + Typed(op, i) - Dropped(op, i)
  BY <1>1, CountsBalance
<1> QED
  BY <1>6, <1>7 DEF First

LEMMA MapPosLast ==
  ASSUME NEW op, IsSeq(op), NEW p \in 0..BaseLen(op), NEW i \in 0..Len(op), Last(op, p, Len(op), i)
  PROVE  MapPos(op, p, TRUE) = Kept(op, i)
<1>1. PICK n \in Nat : n = Len(op) /\ DOMAIN op = 1..n
  BY Seqs
<1>2. \A j \in Nat : Walked(op, j) \in Nat
  BY CountsOn
<1>3. ASSUME NEW j \in 1..n
      PROVE  /\ IsIns(op[j]) => (At(op, j) < p \/ At(op, j) = p <=> j \in 1..i)
             /\ IsDrop(op[j]) => (At(op, j) < p <=> j \in 1..i)
  <2>1. PICK h \in Nat : h = j - 1 /\ j = h + 1
    BY <1>1
  <2>2. i \in Nat /\ At(op, j) = Walked(op, h) /\ Walked(op, i) = p /\ (IsDrop(op[j]) => ~IsIns(op[j]))
    BY <1>1, <2>1 DEF At, Last, IsDrop, IsIns
  <2>3. CASE j \in 1..i
    <3>1. Walked(op, h) <= p /\ Walked(op, h + 1) <= p
      BY <2>1, <2>2, <2>3, CountsGrow
    <3>2. ~IsIns(op[j]) => Walked(op, h + 1) = Walked(op, h) + 1
      BY <2>1, CountsOn
    <3> QED
      BY <1>2, <2>1, <2>2, <2>3, <3>1, <3>2
  <2>4. CASE j \notin 1..i
    <3>1. i <= h /\ j \in i + 1..n
      BY <2>1, <2>4
    <3>2. p <= Walked(op, h) /\ Walked(op, j) > p
      BY <1>1, <2>1, <2>2, <3>1, CountsGrow DEF Last
    <3>3. IsIns(op[j]) => Walked(op, j) = Walked(op, h)
      <4>1. IsIns(op[j]) => Walked(op, h + 1) = Walked(op, h) + 0
        BY <2>1, CountsOn
      <4> QED
        BY <1>2, <2>1, <4>1
    <3>4. Walked(op, h) \in Nat /\ Walked(op, j) \in Nat /\ p \in Int
      BY <1>2, <2>1, <2>2
    <3>5. ~(Walked(op, h) < p) /\ (IsIns(op[j]) => Walked(op, h) # p)
      BY <3>2, <3>3, <3>4
    <3> QED
      BY <2>2, <2>4, <3>5
  <2> QED
    BY <2>3, <2>4
<1>4. {j \in 1..n : /\ IsIns(op[j]) /\ (At(op, j) < p \/ (TRUE /\ At(op, j) = p))} = {j \in 1..i : IsIns(op[j])}
  BY <1>1, <1>3
<1>5. {j \in 1..n : IsDrop(op[j]) /\ At(op, j) < p} = {j \in 1..i : IsDrop(op[j])}
  BY <1>1, <1>3
<1>6. MapPos(op, p, TRUE) = p + Typed(op, i) - Dropped(op, i)
  BY <1>1, <1>4, <1>5 DEF MapPos, Typed, Dropped
<1>7. Kept(op, i) = Walked(op, i) + Typed(op, i) - Dropped(op, i)
  BY <1>1, CountsBalance
<1> QED
  BY <1>6, <1>7 DEF Last

\* The components from a to a + k keep one unit each.
KeepsFrom(op, a, k) ==
  \A t \in 1..k : /\ ~IsIns(op[a + t]) /\ ~IsDrop(op[a + t])
                  /\ Walked(op, a + t) = Walked(op, a) + t /\ Kept(op, a + t) = Kept(op, a) + t

\* Nothing typed and nothing deleted in between keeps what is there.
LEMMA UntouchedKeeps ==
  ASSUME NEW op, IsSeq(op), NEW s \in 0..BaseLen(op), NEW e \in s + 1..BaseLen(op), ~Touches(op, s, e),
         NEW a \in 0..Len(op), Last(op, s, Len(op), a), NEW b \in 0..Len(op), First(op, e, b)
  PROVE  b = a + (e - s) /\ KeepsFrom(op, a, e - s)
<1>1. PICK n \in Nat : n = Len(op) /\ DOMAIN op = 1..n
  BY Seqs
<1>2. \A j \in Nat : Walked(op, j) \in Nat /\ Kept(op, j) \in Nat
  BY CountsOn
<1>3. Walked(op, a) = s /\ Walked(op, b) = e /\ a \in Nat /\ b \in Nat /\ a < b
  <2>1. Walked(op, a) = s /\ Walked(op, b) = e /\ a \in Nat /\ b \in Nat
    BY <1>1 DEF Last, First
  <2>2. b <= a => Walked(op, b) <= Walked(op, a)
    BY <2>1, CountsGrow
  <2> QED
    BY <1>1, <2>1, <2>2
<1>4. ASSUME NEW j \in a + 1..b
      PROVE  ~IsIns(op[j]) /\ ~IsDrop(op[j])
  <2>1. PICK h \in Nat : h = j - 1 /\ j = h + 1 /\ a <= h /\ h < b /\ j \in 1..n
    BY <1>1, <1>3
  <2>2. At(op, j) = Walked(op, h) /\ Walked(op, h) \in Nat
    BY <1>2, <2>1 DEF At
  <2>3. s <= Walked(op, h)
    BY <1>3, <2>1, CountsGrow
  <2>4. Walked(op, h) < e
    <3>1. h \in 0..b - 1
      BY <1>3, <2>1
    <3> QED
      BY <3>1 DEF First
  <2>5. ASSUME IsIns(op[j])
        PROVE  FALSE
    <3>1. Walked(op, h + 1) = Walked(op, h) + 0
      BY <2>1, <2>5, CountsOn
    <3>2. j \in a + 1..n
      BY <1>1, <1>3, <2>1
    <3>3. Walked(op, j) > s
      BY <1>1, <3>2 DEF Last
    <3>4. At(op, j) \in s + 1..e - 1
      BY <1>1, <2>1, <2>2, <2>4, <3>1, <3>3
    <3> QED
      BY <1>1, <2>1, <2>5, <3>4 DEF Touches
  <2>6. ASSUME IsDrop(op[j])
        PROVE  FALSE
    <3>1. At(op, j) \in s..e - 1
      BY <2>2, <2>3, <2>4
    <3>2. Deletes(op, At(op, j))
      BY <1>1, <2>1, <2>6 DEF Deletes
    <3> QED
      BY <3>1, <3>2 DEF Touches
  <2> QED
    BY <2>5, <2>6
<1> PICK k \in Nat : k = b - a /\ b = a + k
  BY <1>3
<1> DEFINE T == {t \in Nat : Walked(op, a + t) = Walked(op, a) + t /\ Kept(op, a + t) = Kept(op, a) + t}
<1>5. 0 \in T
  BY <1>2, <1>3
<1>6. ASSUME NEW t \in 0..k - 1, t \in T
      PROVE  t + 1 \in T
  <2>1. PICK h \in Nat : h = a + t /\ a + (t + 1) = h + 1 /\ h + 1 \in a + 1..b
    BY <1>3
  <2>2. Walked(op, h) = Walked(op, a) + t /\ Kept(op, h) = Kept(op, a) + t
    BY <1>6, <2>1
  <2>3. ~IsIns(op[h + 1]) /\ ~IsDrop(op[h + 1])
    BY <1>4, <2>1
  <2>4. Walked(op, h + 1) = Walked(op, h) + 1 /\ Kept(op, h + 1) = Kept(op, h) + 1
    BY <2>3, CountsOn
  <2>5. Walked(op, a) \in Nat /\ Kept(op, a) \in Nat
    BY <1>2, <1>3
  <2>6. Walked(op, h + 1) = Walked(op, a) + (t + 1) /\ Kept(op, h + 1) = Kept(op, a) + (t + 1)
    BY <2>2, <2>4, <2>5
  <2> QED
    BY <2>1, <2>6
<1> HIDE DEF T
<1>7. \A t \in 0..k : t \in T
  BY <1>5, <1>6, Induction
<1>8. k = e - s
  <2>1. k \in T
    BY <1>7
  <2>2. Walked(op, a + k) = Walked(op, a) + k
    BY <2>1 DEF T
  <2> QED
    BY <1>3, <2>2
<1>9. ASSUME NEW t \in 1..k
      PROVE  /\ ~IsIns(op[a + t]) /\ ~IsDrop(op[a + t])
             /\ Walked(op, a + t) = Walked(op, a) + t /\ Kept(op, a + t) = Kept(op, a) + t
  <2>1. t \in T
    BY <1>7
  <2>2. a + t \in a + 1..b
    BY <1>3
  <2> QED
    BY <1>4, <2>1, <2>2 DEF T
<1> QED
  BY <1>8, <1>9 DEF KeepsFrom

\* Of an untouched range that is not empty.
StaysAt(op, s, e, m) ==
  \E a \in Nat : /\ a + (e - s) <= Len(op) /\ Walked(op, a) = s /\ m[1] = Kept(op, a) /\ m[2] = m[1] + (e - s)
                 /\ KeepsFrom(op, a, e - s)

\* A range stays one, within the text.
LEMMA RangeMoves ==
  ASSUME NEW op, IsSeq(op), NEW s \in 0..BaseLen(op), NEW e \in s..BaseLen(op), NEW m, m = MapRange(op, s, e)
  PROVE  /\ m[1] \in Nat /\ m[2] \in Nat /\ m[1] <= m[2] /\ m[2] <= Kept(op, Len(op)) /\ m[3] \in BOOLEAN
         /\ ~m[3] /\ s = e => m[1] = m[2]
         /\ ~m[3] /\ s # e => StaysAt(op, s, e, m)
<1>1. PICK n \in Nat : n = Len(op) /\ DOMAIN op = 1..n
  BY Seqs
<1>2. \A j \in Nat : Walked(op, j) \in Nat /\ Kept(op, j) \in Nat
  BY CountsOn
<1>3. BaseLen(op) = Walked(op, n) /\ BaseLen(op) \in Nat
  BY <1>1, <1>2 DEF BaseLen
<1>4. s \in 0..Walked(op, n) /\ e \in 0..Walked(op, n) /\ s \in Nat /\ e \in Nat /\ s <= e
  BY <1>3
<1>5. PICK a1 \in 0..n : First(op, s, a1)
  BY <1>4, HasFirst
<1>6. PICK a2 \in 0..n : Last(op, s, n, a2)
  BY <1>4, HasLast
<1>7. PICK b1 \in 0..n : First(op, e, b1)
  BY <1>4, HasFirst
<1>8. PICK b2 \in 0..n : Last(op, e, n, b2)
  BY <1>4, HasLast
<1>9. /\ MapPos(op, s, FALSE) = Kept(op, a1) /\ MapPos(op, s, TRUE) = Kept(op, a2)
      /\ MapPos(op, e, FALSE) = Kept(op, b1) /\ MapPos(op, e, TRUE) = Kept(op, b2)
  BY <1>1, <1>3, <1>4, <1>5, <1>6, <1>7, <1>8, MapPosFirst, MapPosLast
<1>10. a1 \in Nat /\ a2 \in Nat /\ b1 \in Nat /\ b2 \in Nat /\ a1 <= n /\ a2 <= n /\ b1 <= n /\ b2 <= n
  OBVIOUS
<1>11. Kept(op, a1) <= Kept(op, n) /\ Kept(op, a2) <= Kept(op, n) /\ Kept(op, b1) <= Kept(op, n) /\ Kept(op, b2) <= Kept(op, n)
  BY <1>10, CountsGrow
<1>12. CASE Touches(op, s, e)
  <2>1. m = <<Kept(op, a1), Kept(op, b2), TRUE>>
    BY <1>9, <1>12 DEF MapRange
  <2>2. a1 <= b2
    <3>1. Walked(op, a1) = s /\ (\A j \in b2 + 1..n : Walked(op, j) > e)
      BY <1>5, <1>8 DEF First, Last
    <3>2. ~(b2 < a1)
      <4>1. b2 < a1 => a1 \in b2 + 1..n
        BY <1>10
      <4> QED
        BY <1>4, <3>1, <4>1
    <3> QED
      BY <1>10, <3>2
  <2>3. Kept(op, a1) <= Kept(op, b2)
    BY <1>10, <2>2, CountsGrow
  <2>4. m[1] = Kept(op, a1) /\ m[2] = Kept(op, b2) /\ m[3] = TRUE
    BY <2>1
  <2>5. Kept(op, a1) \in Nat /\ Kept(op, b2) \in Nat
    BY <1>2, <1>10
  <2> QED
    BY <1>1, <1>11, <2>3, <2>4, <2>5
<1>13. CASE ~Touches(op, s, e) /\ s = e
  <2>1. Kept(op, b1) <= Kept(op, a2)
    <3>1. Walked(op, a2) = s /\ (\A j \in 0..b1 - 1 : Walked(op, j) < e)
      BY <1>6, <1>7 DEF First, Last
    <3>2. ~(a2 < b1)
      <4>1. a2 < b1 => a2 \in 0..b1 - 1
        BY <1>10
      <4> QED
        BY <1>4, <1>13, <3>1, <4>1
    <3> QED
      BY <1>10, <3>2, CountsGrow
  <2>2. m = <<Kept(op, a2), IF Kept(op, b1) < Kept(op, a2) THEN Kept(op, a2) ELSE Kept(op, b1), FALSE>>
    BY <1>9, <1>13 DEF MapRange
  <2>3. m = <<Kept(op, a2), Kept(op, a2), FALSE>>
    <3>1. Kept(op, b1) \in Nat /\ Kept(op, a2) \in Nat
      BY <1>2, <1>10
    <3> QED
      BY <2>1, <2>2, <3>1
  <2>4. m[1] = Kept(op, a2) /\ m[2] = Kept(op, a2) /\ m[3] = FALSE /\ Kept(op, a2) \in Nat
    BY <1>2, <1>10, <2>3
  <2>5. m[1] \in Nat /\ m[2] \in Nat /\ m[1] <= m[2] /\ m[2] <= Kept(op, Len(op)) /\ m[1] = m[2]
    BY <1>1, <1>11, <2>4
  <2>6. m[3] \in BOOLEAN /\ s = e
    BY <1>13, <2>4
  <2> QED
    BY <2>5, <2>6, Zenon
<1>14. CASE ~Touches(op, s, e) /\ s # e
  <2>1. e \in s + 1..BaseLen(op)
    BY <1>3, <1>4, <1>14
  <2>2. b1 = a2 + (e - s) /\ KeepsFrom(op, a2, e - s)
    BY <1>1, <1>3, <1>4, <1>6, <1>7, <1>14, <2>1, UntouchedKeeps
  <2>3. Kept(op, b1) = Kept(op, a2) + (e - s)
    <3>1. e - s \in 1..e - s
      BY <1>4, <1>14
    <3> QED
      BY <2>2, <3>1 DEF KeepsFrom
  <2>4. m = <<Kept(op, a2), IF Kept(op, b1) < Kept(op, a2) THEN Kept(op, a2) ELSE Kept(op, b1), FALSE>>
    BY <1>9, <1>14 DEF MapRange
  <2>5. Kept(op, b1) \in Nat /\ Kept(op, a2) \in Nat
    BY <1>2, <1>10
  <2>6. m = <<Kept(op, a2), Kept(op, b1), FALSE>> /\ Kept(op, a2) <= Kept(op, b1)
    BY <1>4, <2>3, <2>4, <2>5
  <2>7. StaysAt(op, s, e, m)
    <3>1. a2 \in Nat /\ a2 + (e - s) <= Len(op) /\ Walked(op, a2) = s
      BY <1>1, <1>6, <1>10, <2>2 DEF Last
    <3> QED
      BY <2>2, <2>3, <2>6, <3>1 DEF StaysAt
  <2> QED
    BY <1>1, <1>11, <1>14, <2>5, <2>6, <2>7
<1> QED
  BY <1>12, <1>13, <1>14

-----------------------------------------------------------------------------
(* Apply: the text that is written component by component.                 *)

Unit(op, text, i) == IF IsIns(op[i]) THEN op[i].u ELSE text[Walked(op, i)]

Written(before, op, text, i) == IF IsDrop(op[i]) THEN before ELSE Append(before, Unit(op, text, i))

Writes(f, n, op, text) ==
  f = [i \in 0..n |-> IF i = 0 THEN <<>>
                      ELSE IF IsDrop(op[i]) THEN f[i-1]
                      ELSE Append(f[i-1], IF IsIns(op[i]) THEN op[i].u ELSE text[Walked(op, i)])]

LEMMA WritesIs ==
  ASSUME NEW f, NEW n, NEW op, NEW text
  PROVE  Writes(f, n, op, text) <=> f = [i \in 0..n |-> IF i = 0 THEN <<>> ELSE Written(f[i-1], op, text, i)]
BY DEF Writes, Written, Unit

LEMMA WritesOn ==
  ASSUME NEW op, NEW text, NEW n \in Nat
  PROVE  \E f : Writes(f, n, op, text)
<1> DEFINE T == {k \in Nat : \E f : Writes(f, k, op, text)}
           Then(before, i) == Written(before, op, text, i)
<1>0. ASSUME NEW f, NEW k, f = [i \in 0..k |-> IF i = 0 THEN <<>> ELSE Then(f[i-1], i)]
      PROVE  Writes(f, k, op, text)
  BY <1>0, WritesIs
<1>1. 0 \in T
  <2> DEFINE f == [i \in 0..0 |-> <<>>]
  <2>1. Writes(f, 0, op, text)
    BY DEF Writes
  <2> QED
    BY <2>1
<1>2. ASSUME NEW k \in 0..n - 1, k \in T
      PROVE  k + 1 \in T
  <2>1. PICK f : Writes(f, k, op, text)
    BY <1>2
  <2>2. f = [i \in 0..k |-> IF i = 0 THEN <<>> ELSE Then(f[i-1], i)]
    BY <2>1, WritesIs
  <2> HIDE DEF Then
  <2> DEFINE g == [i \in 0..k + 1 |-> IF i = k + 1 THEN Then(f[k], k + 1) ELSE f[i]]
  <2>3. ASSUME NEW i \in 0..k + 1
        PROVE  g[i] = IF i = 0 THEN <<>> ELSE Then(g[i-1], i)
    <3>1. CASE i = k + 1
      BY <3>1
    <3>2. CASE i \in 0..k
      <4>1. f[i] = IF i = 0 THEN <<>> ELSE Then(f[i-1], i)
        BY <2>2, <3>2
      <4>2. g[i] = f[i] /\ (i # 0 => g[i-1] = f[i-1])
        BY <3>2
      <4> QED
        BY <4>1, <4>2
    <3> QED
      BY <3>1, <3>2
  <2>4. Writes(g, k + 1, op, text)
    <3> DEFINE h == [i \in 0..k + 1 |-> IF i = 0 THEN <<>> ELSE Then(g[i-1], i)]
    <3>1. \A i \in 0..k + 1 : g[i] = h[i]
      BY <2>3
    <3>2. g = h
      BY <3>1
    <3> HIDE DEF g
    <3> QED
      BY <1>0, <3>2
  <2> QED
    BY <2>4
<1> HIDE DEF T
<1>3. n \in T
  BY <1>1, <1>2, Induction
<1> QED
  BY <1>3 DEF T

LEMMA ApplyIs ==
  ASSUME NEW op, NEW text, NEW n \in Nat, n = Len(op)
  PROVE  \E f : /\ f[0] = <<>> /\ Apply(op, text) = f[n]
                /\ \A i \in 1..n : f[i] = Written(f[i-1], op, text, i)
<1> DEFINE f == CHOOSE g : Writes(g, n, op, text)
<1>1. Writes(f, n, op, text)
  BY WritesOn
<1>2. Apply(op, text) = f[n]
  BY DEF Apply, Writes
<1> HIDE DEF f
<1> DEFINE Then(before, i) == Written(before, op, text, i)
<1>3. f = [i \in 0..n |-> IF i = 0 THEN <<>> ELSE Then(f[i-1], i)]
  BY <1>1, WritesIs
<1> HIDE DEF Then
<1>4. \A i \in 0..n : f[i] = IF i = 0 THEN <<>> ELSE Then(f[i-1], i)
  BY <1>3
<1>5. f[0] = <<>> /\ \A i \in 1..n : f[i] = Then(f[i-1], i)
  BY <1>4
<1> QED
  BY <1>2, <1>5 DEF Then

\* A text has been written from components up to i: one unit of each that is not a
\* deletion, at its place, and nothing else.
WrittenFrom(t, op, text, i) ==
  /\ IsSeq(t) /\ Len(t) = Kept(op, i)
  /\ \A j \in 1..i : ~IsDrop(op[j]) => Kept(op, j) \in 1..Len(t) /\ t[Kept(op, j)] = Unit(op, text, j)
  /\ \A k \in 1..Len(t) : \E j \in 1..i : ~IsDrop(op[j]) /\ Kept(op, j) = k

Longer(x, t, u) == IsSeq(x) /\ Len(x) = Len(t) + 1 /\ x[Len(t) + 1] = u /\ \A k \in 1..Len(t) : x[k] = t[k]

LEMMA AppendIs ==
  ASSUME NEW t, IsSeq(t), NEW u
  PROVE  Longer(Append(t, u), t, u)
<1>1. PICK S : t \in Seq(S)
  BY DEF IsSeq
<1>2. t \in Seq(S \cup {u}) /\ u \in S \cup {u}
  BY <1>1
<1>3. Append(t, u) \in Seq(S \cup {u}) /\ Len(Append(t, u)) = Len(t) + 1
  BY <1>2
<1>4. Append(t, u)[Len(t) + 1] = u /\ \A k \in 1..Len(t) : Append(t, u)[k] = t[k]
  BY <1>2
<1> QED
  BY <1>3, <1>4 DEF Longer, IsSeq

LEMMA WrittenOn ==
  ASSUME NEW t, NEW op, NEW text, NEW i \in Nat, WrittenFrom(t, op, text, i),
         NEW x, x = Written(t, op, text, i + 1)
  PROVE  WrittenFrom(x, op, text, i + 1)
<1>1. Kept(op, i) \in Nat /\ Kept(op, i + 1) = Kept(op, i) + (IF IsDrop(op[i + 1]) THEN 0 ELSE 1)
  BY CountsOn
<1>2. CASE IsDrop(op[i + 1])
  <2>1. x = t /\ Kept(op, i + 1) = Kept(op, i)
    BY <1>1, <1>2 DEF Written
  <2>2. \A j \in 1..i + 1 : ~IsDrop(op[j]) => j \in 1..i
    BY <1>2
  <2>3. \A j \in 1..i : j \in 1..i + 1
    OBVIOUS
  <2> QED
    BY <2>1, <2>2, <2>3 DEF WrittenFrom
<1>3. CASE ~IsDrop(op[i + 1])
  <2>1. PICK u : u = Unit(op, text, i + 1)
    OBVIOUS
  <2>2. x = Append(t, u) /\ Kept(op, i + 1) = Kept(op, i) + 1
    BY <1>1, <1>3, <2>1 DEF Written
  <2>4. PICK n \in Nat : n = Len(t) /\ n = Kept(op, i)
    BY <1>1 DEF WrittenFrom
  <2>5. IsSeq(x) /\ Len(x) = n + 1 /\ x[n + 1] = u /\ \A k \in 1..n : x[k] = t[k]
    <3>1. IsSeq(t)
      BY DEF WrittenFrom
    <3>2. Longer(x, t, u)
      BY <2>2, <3>1, AppendIs
    <3> QED
      BY <2>4, <3>2 DEF Longer
  <2>6. ASSUME NEW j \in 1..i + 1, ~IsDrop(op[j])
        PROVE  Kept(op, j) \in 1..n + 1 /\ x[Kept(op, j)] = Unit(op, text, j)
    <3>1. CASE j = i + 1
      BY <2>1, <2>2, <2>4, <2>5, <3>1
    <3>2. CASE j \in 1..i
      <4>1. Kept(op, j) \in 1..n /\ t[Kept(op, j)] = Unit(op, text, j)
        BY <2>4, <2>6, <3>2 DEF WrittenFrom
      <4> QED
        BY <2>5, <4>1
    <3> QED
      BY <3>1, <3>2
  <2>7. ASSUME NEW k \in 1..n + 1
        PROVE  \E j \in 1..i + 1 : ~IsDrop(op[j]) /\ Kept(op, j) = k
    <3>1. CASE k = n + 1
      <4>1. i + 1 \in 1..i + 1 /\ Kept(op, i + 1) = k
        BY <2>2, <2>4, <3>1
      <4> QED
        BY <1>3, <4>1
    <3>2. CASE k \in 1..n
      <4>1. PICK j \in 1..i : ~IsDrop(op[j]) /\ Kept(op, j) = k
        BY <2>4, <3>2 DEF WrittenFrom
      <4>2. j \in 1..i + 1
        OBVIOUS
      <4> QED
        BY <4>1, <4>2
    <3> QED
      BY <3>1, <3>2
  <2>8. IsSeq(x) /\ Len(x) = n + 1 /\ Kept(op, i + 1) = n + 1
    BY <2>2, <2>4, <2>5
  <2> QED
    BY <2>6, <2>7, <2>8 DEF WrittenFrom
<1> QED
  BY <1>2, <1>3

LEMMA ApplyWrites ==
  ASSUME NEW op, IsSeq(op), NEW text
  PROVE  WrittenFrom(Apply(op, text), op, text, Len(op))
<1>1. PICK n \in Nat : n = Len(op)
  BY Seqs
<1>2. PICK f : /\ f[0] = <<>> /\ Apply(op, text) = f[n]
               /\ \A i \in 1..n : f[i] = Written(f[i-1], op, text, i)
  BY <1>1, ApplyIs
<1> DEFINE T == {k \in Nat : WrittenFrom(f[k], op, text, k)}
<1>3. 0 \in T
  <2>1. IsSeq(<<>>) /\ Len(<<>>) = 0 /\ Kept(op, 0) = 0 /\ \A j \in 1..0 : FALSE
    BY CountsStart DEF IsSeq
  <2> QED
    BY <1>2, <2>1 DEF WrittenFrom
<1>4. ASSUME NEW k \in 0..n - 1, k \in T
      PROVE  k + 1 \in T
  <2>1. k + 1 \in 1..n /\ (k + 1) - 1 = k /\ k \in Nat
    BY <1>1
  <2>2. f[k + 1] = Written(f[k], op, text, k + 1)
    BY <1>2, <2>1
  <2>3. WrittenFrom(f[k], op, text, k)
    BY <1>4
  <2>4. WrittenFrom(f[k + 1], op, text, k + 1)
    BY <2>1, <2>2, <2>3, WrittenOn
  <2> QED
    BY <2>1, <2>4
<1> HIDE DEF T
<1>5. \A k \in 0..n : k \in T
  BY <1>3, <1>4, Induction
<1>6. n \in T
  BY <1>5
<1> QED
  BY <1>1, <1>2, <1>6 DEF T

\* The length of the result.
LEMMA TargetIs ==
  ASSUME NEW op, IsSeq(op)
  PROVE  TargetLen(op) = Kept(op, Len(op)) /\ TargetLen(op) \in Nat
<1>1. Len(op) \in Nat /\ DOMAIN op = 1..Len(op)
  BY Seqs
<1>2. TargetLen(op) = Kept(op, Len(op))
  BY <1>1 DEF TargetLen, Kept
<1> QED
  BY <1>1, <1>2, CountsOn

Part(y, x, a, b) == IsSeq(y) /\ Len(y) = b - a /\ \A i \in 1..b - a : y[i] = x[a + i]

LEMMA PartOf ==
  ASSUME NEW x, IsSeq(x), NEW a \in Nat, NEW b \in Nat, a <= b, b <= Len(x)
  PROVE  Part(SubSeq(x, a + 1, b), x, a, b)
<1>1. PICK S : x \in Seq(S)
  BY DEF IsSeq
<1>2. SubSeq(x, a + 1, b) \in Seq(S) /\ Len(SubSeq(x, a + 1, b)) = b - a
  BY <1>1
<1>3. \A i \in 1..b - a : SubSeq(x, a + 1, b)[i] = x[a + i]
  BY <1>1
<1> QED
  BY <1>2, <1>3 DEF IsSeq, Part

\* A range that is not touched keeps its text (mapRange's promise, on which accepting a
\* suggestion rests).
KeepsItsText(op, text, s, e) ==
  LET m == MapRange(op, s, e)
  IN  ~m[3] => SubSeq(Apply(op, text), m[1] + 1, m[2]) = SubSeq(text, s + 1, e)

LEMMA UntouchedKeepsText ==
  ASSUME NEW op, IsSeq(op), NEW text, IsSeq(text), BaseLen(op) = Len(text),
         NEW s \in 0..Len(text), NEW e \in s..Len(text)
  PROVE  KeepsItsText(op, text, s, e)
<1> PICK m : m = MapRange(op, s, e)
  OBVIOUS
<1> SUFFICES ASSUME ~m[3]
             PROVE  SubSeq(Apply(op, text), m[1] + 1, m[2]) = SubSeq(text, s + 1, e)
  BY DEF KeepsItsText
<1> PICK t : t = Apply(op, text)
  OBVIOUS
<1>1. WrittenFrom(t, op, text, Len(op))
  BY ApplyWrites
<1>2. IsSeq(t) /\ Len(t) = Kept(op, Len(op)) /\ Len(t) \in Nat
  BY <1>1, Seqs DEF WrittenFrom
<1>3. PICK n \in Nat : n = Len(op)
  BY Seqs
<1>4. s \in Nat /\ e \in Nat /\ s <= e /\ e <= Len(text)
  BY Seqs
<1>5. /\ m[1] \in Nat /\ m[2] \in Nat /\ m[1] <= m[2] /\ m[2] <= Len(t)
      /\ s = e => m[1] = m[2]
      /\ s # e => StaysAt(op, s, e, m)
  BY <1>2, RangeMoves
<1> DEFINE x == SubSeq(t, m[1] + 1, m[2])  y == SubSeq(text, s + 1, e)
<1>6. IsSeq(x) /\ Len(x) = m[2] - m[1] /\ \A i \in 1..m[2] - m[1] : x[i] = t[m[1] + i]
  <2>1. Part(x, t, m[1], m[2])
    BY <1>2, <1>5, PartOf
  <2> HIDE DEF x
  <2> QED
    BY <2>1 DEF Part
<1>7. IsSeq(y) /\ Len(y) = e - s /\ \A i \in 1..e - s : y[i] = text[s + i]
  BY <1>4, PartOf DEF Part
<1> HIDE DEF x, y
<1>8. CASE s = e
  <2>1. Len(x) = 0 /\ Len(y) = 0
    BY <1>4, <1>5, <1>6, <1>7, <1>8
  <2>2. x = y
    BY <1>6, <1>7, <2>1 DEF IsSeq
  <2> QED
    BY <2>2 DEF x, y
<1>9. CASE s # e
  <2>1. PICK a \in Nat : /\ a + (e - s) <= n /\ Walked(op, a) = s /\ m[1] = Kept(op, a) /\ m[2] = m[1] + (e - s)
                         /\ KeepsFrom(op, a, e - s)
    BY <1>3, <1>5, <1>9 DEF StaysAt
  <2>2. Len(x) = e - s
    BY <1>4, <1>5, <1>6, <2>1
  <2>3. ASSUME NEW i \in 1..e - s
        PROVE  x[i] = y[i]
    <3>1. PICK j \in 1..n : j = a + i
      BY <1>4, <2>1
    <3>2. ~IsIns(op[j]) /\ ~IsDrop(op[j]) /\ Walked(op, j) = s + i /\ Kept(op, j) = m[1] + i
      BY <2>1, <3>1 DEF KeepsFrom
    <3>3. t[m[1] + i] = Unit(op, text, j)
      BY <1>1, <1>3, <3>2 DEF WrittenFrom
    <3>4. t[m[1] + i] = text[s + i]
      BY <3>2, <3>3 DEF Unit
    <3>5. i \in 1..m[2] - m[1]
      BY <1>4, <1>5, <2>1
    <3> QED
      BY <1>6, <1>7, <3>4, <3>5
  <2>4. x = y
    BY <1>6, <1>7, <2>2, <2>3 DEF IsSeq
  <2> QED
    BY <2>4 DEF x, y
<1> QED
  BY <1>8, <1>9

-----------------------------------------------------------------------------
(* Texts, who wrote them, and what stands on them: the invariant of a      *)
(* document.                                                               *)

CreditedTo(units, author) == \A j \in DOMAIN units : units[j].by = author

Credits(text, attr) ==
  IsSeq(text) /\ IsSeq(attr) /\ Len(attr) = Len(text) /\ \A j \in 1..Len(text) : attr[j] = text[j].by

\* What an operation inserts is its author's.
WrittenBy(op, author) == \A j \in 1..Len(op) : IsIns(op[j]) => op[j].u.by = author

RangeIn(a, b, n) == a \in 0..n /\ b \in a..n

\* The length of the text that operation k + 1 of a history applies to, len being the last.
AfterLen(ops, k, len) == IF k < Len(ops) THEN BaseLen(ops[k + 1]) ELSE len

\* Every operation of a history applies to the text the one before it left.
OpsFit(ops, len) ==
  IsSeq(ops) /\ \A k \in 1..Len(ops) : IsSeq(ops[k]) /\ TargetLen(ops[k]) = AfterLen(ops, k, len)

\* A suggestion, and the text it stands on.
SugText(text, s) ==
  /\ s.status \in {"pending", "stale", "accepted", "rejected", "dismissed"}
  /\ IsSeq(s.text) /\ CreditedTo(s.text, s.agent)
  /\ Open(s) => RangeIn(s.start, s.end, Len(text))
  /\ s.status = "pending" => SubSeq(text, s.start + 1, s.end) = s.original

DocText(d) ==
  /\ Credits(d.text, d.attr) /\ OpsFit(d.ops, Len(d.text))
  /\ \A i \in DOMAIN d.sugs : SugText(d.text, d.sugs[i])

\* A record that may follow a document, as far as texts go.
RecordText(d, r) ==
  /\ r.k = "op" => IsSeq(r.op) /\ BaseLen(r.op) = Len(d.text) /\ WrittenBy(r.op, r.by)
  /\ r.k = "sug" => SugText(d.text, r.s)

\* The credits of a text are written by the same components.
LEMMA CreditsMove ==
  ASSUME NEW op, IsSeq(op), NEW author, WrittenBy(op, author), NEW text, NEW attr, Credits(text, attr),
         BaseLen(op) = Len(text)
  PROVE  Credits(Apply(op, text), Authors(op, attr, author))
<1>1. PICK n \in Nat : n = Len(op) /\ DOMAIN op = 1..n
  BY Seqs
<1> DEFINE named == [j \in DOMAIN op |-> IF IsIns(op[j]) THEN Ins(author) ELSE op[j]]
<1>2. IsSeq(named) /\ Len(named) = n
  <2>1. named \in Seq({IF IsIns(op[j]) THEN Ins(author) ELSE op[j] : j \in 1..n})
    BY <1>1
  <2>2. Len(named) = n
    BY <1>1
  <2> QED
    BY <2>1, <2>2 DEF IsSeq
<1>3. ASSUME NEW j \in 1..n
      PROVE  /\ IsIns(op[j]) => named[j] = Ins(author)
             /\ ~IsIns(op[j]) => named[j] = op[j]
  BY <1>1
<1>4. Authors(op, attr, author) = Apply(named, attr)
  BY DEF Authors
<1> HIDE DEF named
<1>5. ASSUME NEW j \in 1..n
      PROVE  /\ IsIns(named[j]) <=> IsIns(op[j])
             /\ IsDrop(named[j]) <=> IsDrop(op[j])
             /\ IsIns(op[j]) => named[j].u = author
  BY <1>3 DEF Ins, IsIns, IsDrop
<1>6. ASSUME NEW j \in 0..n
      PROVE  Walked(named, j) = Walked(op, j) /\ Kept(named, j) = Kept(op, j)
  <2>1. \A i \in 1..j : (IsIns(named[i]) <=> IsIns(op[i])) /\ (IsDrop(named[i]) <=> IsDrop(op[i]))
    <3>1. ASSUME NEW i \in 1..j
          PROVE  (IsIns(named[i]) <=> IsIns(op[i])) /\ (IsDrop(named[i]) <=> IsDrop(op[i]))
      <4>1. i \in 1..n
        OBVIOUS
      <4> QED
        BY <1>5, <4>1
    <3> QED
      BY <3>1
  <2>2. {i \in 1..j : ~IsIns(named[i])} = {i \in 1..j : ~IsIns(op[i])}
    BY <2>1
  <2>3. {i \in 1..j : ~IsDrop(named[i])} = {i \in 1..j : ~IsDrop(op[i])}
    BY <2>1
  <2> QED
    BY <2>2, <2>3 DEF Walked, Kept
<1> PICK t, a : t = Apply(op, text) /\ a = Apply(named, attr)
  OBVIOUS
<1>7. WrittenFrom(t, op, text, n) /\ WrittenFrom(a, named, attr, n)
  BY <1>1, <1>2, ApplyWrites
<1>8. n \in 0..n
  OBVIOUS
<1>9. IsSeq(t) /\ IsSeq(a) /\ Len(a) = Len(t)
  BY <1>6, <1>7, <1>8 DEF WrittenFrom
<1>10. ASSUME NEW k \in 1..Len(t)
       PROVE  a[k] = t[k].by
  <2>1. PICK j \in 1..n : ~IsDrop(op[j]) /\ Kept(op, j) = k
    BY <1>7 DEF WrittenFrom
  <2>2. t[k] = Unit(op, text, j)
    BY <1>7, <2>1 DEF WrittenFrom
  <2>3. j \in 0..n /\ ~IsDrop(named[j]) /\ Kept(named, j) = k
    BY <1>5, <1>6, <2>1
  <2>4. a[k] = Unit(named, attr, j)
    BY <1>7, <2>3 DEF WrittenFrom
  <2>5. CASE IsIns(op[j])
    <3>1. t[k] = op[j].u /\ a[k] = author
      BY <1>5, <2>2, <2>4, <2>5 DEF Unit
    <3> QED
      BY <1>1, <2>5, <3>1 DEF WrittenBy
  <2>6. CASE ~IsIns(op[j])
    <3>1. t[k] = text[Walked(op, j)] /\ a[k] = attr[Walked(op, j)]
      BY <1>5, <1>6, <2>2, <2>3, <2>4, <2>6 DEF Unit
    <3>2. Walked(op, j) \in 1..Len(text)
      <4>1. PICK h \in Nat : j = h + 1
        BY <2>1
      <4>2. Walked(op, h) \in Nat /\ Walked(op, j) = Walked(op, h) + 1
        BY <2>6, <4>1, CountsOn
      <4>3. Walked(op, j) <= Walked(op, n)
        BY <1>1, CountsGrow
      <4>4. Walked(op, n) = Len(text) /\ Walked(op, n) \in Nat
        BY <1>1, CountsOn DEF BaseLen
      <4> QED
        BY <4>2, <4>3, <4>4
    <3> QED
      BY <3>1, <3>2 DEF Credits
  <2> QED
    BY <2>5, <2>6
<1> QED
  BY <1>4, <1>9, <1>10 DEF Credits

LEMMA TextSeqs ==
  ASSUME NEW d, DocText(d)
  PROVE  IsSeq(d.text) /\ Len(d.text) \in Nat
BY Seqs DEF DocText, Credits

\* The text that results is as long as the operation says.
LEMMA ApplyLen ==
  ASSUME NEW op, IsSeq(op), NEW text
  PROVE  IsSeq(Apply(op, text)) /\ Len(Apply(op, text)) = TargetLen(op) /\ TargetLen(op) \in Nat
BY ApplyWrites, TargetIs DEF WrittenFrom

\* A range m that an operation made of <<s, e>> lies in the text t that results, and stands
\* on the same text when it is not touched.
Stays(m, s, e, text, t) ==
  /\ RangeIn(m[1], m[2], Len(t)) /\ m[3] \in BOOLEAN
  /\ ~m[3] => SubSeq(t, m[1] + 1, m[2]) = SubSeq(text, s + 1, e)

LEMMA RangesStay ==
  ASSUME NEW op, IsSeq(op), NEW text, IsSeq(text), BaseLen(op) = Len(text),
         NEW s, NEW e, RangeIn(s, e, Len(text))
  PROVE  Stays(MapRange(op, s, e), s, e, text, Apply(op, text))
<1> PICK m : m = MapRange(op, s, e)
  OBVIOUS
<1>1. s \in 0..BaseLen(op) /\ e \in s..BaseLen(op) /\ Len(text) \in Nat
  BY Seqs DEF RangeIn
<1>2. /\ m[1] \in Nat /\ m[2] \in Nat /\ m[1] <= m[2] /\ m[2] <= TargetLen(op) /\ m[3] \in BOOLEAN
      /\ TargetLen(op) \in Nat
  BY <1>1, RangeMoves, TargetIs
<1>3. RangeIn(m[1], m[2], TargetLen(op))
  BY <1>2 DEF RangeIn
<1>4. ASSUME ~m[3]
      PROVE  SubSeq(Apply(op, text), m[1] + 1, m[2]) = SubSeq(text, s + 1, e)
  <2>1. s \in 0..Len(text) /\ e \in s..Len(text)
    BY <1>1
  <2>2. KeepsItsText(op, text, s, e)
    BY <2>1, UntouchedKeepsText
  <2> QED
    BY <1>4, <2>2 DEF KeepsItsText
<1>5. Len(Apply(op, text)) = TargetLen(op)
  BY ApplyLen
<1> QED
  BY <1>2, <1>3, <1>4, <1>5 DEF Stays

LEMMA SugMoves ==
  ASSUME NEW op, IsSeq(op), NEW text, IsSeq(text), BaseLen(op) = Len(text), NEW s, Fields(s), SugText(text, s)
  PROVE  SugText(Apply(op, text), Moved(s, op))
<1>1. CASE ~Open(s)
  <2>1. Moved(s, op) = s
    BY <1>1 DEF Moved
  <2> QED
    BY <1>1, <2>1 DEF SugText, Open
<1>2. CASE Open(s)
  <2> PICK m : m = MapRange(op, s.start, s.end)
    OBVIOUS
  <2>0. PICK x : x = Moved(s, op)
    OBVIOUS
  <2> PICK status : status = IF m[3] THEN "stale" ELSE s.status
    OBVIOUS
  <2>1. x = MovedTo(s, op, status)
    BY <1>2, <2>0, MovedIs
  <2>2. /\ x.start = m[1] /\ x.end = m[2] /\ x.status = status /\ x.text = s.text /\ x.agent = s.agent
        /\ x.original = s.original
    BY <2>1 DEF MovedTo
  <2>3. RangeIn(s.start, s.end, Len(text))
    BY <1>2 DEF SugText
  <2>4. Stays(m, s.start, s.end, text, Apply(op, text))
    BY <2>3, RangesStay
  <2>6. x.status \in {"pending", "stale"}
    BY <1>2, <2>2 DEF Open
  <2>7. ASSUME x.status = "pending"
        PROVE  SubSeq(Apply(op, text), x.start + 1, x.end) = x.original
    <3>1. ~m[3] /\ s.status = "pending"
      BY <2>2, <2>4, <2>7 DEF Stays
    <3> QED
      BY <2>2, <2>4, <3>1 DEF SugText, Stays
  <2>8. IsSeq(x.text) /\ CreditedTo(x.text, x.agent)
    BY <2>2 DEF SugText
  <2>9. RangeIn(x.start, x.end, Len(Apply(op, text)))
    BY <2>2, <2>4 DEF Stays
  <2>10. SugText(Apply(op, text), x)
    BY <2>6, <2>7, <2>8, <2>9 DEF SugText
  <2> QED
    BY <2>0, <2>10
<1> QED
  BY <1>1, <1>2

\* A suggestion that is settled stands on nothing.
LEMMA SugSettles ==
  ASSUME NEW text, NEW s, Fields(s), SugText(text, s), NEW status \in {"accepted", "rejected", "dismissed"}, NEW other
  PROVE  SugText(other, [s EXCEPT !.status = status])
<1> PICK x : x = [s EXCEPT !.status = status]
  OBVIOUS
<1>1. x.status = status /\ x.text = s.text /\ x.agent = s.agent
  BY DEF Fields
<1>2. ~Open(x)
  BY <1>1 DEF Open
<1> QED
  BY <1>1, <1>2 DEF SugText, Open

LEMMA FitsOn ==
  ASSUME NEW ops, NEW len, OpsFit(ops, len), NEW op, IsSeq(op), BaseLen(op) = len
  PROVE  OpsFit(Append(ops, op), TargetLen(op))
<1>1. IsSeq(ops)
  BY DEF OpsFit
<1> PICK more : more = Append(ops, op)
  OBVIOUS
<1>2. Longer(more, ops, op)
  BY <1>1, AppendIs
<1> PICK n \in Nat : n = Len(ops)
  BY <1>1, Seqs
<1>3. IsSeq(more) /\ Len(more) = n + 1 /\ more[n + 1] = op /\ \A k \in 1..n : more[k] = ops[k]
  BY <1>2 DEF Longer
<1>4. ASSUME NEW k \in 1..n + 1
      PROVE  IsSeq(more[k]) /\ TargetLen(more[k]) = AfterLen(more, k, TargetLen(op))
  <2>1. CASE k = n + 1
    BY <1>3, <2>1 DEF AfterLen
  <2>2. CASE k = n /\ k \in 1..n
    <3>1. more[k] = ops[k] /\ IsSeq(ops[k]) /\ TargetLen(ops[k]) = len
      BY <1>3, <2>2 DEF OpsFit, AfterLen
    <3> QED
      BY <1>3, <2>2, <3>1 DEF AfterLen
  <2>3. CASE k \in 1..n /\ k < n
    <3>1. k + 1 \in 1..n
      BY <2>3
    <3>2. more[k] = ops[k] /\ IsSeq(ops[k]) /\ TargetLen(ops[k]) = BaseLen(ops[k + 1]) /\ more[k + 1] = ops[k + 1]
      BY <1>3, <2>3, <3>1 DEF OpsFit, AfterLen
    <3> QED
      BY <1>3, <2>3, <3>2 DEF AfterLen
  <2> QED
    BY <2>1, <2>2, <2>3
<1> QED
  BY <1>3, <1>4 DEF OpsFit

LEMMA TextGoesOn ==
  ASSUME NEW d, NEW r, DocOK(d), RecordOK(d, r), DocText(d), RecordText(d, r)
  PROVE  DocText(ApplyRecord(d, r))
<1>0. PICK e : e = ApplyRecord(d, r)
  OBVIOUS
<1>1. PICK n \in Nat : n = Len(d.sugs) /\ DOMAIN d.sugs = 1..n /\ IsSeq(d.sugs)
  BY Seqs DEF DocOK
<1>2. CASE r.k = "op"
  <2> DEFINE New(i) == IF i = r.accepts THEN [d.sugs[i] EXCEPT !.status = "accepted"] ELSE Moved(d.sugs[i], r.op)
  <2>1. e = [text |-> Apply(r.op, d.text), attr |-> Authors(r.op, d.attr, r.by), ops |-> Append(d.ops, r.op),
             sugs |-> [i \in DOMAIN d.sugs |-> New(i)]]
    BY <1>0, <1>2 DEF ApplyRecord
  <2>2. IsSeq(r.op) /\ BaseLen(r.op) = Len(d.text) /\ WrittenBy(r.op, r.by) /\ IsSeq(d.text)
    BY <1>2, TextSeqs DEF RecordText
  <2>3. ASSUME NEW i \in DOMAIN d.sugs
        PROVE  SugText(Apply(r.op, d.text), New(i))
    <3>1. Fields(d.sugs[i]) /\ SugText(d.text, d.sugs[i])
      BY DEF DocOK, DocText
    <3>2. CASE i = r.accepts
      BY <3>1, <3>2, SugSettles
    <3>3. CASE i # r.accepts
      BY <2>2, <3>1, <3>3, SugMoves
    <3> QED
      BY <3>2, <3>3
  <2> HIDE DEF New
  <2>4. /\ e.text = Apply(r.op, d.text) /\ e.attr = Authors(r.op, d.attr, r.by) /\ e.ops = Append(d.ops, r.op)
        /\ e.sugs = [i \in DOMAIN d.sugs |-> New(i)]
    BY <2>1
  <2>5. Credits(e.text, e.attr)
    BY <2>2, <2>4, CreditsMove DEF DocText
  <2>6. OpsFit(e.ops, Len(e.text))
    <3>1. Len(e.text) = TargetLen(r.op)
      BY <2>2, <2>4, ApplyLen
    <3>2. OpsFit(Append(d.ops, r.op), TargetLen(r.op))
      BY <2>2, FitsOn DEF DocText
    <3> QED
      BY <2>4, <3>1, <3>2
  <2>7. \A i \in DOMAIN e.sugs : SugText(e.text, e.sugs[i])
    BY <2>3, <2>4
  <2>8. DocText(e)
    BY <2>5, <2>6, <2>7 DEF DocText
  <2> QED
    BY <1>0, <2>8
<1>3. CASE r.k = "sug"
  <2>1. e = [text |-> d.text, attr |-> d.attr, ops |-> d.ops, sugs |-> Append(d.sugs, r.s)]
    BY <1>0, <1>3 DEF ApplyRecord, DocOK
  <2>2. e.text = d.text /\ e.attr = d.attr /\ e.ops = d.ops /\ e.sugs = Append(d.sugs, r.s)
    BY <2>1
  <2>3. Longer(e.sugs, d.sugs, r.s)
    BY <1>1, <2>2, AppendIs
  <2>4. ASSUME NEW i \in DOMAIN e.sugs
        PROVE  SugText(e.text, e.sugs[i])
    <3>1. DOMAIN e.sugs = 1..n + 1
      BY <1>1, <2>3, Seqs DEF Longer
    <3>2. CASE i = n + 1
      BY <1>1, <1>3, <2>2, <2>3, <3>2 DEF Longer, RecordText
    <3>3. CASE i \in 1..n
      BY <1>1, <2>2, <2>3, <3>3 DEF Longer, DocText
    <3> QED
      BY <3>1, <3>2, <3>3
  <2>5. DocText(e)
    BY <2>2, <2>4 DEF DocText
  <2> QED
    BY <1>0, <2>5
<1>4. CASE r.k = "res"
  <2>1. PICK sid : sid = r.sid /\ sid \in DOMAIN d.sugs /\ r.action \in {"dismissed", "rejected"}
    BY <1>4 DEF RecordOK
  <2>2. e = [d EXCEPT !.sugs[sid].status = r.action]
    BY <1>0, <1>4, <2>1 DEF ApplyRecord
  <2>3. PICK new : new = [d.sugs[sid] EXCEPT !.status = r.action]
    OBVIOUS
  <2>4. e = [text |-> d.text, attr |-> d.attr, ops |-> d.ops, sugs |-> [d.sugs EXCEPT ![sid] = new]]
    BY <2>2, <2>3 DEF DocOK
  <2>5. e.text = d.text /\ e.attr = d.attr /\ e.ops = d.ops /\ e.sugs = [d.sugs EXCEPT ![sid] = new]
    BY <2>4
  <2>6. SugText(d.text, new)
    <3>1. Fields(d.sugs[sid]) /\ SugText(d.text, d.sugs[sid])
      BY <2>1 DEF DocOK, DocText
    <3> QED
      BY <2>1, <2>3, <3>1, SugSettles
  <2>7. \A i \in DOMAIN e.sugs : SugText(e.text, e.sugs[i])
    BY <2>1, <2>5, <2>6 DEF DocText
  <2>8. DocText(e)
    BY <2>5, <2>7 DEF DocText
  <2> QED
    BY <1>0, <2>8
<1> QED
  BY <1>2, <1>3, <1>4 DEF RecordOK

-----------------------------------------------------------------------------
(* The operations the actor makes: ReplaceOp, and Insert of a new text.    *)

Joined(x, s, t) ==
  /\ IsSeq(x) /\ Len(x) = Len(s) + Len(t)
  /\ \A j \in 1..Len(s) : x[j] = s[j]
  /\ \A j \in 1..Len(t) : x[Len(s) + j] = t[j]

LEMMA JoinedIs ==
  ASSUME NEW s, IsSeq(s), NEW t, IsSeq(t)
  PROVE  Joined(s \o t, s, t)
<1>1. PICK S, T : s \in Seq(S) /\ t \in Seq(T)
  BY DEF IsSeq
<1>2. s \in Seq(S \cup T) /\ t \in Seq(S \cup T)
  BY <1>1
<1>3. s \o t \in Seq(S \cup T) /\ Len(s \o t) = Len(s) + Len(t)
  BY <1>2
<1>4. \A j \in 1..Len(s) : (s \o t)[j] = s[j]
  BY <1>2
<1>5. \A j \in 1..Len(t) : (s \o t)[Len(s) + j] = t[j]
  BY <1>2
<1> QED
  BY <1>3, <1>4, <1>5 DEF Joined, IsSeq

\* n times one component.
AllOf(x, n, c) == IsSeq(x) /\ Len(x) = n /\ \A j \in 1..n : x[j] = c

LEMMA AllOfIs ==
  ASSUME NEW n \in Nat, NEW c
  PROVE  AllOf([j \in 1..n |-> c], n, c)
<1>1. [j \in 1..n |-> c] \in Seq({c}) /\ Len([j \in 1..n |-> c]) = n
  OBVIOUS
<1> QED
  BY <1>1 DEF AllOf, IsSeq

\* An insert behind a component that is not a deletion is where it is put.
InsertedAtEnd(x, op, text) ==
  /\ IsSeq(x) /\ Len(x) = Len(op) + Len(text)
  /\ \A j \in 1..Len(op) : x[j] = op[j]
  /\ \A j \in 1..Len(text) : x[Len(op) + j] = Ins(text[j])

LEMMA InsertAtEnd ==
  ASSUME NEW op, IsSeq(op), NEW text, IsSeq(text), Len(op) = 0 \/ ~IsDrop(op[Len(op)])
  PROVE  InsertedAtEnd(Insert(op, text), op, text)
<1>1. PICK n \in Nat : n = Len(op) /\ DOMAIN op = 1..n
  BY Seqs
<1>2. PICK k \in Nat : k = Len(text) /\ DOMAIN text = 1..k
  BY Seqs
<1>3. InsertAt(op) = n
  <2> DEFINE others == {j \in DOMAIN op : ~IsDrop(op[j])}
  <2>0. InsertAt(op) = IF others = {} THEN 0 ELSE CHOOSE j \in others : \A h \in others : h <= j
    BY DEF InsertAt
  <2>1. CASE n = 0
    <3>1. others = {}
      BY <1>1, <2>1
    <3> HIDE DEF others
    <3> QED
      BY <2>0, <2>1, <3>1
  <2>2. CASE n # 0
    <3>1. n \in others /\ \A h \in others : h \in 1..n
      BY <1>1, <2>2
    <3> HIDE DEF others
    <3>2. n \in others /\ \A h \in others : h <= n
      BY <3>1
    <3>3. \E j \in others : \A h \in others : h <= j
      BY <3>2
    <3> PICK at : at = CHOOSE j \in others : \A h \in others : h <= j
      OBVIOUS
    <3>4. at \in others /\ \A h \in others : h <= at
      BY <3>3
    <3>5. at \in 1..n /\ n <= at
      BY <3>1, <3>4
    <3>6. at = n /\ others # {}
      BY <3>2, <3>5
    <3> QED
      BY <2>0, <3>6
  <2> QED
    BY <2>1, <2>2
<1> DEFINE typed == [j \in DOMAIN text |-> Ins(text[j])]
<1>4. IsSeq(typed) /\ Len(typed) = k /\ \A j \in 1..k : typed[j] = Ins(text[j])
  <2>1. typed \in Seq({Ins(text[j]) : j \in 1..k}) /\ Len(typed) = k
    BY <1>2
  <2> QED
    BY <1>2, <2>1 DEF IsSeq
<1> HIDE DEF typed
<1> PICK a, b : a = SubSeq(op, 1, n) /\ b = SubSeq(op, n + 1, n)
  OBVIOUS
<1>5. Insert(op, text) = (a \o typed) \o b
  BY <1>1, <1>3 DEF Insert, typed
<1>6. IsSeq(a) /\ Len(a) = n /\ \A j \in 1..n : a[j] = op[j]
  <2>1. Part(SubSeq(op, 0 + 1, n), op, 0, n)
    BY <1>1, PartOf
  <2>2. 0 + 1 = 1 /\ n - 0 = n /\ \A j \in 1..n : 0 + j = j
    OBVIOUS
  <2>3. Part(a, op, 0, n)
    BY <2>1, <2>2
  <2> QED
    BY <2>2, <2>3 DEF Part
<1>7. IsSeq(b) /\ Len(b) = 0
  <2>1. Part(b, op, n, n)
    BY <1>1, PartOf
  <2> QED
    BY <2>1 DEF Part
<1> PICK x : x = a \o typed
  OBVIOUS
<1>8. IsSeq(x) /\ Len(x) = n + k /\ (\A j \in 1..n : x[j] = a[j]) /\ \A j \in 1..k : x[n + j] = typed[j]
  <2>1. Joined(x, a, typed)
    BY <1>4, <1>6, JoinedIs
  <2> QED
    BY <1>4, <1>6, <2>1 DEF Joined
<1> PICK y : y = x \o b
  OBVIOUS
<1>9. IsSeq(y) /\ Len(y) = n + k /\ \A j \in 1..n + k : y[j] = x[j]
  <2>1. Joined(y, x, b)
    BY <1>7, <1>8, JoinedIs
  <2> QED
    BY <1>7, <1>8, <2>1 DEF Joined
<1>10. \A j \in 1..n : y[j] = op[j]
  BY <1>6, <1>8, <1>9
<1>11. ASSUME NEW j \in 1..k
       PROVE  y[n + j] = Ins(text[j])
  <2>1. n + j \in 1..n + k
    OBVIOUS
  <2> QED
    BY <1>4, <1>8, <1>9, <2>1
<1> QED
  BY <1>1, <1>2, <1>5, <1>9, <1>10, <1>11 DEF InsertedAtEnd

LEMMA WalksAll ==
  ASSUME NEW op, NEW a \in Nat, NEW n \in Nat, \A j \in a + 1..a + n : ~IsIns(op[j])
  PROVE  Walked(op, a + n) = Walked(op, a) + n
<1> DEFINE T == {k \in Nat : Walked(op, a + k) = Walked(op, a) + k}
<1>1. 0 \in T
  <2>1. Walked(op, a) \in Nat /\ a + 0 = a
    BY CountsOn
  <2> QED
    BY <2>1
<1>2. ASSUME NEW k \in 0..n - 1, k \in T
      PROVE  k + 1 \in T
  <2>1. PICK i \in Nat : i = a + k /\ i + 1 = a + (k + 1) /\ i + 1 \in a + 1..a + n
    OBVIOUS
  <2>2. ~IsIns(op[i + 1]) /\ Walked(op, a) \in Nat
    BY <2>1, CountsOn
  <2>3. Walked(op, i + 1) = Walked(op, i) + 1
    BY <2>2, CountsOn
  <2>4. Walked(op, i) = Walked(op, a) + k
    BY <1>2, <2>1
  <2>5. Walked(op, i + 1) = Walked(op, a) + (k + 1)
    BY <2>2, <2>3, <2>4
  <2> QED
    BY <2>1, <2>5
<1> HIDE DEF T
<1>3. \A k \in 0..n : k \in T
  BY <1>1, <1>2, Induction
<1>4. n \in T
  BY <1>3
<1> QED
  BY <1>4 DEF T

LEMMA WalksNone ==
  ASSUME NEW op, NEW a \in Nat, NEW n \in Nat, \A j \in a + 1..a + n : IsIns(op[j])
  PROVE  Walked(op, a + n) = Walked(op, a)
<1> DEFINE T == {k \in Nat : Walked(op, a + k) = Walked(op, a)}
<1>1. 0 \in T
  <2>1. a + 0 = a
    OBVIOUS
  <2> QED
    BY <2>1
<1>2. ASSUME NEW k \in 0..n - 1, k \in T
      PROVE  k + 1 \in T
  <2>1. PICK i \in Nat : i = a + k /\ i + 1 = a + (k + 1) /\ i + 1 \in a + 1..a + n
    OBVIOUS
  <2>2. IsIns(op[i + 1]) /\ Walked(op, i) \in Nat
    BY <2>1, CountsOn
  <2>3. Walked(op, i + 1) = Walked(op, i)
    BY <2>2, CountsOn
  <2>4. Walked(op, i) = Walked(op, a)
    BY <1>2, <2>1
  <2> QED
    BY <2>1, <2>3, <2>4
<1> HIDE DEF T
<1>3. \A k \in 0..n : k \in T
  BY <1>1, <1>2, Induction
<1>4. n \in T
  BY <1>3
<1> QED
  BY <1>4 DEF T

\* Components after the first a, up to b, that walk over the text, or that insert.
Walking(op, a, b) == \A j \in a + 1..b : ~IsIns(op[j])
Inserting(op, a, b) == \A j \in a + 1..b : IsIns(op[j])

LEMMA WalksOver ==
  ASSUME NEW op, NEW a \in Nat, NEW b \in Nat, a <= b, Walking(op, a, b)
  PROVE  Walked(op, b) = Walked(op, a) + (b - a)
<1>1. PICK n \in Nat : n = b - a /\ b = a + n
  OBVIOUS
<1>2. \A j \in a + 1..a + n : ~IsIns(op[j])
  BY <1>1 DEF Walking
<1>3. Walked(op, a + n) = Walked(op, a) + n
  BY <1>2, WalksAll
<1> QED
  BY <1>1, <1>3

LEMMA WalksNowhere ==
  ASSUME NEW op, NEW a \in Nat, NEW b \in Nat, a <= b, Inserting(op, a, b)
  PROVE  Walked(op, b) = Walked(op, a)
<1>1. PICK n \in Nat : n = b - a /\ b = a + n
  OBVIOUS
<1>2. \A j \in a + 1..a + n : IsIns(op[j])
  BY <1>1 DEF Inserting
<1>3. Walked(op, a + n) = Walked(op, a)
  BY <1>2, WalksNone
<1> QED
  BY <1>1, <1>3

LEMMA Kinds ==
  ~IsIns(Keep) /\ ~IsIns(Drop) /\ ~IsDrop(Keep) /\ \A u : IsIns(Ins(u)) /\ Ins(u).u = u
BY DEF IsIns, IsDrop, Keep, Drop, Ins

\* An operation on a text of some length, of one author.
OpOn(op, length, author) == IsSeq(op) /\ BaseLen(op) = length /\ WrittenBy(op, author)

\* Keeps up to a, a text typed up to b, deletions up to c and keeps up to n.
Replaces(op, a, b, c, n, text) ==
  /\ IsSeq(op) /\ Len(op) = n
  /\ \A j \in 1..a : op[j] = Keep
  /\ \A j \in a + 1..b : op[j] = Ins(text[j - a])
  /\ \A j \in b + 1..c : op[j] = Drop
  /\ \A j \in c + 1..n : op[j] = Keep

\* Behind x, up to n, one component.
Ends(op, x, a, n, c) ==
  IsSeq(op) /\ Len(op) = n /\ (\A j \in 1..a : op[j] = x[j]) /\ \A j \in a + 1..n : op[j] = c

LEMMA EndsIs ==
  ASSUME NEW x, IsSeq(x), NEW a \in Nat, a = Len(x), NEW n \in Nat, a <= n, NEW c, NEW d, d = n - a
  PROVE  Ends(x \o [j \in 1..d |-> c], x, a, n, c)
<1>1. PICK k \in Nat : k = d /\ a + k = n
  OBVIOUS
<1> PICK t, y : t = [j \in 1..k |-> c] /\ y = x \o t
  OBVIOUS
<1>2. IsSeq(t) /\ Len(t) = k /\ \A j \in 1..k : t[j] = c
  BY AllOfIs DEF AllOf
<1>3. IsSeq(y) /\ Len(y) = a + k /\ (\A j \in 1..a : y[j] = x[j]) /\ \A j \in 1..k : y[a + j] = t[j]
  <2>1. Joined(y, x, t)
    BY <1>2, JoinedIs
  <2> QED
    BY <1>2, <2>1 DEF Joined
<1>4. ASSUME NEW j \in a + 1..n
      PROVE  y[j] = c
  <2>1. PICK h \in 1..k : j = a + h
    <3>1. j - a \in 1..k /\ j = a + (j - a)
      BY <1>1
    <3> QED
      BY <3>1
  <2> QED
    BY <1>2, <1>3, <2>1
<1> QED
  BY <1>1, <1>3, <1>4 DEF Ends

LEMMA ReplaceOpIs ==
  ASSUME NEW length \in Nat, NEW start \in Nat, NEW end \in Nat, start <= end, end <= length,
         NEW text, IsSeq(text), NEW k \in Nat, k = Len(text)
  PROVE  Replaces(ReplaceOp(length, start, end, text), start, start + k, end + k, length + k, text)
<1> PICK b \in Nat, c \in Nat, n \in Nat : b = start + k /\ c = end + k /\ n = length + k /\ start <= b /\ b <= c /\ c <= n
  OBVIOUS
<1> PICK op1 : op1 = Retain(<<>>, start)
  OBVIOUS
<1>1. IsSeq(op1) /\ Len(op1) = start /\ \A j \in 1..start : op1[j] = Keep
  <2> PICK none : none = <<>>
    OBVIOUS
  <2> PICK z \in Nat : z = 0
    OBVIOUS
  <2> PICK d : d = start - z
    OBVIOUS
  <2>1. IsSeq(none) /\ z = Len(none) /\ z <= start /\ d = start
    BY DEF IsSeq
  <2>2. Ends(none \o [j \in 1..d |-> Keep], none, z, start, Keep)
    BY <2>1, EndsIs
  <2>3. op1 = none \o [j \in 1..d |-> Keep]
    BY <2>1 DEF Retain
  <2>4. Ends(op1, none, z, start, Keep)
    BY <2>2, <2>3
  <2>5. \A j \in 1..start : j \in z + 1..start
    OBVIOUS
  <2> QED
    BY <2>4, <2>5 DEF Ends
<1> PICK op2 : op2 = Insert(op1, text)
  OBVIOUS
<1>2. IsSeq(op2) /\ Len(op2) = b /\ (\A j \in 1..start : op2[j] = Keep)
  <2>1. Len(op1) = 0 \/ ~IsDrop(op1[Len(op1)])
    BY <1>1, Kinds
  <2>2. InsertedAtEnd(op2, op1, text)
    BY <1>1, <2>1, InsertAtEnd
  <2> QED
    BY <1>1, <2>2 DEF InsertedAtEnd
<1>3. ASSUME NEW j \in start + 1..b
      PROVE  op2[j] = Ins(text[j - start])
  <2>1. Len(op1) = 0 \/ ~IsDrop(op1[Len(op1)])
    BY <1>1, Kinds
  <2>2. InsertedAtEnd(op2, op1, text)
    BY <1>1, <2>1, InsertAtEnd
  <2>3. PICK h \in 1..k : j = start + h /\ h = j - start
    <3>1. j - start \in 1..k /\ j = start + (j - start)
      OBVIOUS
    <3> QED
      BY <3>1
  <2>4. op2[start + h] = Ins(text[h])
    BY <1>1, <2>2 DEF InsertedAtEnd
  <2> QED
    BY <2>3, <2>4
<1> PICK op3 : op3 = Delete(op2, end - start)
  OBVIOUS
<1>4. IsSeq(op3) /\ Len(op3) = c /\ (\A j \in 1..b : op3[j] = op2[j]) /\ \A j \in b + 1..c : op3[j] = Drop
  <2>1. end - start = c - b
    OBVIOUS
  <2>2. Ends(op3, op2, b, c, Drop)
    BY <1>2, <2>1, EndsIs DEF Delete
  <2> QED
    BY <2>2 DEF Ends
<1> PICK op : op = Retain(op3, length - end)
  OBVIOUS
<1>5. IsSeq(op) /\ Len(op) = n /\ (\A j \in 1..c : op[j] = op3[j]) /\ \A j \in c + 1..n : op[j] = Keep
  <2>1. length - end = n - c
    OBVIOUS
  <2>2. Ends(op, op3, c, n, Keep)
    BY <1>4, <2>1, EndsIs DEF Retain
  <2> QED
    BY <2>2 DEF Ends
<1>6. op = ReplaceOp(length, start, end, text)
  BY DEF ReplaceOp
<1>7. \A j \in 1..start : op[j] = Keep
  BY <1>2, <1>4, <1>5
<1>8. \A j \in start + 1..b : op[j] = Ins(text[j - start])
  BY <1>3, <1>4, <1>5
<1>9. \A j \in b + 1..c : op[j] = Drop
  BY <1>4, <1>5
<1> QED
  BY <1>5, <1>6, <1>7, <1>8, <1>9 DEF Replaces

LEMMA ReplaceIs ==
  ASSUME NEW length \in Nat, NEW start, NEW end, RangeIn(start, end, length),
         NEW text, IsSeq(text), NEW author, CreditedTo(text, author)
  PROVE  OpOn(ReplaceOp(length, start, end, text), length, author)
<1>1. start \in Nat /\ end \in Nat /\ start <= end /\ end <= length
  BY DEF RangeIn
<1>2. PICK k \in Nat : k = Len(text) /\ DOMAIN text = 1..k
  BY Seqs
<1> PICK op : op = ReplaceOp(length, start, end, text)
  OBVIOUS
<1> PICK a \in Nat, b \in Nat, c \in Nat, n \in Nat :
      a = start /\ b = start + k /\ c = end + k /\ n = length + k /\ a <= b /\ b <= c /\ c <= n
  BY <1>1
<1>3. Replaces(op, a, b, c, n, text)
  BY <1>1, <1>2, ReplaceOpIs
<1>4. Walking(op, 0, a) /\ Walking(op, b, n)
  <2>1. \A j \in 0 + 1..a : op[j] = Keep
    BY <1>3 DEF Replaces
  <2>2. \A j \in b + 1..n : op[j] = Drop \/ op[j] = Keep
    <3>1. \A j \in b + 1..n : j \in b + 1..c \/ j \in c + 1..n
      OBVIOUS
    <3> QED
      BY <1>3, <3>1 DEF Replaces
  <2> QED
    BY <2>1, <2>2, Kinds DEF Walking
<1>5. Inserting(op, a, b)
  BY <1>3, Kinds DEF Inserting, Replaces
<1>6. BaseLen(op) = length
  <2>1. Walked(op, a) = 0 + (a - 0)
    BY <1>4, WalksOver, CountsStart
  <2>2. Walked(op, b) = Walked(op, a)
    BY <1>5, WalksNowhere
  <2>3. Walked(op, n) = Walked(op, b) + (n - b)
    BY <1>4, WalksOver
  <2>4. Walked(op, n) = length
    BY <1>1, <2>1, <2>2, <2>3
  <2> QED
    BY <1>3, <2>4 DEF BaseLen, Replaces
<1>7. WrittenBy(op, author)
  <2>1. ASSUME NEW j \in 1..n, IsIns(op[j])
        PROVE  op[j].u.by = author
    <3>1. j \notin 0 + 1..a /\ j \notin b + 1..n
      BY <1>4, <2>1 DEF Walking
    <3>2. j \in a + 1..b
      BY <3>1
    <3>3. op[j] = Ins(text[j - a])
      BY <1>3, <3>2 DEF Replaces
    <3>4. j - a \in 1..k
      BY <3>2
    <3>5. text[j - a].by = author
      BY <1>2, <3>4 DEF CreditedTo
    <3> QED
      BY <3>3, <3>5, Kinds
  <2> QED
    BY <1>3, <2>1 DEF WrittenBy, Replaces
<1>8. IsSeq(op)
  BY <1>3 DEF Replaces
<1> QED
  BY <1>6, <1>7, <1>8 DEF OpOn

\* The first operation of a document.
LEMMA SeedIs ==
  OpOn(Insert(<<>>, Seed), 0, Person)
<1>0. PICK S : Seed \in Seq(S) /\ \A u \in S : u.by = Person
  <2> DEFINE units == [by : {Person}, nr : Nat]
  <2>1. Seed \in Seq(units) /\ \A u \in units : u.by = Person
    BY SuggestionsAssumption
  <2> HIDE DEF units
  <2> QED
    BY <2>1
<1>1. IsSeq(Seed) /\ CreditedTo(Seed, Person)
  <2>1. IsSeq(Seed)
    BY <1>0 DEF IsSeq
  <2>2. ASSUME NEW j \in DOMAIN Seed
        PROVE  Seed[j].by = Person
    <3>1. DOMAIN Seed = 1..Len(Seed)
      BY <2>1, Seqs
    <3>2. Seed[j] \in S
      BY <1>0, <3>1
    <3> QED
      BY <1>0, <3>2
  <2> QED
    BY <2>1, <2>2 DEF CreditedTo
<1>2. PICK k \in Nat : k = Len(Seed) /\ DOMAIN Seed = 1..k
  BY <1>1, Seqs
<1>3. IsSeq(<<>>) /\ Len(<<>>) = 0
  BY DEF IsSeq
<1> PICK op : op = Insert(<<>>, Seed)
  OBVIOUS
<1>4. InsertedAtEnd(op, <<>>, Seed)
  BY <1>1, <1>3, InsertAtEnd
<1>5. IsSeq(op) /\ Len(op) = k /\ \A j \in 1..k : op[j] = Ins(Seed[j])
  <2>1. \A j \in 1..k : 0 + j = j
    OBVIOUS
  <2>2. Len(op) = 0 + k /\ \A j \in 1..k : op[0 + j] = Ins(Seed[j])
    BY <1>2, <1>3, <1>4 DEF InsertedAtEnd
  <2> QED
    BY <1>4, <2>1, <2>2 DEF InsertedAtEnd
<1>6. Inserting(op, 0, k)
  BY <1>5, Kinds DEF Inserting
<1>7. BaseLen(op) = 0
  <2>1. Walked(op, k) = Walked(op, 0) /\ Walked(op, 0) = 0
    BY <1>6, WalksNowhere, CountsStart
  <2> QED
    BY <1>5, <2>1 DEF BaseLen
<1>8. WrittenBy(op, Person)
  <2>1. \A j \in 1..k : op[j].u = Seed[j] /\ Seed[j].by = Person
    BY <1>1, <1>2, <1>5, Kinds DEF CreditedTo
  <2> QED
    BY <1>5, <2>1 DEF WrittenBy
<1> QED
  BY <1>5, <1>7, <1>8 DEF OpOn

-----------------------------------------------------------------------------
(* Where a range is by now lies in the text, and what it stands on.        *)

InText(m, n) == RangeIn(m[1], m[2], n) /\ m[3] \in BOOLEAN

LEMMA AlongIn ==
  ASSUME NEW op, IsSeq(op), NEW m, InText(m, BaseLen(op))
  PROVE  InText(Along(m, op), TargetLen(op))
<1> PICK s, e : s = m[1] /\ e = m[2]
  OBVIOUS
<1>1. PICK length \in Nat : length = BaseLen(op)
  <2>1. Len(op) \in Nat
    BY Seqs
  <2> QED
    BY <2>1, CountsOn DEF BaseLen
<1>2. s \in 0..BaseLen(op) /\ e \in s..BaseLen(op)
  BY <1>1 DEF InText, RangeIn
<1> PICK r : r = MapRange(op, s, e)
  OBVIOUS
<1>3. /\ r[1] \in Nat /\ r[2] \in Nat /\ r[1] <= r[2] /\ r[2] <= TargetLen(op) /\ r[3] \in BOOLEAN
      /\ TargetLen(op) \in Nat
  BY <1>2, RangeMoves, TargetIs
<1> PICK x : x = Along(m, op)
  OBVIOUS
<1>4. x[1] = r[1] /\ x[2] = r[2] /\ x[3] = (m[3] \/ r[3])
  BY DEF Along
<1>5. RangeIn(x[1], x[2], TargetLen(op))
  BY <1>3, <1>4 DEF RangeIn
<1>6. x[3] \in BOOLEAN
  BY <1>3, <1>4 DEF InText
<1> QED
  BY <1>5, <1>6 DEF InText

LEMMA MappedIn ==
  ASSUME NEW ops, NEW len, OpsFit(ops, len), NEW rev \in 0..Len(ops), NEW start, NEW end,
         RangeIn(start, end, AfterLen(ops, rev, len))
  PROVE  InText(Mapped(ops, rev, Len(ops), start, end), len)
<1> PICK n \in Nat : n = Len(ops)
  BY Seqs DEF OpsFit
<1>1. rev \in Nat /\ rev <= n
  OBVIOUS
<1>2. PICK f : Follows(f, ops, rev, n, start, end) /\ Mapped(ops, rev, n, start, end) = f[n]
  BY <1>1, MappedFollows
<1>3. f[rev] = Unmoved(start, end)
  BY <1>1, <1>2, FollowsFirst
<1>4. \A i \in rev + 1..n : f[i] = Along(f[i-1], ops[i])
  BY <1>1, <1>2, FollowsNext
<1> PICK k \in Nat : k = n - rev
  <2>1. n - rev \in Nat
    BY <1>1
  <2> QED
    BY <2>1
<1> DEFINE T == {j \in Nat : InText(f[rev + j], AfterLen(ops, rev + j, len))}
<1>5. 0 \in T
  <2>1. rev + 0 = rev
    BY <1>1
  <2>2. InText(Unmoved(start, end), AfterLen(ops, rev, len))
    BY DEF InText, Unmoved
  <2> QED
    BY <1>3, <2>1, <2>2
<1>6. ASSUME NEW j \in 0..k - 1, j \in T
      PROVE  j + 1 \in T
  <2>1. PICK i \in 1..n : i = rev + (j + 1) /\ i - 1 = rev + j /\ i \in rev + 1..n
    BY <1>1
  <2>2. InText(f[i-1], AfterLen(ops, i - 1, len))
    BY <1>6, <2>1
  <2>3. AfterLen(ops, i - 1, len) = BaseLen(ops[i])
    <3>1. i - 1 < n /\ (i - 1) + 1 = i
      OBVIOUS
    <3> QED
      BY <3>1 DEF AfterLen
  <2>4. IsSeq(ops[i]) /\ TargetLen(ops[i]) = AfterLen(ops, i, len)
    BY DEF OpsFit
  <2>5. InText(Along(f[i-1], ops[i]), TargetLen(ops[i]))
    BY <2>2, <2>3, <2>4, AlongIn
  <2>6. InText(f[i], AfterLen(ops, i, len))
    BY <1>4, <2>1, <2>4, <2>5
  <2> QED
    BY <2>1, <2>6
<1> HIDE DEF T
<1>7. \A j \in 0..k : j \in T
  BY <1>5, <1>6, Induction
<1>8. k \in T /\ rev + k = n
  BY <1>1, <1>7
<1>9. AfterLen(ops, n, len) = len
  BY DEF AfterLen
<1> QED
  BY <1>2, <1>8, <1>9 DEF T

\* A range on its way stands on what was read of it, unless it was touched.
StandsOn(m, read, text) ==
  InText(m, Len(text)) /\ (~m[3] => SubSeq(text, m[1] + 1, m[2]) = read)

LEMMA StandsOnAlong ==
  ASSUME NEW op, IsSeq(op), NEW text, IsSeq(text), BaseLen(op) = Len(text), NEW read, NEW m, StandsOn(m, read, text)
  PROVE  StandsOn(Along(m, op), read, Apply(op, text))
<1> PICK s, e : s = m[1] /\ e = m[2]
  OBVIOUS
<1>1. RangeIn(s, e, Len(text)) /\ m[3] \in BOOLEAN
  BY DEF StandsOn, InText
<1> PICK r, t : r = MapRange(op, s, e) /\ t = Apply(op, text)
  OBVIOUS
<1>2. Stays(r, s, e, text, t)
  BY <1>1, RangesStay
<1> PICK x : x = Along(m, op)
  OBVIOUS
<1>3. x[1] = r[1] /\ x[2] = r[2] /\ x[3] = (m[3] \/ r[3])
  BY DEF Along
<1>4. InText(x, Len(t))
  BY <1>1, <1>2, <1>3 DEF InText, Stays
<1>5. ASSUME ~x[3]
      PROVE  SubSeq(t, x[1] + 1, x[2]) = read
  <2>1. ~m[3] /\ ~r[3]
    BY <1>1, <1>2, <1>3, <1>5 DEF Stays
  <2>2. SubSeq(text, s + 1, e) = read
    BY <2>1 DEF StandsOn
  <2>3. SubSeq(t, r[1] + 1, r[2]) = SubSeq(text, s + 1, e)
    BY <1>2, <2>1 DEF Stays
  <2> QED
    BY <1>3, <2>2, <2>3
<1>6. StandsOn(x, read, t)
  BY <1>4, <1>5 DEF StandsOn
<1> QED
  BY <1>6

\* What an agent read at a revision still stands, as far as the document knows.
Read(d, rev, start, end, read) ==
  rev \in 0..Len(d.ops) /\ StandsOn(Mapped(d.ops, rev, Len(d.ops), start, end), read, d.text)

LEMMA ReadMoves ==
  ASSUME NEW d, DocOK(d), DocText(d), NEW r, r.k = "op", RecordText(d, r),
         NEW rev, NEW start, NEW end, NEW read, Read(d, rev, start, end, read)
  PROVE  Read(ApplyRecord(d, r), rev, start, end, read)
<1> PICK op : op = r.op
  OBVIOUS
<1>1. ApplyRecord(d, r).text = Apply(op, d.text) /\ ApplyRecord(d, r).ops = Append(d.ops, op)
  BY DEF ApplyRecord
<1>2. IsSeq(op) /\ BaseLen(op) = Len(d.text) /\ IsSeq(d.text)
  BY TextSeqs DEF RecordText
<1>3. PICK S : d.ops \in Seq(S)
  BY DEF DocOK, IsSeq
<1> PICK n \in Nat : n = Len(d.ops)
  BY <1>3
<1>4. Len(Append(d.ops, op)) = n + 1
  BY <1>3
<1> PICK m : m = Mapped(d.ops, rev, n, start, end)
  OBVIOUS
<1>5. rev \in 0..n /\ StandsOn(m, read, d.text)
  BY DEF Read
<1>6. Mapped(Append(d.ops, op), rev, n + 1, start, end) = Along(m, op)
  BY <1>3, <1>5, MappedOn
<1>7. StandsOn(Along(m, op), read, Apply(op, d.text))
  BY <1>2, <1>5, StandsOnAlong
<1>8. rev \in 0..n + 1
  BY <1>5
<1> QED
  BY <1>1, <1>4, <1>6, <1>7, <1>8 DEF Read

-----------------------------------------------------------------------------
(* Texts: the invariant and its steps.                                     *)

\* A run of agent i, or the answer it has coming, of a session that knows document d.
Reads(x, i, d) ==
  /\ x.pc = "reading" => x.start \in Int /\ x.end \in Int
  /\ x.pc = "proposing" => IsSeq(x.draft) /\ CreditedTo(x.draft, Agent(i))
  /\ x.pc \in {"thinking", "proposing"} /\ ~x.lost => Read(d, x.rev, x.start, x.end, x.text)

Idle(x) == x.pc \in {"thinking", "proposing"} => x.lost

\* Every document the log goes through is one whose suggestions stand.
LogText == \A k \in 0..Len(log) : DocText(States(log)[k])

\* Runs know what they read, and none that is not lost is at work without a session.
RunsRead ==
  /\ \A i \in DOMAIN runs : Reads(runs[i], i, doc) /\ Reads(replies[i], i, doc)
  /\ ~alive => \A i \in DOMAIN runs : Idle(runs[i]) /\ replies[i] = NoReply

TextInv == LogText /\ RunsRead /\ budget \in Budgets

LEMMA FreshText ==
  DocText(Fresh)
<1>1. IsSeq(<<>>) /\ Len(<<>>) = 0 /\ DOMAIN <<>> = {}
  BY DEF IsSeq
<1>2. Fresh.text = <<>> /\ Fresh.attr = <<>> /\ Fresh.ops = <<>> /\ Fresh.sugs = <<>>
  BY DEF Fresh
<1>3. Credits(Fresh.text, Fresh.attr)
  BY <1>1, <1>2 DEF Credits
<1>4. OpsFit(Fresh.ops, Len(Fresh.text))
  BY <1>1, <1>2 DEF OpsFit
<1> QED
  BY <1>1, <1>2, <1>3, <1>4 DEF DocText

LEMMA DocHasText ==
  ASSUME DecInv, LogText
  PROVE  DocText(doc) /\ (alive => DocOK(doc))
<1>1. CASE alive
  <2>1. doc = States(log)[Len(log)] /\ DocOK(doc) /\ Len(log) \in Nat
    BY <1>1, LastState DEF DecInv
  <2>2. Len(log) \in 0..Len(log)
    BY <2>1
  <2> QED
    BY <2>1, <2>2 DEF LogText
<1>2. CASE ~alive
  BY <1>2, FreshText DEF DecInv
<1> QED
  BY <1>1, <1>2

LEMMA CommitText ==
  ASSUME DecInv, LogText, alive, NEW r, RecordOK(doc, r), RecordText(doc, r), Commit(r)
  PROVE  LogText'
<1>1. doc = Replay(log) /\ LogOK(log) /\ log' = Append(log, r) /\ DocText(doc) /\ DocOK(doc)
  BY DocHasText DEF DecInv, Commit
<1>2. PICK n \in Nat : n = Len(log)
  BY <1>1, LastState
<1> PICK more : more = Append(log, r)
  OBVIOUS
<1>3. /\ LogOK(more) /\ Len(more) = n + 1 /\ Replay(more) = ApplyRecord(doc, r)
      /\ \A k \in 0..n : States(more)[k] = States(log)[k]
  BY <1>1, <1>2, LogAppend
<1>4. Replay(more) = States(more)[n + 1]
  <2>1. Len(more) \in Nat
    BY <1>3
  <2> QED
    BY <1>3, <2>1, StatesAre
<1>5. DocText(States(more)[n + 1])
  BY <1>1, <1>3, <1>4, TextGoesOn
<1>6. \A k \in 0..n : DocText(States(more)[k])
  BY <1>2, <1>3 DEF LogText
<1>7. \A k \in 0..n + 1 : k = n + 1 \/ k \in 0..n
  OBVIOUS
<1>8. \A k \in 0..n + 1 : DocText(States(more)[k])
  BY <1>5, <1>6, <1>7
<1>9. log' = more
  BY <1>1
<1> QED
  BY <1>3, <1>8, <1>9 DEF LogText

LEMMA GoneText ==
  ASSUME DecInv, LogText, Gone
  PROVE  LogText'
<1>1. LogOK(log) /\ durable \in 0..Len(log) /\ Len(log) \in Nat
  BY LastState DEF DecInv
<1>2. PICK n \in durable..Len(log) : log' = SubSeq(log, 1, n)
  BY DEF Gone
<1>3. n \in 0..Len(log)
  BY <1>1
<1> PICK p : p = SubSeq(log, 1, n)
  OBVIOUS
<1>4. Len(p) = n /\ \A k \in 0..n : States(p)[k] = States(log)[k]
  BY <1>1, <1>3, LogPrefix
<1>5. \A k \in 0..n : k \in 0..Len(log)
  BY <1>1, <1>3
<1>6. \A k \in 0..n : DocText(States(p)[k])
  BY <1>4, <1>5 DEF LogText
<1>7. log' = p
  BY <1>2
<1> QED
  BY <1>4, <1>6, <1>7 DEF LogText

LEMMA ReadsSame ==
  ASSUME NEW x, NEW i, NEW d, Reads(x, i, d), NEW e, e.text = d.text, e.ops = d.ops
  PROVE  Reads(x, i, e)
BY DEF Reads, Read

\* Runs and answers that stay, or that know what they read; the document has its text.
RunOn(i) ==
  /\ runs'[i] = runs[i] \/ (Reads(runs'[i], i, doc) /\ (~alive => Idle(runs'[i])))
  /\ replies'[i] = replies[i] \/ (Reads(replies'[i], i, doc) /\ alive)

LEMMA RunsReadOn ==
  ASSUME RunsRead, alive' = alive, doc'.text = doc.text, doc'.ops = doc.ops, DOMAIN runs' = DOMAIN runs,
         \A i \in DOMAIN runs : RunOn(i)
  PROVE  RunsRead'
<1>1. ASSUME NEW i \in DOMAIN runs
      PROVE  Reads(runs'[i], i, doc') /\ Reads(replies'[i], i, doc')
  <2>1. Reads(runs[i], i, doc) /\ Reads(replies[i], i, doc) /\ RunOn(i)
    BY DEF RunsRead
  <2>2. Reads(runs'[i], i, doc) /\ Reads(replies'[i], i, doc)
    BY <2>1 DEF RunOn
  <2> QED
    BY <2>2, ReadsSame
<1>2. ASSUME ~alive, NEW i \in DOMAIN runs
      PROVE  Idle(runs'[i]) /\ replies'[i] = NoReply
  <2>1. Idle(runs[i]) /\ replies[i] = NoReply /\ RunOn(i)
    BY <1>2 DEF RunsRead
  <2> QED
    BY <1>2, <2>1 DEF RunOn
<1> QED
  BY <1>1, <1>2 DEF RunsRead

LEMMA RunsReadUnmoved ==
  ASSUME RunsRead, UNCHANGED <<runs, replies, alive>>, doc'.text = doc.text, doc'.ops = doc.ops
  PROVE  RunsRead'
<1>1. \A i \in DOMAIN runs : RunOn(i)
  BY DEF RunOn
<1> QED
  BY <1>1, RunsReadOn

LEMMA CommitOpText ==
  ASSUME DecInv, LogText, RunsRead, alive, NEW r, r.k = "op", RecordOK(doc, r), RecordText(doc, r), CommitOp(r),
         UNCHANGED <<runs, replies, alive>>
  PROVE  LogText' /\ RunsRead'
<1>1. Commit(r) /\ doc' = ApplyRecord(doc, r) /\ DocOK(doc) /\ DocText(doc)
  BY DocHasText DEF CommitOp, Commit
<1>2. LogText'
  BY <1>1, CommitText
<1> PICK e : e = ApplyRecord(doc, r)
  OBVIOUS
<1>3. ASSUME NEW x, NEW i, Reads(x, i, doc)
      PROVE  Reads(x, i, e)
  <2>1. ASSUME x.pc \in {"thinking", "proposing"}, ~x.lost
        PROVE  Read(e, x.rev, x.start, x.end, x.text)
    <3>1. PICK rev, start, end, read : rev = x.rev /\ start = x.start /\ end = x.end /\ read = x.text
      OBVIOUS
    <3>2. Read(doc, rev, start, end, read)
      BY <1>3, <2>1, <3>1 DEF Reads
    <3>3. Read(e, rev, start, end, read)
      BY <1>1, <3>2, ReadMoves
    <3> QED
      BY <3>1, <3>3
  <2> QED
    BY <1>3, <2>1 DEF Reads
<1>4. \A i \in DOMAIN runs : Reads(runs[i], i, doc) /\ Reads(replies[i], i, doc)
  BY DEF RunsRead
<1>5. \A i \in DOMAIN runs : Reads(runs[i], i, e) /\ Reads(replies[i], i, e)
  BY <1>3, <1>4
<1>6. doc' = e /\ runs' = runs /\ replies' = replies /\ alive'
  BY <1>1
<1>7. RunsRead'
  BY <1>5, <1>6 DEF RunsRead
<1> QED
  BY <1>2, <1>7

LEMMA OpRecord ==
  ASSUME NEW d, NEW op, NEW author, OpOn(op, Len(d.text), author), NEW accepts, NEW r,
         r = [k |-> "op", op |-> op, by |-> author, accepts |-> accepts]
  PROVE  r.k = "op" /\ RecordText(d, r)
<1>1. r.k = "op" /\ r.op = op /\ r.by = author
  OBVIOUS
<1> QED
  BY <1>1 DEF RecordText, OpOn

LEMMA EditText ==
  ASSUME DecInv, LogText, RunsRead, NEW start \in 0..Len(doc.text), NEW end \in 0..Len(doc.text),
         NEW text \in Typing, Edit(start, end, text)
  PROVE  LogText' /\ RunsRead'
<1> PICK op : op = ReplaceOp(Len(doc.text), start, end, text)
  OBVIOUS
<1>1. alive /\ start <= end /\ UNCHANGED <<runs, replies, alive>>
      /\ CommitOp([k |-> "op", op |-> op, by |-> Person, accepts |-> 0])
  BY DEF Edit
<1>2. IsSeq(text) /\ CreditedTo(text, Person)
  <2>1. CASE text = <<>>
    BY <2>1 DEF IsSeq, CreditedTo
  <2>2. ASSUME NEW u, u.by = Person, text = <<u>>
        PROVE  IsSeq(text) /\ CreditedTo(text, Person)
    <3>1. u \in {u}
      OBVIOUS
    <3>2. text \in Seq({u}) /\ DOMAIN text = {1} /\ text[1] = u
      BY <2>2, <3>1, OneIsSeq
    <3> QED
      BY <2>2, <3>2 DEF IsSeq, CreditedTo
  <2>3. CASE text # <<>>
    <3>1. PICK u : u = [by |-> Person, nr |-> used.edits + 1]
      OBVIOUS
    <3>2. text = <<u>> /\ u.by = Person
      BY <2>3, <3>1 DEF Typing
    <3> QED
      BY <2>2, <3>2
  <2> QED
    BY <2>1, <2>3
<1>3. PICK length \in Nat : length = Len(doc.text)
  BY DocHasText, TextSeqs
<1>4. RangeIn(start, end, length)
  BY <1>1, <1>3 DEF RangeIn
<1>5. OpOn(op, Len(doc.text), Person)
  BY <1>2, <1>3, <1>4, ReplaceIs
<1> PICK r : r = [k |-> "op", op |-> op, by |-> Person, accepts |-> 0]
  OBVIOUS
<1>6. r.k = "op" /\ RecordText(doc, r)
  BY <1>5, OpRecord
<1>7. RecordOK(doc, r)
  BY DEF RecordOK
<1> QED
  BY <1>1, <1>6, <1>7, CommitOpText

LEMMA AcceptText ==
  ASSUME DecInv, LogText, RunsRead, alive, UNCHANGED <<runs, replies, alive>>, NEW i \in DOMAIN doc.sugs, Accept(i)
  PROVE  LogText' /\ RunsRead'
<1> PICK s : s = doc.sugs[i]
  OBVIOUS
<1>1. PICK start : start = IF s.placement = "after" THEN s.end ELSE s.start
  OBVIOUS
<1> PICK op : op = ReplaceOp(Len(doc.text), start, s.end, s.text)
  OBVIOUS
<1>2. CASE ~CanAccept(s)
  <2>1. UNCHANGED <<doc, log>>
    BY <1>2 DEF Accept
  <2> QED
    BY <2>1, RunsReadUnmoved DEF LogText
<1>3. CASE UNCHANGED <<doc, log, shown, after>>
  BY <1>3, RunsReadUnmoved DEF LogText
<1>4. ASSUME CanAccept(s), CommitOp([k |-> "op", op |-> op, by |-> Writer(s), accepts |-> i])
      PROVE  LogText' /\ RunsRead'
  <2>1. PICK length \in Nat : length = Len(doc.text)
    BY DocHasText, TextSeqs
  <2>2. s.status = "pending" /\ Open(s)
    BY <1>4 DEF CanAccept, Open
  <2>3. SugText(doc.text, s)
    BY DocHasText DEF DocText
  <2>4. IsSeq(s.text) /\ CreditedTo(s.text, Writer(s)) /\ RangeIn(s.start, s.end, length)
    BY <2>1, <2>2, <2>3 DEF SugText, Writer
  <2>5. RangeIn(start, s.end, length)
    BY <1>1, <2>4 DEF RangeIn
  <2>6. PICK end, text, author : end = s.end /\ text = s.text /\ author = Writer(s)
    OBVIOUS
  <2>7. OpOn(ReplaceOp(length, start, end, text), length, author)
    BY <2>4, <2>5, <2>6, ReplaceIs
  <2>8. OpOn(op, Len(doc.text), author)
    BY <2>1, <2>6, <2>7
  <2> PICK r : r = [k |-> "op", op |-> op, by |-> author, accepts |-> i]
    OBVIOUS
  <2>9. r.k = "op" /\ RecordText(doc, r)
    BY <2>8, OpRecord
  <2>10. RecordOK(doc, r)
    BY <2>2 DEF RecordOK
  <2>11. CommitOp(r)
    BY <1>4, <2>6
  <2> QED
    BY <2>9, <2>10, <2>11, CommitOpText
<1> QED
  BY <1>1, <1>2, <1>3, <1>4 DEF Accept

LEMMA SettlesNoText ==
  ASSUME NEW d, DocOK(d), NEW r, r.k = "res", RecordOK(d, r)
  PROVE  ApplyRecord(d, r).text = d.text /\ ApplyRecord(d, r).ops = d.ops
<1>1. PICK sid : sid = r.sid /\ sid \in DOMAIN d.sugs
  BY DEF RecordOK
<1> PICK new : new = [d.sugs EXCEPT ![sid].status = r.action]
  OBVIOUS
<1>2. ApplyRecord(d, r) = [d EXCEPT !.sugs = new]
  BY <1>1 DEF ApplyRecord, DocOK
<1> QED
  BY <1>2 DEF DocOK

LEMMA RefuseText ==
  ASSUME DecInv, LogText, RunsRead, alive, UNCHANGED <<runs, replies, alive>>, NEW i \in DOMAIN doc.sugs, Refuse(i)
  PROVE  LogText' /\ RunsRead'
<1>1. CASE Open(doc.sugs[i])
  <2> PICK action \in {"dismissed", "rejected"} :
        action = IF doc.sugs[i].status = "stale" THEN "dismissed" ELSE "rejected"
    OBVIOUS
  <2> PICK r : r = [k |-> "res", sid |-> i, action |-> action]
    OBVIOUS
  <2>1. Commit(r) /\ doc' = ApplyRecord(doc, r)
    BY <1>1 DEF Refuse, Commit
  <2>2. RecordOK(doc, r) /\ RecordText(doc, r) /\ r.k = "res"
    BY <1>1 DEF RecordOK, RecordText
  <2>3. LogText'
    BY <2>1, <2>2, CommitText
  <2>4. doc'.text = doc.text /\ doc'.ops = doc.ops
    BY <2>1, <2>2, DocHasText, SettlesNoText
  <2> QED
    BY <2>3, <2>4, RunsReadUnmoved
<1>2. CASE ~Open(doc.sugs[i])
  <2>1. UNCHANGED <<doc, log>>
    BY <1>2 DEF Refuse
  <2> QED
    BY <2>1, RunsReadUnmoved DEF LogText
<1> QED
  BY <1>1, <1>2

LEMMA ResolveText ==
  ASSUME DecInv, LogText, RunsRead, NEW i, HandleResolve(i)
  PROVE  LogText' /\ RunsRead'
<1>1. alive /\ UNCHANGED <<runs, replies, alive>>
  BY DEF HandleResolve
<1>2. CASE i \in DOMAIN doc.sugs
  BY <1>1, <1>2, AcceptText, RefuseText DEF HandleResolve
<1>3. CASE i \notin DOMAIN doc.sugs
  <2>1. UNCHANGED <<doc, log>>
    BY <1>3 DEF HandleResolve
  <2> QED
    BY <1>1, <2>1, RunsReadUnmoved DEF LogText
<1> QED
  BY <1>2, <1>3

\* A run that reads and writes nothing.
LEMMA RestReads ==
  ASSUME NEW x, x.pc \notin {"reading", "thinking", "proposing"}, NEW i, NEW d
  PROVE  Reads(x, i, d) /\ Idle(x)
BY DEF Reads, Idle

Knows(x, pc, rev, start, end, text) ==
  x.pc = pc /\ x.rev = rev /\ x.start = start /\ x.end = end /\ x.text = text

LEMMA ReadingIs ==
  ASSUME NEW run, Run(run), NEW rev, NEW start, NEW end, NEW text
  PROVE  Knows([run EXCEPT !.pc = "thinking", !.rev = rev, !.start = start, !.end = end, !.text = text],
               "thinking", rev, start, end, text)
<1> PICK x : x = [run EXCEPT !.pc = "thinking", !.rev = rev, !.start = start, !.end = end, !.text = text]
  OBVIOUS
<1>1. x = [pc |-> "thinking", rev |-> rev, start |-> start, end |-> end, attempt |-> run.attempt,
           text |-> text, draft |-> run.draft, placement |-> run.placement,
           answered |-> run.answered, lost |-> run.lost, at |-> run.at]
  BY DEF Run
<1>2. Knows(x, "thinking", rev, start, end, text)
  BY <1>1 DEF Knows
<1> QED
  BY <1>2

Drafts(x, run, draft) ==
  Knows(x, "proposing", run.rev, run.start, run.end, run.text) /\ x.draft = draft /\ x.lost = run.lost

LEMMA DraftIs ==
  ASSUME NEW run, Run(run), NEW draft, NEW placement
  PROVE  Drafts([run EXCEPT !.pc = "proposing", !.answered = TRUE, !.draft = draft, !.placement = placement],
                run, draft)
<1> PICK x : x = [run EXCEPT !.pc = "proposing", !.answered = TRUE, !.draft = draft, !.placement = placement]
  OBVIOUS
<1>1. x = [pc |-> "proposing", rev |-> run.rev, start |-> run.start, end |-> run.end, attempt |-> run.attempt,
           text |-> run.text, draft |-> draft, placement |-> placement,
           answered |-> TRUE, lost |-> run.lost, at |-> run.at]
  BY DEF Run
<1>2. Drafts(x, run, draft)
  BY <1>1 DEF Drafts, Knows
<1> QED
  BY <1>2

\* The actor answers one run.
LEMMA AnswerText ==
  ASSUME RunsRead, RunsInv, NEW i \in DOMAIN runs, NEW x, Answer(i, x), Reads(x, i, doc), alive,
         UNCHANGED <<runs, alive>>, doc'.text = doc.text, doc'.ops = doc.ops
  PROVE  RunsRead'
<1>1. replies'[i] = x /\ \A j \in DOMAIN runs : j # i => replies'[j] = replies[j]
  BY AnswerIs
<1>2. \A j \in DOMAIN runs : RunOn(j)
  BY <1>1 DEF RunOn
<1> QED
  BY <1>2, RunsReadOn

LEMMA MapRangeIn ==
  ASSUME DocText(doc), NEW rev, NEW start \in Int, NEW end \in Int, Fits(rev, start, end)
  PROVE  InText(MapRangeFrom(rev, start, end), Len(doc.text))
<1>1. OpsFit(doc.ops, Len(doc.text)) /\ rev \in 0..Len(doc.ops)
  BY DEF DocText, Fits, Rev
<1>2. LengthAt(rev) = AfterLen(doc.ops, rev, Len(doc.text))
  BY DEF LengthAt, AfterLen, Rev
<1>3. LengthAt(rev) \in Nat
  <2>1. CASE rev < Len(doc.ops)
    <3>1. Len(doc.ops) \in Nat
      BY <1>1, Seqs DEF OpsFit
    <3>2. rev + 1 \in 1..Len(doc.ops)
      BY <1>1, <2>1, <3>1
    <3>3. IsSeq(doc.ops[rev + 1])
      BY <1>1, <3>2 DEF OpsFit
    <3>4. Len(doc.ops[rev + 1]) \in Nat
      BY <3>3, Seqs
    <3>5. BaseLen(doc.ops[rev + 1]) \in Nat
      BY <3>4, CountsOn DEF BaseLen
    <3> QED
      BY <2>1, <3>5 DEF LengthAt, Rev
  <2>2. CASE ~(rev < Len(doc.ops))
    BY <2>2, TextSeqs DEF LengthAt, Rev
  <2> QED
    BY <2>1, <2>2
<1>4. RangeIn(start, end, AfterLen(doc.ops, rev, Len(doc.text)))
  <2>1. 0 <= start /\ start <= end /\ end <= LengthAt(rev)
    BY DEF Fits
  <2>2. RangeIn(start, end, LengthAt(rev))
    BY <1>3, <2>1 DEF RangeIn
  <2> QED
    BY <1>2, <2>2
<1>5. InText(Mapped(doc.ops, rev, Len(doc.ops), start, end), Len(doc.text))
  BY <1>1, <1>4, MappedIn
<1> QED
  BY <1>5, MappedIs DEF Rev

LEMMA ReadText ==
  ASSUME DecInv, LogText, RunsRead, RunsInv, NEW i \in DOMAIN runs, BeginRead(i)
  PROVE  RunsRead'
<1> PICK run : run = runs[i] /\ Run(run)
  BY DEF RunsInv
<1>1. alive /\ run.pc = "reading" /\ UNCHANGED <<doc, alive, runs>>
  BY DEF BeginRead, Asks
<1>2. DocText(doc)
  BY DocHasText
<1> PICK rev, start, end : rev = run.rev /\ start = run.start /\ end = run.end
  OBVIOUS
<1>3. start \in Int /\ end \in Int
  BY <1>1 DEF RunsRead, Reads
<1> PICK m : m = MapRangeFrom(rev, start, end)
  OBVIOUS
<1>4. CASE ~Fits(rev, start, end)
  <2> PICK x : x = [run EXCEPT !.pc = "ending"]
    OBVIOUS
  <2>1. Answer(i, x)
    BY <1>4 DEF BeginRead
  <2>2. GoesTo(x, run, "ending", run.rev, run.start, run.end)
    BY RunsGo
  <2>3. Reads(x, i, doc)
    BY <2>2, RestReads DEF GoesTo
  <2> QED
    BY <1>1, <2>1, <2>3, AnswerText
<1>5. CASE Fits(rev, start, end)
  <2>1. PICK n, a, b, text : n = Len(doc.ops) /\ a = m[1] /\ b = m[2] /\ text = SubSeq(doc.text, m[1] + 1, m[2])
    OBVIOUS
  <2>2. PICK x : x = [run EXCEPT !.pc = "thinking", !.rev = n, !.start = a, !.end = b, !.text = text]
    OBVIOUS
  <2>3. Answer(i, x)
    BY <1>5, <2>1, <2>2 DEF BeginRead, Rev
  <2>4. Knows(x, "thinking", n, a, b, text)
    BY <2>2, ReadingIs
  <2>5. InText(m, Len(doc.text))
    BY <1>2, <1>3, <1>5, MapRangeIn
  <2>6. n \in Nat
    BY <1>2, <2>1, Seqs DEF DocText, OpsFit
  <2>7. Mapped(doc.ops, n, n, a, b) = Unmoved(a, b)
    BY <2>6, MappedStart
  <2>8. StandsOn(Unmoved(a, b), text, doc.text)
    <3> PICK y : y = Unmoved(a, b)
      OBVIOUS
    <3>1. y[1] = a /\ y[2] = b /\ y[3] = FALSE
      BY DEF Unmoved
    <3>2. InText(y, Len(doc.text))
      BY <2>1, <2>5, <3>1 DEF InText
    <3>3. SubSeq(doc.text, y[1] + 1, y[2]) = text
      BY <2>1, <3>1
    <3>4. StandsOn(y, text, doc.text)
      BY <3>2, <3>3 DEF StandsOn
    <3> QED
      BY <3>4
  <2>9. n \in 0..Len(doc.ops)
    BY <2>1, <2>6
  <2>10. Read(doc, n, a, b, text)
    BY <2>1, <2>7, <2>8, <2>9 DEF Read
  <2>11. Reads(x, i, doc)
    BY <2>4, <2>10 DEF Reads, Knows
  <2> QED
    BY <1>1, <2>3, <2>11, AnswerText
<1> QED
  BY <1>4, <1>5

LEMMA EndText ==
  ASSUME RunsRead, RunsInv, NEW i \in DOMAIN runs, EndRun(i)
  PROVE  RunsRead'
<1> PICK run : run = runs[i] /\ Run(run)
  BY DEF RunsInv
<1> PICK x : x = [run EXCEPT !.pc = "ended"]
  OBVIOUS
<1>1. alive /\ Answer(i, x) /\ UNCHANGED <<doc, alive, runs>>
  BY DEF EndRun, Asks
<1>2. GoesTo(x, run, "ended", run.rev, run.start, run.end)
  BY RunsGo
<1>3. Reads(x, i, doc)
  BY <1>2, RestReads DEF GoesTo
<1> QED
  BY <1>1, <1>3, AnswerText

LEMMA ProposeText ==
  ASSUME DecInv, LogText, RunsRead, RunsInv, NEW i \in DOMAIN runs, Propose(i)
  PROVE  LogText' /\ RunsRead'
<1> PICK run : run = runs[i] /\ Run(run)
  BY DEF RunsInv
<1>1. alive /\ run.pc = "proposing" /\ ~run.lost /\ UNCHANGED <<alive, runs>>
  BY DEF Propose, Asks
<1>2. DocText(doc) /\ DocOK(doc)
  BY <1>1, DocHasText
<1> PICK m : m = MapRangeFrom(run.rev, run.start, run.end)
  OBVIOUS
<1>3. IsSeq(run.draft) /\ CreditedTo(run.draft, Agent(i)) /\ Read(doc, run.rev, run.start, run.end, run.text)
  BY <1>1 DEF RunsRead, Reads
<1>4. StandsOn(m, run.text, doc.text)
  BY <1>3, MappedIs DEF Read, Rev
<1>5. CASE m[3] /\ run.attempt < maxAgentAttempts
  <2>1. PICK n, a, b : n = Rev /\ a = m[1] /\ b = m[2]
    OBVIOUS
  <2>2. PICK x : x = [run EXCEPT !.pc = "reading", !.rev = n, !.start = a, !.end = b, !.attempt = @ + 1]
    OBVIOUS
  <2>3. Answer(i, x) /\ UNCHANGED <<doc, log>>
    BY <1>5, <2>1, <2>2 DEF Propose
  <2>4. GoesTo(x, run, "reading", n, a, b)
    BY <2>2, RunsGo
  <2>5. a \in Int /\ b \in Int
    BY <1>4, <2>1 DEF StandsOn, InText, RangeIn
  <2>6. Reads(x, i, doc)
    BY <2>4, <2>5 DEF Reads, GoesTo
  <2>7. RunsRead'
    BY <1>1, <2>3, <2>6, AnswerText
  <2> QED
    BY <2>3, <2>7 DEF LogText
<1>6. CASE ~(m[3] /\ run.attempt < maxAgentAttempts)
  <2>1. PICK s : s = [run |-> i, agent |-> Agent(i), start |-> m[1], end |-> m[2], placement |-> run.placement,
                      original |-> run.text, text |-> run.draft, status |-> Status(m[3])]
    OBVIOUS
  <2>2. PICK x : x = [run EXCEPT !.pc = "ending"]
    OBVIOUS
  <2> PICK r : r = [k |-> "sug", s |-> s]
    OBVIOUS
  <2>3. Answer(i, x) /\ Commit(r)
    BY <1>6, <2>1, <2>2 DEF Propose
  <2>4. /\ s.agent = Agent(i) /\ s.start = m[1] /\ s.end = m[2] /\ s.original = run.text
        /\ s.text = run.draft /\ s.status = Status(m[3]) /\ Fields(s)
    BY <2>1 DEF Fields
  <2>5. s.status \in {"pending", "stale"} /\ (s.status = "pending" => ~m[3])
    BY <2>4 DEF Status
  <2>6. SugText(doc.text, s)
    <3>1. IsSeq(s.text) /\ CreditedTo(s.text, s.agent)
      BY <1>3, <2>4
    <3>2. RangeIn(s.start, s.end, Len(doc.text))
      BY <1>4, <2>4 DEF StandsOn, InText
    <3>3. s.status = "pending" => SubSeq(doc.text, s.start + 1, s.end) = s.original
      BY <1>4, <2>4, <2>5 DEF StandsOn
    <3> QED
      BY <2>5, <3>1, <3>2, <3>3 DEF SugText
  <2>7. r.k = "sug" /\ r.s = s
    OBVIOUS
  <2>8. RecordOK(doc, r) /\ RecordText(doc, r)
    BY <2>4, <2>5, <2>6, <2>7 DEF RecordOK, RecordText, Open
  <2>9. LogText'
    BY <1>1, <2>3, <2>8, CommitText
  <2>10. doc'.text = doc.text /\ doc'.ops = doc.ops
    <3>1. doc' = [doc EXCEPT !.sugs = Append(doc.sugs, s)]
      BY <2>3, <2>7 DEF Commit, ApplyRecord
    <3> QED
      BY <1>2, <3>1 DEF DocOK
  <2>11. GoesTo(x, run, "ending", run.rev, run.start, run.end)
    BY <2>2, RunsGo
  <2>12. Reads(x, i, doc)
    BY <2>11, RestReads DEF GoesTo
  <2>13. RunsRead'
    BY <1>1, <2>3, <2>10, <2>12, AnswerText
  <2> QED
    BY <2>9, <2>13
<1> QED
  BY <1>5, <1>6

\* A run goes on by itself.
LEMMA MovesText ==
  ASSUME RunsRead, RunsInv, NEW i \in DOMAIN runs, NEW x, runs' = [runs EXCEPT ![i] = x],
         Reads(x, i, doc), ~alive => Idle(x), UNCHANGED <<doc, alive, replies>>
  PROVE  RunsRead'
<1>1. DOMAIN runs' = DOMAIN runs /\ runs'[i] = x /\ \A j \in DOMAIN runs : j # i => runs'[j] = runs[j]
  OBVIOUS
<1>2. \A j \in DOMAIN runs : RunOn(j)
  BY <1>1 DEF RunOn
<1> QED
  BY <1>1, <1>2, RunsReadOn

LEMMA ThinkText ==
  ASSUME RunsRead, RunsInv, NEW i \in DOMAIN runs, Think(i)
  PROVE  RunsRead'
<1> PICK run : run = runs[i] /\ Run(run)
  BY DEF RunsInv
<1>1. run.pc = "thinking" /\ UNCHANGED <<doc, alive, replies>>
  BY DEF Think, session
<1>2. /\ ~run.lost => Read(doc, run.rev, run.start, run.end, run.text)
      /\ ~alive => run.lost
  BY <1>1 DEF RunsRead, Reads, Idle
<1>3. ASSUME NEW x, runs' = [runs EXCEPT ![i] = x], GoesTo(x, run, "ending", run.rev, run.start, run.end)
      PROVE  RunsRead'
  <2>2. Reads(x, i, doc) /\ Idle(x)
    BY <1>3, RestReads DEF GoesTo
  <2> QED
    BY <1>1, <1>3, <2>2, MovesText
<1>4. ASSUME NEW draft, IsSeq(draft), CreditedTo(draft, Agent(i)), NEW placement, NEW x,
             x = [run EXCEPT !.pc = "proposing", !.answered = TRUE, !.draft = draft, !.placement = placement],
             runs' = [runs EXCEPT ![i] = x]
      PROVE  RunsRead'
  <2>1. Drafts(x, run, draft)
    BY <1>4, DraftIs
  <2>2. Reads(x, i, doc) /\ (~alive => Idle(x))
    BY <1>2, <1>4, <2>1 DEF Reads, Idle, Drafts, Knows
  <2> QED
    BY <1>1, <1>4, <2>2, MovesText
<1>5. \/ runs' = [runs EXCEPT ![i] = [run EXCEPT !.pc = "ending"]]
      \/ runs' = [runs EXCEPT ![i] = [run EXCEPT !.pc = "ending", !.answered = TRUE]]
      \/ \E text \in {<<>>, <<[by |-> Agent(i), nr |-> run.attempt]>>} : \E placement :
           runs' = [runs EXCEPT ![i] = [run EXCEPT !.pc = "proposing", !.answered = TRUE,
                                                   !.draft = text, !.placement = placement]]
  BY DEF Think
<1>6. ASSUME NEW text \in {<<>>, <<[by |-> Agent(i), nr |-> run.attempt]>>}
      PROVE  IsSeq(text) /\ CreditedTo(text, Agent(i))
  <2>1. CASE text = <<>>
    BY <2>1 DEF IsSeq, CreditedTo
  <2>2. CASE text # <<>>
    <3>1. PICK u : u = [by |-> Agent(i), nr |-> run.attempt]
      OBVIOUS
    <3>2. text = <<u>> /\ u.by = Agent(i)
      BY <2>2, <3>1
    <3>3. u \in {u}
      OBVIOUS
    <3>4. text \in Seq({u}) /\ DOMAIN text = {1} /\ text[1] = u
      BY <3>2, <3>3, OneIsSeq
    <3> QED
      BY <3>2, <3>4 DEF IsSeq, CreditedTo
  <2> QED
    BY <2>1, <2>2
<1>7. CASE runs' = [runs EXCEPT ![i] = [run EXCEPT !.pc = "ending"]]
  BY <1>3, <1>7, RunsGo
<1>8. CASE runs' = [runs EXCEPT ![i] = [run EXCEPT !.pc = "ending", !.answered = TRUE]]
  BY <1>3, <1>8, RunsGo
<1>9. ASSUME NEW text \in {<<>>, <<[by |-> Agent(i), nr |-> run.attempt]>>}, NEW placement,
             runs' = [runs EXCEPT ![i] = [run EXCEPT !.pc = "proposing", !.answered = TRUE,
                                                     !.draft = text, !.placement = placement]]
      PROVE  RunsRead'
  <2>1. IsSeq(text) /\ CreditedTo(text, Agent(i))
    BY <1>6
  <2> PICK x : x = [run EXCEPT !.pc = "proposing", !.answered = TRUE, !.draft = text, !.placement = placement]
    OBVIOUS
  <2>2. runs' = [runs EXCEPT ![i] = x]
    BY <1>9
  <2> QED
    BY <1>4, <2>1, <2>2
<1> QED
  BY <1>5, <1>7, <1>8, <1>9

LEMMA AskFailsText ==
  ASSUME RunsRead, RunsInv, NEW i \in DOMAIN runs, AskFails(i)
  PROVE  RunsRead'
<1> PICK run : run = runs[i] /\ Run(run)
  BY DEF RunsInv
<1>1. UNCHANGED <<doc, alive, replies>>
  BY DEF AskFails, session
<1> PICK pc \in {"ending", "ended"} : pc = IF run.pc = "ending" THEN "ended" ELSE "ending"
  OBVIOUS
<1> PICK x : x = [run EXCEPT !.pc = pc]
  OBVIOUS
<1>2. runs' = [runs EXCEPT ![i] = x]
  BY DEF AskFails
<1>3. GoesTo(x, run, pc, run.rev, run.start, run.end)
  BY RunsGo
<1>4. Reads(x, i, doc) /\ Idle(x)
  BY <1>3, RestReads DEF GoesTo
<1> QED
  BY <1>1, <1>2, <1>4, MovesText

LEMMA ReleaseText ==
  ASSUME RunsRead, RunsInv, NEW i \in DOMAIN runs, Release(i)
  PROVE  RunsRead'
<1> PICK run : run = runs[i] /\ Run(run)
  BY DEF RunsInv
<1>1. UNCHANGED <<doc, alive, replies>>
  BY DEF Release, session
<1> PICK x : x = [run EXCEPT !.pc = "over"]
  OBVIOUS
<1>2. runs' = [runs EXCEPT ![i] = x]
  BY DEF Release
<1>3. GoesTo(x, run, "over", run.rev, run.start, run.end)
  BY RunsGo
<1>4. Reads(x, i, doc) /\ Idle(x)
  BY <1>3, RestReads DEF GoesTo
<1> QED
  BY <1>1, <1>2, <1>4, MovesText

LEMMA FlushText ==
  ASSUME RunsRead, Flush
  PROVE  RunsRead'
<1>1. UNCHANGED <<doc, alive>> /\ alive /\ replies' = [i \in DOMAIN runs |-> NoReply]
  BY DEF Flush, BatchDue
<1>2. DOMAIN runs' = DOMAIN runs /\ \A i \in DOMAIN runs : runs'[i] = runs[i] \/ runs'[i] = replies[i]
  BY DEF Flush
<1>3. ASSUME NEW i \in DOMAIN runs
      PROVE  RunOn(i)
  <2>1. Reads(replies[i], i, doc) /\ replies'[i] = NoReply
    BY <1>1 DEF RunsRead
  <2>2. Reads(NoReply, i, doc)
    BY RestReads DEF NoReply
  <2> QED
    BY <1>1, <1>2, <2>1, <2>2 DEF RunOn
<1> QED
  BY <1>1, <1>2, <1>3, RunsReadOn

\* Runs of a session that is gone are lost or over.
LEMMA AllGone ==
  ASSUME Gone, DOMAIN runs' = DOMAIN runs, \A i \in DOMAIN runs : Reads(runs'[i], i, doc') /\ Idle(runs'[i])
  PROVE  RunsRead'
<1>1. replies' = [i \in DOMAIN runs |-> NoReply]
  BY DEF Gone
<1>2. \A i \in DOMAIN runs : replies'[i] = NoReply /\ Reads(NoReply, i, doc')
  BY <1>1, RestReads DEF NoReply
<1> QED
  BY <1>2 DEF RunsRead

LEMMA FailText ==
  ASSUME RunsRead, RunsInv, Fail
  PROVE  RunsRead'
<1>1. Gone /\ runs' = [i \in DOMAIN runs |-> [runs[i] EXCEPT !.lost = TRUE]]
  BY DEF Fail
<1>2. ASSUME NEW i \in DOMAIN runs
      PROVE  Reads(runs'[i], i, doc') /\ Idle(runs'[i])
  <2> PICK run, x : run = runs[i] /\ x = runs'[i]
    OBVIOUS
  <2>1. Run(run) /\ Reads(run, i, doc)
    BY DEF RunsInv, RunsRead
  <2>2. x = [run EXCEPT !.lost = TRUE]
    BY <1>1
  <2>3. x.pc = run.pc /\ x.start = run.start /\ x.end = run.end /\ x.draft = run.draft /\ x.lost
    BY <2>1, <2>2 DEF Run
  <2> QED
    BY <2>1, <2>3 DEF Reads, Idle
<1> QED
  BY <1>1, <1>2, AllGone

LEMMA CrashText ==
  ASSUME RunsRead, RunsInv, Crash
  PROVE  RunsRead'
<1>1. Gone /\ runs' = [i \in DOMAIN runs |-> [runs[i] EXCEPT !.pc = "over"]]
  BY DEF Crash
<1>2. ASSUME NEW i \in DOMAIN runs
      PROVE  Reads(runs'[i], i, doc') /\ Idle(runs'[i])
  <2> PICK run, x : run = runs[i] /\ x = runs'[i]
    OBVIOUS
  <2>1. Run(run)
    BY DEF RunsInv
  <2>2. x = [run EXCEPT !.pc = "over"]
    BY <1>1
  <2>3. x.pc = "over"
    BY <2>1, <2>2 DEF Run
  <2> QED
    BY <2>3, RestReads
<1> QED
  BY <1>1, <1>2, AllGone

LEMMA ReopenText ==
  ASSUME RunsRead, Reopen
  PROVE  RunsRead'
<1>1. ~alive /\ alive' /\ UNCHANGED <<runs, replies>>
  BY DEF Reopen
<1>2. ASSUME NEW i \in DOMAIN runs
      PROVE  Reads(runs[i], i, doc') /\ Reads(replies[i], i, doc')
  <2>1. Idle(runs[i]) /\ replies[i] = NoReply /\ Reads(runs[i], i, doc)
    BY <1>1 DEF RunsRead
  <2>2. Reads(NoReply, i, doc')
    BY RestReads DEF NoReply
  <2> QED
    BY <2>1, <2>2 DEF Reads, Idle
<1> QED
  BY <1>1, <1>2 DEF RunsRead

LEMMA InvokeText ==
  ASSUME RunsRead, RunsInv, budget \in Budgets, NEW rev, NEW target \in budget.targets, Invoke(rev, target)
  PROVE  RunsRead'
<1>1. alive /\ UNCHANGED <<doc, alive>>
  BY DEF Invoke
<1>2. CASE UNCHANGED <<runs, replies>>
  BY <1>1, <1>2, RunsReadUnmoved
<1>3. ASSUME NEW attempt, NEW text, NEW draft, NEW placement, NEW answered, NEW lost, NEW at, NEW run,
             run = [pc |-> "reading", rev |-> rev, start |-> target[1], end |-> target[2],
                    attempt |-> attempt, text |-> text, draft |-> draft, placement |-> placement,
                    answered |-> answered, lost |-> lost, at |-> at],
             runs' = Append(runs, run), replies' = Append(replies, NoReply)
      PROVE  RunsRead'
  <2>1. target[1] \in Int /\ target[2] \in Int
    <3>1. budget.targets \subseteq Int \X Int
      BY SuggestionsAssumption
    <3> QED
      BY <3>1
  <2>2. run.pc = "reading" /\ run.start \in Int /\ run.end \in Int
    BY <1>3, <2>1
  <2>3. \A i : Reads(run, i, doc) /\ Reads(NoReply, i, doc)
    BY <2>2, RestReads DEF Reads, NoReply
  <2> PICK n \in Nat : n = Len(runs) /\ DOMAIN runs = 1..n /\ n = Len(replies)
    BY Seqs DEF RunsInv
  <2>4. Longer(runs', runs, run) /\ Longer(replies', replies, NoReply)
    BY <1>3, AppendIs DEF RunsInv
  <2>5. DOMAIN runs' = 1..n + 1
    BY <2>4, Seqs DEF Longer
  <2>6. ASSUME NEW i \in 1..n + 1
        PROVE  Reads(runs'[i], i, doc) /\ Reads(replies'[i], i, doc)
    <3>1. CASE i = n + 1
      BY <2>3, <2>4, <3>1 DEF Longer
    <3>2. CASE i \in 1..n
      BY <2>4, <3>2 DEF Longer, RunsRead
    <3> QED
      BY <3>1, <3>2
  <2> QED
    BY <1>1, <2>5, <2>6 DEF RunsRead
<1>4. \/ UNCHANGED <<runs, replies>>
      \/ /\ runs' = Append(runs, [pc |-> "reading", rev |-> rev, start |-> target[1], end |-> target[2],
                                  attempt |-> 1, text |-> <<>>, draft |-> <<>>, placement |-> "replace",
                                  answered |-> FALSE, lost |-> FALSE, at |-> now])
         /\ replies' = Append(replies, NoReply)
  BY DEF Invoke
<1> QED
  BY <1>2, <1>3, <1>4

LEMMA TextInit ==
  ASSUME Init
  PROVE  TextInv
<1>1. PICK op : op = Insert(<<>>, Seed)
  OBVIOUS
<1>2. PICK r : r = [k |-> "op", op |-> op, by |-> Person, accepts |-> 0]
  OBVIOUS
<1>3. log = <<r>>
  BY <1>1, <1>2 DEF Init, SeedLog
<1>4. r \in {r}
  OBVIOUS
<1>5. IsSeq(log) /\ Len(log) = 1 /\ DOMAIN log = {1} /\ log[1] = r
  BY <1>3, <1>4, OneIsSeq DEF IsSeq
<1>6. LogText
  <2>1. DecInv
    BY DecInit
  <2>2. LogOK(log) /\ 0 \in 0..Len(log) /\ 1 \in 1..Len(log) /\ 1 - 1 = 0
    BY <1>5, <2>1 DEF DecInv
  <2>3. DocOK(States(log)[0]) /\ States(log)[1] = ApplyRecord(States(log)[0], r) /\ RecordOK(States(log)[0], r)
    BY <1>5, <2>2, LogStates
  <2>4. States(log)[0] = Fresh
    BY <1>5, StatesAre
  <2>5. Len(Fresh.text) = 0
    BY DEF Fresh
  <2>6. OpOn(op, Len(Fresh.text), Person)
    BY <1>1, <2>5, SeedIs
  <2>7. RecordText(Fresh, r)
    BY <1>2, <2>6, OpRecord
  <2>8. DocText(States(log)[1])
    BY <2>3, <2>4, <2>7, FreshText, TextGoesOn
  <2>9. \A k \in 0..1 : k = 0 \/ k = 1
    OBVIOUS
  <2> QED
    BY <1>5, <2>4, <2>8, <2>9, FreshText DEF LogText
<1>7. RunsRead
  <2>1. runs = <<>> /\ alive /\ DOMAIN <<>> = {}
    BY DEF Init
  <2> QED
    BY <2>1 DEF RunsRead
<1>8. budget \in Budgets
  BY DEF Init
<1> QED
  BY <1>6, <1>7, <1>8 DEF TextInv

LEMMA BudgetKept ==
  ASSUME [Next]_vars
  PROVE  budget' = budget
<1>1. CASE \E start, end \in 0..Len(doc.text), text \in Typing : Edit(start, end, text)
  BY <1>1 DEF Edit
<1>2. CASE Join \/ Flush \/ Reopen \/ Receive \/ Tick
  BY <1>2 DEF Join, Flush, Reopen, Receive, Tick
<1>3. CASE Fail \/ Crash
  BY <1>3 DEF Fail, Crash, Gone
<1>4. CASE \E i \in DOMAIN view.sugs : HandleResolve(i)
  BY <1>4 DEF HandleResolve
<1>5. CASE \E rev \in 0..Rev, target \in budget.targets : Invoke(rev, target)
  BY <1>5 DEF Invoke
<1>6. CASE \E i \in DOMAIN runs : BeginRead(i) \/ Think(i) \/ Propose(i) \/ EndRun(i) \/ AskFails(i) \/ Release(i)
  BY <1>6 DEF BeginRead, Think, Propose, EndRun, AskFails, Release
<1>7. CASE UNCHANGED vars
  BY <1>7 DEF vars
<1> QED
  BY <1>1, <1>2, <1>3, <1>4, <1>5, <1>6, <1>7 DEF Next

LEMMA TextNext ==
  ASSUME AgreeInv, TextInv, [Next]_vars
  PROVE  TextInv'
<1>0. DecInv /\ RunsInv /\ LogText /\ RunsRead /\ budget \in Budgets
  BY DEF AgreeInv, TextInv
<1> SUFFICES LogText' /\ RunsRead'
  BY <1>0, BudgetKept DEF TextInv
<1>1. ASSUME UNCHANGED log
      PROVE  LogText'
  BY <1>0, <1>1 DEF LogText
<1>2. ASSUME UNCHANGED <<doc, log, runs, replies, alive>>
      PROVE  LogText' /\ RunsRead'
  BY <1>0, <1>1, <1>2, RunsReadUnmoved
<1>3. CASE \E start, end \in 0..Len(doc.text), text \in Typing : Edit(start, end, text)
  BY <1>0, <1>3, EditText
<1>4. CASE Join
  BY <1>2, <1>4 DEF Join
<1>5. CASE Receive
  BY <1>2, <1>5 DEF Receive, session
<1>6. CASE Tick
  BY <1>2, <1>6 DEF Tick, session
<1>7. CASE Flush
  <2>1. UNCHANGED log
    BY <1>7 DEF Flush
  <2> QED
    BY <1>0, <1>1, <1>7, <2>1, FlushText
<1>8. CASE Reopen
  <2>1. UNCHANGED log
    BY <1>8 DEF Reopen
  <2> QED
    BY <1>0, <1>1, <1>8, <2>1, ReopenText
<1>9. CASE Fail
  BY <1>0, <1>9, GoneText, FailText DEF Fail
<1>10. CASE Crash
  BY <1>0, <1>10, GoneText, CrashText DEF Crash
<1>11. CASE \E i \in DOMAIN view.sugs : HandleResolve(i)
  BY <1>0, <1>11, ResolveText
<1>12. ASSUME NEW rev, NEW target \in budget.targets, Invoke(rev, target)
       PROVE  LogText' /\ RunsRead'
  <2>1. UNCHANGED log
    BY <1>12 DEF Invoke
  <2> QED
    BY <1>0, <1>1, <1>12, <2>1, InvokeText
<1>13. ASSUME NEW i \in DOMAIN runs, BeginRead(i)
       PROVE  LogText' /\ RunsRead'
  <2>1. UNCHANGED log
    BY <1>13 DEF BeginRead
  <2> QED
    BY <1>0, <1>1, <1>13, <2>1, ReadText
<1>14. ASSUME NEW i \in DOMAIN runs, Propose(i)
       PROVE  LogText' /\ RunsRead'
  BY <1>0, <1>14, ProposeText
<1>15. ASSUME NEW i \in DOMAIN runs, EndRun(i)
       PROVE  LogText' /\ RunsRead'
  <2>1. UNCHANGED log
    BY <1>15 DEF EndRun
  <2> QED
    BY <1>0, <1>1, <1>15, <2>1, EndText
<1>16. ASSUME NEW i \in DOMAIN runs, Think(i) \/ AskFails(i) \/ Release(i)
       PROVE  LogText' /\ RunsRead'
  <2>1. UNCHANGED log
    BY <1>16 DEF Think, AskFails, Release, session
  <2> QED
    BY <1>0, <1>1, <1>16, <2>1, ThinkText, AskFailsText, ReleaseText
<1>17. CASE UNCHANGED vars
  BY <1>2, <1>17 DEF vars, session
<1> QED
  BY <1>3, <1>4, <1>5, <1>6, <1>7, <1>8, <1>9, <1>10, <1>11, <1>12, <1>13, <1>14, <1>15, <1>16, <1>17 DEF Next

\* A suggestion that can be accepted stands on exactly the text its agent read, its anchors
\* lie in the text, and every character is credited to who wrote it, for any texts, edits,
\* decisions, runs and failures (propose, applyOp: "becomes stale"; applyAttribution).
THEOREM PendingStandsHolds == Spec => []PendingStandsOnWhatWasRead
<1>1. Init => AgreeInv /\ TextInv
  BY DecInit, BudgetInit, ShownInit, TextInit DEF AgreeInv
<1>2. AgreeInv /\ TextInv /\ [Next]_vars => (AgreeInv /\ TextInv)'
  BY AgreeNext, TextNext
<1>3. ASSUME AgreeInv, TextInv
      PROVE  PendingStandsOnWhatWasRead
  <2>1. DecInv /\ RunsInv /\ DocText(doc)
    BY <1>3, DocHasText DEF AgreeInv, TextInv
  <2>2. Credits(doc.text, doc.attr) /\ \A i \in DOMAIN doc.sugs : SugText(doc.text, doc.sugs[i])
    BY <2>1 DEF DocText
  <2>3. DOMAIN doc.text = 1..Len(doc.text)
    BY <2>1, TextSeqs, Seqs
  <2>4. CreditWhereDue /\ Len(doc.attr) = Len(doc.text)
    BY <2>2, <2>3 DEF CreditWhereDue, Credits
  <2>5. durable <= Len(log) /\ Len(replies) = Len(runs)
    <3>1. Len(log) \in Nat
      BY <2>1, LastState DEF DecInv
    <3> QED
      BY <2>1, <3>1 DEF DecInv, RunsInv
  <2>6. ASSUME NEW i \in DOMAIN doc.sugs
        PROVE  /\ doc.sugs[i].status \in {"pending", "stale", "accepted", "rejected", "dismissed"}
               /\ Open(doc.sugs[i]) => RangeIn(doc.sugs[i].start, doc.sugs[i].end, Len(doc.text))
               /\ doc.sugs[i].status = "pending" =>
                    SubSeq(doc.text, doc.sugs[i].start + 1, doc.sugs[i].end) = doc.sugs[i].original
    BY <2>2 DEF SugText
  <2>7. Len(doc.text) \in Nat
    BY <2>1, TextSeqs
  <2>8. ASSUME NEW a, NEW b, RangeIn(a, b, Len(doc.text))
        PROVE  0 <= a /\ a <= b /\ b <= Len(doc.text)
    BY <2>7, <2>8 DEF RangeIn
  <2>9. TypeOK
    BY <2>4, <2>5, <2>6, <2>8 DEF TypeOK
  <2> QED
    BY <2>4, <2>6, <2>9 DEF PendingStandsOnWhatWasRead
<1> QED
  BY <1>1, <1>2, <1>3, PTL DEF Spec
=============================================================================
