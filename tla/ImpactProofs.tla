---------------------------- MODULE ImpactProofs ----------------------------
(***************************************************************************)
(* Impact experiments, proofs: a replay of the log rebuilds what is in     *)
(* memory, with all that was acknowledged, and a conclusion stands; for    *)
(* any batches, windows and sizes, in a process that ends, or is not sure  *)
(* of its last line, only by a crash.                                      *)
(***************************************************************************)
EXTENDS Impact, FiniteSetTheorems, SequenceTheorems, WellFoundedInduction, TLAPS

\* A set of numbers has a least one.
LEMMA Minimum ==
  ASSUME NEW U \in SUBSET Nat, U # {}
  PROVE  \E m \in U : \A k \in U : m <= k
<1>1. PICK m \in U : \A k \in U : ~ (<<k, m>> \in OpToRel(<, Nat))
  BY WFMin, NatLessThanWellFounded
<1>2. \A k \in U : ~(k < m)
  BY <1>1 DEF OpToRel
<1> QED BY <1>2

LEMMA Induction ==
  ASSUME NEW S, NEW n \in Nat, 0 \in S, \A k \in 0..n - 1 : k \in S => k + 1 \in S
  PROVE  \A k \in 0..n : k \in S
<1> DEFINE U == {k \in 0..n : k \notin S}
<1> SUFFICES ASSUME U # {} PROVE FALSE
  OBVIOUS
<1>1. U \in SUBSET Nat
  OBVIOUS
<1>2. PICK m \in U : \A k \in U : m <= k
  BY <1>1, Minimum
<1>3. m \in 1..n /\ m \notin S
  BY <1>2
<1>4. m - 1 \in 0..n - 1 /\ m - 1 \in S
  BY <1>2, <1>3
<1> QED
  BY <1>3, <1>4

-----------------------------------------------------------------------------
(* What a batch and a replay go through: their recursive functions.        *)

BatchGoes(f, n, m, batch, at) ==
  f = [i \in 0..n |-> IF i = 0 THEN m ELSE ApplyEvent(f[i-1], batch[i], at)]

LEMMA BatchGoesOn ==
  ASSUME NEW m, NEW batch, NEW at, NEW n \in Nat
  PROVE  \E f : BatchGoes(f, n, m, batch, at)
<1> DEFINE S == {k \in Nat : \E f : BatchGoes(f, k, m, batch, at)}
<1>1. 0 \in S
  <2> DEFINE f == [i \in 0..0 |-> m]
  <2>1. BatchGoes(f, 0, m, batch, at)
    BY DEF BatchGoes
  <2> QED
    BY <2>1
<1>2. ASSUME NEW k \in 0..n - 1, k \in S
      PROVE  k + 1 \in S
  <2>1. PICK f : BatchGoes(f, k, m, batch, at)
    BY <1>2
  <2> DEFINE g == [i \in 0..k + 1 |-> IF i = k + 1 THEN ApplyEvent(f[k], batch[k + 1], at) ELSE f[i]]
  <2>2. ASSUME NEW i \in 0..k + 1
        PROVE  g[i] = IF i = 0 THEN m ELSE ApplyEvent(g[i-1], batch[i], at)
    <3>1. CASE i = k + 1
      BY <3>1
    <3>2. CASE i \in 0..k
      <4>1. f[i] = IF i = 0 THEN m ELSE ApplyEvent(f[i-1], batch[i], at)
        BY <2>1, <3>2 DEF BatchGoes
      <4>2. g[i] = f[i] /\ (i # 0 => g[i-1] = f[i-1])
        BY <3>2
      <4> QED
        BY <4>1, <4>2
    <3> QED
      BY <3>1, <3>2
  <2>3. BatchGoes(g, k + 1, m, batch, at)
    <3> DEFINE h == [i \in 0..k + 1 |-> IF i = 0 THEN m ELSE ApplyEvent(g[i-1], batch[i], at)]
    <3>1. \A i \in 0..k + 1 : g[i] = h[i]
      BY <2>2
    <3>2. g = h
      BY <3>1
    <3> QED
      BY <3>2 DEF BatchGoes
  <2> QED
    BY <2>3
<1> HIDE DEF S
<1>3. n \in S
  BY <1>1, <1>2, Induction
<1> QED
  BY <1>3 DEF S

LEMMA BatchIs ==
  ASSUME NEW m, NEW batch, NEW at, Len(batch) \in Nat
  PROVE  \E f : /\ f[0] = m /\ ApplyBatch(m, batch, at) = f[Len(batch)]
                /\ \A i \in 1..Len(batch) : f[i] = ApplyEvent(f[i-1], batch[i], at)
<1> DEFINE f == CHOOSE g : BatchGoes(g, Len(batch), m, batch, at)
<1>1. BatchGoes(f, Len(batch), m, batch, at)
  BY BatchGoesOn
<1>2. ApplyBatch(m, batch, at) = f[Len(batch)]
  BY DEF ApplyBatch, BatchGoes
<1> HIDE DEF f
<1>3. f[0] = m /\ \A i \in 1..Len(batch) : f[i] = ApplyEvent(f[i-1], batch[i], at)
  BY <1>1 DEF BatchGoes
<1> QED
  BY <1>2, <1>3

LogGoes(f, n, lines) ==
  f = [i \in 0..n |-> IF i = 0 THEN Blank ELSE ApplyLine(f[i-1], lines[i])]

LEMMA LogGoesOn ==
  ASSUME NEW lines, NEW n \in Nat
  PROVE  \E f : LogGoes(f, n, lines)
<1> DEFINE S == {k \in Nat : \E f : LogGoes(f, k, lines)}
<1>1. 0 \in S
  <2> DEFINE f == [i \in 0..0 |-> Blank]
  <2>1. LogGoes(f, 0, lines)
    BY DEF LogGoes
  <2> QED
    BY <2>1
<1>2. ASSUME NEW k \in 0..n - 1, k \in S
      PROVE  k + 1 \in S
  <2>1. PICK f : LogGoes(f, k, lines)
    BY <1>2
  <2> DEFINE g == [i \in 0..k + 1 |-> IF i = k + 1 THEN ApplyLine(f[k], lines[k + 1]) ELSE f[i]]
  <2>2. ASSUME NEW i \in 0..k + 1
        PROVE  g[i] = IF i = 0 THEN Blank ELSE ApplyLine(g[i-1], lines[i])
    <3>1. CASE i = k + 1
      BY <3>1
    <3>2. CASE i \in 0..k
      <4>1. f[i] = IF i = 0 THEN Blank ELSE ApplyLine(f[i-1], lines[i])
        BY <2>1, <3>2 DEF LogGoes
      <4>2. g[i] = f[i] /\ (i # 0 => g[i-1] = f[i-1])
        BY <3>2
      <4> QED
        BY <4>1, <4>2
    <3> QED
      BY <3>1, <3>2
  <2>3. LogGoes(g, k + 1, lines)
    <3> DEFINE h == [i \in 0..k + 1 |-> IF i = 0 THEN Blank ELSE ApplyLine(g[i-1], lines[i])]
    <3>1. \A i \in 0..k + 1 : g[i] = h[i]
      BY <2>2
    <3>2. g = h
      BY <3>1
    <3> QED
      BY <3>2 DEF LogGoes
  <2> QED
    BY <2>3
<1> HIDE DEF S
<1>3. n \in S
  BY <1>1, <1>2, Induction
<1> QED
  BY <1>3 DEF S

\* The states a log without an incomplete line goes through.
Goes(f, lines) ==
  f[0] = Blank /\ \A i \in 1..Len(lines) : f[i] = ApplyLine(f[i-1], lines[i])

LEMMA ReplayIs ==
  ASSUME NEW w, Len(Lines(w)) \in Nat
  PROVE  \E f : Goes(f, Lines(w)) /\ Replay(w) = f[Len(Lines(w))]
<1> DEFINE f == CHOOSE g : LogGoes(g, Len(Lines(w)), Lines(w))
<1>1. LogGoes(f, Len(Lines(w)), Lines(w))
  BY LogGoesOn
<1>2. Replay(w) = f[Len(Lines(w))]
  BY DEF Replay, LogGoes
<1> HIDE DEF f
<1> PICK n \in Nat : n = Len(Lines(w))
  OBVIOUS
<1>3. \A i \in 0..n : f[i] = IF i = 0 THEN Blank ELSE ApplyLine(f[i-1], Lines(w)[i])
  BY <1>1 DEF LogGoes
<1>4. f[0] = Blank /\ \A i \in 1..n : f[i] = ApplyLine(f[i-1], Lines(w)[i])
  BY <1>3
<1> QED
  BY <1>2, <1>4 DEF Goes

\* The next state depends on the one before and the next line only.
LEMMA GoesAlike ==
  ASSUME NEW a, NEW b, NEW f, NEW g, Goes(f, a), Goes(g, b), Len(a) \in Nat, Len(b) \in Nat, Len(a) <= Len(b),
         \A i \in 1..Len(a) : a[i] = b[i]
  PROVE  f[Len(a)] = g[Len(a)]
<1> DEFINE S == {i \in 0..Len(a) : f[i] = g[i]}
<1>1. 0 \in S
  BY DEF Goes
<1>2. ASSUME NEW k \in 0..Len(a) - 1, k \in S
      PROVE  k + 1 \in S
  <2>1. k + 1 \in 1..Len(a) /\ k + 1 \in 1..Len(b) /\ (k + 1) - 1 = k
    OBVIOUS
  <2>2. f[k + 1] = ApplyLine(f[k], a[k + 1]) /\ g[k + 1] = ApplyLine(g[k], b[k + 1])
    BY <2>1 DEF Goes
  <2> QED
    BY <1>2, <2>1, <2>2
<1> HIDE DEF S
<1> PICK n \in Nat : n = Len(a)
  OBVIOUS
<1>3. \A k \in 0..n - 1 : k \in S => k + 1 \in S
  BY <1>2
<1>4. \A k \in 0..n : k \in S
  BY <1>1, <1>3, Induction
<1>5. n \in S
  BY <1>4
<1> QED
  BY <1>5 DEF S
-----------------------------------------------------------------------------
(* The log.                                                                *)

IsSeq(s) == \E S : s \in Seq(S)

LEMMA Seqs ==
  ASSUME NEW s, IsSeq(s)
  PROVE  Len(s) \in Nat /\ DOMAIN s = 1..Len(s)
BY DEF IsSeq

LineOK(l) == l.kind = "experiment" \/ (l.kind = "events" /\ l.events \in Batches)

\* A log of whole lines.
Whole(w) == IsSeq(w) /\ \A i \in DOMAIN w : LineOK(w[i])

LEMMA WholeLines ==
  ASSUME NEW w, Whole(w)
  PROVE  Lines(w) = w /\ \A i \in DOMAIN w : w[i] # Torn /\ w[i] # Garbage
<1>1. \A i \in DOMAIN w : w[i] # Torn /\ w[i] # Garbage
  BY DEF Whole, LineOK, Torn, Garbage
<1>2. w # <<>> => Len(w) \in DOMAIN w
  BY DEF Whole, IsSeq
<1> QED
  BY <1>1, <1>2 DEF Lines

LEMMA TornLines ==
  ASSUME NEW w, Whole(w)
  PROVE  Lines(Append(w, Torn)) = w
<1>1. PICK S : w \in Seq(S)
  BY DEF Whole, IsSeq
<1> PICK torn : torn = Torn
  OBVIOUS
<1> DEFINE a == Append(w, torn)
<1>2. /\ a # <<>> /\ Len(a) = Len(w) + 1 /\ a[Len(w) + 1] = torn /\ a \in Seq(S \cup {torn}) /\ Len(w) \in Nat
      /\ \A i \in 1..Len(w) : a[i] = w[i]
  BY <1>1
<1> HIDE DEF a
<1>3. Lines(a) = SubSeq(a, 1, Len(w))
  BY <1>2 DEF Lines
<1>4. SubSeq(a, 1, Len(w)) = w
  <2>1. SubSeq(a, 1, Len(w)) \in Seq(S \cup {torn}) /\ Len(SubSeq(a, 1, Len(w))) = Len(w)
        /\ \A i \in 1..Len(w) : SubSeq(a, 1, Len(w))[i] = w[i]
    BY <1>2
  <2> QED
    BY <1>1, <2>1
<1> QED
  BY <1>3, <1>4 DEF a

LEMMA AppendWhole ==
  ASSUME NEW w, Whole(w), NEW l, LineOK(l)
  PROVE  /\ Whole(Append(w, l)) /\ Len(Append(w, l)) = Len(w) + 1 /\ Append(w, l)[Len(w) + 1] = l
         /\ \A i \in 1..Len(w) : Append(w, l)[i] = w[i]
<1>1. PICK S : w \in Seq(S)
  BY DEF Whole, IsSeq
<1> DEFINE a == Append(w, l)
<1>2. a \in Seq(S \cup {l}) /\ Len(a) = Len(w) + 1 /\ a[Len(w) + 1] = l /\ \A i \in 1..Len(w) : a[i] = w[i]
  BY <1>1
<1>3. DOMAIN a = 1..Len(w) + 1 /\ DOMAIN w = 1..Len(w) /\ Len(w) \in Nat
  BY <1>1, <1>2
<1> HIDE DEF a
<1>4. \A i \in DOMAIN a : LineOK(a[i])
  BY <1>2, <1>3 DEF Whole
<1> QED
  BY <1>2, <1>4 DEF Whole, IsSeq, a

\* A line more is one step more.
LEMMA ReplayAppend ==
  ASSUME NEW w, Whole(w), NEW l, LineOK(l)
  PROVE  Replay(Append(w, l)) = ApplyLine(Replay(w), l)
<1> DEFINE a == Append(w, l)
<1>1. /\ Whole(a) /\ Len(a) = Len(w) + 1 /\ a[Len(w) + 1] = l
      /\ \A i \in 1..Len(w) : a[i] = w[i]
  BY AppendWhole
<1> HIDE DEF a
<1>2. Lines(a) = a /\ Lines(w) = w /\ Len(w) \in Nat /\ Len(a) \in Nat
  BY <1>1, WholeLines, Seqs DEF Whole
<1>3. PICK f : Goes(f, w) /\ Replay(w) = f[Len(w)]
  BY <1>2, ReplayIs
<1>4. PICK g : Goes(g, a) /\ Replay(a) = g[Len(a)]
  BY <1>2, ReplayIs
<1>5. f[Len(w)] = g[Len(w)]
  BY <1>1, <1>2, <1>3, <1>4, GoesAlike
<1>6. Len(w) + 1 \in 1..Len(a) /\ (Len(w) + 1) - 1 = Len(w)
  BY <1>1, <1>2
<1>7. g[Len(w) + 1] = ApplyLine(g[Len(w)], a[Len(w) + 1])
  BY <1>4, <1>6 DEF Goes
<1> QED
  BY <1>1, <1>3, <1>4, <1>5, <1>7 DEF a

LEMMA ReplayEmpty == Whole(<<>>) /\ Replay(<<>>) = Blank
<1>1. Whole(<<>>) /\ Len(<<>>) = 0
  BY DEF Whole, IsSeq
<1>2. Lines(<<>>) = <<>>
  BY <1>1, WholeLines
<1>3. PICK f : Goes(f, <<>>) /\ Replay(<<>>) = f[0]
  BY <1>1, <1>2, ReplayIs
<1> QED
  BY <1>1, <1>3 DEF Goes

LEMMA ReplayTorn ==
  ASSUME NEW w, Whole(w)
  PROVE  Replay(Append(w, Torn)) = Replay(w)
<1> PICK a : a = Append(w, Torn)
  OBVIOUS
<1>1. Lines(a) = w /\ Lines(w) = w /\ Len(w) \in Nat
  BY TornLines, WholeLines, Seqs DEF Whole
<1>2. PICK f : Goes(f, w) /\ Replay(w) = f[Len(w)]
  BY <1>1, ReplayIs
<1>3. PICK g : Goes(g, w) /\ Replay(a) = g[Len(w)]
  BY <1>1, ReplayIs
<1> QED
  BY <1>1, <1>2, <1>3, GoesAlike
-----------------------------------------------------------------------------
(* The aggregate.                                                          *)

\* Subjects of an arm that are counted, and those of them that are converted.
Exposed(subjects, a) == {s \in DOMAIN subjects : ArmOf[s] = a /\ subjects[s].exposed}
Converted(subjects, a) == {s \in DOMAIN subjects : ArmOf[s] = a /\ subjects[s].converted}

Subject(x) ==
  /\ x = [exposures |-> x.exposures, outcomes |-> x.outcomes, latest |-> x.latest,
          exposed |-> x.exposed, converted |-> x.converted]
  /\ x.exposed \in BOOLEAN /\ x.converted \in BOOLEAN /\ (x.converted => x.exposed)

SubjectsOK(subjects) ==
  /\ IsFiniteSet(DOMAIN subjects) /\ DOMAIN subjects \subseteq DOMAIN ArmOf
  /\ \A s \in DOMAIN subjects : ArmOf[s] \in Arms /\ Subject(subjects[s])

\* What is counted without a subject in memory: those who expired.  No more of them are
\* converted than exposed.
Sums(sum, subjects) ==
  /\ sum \in [Arms -> [n : Int, y : Int]]
  /\ \A a \in Arms :
       LET n == sum[a].n - Cardinality(Exposed(subjects, a))
           y == sum[a].y - Cardinality(Converted(subjects, a))
       IN  0 <= y /\ y <= n

LEMMA SumsBound ==
  ASSUME NEW sum, NEW subjects, SubjectsOK(subjects), Sums(sum, subjects), NEW a \in Arms
  PROVE  0 <= sum[a].y /\ sum[a].y <= sum[a].n
<1> PICK e, c : e = Exposed(subjects, a) /\ c = Converted(subjects, a)
  OBVIOUS
<1>1. c \subseteq e /\ e \subseteq DOMAIN subjects
  BY DEF SubjectsOK, Subject, Exposed, Converted
<1>2. IsFiniteSet(e) /\ IsFiniteSet(c)
  BY <1>1, FS_Subset DEF SubjectsOK
<1>3. Cardinality(c) \in Nat /\ Cardinality(e) \in Nat /\ Cardinality(c) <= Cardinality(e)
  BY <1>1, <1>2, FS_Subset, FS_CardinalityType
<1>4. sum[a].n \in Int /\ sum[a].y \in Int
  BY DEF Sums
<1>5. 0 <= sum[a].y - Cardinality(c) /\ sum[a].y - Cardinality(c) <= sum[a].n - Cardinality(e)
  BY DEF Sums
<1> QED
  BY <1>3, <1>4, <1>5

\* What a contribution adds to its arm, or takes from it.
Adds(counted, sum, arm, x, by) ==
  /\ counted \in [Arms -> [n : Int, y : Int]]
  /\ \A a \in Arms : a # arm => counted[a] = sum[a]
  /\ counted[arm].n = sum[arm].n + (IF x.exposed THEN by ELSE 0)
  /\ counted[arm].y = sum[arm].y + (IF x.converted THEN by ELSE 0)

LEMMA CountedIs ==
  ASSUME NEW sum \in [Arms -> [n : Int, y : Int]], NEW arm \in Arms, NEW x, Subject(x), NEW by \in Int
  PROVE  Adds(Counted(sum, arm, x, by), sum, arm, x, by)
<1> PICK n \in Int, y \in Int : sum[arm] = [n |-> n, y |-> y]
  OBVIOUS
<1>1. CASE ~x.exposed
  <2>1. ~x.converted
    BY <1>1 DEF Subject
  <2> QED
    BY <1>1, <2>1 DEF Counted, Adds
<1>2. CASE x.exposed
  <2> PICK d \in Int : d = IF x.converted THEN y + by ELSE y
    OBVIOUS
  <2>1. Counted(sum, arm, x, by) = [sum EXCEPT ![arm] = [n |-> n + by, y |-> d]]
    BY <1>2 DEF Counted
  <2>2. d = y + (IF x.converted THEN by ELSE 0)
    OBVIOUS
  <2> QED
    BY <1>2, <2>1, <2>2 DEF Adds
<1> QED
  BY <1>1, <1>2

LEMMA WithoutOne ==
  ASSUME NEW S, IsFiniteSet(S), NEW s
  PROVE  /\ Cardinality(S) = Cardinality(S \ {s}) + (IF s \in S THEN 1 ELSE 0)
         /\ Cardinality(S \ {s}) \in Nat
<1>1. IsFiniteSet(S \ {s}) /\ Cardinality(S) \in Nat /\ Cardinality(S \ {s}) \in Nat
  BY FS_RemoveElement, FS_CardinalityType
<1>2. Cardinality(S \ {s}) = IF s \in S THEN Cardinality(S) - 1 ELSE Cardinality(S)
  BY FS_RemoveElement
<1> QED
  BY <1>1, <1>2

LEMMA CountsAreFinite ==
  ASSUME NEW subjects, SubjectsOK(subjects), NEW a
  PROVE  IsFiniteSet(Exposed(subjects, a)) /\ IsFiniteSet(Converted(subjects, a))
BY FS_Subset DEF SubjectsOK, Exposed, Converted

With(subjects, s, new) == [u \in DOMAIN subjects \union {s} |-> IF u = s THEN new ELSE subjects[u]]

\* A subject changes: its old contribution is taken out and its new one put in.
LEMMA SumsChange ==
  ASSUME NEW sum, NEW subjects, SubjectsOK(subjects), Sums(sum, subjects),
         NEW s \in DOMAIN ArmOf, ArmOf[s] \in Arms, NEW old, NEW new, Subject(old), Subject(new),
         s \in DOMAIN subjects => old = subjects[s],
         s \notin DOMAIN subjects => ~old.exposed
  PROVE  /\ SubjectsOK(With(subjects, s, new))
         /\ Sums(Counted(Counted(sum, ArmOf[s], old, -1), ArmOf[s], new, 1), With(subjects, s, new))
<1> PICK changed : changed = With(subjects, s, new)
  OBVIOUS
<1> PICK arm \in Arms : arm = ArmOf[s]
  OBVIOUS
<1>1. DOMAIN changed = DOMAIN subjects \union {s} /\ changed[s] = new
      /\ \A u \in DOMAIN subjects : u # s => changed[u] = subjects[u]
  BY DEF With
<1>2. SubjectsOK(changed)
  <2>1. IsFiniteSet(DOMAIN changed)
    BY <1>1, FS_AddElement DEF SubjectsOK
  <2>2. DOMAIN changed \subseteq DOMAIN ArmOf
    BY <1>1 DEF SubjectsOK
  <2>3. ASSUME NEW u \in DOMAIN changed
        PROVE  ArmOf[u] \in Arms /\ Subject(changed[u])
    BY <1>1 DEF SubjectsOK
  <2> QED
    BY <2>1, <2>2, <2>3 DEF SubjectsOK
<1>3. sum \in [Arms -> [n : Int, y : Int]]
  BY DEF Sums
<1>4. -1 \in Int /\ Subject(old) /\ Subject(new)
  OBVIOUS
<1> PICK out : out = Counted(sum, arm, old, -1)
  OBVIOUS
<1>5. /\ out \in [Arms -> [n : Int, y : Int]] /\ \A a \in Arms : a # arm => out[a] = sum[a]
      /\ out[arm].n = sum[arm].n + (IF old.exposed THEN -1 ELSE 0)
      /\ out[arm].y = sum[arm].y + (IF old.converted THEN -1 ELSE 0)
  <2>1. Adds(out, sum, arm, old, -1)
    BY <1>3, <1>4, CountedIs
  <2> QED
    BY <2>1 DEF Adds
<1> PICK in : in = Counted(out, arm, new, 1)
  OBVIOUS
<1>6. /\ in \in [Arms -> [n : Int, y : Int]] /\ \A a \in Arms : a # arm => in[a] = out[a]
      /\ in[arm].n = out[arm].n + (IF new.exposed THEN 1 ELSE 0)
      /\ in[arm].y = out[arm].y + (IF new.converted THEN 1 ELSE 0)
  <2>1. 1 \in Int
    OBVIOUS
  <2>2. Adds(in, out, arm, new, 1)
    BY <1>5, <1>4, <2>1, CountedIs
  <2> QED
    BY <2>2 DEF Adds
<1>7. ASSUME NEW a \in Arms, a # arm
      PROVE  Exposed(changed, a) = Exposed(subjects, a) /\ Converted(changed, a) = Converted(subjects, a)
  BY <1>1, <1>7 DEF Exposed, Converted
<1>8. /\ Exposed(changed, arm) \ {s} = Exposed(subjects, arm) \ {s}
      /\ Converted(changed, arm) \ {s} = Converted(subjects, arm) \ {s}
  BY <1>1 DEF Exposed, Converted
<1>9. /\ s \in Exposed(subjects, arm) <=> old.exposed
      /\ s \in Converted(subjects, arm) <=> old.converted
      /\ s \in Exposed(changed, arm) <=> new.exposed
      /\ s \in Converted(changed, arm) <=> new.converted
  BY <1>1 DEF Exposed, Converted, Subject
<1> PICK E, C, E2, C2 : /\ E = Exposed(subjects, arm) /\ C = Converted(subjects, arm)
                        /\ E2 = Exposed(changed, arm) /\ C2 = Converted(changed, arm)
  OBVIOUS
<1> PICK e, c, e2, c2 : /\ e = Cardinality(E) /\ c = Cardinality(C)
                        /\ e2 = Cardinality(E2) /\ c2 = Cardinality(C2)
  OBVIOUS
<1>10. IsFiniteSet(E) /\ IsFiniteSet(C)
  BY CountsAreFinite
<1>11. IsFiniteSet(E2) /\ IsFiniteSet(C2)
  BY <1>2, CountsAreFinite
<1>12. /\ e \in Nat /\ e2 \in Nat
      /\ e2 - (IF new.exposed THEN 1 ELSE 0) = e - (IF old.exposed THEN 1 ELSE 0)
  <2>1. E \ {s} = E2 \ {s}
    BY <1>8
  <2>2. (s \in E <=> old.exposed) /\ (s \in E2 <=> new.exposed)
    BY <1>8, <1>9
  <2>3. IsFiniteSet(E) /\ IsFiniteSet(E2)
    BY <1>10, <1>11
  <2>4. /\ Cardinality(E) = Cardinality(E \ {s}) + (IF s \in E THEN 1 ELSE 0)
        /\ Cardinality(E \ {s}) \in Nat
    BY <2>3, WithoutOne
  <2>5. /\ Cardinality(E2) = Cardinality(E2 \ {s}) + (IF s \in E2 THEN 1 ELSE 0)
        /\ Cardinality(E2 \ {s}) \in Nat
    BY <2>3, WithoutOne
  <2> PICK k \in Nat : k = Cardinality(E \ {s}) /\ k = Cardinality(E2 \ {s})
    BY <2>1, <2>4
  <2>6. /\ e \in Nat /\ e2 \in Nat
        /\ e2 - (IF s \in E2 THEN 1 ELSE 0) = e - (IF s \in E THEN 1 ELSE 0)
    BY <2>4, <2>5
  <2>7. (IF s \in E2 THEN 1 ELSE 0) = (IF new.exposed THEN 1 ELSE 0)
    BY <2>2
  <2>8. (IF s \in E THEN 1 ELSE 0) = (IF old.exposed THEN 1 ELSE 0)
    BY <2>2
  <2> QED
    BY <2>6, <2>7, <2>8
<1>13. /\ c \in Nat /\ c2 \in Nat
       /\ c2 - (IF new.converted THEN 1 ELSE 0) = c - (IF old.converted THEN 1 ELSE 0)
  <2>1. C \ {s} = C2 \ {s}
    BY <1>8
  <2>2. (s \in C <=> old.converted) /\ (s \in C2 <=> new.converted)
    BY <1>8, <1>9
  <2>3. IsFiniteSet(C) /\ IsFiniteSet(C2)
    BY <1>10, <1>11
  <2>4. /\ Cardinality(C) = Cardinality(C \ {s}) + (IF s \in C THEN 1 ELSE 0)
        /\ Cardinality(C \ {s}) \in Nat
    BY <2>3, WithoutOne
  <2>5. /\ Cardinality(C2) = Cardinality(C2 \ {s}) + (IF s \in C2 THEN 1 ELSE 0)
        /\ Cardinality(C2 \ {s}) \in Nat
    BY <2>3, WithoutOne
  <2> PICK k \in Nat : k = Cardinality(C \ {s}) /\ k = Cardinality(C2 \ {s})
    BY <2>1, <2>4
  <2>6. /\ c \in Nat /\ c2 \in Nat
        /\ c2 - (IF s \in C2 THEN 1 ELSE 0) = c - (IF s \in C THEN 1 ELSE 0)
    BY <2>4, <2>5
  <2>7. (IF s \in C2 THEN 1 ELSE 0) = (IF new.converted THEN 1 ELSE 0)
    BY <2>2
  <2>8. (IF s \in C THEN 1 ELSE 0) = (IF old.converted THEN 1 ELSE 0)
    BY <2>2
  <2> QED
    BY <2>6, <2>7, <2>8
<1>14. sum[arm].n \in Int /\ sum[arm].y \in Int /\ 0 <= sum[arm].y - c /\ sum[arm].y - c <= sum[arm].n - e
  BY DEF Sums
<1>15. 0 <= in[arm].y - c2 /\ in[arm].y - c2 <= in[arm].n - e2
  BY <1>5, <1>6, <1>12, <1>13, <1>14
<1>16. ASSUME NEW a \in Arms
       PROVE  LET n == in[a].n - Cardinality(Exposed(changed, a))
                  y == in[a].y - Cardinality(Converted(changed, a))
              IN  0 <= y /\ y <= n
  <2>1. CASE a = arm
    BY <1>15, <2>1
  <2>2. CASE a # arm
    BY <1>5, <1>6, <1>7, <2>2 DEF Sums
  <2> QED
    BY <2>1, <2>2
<1>17. Sums(in, changed)
  BY <1>6, <1>16 DEF Sums
<1> QED
  BY <1>2, <1>17

\* Subjects go: what is counted of them stays counted.
LEMMA SumsShrink ==
  ASSUME NEW sum, NEW subjects, SubjectsOK(subjects), Sums(sum, subjects),
         NEW out, NEW left, left = [s \in DOMAIN subjects \ out |-> subjects[s]]
  PROVE  SubjectsOK(left) /\ Sums(sum, left)
<1>1. DOMAIN left = DOMAIN subjects \ out /\ \A s \in DOMAIN left : left[s] = subjects[s]
  OBVIOUS
<1>2. SubjectsOK(left)
  <2>1. IsFiniteSet(DOMAIN left)
    BY <1>1, FS_Subset DEF SubjectsOK
  <2> QED
    BY <1>1, <2>1 DEF SubjectsOK
<1>3. ASSUME NEW a \in Arms
      PROVE  LET n == sum[a].n - Cardinality(Exposed(left, a))
                 y == sum[a].y - Cardinality(Converted(left, a))
             IN  0 <= y /\ y <= n
  <2> PICK e, c, e2, c2 : /\ e = Exposed(subjects, a) /\ c = Converted(subjects, a)
                          /\ e2 = Exposed(left, a) /\ c2 = Converted(left, a)
    OBVIOUS
  <2>1. e2 = e \ out /\ c2 = c \ out /\ c \subseteq e
    BY <1>1 DEF Exposed, Converted, SubjectsOK, Subject
  <2>2. IsFiniteSet(e) /\ IsFiniteSet(c) /\ IsFiniteSet(e2) /\ IsFiniteSet(c2)
    BY <1>2, CountsAreFinite
  <2>3. /\ Cardinality(e2) = Cardinality(e) - Cardinality(e \cap out)
        /\ Cardinality(c2) = Cardinality(c) - Cardinality(c \cap out)
    BY <2>1, <2>2, FS_Difference
  <2>4. IsFiniteSet(e \cap out) /\ c \cap out \subseteq e \cap out
    BY <2>1, <2>2, FS_Subset
  <2>5. IsFiniteSet(c \cap out) /\ Cardinality(c \cap out) <= Cardinality(e \cap out)
    BY <2>4, FS_Subset
  <2>6. /\ Cardinality(e \cap out) \in Nat /\ Cardinality(c \cap out) \in Nat
        /\ Cardinality(e) \in Nat /\ Cardinality(c) \in Nat
    BY <2>2, <2>4, <2>5, FS_CardinalityType
  <2>7. /\ sum[a].n \in Int /\ sum[a].y \in Int
        /\ 0 <= sum[a].y - Cardinality(c) /\ sum[a].y - Cardinality(c) <= sum[a].n - Cardinality(e)
    BY DEF Sums
  <2>8. 0 <= sum[a].y - Cardinality(c2) /\ sum[a].y - Cardinality(c2) <= sum[a].n - Cardinality(e2)
    BY <2>3, <2>5, <2>6, <2>7
  <2> QED
    BY <2>8
<1> QED
  BY <1>2, <1>3 DEF Sums
-----------------------------------------------------------------------------
(* One event, and a batch.                                                 *)

Fields(m) ==
  m = [status |-> m.status, seen |-> m.seen, subjects |-> m.subjects, sum |-> m.sum, received |-> m.received,
       accepted |-> m.accepted, duplicates |-> m.duplicates, rejected |-> m.rejected, late |-> m.late,
       unmatched |-> m.unmatched, top |-> m.top, arrival |-> m.arrival, lags |-> m.lags, history |-> m.history]

\* The counters, but for that many events that were received and have no verdict yet.
Counters(m, due) ==
  /\ m.accepted \in Nat /\ m.duplicates \in Nat /\ m.rejected \in Nat /\ m.late \in Nat
  /\ m.received = m.accepted + m.duplicates + m.rejected + m.late + due

Bounded(seq, n) == IsSeq(seq) /\ Len(seq) <= n

SoundBut(m, due) ==
  /\ Fields(m) /\ Counters(m, due)
  /\ Bounded(m.history, MaxHistory) /\ Bounded(m.lags, MaxLags)
  /\ SubjectsOK(m.subjects) /\ Sums(m.sum, m.subjects)

Sound(m) == SoundBut(m, 0)

LEMMA LastOfIs ==
  ASSUME NEW seq, IsSeq(seq), NEW x, NEW n \in Nat
  PROVE  Bounded(LastOf(Append(seq, x), n), n)
<1>1. PICK S : seq \in Seq(S)
  BY DEF IsSeq
<1> PICK a : a = Append(seq, x)
  OBVIOUS
<1>2. a \in Seq(S \union {x})
  BY <1>1
<1>3. CASE Len(a) > n
  <2> PICK k : k = Len(a) - n + 1
    OBVIOUS
  <2>1. Len(a) \in Nat /\ k \in 1..Len(a) + 1 /\ Len(a) \in k - 1..Len(a) /\ Len(a) - k + 1 = n
    BY <1>2, <1>3
  <2> PICK z : z = SubSeq(a, k, Len(a))
    OBVIOUS
  <2>2. z \in Seq(S \union {x}) /\ Len(z) = n
    BY <1>2, <2>1, SubSeqProperties
  <2>3. LastOf(a, n) = z
    BY <1>3 DEF LastOf
  <2>4. IsSeq(z)
    BY <2>2 DEF IsSeq
  <2>5. Len(z) <= n
    BY <2>2
  <2>6. Bounded(z, n)
    BY <2>4, <2>5 DEF Bounded
  <2> QED
    BY <2>3, <2>6
<1>4. CASE ~(Len(a) > n)
  <2>1. Len(a) \in Nat
    BY <1>2
  <2> QED
    BY <1>2, <1>4, <2>1 DEF Bounded, IsSeq, LastOf
<1> QED
  BY <1>3, <1>4

LEMMA ExpireSound ==
  ASSUME NEW m, Sound(m)
  PROVE  /\ Sound(ExpireSubjects(m))
         /\ ExpireSubjects(m).seen = m.seen /\ ExpireSubjects(m).status = m.status
<1> PICK out : out = Expired(m)
  OBVIOUS
<1> PICK left : left = [s \in DOMAIN m.subjects \ out |-> m.subjects[s]]
  OBVIOUS
<1> PICK lost : lost = Unmatched(m, {s \in out : m.subjects[s].exposures = <<>>})
  OBVIOUS
<1> PICK x : x = ExpireSubjects(m)
  OBVIOUS
<1>1. x = [m EXCEPT !.subjects = left, !.unmatched = lost]
  BY DEF ExpireSubjects
<1>2. x = [status |-> m.status, seen |-> m.seen, subjects |-> left, sum |-> m.sum, received |-> m.received,
           accepted |-> m.accepted, duplicates |-> m.duplicates, rejected |-> m.rejected, late |-> m.late,
           unmatched |-> lost, top |-> m.top, arrival |-> m.arrival, lags |-> m.lags, history |-> m.history]
  BY <1>1 DEF Sound, SoundBut, Fields
<1>3. SubjectsOK(left) /\ Sums(m.sum, left)
  BY SumsShrink DEF Sound, SoundBut
<1>4. Counters(x, 0)
  BY <1>2 DEF Sound, SoundBut, Counters
<1>5. Fields(x)
  BY <1>2 DEF Fields
<1> QED
  BY <1>2, <1>3, <1>4, <1>5 DEF Sound, SoundBut

LEMMA AfterSound ==
  ASSUME NEW m, Sound(m)
  PROVE  /\ Sound(AfterAccepting(m))
         /\ AfterAccepting(m).seen = m.seen /\ AfterAccepting(m).status = m.status
<1> PICK h : h = LastOf(Append(m.history, [at |-> m.top, sum |-> m.sum]), MaxHistory)
  OBVIOUS
<1> PICK x : x = [m EXCEPT !.history = h]
  OBVIOUS
<1>1. x = [status |-> m.status, seen |-> m.seen, subjects |-> m.subjects, sum |-> m.sum, received |-> m.received,
           accepted |-> m.accepted, duplicates |-> m.duplicates, rejected |-> m.rejected, late |-> m.late,
           unmatched |-> m.unmatched, top |-> m.top, arrival |-> m.arrival, lags |-> m.lags, history |-> h]
  BY DEF Sound, SoundBut, Fields
<1>2. Bounded(h, MaxHistory)
  BY LastOfIs, ImpactAssumption DEF Sound, SoundBut, Bounded
<1>3. Fields(x) /\ Counters(x, 0)
  BY <1>1 DEF Fields, Sound, SoundBut, Counters
<1>4. Sound(x) /\ x.seen = m.seen /\ x.status = m.status
  BY <1>1, <1>2, <1>3 DEF Sound, SoundBut
<1> PICK kept : kept = IF m.accepted % SnapshotEvery = 0 THEN x ELSE m
  OBVIOUS
<1>5. Sound(kept) /\ kept.seen = m.seen /\ kept.status = m.status
  BY <1>4
<1>6. AfterAccepting(m) = IF m.accepted % ExpireEvery = 0 THEN ExpireSubjects(kept) ELSE kept
  BY DEF AfterAccepting
<1> QED
  BY <1>5, <1>6, ExpireSound

Flagged(y, p, q) == [y EXCEPT !.exposed = p, !.converted = q]

LEMMA FlaggedIs ==
  ASSUME NEW y, NEW i, NEW o, NEW l, NEW a, NEW b, NEW p, NEW q,
         y = [exposures |-> i, outcomes |-> o, latest |-> l, exposed |-> a, converted |-> b]
  PROVE  Flagged(y, p, q) = [exposures |-> i, outcomes |-> o, latest |-> l, exposed |-> p, converted |-> q]
<1> PICK z : z = Flagged(y, p, q)
  OBVIOUS
<1>1. z = [exposures |-> i, outcomes |-> o, latest |-> l, exposed |-> p, converted |-> q]
  BY DEF Flagged
<1> QED
  BY <1>1

LEMMA ContributionIs ==
  ASSUME NEW y, NEW i, NEW o, NEW l, NEW a, NEW b,
         y = [exposures |-> i, outcomes |-> o, latest |-> l, exposed |-> a, converted |-> b]
  PROVE  Subject(Contribution(y))
<1>1. ASSUME NEW p, NEW q
      PROVE  Flagged(y, p, q) = [exposures |-> i, outcomes |-> o, latest |-> l, exposed |-> p, converted |-> q]
  BY FlaggedIs
<1> PICK p \in BOOLEAN, q \in BOOLEAN : p = (i # <<>>) /\ q = (i # <<>> /\ Attributed(i, o))
  OBVIOUS
<1>2. Contribution(y) = Flagged(y, p, q)
  BY DEF Contribution, Flagged
<1> PICK c : c = Contribution(y)
  OBVIOUS
<1>3. c = [exposures |-> i, outcomes |-> o, latest |-> l, exposed |-> p, converted |-> q]
  BY <1>1, <1>2, Zenon
<1>4. c.exposed = p /\ c.converted = q
  BY <1>3
<1>5. q => p
  OBVIOUS
<1>6. c.exposed \in BOOLEAN /\ c.converted \in BOOLEAN /\ (c.converted => c.exposed)
  BY <1>4, <1>5, Zenon
<1>7. c = [exposures |-> c.exposures, outcomes |-> c.outcomes, latest |-> c.latest,
           exposed |-> c.exposed, converted |-> c.converted]
  BY <1>3
<1> QED
  BY <1>6, <1>7 DEF Subject

\* What accepting an event makes of a subject before its contribution.
Told(x, e) ==
  [x EXCEPT !.latest = MaxOf(@, e.t),
            !.exposures = IF e.type = "exposure" THEN Append(@, e.t) ELSE @,
            !.outcomes = IF e.type = "outcome" THEN Append(@, e.t) ELSE @]

LEMMA ToldIs ==
  ASSUME NEW x, Subject(x), NEW e
  PROVE  Subject(Contribution(Told(x, e)))
<1> PICK y, l, i, o : /\ y = Told(x, e)
                      /\ l = MaxOf(x.latest, e.t)
                      /\ i = (IF e.type = "exposure" THEN Append(x.exposures, e.t) ELSE x.exposures)
                      /\ o = (IF e.type = "outcome" THEN Append(x.outcomes, e.t) ELSE x.outcomes)
  OBVIOUS
<1>1. y = [exposures |-> i, outcomes |-> o, latest |-> l, exposed |-> x.exposed, converted |-> x.converted]
  BY DEF Subject, Told
<1>2. \E a1, a2, a3, a4, a5 :
        y = [exposures |-> a1, outcomes |-> a2, latest |-> a3, exposed |-> a4, converted |-> a5]
  BY <1>1, Zenon
<1>3. Subject(Contribution(y))
  BY <1>2, ContributionIs, Zenon
<1> QED
  BY <1>3

\* The event is accepted: the fields that this changes.
AcceptedAs(m, top, lags, changed, sum) ==
  [m EXCEPT !.top = top, !.lags = lags, !.subjects = changed, !.sum = sum, !.accepted = @ + 1]

LEMMA AcceptedIs ==
  ASSUME NEW m, SoundBut(m, 1), NEW top, NEW lags, Bounded(lags, MaxLags),
         NEW changed, SubjectsOK(changed), NEW sum, Sums(sum, changed),
         NEW x, x = AcceptedAs(m, top, lags, changed, sum)
  PROVE  Sound(x) /\ x.seen = m.seen /\ x.status = m.status
<1> PICK n : n = m.accepted + 1
  OBVIOUS
<1>1. x = [status |-> m.status, seen |-> m.seen, subjects |-> changed, sum |-> sum, received |-> m.received,
           accepted |-> n, duplicates |-> m.duplicates, rejected |-> m.rejected, late |-> m.late,
           unmatched |-> m.unmatched, top |-> top, arrival |-> m.arrival, lags |-> lags, history |-> m.history]
  BY DEF SoundBut, Fields, AcceptedAs
<1>2. Fields(x)
  BY <1>1 DEF Fields
<1>3. Counters(x, 0)
  <2> PICK a \in Nat, d \in Nat, j \in Nat, l \in Nat :
        a = m.accepted /\ d = m.duplicates /\ j = m.rejected /\ l = m.late
    BY DEF SoundBut, Counters
  <2>1. m.received = a + d + j + l + 1
    BY DEF SoundBut, Counters
  <2>2. x.accepted = n /\ x.duplicates = d /\ x.rejected = j /\ x.late = l /\ x.received = m.received
    BY <1>1
  <2>3. n \in Nat /\ m.received = n + d + j + l + 0
    BY <2>1
  <2> QED
    BY <2>2, <2>3 DEF Counters
<1> QED
  BY <1>1, <1>2, <1>3 DEF Sound, SoundBut

\* A subject's old and new states, and how accepting an event puts the one for the other.
Accepting(m, e, at, s, old, new, top, lag) ==
  /\ Subject(old) /\ Subject(new)
  /\ s \in DOMAIN m.subjects => old = m.subjects[s]
  /\ s \notin DOMAIN m.subjects => ~old.exposed
  /\ Accept(m, e, at)
       = AfterAccepting(AcceptedAs(m, top, LastOf(Append(m.lags, lag), MaxLags), With(m.subjects, s, new),
                                   Counted(Counted(m.sum, ArmOf[s], old, -1), ArmOf[s], new, 1)))

LEMMA AcceptIs ==
  ASSUME NEW m, SubjectsOK(m.subjects), NEW e, NEW s, s = e.subject, NEW at
  PROVE  \E old, new, top, lag : Accepting(m, e, at, s, old, new, top, lag)
<1> PICK old : old = IF s \in DOMAIN m.subjects THEN m.subjects[s] ELSE Unseen(s)
  OBVIOUS
<1> PICK new : new = Contribution(Told(old, e))
  OBVIOUS
<1>1. /\ Subject(old)
      /\ s \in DOMAIN m.subjects => old = m.subjects[s]
      /\ s \notin DOMAIN m.subjects => ~old.exposed
  BY DEF SubjectsOK, Subject, Unseen
<1>2. Subject(new)
  BY <1>1, ToldIs
<1> PICK top, lag : top = MaxOf(m.top, e.t) /\ lag = MaxOf(0, at - e.t)
  OBVIOUS
<1>3. Accept(m, e, at)
        = AfterAccepting(AcceptedAs(m, top, LastOf(Append(m.lags, lag), MaxLags), With(m.subjects, s, new),
                                    Counted(Counted(m.sum, ArmOf[s], old, -1), ArmOf[s], new, 1)))
  BY DEF Accept, AcceptedAs, With, Told
<1>4. Accepting(m, e, at, s, old, new, top, lag)
  BY <1>1, <1>2, <1>3, Zenon DEF Accepting
<1> QED
  BY <1>4, Zenon

LEMMA AcceptSound ==
  ASSUME NEW m, SoundBut(m, 1), NEW e, e.subject \in DOMAIN ArmOf, ArmOf[e.subject] \in Arms, NEW at
  PROVE  /\ Sound(Accept(m, e, at))
         /\ Accept(m, e, at).seen = m.seen /\ Accept(m, e, at).status = m.status
<1>1. SubjectsOK(m.subjects) /\ Sums(m.sum, m.subjects) /\ IsSeq(m.lags)
  BY DEF SoundBut, Bounded
<1>2. PICK s : s = e.subject
  OBVIOUS
<1>3. PICK old, new, top, lag : Accepting(m, e, at, s, old, new, top, lag)
  BY <1>1, <1>2, AcceptIs
<1>4. /\ Subject(old) /\ Subject(new)
      /\ s \in DOMAIN m.subjects => old = m.subjects[s]
      /\ s \notin DOMAIN m.subjects => ~old.exposed
      /\ Accept(m, e, at)
           = AfterAccepting(AcceptedAs(m, top, LastOf(Append(m.lags, lag), MaxLags), With(m.subjects, s, new),
                                       Counted(Counted(m.sum, ArmOf[s], old, -1), ArmOf[s], new, 1)))
  BY <1>3 DEF Accepting
<1>5. PICK changed, sum : /\ changed = With(m.subjects, s, new)
                          /\ sum = Counted(Counted(m.sum, ArmOf[s], old, -1), ArmOf[s], new, 1)
  OBVIOUS
<1>6. SubjectsOK(changed) /\ Sums(sum, changed)
  BY <1>1, <1>2, <1>4, <1>5, SumsChange
<1>7. PICK lags : lags = LastOf(Append(m.lags, lag), MaxLags)
  OBVIOUS
<1>8. Bounded(lags, MaxLags)
  BY <1>1, <1>7, LastOfIs, ImpactAssumption
<1>9. PICK x : x = AcceptedAs(m, top, lags, changed, sum)
  OBVIOUS
<1>10. Sound(x) /\ x.seen = m.seen /\ x.status = m.status
  BY <1>6, <1>8, <1>9, AcceptedIs
<1>11. /\ Sound(AfterAccepting(x))
       /\ AfterAccepting(x).seen = x.seen /\ AfterAccepting(x).status = x.status
  BY <1>10, AfterSound
<1>12. Accept(m, e, at) = AfterAccepting(x)
  BY <1>4, <1>5, <1>7, <1>9
<1> QED
  BY <1>10, <1>11, <1>12

LEMMA EventSound ==
  ASSUME NEW m, Sound(m), NEW e, e.subject \in DOMAIN ArmOf, ArmOf[e.subject] \in Arms, NEW at
  PROVE  /\ Sound(ApplyEvent(m, e, at))
         /\ ApplyEvent(m, e, at).seen = m.seen \union {e.id} /\ ApplyEvent(m, e, at).status = m.status
<1>1. ASSUME NEW g, SoundBut(g, 1)
      PROVE  Sound(Accept(g, e, at)) /\ Accept(g, e, at).seen = g.seen /\ Accept(g, e, at).status = g.status
  BY <1>1, AcceptSound
<1> PICK arrival : arrival = MaxOf(m.arrival, at)
  OBVIOUS
<1> PICK got : got = [m EXCEPT !.arrival = arrival, !.received = m.received + 1, !.seen = m.seen \union {e.id}]
  OBVIOUS
<1> PICK v : v = Verdict(m, e)
  OBVIOUS
<1>2. ApplyEvent(m, e, at) = CASE v = "duplicate" -> [got EXCEPT !.duplicates = @ + 1]
                               [] v = "rejected"  -> [got EXCEPT !.rejected = @ + 1]
                               [] v = "late"      -> [got EXCEPT !.late = @ + 1]
                               [] OTHER           -> Accept(got, e, at)
  BY DEF ApplyEvent
<1>3. got = [status |-> m.status, seen |-> m.seen \union {e.id}, subjects |-> m.subjects, sum |-> m.sum,
             received |-> m.received + 1, accepted |-> m.accepted, duplicates |-> m.duplicates,
             rejected |-> m.rejected, late |-> m.late, unmatched |-> m.unmatched, top |-> m.top,
             arrival |-> arrival, lags |-> m.lags, history |-> m.history]
  BY DEF Sound, SoundBut, Fields
<1>4. SoundBut(got, 1) /\ got.seen = m.seen \union {e.id} /\ got.status = m.status
  <2>1. Fields(got)
    BY <1>3 DEF Fields
  <2>2. Counters(got, 1)
    BY <1>3 DEF Sound, SoundBut, Counters
  <2> QED
    BY <1>3, <2>1, <2>2 DEF Sound, SoundBut
<1>5. ASSUME NEW x, Fields(x), Counters(x, 0), x.seen = got.seen, x.status = got.status, x.history = got.history,
             x.lags = got.lags, x.subjects = got.subjects, x.sum = got.sum
      PROVE  Sound(x) /\ x.seen = m.seen \union {e.id} /\ x.status = m.status
  BY <1>4, <1>5 DEF Sound, SoundBut
<1>6. ASSUME NEW x, x = [got EXCEPT !.duplicates = @ + 1]
      PROVE  Sound(x) /\ x.seen = m.seen \union {e.id} /\ x.status = m.status
  <2>1. x = [status |-> got.status, seen |-> got.seen, subjects |-> got.subjects, sum |-> got.sum,
             received |-> got.received, accepted |-> got.accepted, duplicates |-> got.duplicates + 1,
             rejected |-> got.rejected, late |-> got.late, unmatched |-> got.unmatched, top |-> got.top,
             arrival |-> got.arrival, lags |-> got.lags, history |-> got.history]
    BY <1>4, <1>6 DEF SoundBut, Fields
  <2>2. Fields(x) /\ Counters(x, 0)
    BY <1>4, <2>1 DEF SoundBut, Fields, Counters
  <2> QED
    BY <1>5, <2>1, <2>2
<1>7. ASSUME NEW x, x = [got EXCEPT !.rejected = @ + 1]
      PROVE  Sound(x) /\ x.seen = m.seen \union {e.id} /\ x.status = m.status
  <2>1. x = [status |-> got.status, seen |-> got.seen, subjects |-> got.subjects, sum |-> got.sum,
             received |-> got.received, accepted |-> got.accepted, duplicates |-> got.duplicates,
             rejected |-> got.rejected + 1, late |-> got.late, unmatched |-> got.unmatched, top |-> got.top,
             arrival |-> got.arrival, lags |-> got.lags, history |-> got.history]
    BY <1>4, <1>7 DEF SoundBut, Fields
  <2>2. Fields(x) /\ Counters(x, 0)
    BY <1>4, <2>1 DEF SoundBut, Fields, Counters
  <2> QED
    BY <1>5, <2>1, <2>2
<1>8. ASSUME NEW x, x = [got EXCEPT !.late = @ + 1]
      PROVE  Sound(x) /\ x.seen = m.seen \union {e.id} /\ x.status = m.status
  <2>1. x = [status |-> got.status, seen |-> got.seen, subjects |-> got.subjects, sum |-> got.sum,
             received |-> got.received, accepted |-> got.accepted, duplicates |-> got.duplicates,
             rejected |-> got.rejected, late |-> got.late + 1, unmatched |-> got.unmatched, top |-> got.top,
             arrival |-> got.arrival, lags |-> got.lags, history |-> got.history]
    BY <1>4, <1>8 DEF SoundBut, Fields
  <2>2. Fields(x) /\ Counters(x, 0)
    BY <1>4, <2>1 DEF SoundBut, Fields, Counters
  <2> QED
    BY <1>5, <2>1, <2>2
<1>9. /\ Sound(Accept(got, e, at))
      /\ Accept(got, e, at).seen = m.seen \union {e.id} /\ Accept(got, e, at).status = m.status
  <2>1. /\ Sound(Accept(got, e, at))
        /\ Accept(got, e, at).seen = got.seen /\ Accept(got, e, at).status = got.status
    BY <1>4, <1>1, Zenon
  <2> QED
    BY <1>4, <2>1
<1> QED
  BY <1>2, <1>6, <1>7, <1>8, <1>9

\* What a batch leaves: a sound state that has seen all of it.
LEMMA BatchSound ==
  ASSUME NEW m, Sound(m), NEW batch \in Batches, NEW at
  PROVE  /\ Sound(ApplyBatch(m, batch, at)) /\ ApplyBatch(m, batch, at).status = m.status
         /\ m.seen \union {batch[i].id : i \in DOMAIN batch} \subseteq ApplyBatch(m, batch, at).seen
<1>1. /\ Len(batch) \in Nat /\ DOMAIN batch = 1..Len(batch)
      /\ \A i \in DOMAIN batch : batch[i].subject \in DOMAIN ArmOf /\ ArmOf[batch[i].subject] \in Arms
  BY ImpactAssumption
<1>2. Len(batch) \in Nat
  BY <1>1
<1>3. PICK f : /\ f[0] = m /\ ApplyBatch(m, batch, at) = f[Len(batch)]
               /\ \A i \in 1..Len(batch) : f[i] = ApplyEvent(f[i-1], batch[i], at)
  BY <1>2, BatchIs
<1> PICK n \in Nat : n = Len(batch)
  BY <1>1
<1> DEFINE S == {k \in 0..n : /\ Sound(f[k]) /\ f[k].status = m.status /\ m.seen \subseteq f[k].seen
                              /\ \A i \in 1..k : batch[i].id \in f[k].seen}
<1>4. 0 \in S
  BY <1>3
<1>5. ASSUME NEW k \in 0..n - 1, k \in S
      PROVE  k + 1 \in S
  <2>1. k + 1 \in 1..n /\ (k + 1) - 1 = k
    OBVIOUS
  <2>2. f[k + 1] = ApplyEvent(f[k], batch[k + 1], at)
    BY <1>3, <2>1
  <2> PICK e : e = batch[k + 1]
    OBVIOUS
  <2>3. e.subject \in DOMAIN ArmOf /\ ArmOf[e.subject] \in Arms
    BY <1>1, <2>1
  <2>4. Sound(f[k]) /\ f[k].status = m.status /\ m.seen \subseteq f[k].seen /\ \A i \in 1..k : batch[i].id \in f[k].seen
    BY <1>5
  <2>5. Sound(f[k + 1]) /\ f[k + 1].seen = f[k].seen \union {e.id} /\ f[k + 1].status = f[k].status
    BY <2>2, <2>3, <2>4, EventSound
  <2>6. ASSUME NEW i \in 1..k + 1
        PROVE  batch[i].id \in f[k + 1].seen
    <3>1. i \in 1..k \/ i = k + 1
      OBVIOUS
    <3> QED
      BY <2>4, <2>5, <3>1
  <2> QED
    BY <2>1, <2>4, <2>5, <2>6
<1> HIDE DEF S
<1>6. \A k \in 0..n : k \in S
  BY <1>4, <1>5, Induction
<1>7. n \in S
  BY <1>6
<1>8. Sound(f[n]) /\ f[n].status = m.status /\ m.seen \subseteq f[n].seen /\ \A i \in 1..n : batch[i].id \in f[n].seen
  BY <1>7 DEF S
<1> QED
  BY <1>1, <1>3, <1>8

LEMMA BlankSound == Sound(Blank)
<1> PICK zero : zero = [a \in Arms |-> [n |-> 0, y |-> 0]]
  OBVIOUS
<1>1. Blank = [status |-> "none", seen |-> {}, subjects |-> Empty, sum |-> zero,
               received |-> 0, accepted |-> 0, duplicates |-> 0, rejected |-> 0, late |-> 0, unmatched |-> 0,
               top |-> 0, arrival |-> 0, lags |-> <<>>, history |-> <<>>]
  BY DEF Blank
<1>2. DOMAIN Empty = {}
  BY DEF Empty
<1>3. SubjectsOK(Empty)
  BY <1>2, FS_EmptySet DEF SubjectsOK
<1>4. Sums(zero, Empty)
  <2>1. ASSUME NEW a
        PROVE  Cardinality(Exposed(Empty, a)) = 0 /\ Cardinality(Converted(Empty, a)) = 0
    BY <1>2, FS_EmptySet DEF Exposed, Converted
  <2>2. zero \in [Arms -> [n : Int, y : Int]] /\ \A a \in Arms : zero[a].n = 0 /\ zero[a].y = 0
    OBVIOUS
  <2> QED
    BY <2>1, <2>2 DEF Sums
<1>5. IsSeq(<<>>) /\ Len(<<>>) = 0
  BY DEF IsSeq
<1>6. Bounded(<<>>, MaxHistory) /\ Bounded(<<>>, MaxLags)
  BY <1>5, ImpactAssumption DEF Bounded
<1>7. Fields(Blank) /\ Counters(Blank, 0)
  BY <1>1 DEF Fields, Counters
<1> QED
  BY <1>1, <1>3, <1>4, <1>6, <1>7 DEF Sound, SoundBut

\* A configuration line sets the status, and only that.
LEMMA ConfigLine ==
  ASSUME NEW m, Sound(m), NEW status
  PROVE  /\ LineOK(Config(status)) /\ ApplyLine(m, Config(status)) = [m EXCEPT !.status = status]
         /\ Sound([m EXCEPT !.status = status])
         /\ [m EXCEPT !.status = status].seen = m.seen
         /\ [m EXCEPT !.status = status].sum = m.sum /\ [m EXCEPT !.status = status].status = status
<1> PICK x : x = [m EXCEPT !.status = status]
  OBVIOUS
<1>1. x = [status |-> status, seen |-> m.seen, subjects |-> m.subjects, sum |-> m.sum, received |-> m.received,
           accepted |-> m.accepted, duplicates |-> m.duplicates, rejected |-> m.rejected, late |-> m.late,
           unmatched |-> m.unmatched, top |-> m.top, arrival |-> m.arrival, lags |-> m.lags, history |-> m.history]
  BY DEF Sound, SoundBut, Fields
<1>2. Fields(x) /\ Counters(x, 0)
  BY <1>1 DEF Sound, SoundBut, Fields, Counters
<1>3. Sound(x) /\ x.seen = m.seen /\ x.sum = m.sum /\ x.status = status
  BY <1>1, <1>2 DEF Sound, SoundBut
<1>4. LineOK(Config(status)) /\ ApplyLine(m, Config(status)) = [m EXCEPT !.status = status]
  BY DEF LineOK, Config, ApplyLine
<1> QED
  BY <1>3, <1>4

LEMMA DeliveryLine ==
  ASSUME NEW m, NEW batch \in Batches, NEW at
  PROVE  LineOK(Delivery(batch, at)) /\ ApplyLine(m, Delivery(batch, at)) = ApplyBatch(m, batch, at)
<1> PICK l : l = Delivery(batch, at)
  OBVIOUS
<1>1. l.kind = "events" /\ l.events = batch /\ l.at = at
  BY DEF Delivery
<1> QED
  BY <1>1 DEF LineOK, ApplyLine, ArrivedAt

-----------------------------------------------------------------------------
(* The invariant.                                                          *)

\* Only a process that ended while it wrote leaves an incomplete line.
LogOK == Whole(wal) \/ (~up /\ \E w : Whole(w) /\ wal = Append(w, Torn))

\* Memory is what the log says, which a conclusion and acknowledged batches never go beyond.
Rebuilt ==
  /\ Sound(Replay(wal))
  /\ state = IF up THEN Replay(wal) ELSE Blank
  /\ acked \subseteq Replay(wal).seen
  /\ conclusion # None => Replay(wal).sum = conclusion /\ Replay(wal).status = "completed"

Inv == up \in BOOLEAN /\ LogOK /\ Rebuilt

\* What a log that an Inv state holds replays to.
LEMMA LogReplays ==
  ASSUME LogOK
  PROVE  Whole(Lines(wal)) /\ Replay(Lines(wal)) = Replay(wal) /\ Readable(Lines(wal))
<1>1. Whole(Lines(wal)) /\ Replay(Lines(wal)) = Replay(wal)
  <2>1. CASE Whole(wal)
    BY <2>1, WholeLines
  <2>2. ASSUME NEW w, Whole(w), wal = Append(w, Torn)
        PROVE  Whole(Lines(wal)) /\ Replay(Lines(wal)) = Replay(wal)
    BY <2>2, TornLines, ReplayTorn
  <2> QED
    BY <2>1, <2>2 DEF LogOK
<1>2. Readable(Lines(wal))
  BY <1>1, WholeLines DEF Readable
<1> QED
  BY <1>1, <1>2

LEMMA Good ==
  ASSUME Inv
  PROVE  ReplayRebuilds /\ ConclusionStands
<1>1. Sound(state)
  BY BlankSound DEF Inv, Rebuilt
<1>2. TypeOK
  <2>1. state.received = state.accepted + state.duplicates + state.rejected + state.late
    BY <1>1 DEF Sound, SoundBut, Counters
  <2>2. Len(state.history) <= MaxHistory /\ Len(state.lags) <= MaxLags
    BY <1>1 DEF Sound, SoundBut, Bounded
  <2>3. \A a \in Arms : 0 <= state.sum[a].y /\ state.sum[a].y <= state.sum[a].n
    BY <1>1, SumsBound DEF Sound, SoundBut
  <2>4. \A s \in DOMAIN state.subjects : s \in DOMAIN ArmOf
    BY <1>1 DEF Sound, SoundBut, SubjectsOK
  <2> QED
    BY <2>1, <2>2, <2>3, <2>4 DEF TypeOK
<1>3. CanStart
  BY LogReplays DEF Inv, CanStart
<1> QED
  BY <1>2, <1>3 DEF ReplayRebuilds, ConclusionStands, AckedIsSeen, Inv, Rebuilt

\* A write, whatever comes of it, of a line that memory would follow to m.
LEMMA Written ==
  ASSUME Residues \subseteq {"nothing"}, Inv, up, conclusion = None, NEW line, LineOK(line), NEW m, Sound(m),
         ApplyLine(state, line) = m, state.seen \subseteq m.seen,
         \/ /\ Recorded(line, m) /\ acked' \subseteq acked \union m.seen
            /\ conclusion' = conclusion \/ (conclusion' = m.sum /\ m.status = "completed")
         \/ (Interrupted(line) \/ Failed(line)) /\ UNCHANGED <<acked, conclusion>>
  PROVE  Inv'
<1>1. Whole(wal) /\ Appended(line) = Append(wal, line) /\ Partly = Append(wal, Torn)
  <2>1. Whole(wal)
    BY DEF Inv, LogOK
  <2>2. ~(wal # <<>> /\ wal[Len(wal)] = Torn)
    <3>1. wal # <<>> => Len(wal) \in DOMAIN wal
      BY <2>1 DEF Whole, IsSeq
    <3> QED
      BY <2>1, <3>1, WholeLines
  <2> QED
    BY <2>1, <2>2 DEF Appended, Partly
<1>2. Whole(Append(wal, line)) /\ Replay(Append(wal, line)) = m
  BY <1>1, AppendWhole, ReplayAppend DEF Inv, Rebuilt
<1>3. Replay(Append(wal, Torn)) = state /\ Replay(wal) = state /\ Sound(state) /\ acked \subseteq state.seen
  BY <1>1, ReplayTorn DEF Inv, Rebuilt
<1>4. ASSUME Recorded(line, m), acked' \subseteq acked \union m.seen,
             conclusion' = conclusion \/ (conclusion' = m.sum /\ m.status = "completed")
      PROVE  Inv'
  <2>1. wal' = Append(wal, line) /\ state' = m /\ up' = up
    BY <1>1, <1>4 DEF Recorded
  <2>2. Replay(wal)' = m /\ Whole(wal')
    BY <1>2, <2>1
  <2>3. acked' \subseteq m.seen
    BY <1>3, <1>4
  <2>4. conclusion' # None => m.sum = conclusion' /\ m.status = "completed"
    BY <1>4
  <2> QED
    BY <2>1, <2>2, <2>3, <2>4 DEF Inv, LogOK, Rebuilt
<1>5. ASSUME Interrupted(line), UNCHANGED <<acked, conclusion>>
      PROVE  Inv'
  <2>1. wal' \in {Append(wal, Torn), Append(wal, line)} /\ up' = FALSE /\ state' = Blank
    BY <1>1, <1>5 DEF Interrupted
  <2>2. Replay(wal)' \in {state, m}
    BY <1>2, <1>3, <2>1
  <2>3. Whole(wal') \/ \E w : Whole(w) /\ wal' = Append(w, Torn)
    BY <1>1, <1>2, <2>1
  <2>4. LogOK'
    BY <2>1, <2>3 DEF LogOK
  <2>5. Sound(Replay(wal)') /\ acked' \subseteq Replay(wal)'.seen
    BY <1>3, <1>5, <2>2
  <2>6. Rebuilt'
    BY <1>5, <2>1, <2>5 DEF Rebuilt
  <2> QED
    BY <2>1, <2>4, <2>6 DEF Inv
<1>6. ASSUME Failed(line), UNCHANGED <<acked, conclusion>>
      PROVE  Inv'
  <2>1. UNCHANGED <<up, state, wal>>
    BY <1>6 DEF Failed
  <2> QED
    BY <1>6, <2>1 DEF Inv, LogOK, Rebuilt
<1> QED
  BY <1>4, <1>5, <1>6
-----------------------------------------------------------------------------
(* The theorems.                                                           *)

LEMMA InitInv == Init => Inv
<1> SUFFICES ASSUME Init PROVE Inv
  OBVIOUS
<1>1. Whole(wal) /\ Replay(wal) = Blank
  BY ReplayEmpty DEF Init
<1>2. Sound(Replay(wal))
  BY <1>1, BlankSound
<1> QED
  BY <1>1, <1>2 DEF Init, Inv, LogOK, Rebuilt

LEMMA CreateInv ==
  ASSUME Residues \subseteq {"nothing"}, Inv, Create
  PROVE  Inv'
<1>1. up /\ Sound(state) /\ state = Replay(wal) /\ state.status = "none" /\ conclusion = None
  BY DEF Inv, Rebuilt, Create
<1> PICK line, m : line = Config("draft") /\ m = [state EXCEPT !.status = "draft"]
  OBVIOUS
<1>2. LineOK(line) /\ ApplyLine(state, line) = m /\ Sound(m) /\ m.seen = state.seen
  BY <1>1, ConfigLine
<1>3. /\ Recorded(line, m) \/ Interrupted(line) \/ Failed(line)
      /\ UNCHANGED <<acked, conclusion>>
  BY DEF Create
<1> QED
  BY <1>1, <1>2, <1>3, Written

LEMMA SetStatusInv ==
  ASSUME Residues \subseteq {"nothing"}, Inv, NEW status \in {"running", "stopped", "completed"}, SetStatus(status)
  PROVE  Inv'
<1>1. up /\ Sound(state) /\ state = Replay(wal) /\ state.status # "completed" /\ conclusion = None
  BY DEF Inv, Rebuilt, SetStatus, Allowed
<1> PICK line, m : line = Config(status) /\ m = [state EXCEPT !.status = status]
  OBVIOUS
<1>2. /\ LineOK(line) /\ ApplyLine(state, line) = m /\ Sound(m) /\ m.seen = state.seen
      /\ m.sum = state.sum /\ m.status = status
  BY <1>1, ConfigLine
<1>3. /\ UNCHANGED acked
      /\ \/ /\ Recorded(line, m)
            /\ conclusion' = conclusion \/ (conclusion' = state.sum /\ status = "completed")
         \/ (Interrupted(line) \/ Failed(line)) /\ UNCHANGED conclusion
  BY DEF SetStatus
<1> QED
  BY <1>1, <1>2, <1>3, Written

LEMMA ProcessBatchInv ==
  ASSUME Residues \subseteq {"nothing"}, Inv, NEW batch \in Batches, ProcessBatch(batch)
  PROVE  Inv'
<1>1. up /\ Sound(state) /\ state = Replay(wal) /\ conclusion = None
  BY DEF Inv, Rebuilt, ProcessBatch, Open
<1> PICK at : at = used.deliveries + 1
  OBVIOUS
<1> PICK line, m : line = Delivery(batch, at) /\ m = ApplyBatch(state, batch, at)
  OBVIOUS
<1> PICK ids : ids = {batch[i].id : i \in DOMAIN batch}
  OBVIOUS
<1>2. LineOK(line) /\ ApplyLine(state, line) = m
  BY DeliveryLine
<1>3. Sound(m) /\ state.seen \union ids \subseteq m.seen
  BY <1>1, BatchSound
<1>4. /\ UNCHANGED conclusion
      /\ \/ Recorded(line, m) /\ acked' = acked \union ids
         \/ (Interrupted(line) \/ Failed(line)) /\ UNCHANGED acked
  BY DEF ProcessBatch
<1> QED
  BY <1>1, <1>2, <1>3, <1>4, Written

LEMMA CrashInv ==
  ASSUME Inv, Crash
  PROVE  Inv'
<1>1. up' = FALSE /\ state' = Blank /\ UNCHANGED <<wal, conclusion, acked>>
  BY DEF Crash
<1>2. Replay(wal)' = Replay(wal)
  BY <1>1
<1> QED
  BY <1>1, <1>2 DEF Inv, LogOK, Rebuilt

LEMMA StartInv ==
  ASSUME Inv, Start
  PROVE  Inv'
<1>1. up' = TRUE /\ wal' = Lines(wal) /\ state' = Replay(wal) /\ UNCHANGED <<conclusion, acked>>
  BY DEF Start, Kept
<1>2. Whole(Lines(wal)) /\ Replay(Lines(wal)) = Replay(wal)
  BY LogReplays DEF Inv
<1>3. Replay(wal)' = Replay(wal) /\ Whole(wal')
  BY <1>1, <1>2
<1> QED
  BY <1>1, <1>3 DEF Inv, LogOK, Rebuilt

LEMMA NextInv ==
  ASSUME Residues \subseteq {"nothing"}, Inv, [Next]_vars
  PROVE  Inv'
<1>1. CASE Next
  BY <1>1, CreateInv, SetStatusInv, ProcessBatchInv, CrashInv, StartInv DEF Next
<1>2. CASE UNCHANGED vars
  <2>1. UNCHANGED <<up, state, wal, conclusion, acked>>
    BY <1>2 DEF vars
  <2>2. Replay(wal)' = Replay(wal)
    BY <2>1
  <2> QED
    BY <2>1, <2>2 DEF Inv, LogOK, Rebuilt
<1> QED
  BY <1>1, <1>2

\* While a failed append leaves nothing behind, at every moment, after any crashes, torn
\* lines, retries and expirations, the log can be replayed, a replay gives what is in
\* memory, what was acknowledged is deduplicated, and the counters add up.
THEOREM ReplayRebuildsHolds ==
  ASSUME Residues \subseteq {"nothing"}
  PROVE  Spec => []ReplayRebuilds
<1>1. Inv /\ [Next]_vars => Inv'
  BY NextInv
<1>2. Inv => ReplayRebuilds
  BY Good
<1> QED
  BY InitInv, <1>1, <1>2, PTL DEF Spec

\* Under the same condition, an experiment that the catalog has a conclusion of stays
\* completed, with the aggregate that was concluded from.
THEOREM ConclusionStandsHolds ==
  ASSUME Residues \subseteq {"nothing"}
  PROVE  Spec => []ConclusionStands
<1>1. Inv /\ [Next]_vars => Inv'
  BY NextInv
<1>2. Inv => ConclusionStands
  BY Good
<1> QED
  BY InitInv, <1>1, <1>2, PTL DEF Spec
=============================================================================
