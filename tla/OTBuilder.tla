------------------------------ MODULE OTBuilder ------------------------------
(***************************************************************************)
(* Every operation the builder calls Retain, Insert and Delete can produce *)
(* on a document, and what Transform, Compose and the position maps do     *)
(* with it.  Two people edit the same document: a and b are their          *)
(* operations, made concurrently, and next is a second edit of a's author, *)
(* made on the text a leaves.                                              *)
(***************************************************************************)
EXTENDS OT

CONSTANTS
  Units,       \* the units a person can type
  High, Low,   \* the units that are the halves of a surrogate pair
  Docs,        \* the base texts
  MaxInserts(_) \* bound: inserted texts per operation on a text

\* What one Insert call can carry.  Text arrives as JSON strings, which the
\* decoder never leaves holding half of a pair.
Typed == {<<u>> : u \in Units} \cup {<<h, l>> : h \in High, l \in Low}

ASSUME OTBuilderAssumption ==
  /\ \A text \in Docs : MaxInserts(text) \in Nat
  /\ Units \cap (High \cup Low) = {}
  /\ High \cap Low = {}

VARIABLES doc, a, b, next

vars == <<doc, a, b, next>>

Inserts(op) == Cardinality({j \in DOMAIN op : IsIns(op[j]) /\ op[j].u \notin Low})

\* One more builder call of an operation on text.
Extend(op, text, extended) ==
  \/ BaseLen(op) < Len(text) /\ extended = Retain(op, 1)
  \/ BaseLen(op) < Len(text) /\ extended = Delete(op, 1)
  \/ \E t \in Typed : Inserts(op) < MaxInserts(doc) /\ extended = Insert(op, t)

Built(op, text) == BaseLen(op) = Len(text)

Init == doc \in Docs /\ a = <<>> /\ b = <<>> /\ next = <<>>

ExtendA == b = <<>> /\ next = <<>> /\ Extend(a, doc, a') /\ UNCHANGED <<doc, b, next>>

ExtendB ==
  /\ Built(a, doc) /\ next = <<>>
  /\ Extend(b, doc, b')
  /\ UNCHANGED <<doc, a, next>>

ExtendNext ==
  /\ Built(a, doc) /\ b = <<>>
  /\ Extend(next, Apply(a, doc), next')
  /\ UNCHANGED <<doc, a, b>>

Next == ExtendA \/ ExtendB \/ ExtendNext

Spec == Init /\ [][Next]_vars

-----------------------------------------------------------------------------
WholeChars(text) ==
  /\ \A i \in DOMAIN text : text[i] \in High => i < Len(text) /\ text[i+1] \in Low
  /\ \A i \in DOMAIN text : text[i] \in Low  => i > 1 /\ text[i-1] \in High

Checked(op, text) == CheckText(op, text, High, Low)

\* The one form the builder stores: no insert directly behind a delete.
Canonical(op) == \A j \in 2..Len(op) : ~(IsIns(op[j]) /\ IsDrop(op[j-1]))

\* Every operation a caller can build is in the stored form, on one of the texts.
TypeOK == doc \in Docs /\ \A op \in {a, b, next} : Canonical(op)

\* Transforming loses nobody's work: what a typed is still inserted, in its order,
\* and what a deleted and b kept is still deleted (live-docs.md, "edits made while
\* offline are merged").
TransformKeepsIntent ==
  Built(a, doc) /\ Built(b, doc) =>
    LET t == Transform(a, b)
        Dropped(op) == Cardinality({j \in DOMAIN op : IsDrop(op[j])})
        Both == {p \in 0..Len(doc)-1 : Deletes(a, p) /\ Deletes(b, p)}
    IN  /\ SelectSeq(t[1], IsIns) = SelectSeq(a, IsIns)
        /\ SelectSeq(t[2], IsIns) = SelectSeq(b, IsIns)
        /\ Dropped(t[1]) = Dropped(a) - Cardinality(Both)
        /\ Dropped(t[2]) = Dropped(b) - Cardinality(Both)

\* Two concurrent operations lead to the same text in either order (Transform,
\* ot.go:220-224), the transformed operations fit where they are applied, and
\* nobody's typing or deleting is lost.
TransformConverges ==
  /\ Built(a, doc) /\ Built(b, doc) =>
       LET t == Transform(a, b)
       IN  /\ BaseLen(t[1]) = TargetLen(b) /\ BaseLen(t[2]) = TargetLen(a)
           /\ Apply(t[2], Apply(a, doc)) = Apply(t[1], Apply(b, doc))
  /\ TransformKeepsIntent

\* Edits with the same effect are the same operation (ot.go:90-91): what Transform
\* and Compose return is in the builder's form too.
ResultsAreCanonical ==
  /\ Built(a, doc) /\ Built(b, doc) =>
       Canonical(Transform(a, b)[1]) /\ Canonical(Transform(a, b)[2])
  /\ Built(a, doc) /\ Built(next, Apply(a, doc)) => Canonical(Compose(a, next))

\* A buffer composed of two edits does what the two edits did one after the
\* other, as the one operation of that effect (Compose, ot.go:182).
ComposeIsSequential ==
  /\ TypeOK /\ ResultsAreCanonical
  /\ Built(a, doc) /\ Built(next, Apply(a, doc)) =>
       /\ BaseLen(Compose(a, next)) = Len(doc)
       /\ Apply(Compose(a, next), doc) = Apply(next, Apply(a, doc))

\* The server checks an operation against its own text after transforming it
\* (session.go:589).  An edit that was whole characters where it was typed
\* still is: catching up never turns it into a rejected one, and no text ever
\* holds half a pair.
TransformKeepsCharactersWhole ==
  Built(a, doc) /\ Built(b, doc) /\ Checked(a, doc) /\ Checked(b, doc) =>
    LET t == Transform(a, b)
    IN  /\ Checked(t[1], Apply(b, doc))
        /\ Checked(t[2], Apply(a, doc))
        /\ WholeChars(Apply(t[1], Apply(b, doc)))

\* Offline edits are sent as one composed operation, checked once by the server:
\* it passes when each edit would have.
ComposeKeepsCharactersWhole ==
  (/\ Built(a, doc) /\ Built(next, Apply(a, doc))
   /\ Checked(a, doc) /\ Checked(next, Apply(a, doc)))
     => Checked(Compose(a, next), doc)

\* An edit that keeps characters whole does so after it was transformed, and after it was
\* composed with another (CheckText, ot.go:437).
CharactersStayWhole == TransformKeepsCharactersWhole /\ ComposeKeepsCharactersWhole

\* The text a range of the document holds.
Held(text, start, end) == SubSeq(text, start + 1, end)

Ranges == {r \in (0..Len(doc)) \X (0..Len(doc)) : r[1] <= r[2]}

\* A range an operation left untouched holds exactly the text it held before
\* (ot.go:296-298); a touched one still lies inside the document.
UntouchedRangeKeepsItsText ==
  Built(a, doc) =>
    \A r \in Ranges :
      LET m == MapRange(a, r[1], r[2])
      IN  /\ 0 <= m[1] /\ m[1] <= m[2] /\ m[2] <= TargetLen(a)
          /\ ~m[3] => Held(Apply(a, doc), m[1], m[2]) = Held(doc, r[1], r[2])
=============================================================================
