--------------------------------- MODULE OT ---------------------------------
(***************************************************************************)
(* The operational transformation engine of Live Docs                      *)
(* (src/internal/collab/ot.go; ui/ot.js is the same algebra).              *)
(*                                                                         *)
(* The code stores an operation as run-length components: retain n, delete *)
(* n, insert text.  Here every component is unrolled into units, so that   *)
(* merging adjacent components of one kind, which Retain, Delete, Insert   *)
(* and the cursor do with lengths, is concatenation of units.  What is     *)
(* left of the builder's control is the one rule that reorders: an insert  *)
(* that follows deletes is stored before them.                             *)
(*                                                                         *)
(* Texts are sequences of units (UTF-16 code units in the code).           *)
(***************************************************************************)
EXTENDS Integers, Sequences, FiniteSets

Keep   == [k |-> "keep"]              \* one unit of a retain component
Drop   == [k |-> "drop"]              \* one unit of a delete component
Ins(u) == [k |-> "ins", u |-> u]      \* one unit of an insert component

IsKeep(c) == c.k = "keep"
IsDrop(c) == c.k = "drop"
IsIns(c)  == c.k = "ins"

\* The number of units of the base text that components 1..i walk over.
Walked(op, i) == Cardinality({j \in 1..i : ~IsIns(op[j])})

BaseLen(op)   == Walked(op, Len(op))
TargetLen(op) == Cardinality({j \in DOMAIN op : ~IsDrop(op[j])})
IsNoop(op)    == \A j \in DOMAIN op : IsKeep(op[j])

-----------------------------------------------------------------------------
(* The builder.                                                            *)

\* Where an insert goes: after the last unit that is not a delete.
InsertAt(op) ==
  LET others == {j \in DOMAIN op : ~IsDrop(op[j])}
  IN  IF others = {} THEN 0 ELSE CHOOSE j \in others : \A h \in others : h <= j

Retain(op, n) == op \o [j \in 1..n |-> Keep]
Delete(op, n) == op \o [j \in 1..n |-> Drop]

Insert(op, text) ==
  LET at == InsertAt(op)
  IN  SubSeq(op, 1, at) \o [j \in DOMAIN text |-> Ins(text[j])]
        \o SubSeq(op, at + 1, Len(op))

\* Feeding units to the builder one at a time gives the stored form.
Canon(units) ==
  LET build[i \in 0..Len(units)] ==
        IF i = 0 THEN <<>>
        ELSE IF IsIns(units[i]) THEN Insert(build[i-1], <<units[i].u>>)
        ELSE Append(build[i-1], units[i])
  IN  build[Len(units)]

ReplaceOp(length, start, end, text) ==
  Retain(Delete(Insert(Retain(<<>>, start), text), end - start), length - end)

-----------------------------------------------------------------------------
(* Apply, Compose and Transform.                                           *)

\* Apply(op, doc) is defined when Len(doc) = BaseLen(op).
Apply(op, doc) ==
  LET text[i \in 0..Len(op)] ==
        IF i = 0 THEN <<>>
        ELSE IF IsDrop(op[i]) THEN text[i-1]
        ELSE Append(text[i-1], IF IsIns(op[i]) THEN op[i].u ELSE doc[Walked(op, i)])
  IN  text[Len(op)]

\* Mutant: text the second operation deletes again is still inserted.
Compose_NoCancel(a, b) ==
  LET out[i \in 1..Len(a)+1, j \in 1..Len(b)+1] ==
        IF i <= Len(a) /\ IsDrop(a[i]) THEN <<Drop>> \o out[i+1, j]
        ELSE IF j <= Len(b) /\ IsIns(b[j]) THEN <<b[j]>> \o out[i, j+1]
        ELSE IF i > Len(a) \/ j > Len(b) THEN <<>>
        ELSE (IF IsKeep(a[i]) THEN <<b[j]>> ELSE <<a[i]>>) \o out[i+1, j+1]
  IN  Canon(out[1, 1])

\* Compose(a, b) is defined when TargetLen(a) = BaseLen(b).  out[i, j] is what
\* the loop still has to produce with the cursors before a[i] and b[j].
Compose(a, b) ==
  LET out[i \in 1..Len(a)+1, j \in 1..Len(b)+1] ==
        IF i <= Len(a) /\ IsDrop(a[i]) THEN <<Drop>> \o out[i+1, j]
        ELSE IF j <= Len(b) /\ IsIns(b[j]) THEN <<b[j]>> \o out[i, j+1]
        ELSE IF i > Len(a) \/ j > Len(b) THEN <<>>
        ELSE (CASE IsKeep(a[i])                   -> <<b[j]>>
                [] IsIns(a[i]) /\ IsKeep(b[j])    -> <<a[i]>>
                [] IsIns(a[i]) /\ IsDrop(b[j])    -> <<>>)
             \o out[i+1, j+1]
  IN  Canon(out[1, 1])

\* Mutant: what both delete is deleted twice.
Transform_DeletesTwice(a, b) ==
  LET Pair(x, y, rest) == <<x \o rest[1], y \o rest[2]>>
      out[i \in 1..Len(a)+1, j \in 1..Len(b)+1] ==
        IF i <= Len(a) /\ IsIns(a[i]) THEN Pair(<<a[i]>>, <<Keep>>, out[i+1, j])
        ELSE IF j <= Len(b) /\ IsIns(b[j]) THEN Pair(<<Keep>>, <<b[j]>>, out[i, j+1])
        ELSE IF i > Len(a) \/ j > Len(b) THEN << <<>>, <<>> >>
        ELSE Pair(<<a[i]>>, IF IsKeep(a[i]) THEN <<b[j]>> ELSE <<>>, out[i+1, j+1])
  IN  <<Canon(out[1, 1][1]), Canon(out[1, 1][2])>>

\* Transform(a, b) = <<a', b'>>, defined when BaseLen(a) = BaseLen(b).  When
\* both insert at one position, a's text is placed first.
Transform(a, b) ==
  LET Pair(x, y, rest) == <<x \o rest[1], y \o rest[2]>>
      out[i \in 1..Len(a)+1, j \in 1..Len(b)+1] ==
        IF i <= Len(a) /\ IsIns(a[i]) THEN Pair(<<a[i]>>, <<Keep>>, out[i+1, j])
        ELSE IF j <= Len(b) /\ IsIns(b[j]) THEN Pair(<<Keep>>, <<b[j]>>, out[i, j+1])
        ELSE IF i > Len(a) \/ j > Len(b) THEN << <<>>, <<>> >>
        ELSE Pair(IF IsKeep(b[j]) THEN <<a[i]>> ELSE <<>>,
                  IF IsKeep(a[i]) THEN <<b[j]>> ELSE <<>>,
                  out[i+1, j+1])
  IN  <<Canon(out[1, 1][1]), Canon(out[1, 1][2])>>

-----------------------------------------------------------------------------
(* Positions and ranges.                                                   *)

\* Base position in front of component j.
At(op, j) == Walked(op, j - 1)

MapPos(op, position, afterInsert) ==
  position
    + Cardinality({j \in DOMAIN op : /\ IsIns(op[j])
                                     /\ \/ At(op, j) < position
                                        \/ afterInsert /\ At(op, j) = position})
    - Cardinality({j \in DOMAIN op : IsDrop(op[j]) /\ At(op, j) < position})

\* Whether the operation deletes the base unit at a position.
Deletes(op, position) == \E j \in DOMAIN op : IsDrop(op[j]) /\ At(op, j) = position

\* Mutant: typing into a range does not touch it.
Touches_DeletesOnly(op, start, end) == \E p \in start..end-1 : Deletes(op, p)

\* An empty range is touched only by a deletion on both sides of it.
Touches(op, start, end) ==
  \/ \E j \in DOMAIN op : IsIns(op[j]) /\ At(op, j) \in start+1..end-1
  \/ start = end /\ Deletes(op, start - 1) /\ Deletes(op, start)
  \/ \E p \in start..end-1 : Deletes(op, p)

\* <<start', end', touched>>
MapRange(op, start, end) ==
  IF Touches(op, start, end)
  THEN <<MapPos(op, start, FALSE), MapPos(op, end, TRUE), TRUE>>
  ELSE LET s == MapPos(op, start, TRUE)
           e == MapPos(op, end, FALSE)
       IN  <<s, IF e < s THEN s ELSE e, FALSE>>

-----------------------------------------------------------------------------
(* Surrogate pairs: the check that keeps characters whole.  High and Low   *)
(* are the sets of units that are the two halves of a pair.                *)

InsidePair(doc, position, High, Low) ==
  /\ position \in 1..Len(doc) - 1
  /\ doc[position] \in High
  /\ doc[position + 1] \in Low

\* Mutant: deletions are not checked.
CheckText_InsertsOnly(op, doc, High, Low) ==
  \A j \in DOMAIN op : IsIns(op[j]) => ~InsidePair(doc, At(op, j), High, Low)

CheckText(op, doc, High, Low) ==
  \A j \in DOMAIN op :
    /\ IsIns(op[j]) => ~InsidePair(doc, At(op, j), High, Low)
    /\ IsDrop(op[j]) /\ (j = 1 \/ ~IsDrop(op[j-1])) =>
         ~InsidePair(doc, At(op, j), High, Low)
    /\ IsDrop(op[j]) /\ (j = Len(op) \/ ~IsDrop(op[j+1])) =>
         ~InsidePair(doc, Walked(op, j), High, Low)
=============================================================================
