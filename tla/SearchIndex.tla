---------------------------- MODULE SearchIndex ----------------------------
(***************************************************************************)
(* The inverted index of Atlas Search (src/internal/search: index.go,      *)
(* snapshot.go).                                                           *)
(*                                                                         *)
(* Every stored version of a document has a slot; replacing a document     *)
(* tombstones its slot and leaves its postings in place until enough are   *)
(* dead to compact and renumber.  Queries skip documents whose terms cannot *)
(* add up to the worst hit so far, by bounds kept beside the postings.     *)
(*                                                                         *)
(* A document is its id, how often each term occurs in it, and its length  *)
(* in tokens.  Scores are whole numbers: a contribution is BM25's, scaled  *)
(* and rounded down, with the argument of its logarithm for the logarithm, *)
(* which keeps what pruning depends on: it grows with the frequency and    *)
(* shrinks with the length.                                                *)
(***************************************************************************)
EXTENDS Integers, Sequences, FiniteSets, SequencesExt

CONSTANTS
  maxImpacts,        \* 8 in the code
  maxPrunedTerms,    \* 16
  compactMinDead,    \* 64
  compactDeadRatio   \* 4

ASSUME IndexAssumption == maxImpacts \in Nat \ {0} /\ compactMinDead \in Nat \ {0}

NoDoc == [id |-> 0]        \* the zero Document of a tombstone

NewIndex ==
  [slots |-> <<>>, docs |-> <<>>, lengths |-> <<>>, live |-> <<>>, terms |-> <<>>, tokens |-> 0, dead |-> 0]

Without(f, S) == [x \in DOMAIN f \ S |-> f[x]]
With(f, x, y) == [z \in DOMAIN f \cup {x} |-> IF z = x THEN y ELSE f[z]]
SumOf(f) == FoldLeft(LAMBDA sum, x : sum + f[x], 0, SetToSeq(DOMAIN f))

-----------------------------------------------------------------------------
(* Bounds.                                                                 *)

Dominates(p, tf, length) == p.tf >= tf /\ p.length <= length

\* Mutant: of two merged points the shorter is forgotten, not lengthened.
Merged_DropsShorter(f) ==
  IF Len(f) <= maxImpacts THEN f ELSE Tail(f)

\* Past maxImpacts points, the two whose frequencies are closest become one.
Merged(f) ==
  LET Gap(k) == f[k+1].tf - f[k].tf
      at == CHOOSE k \in 1..Len(f)-1 : \A j \in 1..Len(f)-1 : Gap(k) < Gap(j) \/ (Gap(k) = Gap(j) /\ k <= j)
  IN  IF Len(f) <= maxImpacts THEN f
      ELSE SubSeq(f, 1, at - 1) \o <<[tf |-> f[at+1].tf, length |-> f[at].length]>>
             \o SubSeq(f, at + 2, Len(f))

\* addImpact: f has ascending lengths and strictly ascending frequencies.
AddImpact(f, tf, length) ==
  LET shorter == Cardinality({k \in DOMAIN f : f[k].length < length})
      upTo    == Cardinality({k \in DOMAIN f : f[k].length <= length})
      covered == Cardinality({k \in DOMAIN f : k > upTo /\ f[k].tf <= tf})
  IN  IF \E k \in 1..upTo : f[k].tf >= tf THEN f
      ELSE Merged(SubSeq(f, 1, shorter) \o <<[tf |-> tf, length |-> length]>>
                    \o SubSeq(f, upTo + covered + 1, Len(f)))

-----------------------------------------------------------------------------
(* Changes.                                                                *)

Posting(slot, tf) == [doc |-> slot, tf |-> tf]

\* retire
Retire(ix, slot) ==
  LET old == ix.docs[slot]
      less == [t \in DOMAIN ix.terms |->
                 IF t \in DOMAIN old.freq THEN [ix.terms[t] EXCEPT !.df = @ - 1] ELSE ix.terms[t]]
  IN  [ix EXCEPT !.terms = Without(less, {t \in DOMAIN less : less[t].df <= 0}),
                 !.tokens = @ - ix.lengths[slot], !.live[slot] = FALSE, !.docs[slot] = NoDoc,
                 !.slots = Without(@, {old.id}), !.dead = @ + 1]

\* Live slots are renumbered in their order.
Remap(ix, slot) == Cardinality({s \in 1..slot : ix.live[s]})

Rebuilt(ix, entry) ==
  LET live == SelectSeq(entry.postings, LAMBDA p : ix.live[p.doc])
  IN  [postings |-> [n \in DOMAIN live |-> Posting(Remap(ix, live[n].doc), live[n].tf)],
       df |-> entry.df,
       impacts |-> FoldLeft(LAMBDA f, p : AddImpact(f, p.tf, ix.lengths[p.doc]), <<>>, live)]

\* compact
Compact(ix) ==
  LET kept == [n \in 1..Remap(ix, Len(ix.docs)) |-> CHOOSE s \in DOMAIN ix.docs : ix.live[s] /\ Remap(ix, s) = n]
  IN  [ix EXCEPT !.docs = [n \in DOMAIN kept |-> ix.docs[kept[n]]],
                 !.lengths = [n \in DOMAIN kept |-> ix.lengths[kept[n]]],
                 !.live = [n \in DOMAIN kept |-> TRUE],
                 !.slots = [id \in DOMAIN ix.slots |-> Remap(ix, ix.slots[id])],
                 !.terms = [t \in DOMAIN ix.terms |-> Rebuilt(ix, ix.terms[t])],
                 !.dead = 0]

NoPostings == [postings |-> <<>>, df |-> 0, impacts |-> <<>>]

Entered(entry, slot, tf, length) ==
  [postings |-> Append(entry.postings, Posting(slot, tf)), df |-> entry.df + 1,
   impacts |-> AddImpact(entry.impacts, tf, length)]

AddSlot(ix, doc) ==
  LET slot == Len(ix.docs) + 1
      Entry(t) == IF t \in DOMAIN ix.terms THEN ix.terms[t] ELSE NoPostings
  IN  [ix EXCEPT !.docs = Append(@, doc), !.lengths = Append(@, doc.length), !.live = Append(@, TRUE),
                 !.slots = With(@, doc.id, slot), !.tokens = @ + doc.length,
                 !.terms = [t \in DOMAIN @ \cup DOMAIN doc.freq |->
                              IF t \in DOMAIN doc.freq THEN Entered(Entry(t), slot, doc.freq[t], doc.length)
                              ELSE @[t]]]

CompactDue(ix) == ix.dead >= compactMinDead /\ ix.dead * compactDeadRatio >= Cardinality(DOMAIN ix.slots)

Upsert(ix, doc) ==
  LET jx == IF doc.id \in DOMAIN ix.slots THEN Retire(ix, ix.slots[doc.id]) ELSE ix
      kx == AddSlot(jx, doc)
  IN  IF CompactDue(kx) THEN Compact(kx) ELSE kx

-----------------------------------------------------------------------------
(* Queries.  A query is a set of terms, a hit its score and id.            *)

Count(ix) == Cardinality(DOMAIN ix.slots)

Idf(ix, df) == 1 + (10 * (2 * (Count(ix) - df) + 1)) \div (2 * df + 1)

Contribution(ix, idf, tf, length) ==
  idf * ((2200 * tf * ix.tokens) \div ((10 * tf + 3) * ix.tokens + 9 * length * Count(ix)))

\* bound
Bound(ix, entry) ==
  LET all == {Contribution(ix, Idf(ix, entry.df), p.tf, p.length) : p \in {entry.impacts[k] : k \in DOMAIN entry.impacts}}
  IN  IF all = {} THEN 0 ELSE CHOOSE b \in all : \A c \in all : c <= b

PostingAt(entry, slot) == {p \in {entry.postings[k] : k \in DOMAIN entry.postings} : p.doc = slot}

\* estimate, and exactScore's term
Scored(ix, t, slot) ==
  LET ps == PostingAt(ix.terms[t], slot)
  IN  IF ps = {} THEN 0
      ELSE Contribution(ix, Idf(ix, ix.terms[t].df), (CHOOSE p \in ps : TRUE).tf, ix.lengths[slot])

ExactScore(ix, terms, slot) == SumOf([t \in terms |-> Scored(ix, t, slot)])

RanksBelow(a, b) == a.score < b.score \/ (a.score = b.score /\ a.id > b.id)

\* topK: the best hits, at most limit; offer drops the one that ranks lowest.
Lowest(hits) == CHOOSE h \in hits : \A g \in hits : g = h \/ RanksBelow(h, g)
Offer(hits, h, limit) ==
  IF Cardinality(hits) < limit THEN hits \cup {h}
  ELSE IF RanksBelow(Lowest(hits), h) THEN (hits \ {Lowest(hits)}) \cup {h} ELSE hits

\* Mutant: only what the first bound promises is added.
Competitive_OneBound(ix, order, essential, bound, slot, threshold) ==
  essential = 0 \/
    SumOf([k \in essential+1..Len(order) |-> Scored(ix, order[k], slot)]) + bound[1] >= threshold

\* competitive: the essential terms' contributions and the others' bounds, each
\* replaced by its contribution from the largest bound down, reach the threshold.
Competitive(ix, order, essential, bound, slot, threshold) ==
  \A j \in 1..essential :
    SumOf([k \in j+1..Len(order) |-> Scored(ix, order[k], slot)])
      + SumOf([k \in 1..j |-> bound[k]]) >= threshold

\* scorePruned.  It goes through the slots that have one of the essential terms, in
\* their order; while hits are offered, terms become non-essential.
ScorePruned(ix, terms, limit) ==
  LET order == SetToSortSeq(terms, LAMBDA t, u : Bound(ix, ix.terms[t]) < Bound(ix, ix.terms[u]))
      bound == [k \in DOMAIN order |-> Bound(ix, ix.terms[order[k]])]
      Prefix(k) == SumOf([j \in 1..k |-> bound[j]])
      Consider(s, slot) ==
        LET h == [score |-> ExactScore(ix, terms, slot), id |-> ix.docs[slot].id]
            hits == Offer(s.hits, h, limit)
            full == Cardinality(hits) >= limit
            threshold == IF full THEN Lowest(hits).score ELSE s.threshold
        IN  IF /\ \E k \in s.essential+1..Len(order) : PostingAt(ix.terms[order[k]], slot) # {}
               /\ ix.live[slot]
               /\ Competitive(ix, order, s.essential, bound, slot, s.threshold)
            THEN [hits |-> hits, threshold |-> threshold,
                  essential |-> IF hits = s.hits \/ ~full THEN s.essential
                                ELSE Cardinality({k \in DOMAIN order : k <= s.essential \/ Prefix(k) < threshold})]
            ELSE s
  IN  FoldLeft(Consider, [hits |-> {}, threshold |-> -1, essential |-> 0],
               [slot \in DOMAIN ix.docs |-> slot]).hits

\* scoreExhaustive: every live slot with a term of the query.
ScoreExhaustive(ix, terms, limit) ==
  FoldLeft(LAMBDA hits, slot :
             IF ix.live[slot] /\ \E t \in terms : PostingAt(ix.terms[t], slot) # {}
             THEN Offer(hits, [score |-> ExactScore(ix, terms, slot), id |-> ix.docs[slot].id], limit)
             ELSE hits,
           {}, [slot \in DOMAIN ix.docs |-> slot])

\* Search, as the set of its hits; their order is RanksBelow's.
Search(ix, query, limit) ==
  LET terms == query \cap DOMAIN ix.terms
  IN  IF limit <= 0 \/ Count(ix) = 0 \/ terms = {} THEN {}
      ELSE IF Cardinality(terms) > maxPrunedTerms THEN ScoreExhaustive(ix, terms, limit)
      ELSE ScorePruned(ix, terms, limit)

-----------------------------------------------------------------------------
(* Snapshots: documents by ascending id, live postings as gaps.            *)

Gaps(ordinals) == [n \in DOMAIN ordinals |-> ordinals[n] - IF n = 1 THEN 0 ELSE ordinals[n-1]]

Summed(gaps) == [n \in DOMAIN gaps |-> SumOf([j \in 1..n |-> gaps[j]])]

WriteSnapshot(ix) ==
  LET ids == SetToSortSeq(DOMAIN ix.slots, <)
      Ordinal(slot) == CHOOSE n \in DOMAIN ids : ix.slots[ids[n]] = slot
      LivePostings(t) ==
        LET all == ix.terms[t].postings
            live == {Posting(Ordinal(all[k].doc), all[k].tf) : k \in {j \in DOMAIN all : ix.live[all[j].doc]}}
        IN  SetToSortSeq(live, LAMBDA p, q : p.doc < q.doc)
      Encoded(ps) == [gaps |-> Gaps([n \in DOMAIN ps |-> ps[n].doc]), tfs |-> [n \in DOMAIN ps |-> ps[n].tf]]
  IN  [docs |-> [n \in DOMAIN ids |-> ix.docs[ix.slots[ids[n]]]],
       lengths |-> [n \in DOMAIN ids |-> ix.lengths[ix.slots[ids[n]]]],
       postings |-> [t \in DOMAIN ix.terms |-> Encoded(LivePostings(t))]]

ReadSnapshot(snap) ==
  LET Entry(e) ==
        LET at == Summed(e.gaps)
            ps == [n \in DOMAIN at |-> Posting(at[n], e.tfs[n])]
        IN  [postings |-> ps, df |-> Len(ps),
             impacts |-> FoldLeft(LAMBDA f, p : AddImpact(f, p.tf, snap.lengths[p.doc]), <<>>, ps)]
  IN  [slots |-> [id \in {snap.docs[n].id : n \in DOMAIN snap.docs} |->
                    CHOOSE n \in DOMAIN snap.docs : snap.docs[n].id = id],
       docs |-> snap.docs, lengths |-> snap.lengths, live |-> [n \in DOMAIN snap.docs |-> TRUE],
       terms |-> [t \in {u \in DOMAIN snap.postings : snap.postings[u].gaps # <<>>} |-> Entry(snap.postings[t])],
       tokens |-> SumOf(snap.lengths), dead |-> 0]

-----------------------------------------------------------------------------
(* What an index promises, as facts of one index.                          *)

LiveDocs(ix) == {ix.docs[s] : s \in {t \in DOMAIN ix.docs : ix.live[t]}}

\* The hits a query must have, from the documents alone.
Reference(docs, query, limit) ==
  LET n == Cardinality(docs)
      tokens == SumOf([d \in docs |-> d.length])
      Df(t) == Cardinality({d \in docs : t \in DOMAIN d.freq})
      Of(d, t) == (1 + (10 * (2 * (n - Df(t)) + 1)) \div (2 * Df(t) + 1))
                    * ((2200 * d.freq[t] * tokens) \div ((10 * d.freq[t] + 3) * tokens + 9 * d.length * n))
      hits == {[score |-> SumOf([t \in query \cap DOMAIN d.freq |-> Of(d, t)]), id |-> d.id] :
                 d \in {e \in docs : query \cap DOMAIN e.freq # {}}}
  IN  {h \in hits : Cardinality({g \in hits : RanksBelow(h, g)}) < limit}

Consistent(ix) ==
  /\ DOMAIN ix.slots = {d.id : d \in LiveDocs(ix)}
  /\ \A id \in DOMAIN ix.slots : ix.slots[id] \in DOMAIN ix.docs /\ ix.docs[ix.slots[id]].id = id
  /\ ix.dead = Cardinality({s \in DOMAIN ix.live : ~ix.live[s]})
  /\ ix.tokens = SumOf([d \in LiveDocs(ix) |-> d.length])

TermsAgree(ix) ==
  /\ DOMAIN ix.terms = UNION {DOMAIN d.freq : d \in LiveDocs(ix)}
  /\ \A t \in DOMAIN ix.terms :
       LET ps == ix.terms[t].postings
       IN  /\ \A m, n \in DOMAIN ps : m < n => ps[m].doc < ps[n].doc
           /\ {<<ix.docs[ps[n].doc], ps[n].tf>> : n \in {k \in DOMAIN ps : ix.live[ps[k].doc]}}
                = {<<d, d.freq[t]>> : d \in {e \in LiveDocs(ix) : t \in DOMAIN e.freq}}
           /\ ix.terms[t].df = Cardinality({n \in DOMAIN ps : ix.live[ps[n].doc]})

BoundsHold(ix) ==
  \A t \in DOMAIN ix.terms :
    LET e == ix.terms[t]
    IN  /\ Len(e.impacts) <= maxImpacts
        /\ \A n \in DOMAIN e.postings : \E k \in DOMAIN e.impacts :
             Dominates(e.impacts[k], e.postings[n].tf, ix.lengths[e.postings[n].doc])

ExactFor(ix, query, limit) == Search(ix, query, limit) = Reference(LiveDocs(ix), query, limit)
=============================================================================
