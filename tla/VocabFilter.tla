---------------------------- MODULE VocabFilter ----------------------------
(***************************************************************************)
(* The vocabulary filters of lm/filter: for each word the sentences that   *)
(* have it, in increasing order, and the intersection of these lists over  *)
(* the words of an n-gram (util/multi_intersection.hh).  A text has lines  *)
(* of phrases of words; sentences are numbered from 0.                     *)
(***************************************************************************)
EXTENDS Naturals, Sequences, FiniteSets, SequencesExt

CONSTANT Tags   \* the words that IsTag takes for a tag

\* ReadMultiple, of both kinds of filter: lines without words have no number.
Sentences(text) == SelectSeq(text, LAMBDA l : FlattenSeq(l) # <<>>)
\* The words of sentence id.
WordsOf(text, id) == ToSet(FlattenSeq(Sentences(text)[id + 1]))
\* vocab::ReadSingle
AllWords(text) == ToSet(FlattenSeq(FlattenSeq(text)))

\* The postings of a word.
Posting(text, word) ==
  SelectSeq([i \in DOMAIN Sentences(text) |-> i - 1], LAMBDA id : word \in WordsOf(text, id))
-----------------------------------------------------------------------------
(* Intersection.  A range is what is left of a list.                       *)

\* std::lower_bound
From(range, least) == SelectSeq(range, LAMBDA x : x >= least)

None == [found |-> FALSE, sets |-> <<>>]

\* FirstIntersectionSorted, from set i on, with what highest has become.
RECURSIVE Intersect(_, _, _)
Intersect(sets, highest, i) ==
  IF i > Len(sets) THEN [found |-> TRUE, at |-> highest, sets |-> sets]
  ELSE LET range == From(sets[i], highest)
           moved == [sets EXCEPT ![i] = range]
       IN IF range = <<>> THEN None
          ELSE IF highest < Head(range) THEN Intersect(moved, Head(range), 1)
          ELSE Intersect(moved, highest, i + 1)

FirstIntersectionSorted(sets) ==
  IF Head(sets) = <<>> THEN None ELSE Intersect(sets, Head(Head(sets)), 1)

\* AllIntersection: after each match the first set goes one on.
RECURSIVE Matches(_)
Matches(sets) ==
  LET first == FirstIntersectionSorted(sets)
  IN IF ~first.found THEN <<>>
     ELSE <<first.at>> \o Matches([first.sets EXCEPT ![1] = Tail(@)])

\* std::sort by size; equal sizes in any order, for which this one stands.
BySize(sets) == SortSeq(sets, LAMBDA l, m : Len(l) < Len(m))
-----------------------------------------------------------------------------
\* The words of an n-gram that are looked up, and whether each is known.
Looked(ngram) == SelectSeq(ngram, LAMBDA w : w \notin Tags)
Known(text, ngram) == ToSet(Looked(ngram)) \subseteq AllWords(text)
Ranges(text, ngram) == [i \in DOMAIN Looked(ngram) |-> Posting(text, Looked(ngram)[i])]

VocabSingle(text, ngram) == Known(text, ngram)

VocabUnion(text, ngram) ==
  /\ Known(text, ngram)
  /\ Looked(ngram) # <<>> => FirstIntersectionSorted(BySize(Ranges(text, ngram))).found

VocabMultiple(text, ngram) ==
  IF ~Known(text, ngram) THEN <<>> ELSE Matches(BySize(Ranges(text, ngram)))
=============================================================================
