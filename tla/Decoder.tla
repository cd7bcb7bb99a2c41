------------------------------ MODULE Decoder -------------------------------
(***************************************************************************)
(* DecoderImpl::Run (MEMT/Decoder): beam search over the hypotheses of a   *)
(* strategy, one layer for each length, and the list of best sentences     *)
(* read off the lattice of packed histories.  What the strategy and the    *)
(* features say is a constant: from a payload (coverage, phrase, features' *)
(* state) there are arcs, each with the location and word it appends, the  *)
(* payload it leads to and what it adds to the score.  Only the overall    *)
(* score is kept, as a logarithm, so that * and / are + and -.             *)
(*                                                                         *)
(* A HypHistory is the record of its entry, its hash as key and previous_, *)
(* best first, as prev.                                                    *)
(***************************************************************************)
EXTENDS Integers, Sequences, FiniteSets, SequencesExt

CONSTANT Models   \* bound: search spaces of sentences, with configurations

\* Where an arc leads that ends the sentence, or that ExtendNonScore rejects.
Ended == "end"
Dropped == "dropped"

ASSUME DecoderAssumption ==
  \A m \in Models :
    /\ m.root \in DOMAIN m.arcs /\ m.length_normalize \in BOOLEAN
    /\ \A p \in DOMAIN m.arcs :
         /\ m.arcs[p] \in Seq(Range(m.arcs[p]))
         /\ \A a \in Range(m.arcs[p]) : /\ a.gain \in Int
                                        /\ a.to \in DOMAIN m.arcs \cup {Ended, Dropped}

VARIABLES
  model,       \* input_, strategy_ and config_
  agenda,      \* what ExtendBeam has still to do: histories of current_ with arcs
  next,        \* next_
  ending,      \* ending_
  length,      \* length_
  delayed,     \* the queue of MakeCompletedHypotheses
  finished,    \* nbest
  pc           \* "extend", "complete" or "done"

decoderVars == <<model, agenda, next, ending, length, delayed, finished, pc>>
-----------------------------------------------------------------------------
\* nbest::OneBestMerge
OneBest(to, with) == {IF to.score < with.score THEN with ELSE to}

HistoryBeam == INSTANCE NBest WITH Merges <- OneBest

\* MergeSizeOneHistoryBeam: with holds one history.
MergeSizeOne(into, with) ==
  UNION {IF HistoryBeam!MayMakeIt(into, hist.score)
           THEN HistoryBeam!InsertAvailable(into, hist) ELSE {into} :
         hist \in HistoryBeam!Values(with)}

\* Mutant: the entry stays that of the first.
MergeEntryKept(to, with) ==
  {[to EXCEPT !.previous = p] : p \in MergeSizeOne(to.previous, with.previous)}
\* InternalHypothesis::Merge packs the histories and keeps the better entry.
CallMerge(to, with) ==
  {[(IF to.score < with.score THEN with ELSE to) EXCEPT !.previous = p] :
     p \in MergeSizeOne(to.previous, with.previous)}

InternalBeam == INSTANCE NBest WITH Merges <- CallMerge
EndBeam == INSTANCE NBest WITH Merges <- OneBest
-----------------------------------------------------------------------------
\* MakeHash
Hash(word, prev) == <<word, [i \in DOMAIN prev |-> prev[i].key]>>

\* InitializeRoot
RootHistory == [key |-> Hash("BOS", <<>>), score |-> 0, word |-> "BOS", loc |-> "BOS",
         prev |-> <<>>]

\* The calls that GetExtensions makes for a hypothesis of current_.
Extensions(history, payload) ==
  [i \in DOMAIN model.arcs[payload] |->
     [history |-> history, arc |-> model.arcs[payload][i]]]

Normalize(score, words) ==
  IF model.length_normalize THEN score \div words ELSE score

\* arc.gain has the length feature in it.
EndingHypothesis(start, arc) ==
  LET prev == <<start>>
  IN [key |-> Hash(arc.word, prev), word |-> arc.word, loc |-> arc.loc, prev |-> prev,
      score |-> Normalize(start.score + arc.gain, length), length |-> length]

\* ExtendAllButScorer
InternalHypothesis(start, arc) ==
  [key |-> arc.to, word |-> arc.word, loc |-> arc.loc,
   score |-> start.score + arc.gain,
   previous |-> HistoryBeam!UseAvailable(HistoryBeam!Reset(model.end_beam_size), start)]

\* FinishMerging: the histories that the hypothesis may be shared as.
FinishMerging(hyp) ==
  {[key |-> Hash(hyp.word, q), score |-> hyp.score, word |-> hyp.word, loc |-> hyp.loc,
    prev |-> q] : q \in HistoryBeam!DecreasingOrders(hyp.previous)}
\* The calls for the hypotheses of current_, best first.
Agendas(order) ==
  LET begun[i \in 0 .. Len(order)] ==
        IF i = 0 THEN {<<>>}
        ELSE {a \o Extensions(history, order[i].key) :
                a \in begun[i - 1], history \in FinishMerging(order[i])}
  IN begun[Len(order)]
-----------------------------------------------------------------------------
DecoderInit ==
  /\ model \in Models
  /\ agenda = Extensions(RootHistory, model.root)
  /\ next = InternalBeam!Reset(model.internal_beam_size)
  /\ ending = EndBeam!Reset(model.end_beam_size)
  /\ length = 2
  /\ delayed = {}
  /\ finished = <<>>
  /\ pc = "extend"

\* ExtendHypothesisByLocation
ExtendToEnd ==
  /\ pc = "extend" /\ agenda # <<>> /\ Head(agenda).arc.to = Ended
  /\ LET hyp == EndingHypothesis(Head(agenda).history, Head(agenda).arc)
     IN ending' \in IF EndBeam!MayMakeIt(ending, hyp.score)
                      THEN EndBeam!InsertAvailable(ending, hyp) ELSE {ending}
  /\ agenda' = Tail(agenda)
  /\ UNCHANGED <<model, next, length, delayed, finished, pc>>

ExtendToNext ==
  /\ pc = "extend" /\ agenda # <<>> /\ Head(agenda).arc.to # Ended
  /\ LET arc == Head(agenda).arc
         hyp == InternalHypothesis(Head(agenda).history, arc)
     IN next' \in IF InternalBeam!MayMakeIt(next, hyp.score) /\ arc.to # Dropped
                    THEN InternalBeam!InsertAvailable(next, hyp) ELSE {next}
  /\ agenda' = Tail(agenda)
  /\ UNCHANGED <<model, ending, length, delayed, finished, pc>>

\* The end of ExtendBeam, and the next round of Run's loop.
NextLayer ==
  /\ pc = "extend" /\ agenda = <<>> /\ next.size > 0
  /\ \E order \in InternalBeam!DecreasingOrders(next) : agenda' \in Agendas(order)
  /\ next' = InternalBeam!Reset(model.internal_beam_size)
  /\ length' = length + 1
  /\ UNCHANGED <<model, ending, delayed, finished, pc>>
-----------------------------------------------------------------------------
(* EndBeam.cc.  A path is the histories from one to the end of sentence;   *)
(* packed says which predecessor of the first is the next to be followed.  *)

WordCount(partial) == partial.node_length + Len(partial.path)

\* The score of a partial history that goes through the given predecessor.
Through(partial, packed) ==
  Normalize(partial.path[1].prev[packed].score, WordCount(partial)) + partial.multiplier

\* The three constructors of PartialHistory.
FirstBest(hyp) ==
  [packed |-> 1, path |-> <<hyp>>, node_length |-> hyp.length - 1,
   multiplier |-> hyp.score - Normalize(hyp.prev[1].score, hyp.length),
   score |-> hyp.score]

\* Mutant: the first choice is recorded instead of the second.
SecondBestFirst(path, node_length, best) ==
  [packed |-> 1, path |-> path, node_length |-> node_length,
   multiplier |-> best - Normalize(path[1].prev[1].score, node_length + Len(path)),
   score |-> best]
SecondBest(path, node_length, best) ==
  LET p == [packed |-> 2, path |-> path, node_length |-> node_length,
            multiplier |-> best - Normalize(path[1].prev[1].score,
                                            node_length + Len(path)),
            score |-> 0]
  IN [p EXCEPT !.score = Through(p, 2)]

\* Mutant: only the second choice is ever taken.
NextBestNone(partial) == {}
NextBest(partial) ==
  IF partial.packed = Len(partial.path[1].prev) THEN {}
  ELSE {[partial EXCEPT !.packed = @ + 1, !.score = Through(partial, partial.packed + 1)]}

\* operator<
Below(left, right) == IF left.score = right.score
                        THEN left.node_length > right.node_length
                        ELSE left.score < right.score

\* The loop of Run is over.
MakeCompletedHypotheses ==
  /\ pc = "extend" /\ agenda = <<>> /\ next.size = 0
  /\ delayed' = {FirstBest(hyp) : hyp \in EndBeam!Values(ending)}
  /\ pc' = IF delayed' = {} THEN "done" ELSE "complete"
  /\ UNCHANGED <<model, agenda, next, ending, length, finished>>

NoHistory == [key |-> <<>>, score |-> 0, word |-> "none", loc |-> "none", prev |-> <<>>]
BestPrevious(history) == IF history.prev = <<>> THEN NoHistory ELSE history.prev[1]

\* The nodes before a partial history's path, the last one first.
Followed(partial) ==
  LET hist[i \in 0 .. partial.node_length - 1] ==
        IF i = 0 THEN partial.path[1].prev[partial.packed] ELSE BestPrevious(hist[i - 1])
  IN hist

\* One round of Completed: sentences holds pointers to crumbs, all of them new.
Complete ==
  /\ pc = "complete"
  /\ \E top \in delayed :
       /\ \A other \in delayed : ~Below(top, other)
       /\ LET steps == 0 .. top.node_length - 1
              hist == Followed(top)
              crumb(i) == [j \in 1 .. i + 1 |-> hist[i + 1 - j]] \o top.path
          IN /\ delayed' = (delayed \ {top}) \cup NextBest(top) \cup
                   {SecondBest(crumb(i), top.node_length - 1 - i, top.score) :
                      i \in {i \in steps : Len(hist[i].prev) > 1}}
             /\ finished' = Append(finished, [score |-> top.score,
                                              path |-> crumb(top.node_length - 1)])
  /\ pc' = IF Len(finished') = model.end_beam_size \/ delayed' = {} THEN "done" ELSE pc
  /\ UNCHANGED <<model, agenda, next, ending, length>>

DecoderNext == \/ ExtendToEnd \/ ExtendToNext \/ NextLayer
        \/ MakeCompletedHypotheses \/ Complete

DecoderSpec == DecoderInit /\ [][DecoderNext]_decoderVars
-----------------------------------------------------------------------------
Arcs == UNION {{model.arcs[p][i] : i \in DOMAIN model.arcs[p]} : p \in DOMAIN model.arcs}

\* What the arcs spell: all beginnings of sentences with n arcs.
Beginnings ==
  LET from[n \in 0 .. Cardinality(DOMAIN model.arcs)] ==
        IF n = 0 THEN {[at |-> model.root, words |-> <<"BOS">>, score |-> 0]}
        ELSE UNION {{[at |-> arc.to, words |-> Append(b.words, arc.word),
                      score |-> b.score + arc.gain] : arc \in Range(model.arcs[b.at])} :
                    b \in {b \in from[n - 1] : b.at \in DOMAIN model.arcs}}
  IN UNION {from[n] : n \in DOMAIN from}

Sentences == {[words |-> b.words, score |-> Normalize(b.score, Len(b.words))] :
                b \in {b \in Beginnings : b.at = Ended}}

WordsOf(hyp) == [i \in DOMAIN hyp.path |-> hyp.path[i].word]

\* No layer fills the beam; a full beam also rejects what could be merged.
Wide == model.internal_beam_size > Cardinality(DOMAIN model.arcs)

\* A payload says which word was last and what it added.
Even == \A a, b \in Arcs : a.to = b.to /\ a.to \in DOMAIN model.arcs =>
                             a.word = b.word /\ a.gain = b.gain

IsBeam(b, max) == /\ b.max = max /\ b.size \in 0 .. max /\ b.available \in 0 .. b.size
                  /\ DOMAIN b.value = (0 .. b.size) \ {b.available}

DecoderOK ==
  /\ model.root \in DOMAIN model.arcs
  /\ pc \in {"extend", "complete", "done"}
  /\ length \in 2 .. 1 + Cardinality(DOMAIN model.arcs)
  /\ IsBeam(next, model.internal_beam_size) /\ IsBeam(ending, model.end_beam_size)
  /\ \A h \in InternalBeam!Values(next) : IsBeam(h.previous, model.end_beam_size)
  /\ \A p \in delayed : p.packed \in DOMAIN p.path[1].prev /\ WordCount(p) \in 2 .. length
  /\ Len(finished) <= model.end_beam_size

(* The score of the first sentence is that of the best sentence there is,  *)
(* unless a beam was too small: recombination, the end beam and            *)
(* normalization lose nothing.                                             *)
BestScoreFound ==
  pc = "done" /\ Wide =>
    IF Sentences = {} THEN finished = <<>>
    ELSE /\ finished # <<>>
         /\ \E s \in Sentences : s.score = finished[1].score
         /\ \A s \in Sentences : s.score <= finished[1].score

(* The lazily built list is in order, though what is pushed while one path *)
(* is followed may come before what was in the queue; every listed path    *)
(* goes through the lattice from the beginning to an end of sentence, and  *)
(* none is listed twice, whichever branch led to it.                       *)
PathsListedInOrder ==
  /\ \A i \in DOMAIN finished :
       LET path == finished[i].path
       IN /\ path[1] = RootHistory
          /\ path[Len(path)] \in EndBeam!Values(ending)
          /\ \A j \in 2 .. Len(path) : path[j - 1] \in Range(path[j].prev)
  /\ \A i, j \in DOMAIN finished : i < j =>
       /\ finished[i].score >= finished[j].score
       /\ finished[i].path # finished[j].path

(* If payloads say what words add, the list has the best sentences, each   *)
(* with its score: the packed predecessors suffice.                        *)
ListHasTheBest ==
  Even =>
    /\ \A i \in DOMAIN finished :
         [words |-> WordsOf(finished[i]), score |-> finished[i].score] \in Sentences
    /\ pc = "done" /\ Wide =>
         \A s \in Sentences :
           \/ \E i \in DOMAIN finished : /\ WordsOf(finished[i]) = s.words
                                         /\ finished[i].score >= s.score
           \/ /\ Len(finished) = model.end_beam_size
              /\ \A i \in DOMAIN finished : finished[i].score >= s.score
=============================================================================
