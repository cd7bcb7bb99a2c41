----------------------------- MODULE Estimation -----------------------------
(***************************************************************************)
(* The first half of lm/builder/pipeline.cc: the corpus is counted, the    *)
(* counts are sorted and combined, and one pass over them adjusts them.    *)
(*                                                                         *)
(* Counting and sorting share a chain, so that blocks are sorted while     *)
(* others are filled.  Adjusting has a chain of its own, whose first       *)
(* worker is the last merge; as a chain passes on what it is given (see    *)
(* Chain), it starts here when that merge has ended.                       *)
(***************************************************************************)
EXTENDS CorpusCount, Sort, AdjustCounts

CONSTANTS Orders, Corpora

VARIABLES
  text,   \* what corpus was
  taken   \* blocks that the sorter has taken

vars == <<countVars, sortVars, adjustVars, text, taken>>

Init == /\ CountInit(Orders, Corpora) /\ SortInit /\ AdjustInit
        /\ text = corpus /\ taken = 0

Count == CountNext /\ UNCHANGED <<sortVars, adjustVars, text, taken>>

TakeBlock == /\ taken < Len(blocks)
             /\ SortBlock(blocks[taken + 1])
             /\ taken' = taken + 1
             /\ UNCHANGED <<countVars, adjustVars, text>>

BlocksEnd == /\ reading = "done" /\ taken = Len(blocks)
             /\ SortedBlocks
             /\ UNCHANGED <<countVars, adjustVars, text, taken>>

SortStep == SortNext /\ UNCHANGED <<countVars, adjustVars, text, taken>>

\* Prune words are known when the corpus has been read.
Adjust == /\ sorting = "done" /\ StartAdjust(order, sorted)
          /\ UNCHANGED <<countVars, sortVars, text, taken>>

AdjustStep == AdjustNext /\ UNCHANGED <<countVars, sortVars, text, taken>>

Done == adjusting = "done" /\ UNCHANGED vars

Step == Count \/ TakeBlock \/ BlocksEnd \/ SortStep \/ Adjust \/ AdjustStep
Next == Step \/ Done
Spec == Init /\ [][Next]_vars
\* Workers are threads that run to their end.
FairSpec == Spec /\ WF_vars(Step)
-----------------------------------------------------------------------------
(* What the corpus has, by definition.                                     *)

\* A sentence as it is counted.
Padded(s, k) == [i \in 1 .. k - 1 |-> kBOS] \o SelectSeq(s, LAMBDA w : w > kEOS) \o <<kEOS>>
Places(k) == UNION {{<<i, j>> : j \in k .. Len(Padded(text[i], k))} : i \in DOMAIN text}
At(k, p) == SubSeq(Padded(text[p[1]], k), p[2] - k + 1, p[2])
\* The n-grams of order k in the corpus.
Grams(k) == {At(k, p) : p \in Places(k)}
\* How often g is in the corpus; g may begin with one <s>.
Occurrences(g) ==
  Cardinality({p \in Places(order) : LastWords(At(order, p), Len(g)) = g})
\* The words that g comes after.
LeftExtensions(g) == {v[1] : v \in {LastWords(h, Len(g) + 1) : h \in {f \in Grams(order) :
                                      LastWords(f, Len(g)) = g}}}
HasPruneWord(g) == \E i \in DOMAIN g : g[i] \in PruneWords

Words(s) == {s[i].words : i \in DOMAIN s}
EachOnce(s) == \A i, j \in DOMAIN s : i # j => s[i].words # s[j].words
InSuffixOrder(s) == \A i \in 1 .. Len(s) - 1 : SuffixOrder(s[i].words, s[i + 1].words)
-----------------------------------------------------------------------------
(* Properties                                                              *)

\* Whatever the blocks, the memory and the number of passes: the sorter puts
\* out every n-gram of the corpus once, in suffix order, with the sum of its
\* counts in all blocks.
SortedEachOnce ==
  sorting = "done" =>
    /\ InSuffixOrder(sorted)
    /\ Words(sorted) = Grams(order) \cup (IF order = 1 THEN {<<kUNK>>, <<kBOS>>} ELSE {})
    /\ \A i \in DOMAIN sorted : sorted[i].count = Occurrences(sorted[i].words)

\* The lower orders: each n-gram once and in suffix order, with the number of
\* words it comes after as its count, or with its full count if it begins with
\* <s>; the mark is for the count it has in the corpus, not for the adjusted
\* one, and never for <unk> and <s>.
LowerOrders ==
  \A k \in DOMAIN out :
    /\ InSuffixOrder(out[k])
    /\ Words(out[k]) =
         {g \in {LastWords(h, k) : h \in Grams(order)} : \A i \in 2 .. k : g[i] # kBOS}
         \cup (IF k = 1 THEN {<<kUNK>>, <<kBOS>>} ELSE {})
    /\ \A i \in DOMAIN out[k] :
         LET g == out[k][i].words IN
         IF g \in {<<kUNK>>, <<kBOS>>}
           THEN out[k][i].count = 0 /\ ~out[k][i].marked
           ELSE /\ out[k][i].count = IF g[1] = kBOS THEN Occurrences(g)
                                                   ELSE Cardinality(LeftExtensions(g))
                /\ out[k][i].marked <=> Occurrences(g) <= Thresholds[k] \/ HasPruneWord(g)

\* The highest order: what is left in the blocks is every n-gram once that has
\* no <s> in its second place, with its count in the corpus, and marked by it
\* wherever in its block it was moved to.  A model of unigrams also has <unk>
\* and <s>, and marks neither of them nor </s>.
FullOrder ==
  /\ EachOnce(full_out)
  /\ Words(full_out) = IF order = 1 THEN Grams(1) \cup {<<kUNK>>, <<kBOS>>}
                                    ELSE {g \in Grams(order) : g[2] # kBOS}
  /\ \A i \in DOMAIN full_out :
       LET g == full_out[i].words IN
       /\ full_out[i].count = Occurrences(g)
       /\ full_out[i].marked <=> /\ order > 1 \/ g[1] > kEOS
                                /\ \/ Occurrences(g) <= Thresholds[order]
                                   \/ HasPruneWord(g)

Output(k) == IF k = order THEN full_out ELSE out[k]
Kept(s) == {i \in DOMAIN s : ~s[i].marked}

\* The counts in the ARPA header are those of the n-grams that were put out.
Header ==
  \A k \in 1 .. order : /\ stats[k].count = Len(Output(k))
                        /\ stats[k].count_pruned = Cardinality(Kept(Output(k)))

\* What the one pass over the sorted n-grams makes of them, whatever the order
\* of the model, the blocks and the thresholds, is what the corpus has.
AdjustedRight == adjusting = "done" => LowerOrders /\ FullOrder /\ Header

\* However many passes sorting takes, estimation ends.  (That it meets neither
\* of the sorter's aborts is that the model has no deadlock.)
EstimationEnds == <>(adjusting = "done")

\* "n_1 in equation 26 of Chen and Goodman etc": n[j] is the number of n-grams
\* whose adjusted count is j, on which the discounts depend.
CountsOfCounts ==
  adjusting = "done" =>
    \A k \in 1 .. order, j \in 1 .. 4 :
      stats[k].n[j] = Cardinality({i \in DOMAIN Output(k) : Output(k)[i].count = j})
=============================================================================
