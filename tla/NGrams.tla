------------------------------- MODULE NGrams -------------------------------
(***************************************************************************)
(* The n-grams that lm/builder counts, sorts and adjusts (ngram.hh) and    *)
(* the order it sorts them in (SuffixOrder of sort.hh).                    *)
(***************************************************************************)
EXTENDS Integers, Sequences, FiniteSets

kUNK == 0
kBOS == 1
kEOS == 2

\* An n-gram with the count behind it; "marked" is the count's top bit, which
\* says that the n-gram is to be pruned.
NGram(words, count) == [words |-> words, count |-> count, marked |-> FALSE]

\* SuffixOrder::Compare: the last words decide first.
SuffixOrder(g, h) ==
  \E i \in 1 .. Len(g) : g[i] < h[i] /\ \A j \in i + 1 .. Len(g) : g[j] = h[j]

\* The last n words of g.
LastWords(g, n) == SubSeq(g, Len(g) - n + 1, Len(g))
=============================================================================
