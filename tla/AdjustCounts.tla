---------------------------- MODULE AdjustCounts ----------------------------
(***************************************************************************)
(* lm/builder/adjust_counts.cc: one pass over the sorted n-grams of the    *)
(* highest order puts out the n-grams of all lower orders with their       *)
(* Kneser-Ney counts, marks what is to be pruned, collects statistics, and *)
(* takes the n-grams with <s> in their second place out of the stream.     *)
(***************************************************************************)
EXTENDS NGrams

CONSTANTS AdjustBlock,   \* n-grams in a block of the highest order's chain
          Thresholds,    \* prune_thresholds_, for any order up to their number
          PruneWords     \* prune_words_

ASSUME AdjustAssumption ==
  /\ AdjustBlock \in Nat \ {0}
  /\ Thresholds \in Seq(Nat) /\ PruneWords \cap {kUNK, kBOS, kEOS} = {}

VARIABLES
  n,          \* the highest order
  adjusting,  \* where Run is
  rest,       \* the n-grams in blocks that CollapseStream has not had yet
  block, at,  \* its block, and where current_ is in it
  copy_from,  \* the last place before which no n-gram was taken to fill a gap
  full_out,   \* the n-grams in the blocks passed on
  lower,      \* per lower order, the n-gram its stream points to
  valid,      \* how many of them are valid: lower_valid
  actual,     \* actual_counts
  out,        \* per lower order, what its stream has passed on
  stats       \* per order [count, count_pruned, n]

adjustVars == <<n, adjusting, rest, block, at, copy_from, full_out, lower, valid,
                actual, out, stats>>
streamVars == <<rest, block, at, copy_from, full_out>>

\* actual_counts[0] for <s>, numeric_limits<uint64_t>::max(): more than any
\* threshold.
Unlimited == 1000

Marked(g, mark) == [g EXCEPT !.marked = @ \/ mark]
\* An n-gram of order k that occurs count times in the corpus is pruned.
ToPrune(g, k, count) ==
  count <= Thresholds[k] \/ \E i \in DOMAIN g.words : g.words[i] \in PruneWords

\* StatCollector::Add and AddFull.
NoStat == [count |-> 0, count_pruned |-> 0, n |-> [j \in 0 .. 4 |-> 0]]
Add(stat, count, pruned) ==
  [count |-> stat.count + 1,
   count_pruned |-> stat.count_pruned + (IF pruned THEN 0 ELSE 1),
   n |-> [j \in 0 .. 4 |-> stat.n[j] + (IF j = count THEN 1 ELSE 0)]]

AdjustInit ==
  /\ n = 0 /\ adjusting = "waiting"
  /\ rest = <<>> /\ block = <<>> /\ at = 0 /\ copy_from = 0 /\ full_out = <<>>
  /\ lower = <<>> /\ valid = 0 /\ actual = <<>> /\ out = <<>> /\ stats = <<>>
-----------------------------------------------------------------------------
(* CollapseStream.  Behind the place it is at, it fills n-grams that have  *)
(* <s> in the second place with others from the end of the block.          *)

HasGap(g) == g.words[2] = kBOS

\* UpdateCopyFrom: the last n-gram in i .. from - 1 that stays, or i - 1.
CopyFrom(b, i, from) ==
  LET stay == {j \in i .. from - 1 : ~HasGap(b[j])} IN
  IF stay = {} THEN i - 1 ELSE CHOOSE j \in stay : \A k \in stay : k <= j

\* The n-gram at place i of b, marked as operator++ and StartBlock do when they
\* come to it.
Arrived(b, i) == [b EXCEPT ![i] = Marked(@, ToPrune(@, n', @.count))]

\* StartBlock, s being all that is left in the chain.  An empty block is passed
\* over; after it comes the poison.
StartBlock(s) ==
  LET size == IF Len(s) < AdjustBlock THEN Len(s) ELSE AdjustBlock
      b == SubSeq(s, 1, size)
  IN /\ rest' = SubSeq(s, size + 1, Len(s))
     /\ block' = IF size = 0 THEN <<>> ELSE Arrived(b, 1)
     /\ at' = IF size = 0 THEN 0 ELSE 1
     /\ copy_from' = IF size = 0 THEN 0 ELSE CopyFrom(b, 1, size + 1)

\* Mutant: an n-gram moved into a gap is not marked there.
NextFullUnmarked ==
  LET gap == HasGap(block[at]) /\ at < copy_from
      b == IF gap THEN [block EXCEPT ![at] = block[copy_from]] ELSE block
      from == IF gap THEN CopyFrom(b, at, copy_from) ELSE copy_from
  IN IF at < Len(block)
       THEN /\ block' = Arrived(b, at + 1) /\ at' = at + 1 /\ copy_from' = from
            /\ UNCHANGED <<rest, full_out>>
       ELSE full_out' = full_out \o SubSeq(b, 1, from) /\ StartBlock(rest)
\* operator++
NextFull ==
  LET gap == HasGap(block[at]) /\ at < copy_from
      b == IF gap THEN Arrived([block EXCEPT ![at] = block[copy_from]], at) ELSE block
      from == IF gap THEN CopyFrom(b, at, copy_from) ELSE copy_from
  IN IF at < Len(block)
       THEN /\ block' = Arrived(b, at + 1) /\ at' = at + 1 /\ copy_from' = from
            /\ UNCHANGED <<rest, full_out>>
       ELSE full_out' = full_out \o SubSeq(b, 1, from) /\ StartBlock(rest)
-----------------------------------------------------------------------------
(* AdjustCounts::Run                                                       *)

\* Before the loop: <unk> is put out with count 0, and so will be <s>.
StartAdjust(order, sorted) ==
  /\ adjusting = "waiting"
  /\ n' = order
  /\ adjusting' = IF order = 1 THEN "unigrams" ELSE "loop"
  /\ IF order = 1
       THEN /\ rest' = sorted /\ block' = <<>> /\ at' = 0 /\ copy_from' = 0
            /\ lower' = <<>> /\ out' = <<>> /\ stats' = <<NoStat>> /\ actual' = <<>> /\ valid' = 0
       ELSE /\ StartBlock(sorted)
            /\ lower' = [k \in 1 .. order - 1 |-> NGram(<<kBOS>>, 0)]
            /\ out' = [k \in 1 .. order - 1 |-> IF k = 1 THEN <<NGram(<<kUNK>>, 0)>> ELSE <<>>]
            /\ stats' = [k \in 1 .. order |-> IF k = 1 THEN Add(NoStat, 0, FALSE) ELSE NoStat]
            /\ actual' = [k \in 1 .. order - 1 |-> IF k = 1 THEN Unlimited ELSE 0]
            /\ valid' = 1
  /\ UNCHANGED full_out

\* A model of unigrams only: <unk>, <s> and </s> are never pruned.
AdjustUnigram ==
  /\ adjusting = "unigrams" /\ rest # <<>>
  /\ LET gram == Head(rest)
         pruned == gram.words[1] > kEOS /\ ToPrune(gram, 1, gram.count)
     IN /\ full_out' = Append(full_out, Marked(gram, pruned))
        /\ stats' = <<Add(stats[1], gram.count, pruned)>>
  /\ rest' = Tail(rest)
  /\ UNCHANGED <<n, adjusting, block, at, copy_from, lower, valid, actual, out>>

\* FindDifference: how many of the last words of full and of the n-gram of the
\* highest valid order are the same.
Same(full, last) ==
  CHOOSE m \in 0 .. Len(last) :
    /\ LastWords(full, m) = LastWords(last, m)
    /\ m < Len(last) => full[Len(full) - m] # last[Len(last) - m]

\* The n-gram of order k as it is put out.
PutOut(k) == Marked(lower[k], ToPrune(lower[k], k, actual[k]))

\* STEP 3 for order k: it has one left extension so far, or begins with <s>
\* and keeps its full count.
NewLower(full, k) ==
  NGram(LastWords(full.words, k),
        IF full.words[Len(full.words) - k + 1] = kBOS THEN full.count ELSE 1)

\* One turn of the loop for the n-gram that CollapseStream is at.
AdjustNGram ==
  /\ adjusting = "loop" /\ block # <<>>
  /\ UNCHANGED <<n, adjusting>>
  /\ LET full == block[at]
         same == Same(full.words, lower[valid].words)
         \* Where the loop over bos ends: at <s> or at the first word.
         bos == CHOOSE i \in 1 .. n - same :
                  /\ i = 1 \/ full.words[i] = kBOS
                  /\ \A j \in i + 1 .. n - same : full.words[j] # kBOS
         last == IF bos = 1 THEN n - 1 ELSE n - bos + 1
         old == same + 1 .. valid   \* put out in STEP 1
     IN /\ out' = [k \in DOMAIN out |-> IF k \in old THEN Append(out[k], PutOut(k)) ELSE out[k]]
        /\ stats' = [k \in DOMAIN stats |->
             CASE k \in old -> Add(stats[k], lower[k].count, PutOut(k).marked)
               [] k = n /\ bos = 1 -> Add(stats[n], full.count, full.marked)
               [] OTHER -> stats[k]]
        /\ lower' = [k \in DOMAIN lower |->
             CASE k \in same + 1 .. last -> NewLower(full, k)
               [] k = same -> [lower[k] EXCEPT !.count = @ + 1]
               [] OTHER -> lower[k]]
        /\ actual' = [k \in DOMAIN actual |->
             CASE k <= same -> actual[k] + full.count
               [] k \in same + 1 .. last -> full.count
               [] OTHER -> actual[k]]
        /\ valid' = last
  /\ NextFull

\* After the loop the n-grams that are still valid are put out; the statistics
\* are given their actual counts.
AdjustEnd ==
  /\ adjusting = "loop" /\ block = <<>>
  /\ out' = [k \in DOMAIN out |-> IF k <= valid THEN Append(out[k], PutOut(k)) ELSE out[k]]
  /\ stats' = [k \in DOMAIN stats |->
       IF k <= valid THEN Add(stats[k], actual[k], PutOut(k).marked) ELSE stats[k]]
  /\ adjusting' = "done"
  /\ UNCHANGED <<n, streamVars, lower, valid, actual>>

AdjustUnigramsEnd ==
  /\ adjusting = "unigrams" /\ rest = <<>>
  /\ adjusting' = "done"
  /\ UNCHANGED <<n, streamVars, lower, valid, actual, out, stats>>

AdjustNext == AdjustUnigram \/ AdjustUnigramsEnd \/ AdjustNGram \/ AdjustEnd
=============================================================================
