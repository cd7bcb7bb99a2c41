--------------------------- MODULE LanguageModel ---------------------------
(***************************************************************************)
(* The probing language model: lm/search_hashed.cc loads an ARPA file into *)
(* hash tables, lm/model.cc looks scores and states up in them.            *)
(*                                                                         *)
(* An n-gram is written as the code holds it (vocab_ids), the last word    *)
(* first, and stands for its hash: two n-grams never collide.  Log         *)
(* probabilities are integers.  The two signs of a float that the code     *)
(* uses as flags are fields: extends_left (prob has no sign) and           *)
(* extension (backoff is not -0.0).                                        *)
(***************************************************************************)
EXTENDS Integers, Sequences, FiniteSets, SequencesExt

CONSTANTS Order,        \* P::Order()
          Vocab, BOS,   \* the words, <s> among them
          Files,        \* sets of n-grams, of order 2 and more
          ProbOf(_), BackoffOf(_)   \* what a file says of an n-gram

ASSUME LMAssumption ==
  /\ Order \in Nat \ {0, 1} /\ BOS \in Vocab
  /\ \A g \in UNION Files : Len(g) \in 2 .. Order /\ g \in Seq(Vocab)

VARIABLES
  max_rest,  \* is it built by MaxRestBuild, or by NoRestBuild?
  file,      \* the n-grams of the file
  unread,    \* those that are still to be read
  table,     \* unigram_ and middle_: an n-gram's weights
  longest,   \* longest_: an n-gram's probability
  loading    \* "reading", "ready", or "failed" when an exception left it

lmVars == <<max_rest, file, unread, table, longest, loading>>

Largest(S) == CHOOSE x \in S : \A y \in S : y <= x
Sum(s) == FoldLeft(LAMBDA a, b : a + b, 0, s)
-----------------------------------------------------------------------------
(* Loading                                                                 *)

\* ReadBackoff makes every zero a negative one.
Weights(prob, backoff) ==
  [prob |-> prob, extends_left |-> FALSE, rest |-> prob,
   backoff |-> backoff, extension |-> backoff # 0]

LMInit ==
  /\ max_rest \in BOOLEAN /\ file \in Files /\ unread = file
  /\ table = [g \in {<<w>> : w \in Vocab} |-> Weights(ProbOf(g), BackoffOf(g))]
  /\ longest = <<>>
  /\ loading = "reading"

\* MarkExtends of NoRestBuild and of MaxRestBuild.
MarkExtends(weights, rest) ==
  [weights EXCEPT !.extends_left = TRUE,
                  !.rest = IF max_rest /\ @ < rest THEN rest ELSE @]

\* FindLower: the n-grams from g's lower order down to the first that the
\* tables have; AdjustLower gives those between their probabilities.
Basis(g) == Largest({k \in 1 .. Len(g) - 1 : SubSeq(g, 1, k) \in DOMAIN table})
\* The contexts that AdjustLower backs off from, for the blank of order k.
ContextsUpTo(g, k) == {SubSeq(g, 2, j) : j \in Basis(g) + 1 .. k}
Blank(g, k) ==
  Weights(table[SubSeq(g, 1, Basis(g))].prob
            + Sum([j \in 1 .. k - Basis(g) |->
                     LET context == SubSeq(g, 2, Basis(g) + j) IN
                     IF context \in DOMAIN table THEN table[context].backoff ELSE 0]),
          0)
WithBlanks(g) ==
  LET blanks == {SubSeq(g, 1, k) : k \in Basis(g) + 1 .. Len(g) - 1} IN
  [h \in DOMAIN table \cup blanks |->
     IF h \in blanks THEN Blank(g, Len(h)) ELSE table[h]]

\* Mutant: only the entry right below g learns that it extends left.
ExtendLowerOnce(t, g, prob) ==
  [h \in DOMAIN t |->
     IF h = SubSeq(g, 1, Len(g) - 1) THEN MarkExtends(t[h], prob) ELSE t[h]]
\* AdjustLower marks blanks and their basis, each with the rest of the one
\* above it; MarkLower goes on to the orders below, where NoRestBuild has
\* nothing more to do.
ExtendLower(t, g, prob) ==
  [h \in DOMAIN t |->
     IF IsStrictPrefix(h, g)
       THEN MarkExtends(t[h], Largest({prob} \cup {t[SubSeq(g, 1, k)].rest :
                                                  k \in Len(h) + 1 .. Len(g) - 1}))
       ELSE t[h]]

\* SetExtension on the contexts of the blanks and, by Activate, on g's own.
Activate(t, contexts) ==
  [h \in DOMAIN t |-> IF h \in contexts THEN [t[h] EXCEPT !.extension = TRUE] ELSE t[h]]

\* One turn of the loop of ReadNGrams; the file has its orders one after the
\* other, and each in any order.
ReadNGram(g) ==
  /\ loading = "reading" /\ g \in unread
  /\ \A h \in unread : Len(g) <= Len(h)
  /\ unread' = unread \ {g}
  /\ LET lower == ExtendLower(WithBlanks(g), g, ProbOf(g))
         stored == IF Len(g) = Order THEN lower
                   ELSE (g :> Weights(ProbOf(g), BackoffOf(g))) @@ lower
     IN /\ longest' = IF Len(g) = Order THEN (g :> ProbOf(g)) @@ longest ELSE longest
        /\ table' = Activate(stored, ContextsUpTo(g, Len(g) - 1) \cup {Tail(g)})
        /\ loading' = IF Tail(g) \in DOMAIN stored THEN loading ELSE "failed"
  /\ UNCHANGED <<max_rest, file>>

FinishedLoading ==
  /\ loading = "reading" /\ unread = {}
  /\ loading' = "ready"
  /\ UNCHANGED <<max_rest, file, unread, table, longest>>

LMNext == FinishedLoading \/ \E g \in unread : ReadNGram(g)
-----------------------------------------------------------------------------
(* Queries                                                                 *)

\* State: words backwards and the backoffs of the n-grams they make up.
NullContext == [words |-> <<>>, backoff |-> <<>>]
BeginSentenceState == [words |-> <<BOS>>, backoff |-> <<table[<<BOS>>].backoff>>]

Found(g) == g \in DOMAIN table \/ g \in DOMAIN longest

\* ResumeScore: how long g becomes when words of the context c are added to it.
Reached(g, c) ==
  Largest({k \in Len(g) .. Len(g) + Len(c) :
             \A j \in Len(g) .. k - 1 : LET h == SubSeq(g \o c, 1, j) IN
               /\ j < Order /\ table[h].extends_left
               /\ Found(SubSeq(g \o c, 1, j + 1))})

\* What it returns: backoff and next_use are of the orders above Len(g).
\* Mutant: an n-gram without a backoff ends the state.
ResumeScoreAnyExtension(g, c) ==
  LET k == Reached(g, c)
      h == SubSeq(g \o c, 1, k)
      middle == {j \in Len(g) + 1 .. k : j < Order}
      used == {Len(g)} \cup {j \in middle : table[SubSeq(h, 1, j)].backoff # 0}
  IN [ngram_length |-> k,
      prob |-> IF k = Order THEN longest[h] ELSE table[h].prob,
      rest |-> IF k = Order THEN longest[h] ELSE table[h].rest,
      independent_left |-> IF k = Order \/ k < Len(g) + Len(c) THEN TRUE
                                                              ELSE ~table[h].extends_left,
      extend_left |-> h,
      backoff |-> [i \in 1 .. Cardinality(middle) |->
                     table[SubSeq(h, 1, Len(g) + i)].backoff],
      next_use |-> Largest(used)]
ResumeScore(g, c) ==
  LET k == Reached(g, c)
      h == SubSeq(g \o c, 1, k)
      middle == {j \in Len(g) + 1 .. k : j < Order}
      used == {Len(g)} \cup {j \in middle : table[SubSeq(h, 1, j)].extension}
  IN [ngram_length |-> k,
      prob |-> IF k = Order THEN longest[h] ELSE table[h].prob,
      rest |-> IF k = Order THEN longest[h] ELSE table[h].rest,
      independent_left |-> IF k = Order \/ k < Len(g) + Len(c) THEN TRUE
                                                              ELSE ~table[h].extends_left,
      extend_left |-> h,
      backoff |-> [i \in 1 .. Cardinality(middle) |->
                     table[SubSeq(h, 1, Len(g) + i)].backoff],
      next_use |-> Largest(used)]

\* ScoreExceptBackoff: the score of word after c, and the state after it.
ScoreExceptBackoff(c, word) ==
  LET ret == ResumeScore(<<word>>, c)
      length == IF ret.next_use = 1 /\ ~table[<<word>>].extension THEN 0 ELSE ret.next_use
  IN [ret |-> ret,
      out |-> [words |-> SubSeq(<<word>> \o c, 1, length),
               backoff |-> SubSeq(<<table[<<word>>].backoff>> \o ret.backoff, 1, length)]]

FullScore(in, word) ==
  LET s == ScoreExceptBackoff(in.words, word) IN
  [out |-> s.out,
   ret |-> [s.ret EXCEPT !.prob =
              @ + Sum(SubSeq(in.backoff, s.ret.ngram_length, Len(in.words)))]]

\* The context's n-grams from its last word on that the tables have.
KnownContext(c) ==
  Largest({k \in 0 .. Len(c) : \A j \in 1 .. k : SubSeq(c, 1, j) \in DOMAIN table})
UpTo(c, n) == SubSeq(c, 1, IF Len(c) < n THEN Len(c) ELSE n)

FullScoreForgotState(context, word) ==
  LET c == UpTo(context, Order - 1)
      s == ScoreExceptBackoff(c, word)
  IN [out |-> s.out,
      ret |-> [s.ret EXCEPT !.prob =
                 @ + Sum([i \in 1 .. KnownContext(c) - s.ret.ngram_length + 1 |->
                            table[SubSeq(c, 1, s.ret.ngram_length + i - 1)].backoff])]]

GetState(context) ==
  LET c == UpTo(context, Order - 1)
      length == Largest({0} \cup {k \in 1 .. KnownContext(c) : table[SubSeq(c, 1, k)].extension})
  IN [words |-> SubSeq(c, 1, length),
      backoff |-> [i \in 1 .. length |-> table[SubSeq(c, 1, i)].backoff]]

\* ExtendLeft: what the n-gram g is worth more when c, with backoffs b, comes
\* before it; next_use is how much of c the next n-gram can use.
ExtendLeft(c, b, g) ==
  LET ret == ResumeScore(g, c) IN
  [ret EXCEPT !.prob = @ + Sum(SubSeq(b, ret.ngram_length - Len(g) + 1, Len(c))) - table[g].rest,
              !.rest = @ - table[g].rest,
              !.next_use = @ - Len(g)]

\* UnRest: from rest costs back to probabilities.
UnRest(grams) == Sum([i \in DOMAIN grams |-> table[grams[i]].prob - table[grams[i]].rest])
=============================================================================
