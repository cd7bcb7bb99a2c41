------------------------------- MODULE Chart -------------------------------
(***************************************************************************)
(* lm/left.hh: rules of a chart decoder are scored from left to right,     *)
(* from words and from smaller fragments of which only the ChartState is   *)
(* known.  The rules that are being scored are a stack; the top one is     *)
(* finished and becomes a non-terminal of the one below it.                *)
(***************************************************************************)
EXTENDS LanguageModel

CONSTANTS MaxWords,   \* words in all rules of the stack, <s> not counted
          MaxRules    \* rules on the stack

VARIABLES rules   \* RuleScores, the top one last

vars == <<lmVars, rules>>

\* A RuleScore with its ChartState: pointers are n-grams.  "fragment" is what
\* was scored, in the order of the sentence; the code does not keep it.
NewRule == [fragment |-> <<>>, left |-> <<>>, right |-> NullContext,
            left_done |-> FALSE, prob |-> 0]
Full(r) == r.left_done \/ Len(r.left) = Order - 1
-----------------------------------------------------------------------------
\* ProcessRet
Charge(r, ret) ==
  IF r.left_done \/ ret.independent_left
    THEN [r EXCEPT !.prob = @ + ret.prob, !.left_done = TRUE]
    ELSE [r EXCEPT !.prob = @ + ret.rest, !.left = Append(@, ret.extend_left)]

\* Mutant: the left state goes on after the right state was shortened.
TerminalLeftOpen(r, word) ==
  LET s == FullScore(r.right, word)
      charged == Charge(r, s.ret)
  IN [charged EXCEPT !.right = s.out, !.fragment = Append(@, word)]
Terminal(r, word) ==
  LET s == FullScore(r.right, word)
      charged == Charge(r, s.ret)
  IN [charged EXCEPT !.right = s.out, !.fragment = Append(@, word),
        !.left_done = @ \/ Len(s.out.words) # Len(r.right.words) + 1]

\* NonTerminal, r's words having a state: the n-grams of in's left state are
\* extended one after the other.  w.use is next_use, w.back the backoffs of
\* what the last one became; w.gone after the early exit.
Extend(in, w, i) ==
  IF w.gone THEN w ELSE
  LET r == w.rule
      ret == ExtendLeft(SubSeq(r.right.words, 1, w.use), w.back, in.left[i])
      charged == Charge(r, ret)
      shorter == ret.next_use # Len(r.right.words)
      done == [charged EXCEPT !.left_done = @ \/ shorter]
  IN IF ret.next_use = 0
       THEN [rule |-> [done EXCEPT !.prob = @ + UnRest(SubSeq(in.left, i + 1, Len(in.left))),
                                   !.right = in.right],
             use |-> 0, back |-> <<>>, gone |-> TRUE]
       ELSE [rule |-> done, use |-> ret.next_use, back |-> ret.backoff, gone |-> FALSE]

\* After the last of them.
\* Mutant: the backoffs of the words are taken again, not those of the n-grams
\* they are part of now.
JoinOldBackoff(in, w) ==
  LET r == w.rule IN
  CASE w.gone -> r
    [] Full(in) /\ ~w.gone ->
         [r EXCEPT !.prob = @ + Sum(SubSeq(w.back, 1, w.use)), !.left_done = TRUE,
                   !.right = in.right]
    [] OTHER ->
         IF Len(in.right.words) < Len(in.left) THEN [r EXCEPT !.right = in.right]
         ELSE [r EXCEPT !.right =
                [words |-> in.right.words \o SubSeq(r.right.words, 1, w.use),
                 backoff |-> in.right.backoff \o SubSeq(r.right.backoff, 1, w.use)]]
Join(in, w) ==
  LET r == w.rule IN
  CASE w.gone -> r
    [] Full(in) /\ ~w.gone ->
         [r EXCEPT !.prob = @ + Sum(SubSeq(w.back, 1, w.use)), !.left_done = TRUE,
                   !.right = in.right]
    [] OTHER ->
         IF Len(in.right.words) < Len(in.left) THEN [r EXCEPT !.right = in.right]
         ELSE [r EXCEPT !.right =
                [words |-> in.right.words \o SubSeq(r.right.words, 1, w.use),
                 backoff |-> in.right.backoff \o SubSeq(w.back, 1, w.use)]]

\* NonTerminal; its prob was in's own score.
NonTerminal(old, in) ==
  LET r == [old EXCEPT !.prob = @ + in.prob, !.fragment = @ \o in.fragment] IN
  CASE in.left = <<>> ->
         IF Full(in) THEN [r EXCEPT !.prob = @ + Sum(r.right.backoff),
                                    !.left_done = TRUE, !.right = in.right]
                     ELSE r
    [] in.left # <<>> /\ r.right.words = <<>> ->
         IF r.left_done THEN [r EXCEPT !.right = in.right, !.prob = @ + UnRest(in.left)]
         ELSE IF r.left # <<>> THEN [r EXCEPT !.right = in.right, !.left_done = TRUE]
         ELSE [r EXCEPT !.right = in.right, !.left = in.left, !.left_done = Full(in)]
    [] OTHER ->
         Join(in, FoldLeftDomain(LAMBDA w, i : Extend(in, w, i),
                                 [rule |-> r, use |-> Len(r.right.words),
                                  back |-> r.right.backoff, gone |-> FALSE],
                                 in.left))

(* Subsume of lm/partial.hh: two finished fragments become one.            *)

\* A turn of the loops of ExtendLoop over the right fragment's pointers:
\* v.write while n-grams still go to the left state, v.used pointers so far.
ExtendPartly(first, v, i) ==
  IF v.use = 0 /\ ~v.write THEN v ELSE
  LET ret == ExtendLeft(SubSeq(first.right.words, 1, v.use), v.back, v.pointers[i])
      extended == [v EXCEPT !.back = ret.backoff, !.use = ret.next_use, !.used = i]
  IN CASE v.write /\ ~ret.independent_left ->
            [extended EXCEPT !.adjust = @ + ret.rest, !.left = Append(@, ret.extend_left),
                             !.write = ret.next_use = Len(first.right.words),
                             !.full = ret.next_use # Len(first.right.words)]
       [] v.write /\ ret.independent_left ->
            [extended EXCEPT !.adjust = @ + ret.prob, !.write = FALSE, !.full = TRUE]
       [] OTHER -> [extended EXCEPT !.adjust = @ + ret.prob]

Subsume(first, second) ==
  LET v == FoldLeftDomain(LAMBDA w, i : ExtendPartly(first, w, i),
             [adjust |-> 0, left |-> first.left, write |-> ~Full(first), full |-> FALSE,
              use |-> Len(first.right.words), back |-> first.right.backoff, used |-> 0,
              pointers |-> second.left], second.left)
      unrest == UnRest(SubSeq(second.left, v.used + 1, Len(second.left)))
      backoffs == SubSeq(v.back, 1, v.use)
      right == IF Full(second) THEN second.right
               ELSE [words |-> second.right.words \o SubSeq(first.right.words, 1, v.use),
                     backoff |-> second.right.backoff \o backoffs]
  IN [fragment |-> first.fragment \o second.fragment,
      prob |-> first.prob + second.prob + v.adjust + unrest
                 + (IF Full(second) THEN Sum(backoffs) ELSE 0),
      left |-> v.left, right |-> right,
      left_done |-> \/ Full(first) \/ v.full \/ Full(second)
                    \/ Len(right.words) = Order - 1 \/ Len(v.left) = Order - 1]
-----------------------------------------------------------------------------
Init == LMInit /\ rules = <<>>

Top == rules[Len(rules)]
SetTop(r) == rules' = [rules EXCEPT ![Len(rules)] = r]
Words == Sum([i \in DOMAIN rules |->
                Cardinality({j \in DOMAIN rules[i].fragment : rules[i].fragment[j] # BOS})])

Load == LMNext /\ UNCHANGED rules

StartRule == /\ loading = "ready" /\ Len(rules) < MaxRules
             /\ rules' = Append(rules, NewRule)
             /\ UNCHANGED lmVars

\* Before any word, and in the leftmost rule only.
BeginSentence ==
  /\ rules # <<>> /\ \A i \in DOMAIN rules : rules[i] = NewRule
  /\ SetTop([NewRule EXCEPT !.right = BeginSentenceState, !.left_done = TRUE,
                            !.fragment = <<BOS>>])
  /\ UNCHANGED lmVars

ScoreTerminal(word) ==
  /\ rules # <<>> /\ Words < MaxWords
  /\ SetTop(Terminal(Top, word))
  /\ UNCHANGED lmVars

\* Finish, and the rule below goes on with what has become its non-terminal.
ScoreNonTerminal ==
  /\ Len(rules) > 1
  /\ LET below == rules[Len(rules) - 1] IN
     rules' = Append(SubSeq(rules, 1, Len(rules) - 2), NonTerminal(below, Top))
  /\ UNCHANGED lmVars

\* If that is the first of the rule, its state can just be taken over.
BeginNonTerminal ==
  /\ Len(rules) > 1 /\ rules[Len(rules) - 1] = NewRule
  /\ rules' = Append(SubSeq(rules, 1, Len(rules) - 2), [Top EXCEPT !.left_done = Full(Top)])
  /\ UNCHANGED lmVars

SubsumeRules ==
  /\ Len(rules) > 1 /\ Top.fragment # <<>> /\ rules[Len(rules) - 1].fragment # <<>>
  /\ rules' = Append(SubSeq(rules, 1, Len(rules) - 2), Subsume(rules[Len(rules) - 1], Top))
  /\ UNCHANGED lmVars

Next == \/ Load \/ StartRule \/ BeginSentence
        \/ \E word \in Vocab \ {BOS} : ScoreTerminal(word)
        \/ ScoreNonTerminal \/ BeginNonTerminal \/ SubsumeRules
Spec == Init /\ [][Next]_vars
-----------------------------------------------------------------------------
(* What the scores should be: the definition of a backoff model, with the  *)
(* file alone.  h is all that comes before a word, backwards.              *)

InFile(g) == Len(g) = 1 \/ g \in file
FileBackoff(c) == IF Len(c) < Order /\ InFile(c) THEN BackoffOf(c) ELSE 0
Matched(word, h) ==
  Largest({k \in 1 .. 1 + Len(h) : k <= Order /\ InFile(SubSeq(<<word>> \o h, 1, k))})
BackoffScore(word, h) ==
  LET k == Matched(word, h)
      m == Len(UpTo(h, Order - 1))
  IN ProbOf(SubSeq(<<word>> \o h, 1, k))
       + Sum([j \in 1 .. m - k + 1 |-> FileBackoff(SubSeq(h, 1, k + j - 1))])

\* All n-grams the tables have for the file: also what is dropped from the
\* left of those in it.
Closure == UNION {{SubSeq(g, 1, k) : k \in 1 .. Len(g)} : g \in file} \cup {<<w>> : w \in Vocab}
Score(g) == BackoffScore(g[1], Tail(g))
\* What a word scores that may still be extended to the left.
Rest(g) == IF max_rest THEN Largest({Score(h) : h \in {f \in Closure : IsPrefix(g, f)}})
                      ELSE Score(g)

\* The words before place i, backwards.
Before(s, i) == Reverse(SubSeq(s, 1, i - 1))
\* The words of h, the last one first, from which a longer n-gram goes on, and
\* those that have a backoff to be charged or go on.
Longest(h, P(_)) == SubSeq(h, 1, Largest({0} \cup {k \in 1 .. Len(h) : k < Order /\ P(SubSeq(h, 1, k))}))
GoesOn(c) == \E f \in Closure : Tail(f) = c
GoesOnOrCosts(c) == GoesOn(c) \/ (InFile(c) /\ BackoffOf(c) # 0)
-----------------------------------------------------------------------------
(* Properties                                                              *)

\* However a sentence is put together from fragments: what has been charged for
\* it and the backoffs that are due with the next word are what a backoff model
\* gives every word after all before it.  In a fragment the words that can
\* still be extended to the left count with their rest cost.
ScoreRight ==
  \A i \in DOMAIN rules : LET r == rules[i] h == Reverse(r.fragment) IN
    r.prob + Sum(r.right.backoff) =
      Sum([j \in DOMAIN r.fragment |->
             CASE r.fragment[j] = BOS -> 0
               [] r.fragment[j] # BOS /\ j <= Len(r.left) ->
                    Rest(Reverse(SubSeq(r.fragment, 1, j)))
               [] OTHER -> BackoffScore(r.fragment[j], Before(r.fragment, j))])
      + Sum([k \in 1 .. Len(UpTo(h, Order - 1)) |-> FileBackoff(SubSeq(h, 1, k))])

\* However a fragment was put together, its right state has the words that
\* longer n-grams go on from, so that no later score can miss them, and at most
\* those that have backoffs, so that hypotheses recombine.
RightStateRight ==
  \A i \in DOMAIN rules : LET right == rules[i].right h == Reverse(rules[i].fragment) IN
    /\ IsPrefix(Longest(h, GoesOn), right.words)
    /\ IsPrefix(right.words, Longest(h, GoesOnOrCosts))
    /\ right.backoff = [k \in DOMAIN right.words |-> FileBackoff(SubSeq(right.words, 1, k))]

\* Left is compared by its last pointer, its length and full only: the pointers
\* are the fragment's first words, one more each, and as long as the left state
\* is not full it has all of them, and the right state, too.
LeftStateRight ==
  \A i \in DOMAIN rules : LET r == rules[i] IN
    /\ \A j \in DOMAIN r.left : r.left[j] = Reverse(SubSeq(r.fragment, 1, j))
    /\ ~Full(r) => Len(r.left) = Len(r.fragment) /\ Len(r.right.words) = Len(r.fragment)

\* The calls that need no state agree with a score after the state of the
\* context, and with its definition, on any context.
ForgottenStateFound ==
  loading = "ready" /\ rules = <<>> =>
    \A c \in BoundedSeq(Vocab, Order), word \in Vocab \ {BOS} :
      LET forgot == FullScoreForgotState(c, word)
          scored == FullScore(GetState(c), word)
      IN /\ forgot.ret.prob = BackoffScore(word, c)
         /\ scored.ret.prob = forgot.ret.prob
         /\ scored.out = forgot.out
         /\ GetState(<<word>> \o c) = forgot.out
=============================================================================
