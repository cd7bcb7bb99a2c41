----------------------------- MODULE UsedWords ------------------------------
(***************************************************************************)
(* What a strategy::horizon::Coverage promises: it is the set of words of  *)
(* one engine that a hypothesis has consumed or passed over.  Every        *)
(* hypothesis has its own; hypotheses are merged when their sets are equal.*)
(***************************************************************************)
EXTENDS Naturals

CONSTANTS Hypotheses,  \* the hypotheses that are compared with one another
          LastWord     \* bound: calls name the words 0 .. LastWord

VARIABLE words         \* the used words, per hypothesis

IsFrontier(W, w) == w \notin W /\ \A v \in 0 .. w - 1 : v \in W

Init == words = [h \in Hypotheses |-> {0}]

Use(h, w) == words' = [words EXCEPT ![h] = @ \cup {w}]

UseFrontier(h) ==
  \E w \in 0 .. LastWord : IsFrontier(words[h], w) /\ Use(h, w)

\* All words before w.
UseTo(h, w) == words' = [words EXCEPT ![h] = @ \cup 0 .. w - 1]

Next == \E h \in Hypotheses :
          \/ UseFrontier(h)
          \/ \E w \in 0 .. LastWord : Use(h, w) \/ UseTo(h, w)

Spec == Init /\ [][Next]_words
=============================================================================
