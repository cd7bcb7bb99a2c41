------------------------------ MODULE MCChart ------------------------------
EXTENDS Chart

\* <s> is 1, the other words are 2 and 3.  Scores that tell n-grams apart.
Number(g) == FoldLeft(LAMBDA n, w : 4 * n + w, 0, g)
SomeProb(g) == -1 - ((Number(g) * 7) % 23)
\* Zero for a third of the n-grams.
SomeBackoff(g) == -((Number(g) * 5) % 3) * ((Number(g) % 7) + 1)

\* Files with a 4-gram and another trigram, and the contexts of both; with a
\* bigram only; with nothing; and some that lack a context.  None lists what is
\* left of a long n-gram without its first word unless that is chosen, too.
W == {2, 3}
Bigrams == {<<w, c>> : w \in W, c \in W \cup {1}}
Trigrams == {<<w, b[1], b[2]>> : w \in W, b \in Bigrams}
FourGrams == {<<w, t[1], t[2], t[3]>> : w \in W, t \in Trigrams}
WithContexts(F) == F \cup {Tail(g) : g \in F} \cup {Tail(Tail(g)) : g \in {f \in F : Len(f) = 4}}
SomeFiles ==
  {{}} \cup {{b} : b \in Bigrams}
  \cup {WithContexts({f, t}) : f \in FourGrams, t \in {u \in Trigrams : u[1] = 2}}
  \cup {{t} : t \in Trigrams}
=============================================================================
