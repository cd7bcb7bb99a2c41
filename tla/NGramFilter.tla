---------------------------- MODULE NGramFilter ----------------------------
(***************************************************************************)
(* One n-gram in front of the filter that filter_main.cc puts together     *)
(* from the mode, the phrase option and the context option.  Where the     *)
(* answer goes is FilterController's business.  A filter empties its       *)
(* buffers before each n-gram, so a behaviour has one n-gram.              *)
(***************************************************************************)
EXTENDS PhraseFilter

CONSTANTS Texts,    \* bound: vocabulary files
          NGrams,   \* bound: n-grams of the model
          Options   \* bound: [mode, phrase, context]

VARIABLES text, table,     \* the vocabulary file, and Substrings if it has phrases
          options, ngram,
          graph, lower,    \* of Evaluate, and graph is empty if it does not run
          answer           \* "unasked", "everyone", or the sentences in the order reported

ngramVars == <<text, table, options, ngram, graph, lower, answer>>

NoGraph == <<>>

FilterStart == /\ text = <<>> /\ table = <<>> /\ options = <<>> /\ ngram = <<>>
               /\ graph = NoGraph /\ lower = 0 /\ answer = "unasked"

ReadVocabulary ==
  /\ options = <<>>
  /\ \E t \in Texts, o \in Options :
       /\ text' = t /\ options' = o
       /\ table' = IF o.phrase THEN SubstringTable(t) ELSE <<>>
  /\ UNCHANGED <<ngram, graph, lower, answer>>

\* BinaryFilter
Binary(passes) == IF passes THEN "everyone" ELSE <<>>

\* ContextFilter: all words but the last.
Seen(g) == IF options.context THEN Front(g) ELSE g

\* AddNGram of a vocabulary filter.
AskVocabulary ==
  /\ options # <<>> /\ ~options.phrase /\ answer = "unasked"
  /\ \E g \in NGrams :
       /\ ngram' = g
       /\ answer' =
            CASE options.mode = "single" -> Binary(VocabSingle(text, Seen(g)))
              [] options.mode = "union" -> Binary(VocabUnion(text, Seen(g)))
              [] options.mode = "multiple" ->
                   IF Looked(Seen(g)) = <<>> THEN "everyone" ELSE VocabMultiple(text, Seen(g))
  /\ UNCHANGED <<text, table, options, graph, lower>>

\* AddNGram of a phrase filter, up to the loop of Evaluate.
AskPhrases ==
  /\ options # <<>> /\ options.phrase /\ answer = "unasked"
  /\ \E g \in NGrams :
       LET words == Clipped(Seen(g))
       IN /\ ngram' = g
          /\ IF words = <<>> THEN answer' = "everyone" /\ UNCHANGED graph
             ELSE answer' = <<>> /\ graph' = Graph(table, words)
  /\ UNCHANGED <<text, table, options, lower>>

LastVertex == Len(graph.current)

\* A round of the loop of Evaluate.  Union stops at the first sentence.
Round ==
  /\ graph # NoGraph
  /\ \E g \in VertexLowerBound(graph, LastVertex, lower) :
       IF Exhausted(g, LastVertex)
         THEN graph' = NoGraph /\ lower' = 0 /\ UNCHANGED answer
       ELSE IF g.current[LastVertex] > lower
         THEN graph' = g /\ lower' = g.current[LastVertex] /\ UNCHANGED answer
       ELSE IF options.mode = "union"
         THEN graph' = NoGraph /\ lower' = 0 /\ answer' = "everyone"
       ELSE graph' = g /\ lower' = lower + 1 /\ answer' = Append(answer, lower)
  /\ UNCHANGED <<text, table, options, ngram>>

FilterNGram == ReadVocabulary \/ AskVocabulary \/ AskPhrases \/ Round
-----------------------------------------------------------------------------
\* By definition: can the words be said with the phrases of one sentence, the
\* first and the last of them cut?
IsPart(w, p) == \E i, j \in DOMAIN p : i <= j /\ w = SubSeq(p, i, j)
Assembles(phrases, w) ==
  \/ \E p \in phrases : IsPart(w, p)
  \/ \E cuts \in SUBSET (1 .. Len(w) - 1) :
       LET Cut(i, j) == i < j /\ \A c \in cuts : c <= i \/ c >= j
           piece(i, j) == SubSeq(w, i + 1, j)
           ends == cuts \cup {0, Len(w)}
       IN /\ cuts # {}
          /\ \A i, j \in ends : Cut(i, j) =>
               \E p \in phrases : CASE i = 0 -> IsSuffix(piece(i, j), p)
                                    [] j = Len(w) -> IsPrefix(piece(i, j), p)
                                    [] OTHER -> piece(i, j) = p

Says(id, g) ==
  IF options.phrase THEN Assembles(ToSet(Sentences(text)[id + 1]), Clipped(g))
                    ELSE ToSet(Looked(g)) \subseteq WordsOf(text, id)
Unconstrained(g) == IF options.phrase THEN Clipped(g) = <<>> ELSE Looked(g) = <<>>
Saying(g) == {id \in 0 .. Len(Sentences(text)) - 1 : Says(id, g)}

(* The lower bounds that arcs and vertices of the phrase lattice and the   *)
(* ranges of the intersection carry from one sentence to the next never    *)
(* skip a sentence nor report one that fails: an n-gram passes to just the *)
(* sentences that can say it, each once and in increasing order, which     *)
(* FilterController relies on; in union mode, if there is one.             *)
SentencesRight ==
  answer # "unasked" /\ graph = NoGraph =>
    LET g == Seen(ngram)
    IN answer = IF options.mode = "single" THEN Binary(ToSet(Looked(g)) \subseteq AllWords(text))
                ELSE IF Unconstrained(g) THEN "everyone"
                ELSE IF options.mode = "union" THEN Binary(Saying(g) # {})
                ELSE SetToSortSeq(Saying(g), <)
=============================================================================
