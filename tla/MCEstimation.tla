---------------------------- MODULE MCEstimation ----------------------------
EXTENDS Estimation

\* Sentences over two words, one of them with a word that is passed over.
Sentences == {<<>>, <<3>>, <<4>>, <<3, 3>>, <<3, 4>>, <<4, 3>>, <<4, 4>>, <<3, kUNK, 4>>}

\* All of up to two sentences, and three longer ones that need several passes.
SomeCorpora ==
  {<<>>} \cup {<<s>> : s \in Sentences} \cup {<<s, t>> : s, t \in Sentences}
  \cup {<<<<3, 4>>, <<4, 3>>, <<3, 4>>>>, <<<<3>>, <<4>>, <<3, 4, 3>>>>,
        <<<<3, 3, 4, 4>>, <<4, 3, 4>>>>}

\* No lazy merge; a lazy merge of two runs; everything in memory.
SomeMemories == {[buffer |-> 2, total |-> 8, lazy |-> 0],
                 [buffer |-> 2, total |-> 8, lazy |-> 4],
                 [buffer |-> 4, total |-> 20, lazy |-> 100]}
SomeThresholds == <<0, 1, 1>>
=============================================================================
