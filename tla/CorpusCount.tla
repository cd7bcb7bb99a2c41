---------------------------- MODULE CorpusCount ----------------------------
(***************************************************************************)
(* lm/builder/corpus_count.cc: the words of the corpus become n-grams,     *)
(* written straight into the blocks of a chain.  An n-gram that its block  *)
(* has already only adds to the count there; blocks do not know of each    *)
(* other.                                                                  *)
(***************************************************************************)
EXTENDS NGrams

CONSTANTS CountBlock   \* n-grams in a block of this chain

VARIABLES
  order,     \* order of the model
  corpus,    \* the sentences to read, the one being read first
  reading,   \* at the beginning of a line, within it, or done
  context,   \* the words before the next n-gram's last one
  writing,   \* the n-grams in the block of the Writer
  blocks     \* blocks sent to the next worker of the chain

countVars == <<order, corpus, reading, context, writing, blocks>>

\* What the block and the chain are after an n-gram that is new to the block
\* was written: a full block is sent on and the next one is empty.
Written(gram) ==
  IF Len(writing) + 1 = CountBlock
    THEN writing' = <<>> /\ blocks' = Append(blocks, Append(writing, gram))
    ELSE writing' = Append(writing, gram) /\ UNCHANGED blocks

CountInit(orders, corpora) ==
  /\ order \in orders /\ corpus \in corpora
  /\ reading = IF order = 1 THEN "specials" ELSE "line"
  /\ context = <<>> /\ writing = <<>> /\ blocks = <<>>

\* The Writer of a unigram model begins with <unk> and <s>, one per step.
AddUnigramWord ==
  /\ reading = "specials"
  /\ Written(NGram(<<IF context = <<>> THEN kUNK ELSE kBOS>>, 0))
  /\ IF context = <<>> THEN context' = <<kUNK>> /\ UNCHANGED reading
                       ELSE context' = <<>> /\ reading' = "line"
  /\ UNCHANGED <<order, corpus>>

\* StartSentence: the context is all <s>.
StartSentence ==
  /\ reading = "line" /\ corpus # <<>>
  /\ context' = [i \in 1 .. order - 1 |-> kBOS]
  /\ reading' = "words"
  /\ UNCHANGED <<order, corpus, writing, blocks>>

\* Writer::Append.
CountWord(word) ==
  LET words == Append(context, word)
      here == {i \in DOMAIN writing : writing[i].words = words}
  IN
  /\ IF here # {}
       THEN /\ writing' = [i \in DOMAIN writing |->
                            IF i \in here THEN [writing[i] EXCEPT !.count = @ + 1] ELSE writing[i]]
            /\ UNCHANGED blocks
       ELSE Written(NGram(words, 1))
  /\ context' = Tail(words)

\* The next word of the line; <unk>, <s> and </s> are passed over.
ReadWord ==
  /\ reading = "words" /\ Head(corpus) # <<>>
  /\ corpus' = <<Tail(Head(corpus))>> \o Tail(corpus)
  /\ IF Head(Head(corpus)) <= kEOS THEN UNCHANGED <<context, writing, blocks>>
                                   ELSE CountWord(Head(Head(corpus)))
  /\ UNCHANGED <<order, reading>>

\* The line ends with </s>.
EndSentence ==
  /\ reading = "words" /\ Head(corpus) = <<>>
  /\ CountWord(kEOS)
  /\ corpus' = Tail(corpus)
  /\ reading' = "line"
  /\ UNCHANGED order

\* End of the file: ~Writer sends its block, full or not, and the poison.
EndOfCorpus ==
  /\ reading = "line" /\ corpus = <<>>
  /\ blocks' = Append(blocks, writing)
  /\ writing' = <<>> /\ context' = <<>>
  /\ reading' = "done"
  /\ UNCHANGED <<order, corpus>>

CountNext == AddUnigramWord \/ StartSentence \/ ReadWord \/ EndSentence \/ EndOfCorpus
=============================================================================
