------------------------------ MODULE MCFilter ------------------------------
(* Instances for TLC of FilterController, of ThreadPool, of which the      *)
(* filter has two, and of NGramFilter, which says where a line passes.  A  *)
(* behaviour exercises one of them, while the others rest, so that the     *)
(* states add up instead of multiplying.                                   *)
EXTENDS FilterController, ThreadPool, NGramFilter

Sum(number) == FoldLeft(LAMBDA n, m : n + m, 0, number)

\* Single mode: one output, and line 5 does not pass.
One(format, number) ==
  [format |-> format, number |-> number, outputs |-> 1,
   to |-> [n \in 1 .. Sum(number) |-> IF n = 5 THEN {} ELSE All],
   length |-> [n \in 1 .. Sum(number) |-> 1]]
Arpa(number) == One("arpa", number)
Raw(number) == One("raw", <<number>>)

\* Multiple mode, with two sentences.
Two(to, length) ==
  [format |-> "raw", number |-> <<Len(to)>>, outputs |-> 2, to |-> to, length |-> length]

\* Batches hold two lines.  Nothing follows a section that fills its last
\* batch, and raw files fill theirs.  Thirteen lines need seven batches, three
\* more than there are.  With two sentences, lines have different lengths.
HarmlessFiles ==
  {Arpa(<<1, 3, 4>>), Arpa(<<3, 0>>), Arpa(<<13, 1>>), Arpa(<<5, 1, 2>>), Raw(4)}
  \cup {Two(<<a, {1, 2}, b, {2}, {}, {1, 2}, {2}, c, {1}, All>>, [n \in 1 .. 10 |-> n]) :
          <<a, b, c>> \in {<<All, {1}, {2}>>, <<{1, 2}, All, {}>>}}

ASSUME HarmlessFilesAre == \A f \in HarmlessFiles : Harmless(f)

\* A section that fills its last batch, followed by another section.
FullSection == {Arpa(<<2, 1>>)}

\* Ten lines of one length for two sentences: five batches, one more than there are.
SameLength == {Two(<<{1}, {}, {2}, {}, {1}, {}, {2}, {}, All, {1, 2}>>, [n \in 1 .. 10 |-> 1]),
               Two(<<{}, {1}, {2}, {}, {1}, {}, {2}, {}, All, {1, 2}>>, [n \in 1 .. 10 |-> 1])}

\* Phrases that overlap, contain each other and share words, in up to three
\* sentences; a line may be empty.
PhraseLines == {<<<<"a">>, <<"b">>>>, <<<<"b", "a">>, <<"b">>>>,
                <<<<"a", "b", "a">>>>, <<<<"b">>, <<"b", "a", "b">>, <<"a", "a">>>>}
TextsDef == {<<l, m, n>> : l, m, n \in PhraseLines} \cup {<<l, <<>>, m>> : l, m \in PhraseLines}

NGramsDef == {<<"a">>, <<"b">>, <<"c">>, <<"a", "b">>, <<"b", "a">>, <<"a", "c", "a">>,
              <<"a", "b", "a">>, <<"b", "a", "b">>, <<"a", "a", "b">>, <<"b", "b", "b">>,
              <<"a", "b", "a", "b">>, <<"b", "a", "a", "b">>, <<"<s>">>, <<"<s>", "a">>,
              <<"<s>", "a", "b", "</s>">>, <<"a", "</s>">>, <<"a", "<unk>", "b">>}
TagsDef == {"<s>", "</s>", "<unk>"}

Option(mode, phrase, context) == [mode |-> mode, phrase |-> phrase, context |-> context]
OptionsDef == {Option("single", FALSE, FALSE), Option("multiple", TRUE, TRUE)}
              \cup {Option(m, p, FALSE) : m \in {"union", "multiple"}, p \in BOOLEAN}

PoolRests == owner = "produce" /\ produced = 0
FilterRests == file = Raw(4) /\ reader = "read" /\ line = 0

NGramRests == options = <<>>

FilterInit == Init /\ PoolInit /\ FilterStart
FilterNext ==
  \/ PoolRests /\ NGramRests /\ Next /\ UNCHANGED <<poolVars, ngramVars>>
  \/ FilterRests /\ NGramRests /\ PoolNext /\ UNCHANGED <<vars, ngramVars>>
  \/ FilterRests /\ PoolRests /\ FilterNGram /\ UNCHANGED <<vars, poolVars>>

\* The fairness of the two that have threads, each as long as the other rests.
FilterSpec ==
  /\ FilterInit /\ [][FilterNext]_<<vars, poolVars, ngramVars>>
  /\ WF_vars(PoolRests /\ NGramRests /\ Reader /\ UNCHANGED <<poolVars, ngramVars>>)
  /\ WF_vars(PoolRests /\ NGramRests /\ Output /\ UNCHANGED <<poolVars, ngramVars>>)
  /\ \A w \in FilterThreads :
       WF_vars(PoolRests /\ NGramRests /\ Filter(w) /\ UNCHANGED <<poolVars, ngramVars>>)
  /\ WF_poolVars(/\ FilterRests /\ NGramRests /\ ~aborted
                 /\ ProducePoison \/ JoinAll
                 /\ UNCHANGED <<vars, ngramVars>>)
  /\ \A w \in Workers :
       WF_poolVars(/\ FilterRests /\ NGramRests /\ ~aborted
                   /\ Consume(w) \/ Handle(w)
                   /\ UNCHANGED <<vars, ngramVars>>)
=============================================================================
