------------------------------- MODULE Legacy -------------------------------
(***************************************************************************)
(* strategy::legacy (MEMT/Strategy/Legacy): one hypothesis of the decoder, *)
(* extended word by word until it takes an end-of-sentence marker.  The    *)
(* decoder extends every hypothesis in its beam by every extension; a      *)
(* behaviour of this module is one path through that lattice.              *)
(***************************************************************************)
EXTENDS Horizon, Sequences

CONSTANT Inputs   \* pairs [raw |-> matcher output, config |-> configuration]

ASSUME InputsAssumption == \A i \in Inputs :
  /\ MatcherOutput(i.raw)
  /\ i.config.method \in {"length", "alignment"}
  /\ i.config.radius \in Nat
  /\ i.config.stay_weights \in [EnginesOf(i.raw) -> Int] /\ i.config.stay_threshold \in Int

VARIABLES
  input,          \* the aligned sentences
  config,
  horizon,        \* the coverage of each engine
  phrase,         \* the phrase the hypothesis is locked into
  history,        \* the words appended so far, from the beginning of sentence
  status          \* "open", "ended" at an <EOS>, or "dropped"

vars == <<input, config, horizon, phrase, history, status>>

Latest == history[Len(history)]
Frontier(e) == <<e, horizon[e].frontier>>

\* Sentence::Reset and Begin.
Init == \E i \in Inputs :
  /\ config = i.config
  /\ input = IF i.config.transitive THEN MakeAlignmentsTransitive(ReadFromJava(i.raw))
                                    ELSE ReadFromJava(i.raw)
  /\ horizon = InitializeRoot(input)
  /\ phrase = NoPhrase
  /\ history = << BOS(0) >>
  /\ status = "open"

\* The next unused word of every engine that has one.
FrontierWords == {Frontier(e) : e \in Live(input, horizon)}

\* The words aligned with a frontier word, unless they are the same word.
AlignedWords ==
  {<<p[2], Ask(input, p[1], p[2]).offset>> : p \in
     {q \in FrontierWords \X EnginesOf(input) :
        Ask(input, q[1], q[2]).type \ {"boundary", "self", "exact"} # {}}}

\* Mutant: a word that was used already may follow.
RecentWordsAny ==
  {l \in {<<e, Ask(input, Latest, e).offset + 1>> :
            e \in {o \in EnginesOf(input) : IsConnection(Ask(input, Latest, o))}} :
     l[2] # horizon[l[1]].frontier /\ l[2] < input.len[l[1]]}
\* The words that follow those aligned with the word appended last.
RecentWords ==
  {l \in {<<e, Ask(input, Latest, e).offset + 1>> :
            e \in {o \in EnginesOf(input) : IsConnection(Ask(input, Latest, o))}} :
     /\ l[2] # horizon[l[1]].frontier
     /\ l[2] < input.len[l[1]]
     /\ ~IsUsed(horizon[l[1]], l[2])}

GetExtensions ==
  IF InPhrase(phrase) THEN {Frontier(phrase.engine)}
  ELSE FrontierWords
       \cup (IF config.extend_aligned THEN AlignedWords ELSE {})
       \cup (IF config.continue_recent THEN RecentWords ELSE {})

\* An end-of-sentence marker completes the hypothesis.
End(l) ==
  /\ IsEnd(input, l)
  /\ history' = Append(history, l)
  /\ status' = "ended"
  /\ UNCHANGED <<input, config, horizon, phrase>>

\* ExtendNonScore: a hypothesis all of whose engines ran off is dropped.
ExtendNonScore(l) ==
  /\ ~IsEnd(input, l)
  /\ horizon' = ConsumeWord(input, config, horizon, l)
  /\ history' = Append(history, l)
  /\ IF Live(input, horizon') = {}
     THEN status' = "dropped" /\ UNCHANGED phrase
     ELSE /\ phrase' = Advance(phrase, Ends(input, config.phrase, l),
                               horizon'[l[1]], l)
          /\ UNCHANGED status
  /\ UNCHANGED <<input, config>>

Extend == status = "open" /\ \E l \in GetExtensions : End(l) \/ ExtendNonScore(l)

Next == Extend

Spec == Init /\ [][Next]_vars
-----------------------------------------------------------------------------
TypeOK ==
  /\ horizon \in [EnginesOf(input) -> Coverages]
  /\ \A e \in EnginesOf(input) : Canonical(horizon[e])
  /\ phrase \in [engine : EnginesOf(input) \cup {NoEngine}, end : Nat]
  /\ \A i \in DOMAIN history : history[i] \in Locations(input)
  /\ status \in {"open", "ended", "dropped"}

(* An open hypothesis can always go on, with words that exist: the vector  *)
(* accesses of GetExtensions are in range (Sentence.hh:87, Phrase's :70)   *)
(* although the asserts are compiled out, also when the horizon pushed the *)
(* engine of the phrase on.                                                *)
NeverStuck ==
  status = "open" =>
    /\ GetExtensions # {} /\ GetExtensions \subseteq Locations(input)
    /\ InPhrase(phrase) => horizon[phrase.engine].frontier <= phrase.end

(* No word is said twice, though extend_aligned does not ask whether the   *)
(* aligned word is used, and the horizon passes over words.                *)
NoWordTwice == \A i, j \in DOMAIN history : history[i] = history[j] => i = j

(* With transitive alignments, what one engine said is not said again with *)
(* another engine's word for it, unless the alignments are in conflict.    *)
NoMeaningTwice ==
  config.transitive => \A i, j \in DOMAIN history :
    i # j => \/ ~Aligned(input, history[i], history[j])
             \/ Conflict(CloseAlignment(input, history[i]))

(* Every word uses up at least one word that was unused, and nothing       *)
(* becomes unused: this bounds the length of a hypothesis and the decoder. *)
UnusedWords ==
  {l \in Locations(input) : ~IsUsed(horizon[l[1]], l[2])}
EachWordUsesWords ==
  [][history' # history /\ status' # "ended" =>
       UnusedWords' \subseteq UnusedWords /\ UnusedWords' # UnusedWords]_vars

(* Length method: after each word no live engine is more than radius behind*)
(* any engine, those that have run off included.                           *)
HorizonHeld ==
  config.method = "length" /\ Len(history) > 1 /\ status = "open" =>
    \A e \in Live(input, horizon), f \in EnginesOf(input) :
      horizon[e].frontier + config.radius >= horizon[f].frontier
=============================================================================
