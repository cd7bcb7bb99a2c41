------------------------------- MODULE Phrase -------------------------------
(***************************************************************************)
(* strategy::phrase (MEMT/Strategy/Phrase): where phrases begin and end,   *)
(* what an aligned punctuation phrase blocks, and the phrase a hypothesis  *)
(* is locked into.                                                         *)
(***************************************************************************)
EXTENDS Input, Coverage

(* DetectPunctuation: a phrase is a run of punctuation marks with the word *)
(* before it.  Each operator gives the ends of the phrases that begin at l.*)
PunctuationEnds(t, l) ==
  LET Mark(x) == IsPunctuation(t, <<l[1], x>>)
  IN {end \in l[2] + 1 .. t.len[l[1]] - 2 :
        /\ ~Mark(l[2]) /\ ~Mark(end + 1)
        /\ \A x \in l[2] + 1 .. end : Mark(x)}

\* Some other engine has words first .. last of engine e consecutively too.
Parallel(t, e, first, last) ==
  \E o \in EnginesOf(t) \ {e} : \A x \in first .. last :
    Aligned(t, <<e, x>>, <<o, Ask(t, <<e, first>>, o).offset + x - first>>)

(* DetectAligned: from the first word on, phrases are as long as some      *)
(* other engine stays parallel.                                            *)
AlignedEnds(t, l) ==
  LET last == t.len[l[1]] - 1
      Start[x \in 1 .. last] ==
        IF x > 1 /\ Parallel(t, l[1], Start[x - 1], x) THEN Start[x - 1] ELSE x
  IN {end \in l[2] + 1 .. last :
        Start[end] = l[2] /\ (end = last \/ Start[end + 1] # l[2])}

\* Word::Ends(), for the configured set of phrase types.
Ends(t, types, l) ==
  (IF "punctuation" \in types THEN PunctuationEnds(t, l) ELSE {})
    \cup (IF "alignment" \in types THEN AlignedEnds(t, l) ELSE {})

\* ComputeBlocks: the words used up with word l when l is used by alignment.
Block(t, types, l) ==
  LET Containing == {p \in (0 .. l[2]) \X (l[2] .. t.len[l[1]] - 1) :
                       p[2] \in PunctuationEnds(t, <<l[1], p[1]>>)}
  IN {l[2]} \cup (IF "punctuation" \in types
                  THEN UNION {p[1] .. p[2] : p \in Containing} ELSE {})
-----------------------------------------------------------------------------
NoEngine == -1
NoPhrase == [engine |-> NoEngine, end |-> 0]
InPhrase(p) == p.engine # NoEngine

\* Mutant: a phrase is not left when the horizon pushed its engine past the end.
AdvanceStay(p, ends, c, l) ==
  LET open == {x \in ends : x <= MaxClear(c)}
  IN IF InPhrase(p) THEN p
     ELSE IF c.frontier > l[2] + 1 \/ open = {} THEN NoPhrase
     ELSE [engine |-> l[1], end |-> CHOOSE x \in open : \A y \in open : y <= x]
(* Hypothesis::Advance: word l was appended, c is the new coverage of its  *)
(* engine.  Stay in the phrase, or enter the longest one that the coverage *)
(* allows.                                                                 *)
Advance(p, ends, c, l) ==
  LET open == {x \in ends : x <= MaxClear(c)}
  IN IF InPhrase(p) /\ c.frontier <= p.end THEN p
     ELSE IF c.frontier > l[2] + 1 \/ open = {} THEN NoPhrase
     ELSE [engine |-> l[1], end |-> CHOOSE x \in open : \A y \in open : y <= x]
=============================================================================
