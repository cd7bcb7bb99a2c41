--------------------------- MODULE CoverageCalls ----------------------------
(***************************************************************************)
(* Hypotheses that mark words of one engine in any order.  The detailed    *)
(* representation implements the sets of UsedWords, and it is canonical:   *)
(* operator== and hash_value look only at frontier_ and used_, so the beam *)
(* merges two hypotheses exactly when they have used the same words.       *)
(***************************************************************************)
EXTENDS Coverage

CONSTANTS Hypotheses,  \* the hypotheses that are compared with one another
          LastWord     \* bound: calls name the words 0 .. LastWord

ASSUME LastWordAssumption == LastWord \in Nat

VARIABLE coverage      \* the Coverage of each hypothesis

CoverageInit == coverage = [h \in Hypotheses |-> Root]

CallUseFrontier(h) ==
  /\ coverage[h].frontier <= LastWord
  /\ coverage' = [coverage EXCEPT ![h] = UseFrontier(@)]

CallUse(h, w) == coverage' = [coverage EXCEPT ![h] = Use(@, w)]

CallUseTo(h, w) == coverage' = [coverage EXCEPT ![h] = UseTo(@, w)]

CoverageNext == \E h \in Hypotheses :
          \/ CallUseFrontier(h)
          \/ \E w \in 0 .. LastWord : CallUse(h, w) \/ CallUseTo(h, w)

CoverageSpec == CoverageInit /\ [][CoverageNext]_coverage
-----------------------------------------------------------------------------
CoverageOK ==
  /\ coverage \in [Hypotheses -> Coverages]
  /\ \A h \in Hypotheses : Canonical(coverage[h])

\* The words a coverage stands for (as IsUsed answers).
Words(c) == {w \in 0 .. c.frontier + Len(c.used) : IsUsed(c, w)}

(* Recombination: equal coverages, as operator== and hash_value see them,  *)
(* are those with the same used words.                                     *)
EqualIffSameWords ==
  \A g, h \in Hypotheses :
    coverage[g] = coverage[h] <=> Words(coverage[g]) = Words(coverage[h])

(* Every call does to the used words what its name says: Use adds the      *)
(* word, UseFrontier the first unused one, UseTo all words before.         *)
Abstract == INSTANCE UsedWords
              WITH words <- [h \in Hypotheses |-> Words(coverage[h])]
ImplementsUsedWords == Abstract!Spec
=============================================================================
