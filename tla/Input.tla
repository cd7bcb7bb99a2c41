------------------------------- MODULE Input --------------------------------
(***************************************************************************)
(* input::Input (MEMT/Input): the sentences of all engines and, for every  *)
(* word, the word of each other engine it is aligned with.  A word is      *)
(* <<engine, offset>>; offset 0 is <BOS>, the last one <EOS>.              *)
(*                                                                         *)
(* The matcher's output is a record of the sentence lengths, the words     *)
(* that are punctuation and the matches <<word, word, type>>.  The METEOR  *)
(* matcher aligns a word with at most one word of another engine.          *)
(***************************************************************************)
EXTENDS Integers, FiniteSets

EnginesOf(t) == DOMAIN t.len
Locations(t) == UNION {{e} \X (0 .. t.len[e] - 1) : e \in EnginesOf(t)}
BOS(e) == <<e, 0>>
EOS(t, e) == <<e, t.len[e] - 1>>
IsEnd(t, l) == l = EOS(t, l[1])
IsPunctuation(t, l) == l \in t.punctuation

\* The words between the markers.
InnerWords(raw) == {l \in Locations(raw) : l[2] > 0 /\ ~IsEnd(raw, l)}

\* The matcher's output is one-to-one between any two engines.
OneToOne(raw) == \A m, n \in raw.matches :
  (m[1][1] = n[1][1] /\ m[2][1] = n[2][1]) => (m[1] = n[1] <=> m[2] = n[2])

\* What ReadFromJava reads: sentences between their markers, and matches of
\* words of an earlier engine with words of a later one.
MatcherOutput(raw) ==
  /\ IsFiniteSet(EnginesOf(raw)) /\ EnginesOf(raw) \subseteq Nat /\ 0 \in EnginesOf(raw)
  /\ \A e \in EnginesOf(raw) : raw.len[e] \in Nat /\ raw.len[e] >= 2
  /\ raw.punctuation \subseteq InnerWords(raw)
  /\ raw.matches \subseteq InnerWords(raw) \X InnerWords(raw)
                            \X {"exact", "stem", "synonym", "paraphrase"}
  /\ \A m \in raw.matches : m[1][1] < m[2][1]
  /\ OneToOne(raw)

\* AddSelfAlignments and AddBoundaryAlignments.
SelfAlignments(raw) == {<<l, l, "self">> : l \in Locations(raw)}
BoundaryAlignments(raw) ==
  LET Pairs == {p \in EnginesOf(raw) \X EnginesOf(raw) : p[1] # p[2]}
  IN {<<BOS(p[1]), BOS(p[2]), "boundary">> : p \in Pairs}
     \cup {<<EOS(raw, p[1]), EOS(raw, p[2]), "boundary">> : p \in Pairs}

\* Every call of WordAlignments::Add; a match is told to both words.
Connections(raw) ==
  raw.matches \cup {<<m[2], m[1], m[3]>> : m \in raw.matches}
    \cup SelfAlignments(raw) \cup BoundaryAlignments(raw)

\* AlignmentInfo: the types are a set of flags, none when there is no link.
Info(links) == [offset |-> IF links = {} THEN 0
                           ELSE (CHOOSE k \in links : TRUE)[2][2],
                type |-> {k[3] : k \in links}]
IsConnection(info) == info.type # {}

ReadFromJava(raw) ==
  LET told == Connections(raw) IN
  [len |-> raw.len, punctuation |-> raw.punctuation,
   align |-> [l \in Locations(raw) |-> [e \in EnginesOf(raw) |->
                Info({k \in told : k[1] = l /\ k[2][1] = e})]]]

Ask(t, l, e) == t.align[l][e]
Aligned(t, l, m) == IsConnection(Ask(t, l, m[1])) /\ Ask(t, l, m[1]).offset = m[2]

\* All words that can be reached from l over alignments.
CloseAlignment(t, l) ==
  LET Close[S \in SUBSET Locations(t)] ==
        LET T == S \cup {m \in Locations(t) : \E s \in S : Aligned(t, s, m)}
        IN IF T = S THEN S ELSE Close[T]
  IN Close[{l}]

\* Mutant: a closure with a conflict is made transitive too.
ConflictIgnored(S) == FALSE
\* Two words of one engine in the same closure: it is left as it was.
Conflict(S) == \E l, m \in S : l # m /\ l[1] = m[1]

MakeAlignmentsTransitive(t) ==
  [t EXCEPT !.align = [l \in Locations(t) |->
     LET S == CloseAlignment(t, l) IN
     [e \in EnginesOf(t) |->
        IF Conflict(S) \/ \A m \in S : m[1] # e THEN t.align[l][e]
        ELSE [offset |-> (CHOOSE m \in S : m[1] = e)[2],
              type |-> t.align[l][e].type \cup {"transitive"}]]]]
=============================================================================
