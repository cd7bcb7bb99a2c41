---------------------------- MODULE PhraseFilter ----------------------------
(***************************************************************************)
(* The phrase filters of lm/filter: which sentences can be translated so   *)
(* that an n-gram appears, if a translation is a sequence of the           *)
(* sentence's phrases.  Between the words of the n-gram there are vertices *)
(* and arcs for phrases or parts of them, each with the sentences that     *)
(* have it; Evaluate runs over the sentences of the last vertex, and each  *)
(* vertex and arc keeps a lower bound on those it has left.  A hash of     *)
(* words is these words.                                                   *)
(***************************************************************************)
EXTENDS VocabFilter

CONSTANT EndSentence   \* kEndSentence
-----------------------------------------------------------------------------
(* Substrings.                                                             *)

Unrelated == [substring |-> <<>>, left |-> <<>>, right |-> <<>>, phrase |-> <<>>]

AppendSentence(vec, id) == IF vec # <<>> /\ vec[Len(vec)] = id THEN vec ELSE Append(vec, id)

AddPhrase(table, id, phrase) ==
  LET keys == {SubSeq(phrase, i, j) : i, j \in DOMAIN phrase} \ {<<>>}
      old(k) == IF k \in DOMAIN table THEN table[k] ELSE Unrelated
      Add(vec, related) == IF related THEN AppendSentence(vec, id) ELSE vec
  IN [k \in DOMAIN table \cup keys |->
        [substring |-> Add(old(k).substring, k \in keys),
         left |-> Add(old(k).left, k \in keys /\ IsPrefix(k, phrase)),
         right |-> Add(old(k).right, k \in keys /\ IsSuffix(k, phrase)),
         phrase |-> Add(old(k).phrase, k = phrase)]]

\* phrase::ReadMultiple
SubstringTable(text) ==
  FoldLeft(LAMBDA table, s :
             FoldLeft(LAMBDA t, p : AddPhrase(t, s - 1, p), table, Sentences(text)[s]),
           <<>>, [s \in DOMAIN Sentences(text) |-> s])
-----------------------------------------------------------------------------
(* The graph: for each arc <<from, to>> the sentences it has left, which is *)
(* [current_, last_), and for each vertex its current_ and incoming_.  From *)
(* 0 come the arcs whose from_ is NULL.                                     *)

\* SetRight and SetPhrase of BuildGraph, which ends a row of arcs at the first
\* words that no phrase has.
Arcs(table, words) ==
  LET n == Len(words)
      Has(i, k) == \A j \in i .. k : SubSeq(words, i, j) \in DOMAIN table
      Relation(i, k) == table[SubSeq(words, i, k)]
  IN [arc \in {<<i - 1, k>> : <<i, k>> \in {p \in (1 .. n) \X (1 .. n) :
                                              p[1] <= p[2] /\ Has(p[1], p[2])}} |->
        LET related == Relation(arc[1] + 1, arc[2])
        IN CASE arc = <<0, n>> -> related.substring
             [] arc[1] = 0 /\ arc[2] # n -> related.right
             [] arc[1] # 0 /\ arc[2] = n -> related.left
             [] OTHER -> related.phrase]

\* MakeGraph
Graph(table, words) ==
  LET arcs == Arcs(table, words)
  IN [left |-> arcs, current |-> [v \in DOMAIN words |-> 0],
      incoming |-> [v \in DOMAIN words |-> {a \in DOMAIN arcs : a[2] = v /\ arcs[a] # <<>>}]]

Current(g, a) == Head(g.left[a])
Exhausted(g, v) == g.incoming[v] = {}
\* What the priority queue may have on top.
Tops(g, v) == {a \in g.incoming[v] : \A b \in g.incoming[v] :
                 Current(g, a) <= Current(g, b)}

\* The end of Arc::LowerBound, when from_ has moved: drop what it has not.
Follow(g, a, to) ==
  IF Exhausted(g, a[1]) THEN [g EXCEPT !.left[a] = <<>>]
  ELSE IF g.current[a[1]] > to
    THEN [g EXCEPT !.left[a] = From(Tail(g.left[a]), g.current[a[1]])]
  ELSE g

Skip(g, a, to) == [g EXCEPT !.left[a] = From(g.left[a], to)]

RECURSIVE VertexLowerBound(_, _, _)

\* Mutant: from_ is moved as far as the arc, also past to.
ArcLowerBoundEager(g, a, to) ==
  LET h == Skip(g, a, to)
  IN IF a[1] = 0 \/ h.left[a] = <<>> THEN {h}
     ELSE {Follow(f, a, Current(h, a)) : f \in VertexLowerBound(h, a[1], Current(h, a))}
\* Arc::LowerBound.  Whatever is beyond to is a bound, not yet a sentence.
ArcLowerBound(g, a, to) ==
  LET h == Skip(g, a, to)
  IN IF a[1] = 0 \/ h.left[a] = <<>> \/ Current(h, a) > to THEN {h}
     ELSE {Follow(f, a, to) : f \in VertexLowerBound(h, a[1], to)}

\* The rest of the loop of Vertex::LowerBound for arc a, which was popped.
PushBack(g, v, a, to) ==
  IF g.left[a] = <<>> THEN VertexLowerBound(g, v, to)
  ELSE LET h == [g EXCEPT !.incoming[v] = g.incoming[v] \cup {a}]
       IN IF Current(h, a) = to THEN {[h EXCEPT !.current[v] = to]}
                                ELSE VertexLowerBound(h, v, to)

Pop(g, v, a) == [g EXCEPT !.incoming[v] = g.incoming[v] \ {a}]

\* Vertex::LowerBound
VertexLowerBound(g, v, to) ==
  IF Exhausted(g, v) THEN {g}
  ELSE UNION {IF Current(g, top) > to
                THEN {[g EXCEPT !.current[v] = Current(g, top)]}
                ELSE UNION {PushBack(h, v, top, to) : h \in ArcLowerBound(Pop(g, v, top), top, to)} :
              top \in Tops(g, v)}
-----------------------------------------------------------------------------
\* MakeHashes: without a tag in front, up to </s>.
Clipped(ngram) ==
  LET rest == IF ngram # <<>> /\ Head(ngram) \in Tags THEN Tail(ngram) ELSE ngram
      ends == {i \in DOMAIN rest : rest[i] = EndSentence}
  IN IF ends = {} THEN rest ELSE SubSeq(rest, 1, (CHOOSE i \in ends : \A j \in ends : i <= j) - 1)
=============================================================================
