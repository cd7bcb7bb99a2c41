------------------------------ MODULE MCLegacy ------------------------------
(* All one-to-one matchings of two engines with three words each, with     *)
(* four words and two, and of three engines with two words each; among the *)
(* configurations, those that behave differently.                          *)
EXTENDS Legacy

\* words[e + 1] is the length of engine e, without the sentence markers.
Inner(words, e) == {<<e, x>> : x \in 1 .. words[e + 1]}
Matchings(words, e, f, type) ==
  {{<<m[1], m[2], type>> : m \in M} : M \in
    {M \in SUBSET (Inner(words, e) \X Inner(words, f)) :
       \A p, q \in M : p[1] = q[1] <=> p[2] = q[2]}}

Raw(words, marks, matches) ==
  [len |-> [e \in 0 .. Len(words) - 1 |-> words[e + 1] + 2],
   punctuation |-> marks, matches |-> matches]

TwoEngines(words) ==
  {Raw(words, p, m) : p \in {{}, {<<0, 2>>, <<1, 2>>} \cup {<<1, x>> : x \in 3 .. words[2]}},
                      m \in Matchings(words, 0, 1, "stem")}
ThreeEngines ==
  LET words == <<2, 2, 2>>
  IN {Raw(words, {}, a \cup b \cup c) : a \in Matchings(words, 0, 1, "exact"),
        b \in Matchings(words, 0, 2, "stem"), c \in Matchings(words, 1, 2, "stem")}

Configs(engines, radii, types, transitive) ==
  {[method |-> m, radius |-> r, phrase |-> types, transitive |-> t,
    stay_weights |-> [e \in 0 .. engines - 1 |-> 1], stay_threshold |-> engines,
    continue_recent |-> x, extend_aligned |-> x] :
   m \in {"length", "alignment"}, r \in radii, x \in BOOLEAN, t \in transitive}

Phrases == {"punctuation", "alignment"}
InputsDef ==
  [raw : TwoEngines(<<3, 3>>), config : Configs(2, {0, 1}, Phrases, {FALSE})]
    \cup [raw : TwoEngines(<<4, 2>>), config : Configs(2, {0, 1}, {}, {FALSE})]
    \cup [raw : ThreeEngines, config : Configs(3, {0}, Phrases, BOOLEAN)]
=============================================================================
