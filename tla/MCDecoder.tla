----------------------------- MODULE MCDecoder ------------------------------
(* Search spaces of sentences of two to five words, with payloads that are *)
(* reached from up to four others and at two lengths, two payloads that    *)
(* append the same word, and one arc that is dropped.  Scores are divided  *)
(* by 2, 3, 4 and 5.                                                       *)
EXTENDS Decoder

Arc(loc, word, to, gain) == [loc |-> loc, word |-> word, to |-> to, gain |-> gain]
Payloads == {"a", "b", "c", "d", "e", "f"}

\* gain[p] for reaching payload p, and extra[p] for doing so from p.
Space(gain, extra, normalize, internal, n) ==
  [root |-> "r", length_normalize |-> normalize,
   internal_beam_size |-> internal, end_beam_size |-> n,
   arcs |-> [p \in Payloads \cup {"r"} |->
     CASE p = "r" -> <<Arc("1", "x", "a", gain["a"]), Arc("2", "x", "b", gain["b"]),
                       Arc("3", "y", "c", gain["c"]), Arc("8", "z", "f", gain["f"])>>
       [] p \in {"a", "b"} -> <<Arc("4", "u", "d", gain["d"] + extra[p]),
                                Arc("5", "v", "e", gain["e"])>>
       [] p = "c" -> <<Arc("4", "u", "d", gain["d"] + extra[p]), Arc("5", "v", Dropped, 0),
                       Arc("6", "EOS", Ended, -60)>>
       [] p = "f" -> <<Arc("4", "u", "d", gain["d"] + extra[p])>>
       [] p = "d" -> <<Arc("6", "EOS", Ended, -60)>>
       [] p = "e" -> <<Arc("7", "u", "d", gain["d"] + extra[p]),
                       Arc("6", "EOS", Ended, -120)>>]]

NoExtra == [p \in Payloads |-> 0]
ModelsDef == {Space(gain, extra, normalize, internal, n) :
                gain \in {g \in [Payloads -> {-60, -120}] : g["f"] = -60},
                extra \in {NoExtra, [NoExtra EXCEPT !["a"] = -120],
                           [NoExtra EXCEPT !["c"] = -180]},
                normalize \in BOOLEAN, internal \in {2, 8}, n \in {1, 2, 4}}
=============================================================================
