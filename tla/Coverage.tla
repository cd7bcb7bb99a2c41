------------------------------ MODULE Coverage ------------------------------
(***************************************************************************)
(* strategy::horizon::Coverage (MEMT/Strategy/Horizon/Hypothesis.hh, .cc): *)
(* a hypothesis's view of one engine's sentence.  All words before         *)
(* "frontier" are used, the word at the frontier is not, and used[i] says  *)
(* whether word frontier + i is.  (The code's used_ counts from 0.)        *)
(***************************************************************************)
EXTENDS Integers, Sequences

Coverages == [frontier : Nat, used : Seq(BOOLEAN)]

\* Nothing is stored beyond the last used word.
Canonical(c) == c.used # <<>> => c.used[Len(c.used)]

\* InitializeRoot: the beginning-of-sentence marker is skipped.
Root == [frontier |-> 1, used |-> <<>>]

\* std::find(used_.begin() + from, used_.end(), false)
FirstFalse(used, from) ==
  CHOOSE i \in from .. Len(used) + 1 :
    /\ i <= Len(used) => ~used[i]
    /\ \A j \in from .. i - 1 : used[j]

\* The frontier moves to the word that used[i] stood for.
MoveTo(c, i) == [frontier |-> c.frontier + i,
                 used |-> SubSeq(c.used, i + 1, Len(c.used))]

\* Use the word at the frontier.
UseFrontier(c) == MoveTo(c, FirstFalse(c.used, 1))

\* Mutant: used is made one longer than it has to be.
UseResizeTooFar(c, w) ==
  LET i == w - c.frontier
  IN CASE i = 0 -> UseFrontier(c)
       [] i > 0 -> [c EXCEPT !.used =
                     [j \in 1 .. (IF i > Len(@) THEN i + 1 ELSE Len(@)) |->
                        j = i \/ (j <= Len(@) /\ @[j])]]
       [] i < 0 -> c
\* Mark word w, moving the frontier if it is the word there.
Use(c, w) ==
  LET i == w - c.frontier
  IN CASE i = 0 -> UseFrontier(c)
       [] i > 0 -> [c EXCEPT !.used =
                     [j \in 1 .. (IF i > Len(@) THEN i ELSE Len(@)) |->
                        j = i \/ (j <= Len(@) /\ @[j])]]
       [] i < 0 -> c

\* Mutant: w becomes the frontier, even if it is used.
UseToStop(c, w) ==
  LET i == w - c.frontier
  IN CASE i <= 0 -> c
       [] i > Len(c.used) -> [frontier |-> w, used |-> <<>>]
       [] OTHER -> MoveTo(c, i)
\* Make the frontier at least w.
UseTo(c, w) ==
  LET i == w - c.frontier
  IN CASE i <= 0 -> c
       [] i > Len(c.used) -> [frontier |-> w, used |-> <<>>]
       [] OTHER -> MoveTo(c, FirstFalse(c.used, i))

IsUsed(c, w) ==
  \/ w < c.frontier
  \/ w - c.frontier \in DOMAIN c.used /\ c.used[w - c.frontier]

\* "Is the interval [Frontier(), offset] available?"
IsClearThrough(c, w) ==
  /\ w >= c.frontier
  /\ \A i \in 1 .. w - c.frontier : i <= Len(c.used) => ~c.used[i]

\* What the code returns: the frontier after UseFrontier().
MaxClear(c) == c.frontier + FirstFalse(c.used, 1)
=============================================================================
