---------------------------- MODULE LegacyProofs ----------------------------
(***************************************************************************)
(* A Coverage is a canonical representation of the set of used words, for  *)
(* sentences of any length and any order of calls; and a hypothesis of the *)
(* Legacy strategy can always go on, says no word twice, no meaning twice, *)
(* uses up words with every word, and lets no engine lag, for any number   *)
(* of engines, sentences of any length and any matches.                    *)
(*                                                                         *)
(* In four parts: what each operation of Coverage does to the set of used  *)
(* words; what alignments are after ReadFromJava and after                 *)
(* MakeAlignmentsTransitive; what ConsumeWord does to the coverages; and   *)
(* the inductive invariant of a hypothesis.  The recursive functions of    *)
(* Input and Horizon are loops and folds in the sense of Facts: each is    *)
(* shown to exist as a function, and LoopRule or FoldRule says what it     *)
(* returns.                                                                *)
(***************************************************************************)
EXTENDS Legacy, CoverageCalls, Facts, SequenceTheorems

\* What FirstFalse finds.
LEMMA FirstFalseProperties ==
  ASSUME NEW u \in Seq(BOOLEAN), NEW from \in 1 .. Len(u) + 1
  PROVE  /\ FirstFalse(u, from) \in from .. Len(u) + 1
         /\ FirstFalse(u, from) <= Len(u) => ~u[FirstFalse(u, from)]
         /\ \A j \in from .. FirstFalse(u, from) - 1 : u[j]
<1> DEFINE T == {i \in from .. Len(u) + 1 : i <= Len(u) => ~u[i]}
<1>1. Len(u) \in Nat
  OBVIOUS
<1>2. Len(u) + 1 \in T
  BY <1>1
<1>3. PICK x \in T : \A y \in T : x <= y
  <2>1. T \subseteq Nat /\ T # {}
    BY <1>1, <1>2
  <2>2. QED
    BY <2>1, LeastElement
<1>4. \A j \in from .. x - 1 : u[j]
  <2>1. TAKE j \in from .. x - 1
  <2>2. j \notin T
    BY <1>1, <1>3, <2>1
  <2>3. QED
    BY <1>1, <1>3, <2>1, <2>2
<1>5. QED
  BY <1>3, <1>4 DEF FirstFalse

\* The words of a coverage, without the bound that makes the set finite.
LEMMA WordsOf ==
  ASSUME NEW c \in Coverages
  PROVE  /\ Words(c) = {w \in Nat : IsUsed(c, w)}
         /\ Words(c) \subseteq Nat
<1>1. c.frontier \in Nat /\ Len(c.used) \in Nat /\ DOMAIN c.used = 1 .. Len(c.used)
  BY DEF Coverages
<1>2. \A w \in Nat : IsUsed(c, w) => w \in 0 .. c.frontier + Len(c.used)
  BY <1>1 DEF IsUsed
<1>3. QED
  BY <1>1, <1>2 DEF Words

\* The frontier is the first unused word.
LEMMA FrontierUnused ==
  ASSUME NEW c \in Coverages
  PROVE  /\ c.frontier \in Nat
         /\ c.frontier \notin Words(c)
         /\ \A w \in 0 .. c.frontier - 1 : w \in Words(c)
  BY WordsOf DEF IsUsed, Coverages

\* Moving the frontier over used[1 .. i] keeps the entries behind it.
LEMMA MoveToProperties ==
  ASSUME NEW c \in Coverages, Canonical(c), NEW i \in 1 .. Len(c.used) + 1
  PROVE  /\ MoveTo(c, i) \in Coverages
         /\ Canonical(MoveTo(c, i))
         /\ MoveTo(c, i).frontier = c.frontier + i
         /\ \A w \in Nat : w > c.frontier + i =>
              (IsUsed(MoveTo(c, i), w) <=> IsUsed(c, w))
<1> DEFINE u == c.used
           n == Len(u)
           v == SubSeq(u, i + 1, n)
<1>1. /\ u \in Seq(BOOLEAN) /\ n \in Nat /\ DOMAIN u = 1 .. n
      /\ c.frontier \in Nat /\ i \in 1 .. n + 1
  BY DEF Coverages
<1>2. MoveTo(c, i).frontier = c.frontier + i /\ MoveTo(c, i).used = v
  BY DEF MoveTo
<1>3. /\ v \in Seq(BOOLEAN)
      /\ Len(v) = IF i <= n THEN n - i ELSE 0
      /\ \A j \in 1 .. n - i : v[j] = u[i + j]
  <2>1. CASE i <= n
    BY <1>1, <2>1, SubSeqProperties
  <2>2. CASE i = n + 1
    <3>1. v = << >>
      BY <1>1, <2>2, SubSeqEmpty
    <3>2. QED
      BY <1>1, <2>2, <3>1
  <2>3. QED
    BY <1>1, <2>1, <2>2
<1>3a. Len(v) \in Nat /\ DOMAIN v = 1 .. Len(v)
  BY <1>3
<1>4. MoveTo(c, i) \in Coverages
  BY <1>1, <1>3 DEF MoveTo, Coverages
<1>5. Canonical(MoveTo(c, i))
  <2>1. ASSUME v # << >>
        PROVE  v[Len(v)]
    <3> HIDE DEF u, n, v
    <3>1. Len(v) # 0
      BY <1>3, <2>1
    <3>2. i < n /\ Len(v) = n - i /\ n - i \in 1 .. n - i
      BY <1>1, <1>3, <3>1
    <3>3. v[n - i] = u[i + (n - i)]
      BY <1>3, <3>2
    <3>4. i + (n - i) = n
      BY <1>1
    <3>5. u # << >> => u[n]
      BY DEF Canonical, u, n
    <3>6. u # << >>
      BY <1>1, <3>2 DEF n
    <3>7. QED
      BY <3>2, <3>3, <3>4, <3>5, <3>6
  <2>2. QED
    BY <1>2, <2>1 DEF Canonical
<1>6. ASSUME NEW w \in Nat, w > c.frontier + i
      PROVE  IsUsed(MoveTo(c, i), w) <=> IsUsed(c, w)
  <2> DEFINE j == w - (c.frontier + i)
  <2>1. j \in Nat /\ j >= 1 /\ w - c.frontier = i + j
    BY <1>1, <1>6
  <2>2. DOMAIN v = 1 .. Len(v)
    BY <1>3a
  <2> HIDE DEF u, n, v, j
  <2>3. IsUsed(MoveTo(c, i), w) <=> j \in 1 .. Len(v) /\ v[j]
    <3>1. /\ ~(w < c.frontier + i)
          /\ w - (c.frontier + i) = j
      BY <1>1, <1>6 DEF j
    <3>2. QED
      BY <1>2, <2>2, <3>1 DEF IsUsed
  <2>4. IsUsed(c, w) <=> i + j \in 1 .. n /\ u[i + j]
    <3>1. ~(w < c.frontier)
      BY <1>1, <1>6
    <3>2. DOMAIN c.used = 1 .. n /\ u = c.used
      BY <1>1 DEF u
    <3>3. QED
      BY <2>1, <3>1, <3>2 DEF IsUsed
  <2>5. j \in 1 .. Len(v) <=> i + j \in 1 .. n
    BY <1>1, <1>3, <2>1
  <2>6. j \in 1 .. Len(v) => v[j] = u[i + j]
    <3>1. j \in 1 .. Len(v) => j \in 1 .. n - i
      BY <1>1, <1>3, <2>1
    <3>2. QED
      BY <1>3, <3>1
  <2>7. QED
    BY <2>3, <2>4, <2>5, <2>6
<1>7. QED
  BY <1>2, <1>4, <1>5, <1>6

\* Moving the frontier to the first unused word from word w on.
LEMMA MoveToFirst ==
  ASSUME NEW c \in Coverages, Canonical(c), NEW from \in 1 .. Len(c.used) + 1
  PROVE  LET d == MoveTo(c, FirstFalse(c.used, from))
         IN /\ d \in Coverages /\ Canonical(d)
            /\ Words(d) = Words(c) \cup 0 .. c.frontier + from - 1
<1> DEFINE u == c.used
           i == FirstFalse(u, from)
           d == MoveTo(c, i)
<1>1. u \in Seq(BOOLEAN) /\ Len(u) \in Nat /\ c.frontier \in Nat
      /\ DOMAIN u = 1 .. Len(u)
  BY DEF Coverages
<1>2. /\ i \in from .. Len(u) + 1
      /\ i <= Len(u) => ~u[i]
      /\ \A j \in from .. i - 1 : u[j]
  BY <1>1, FirstFalseProperties
<1>3. /\ d \in Coverages /\ Canonical(d) /\ d.frontier = c.frontier + i
      /\ \A w \in Nat : w > c.frontier + i => (IsUsed(d, w) <=> IsUsed(c, w))
  <2>1. i \in 1 .. Len(u) + 1
    BY <1>1, <1>2
  <2>2. QED
    BY <2>1, MoveToProperties
<1>4. ASSUME NEW w \in Nat
      PROVE  IsUsed(d, w) <=> IsUsed(c, w) \/ w \in 0 .. c.frontier + from - 1
  <2>1. CASE w > c.frontier + i
    BY <1>1, <1>2, <1>3, <2>1
  <2>2. CASE w = c.frontier + i
    <3>1. ~IsUsed(d, w)
      BY <1>1, <1>2, <1>3, <2>2, FrontierUnused, WordsOf
    <3>2. ~IsUsed(c, w)
      BY <1>1, <1>2, <2>2 DEF IsUsed
    <3>3. w \notin 0 .. c.frontier + from - 1
      BY <1>1, <1>2, <2>2
    <3>4. QED
      BY <3>1, <3>2, <3>3
  <2>3. CASE w < c.frontier + i
    <3>1. IsUsed(d, w)
      BY <1>1, <1>2, <1>3, <2>3 DEF IsUsed
    <3>2. CASE w < c.frontier + from
      BY <1>1, <1>2, <3>1, <3>2
    <3>3. CASE w >= c.frontier + from
      <4>1. w - c.frontier \in from .. i - 1
        BY <1>1, <1>2, <2>3, <3>3
      <4>2. u[w - c.frontier] /\ w - c.frontier \in DOMAIN u
        BY <1>1, <1>2, <4>1
      <4>3. IsUsed(c, w)
        BY <4>2 DEF IsUsed
      <4>4. QED
        BY <3>1, <4>3
    <3>4. QED
      BY <1>1, <1>2, <3>2, <3>3
  <2>4. QED
    BY <1>1, <1>2, <2>1, <2>2, <2>3
<1>5. Words(d) = Words(c) \cup 0 .. c.frontier + from - 1
  <2>1. c.frontier + from - 1 \in Nat
    BY <1>1
  <2>2. QED
    BY <1>3, <1>4, <2>1, WordsOf
<1>6. QED
  BY <1>3, <1>5
-----------------------------------------------------------------------------
(* What each operation does to the set of used words.                      *)

\* A new hypothesis has used the beginning-of-sentence marker.
LEMMA RootWords == Root \in Coverages /\ Canonical(Root) /\ Words(Root) = {0}
<1>1. Root \in Coverages /\ Canonical(Root)
  BY DEF Root, Coverages, Canonical
<1>2. \A w \in Nat : IsUsed(Root, w) <=> w = 0
  BY DEF Root, IsUsed
<1>3. QED
  BY <1>1, <1>2, WordsOf

\* UseFrontier adds the word at the frontier.
LEMMA UseFrontierWords ==
  ASSUME NEW c \in Coverages, Canonical(c)
  PROVE  /\ UseFrontier(c) \in Coverages /\ Canonical(UseFrontier(c))
         /\ Words(UseFrontier(c)) = Words(c) \cup {c.frontier}
<1>1. Len(c.used) \in Nat /\ 1 \in 1 .. Len(c.used) + 1 /\ c.frontier \in Nat
  BY DEF Coverages
<1>2. /\ UseFrontier(c) \in Coverages /\ Canonical(UseFrontier(c))
      /\ Words(UseFrontier(c)) = Words(c) \cup 0 .. c.frontier + 1 - 1
  BY <1>1, MoveToFirst DEF UseFrontier
<1>3. 0 .. c.frontier + 1 - 1 = 0 .. c.frontier - 1 \cup {c.frontier}
  BY <1>1
<1>4. QED
  BY <1>2, <1>3, FrontierUnused

\* Marking a word behind the frontier.
LEMMA MarkBehind ==
  ASSUME NEW c \in Coverages, Canonical(c), NEW w \in Nat, w > c.frontier
  PROVE  /\ Use(c, w) \in Coverages /\ Canonical(Use(c, w))
         /\ Words(Use(c, w)) = Words(c) \cup {w}
<1> DEFINE i == w - c.frontier
           u == c.used
           n == Len(u)
           m == IF i > n THEN i ELSE n
           v == [j \in 1 .. m |-> j = i \/ (j <= n /\ u[j])]
           d == [c EXCEPT !.used = v]
<1>1. /\ u \in Seq(BOOLEAN) /\ n \in Nat /\ DOMAIN u = 1 .. n
      /\ c.frontier \in Nat /\ i \in Nat /\ i >= 1 /\ m \in Nat /\ m >= i /\ m >= n
  BY DEF Coverages
<1>2. Use(c, w) = d
  BY <1>1 DEF Use
<1>3. v \in Seq(BOOLEAN) /\ Len(v) = m /\ DOMAIN v = 1 .. m
  <2>1. \A j \in 1 .. m : (j = i \/ (j <= n /\ u[j])) \in BOOLEAN
    OBVIOUS
  <2>2. v \in [1 .. m -> BOOLEAN]
    BY <2>1
  <2>3. m \in Nat
    BY <1>1
  <2> HIDE DEF v, m
  <2>4. QED
    BY <2>2, <2>3
<1>4. d.frontier = c.frontier /\ d.used = v /\ d \in Coverages
  BY <1>1, <1>3 DEF Coverages
<1>5. Canonical(d)
  <2>1. CASE i > n
    BY <1>1, <1>3, <1>4, <2>1 DEF Canonical
  <2>2. CASE i <= n
    <3>1. m = n /\ n \in 1 .. m /\ u # << >>
      BY <1>1, <2>2
    <3>2. u[n]
      BY <3>1 DEF Canonical
    <3>3. v[m]
      BY <1>1, <3>1, <3>2
    <3>4. QED
      BY <1>3, <1>4, <3>3 DEF Canonical
  <2>3. QED
    BY <1>1, <2>1, <2>2
<1>6. ASSUME NEW x \in Nat
      PROVE  IsUsed(d, x) <=> IsUsed(c, x) \/ x = w
  <2>1. IsUsed(d, x) <=> x < c.frontier \/ (x - c.frontier \in 1 .. m /\ v[x - c.frontier])
    BY <1>3, <1>4 DEF IsUsed
  <2>2. IsUsed(c, x) <=> x < c.frontier \/ (x - c.frontier \in 1 .. n /\ u[x - c.frontier])
    BY <1>1 DEF IsUsed
  <2>3. x - c.frontier = i <=> x = w
    BY <1>1
  <2>4. x - c.frontier \in 1 .. m =>
          (v[x - c.frontier] <=> x = w \/ (x - c.frontier <= n /\ u[x - c.frontier]))
    BY <2>3
  <2>5. x = w => x - c.frontier \in 1 .. m
    BY <1>1
  <2>6. x - c.frontier \in 1 .. n <=> x - c.frontier \in 1 .. m /\ x - c.frontier <= n
    BY <1>1
  <2> HIDE DEF i, u, n, m, v, d
  <2>7. QED
    BY <2>1, <2>2, <2>4, <2>5, <2>6
<1>7. Words(d) = Words(c) \cup {w}
  BY <1>4, <1>6, WordsOf
<1>8. QED
  BY <1>2, <1>4, <1>5, <1>7

\* Use adds its word.
LEMMA UseWords ==
  ASSUME NEW c \in Coverages, Canonical(c), NEW w \in Nat
  PROVE  /\ Use(c, w) \in Coverages /\ Canonical(Use(c, w))
         /\ Words(Use(c, w)) = Words(c) \cup {w}
<1>1. c.frontier \in Nat
  BY DEF Coverages
<1>2. CASE w = c.frontier
  <2>1. Use(c, w) = UseFrontier(c)
    BY <1>1, <1>2 DEF Use
  <2>2. QED
    BY <1>2, <2>1, UseFrontierWords
<1>3. CASE w > c.frontier
  BY <1>3, MarkBehind
<1>4. CASE w < c.frontier
  <2>1. Use(c, w) = c
    BY <1>1, <1>4 DEF Use
  <2>2. w \in Words(c)
    BY <1>1, <1>4, FrontierUnused
  <2>3. QED
    BY <2>1, <2>2
<1>5. QED
  BY <1>1, <1>2, <1>3, <1>4

\* UseTo adds all words before its word.
LEMMA UseToWords ==
  ASSUME NEW c \in Coverages, Canonical(c), NEW w \in Nat
  PROVE  /\ UseTo(c, w) \in Coverages /\ Canonical(UseTo(c, w))
         /\ Words(UseTo(c, w)) = Words(c) \cup 0 .. w - 1
<1> DEFINE i == w - c.frontier
           d == [frontier |-> w, used |-> << >>]
<1>1. /\ c.frontier \in Nat /\ i \in Int /\ Len(c.used) \in Nat
      /\ DOMAIN c.used = 1 .. Len(c.used)
  BY DEF Coverages
<1>2. CASE i <= 0
  <2>1. UseTo(c, w) = c
    BY <1>1, <1>2 DEF UseTo
  <2>2. 0 .. w - 1 \subseteq Words(c)
    BY <1>1, <1>2, FrontierUnused
  <2>3. QED
    BY <2>1, <2>2
<1>3. CASE i > Len(c.used)
  <2>1. UseTo(c, w) = d
    BY <1>1, <1>3 DEF UseTo
  <2>2. d \in Coverages /\ Canonical(d)
    BY DEF Coverages, Canonical
  <2>3. \A x \in Nat : IsUsed(d, x) <=> x < w
    BY DEF IsUsed
  <2>4. \A x \in Nat : IsUsed(c, x) => x < w
    BY <1>1, <1>3 DEF IsUsed
  <2>5. QED
    BY <2>1, <2>2, <2>3, <2>4, WordsOf
<1>4. CASE i > 0 /\ i <= Len(c.used)
  <2>1. UseTo(c, w) = MoveTo(c, FirstFalse(c.used, i))
    BY <1>1, <1>4 DEF UseTo
  <2>2. i \in 1 .. Len(c.used) + 1 /\ c.frontier + i - 1 = w - 1
    BY <1>1, <1>4
  <2> HIDE DEF i
  <2>3. QED
    BY <2>1, <2>2, MoveToFirst
<1>5. QED
  BY <1>1, <1>2, <1>3, <1>4

(* The representation is unique: the same used words, the same frontier    *)
(* and the same vector.                                                    *)
LEMMA Unique ==
  ASSUME NEW c \in Coverages, NEW d \in Coverages, Canonical(c), Canonical(d),
         Words(c) = Words(d)
  PROVE  c = d
<1>1. /\ c.frontier \in Nat /\ c.used \in Seq(BOOLEAN) /\ Len(c.used) \in Nat
      /\ d.frontier \in Nat /\ d.used \in Seq(BOOLEAN) /\ Len(d.used) \in Nat
      /\ c = [frontier |-> c.frontier, used |-> c.used]
      /\ d = [frontier |-> d.frontier, used |-> d.used]
  BY DEF Coverages
<1>2. c.frontier = d.frontier
  <2>1. ~ (c.frontier < d.frontier)
    BY <1>1, FrontierUnused
  <2>2. ~ (d.frontier < c.frontier)
    BY <1>1, FrontierUnused
  <2>3. QED
    BY <1>1, <2>1, <2>2
<1>3. ASSUME NEW a \in Coverages, NEW i \in Nat, i >= 1
      PROVE  a.frontier + i \in Words(a) <=> i <= Len(a.used) /\ a.used[i]
  <2>1. a.frontier \in Nat /\ Len(a.used) \in Nat /\ DOMAIN a.used = 1 .. Len(a.used)
    BY DEF Coverages
  <2>2. a.frontier + i \in Nat /\ (a.frontier + i) - a.frontier = i
        /\ ~ (a.frontier + i < a.frontier)
    BY <1>3, <2>1
  <2>3. IsUsed(a, a.frontier + i) <=> i \in 1 .. Len(a.used) /\ a.used[i]
    BY <2>1, <2>2 DEF IsUsed
  <2>4. QED
    BY <1>3, <2>1, <2>2, <2>3, WordsOf
<1>4. \A i \in Nat : i >= 1 =>
        (i <= Len(c.used) /\ c.used[i] <=> i <= Len(d.used) /\ d.used[i])
  BY <1>2, <1>3
<1>5. Len(c.used) = Len(d.used)
  <2>1. ASSUME Len(c.used) < Len(d.used) PROVE FALSE
    BY <1>1, <1>4, <2>1 DEF Canonical
  <2>2. ASSUME Len(d.used) < Len(c.used) PROVE FALSE
    BY <1>1, <1>4, <2>2 DEF Canonical
  <2>3. QED
    BY <1>1, <2>1, <2>2
<1>6. c.used = d.used
  <2>1. \A i \in 1 .. Len(c.used) : c.used[i] \in BOOLEAN /\ d.used[i] \in BOOLEAN
    BY <1>1, <1>5
  <2>2. \A i \in 1 .. Len(c.used) : c.used[i] = d.used[i]
    <3>1. TAKE i \in 1 .. Len(c.used)
    <3>2. c.used[i] <=> d.used[i]
      BY <1>1, <1>4, <1>5
    <3>3. QED
      BY <2>1, <3>2
  <2>3. QED
    BY <1>1, <1>5, <2>2, SeqEqual
<1>7. QED
  BY <1>1, <1>2, <1>6
-----------------------------------------------------------------------------
\* CoverageOK for one hypothesis.
LEMMA TypeOf ==
  ASSUME CoverageOK, NEW h \in Hypotheses
  PROVE  coverage[h] \in Coverages /\ Canonical(coverage[h])
  BY DEF CoverageOK

(* The effect of each kind of call on all coverages.                       *)
LEMMA StepWords ==
  ASSUME CoverageOK, CoverageNext
  PROVE  /\ CoverageOK'
         /\ \E h \in Hypotheses, W \in SUBSET Nat :
              /\ \/ \E w \in 0 .. LastWord : W = {w}
                 \/ \E w \in 0 .. LastWord : W = 0 .. w - 1
              /\ [g \in Hypotheses |-> Words(coverage'[g])] =
                   [[g \in Hypotheses |-> Words(coverage[g])] EXCEPT ![h] = @ \cup W]
<1> DEFINE Moves(h, c, W) ==
      /\ coverage' = [coverage EXCEPT ![h] = c]
      /\ c \in Coverages /\ Canonical(c) /\ Words(c) = Words(coverage[h]) \cup W
<1>1. PICK h \in Hypotheses :
        CallUseFrontier(h) \/ \E w \in 0 .. LastWord : CallUse(h, w) \/ CallUseTo(h, w)
  BY DEF CoverageNext
<1>2. coverage[h] \in Coverages /\ Canonical(coverage[h]) /\ coverage[h].frontier \in Nat
  BY <1>1, TypeOf DEF Coverages
<1>3. \E c : \E W \in SUBSET Nat :
        /\ Moves(h, c, W)
        /\ (\E w \in 0 .. LastWord : W = {w}) \/ \E w \in 0 .. LastWord : W = 0 .. w - 1
  <2>1. CASE CallUseFrontier(h)
    <3>1. Moves(h, UseFrontier(coverage[h]), {coverage[h].frontier})
      BY <1>2, <2>1, UseFrontierWords DEF CallUseFrontier
    <3>2. coverage[h].frontier \in 0 .. LastWord
      BY <1>2, <2>1, LastWordAssumption DEF CallUseFrontier
    <3> HIDE DEF Moves
    <3>3. QED
      BY <1>2, <3>1, <3>2
  <2>2. ASSUME NEW w \in 0 .. LastWord, CallUse(h, w)
        PROVE  \E c : \E W \in SUBSET Nat : Moves(h, c, W) /\ W = {w}
    <3>1. w \in Nat
      BY LastWordAssumption
    <3>2. Moves(h, Use(coverage[h], w), {w})
      BY <1>2, <2>2, <3>1, UseWords DEF CallUse
    <3> HIDE DEF Moves
    <3>3. QED
      BY <3>1, <3>2
  <2>3. ASSUME NEW w \in 0 .. LastWord, CallUseTo(h, w)
        PROVE  \E c : \E W \in SUBSET Nat : Moves(h, c, W) /\ W = 0 .. w - 1
    <3>1. w \in Nat /\ 0 .. w - 1 \in SUBSET Nat
      BY LastWordAssumption
    <3>2. Moves(h, UseTo(coverage[h], w), 0 .. w - 1)
      BY <1>2, <2>3, <3>1, UseToWords DEF CallUseTo
    <3> HIDE DEF Moves
    <3>3. QED
      BY <3>1, <3>2
  <2> HIDE DEF Moves
  <2>4. QED
    BY <1>1, <2>1, <2>2, <2>3
<1>3a. PICK c : \E W \in SUBSET Nat :
        /\ Moves(h, c, W)
        /\ (\E w \in 0 .. LastWord : W = {w}) \/ \E w \in 0 .. LastWord : W = 0 .. w - 1
  <2> HIDE DEF Moves
  <2>1. QED
    BY <1>3
<1>4. PICK W \in SUBSET Nat :
        /\ Moves(h, c, W)
        /\ (\E w \in 0 .. LastWord : W = {w}) \/ \E w \in 0 .. LastWord : W = 0 .. w - 1
  BY <1>3a
<1>5. /\ coverage \in [Hypotheses -> Coverages]
      /\ coverage' = [coverage EXCEPT ![h] = c]
      /\ c \in Coverages /\ Canonical(c) /\ Words(c) = Words(coverage[h]) \cup W
  BY <1>4 DEF CoverageOK
<1>6. coverage'[h] = c /\ \A g \in Hypotheses \ {h} : coverage'[g] = coverage[g]
  BY <1>5
<1>7. CoverageOK'
  BY <1>5, <1>6, TypeOf DEF CoverageOK
<1>8. [g \in Hypotheses |-> Words(coverage'[g])] =
        [[g \in Hypotheses |-> Words(coverage[g])] EXCEPT ![h] = @ \cup W]
  BY <1>5, <1>6
<1>9. QED
  BY <1>4, <1>7, <1>8

(* The invariant, which is inductive as it stands: coverages have their    *)
(* type and store nothing behind the last used word.                       *)
THEOREM CoverageTypeCorrect == CoverageSpec => []CoverageOK
<1>1. CoverageInit => CoverageOK
  BY RootWords DEF CoverageInit, CoverageOK
<1>2. CoverageOK /\ [CoverageNext]_coverage => CoverageOK'
  <2>1. ASSUME CoverageOK, UNCHANGED coverage PROVE CoverageOK'
    BY <2>1 DEF CoverageOK
  <2>2. QED
    BY <2>1, StepWords
<1>3. QED
  BY <1>1, <1>2, PTL DEF CoverageSpec

(* Recombination: comparing frontier_ and used_ compares the used words.   *)
THEOREM EqualityIsSameWords == CoverageSpec => []EqualIffSameWords
<1>1. CoverageOK => EqualIffSameWords
  BY Unique DEF CoverageOK, EqualIffSameWords
<1>2. QED
  BY <1>1, CoverageTypeCorrect, PTL

(* Every call adds to the set of used words what its name says.            *)
THEOREM CoverageRefinement == CoverageSpec => ImplementsUsedWords
<1>1. CoverageInit => Abstract!Init
  BY RootWords DEF CoverageInit, Abstract!Init
<1>2. CoverageOK /\ [CoverageNext]_coverage
        => [Abstract!Next]_([h \in Hypotheses |-> Words(coverage[h])])
  <2>1. ASSUME CoverageOK, CoverageNext PROVE Abstract!Next
    <3>1. PICK h \in Hypotheses, W \in SUBSET Nat :
            /\ \/ \E w \in 0 .. LastWord : W = {w}
               \/ \E w \in 0 .. LastWord : W = 0 .. w - 1
            /\ [g \in Hypotheses |-> Words(coverage'[g])] =
                 [[g \in Hypotheses |-> Words(coverage[g])] EXCEPT ![h] = @ \cup W]
      BY <2>1, StepWords
    <3>2. \E w \in 0 .. LastWord : Abstract!Use(h, w) \/ Abstract!UseTo(h, w)
      BY <3>1 DEF Abstract!Use, Abstract!UseTo
    <3>3. QED
      BY <3>2 DEF Abstract!Next
  <2>2. ASSUME UNCHANGED coverage
        PROVE  UNCHANGED [h \in Hypotheses |-> Words(coverage[h])]
    BY <2>2
  <2>3. QED
    BY <2>1, <2>2
<1>3. QED
  BY <1>1, <1>2, CoverageTypeCorrect, PTL DEF CoverageSpec, ImplementsUsedWords, Abstract!Spec
-----------------------------------------------------------------------------
\* Sentences and their words, whatever is aligned.
Sentences(t) ==
  /\ IsFiniteSet(EnginesOf(t)) /\ EnginesOf(t) \subseteq Nat /\ 0 \in EnginesOf(t)
  /\ \A e \in EnginesOf(t) : t.len[e] \in Nat /\ t.len[e] >= 2
  /\ t.punctuation \subseteq InnerWords(t)

\* A word is an engine with an offset into its sentence.
LEMMA LocationIs ==
  ASSUME NEW t
  PROVE  /\ \A l \in Locations(t) : l = <<l[1], l[2]>> /\ l[1] \in EnginesOf(t) /\ l[2] \in 0 .. t.len[l[1]] - 1
         /\ \A e \in EnginesOf(t) : \A x \in 0 .. t.len[e] - 1 : <<e, x>> \in Locations(t)
<1>1. ASSUME NEW l \in Locations(t)
      PROVE  l = <<l[1], l[2]>> /\ l[1] \in EnginesOf(t) /\ l[2] \in 0 .. t.len[l[1]] - 1
  <2>1. PICK e \in EnginesOf(t) : l \in {e} \X (0 .. t.len[e] - 1)
    BY DEF Locations
  <2> QED
    BY <2>1
<1>2. ASSUME NEW e \in EnginesOf(t), NEW x \in 0 .. t.len[e] - 1
      PROVE  <<e, x>> \in Locations(t)
  <2>1. <<e, x>> \in {e} \X (0 .. t.len[e] - 1)
    OBVIOUS
  <2> QED
    BY <2>1 DEF Locations
<1> QED
  BY <1>1, <1>2

\* There are finitely many words.
LEMMA LocationsFinite ==
  ASSUME NEW t, Sentences(t)
  PROVE  IsFiniteSet(Locations(t))
<1> DEFINE f == [e \in EnginesOf(t) |-> {e} \X (0 .. t.len[e] - 1)]
<1>1. \A e \in EnginesOf(t) : IsFiniteSet(f[e])
  <2> TAKE e \in EnginesOf(t)
  <2>1. IsFiniteSet({e}) /\ IsFiniteSet(0 .. t.len[e] - 1)
    <3>1. t.len[e] - 1 \in Int
      BY DEF Sentences
    <3>2. IsFiniteSet(0 .. t.len[e] - 1)
      BY <3>1, FS_Interval
    <3> QED
      BY <3>2, FS_Singleton
  <2> QED
    BY <2>1, FS_Product
<1> DEFINE F == {f[e] : e \in EnginesOf(t)}
<1>2. IsFiniteSet(F)
  <2>1. f \in Surjection(EnginesOf(t), F)
    BY DEF Surjection
  <2> QED
    BY <2>1, FS_Surjection DEF Sentences
<1>3. IsFiniteSet(UNION F)
  <2>1. \A A \in F : IsFiniteSet(A)
    BY <1>1
  <2> HIDE DEF F
  <2> QED
    BY <1>2, <2>1, FS_UNION
<1>4. Locations(t) = UNION F
  BY DEF Locations
<1> QED
  BY <1>3, <1>4

\* Which words a matcher's output and the two kinds of additions connect.
Match(raw, l, m) == \E type : <<l, m, type>> \in raw.matches
Link(raw, l, m) == \E type : <<l, m, type>> \in Connections(raw)

(* The links are those of a word with itself, of markers of the same kind, *)
(* and the matches both ways.                                              *)
LEMMA LinkIs ==
  ASSUME NEW raw, MatcherOutput(raw)
  PROVE  /\ \A k \in Connections(raw) : k = <<k[1], k[2], k[3]>> /\ k[1] \in Locations(raw) /\ k[2] \in Locations(raw)
         /\ \A l, m : Link(raw, l, m) <=>
              /\ l \in Locations(raw) /\ m \in Locations(raw)
              /\ \/ l = m
                 \/ l[1] # m[1] /\ ((l = BOS(l[1]) /\ m = BOS(m[1])) \/ (IsEnd(raw, l) /\ IsEnd(raw, m)))
                 \/ Match(raw, l, m) \/ Match(raw, m, l)
<1> DEFINE L == Locations(raw)
           B == BoundaryAlignments(raw)
<1>1. \A m \in raw.matches : /\ m = <<m[1], m[2], m[3]>> /\ m[1] \in L /\ m[2] \in L
  BY DEF MatcherOutput, InnerWords
<1>2. \A e \in EnginesOf(raw) : BOS(e) \in L /\ EOS(raw, e) \in L /\ BOS(e)[1] = e /\ EOS(raw, e)[1] = e
  BY LocationIs DEF MatcherOutput, BOS, EOS
<1>3. \A k : k \in B <=> \E d, e \in EnginesOf(raw) : d # e /\ (k = <<BOS(d), BOS(e), "boundary">> \/ k = <<EOS(raw, d), EOS(raw, e), "boundary">>)
  <2> DEFINE P == {p \in EnginesOf(raw) \X EnginesOf(raw) : p[1] # p[2]}
  <2>1. B = {<<BOS(p[1]), BOS(p[2]), "boundary">> : p \in P} \cup {<<EOS(raw, p[1]), EOS(raw, p[2]), "boundary">> : p \in P}
    BY DEF BoundaryAlignments
  <2>2. \A p \in P : p[1] \in EnginesOf(raw) /\ p[2] \in EnginesOf(raw) /\ p[1] # p[2]
    OBVIOUS
  <2>3. \A d, e \in EnginesOf(raw) : d # e => <<d, e>> \in P /\ <<d, e>>[1] = d /\ <<d, e>>[2] = e
    OBVIOUS
  <2> HIDE DEF P, B
  <2>4. ASSUME NEW k \in B
        PROVE  \E d, e \in EnginesOf(raw) : d # e /\ (k = <<BOS(d), BOS(e), "boundary">> \/ k = <<EOS(raw, d), EOS(raw, e), "boundary">>)
    <3>1. PICK p \in P : k = <<BOS(p[1]), BOS(p[2]), "boundary">> \/ k = <<EOS(raw, p[1]), EOS(raw, p[2]), "boundary">>
      BY <2>1
    <3> QED
      BY <2>2, <3>1
  <2>5. ASSUME NEW d \in EnginesOf(raw), NEW e \in EnginesOf(raw), d # e
        PROVE  <<BOS(d), BOS(e), "boundary">> \in B /\ <<EOS(raw, d), EOS(raw, e), "boundary">> \in B
    <3>1. <<d, e>> \in P /\ <<d, e>>[1] = d /\ <<d, e>>[2] = e
      BY <2>3, <2>5
    <3> QED
      BY <2>1, <3>1
  <2> QED
    BY <2>4, <2>5
<1>4. \A k : k \in Connections(raw) <=>
        \/ k \in raw.matches
        \/ \E m \in raw.matches : k = <<m[2], m[1], m[3]>>
        \/ \E l \in L : k = <<l, l, "self">>
        \/ k \in B
  BY DEF Connections, SelfAlignments
<1> HIDE DEF B, L
<1>5. \A k \in Connections(raw) : k = <<k[1], k[2], k[3]>> /\ k[1] \in L /\ k[2] \in L
  BY <1>1, <1>2, <1>3, <1>4
<1>6. ASSUME NEW l, NEW m, Link(raw, l, m)
      PROVE  /\ l \in L /\ m \in L
             /\ \/ l = m
                \/ l[1] # m[1] /\ ((l = BOS(l[1]) /\ m = BOS(m[1])) \/ (IsEnd(raw, l) /\ IsEnd(raw, m)))
                \/ Match(raw, l, m) \/ Match(raw, m, l)
  <2>1. PICK type : <<l, m, type>> \in Connections(raw)
    BY <1>6 DEF Link
  <2>2. l \in L /\ m \in L
    BY <1>5, <2>1
  <2>3. CASE <<l, m, type>> \in raw.matches
    BY <2>2, <2>3 DEF Match
  <2>4. ASSUME NEW x \in raw.matches, <<l, m, type>> = <<x[2], x[1], x[3]>>
        PROVE  Match(raw, m, l)
    <3>1. x = <<m, l, type>>
      BY <1>1, <2>4
    <3> QED
      BY <2>4, <3>1 DEF Match
  <2>5. CASE <<l, m, type>> \in B
    <3>1. PICK d, e \in EnginesOf(raw) : d # e /\ (<<l, m>> = <<BOS(d), BOS(e)>> \/ <<l, m>> = <<EOS(raw, d), EOS(raw, e)>>)
      BY <1>3, <2>5
    <3>2. l[1] = d /\ m[1] = e
      BY <1>2, <3>1
    <3> QED
      BY <2>2, <3>1, <3>2 DEF IsEnd
  <2> QED
    BY <1>4, <2>1, <2>2, <2>3, <2>4, <2>5
<1>7. ASSUME NEW l \in L, NEW m \in L,
             \/ l = m
             \/ l[1] # m[1] /\ ((l = BOS(l[1]) /\ m = BOS(m[1])) \/ (IsEnd(raw, l) /\ IsEnd(raw, m)))
             \/ Match(raw, l, m) \/ Match(raw, m, l)
      PROVE  Link(raw, l, m)
  <2>1. CASE l = m
    BY <1>4, <2>1 DEF Link
  <2>2. CASE l[1] # m[1] /\ ((l = BOS(l[1]) /\ m = BOS(m[1])) \/ (IsEnd(raw, l) /\ IsEnd(raw, m)))
    <3>1. l[1] \in EnginesOf(raw) /\ m[1] \in EnginesOf(raw)
      BY LocationIs DEF L
    <3> QED
      BY <1>3, <1>4, <2>2, <3>1 DEF Link, IsEnd
  <2>3. CASE Match(raw, l, m)
    BY <1>4, <2>3 DEF Match, Link
  <2>4. CASE Match(raw, m, l)
    <3>1. PICK type : <<m, l, type>> \in raw.matches
      BY <2>4 DEF Match
    <3>2. <<l, m, type>> \in Connections(raw)
      BY <1>4, <3>1
    <3> QED
      BY <3>2 DEF Link
  <2> QED
    BY <1>7, <2>1, <2>2, <2>3, <2>4
<1> QED
  BY <1>5, <1>6, <1>7 DEF L

\* A word is linked with one word of an engine.
LEMMA LinkOnce ==
  ASSUME NEW raw, MatcherOutput(raw), NEW l, NEW m, NEW n,
         Link(raw, l, m), Link(raw, l, n), m[1] = n[1]
  PROVE  m = n
<1>1. l \in Locations(raw) /\ m \in Locations(raw) /\ n \in Locations(raw)
  BY LinkIs
<1>2. \A x, y : Match(raw, x, y) =>
        /\ x \in InnerWords(raw) /\ y \in InnerWords(raw) /\ x[1] < y[1]
        /\ x[1] \in Nat /\ y[1] \in Nat
  <2> SUFFICES ASSUME NEW x, NEW y, NEW type, <<x, y, type>> \in raw.matches
               PROVE  /\ x \in InnerWords(raw) /\ y \in InnerWords(raw) /\ x[1] < y[1]
                      /\ x[1] \in Nat /\ y[1] \in Nat
    BY DEF Match
  <2>1. x \in InnerWords(raw) /\ y \in InnerWords(raw) /\ x[1] < y[1]
    BY DEF MatcherOutput
  <2> QED
    BY <2>1, LocationIs DEF InnerWords, MatcherOutput
<1>3. \A x, y, z : /\ Match(raw, x, y) /\ Match(raw, x, z) /\ y[1] = z[1] => y = z
                   /\ Match(raw, y, x) /\ Match(raw, z, x) /\ y[1] = z[1] => y = z
  <2> SUFFICES ASSUME NEW x, NEW y, NEW z
               PROVE  /\ Match(raw, x, y) /\ Match(raw, x, z) /\ y[1] = z[1] => y = z
                      /\ Match(raw, y, x) /\ Match(raw, z, x) /\ y[1] = z[1] => y = z
    OBVIOUS
  <2> QED
    BY DEF Match, MatcherOutput, OneToOne
<1>4. \A x, y : Match(raw, x, y) /\ Match(raw, x, y) => x[1] # y[1]
  BY <1>2
<1>5. \A x \in InnerWords(raw) : x # BOS(x[1]) /\ ~IsEnd(raw, x)
  BY DEF InnerWords, BOS
<1>6. \A x, y, z : Match(raw, x, y) /\ Match(raw, z, x) => y[1] # z[1]
  <2> SUFFICES ASSUME NEW x, NEW y, NEW z, Match(raw, x, y), Match(raw, z, x) PROVE y[1] # z[1]
    OBVIOUS
  <2>1. x[1] < y[1] /\ z[1] < x[1] /\ x[1] \in Nat /\ y[1] \in Nat /\ z[1] \in Nat
    BY <1>2
  <2> QED
    BY <2>1
<1>7. \A x : IsEnd(raw, x) <=> x = EOS(raw, x[1])
  BY DEF IsEnd
<1>8. \A x \in Locations(raw) : ~(x = BOS(x[1]) /\ x = EOS(raw, x[1]))
  BY LocationIs DEF BOS, EOS, MatcherOutput
<1> HIDE DEF Link
<1> DEFINE Cases(m_) ==
             \/ l = m_
             \/ l[1] # m_[1] /\ ((l = BOS(l[1]) /\ m_ = BOS(m_[1])) \/ (IsEnd(raw, l) /\ IsEnd(raw, m_)))
             \/ Match(raw, l, m_) \/ Match(raw, m_, l)
<1>9. Cases(m) /\ Cases(n)
  BY LinkIs
<1>10. \A x, y : Match(raw, x, y) => x \in InnerWords(raw) /\ y \in InnerWords(raw) /\ x[1] # y[1]
  BY <1>2
<1>11. CASE l = m
  BY <1>9, <1>10, <1>11
<1>12. CASE l[1] # m[1] /\ ((l = BOS(l[1]) /\ m = BOS(m[1])) \/ (IsEnd(raw, l) /\ IsEnd(raw, m)))
  BY <1>1, <1>5, <1>7, <1>8, <1>9, <1>10, <1>12
<1>13. CASE Match(raw, l, m)
  BY <1>3, <1>5, <1>6, <1>9, <1>10, <1>13
<1>14. CASE Match(raw, m, l)
  BY <1>3, <1>5, <1>6, <1>9, <1>10, <1>14
<1> QED
  BY <1>9, <1>11, <1>12, <1>13, <1>14

(* What the properties need of aligned sentences: words are aligned with   *)
(* words that exist, both ways, and a marker only with its like.           *)
Sound(t) ==
  /\ Sentences(t)
  /\ \A l \in Locations(t) : \A e \in EnginesOf(t) :
       IsConnection(Ask(t, l, e)) => <<e, Ask(t, l, e).offset>> \in Locations(t)
  /\ \A l \in Locations(t) : Aligned(t, l, l)
  /\ \A l, m \in Locations(t) : Aligned(t, l, m) =>
       /\ Aligned(t, m, l)
       /\ IsEnd(t, l) <=> IsEnd(t, m)
       /\ l = BOS(l[1]) <=> m = BOS(m[1])

\* What ReadFromJava records of a word for an engine is the one link there is.
LEMMA InfoIs ==
  ASSUME NEW raw, MatcherOutput(raw), NEW l \in Locations(raw), NEW e \in EnginesOf(raw)
  PROVE  LET info == Ask(ReadFromJava(raw), l, e) IN
         /\ IsConnection(info) <=> \E m : m[1] = e /\ Link(raw, l, m)
         /\ \A m : m[1] = e /\ Link(raw, l, m) => IsConnection(info) /\ info.offset = m[2]
<1> DEFINE K == {k \in Connections(raw) : k[1] = l /\ k[2][1] = e}
           info == Ask(ReadFromJava(raw), l, e)
<1>1. info = Info(K)
  BY DEF Ask, ReadFromJava
<1>2. ASSUME NEW m, m[1] = e, Link(raw, l, m)
      PROVE  IsConnection(info) /\ info.offset = m[2]
  <2>1. PICK type : <<l, m, type>> \in Connections(raw)
    BY <1>2 DEF Link
  <2>2. <<l, m, type>> \in K
    BY <1>2, <2>1
  <2>3. \A k \in K : k[2] = m
    <3> SUFFICES ASSUME NEW k \in K PROVE k[2] = m
      OBVIOUS
    <3>1. k = <<k[1], k[2], k[3]>> /\ k[1] = l /\ k[2][1] = e /\ k \in Connections(raw)
      BY LinkIs
    <3>2. Link(raw, l, k[2])
      BY <3>1 DEF Link
    <3> QED
      BY <1>2, <3>1, <3>2, LinkOnce
  <2> HIDE DEF K
  <2>4. (CHOOSE k \in K : TRUE) \in K
    BY <2>2
  <2>5. Info(K).offset = (CHOOSE k \in K : TRUE)[2][2]
    BY <2>2 DEF Info
  <2>6. type \in Info(K).type
    BY <2>2 DEF Info
  <2> QED
    BY <1>1, <2>3, <2>4, <2>5, <2>6 DEF IsConnection
<1>3. ASSUME IsConnection(info) PROVE \E m : m[1] = e /\ Link(raw, l, m)
  <2>1. K # {}
    BY <1>1, <1>3 DEF IsConnection, Info
  <2>2. PICK k \in K : TRUE
    BY <2>1
  <2>3. k = <<k[1], k[2], k[3]>> /\ k[1] = l /\ k[2][1] = e /\ k \in Connections(raw)
    BY LinkIs
  <2> QED
    BY <2>3 DEF Link
<1> QED
  BY <1>2, <1>3

\* Words and markers are a matter of the lengths of the sentences.
LEMMA SameSentences ==
  ASSUME NEW t, NEW u, t.len = u.len
  PROVE  /\ EnginesOf(t) = EnginesOf(u) /\ Locations(t) = Locations(u) /\ InnerWords(t) = InnerWords(u)
         /\ \A l : IsEnd(t, l) <=> IsEnd(u, l)
BY DEF EnginesOf, Locations, InnerWords, IsEnd, EOS

\* ReadFromJava makes sound sentences of a matcher's output.
LEMMA ReadIsSound ==
  ASSUME NEW raw, MatcherOutput(raw)
  PROVE  LET t == ReadFromJava(raw) IN
         /\ Sound(t) /\ t.len = raw.len
         /\ \A l, m \in Locations(raw) : Aligned(t, l, m) <=> Link(raw, l, m)
<1> DEFINE t == ReadFromJava(raw)
<1>1. t.len = raw.len /\ t.punctuation = raw.punctuation
  BY DEF ReadFromJava
<1> HIDE DEF t
<1>2. EnginesOf(t) = EnginesOf(raw) /\ Locations(t) = Locations(raw) /\ InnerWords(t) = InnerWords(raw)
      /\ \A l : IsEnd(t, l) <=> IsEnd(raw, l)
  BY <1>1, SameSentences
<1>3. Sentences(t)
  BY <1>1, <1>2 DEF Sentences, MatcherOutput
<1>4. ASSUME NEW l \in Locations(raw), NEW m \in Locations(raw)
      PROVE  Aligned(t, l, m) <=> Link(raw, l, m)
  <2>1. m[1] \in EnginesOf(raw) /\ m = <<m[1], m[2]>>
    BY LocationIs
  <2>2. \A n : Link(raw, l, n) => n \in Locations(raw) /\ n = <<n[1], n[2]>>
    BY LinkIs, LocationIs
  <2>3. IsConnection(Ask(t, l, m[1])) <=> \E n : n[1] = m[1] /\ Link(raw, l, n)
    BY <2>1, InfoIs DEF t
  <2>4. \A n : n[1] = m[1] /\ Link(raw, l, n) => IsConnection(Ask(t, l, m[1])) /\ Ask(t, l, m[1]).offset = n[2]
    BY <2>1, InfoIs DEF t
  <2> QED
    BY <2>1, <2>2, <2>3, <2>4 DEF Aligned
<1>5. ASSUME NEW l \in Locations(t), NEW e \in EnginesOf(t), IsConnection(Ask(t, l, e))
      PROVE  <<e, Ask(t, l, e).offset>> \in Locations(t)
  <2>1. PICK m : m[1] = e /\ Link(raw, l, m)
    BY <1>2, <1>5, InfoIs DEF t
  <2>2. Ask(t, l, e).offset = m[2]
    BY <1>2, <2>1, InfoIs DEF t
  <2>3. m \in Locations(raw) /\ m = <<m[1], m[2]>>
    BY <2>1, LinkIs, LocationIs
  <2> QED
    BY <1>2, <2>1, <2>2, <2>3
<1>6. \A l \in Locations(t) : Aligned(t, l, l)
  BY <1>2, <1>4, LinkIs
<1>7. ASSUME NEW l \in Locations(t), NEW m \in Locations(t), Aligned(t, l, m)
      PROVE  /\ Aligned(t, m, l)
             /\ IsEnd(t, l) <=> IsEnd(t, m)
             /\ l = BOS(l[1]) <=> m = BOS(m[1])
  <2>1. Link(raw, l, m)
    BY <1>2, <1>4, <1>7
  <2>2. \A x, y : Match(raw, x, y) => x \in InnerWords(raw) /\ y \in InnerWords(raw)
    BY DEF Match, MatcherOutput
  <2>3. \A x \in InnerWords(raw) : x # BOS(x[1]) /\ ~IsEnd(raw, x)
    BY DEF InnerWords, BOS
  <2>4. \A x \in Locations(raw) : ~(x = BOS(x[1]) /\ IsEnd(raw, x))
    BY LocationIs DEF BOS, EOS, MatcherOutput, IsEnd
  <2>5. l \in Locations(raw) /\ m \in Locations(raw)
    BY <1>2
  <2>6. \/ l = m
        \/ l[1] # m[1] /\ ((l = BOS(l[1]) /\ m = BOS(m[1])) \/ (IsEnd(raw, l) /\ IsEnd(raw, m)))
        \/ Match(raw, l, m) \/ Match(raw, m, l)
    BY <2>1, LinkIs
  <2>7. Link(raw, m, l)
    BY <2>5, <2>6, LinkIs
  <2>8. Aligned(t, m, l)
    BY <1>4, <2>5, <2>7
  <2>9. (IsEnd(raw, l) <=> IsEnd(raw, m)) /\ (l = BOS(l[1]) <=> m = BOS(m[1]))
    BY <2>2, <2>3, <2>4, <2>5, <2>6
  <2> QED
    BY <1>2, <2>8, <2>9
<1> QED
  BY <1>1, <1>3, <1>4, <1>5, <1>6, <1>7 DEF Sound, t

\* S is closed under alignment.
ClosedUnder(t, S) == \A s \in S, m \in Locations(t) : Aligned(t, s, m) => m \in S

(* CloseAlignment is the least closed set with the word.                   *)
LEMMA ClosureIs ==
  ASSUME NEW t, IsFiniteSet(Locations(t)), NEW l \in Locations(t)
  PROVE  /\ CloseAlignment(t, l) \in SUBSET Locations(t)
         /\ l \in CloseAlignment(t, l)
         /\ ClosedUnder(t, CloseAlignment(t, l))
         /\ \A Q \in SUBSET Locations(t) : l \in Q /\ ClosedUnder(t, Q) => CloseAlignment(t, l) \subseteq Q
<1> DEFINE L == Locations(t)
           D == SUBSET L
           T(S) == S \cup {m \in L : \E s \in S : Aligned(t, s, m)}
           step == [S \in D |-> T(S)]
           rest == {S \in D : T(S) = S}
           out == [S \in D |-> S]
           f == CHOOSE g : g = [S \in SUBSET Locations(t) |->
                  LET U == S \cup {m \in Locations(t) : \E s \in S : Aligned(t, s, m)}
                  IN IF U = S THEN S ELSE g[U]]
<1>1. step \in [D -> D] /\ rest \in SUBSET D /\ out \in [D -> D]
  OBVIOUS
<1>2. CloseAlignment(t, l) = f[{l}]
  BY DEF CloseAlignment
<1>3. Loop(D, step, rest, out, f)
  <2>1. PICK g \in [D -> D \cup {{}}] : Loop(D, step, rest, out, g)
    <3> HIDE DEF step, rest, out, D
    <3> QED
      BY <1>1, TailRecursion
  <2>2. g = [S \in SUBSET Locations(t) |->
               LET U == S \cup {m \in Locations(t) : \E s \in S : Aligned(t, s, m)}
               IN IF U = S THEN S ELSE g[U]]
    <3>1. \A S \in D : g[S] = IF T(S) = S THEN S ELSE g[T(S)]
      BY <2>1 DEF Loop
    <3> QED
      BY <2>1, <3>1
  <2>3. f = [S \in SUBSET Locations(t) |->
               LET U == S \cup {m \in Locations(t) : \E s \in S : Aligned(t, s, m)}
               IN IF U = S THEN S ELSE f[U]]
    BY <2>2
  <2> HIDE DEF f
  <2>4. \A S \in D : f[S] = IF T(S) = S THEN S ELSE f[T(S)]
    BY <2>3
  <2> QED
    BY <2>4 DEF Loop
<1> HIDE DEF f
<1>4. ASSUME NEW Q \in SUBSET L, l \in Q, ClosedUnder(t, Q)
      PROVE  \E R \in D : l \in R /\ R \subseteq Q /\ ClosedUnder(t, R) /\ f[{l}] = R
  <2> DEFINE Good == {S \in D : l \in S /\ S \subseteq Q}
             m == [S \in Good |-> Cardinality(L \ S)]
  <2>1. \A S \in Good : IsFiniteSet(L \ S) /\ Cardinality(L \ S) \in Nat
    <3> TAKE S \in Good
    <3>1. IsFiniteSet(L \ S)
      BY FS_Subset
    <3> QED
      BY <3>1, FS_CardinalityType
  <2>2. \A S \in Good : m[S] \in Nat
    BY <2>1
  <2>3. ASSUME NEW S \in Good, S \notin rest
        PROVE  step[S] \in Good /\ m[step[S]] < m[S]
    <3>1. T(S) \in Good
      BY <1>4 DEF ClosedUnder
    <3>2. T(S) # S /\ S \subseteq T(S)
      BY <2>3
    <3>3. L \ T(S) \subseteq L \ S /\ L \ T(S) # L \ S
      BY <3>2
    <3>4. Cardinality(L \ T(S)) < Cardinality(L \ S)
      <4> DEFINE A == L \ T(S)
                 B == L \ S
      <4>1. IsFiniteSet(B) /\ A \in SUBSET B /\ A # B
        BY <2>1, <3>3
      <4>2. Cardinality(A) \in Nat /\ Cardinality(B) \in Nat
        BY <2>1, <3>1
      <4> HIDE DEF A, B
      <4>3. Cardinality(A) <= Cardinality(B) /\ Cardinality(A) # Cardinality(B)
        BY <4>1, FS_Subset
      <4>4. Cardinality(A) < Cardinality(B)
        BY <4>2, <4>3
      <4> QED
        BY <4>4 DEF A, B
    <3>5. step[S] = T(S)
      OBVIOUS
    <3> HIDE DEF T, Good, step
    <3> QED
      BY <3>1, <3>4, <3>5, <2>3
  <2>4. {l} \in Good
    BY <1>4
  <2>5. Good \in SUBSET D
    OBVIOUS
  <2>6. \E R \in Good : R \in rest /\ f[{l}] = out[R]
    <3> HIDE DEF Good, m, step, rest, out, D
    <3> QED
      <4>1. Falls(Good, step, rest, m)
        BY <2>2, <2>3 DEF Falls
      <4> QED
        BY <1>3, <2>4, <2>5, <4>1, LoopRule
  <2>7. PICK R \in Good : R \in rest /\ f[{l}] = out[R]
    BY <2>6
  <2>8. ClosedUnder(t, R)
    BY <2>7 DEF ClosedUnder
  <2> QED
    BY <2>7, <2>8
<1>5. ClosedUnder(t, L)
  BY DEF ClosedUnder
<1>6. PICK R \in D : l \in R /\ ClosedUnder(t, R) /\ f[{l}] = R
  BY <1>4, <1>5
<1> QED
  BY <1>2, <1>4, <1>6

(* With alignments that go both ways, the words of a closure all have the  *)
(* same closure.                                                           *)
Symmetric(t) == \A l, m \in Locations(t) : Aligned(t, l, m) => Aligned(t, m, l)

LEMMA ClosureSame ==
  ASSUME NEW t, IsFiniteSet(Locations(t)), Symmetric(t),
         NEW l \in Locations(t), NEW m \in CloseAlignment(t, l)
  PROVE  m \in Locations(t) /\ CloseAlignment(t, m) = CloseAlignment(t, l)
<1> DEFINE L == Locations(t)
           C == CloseAlignment(t, l)
           E == CloseAlignment(t, m)
<1>1. m \in L /\ C \in SUBSET L /\ l \in C /\ ClosedUnder(t, C)
  BY ClosureIs
<1>2. E \in SUBSET L /\ m \in E /\ ClosedUnder(t, E)
  BY <1>1, ClosureIs
<1>3. E \subseteq C
  BY <1>1, ClosureIs
\* Were l not in E, the rest of C would be closed and have l.
<1>4. l \in E
  <2> SUFFICES ASSUME l \notin E PROVE FALSE
    OBVIOUS
  <2> DEFINE Q == C \ E
  <2>1. ClosedUnder(t, Q)
    <3> SUFFICES ASSUME NEW x \in Q, NEW y \in L, Aligned(t, x, y) PROVE y \in Q
      BY DEF ClosedUnder
    <3>1. y \in C
      BY <1>1 DEF ClosedUnder
    <3>2. x \in L /\ Aligned(t, y, x)
      BY <1>1 DEF Symmetric
    <3>3. y \notin E
      BY <1>2, <3>2 DEF ClosedUnder
    <3> QED
      BY <3>1, <3>3
  <2>2. l \in Q /\ Q \in SUBSET L
    BY <1>1
  <2>3. C \subseteq Q
    <3> HIDE DEF Q
    <3> QED
      BY <2>1, <2>2, ClosureIs
  <2> QED
    BY <1>2, <2>3
<1>5. C \subseteq E
  BY <1>2, <1>4, ClosureIs
<1> QED
  BY <1>1, <1>3, <1>5

(* MakeAlignmentsTransitive: members of a closure that is in conflict are  *)
(* aligned as they were, the others with all of its members.               *)
LEMMA TransitiveIs ==
  ASSUME NEW raw, MatcherOutput(raw)
  PROVE  LET t == ReadFromJava(raw)
             u == MakeAlignmentsTransitive(t)
         IN /\ u.len = t.len /\ u.punctuation = t.punctuation
            /\ \A l \in Locations(t) : \A e \in EnginesOf(t) :
                 LET S == CloseAlignment(t, l) IN
                 IF Conflict(S) \/ \A m \in S : m[1] # e
                 THEN Ask(u, l, e) = Ask(t, l, e)
                 ELSE /\ IsConnection(Ask(u, l, e))
                      /\ \A m \in S : m[1] = e => Ask(u, l, e).offset = m[2]
<1> DEFINE t == ReadFromJava(raw)
           u == MakeAlignmentsTransitive(t)
           al == [l \in Locations(t) |-> LET S == CloseAlignment(t, l) IN
                   [e \in EnginesOf(t) |->
                      IF Conflict(S) \/ \A m \in S : m[1] # e THEN t.align[l][e]
                      ELSE [offset |-> (CHOOSE m \in S : m[1] = e)[2],
                            type |-> t.align[l][e].type \cup {"transitive"}]]]
<1>1. u = [t EXCEPT !.align = al]
  BY DEF MakeAlignmentsTransitive
<1>2. \E a, b, c : t = [len |-> a, punctuation |-> b, align |-> c]
  BY DEF ReadFromJava
<1> HIDE DEF t, u
<1>3. u.len = t.len /\ u.punctuation = t.punctuation /\ u.align = al
  <2> HIDE DEF al
  <2> QED
    BY <1>1, <1>2
<1>4. ASSUME NEW l \in Locations(t), NEW e \in EnginesOf(t)
      PROVE  LET S == CloseAlignment(t, l) IN
             IF Conflict(S) \/ \A m \in S : m[1] # e
             THEN Ask(u, l, e) = Ask(t, l, e)
             ELSE /\ IsConnection(Ask(u, l, e))
                  /\ \A m \in S : m[1] = e => Ask(u, l, e).offset = m[2]
  <2> DEFINE S == CloseAlignment(t, l)
  <2>1. Ask(u, l, e) = IF Conflict(S) \/ \A m \in S : m[1] # e THEN t.align[l][e]
                       ELSE [offset |-> (CHOOSE m \in S : m[1] = e)[2],
                             type |-> t.align[l][e].type \cup {"transitive"}]
    BY <1>3 DEF Ask
  <2> HIDE DEF S, al
  <2>2. CASE Conflict(S) \/ \A m \in S : m[1] # e
    BY <2>1, <2>2 DEF Ask, S
  <2>3. CASE ~(Conflict(S) \/ \A m \in S : m[1] # e)
    <3>1. Ask(u, l, e).offset = (CHOOSE m \in S : m[1] = e)[2]
      BY <2>1, <2>3
    <3>2. "transitive" \in Ask(u, l, e).type
      BY <2>1, <2>3
    <3>3. \A m \in S : m[1] = e => m = CHOOSE n \in S : n[1] = e
      BY <2>3 DEF Conflict
    <3>4. \A m \in S : m[1] = e => Ask(u, l, e).offset = m[2]
      BY <3>1, <3>3
    <3>5. IsConnection(Ask(u, l, e))
      BY <3>2 DEF IsConnection
    <3> QED
      BY <2>3, <3>4, <3>5 DEF S
  <2> QED
    BY <2>2, <2>3
<1> QED
  BY <1>3, <1>4 DEF t, u

(* After it, alignment is transitive but for words whose closure is in     *)
(* conflict.                                                               *)
Transitive(t) ==
  \A l, m, n \in Locations(t) :
    Aligned(t, l, m) /\ Aligned(t, m, n) => Aligned(t, l, n) \/ Conflict(CloseAlignment(t, l))

(* MakeAlignmentsTransitive keeps the sentences sound, and makes alignment *)
(* transitive but for conflicts, whatever the matches are.                 *)
LEMMA TransitiveIsSound ==
  ASSUME NEW raw, MatcherOutput(raw)
  PROVE  LET u == MakeAlignmentsTransitive(ReadFromJava(raw)) IN
         Sound(u) /\ u.len = raw.len /\ Transitive(u)
<1> DEFINE t == ReadFromJava(raw)
           u == MakeAlignmentsTransitive(t)
           L == Locations(t)
           C(l) == CloseAlignment(t, l)
<1>1. Sound(t) /\ t.len = raw.len
  BY ReadIsSound
<1>2. /\ u.len = t.len /\ u.punctuation = t.punctuation
      /\ \A l \in L : \A e \in EnginesOf(t) :
           IF Conflict(C(l)) \/ \A m \in C(l) : m[1] # e
           THEN Ask(u, l, e) = Ask(t, l, e)
           ELSE /\ IsConnection(Ask(u, l, e))
                /\ \A m \in C(l) : m[1] = e => Ask(u, l, e).offset = m[2]
  BY TransitiveIs
<1> HIDE DEF t, u
<1>3. EnginesOf(u) = EnginesOf(t) /\ Locations(u) = L /\ InnerWords(u) = InnerWords(t)
      /\ \A l : IsEnd(u, l) <=> IsEnd(t, l)
  BY <1>2, SameSentences
<1>4. Sentences(u)
  BY <1>1, <1>2, <1>3 DEF Sound, Sentences
<1>5. IsFiniteSet(L) /\ Symmetric(t)
  BY <1>1, LocationsFinite DEF Sound, Symmetric
<1>6. \A l \in L : C(l) \in SUBSET L /\ l \in C(l) /\ ClosedUnder(t, C(l))
  BY <1>5, ClosureIs
<1>7. \A l \in L : \A m \in C(l) : C(m) = C(l)
  BY <1>5, ClosureSame
<1>8. \A l \in L : l = <<l[1], l[2]>> /\ l[1] \in EnginesOf(t)
  BY LocationIs
\* How the new alignments relate to the old ones.
<1>9. ASSUME NEW l \in L, NEW m \in L, Conflict(C(l))
      PROVE  Aligned(u, l, m) <=> Aligned(t, l, m)
  BY <1>2, <1>8, <1>9 DEF Aligned
<1>10. ASSUME NEW l \in L, NEW m \in L, ~Conflict(C(l))
       PROVE  Aligned(u, l, m) <=> m \in C(l)
  <2>1. CASE m \in C(l)
    BY <1>2, <1>8, <1>10, <2>1 DEF Aligned
  <2>2. CASE m \notin C(l)
    <3>1. CASE \A n \in C(l) : n[1] # m[1]
      <4>1. Ask(u, l, m[1]) = Ask(t, l, m[1])
        BY <1>2, <1>8, <3>1
      <4>2. ~Aligned(t, l, m)
        BY <1>6, <2>2 DEF ClosedUnder
      <4> QED
        BY <2>2, <4>1, <4>2 DEF Aligned
    <3>2. ASSUME NEW n \in C(l), n[1] = m[1]
          PROVE  ~Aligned(u, l, m)
      <4>1. Ask(u, l, m[1]).offset = n[2]
        BY <1>2, <1>8, <1>10, <3>2
      <4>2. n \in L /\ n # m
        BY <1>6, <2>2, <3>2
      <4> QED
        BY <1>8, <3>2, <4>1, <4>2 DEF Aligned
    <3> QED
      BY <2>2, <3>1, <3>2
  <2> QED
    BY <2>1, <2>2
<1>11. ASSUME NEW l \in L, NEW m \in L, Aligned(u, l, m)
       PROVE  m \in C(l) /\ C(m) = C(l)
  <2>1. m \in C(l)
    BY <1>6, <1>9, <1>10, <1>11 DEF ClosedUnder
  <2> QED
    BY <1>7, <2>1
\* A property that alignment keeps, closures keep.
<1>12. ASSUME NEW l \in L, NEW m \in C(l)
       PROVE  /\ IsEnd(t, l) <=> IsEnd(t, m)
              /\ l = BOS(l[1]) <=> m = BOS(m[1])
  <2> DEFINE Q == {x \in L : (IsEnd(t, x) <=> IsEnd(t, l)) /\ (x = BOS(x[1]) <=> l = BOS(l[1]))}
  <2>1. ClosedUnder(t, Q)
    BY <1>1 DEF ClosedUnder, Sound
  <2>2. l \in Q /\ Q \in SUBSET L
    OBVIOUS
  <2>3. C(l) \subseteq Q
    <3> HIDE DEF Q
    <3> QED
      BY <1>5, <2>1, <2>2, ClosureIs
  <2> QED
    BY <2>3
<1>13. ASSUME NEW l \in L, NEW m \in L, Aligned(u, l, m)
       PROVE  /\ Aligned(u, m, l)
              /\ IsEnd(t, l) <=> IsEnd(t, m)
              /\ l = BOS(l[1]) <=> m = BOS(m[1])
  <2>1. m \in C(l) /\ C(m) = C(l)
    BY <1>11, <1>13
  <2>2. CASE Conflict(C(l))
    <3>1. Aligned(t, l, m)
      BY <1>9, <1>13, <2>2
    <3>2. Aligned(t, m, l)
      BY <1>5, <3>1 DEF Symmetric
    <3>3. Conflict(C(m))
      BY <2>1, <2>2
    <3> QED
      BY <1>9, <1>12, <2>1, <3>2, <3>3
  <2>3. CASE ~Conflict(C(l))
    <3>1. ~Conflict(C(m)) /\ l \in C(m)
      BY <1>6, <2>1, <2>3
    <3> QED
      BY <1>10, <1>12, <2>1, <3>1
  <2> QED
    BY <1>12, <2>1, <2>2, <2>3
<1>14. ASSUME NEW l \in L PROVE Aligned(u, l, l)
  BY <1>1, <1>6, <1>9, <1>10 DEF Sound
<1>15. ASSUME NEW l \in L, NEW e \in EnginesOf(t), IsConnection(Ask(u, l, e))
       PROVE  <<e, Ask(u, l, e).offset>> \in L
  <2>1. CASE Conflict(C(l)) \/ \A m \in C(l) : m[1] # e
    <3>1. Ask(u, l, e) = Ask(t, l, e)
      BY <1>2, <2>1
    <3> QED
      BY <1>1, <1>15, <3>1 DEF Sound
  <2>2. ASSUME ~Conflict(C(l)), NEW m \in C(l), m[1] = e
        PROVE  <<e, Ask(u, l, e).offset>> \in L
    <3>1. Ask(u, l, e).offset = m[2] /\ m \in L
      BY <1>2, <1>6, <2>2
    <3> QED
      BY <1>8, <2>2, <3>1
  <2> QED
    BY <2>1, <2>2
<1>16. Sound(u)
  BY <1>3, <1>4, <1>13, <1>14, <1>15 DEF Sound
\* Words whose closure is in conflict have at least the same closure.
<1>17. ASSUME NEW l \in L, Conflict(C(l)) PROVE Conflict(CloseAlignment(u, l))
  <2> DEFINE E == CloseAlignment(u, l)
             Q == C(l) \cap E
  <2>1. E \in SUBSET L /\ l \in E /\ ClosedUnder(u, E)
    BY <1>3, <1>5, ClosureIs
  <2>2. ClosedUnder(t, Q)
    <3> SUFFICES ASSUME NEW x \in Q, NEW y \in L, Aligned(t, x, y) PROVE y \in Q
      BY DEF ClosedUnder
    <3>1. y \in C(l) /\ C(x) = C(l) /\ x \in L
      BY <1>6, <1>7 DEF ClosedUnder
    <3>2. Aligned(u, x, y)
      BY <1>9, <1>17, <3>1
    <3>3. y \in E
      BY <1>3, <2>1, <3>2 DEF ClosedUnder
    <3> QED
      BY <3>1, <3>3
  <2>3. l \in Q /\ Q \in SUBSET L
    BY <1>6, <2>1
  <2>4. C(l) \subseteq Q
    <3> HIDE DEF Q
    <3> QED
      BY <1>5, <2>2, <2>3, ClosureIs
  <2> HIDE DEF E
  <2>5. C(l) \subseteq E
    BY <2>4
  <2> QED
    BY <1>17, <2>5 DEF Conflict, E
<1>18. Transitive(u)
  <2> SUFFICES ASSUME NEW l \in L, NEW m \in L, NEW n \in L, Aligned(u, l, m), Aligned(u, m, n),
                      ~Conflict(CloseAlignment(u, l))
               PROVE  Aligned(u, l, n)
    BY <1>3 DEF Transitive
  <2>1. ~Conflict(C(l))
    BY <1>17
  <2>2. n \in C(l)
    BY <1>11
  <2> QED
    BY <1>10, <2>1, <2>2
<1> QED
  BY <1>1, <1>2, <1>16, <1>18 DEF t, u

(* The closures of two aligned words are in conflict both or neither.      *)
LEMMA ConflictBoth ==
  ASSUME NEW t, Sound(t), NEW l \in Locations(t), NEW m \in Locations(t), Aligned(t, l, m)
  PROVE  Conflict(CloseAlignment(t, l)) <=> Conflict(CloseAlignment(t, m))
<1>1. IsFiniteSet(Locations(t)) /\ Symmetric(t)
  BY LocationsFinite DEF Sound, Symmetric
<1>2. m \in CloseAlignment(t, l)
  BY <1>1, ClosureIs DEF ClosedUnder
<1>3. CloseAlignment(t, m) = CloseAlignment(t, l)
  BY <1>1, <1>2, ClosureSame
<1> QED
  BY <1>3
-----------------------------------------------------------------------------
(* A coverage of a sentence of n words: of the words from the marker on    *)
(* only those before the frontier are used.                                *)
Fine(c, n) ==
  /\ c \in Coverages /\ Canonical(c)
  /\ \A w \in Nat : IsUsed(c, w) => w < n - 1 \/ w < c.frontier
Grows(c, d) == \A w \in Nat : IsUsed(c, w) => IsUsed(d, w)

\* UseWords and UseFrontierWords, said with IsUsed.
LEMMA UseIs ==
  ASSUME NEW c \in Coverages, Canonical(c), NEW w \in Nat
  PROVE  /\ Use(c, w) \in Coverages /\ Canonical(Use(c, w))
         /\ \A x \in Nat : IsUsed(Use(c, w), x) <=> IsUsed(c, x) \/ x = w
<1>1. Use(c, w) \in Coverages /\ Canonical(Use(c, w)) /\ Words(Use(c, w)) = Words(c) \cup {w}
  BY UseWords
<1> QED
  BY <1>1, WordsOf

LEMMA UseFrontierIs ==
  ASSUME NEW c \in Coverages, Canonical(c)
  PROVE  /\ UseFrontier(c) \in Coverages /\ Canonical(UseFrontier(c))
         /\ \A x \in Nat : IsUsed(UseFrontier(c), x) <=> IsUsed(c, x) \/ x = c.frontier
<1>1. /\ UseFrontier(c) \in Coverages /\ Canonical(UseFrontier(c))
      /\ Words(UseFrontier(c)) = Words(c) \cup {c.frontier}
  BY UseFrontierWords
<1> QED
  BY <1>1, WordsOf

\* FrontierUnused, said with IsUsed.
LEMMA FrontierIs ==
  ASSUME NEW c \in Coverages
  PROVE  /\ c.frontier \in Nat /\ ~IsUsed(c, c.frontier)
         /\ \A x \in Nat : x < c.frontier => IsUsed(c, x)
<1>1. c.frontier \in Nat
  BY DEF Coverages
<1> QED
  BY <1>1, FrontierUnused, WordsOf

\* A coverage that has used more words has its frontier no earlier.
LEMMA FrontierGrows ==
  ASSUME NEW c \in Coverages, NEW d \in Coverages, Grows(c, d)
  PROVE  c.frontier <= d.frontier
<1>1. c.frontier \in Nat /\ d.frontier \in Nat
  BY FrontierIs
<1>2. ~(d.frontier < c.frontier)
  BY <1>1, FrontierIs DEF Grows
<1> QED
  BY <1>1, <1>2

\* Marking a word before the end-of-sentence marker keeps a coverage fine.
LEMMA UseFine ==
  ASSUME NEW n \in Nat, NEW c, Fine(c, n), NEW w \in 0 .. n - 2
  PROVE  Fine(Use(c, w), n) /\ Grows(c, Use(c, w)) /\ IsUsed(Use(c, w), w)
<1>1. c \in Coverages /\ Canonical(c) /\ w \in Nat /\ w < n - 1
  BY DEF Fine
<1>2. /\ Use(c, w) \in Coverages /\ Canonical(Use(c, w))
      /\ \A x \in Nat : IsUsed(Use(c, w), x) <=> IsUsed(c, x) \/ x = w
  BY <1>1, UseIs
<1>3. Grows(c, Use(c, w))
  BY <1>2 DEF Grows
<1>4. c.frontier <= Use(c, w).frontier /\ c.frontier \in Nat /\ Use(c, w).frontier \in Nat
  BY <1>1, <1>2, <1>3, FrontierGrows, FrontierIs
<1>5. \A x \in Nat : IsUsed(Use(c, w), x) => x < n - 1 \/ x < Use(c, w).frontier
  BY <1>1, <1>2, <1>4 DEF Fine
<1> QED
  BY <1>1, <1>2, <1>3, <1>5 DEF Fine

(* The frontier moves on: by one word, or over words that were used, which *)
(* takes it to the end-of-sentence marker at most.                         *)
LEMMA UseFrontierFine ==
  ASSUME NEW n \in Nat, NEW c, Fine(c, n)
  PROVE  LET d == UseFrontier(c) IN
         /\ Fine(d, n) /\ Grows(c, d)
         /\ c.frontier \in Nat /\ d.frontier \in Nat /\ d.frontier > c.frontier
         /\ d.frontier = c.frontier + 1 \/ d.frontier <= n - 1
<1> DEFINE d == UseFrontier(c)
<1>1. c \in Coverages /\ Canonical(c)
  BY DEF Fine
<1>2. /\ d \in Coverages /\ Canonical(d)
      /\ \A x \in Nat : IsUsed(d, x) <=> IsUsed(c, x) \/ x = c.frontier
  BY <1>1, UseFrontierIs
<1> HIDE DEF d
<1>3. Grows(c, d)
  BY <1>2 DEF Grows
<1>4. c.frontier <= d.frontier /\ c.frontier \in Nat /\ d.frontier \in Nat
  BY <1>1, <1>2, <1>3, FrontierGrows, FrontierIs
<1>5. d.frontier # c.frontier
  BY <1>2, <1>4, FrontierIs
<1>6. \A x \in Nat : IsUsed(d, x) => x < n - 1 \/ x < d.frontier
  BY <1>2, <1>4, <1>5 DEF Fine
<1>7. ASSUME d.frontier # c.frontier + 1 PROVE d.frontier <= n - 1
  <2>1. c.frontier + 1 < d.frontier
    BY <1>4, <1>5, <1>7
  <2> SUFFICES ASSUME d.frontier > n - 1 PROVE FALSE
    BY <1>4
  <2> DEFINE x == d.frontier - 1
  <2>2. x \in Nat /\ x < d.frontier /\ x # c.frontier /\ x >= n - 1 /\ x > c.frontier
    BY <1>4, <2>1
  <2>3. IsUsed(d, x)
    BY <1>2, <2>2, FrontierIs
  <2>4. IsUsed(c, x)
    BY <1>2, <2>2, <2>3
  <2>5. x < n - 1 \/ x < c.frontier
    BY <2>2, <2>4 DEF Fine
  <2> QED
    BY <1>4, <2>2, <2>5
<1> QED
  BY <1>2, <1>3, <1>4, <1>5, <1>6, <1>7 DEF Fine, d

\* Without Canonical: what the recursive functions range over.
LEMMA UseFrontierType ==
  ASSUME NEW c \in Coverages
  PROVE  /\ UseFrontier(c) \in Coverages /\ c.frontier \in Nat
         /\ UseFrontier(c).frontier \in Nat /\ UseFrontier(c).frontier > c.frontier
<1> DEFINE i == FirstFalse(c.used, 1)
<1>1. c.frontier \in Nat /\ c.used \in Seq(BOOLEAN) /\ Len(c.used) \in Nat /\ 1 \in 1 .. Len(c.used) + 1
  BY DEF Coverages
<1>2. i \in 1 .. Len(c.used) + 1
  BY <1>1, FirstFalseProperties
<1>3. SubSeq(c.used, i + 1, Len(c.used)) \in Seq(BOOLEAN)
  <2>1. CASE i <= Len(c.used)
    BY <1>1, <1>2, <2>1, SubSeqProperties
  <2>2. CASE i = Len(c.used) + 1
    BY <1>1, <2>2, SubSeqEmpty
  <2> QED
    BY <1>1, <1>2, <2>1, <2>2
<1> HIDE DEF i
<1>4. UseFrontier(c) = [frontier |-> c.frontier + i, used |-> SubSeq(c.used, i + 1, Len(c.used))]
  BY DEF UseFrontier, MoveTo, i
<1>5. c.frontier + i \in Nat /\ c.frontier + i > c.frontier
  BY <1>1, <1>2
<1> QED
  BY <1>1, <1>3, <1>4, <1>5 DEF Coverages
-----------------------------------------------------------------------------
\* Growing is transitive.
LEMMA GrowsTwice ==
  ASSUME NEW b, NEW c, NEW d, Grows(b, c), Grows(c, d)
  PROVE  Grows(b, d)
  BY DEF Grows

(* SkipPunctuation stops before the end-of-sentence marker at the latest.  *)
LEMMA SkipIs ==
  ASSUME NEW t, Sentences(t), NEW e \in EnginesOf(t), NEW c \in Coverages
  PROVE  LET n == t.len[e]
             d == SkipPunctuation(t, e, c)
         IN /\ d \in Coverages
            /\ Fine(c, n) => Fine(d, n) /\ Grows(c, d) /\ (d = c \/ d.frontier <= n - 1)
<1> DEFINE n == t.len[e]
           D == Coverages
           Go(d) == d.frontier < t.len[e] /\ IsPunctuation(t, <<e, d.frontier>>)
           step == [d \in D |-> UseFrontier(d)]
           rest == {d \in D : ~Go(d)}
           out == [d \in D |-> d]
           m == [d \in D |-> IF d.frontier < n THEN n - d.frontier ELSE 0]
           f == CHOOSE g : g = [d \in Coverages |->
                  IF d.frontier < t.len[e] /\ IsPunctuation(t, <<e, d.frontier>>)
                  THEN g[UseFrontier(d)] ELSE d]
<1>0. n \in Nat /\ n >= 2
  BY DEF Sentences
<1>1. step \in [D -> D] /\ rest \in SUBSET D /\ out \in [D -> D]
  BY UseFrontierType
<1>2. SkipPunctuation(t, e, c) = f[c]
  BY DEF SkipPunctuation
<1>3. Loop(D, step, rest, out, f)
  <2>1. PICK g \in [D -> D \cup {{}}] : Loop(D, step, rest, out, g)
    <3> HIDE DEF step, rest, out, D
    <3> QED
      BY <1>1, TailRecursion
  <2>2. g = [d \in Coverages |->
               IF d.frontier < t.len[e] /\ IsPunctuation(t, <<e, d.frontier>>)
               THEN g[UseFrontier(d)] ELSE d]
    <3>1. \A d \in D : g[d] = IF Go(d) THEN g[UseFrontier(d)] ELSE d
      BY <2>1 DEF Loop
    <3> QED
      BY <2>1, <3>1
  <2>3. f = [d \in Coverages |->
               IF d.frontier < t.len[e] /\ IsPunctuation(t, <<e, d.frontier>>)
               THEN f[UseFrontier(d)] ELSE d]
    BY <2>2
  <2> HIDE DEF f
  <2>4. \A d \in D : f[d] = IF Go(d) THEN f[UseFrontier(d)] ELSE d
    BY <2>3
  <2> QED
    BY <2>4 DEF Loop
<1> HIDE DEF f
<1>4. ASSUME NEW d \in D, d \notin rest
      PROVE  m[UseFrontier(d)] \in Nat /\ m[d] \in Nat /\ m[UseFrontier(d)] < m[d] /\ d.frontier < n - 1
  <2>1. d.frontier < n /\ <<e, d.frontier>> \in InnerWords(t)
    BY <1>4 DEF IsPunctuation, Sentences
  <2>2. d.frontier # n - 1 /\ d.frontier \in Nat
    BY <2>1, UseFrontierType DEF InnerWords, IsEnd, EOS
  <2>3. UseFrontier(d) \in D /\ UseFrontier(d).frontier \in Nat /\ UseFrontier(d).frontier > d.frontier
    BY UseFrontierType
  <2>4. m[d] = n - d.frontier
    BY <2>1
  <2>5. m[UseFrontier(d)] = IF UseFrontier(d).frontier < n THEN n - UseFrontier(d).frontier ELSE 0
    BY <2>3
  <2> QED
    BY <1>0, <2>1, <2>2, <2>3, <2>4, <2>5
<1>5. f[c] \in Coverages
  <2>1. Falls(D, step, rest, m)
    BY <1>1, <1>4 DEF Falls
  <2>2. D \in SUBSET D
    OBVIOUS
  <2>3. \E r \in D : r \in rest /\ f[c] = out[r]
    <3> HIDE DEF D, step, rest, out, m
    <3> QED
      BY <1>3, <2>1, <2>2, LoopRule DEF D
  <2> QED
    BY <2>3
<1>6. ASSUME Fine(c, n)
      PROVE  Fine(f[c], n) /\ Grows(c, f[c]) /\ (f[c] = c \/ f[c].frontier <= n - 1)
  <2> DEFINE Good == {d \in D : Fine(d, n) /\ Grows(c, d) /\ (d = c \/ d.frontier <= n - 1)}
  <2>1. ASSUME NEW d \in Good, d \notin rest
        PROVE  step[d] \in Good /\ m[step[d]] \in Nat /\ m[d] \in Nat /\ m[step[d]] < m[d]
    <3>1. step[d] = UseFrontier(d)
      OBVIOUS
    <3>2. m[UseFrontier(d)] \in Nat /\ m[d] \in Nat /\ m[UseFrontier(d)] < m[d] /\ d.frontier < n - 1
      BY <1>4, <2>1
    <3>3. /\ Fine(UseFrontier(d), n) /\ Grows(d, UseFrontier(d)) /\ d.frontier \in Nat
          /\ UseFrontier(d).frontier \in Nat
          /\ (UseFrontier(d).frontier = d.frontier + 1 \/ UseFrontier(d).frontier <= n - 1)
      BY <1>0, UseFrontierFine
    <3>4. Grows(c, UseFrontier(d))
      BY <3>3, GrowsTwice
    <3>5. UseFrontier(d) \in D
      BY UseFrontierType
    <3>6. UseFrontier(d) \in Good
      BY <1>0, <3>2, <3>3, <3>4, <3>5
    <3> QED
      BY <3>1, <3>2, <3>6
  <2>2. Falls(Good, step, rest, m)
    BY <2>1 DEF Falls
  <2>3. Good \in SUBSET D /\ c \in Good
    BY <1>6 DEF Grows
  <2>4. \E r \in Good : r \in rest /\ f[c] = out[r]
    <3> HIDE DEF Good, D, step, rest, out, m
    <3> QED
      BY <1>3, <2>2, <2>3, LoopRule
  <2> QED
    BY <2>4
<1> QED
  BY <1>2, <1>5, <1>6

(* AdvanceSkipPunctuation moves the frontier on, over the end of the       *)
(* sentence only from the marker.                                          *)
LEMMA AdvanceIs ==
  ASSUME NEW t, Sentences(t), NEW e \in EnginesOf(t), NEW c \in Coverages
  PROVE  LET n == t.len[e]
             d == AdvanceSkipPunctuation(t, e, c)
         IN /\ d \in Coverages /\ d.frontier \in Nat /\ c.frontier \in Nat
            /\ Fine(c, n) => /\ Fine(d, n) /\ Grows(c, d) /\ d.frontier > c.frontier
                             /\ d.frontier = c.frontier + 1 \/ d.frontier <= n - 1
<1> DEFINE n == t.len[e]
           b == UseFrontier(c)
           d == AdvanceSkipPunctuation(t, e, c)
<1>1. b \in Coverages /\ d = SkipPunctuation(t, e, b) /\ n \in Nat
  BY UseFrontierType DEF AdvanceSkipPunctuation, Sentences
<1> HIDE DEF b, d, n
<1>2. /\ d \in Coverages
      /\ Fine(b, n) => Fine(d, n) /\ Grows(b, d) /\ (d = b \/ d.frontier <= n - 1)
  BY <1>1, SkipIs DEF n
<1>3. d.frontier \in Nat /\ c.frontier \in Nat
  BY <1>2 DEF Coverages
<1>4. ASSUME Fine(c, n)
      PROVE  /\ Fine(d, n) /\ Grows(c, d) /\ d.frontier > c.frontier
             /\ d.frontier = c.frontier + 1 \/ d.frontier <= n - 1
  <2>1. /\ Fine(b, n) /\ Grows(c, b)
        /\ b.frontier \in Nat /\ b.frontier > c.frontier
        /\ b.frontier = c.frontier + 1 \/ b.frontier <= n - 1
    BY <1>1, <1>4, UseFrontierFine DEF b
  <2>2. Fine(d, n) /\ Grows(b, d) /\ (d = b \/ d.frontier <= n - 1)
    BY <1>2, <2>1
  <2>3. b.frontier <= d.frontier
    BY <1>1, <1>2, <2>2, FrontierGrows
  <2>4. Grows(c, d)
    BY <2>1, <2>2, GrowsTwice
  <2> QED
    BY <1>3, <2>1, <2>2, <2>3, <2>4
<1> QED
  BY <1>2, <1>3, <1>4 DEF n, d

(* UseAll: the words are used, whatever order they are taken in.           *)
LEMMA UseAllIs ==
  ASSUME NEW n \in Nat, NEW c, Fine(c, n), NEW W \in SUBSET (0 .. n - 2), IsFiniteSet(W)
  PROVE  LET d == UseAll(c, W) IN
         Fine(d, n) /\ Grows(c, d) /\ \A w \in W : IsUsed(d, w)
<1> DEFINE V == {d \in Coverages : Fine(d, n)}
           op == [p \in W \X V |-> Use(p[2], p[1])]
           f == CHOOSE g : g = [s \in SUBSET W |->
                  IF s = {} THEN c
                  ELSE LET x == CHOOSE y \in s : TRUE IN Use(g[s \ {x}], x)]
<1>1. UseAll(c, W) = f[W]
  BY DEF UseAll, FoldSet, MapThenFoldSet
<1>2. \A d \in V, w \in W : Use(d, w) \in V /\ Grows(d, Use(d, w)) /\ IsUsed(Use(d, w), w)
  BY UseFine DEF Fine
<1>3. op \in [W \X V -> V] /\ c \in V
  BY <1>2 DEF Fine
<1>4. f = [s \in SUBSET W |->
             IF s = {} THEN c
             ELSE LET x == CHOOSE y \in s : TRUE IN Use(f[s \ {x}], x)]
  <2>1. PICK g \in [SUBSET W -> V] : Folding(W, c, op, g)
    <3> HIDE DEF V, op
    <3> QED
      BY <1>3, FoldExists
  <2>2. ASSUME NEW s \in SUBSET W, s # {}
        PROVE  op[<<CHOOSE x \in s : TRUE, g[s \ {CHOOSE x \in s : TRUE}]>>]
                 = Use(g[s \ {CHOOSE x \in s : TRUE}], CHOOSE x \in s : TRUE)
    <3> DEFINE x == CHOOSE y \in s : TRUE
    <3>1. x \in W /\ s \ {x} \in SUBSET W
      BY <2>2
    <3> HIDE DEF x, V
    <3>2. op[<<x, g[s \ {x}]>>] = Use(g[s \ {x}], x)
      BY <2>1, <3>1
    <3> QED
      BY <3>2 DEF x
  <2>3. g = [s \in SUBSET W |->
               IF s = {} THEN c
               ELSE LET x == CHOOSE y \in s : TRUE IN Use(g[s \ {x}], x)]
    <3> HIDE DEF V, op
    <3>1. \A s \in SUBSET W : g[s] = IF s = {} THEN c
             ELSE Use(g[s \ {CHOOSE x \in s : TRUE}], CHOOSE x \in s : TRUE)
      BY <2>1, <2>2 DEF Folding
    <3> QED
      BY <2>1, <3>1
  <2> QED
    BY <2>3
<1> HIDE DEF f
<1> DEFINE V2 == V \cup {f[s] : s \in SUBSET W}
           op2 == [p \in W \X V2 |-> Use(p[2], p[1])]
           G == [s \in SUBSET W |-> {d \in V : Grows(c, d) /\ \A w \in s : IsUsed(d, w)}]
<1>5. \A x \in W, v \in V2 : op2[<<x, v>>] = Use(v, x)
  OBVIOUS
<1>6. Folding(W, c, op2, f)
  <2> SUFFICES ASSUME NEW s \in SUBSET W
               PROVE  f[s] = IF s = {} THEN c
                        ELSE op2[<<CHOOSE x \in s : TRUE, f[s \ {CHOOSE x \in s : TRUE}]>>]
    BY DEF Folding
  <2> DEFINE x == CHOOSE y \in s : TRUE
  <2>1. f[s] = IF s = {} THEN c ELSE Use(f[s \ {x}], x)
    BY <1>4
  <2>2. s # {} => x \in W /\ f[s \ {x}] \in V2
    OBVIOUS
  <2> HIDE DEF x, V2, op2
  <2>3. f[s] = IF s = {} THEN c ELSE op2[<<x, f[s \ {x}]>>]
    BY <1>5, <2>1, <2>2
  <2> QED
    BY <2>3 DEF x
<1>7. FoldKeeps(W, op2, G)
  <2> SUFFICES ASSUME NEW s \in SUBSET W, NEW x \in W, NEW v, x \in s, v \in G[s \ {x}]
               PROVE  op2[<<x, v>>] \in G[s]
    BY DEF FoldKeeps
  <2>1. v \in V /\ Grows(c, v) /\ \A w \in s \ {x} : IsUsed(v, w)
    OBVIOUS
  <2>2. op2[<<x, v>>] = Use(v, x)
    BY <1>5, <2>1
  <2>3. Use(v, x) \in V /\ Grows(v, Use(v, x)) /\ IsUsed(Use(v, x), x)
    BY <1>2, <2>1
  <2>4. Grows(c, Use(v, x))
    BY <2>1, <2>3, GrowsTwice
  <2>5. \A w \in s \ {x} : w \in Nat /\ IsUsed(Use(v, x), w)
    BY <2>1, <2>3 DEF Grows
  <2> QED
    BY <2>2, <2>3, <2>4, <2>5
<1>8. c \in G[{}]
  BY <1>3 DEF Grows
<1>9. f[W] \in G[W]
  <2> HIDE DEF G, op2, V
  <2> QED
    BY <1>6, <1>7, <1>8, FoldRule
<1> QED
  BY <1>1, <1>9
-----------------------------------------------------------------------------
(* A block lies before the end-of-sentence marker and has the aligned word *)
(* itself.                                                                 *)
LEMMA BlockIs ==
  ASSUME NEW t, Sentences(t), NEW types, NEW l \in Locations(t), ~IsEnd(t, l)
  PROVE  /\ Block(t, types, l) \in SUBSET (0 .. t.len[l[1]] - 2) /\ IsFiniteSet(Block(t, types, l))
         /\ l[2] \in Block(t, types, l)
<1> DEFINE n == t.len[l[1]]
           P == {p \in (0 .. l[2]) \X (l[2] .. n - 1) : p[2] \in PunctuationEnds(t, <<l[1], p[1]>>)}
<1>1. l = <<l[1], l[2]>> /\ l[1] \in EnginesOf(t) /\ l[2] \in 0 .. n - 1 /\ n \in Nat /\ n >= 2
  BY LocationIs DEF Sentences
<1>2. l[2] \in 0 .. n - 2
  BY <1>1 DEF IsEnd, EOS
<1>3. ASSUME NEW p \in P PROVE p[1] .. p[2] \subseteq 0 .. n - 2
  <2>1. p[1] \in Nat /\ p[2] \in Nat
    BY <1>1
  <2>2. p[2] <= n - 2
    BY <1>1, <2>1 DEF PunctuationEnds
  <2> QED
    BY <1>1, <2>1, <2>2
<1>4. Block(t, types, l) = {l[2]} \cup (IF "punctuation" \in types THEN UNION {p[1] .. p[2] : p \in P} ELSE {})
  BY DEF Block
<1> HIDE DEF P
<1>5. Block(t, types, l) \in SUBSET (0 .. n - 2)
  BY <1>2, <1>3, <1>4
<1>6. IsFiniteSet(0 .. n - 2)
  <2>1. n - 2 \in Int
    BY <1>1
  <2> QED
    BY <2>1, FS_Interval
<1>7. IsFiniteSet(Block(t, types, l))
  <2> HIDE DEF n
  <2> QED
    BY <1>5, <1>6, FS_Subset
<1> QED
  BY <1>4, <1>5, <1>7

(* The coverages of all engines, and how they change.                      *)
AllFine(t, cov) ==
  cov \in [EnginesOf(t) -> Coverages] /\ \A e \in EnginesOf(t) : Fine(cov[e], t.len[e])
AllGrow(t, cov, new) == \A e \in EnginesOf(t) : Grows(cov[e], new[e])

\* Growing is transitive for all engines.
LEMMA AllGrowTwice ==
  ASSUME NEW t, NEW b, NEW c, NEW d, AllGrow(t, b, c), AllGrow(t, c, d)
  PROVE  AllGrow(t, b, d)
  BY GrowsTwice DEF AllGrow

\* After Alignments all words aligned with l are used.
LEMMA AlignmentsIs ==
  ASSUME NEW t, Sound(t), NEW types, NEW cov, AllFine(t, cov), NEW l \in Locations(t), ~IsEnd(t, l)
  PROVE  LET new == Alignments(t, types, cov, l) IN
         /\ AllFine(t, new) /\ AllGrow(t, cov, new)
         /\ \A m \in Locations(t) : Aligned(t, l, m) => IsUsed(new[m[1]], m[2])
<1> DEFINE new == Alignments(t, types, cov, l)
           W(e) == Block(t, types, <<e, Ask(t, l, e).offset>>)
<1>1. Sentences(t) /\ \A e \in EnginesOf(t) : t.len[e] \in Nat
  BY DEF Sound, Sentences
<1>2. new = [e \in EnginesOf(t) |->
              IF e = l[1] THEN Use(cov[e], l[2])
              ELSE IF IsConnection(Ask(t, l, e)) THEN UseAll(cov[e], W(e)) ELSE cov[e]]
  BY DEF Alignments
<1>3. l = <<l[1], l[2]>> /\ l[1] \in EnginesOf(t) /\ l[2] \in 0 .. t.len[l[1]] - 1
  BY LocationIs
<1>4. l[2] \in 0 .. t.len[l[1]] - 2
  BY <1>1, <1>3 DEF IsEnd, EOS
<1>5. ASSUME NEW e \in EnginesOf(t), IsConnection(Ask(t, l, e))
      PROVE  /\ W(e) \in SUBSET (0 .. t.len[e] - 2) /\ IsFiniteSet(W(e))
             /\ Ask(t, l, e).offset \in W(e)
  <2> DEFINE m == <<e, Ask(t, l, e).offset>>
  <2>1. m \in Locations(t) /\ m[1] = e /\ m[2] = Ask(t, l, e).offset
    BY <1>5 DEF Sound
  <2>2. Aligned(t, l, m)
    BY <1>5, <2>1 DEF Aligned
  <2>3. ~IsEnd(t, m)
    BY <2>1, <2>2 DEF Sound
  <2> HIDE DEF m
  <2>4. Block(t, types, m) \in SUBSET (0 .. t.len[e] - 2) /\ IsFiniteSet(Block(t, types, m))
        /\ m[2] \in Block(t, types, m)
    BY <1>1, <2>1, <2>3, BlockIs
  <2> QED
    BY <2>1, <2>4 DEF m
<1> HIDE DEF W, new
<1>6. ASSUME NEW e \in EnginesOf(t)
      PROVE  /\ Fine(new[e], t.len[e]) /\ Grows(cov[e], new[e])
             /\ e = l[1] => IsUsed(new[e], l[2])
             /\ e # l[1] /\ IsConnection(Ask(t, l, e)) => IsUsed(new[e], Ask(t, l, e).offset)
  <2>1. Fine(cov[e], t.len[e]) /\ t.len[e] \in Nat
    BY <1>1 DEF AllFine
  <2>2. CASE e = l[1]
    <3>1. new[e] = Use(cov[e], l[2])
      BY <1>2, <2>2
    <3> QED
      BY <1>4, <2>1, <2>2, <3>1, UseFine
  <2>3. CASE e # l[1] /\ IsConnection(Ask(t, l, e))
    <3>1. new[e] = UseAll(cov[e], W(e))
      BY <1>2, <2>3
    <3> QED
      BY <1>5, <2>1, <2>3, <3>1, UseAllIs
  <2>4. CASE e # l[1] /\ ~IsConnection(Ask(t, l, e))
    <3>1. new[e] = cov[e]
      BY <1>2, <2>4
    <3> QED
      BY <2>1, <2>4, <3>1 DEF Grows
  <2> QED
    BY <2>2, <2>3, <2>4
<1>7. AllFine(t, new) /\ AllGrow(t, cov, new)
  <2>1. \A e \in EnginesOf(t) : new[e] \in Coverages
    BY <1>6 DEF Fine
  <2>2. new = [e \in EnginesOf(t) |-> new[e]]
    BY <1>2
  <2>3. new \in [EnginesOf(t) -> Coverages]
    BY <2>1, <2>2
  <2> QED
    BY <1>6, <2>3 DEF AllFine, AllGrow
<1>8. ASSUME NEW m \in Locations(t), Aligned(t, l, m) PROVE IsUsed(new[m[1]], m[2])
  <2>1. m[1] \in EnginesOf(t) /\ IsConnection(Ask(t, l, m[1])) /\ Ask(t, l, m[1]).offset = m[2]
    BY <1>8, LocationIs DEF Aligned
  <2>2. Ask(t, l, l[1]).offset = l[2]
    BY DEF Sound, Aligned
  <2> QED
    BY <1>6, <2>1, <2>2
<1> QED
  BY <1>7, <1>8 DEF new

\* SkipLeadingPunctuation only uses words.
LEMMA SkipLeadingIs ==
  ASSUME NEW t, Sentences(t), NEW cov, AllFine(t, cov), NEW a
  PROVE  LET new == SkipLeadingPunctuation(t, cov, a) IN AllFine(t, new) /\ AllGrow(t, cov, new)
<1> DEFINE new == SkipLeadingPunctuation(t, cov, a)
<1>1. new = [e \in EnginesOf(t) |-> IF e = a THEN cov[e] ELSE SkipPunctuation(t, e, cov[e])]
  BY DEF SkipLeadingPunctuation
<1> HIDE DEF new
<1>2. ASSUME NEW e \in EnginesOf(t)
      PROVE  new[e] \in Coverages /\ Fine(new[e], t.len[e]) /\ Grows(cov[e], new[e])
  <2>1. cov[e] \in Coverages /\ Fine(cov[e], t.len[e])
    BY DEF AllFine
  <2>2. CASE e = a
    BY <1>1, <2>1, <2>2 DEF Grows
  <2>3. CASE e # a
    BY <1>1, <2>1, <2>3, SkipIs
  <2> QED
    BY <2>2, <2>3
<1>3. new = [e \in EnginesOf(t) |-> new[e]]
  BY <1>1
<1>4. new \in [EnginesOf(t) -> Coverages]
  BY <1>2, <1>3
<1> QED
  BY <1>2, <1>4 DEF AllFine, AllGrow, new

(* One engine goes on.                                                     *)
LEMMA MoveIs ==
  ASSUME NEW t, Sentences(t), NEW cov, AllFine(t, cov), NEW e \in EnginesOf(t)
  PROVE  LET c == AdvanceSkipPunctuation(t, e, cov[e])
             new == [cov EXCEPT ![e] = c]
         IN /\ AllFine(t, new) /\ AllGrow(t, cov, new)
            /\ new[e] = c /\ \A f \in EnginesOf(t) : f # e => new[f] = cov[f]
            /\ c.frontier \in Nat /\ cov[e].frontier \in Nat /\ c.frontier > cov[e].frontier
            /\ c.frontier = cov[e].frontier + 1 \/ c.frontier <= t.len[e] - 1
<1> DEFINE c == AdvanceSkipPunctuation(t, e, cov[e])
           new == [cov EXCEPT ![e] = c]
<1>1. cov[e] \in Coverages /\ Fine(cov[e], t.len[e]) /\ cov \in [EnginesOf(t) -> Coverages]
  BY DEF AllFine
<1>2. /\ c \in Coverages /\ c.frontier \in Nat /\ cov[e].frontier \in Nat
      /\ Fine(c, t.len[e]) /\ Grows(cov[e], c) /\ c.frontier > cov[e].frontier
      /\ c.frontier = cov[e].frontier + 1 \/ c.frontier <= t.len[e] - 1
  BY <1>1, AdvanceIs
<1> HIDE DEF c
<1>3. new[e] = c /\ \A f \in EnginesOf(t) : f # e => new[f] = cov[f]
  BY <1>1
<1>4. new \in [EnginesOf(t) -> Coverages]
  BY <1>1, <1>2
<1>5. AllFine(t, new)
  BY <1>2, <1>3, <1>4 DEF AllFine
<1>6. AllGrow(t, cov, new)
  <2> SUFFICES ASSUME NEW f \in EnginesOf(t) PROVE Grows(cov[f], new[f])
    BY DEF AllGrow
  <2>1. Grows(cov[f], cov[f])
    BY DEF Grows
  <2> HIDE DEF new
  <2> QED
    BY <1>2, <1>3, <2>1
<1> QED
  BY <1>2, <1>3, <1>5, <1>6 DEF c
-----------------------------------------------------------------------------
(* The words from the frontiers on: fewer after each move of a live engine.*)
Left(t, cov) == {l \in Locations(t) : l[2] >= cov[l[1]].frontier}

\* The measure by which both ways to enforce the horizon end.
LEMMA LeftFalls ==
  ASSUME NEW t, Sentences(t), NEW cov, AllFine(t, cov), NEW new, AllFine(t, new), AllGrow(t, cov, new)
  PROVE  /\ Cardinality(Left(t, cov)) \in Nat /\ Cardinality(Left(t, new)) \in Nat
         /\ Cardinality(Left(t, new)) <= Cardinality(Left(t, cov))
         /\ \A e \in Live(t, cov) : new[e].frontier > cov[e].frontier
              => Cardinality(Left(t, new)) < Cardinality(Left(t, cov))
<1> DEFINE A == Left(t, new)
           B == Left(t, cov)
<1>1. \A e \in EnginesOf(t) : /\ cov[e].frontier \in Nat /\ new[e].frontier \in Nat
                              /\ cov[e].frontier <= new[e].frontier
  <2> TAKE e \in EnginesOf(t)
  <2>1. cov[e] \in Coverages /\ new[e] \in Coverages /\ Grows(cov[e], new[e])
    BY DEF AllFine, AllGrow
  <2> QED
    BY <2>1, FrontierGrows, FrontierIs
<1>2. IsFiniteSet(Locations(t))
  BY LocationsFinite
<1>3. A \subseteq B /\ B \subseteq Locations(t)
  <2> SUFFICES ASSUME NEW l \in Locations(t), l[2] >= new[l[1]].frontier
               PROVE  l[2] >= cov[l[1]].frontier
    BY DEF Left
  <2>1. l[1] \in EnginesOf(t) /\ l[2] \in Nat
    BY LocationIs DEF Sentences
  <2> QED
    BY <1>1, <2>1
<1> HIDE DEF A, B
<1>4. IsFiniteSet(A) /\ IsFiniteSet(B)
  BY <1>2, <1>3, FS_Subset
<1>5. Cardinality(A) \in Nat /\ Cardinality(B) \in Nat /\ Cardinality(A) <= Cardinality(B)
      /\ (A # B => Cardinality(A) # Cardinality(B))
  BY <1>3, <1>4, FS_Subset, FS_CardinalityType
<1>6. ASSUME NEW e \in Live(t, cov), new[e].frontier > cov[e].frontier PROVE A # B
  <2>1. e \in EnginesOf(t) /\ cov[e].frontier \in 0 .. t.len[e] - 1
    BY <1>1 DEF Live, RunsOff, Sentences
  <2>2. <<e, cov[e].frontier>> \in Locations(t)
    BY <2>1, LocationIs
  <2>3. <<e, cov[e].frontier>> \in B
    BY <1>1, <2>1, <2>2 DEF B, Left
  <2>4. <<e, cov[e].frontier>> \notin A
    BY <1>1, <1>6, <2>1 DEF A, Left
  <2> QED
    BY <2>3, <2>4
<1>7. \A e \in Live(t, cov) : new[e].frontier > cov[e].frontier => Cardinality(A) < Cardinality(B)
  BY <1>5, <1>6
<1> QED
  BY <1>5, <1>7 DEF A, B

(* What a configuration has to be.                                         *)
Configured(t, conf) ==
  /\ conf.method \in {"length", "alignment"} /\ conf.radius \in Nat
  /\ conf.stay_weights \in [EnginesOf(t) -> Int] /\ conf.stay_threshold \in Int

\* Votes and what is needed to stay are integers.
LEMMA VotesIs ==
  ASSUME NEW t, Sentences(t), NEW conf, Configured(t, conf), NEW cov, NEW o
  PROVE  Votes(t, conf, cov, o) \in Int /\ MinStay(t, conf, cov) \in Int
<1> DEFINE w == conf.stay_weights
           S == {e \in Live(t, cov) : VotesFor(t, conf, e, cov[e].frontier, o, cov[o].frontier)}
           R == EnginesOf(t) \ Live(t, cov)
<1>1. S \subseteq EnginesOf(t) /\ R \subseteq EnginesOf(t) /\ IsFiniteSet(EnginesOf(t))
  BY DEF Live, Sentences
<1>2. Votes(t, conf, cov, o) = SumOf(w, S)
  BY DEF Votes, SumOf
<1>3. MinStay(t, conf, cov) = conf.stay_threshold - SumOf(w, R)
  BY DEF MinStay, SumOf
<1>4. \A x \in EnginesOf(t) : w[x] \in Int
  BY DEF Configured
<1> HIDE DEF S, R, w
<1>5. IsFiniteSet(S) /\ IsFiniteSet(R)
  BY <1>1, FS_Subset
<1>6. SumOf(w, S) \in Int
  BY <1>1, <1>4, <1>5, SumIs
<1>7. SumOf(w, R) \in Int
  BY <1>1, <1>4, <1>5, SumIs
<1> QED
  BY <1>2, <1>3, <1>6, <1>7 DEF Configured

\* std::min_element finds an engine.
LEMMA LowestIs ==
  ASSUME NEW E \in SUBSET Nat, NEW stay \in [E -> Int], NEW live \in SUBSET E, live # {}, IsFiniteSet(live)
  PROVE  Lowest(stay, live) \in live
<1> DEFINE Before(e, o) == stay[e] < stay[o] \/ (stay[e] = stay[o] /\ e <= o)
           R == {p \in live \X live : Before(p[1], p[2])}
<1>1. \A e, o \in live : <<e, o>> \in R <=> Before(e, o)
  OBVIOUS
<1>2. \A e \in live : e \in Nat /\ stay[e] \in Int
  OBVIOUS
<1> HIDE DEF R
<1>3. Orders(R, live)
  <2>1. \A x, y \in live : Before(x, y) \/ Before(y, x)
    BY <1>2
  <2>2. \A x, y, z \in live : Before(x, y) /\ Before(y, z) => Before(x, z)
    BY <1>2
  <2> HIDE DEF Before
  <2> QED
    BY <1>1, <2>1, <2>2 DEF Orders
<1>4. HasFirst(R, live)
  BY <1>3, FirstExists
<1>5. \E e \in live : \A o \in live : Before(e, o)
  <2> HIDE DEF Before
  <2> QED
    BY <1>1, <1>4 DEF HasFirst
<1> QED
  BY <1>5 DEF Lowest

\* The tally stays one of integers.
LEMMA RecountIs ==
  ASSUME NEW t, Sentences(t), NEW conf, Configured(t, conf), NEW cov,
         NEW stay \in [EnginesOf(t) -> Int], NEW e \in EnginesOf(t), NEW c
  PROVE  Recount(t, conf, cov, stay, e, c) \in [EnginesOf(t) -> Int]
<1> DEFINE w == conf.stay_weights[e]
           after == [cov EXCEPT ![e] = c]
           Less(o) == IF VotesFor(t, conf, e, cov[e].frontier, o, cov[e].frontier) THEN w ELSE 0
           More(o) == IF VotesFor(t, conf, e, c.frontier, o, cov[o].frontier) THEN w ELSE 0
           new(o) == IF RunsOff(t, after, e) THEN stay[o] - Less(o)
                     ELSE IF o = e THEN Votes(t, conf, after, e)
                     ELSE stay[o] - Less(o) + More(o)
<1>1. Recount(t, conf, cov, stay, e, c) = [o \in EnginesOf(t) |-> new(o)]
  BY DEF Recount
<1>2. w \in Int /\ Votes(t, conf, after, e) \in Int
  BY VotesIs DEF Configured
<1>3. \A o \in EnginesOf(t) : Less(o) \in Int /\ More(o) \in Int /\ stay[o] \in Int
  BY <1>2
<1> HIDE DEF w, after, Less, More
<1>4. \A o \in EnginesOf(t) : new(o) \in Int
  BY <1>2, <1>3
<1> HIDE DEF new
<1> QED
  BY <1>1, <1>4
-----------------------------------------------------------------------------
(* Method "alignment": engines only move on, until enough votes or none    *)
(* is left.                                                                *)
LEMMA EnforceNewIs ==
  ASSUME NEW t, Sentences(t), NEW conf, Configured(t, conf), NEW cov, AllFine(t, cov)
  PROVE  LET new == EnforceNewConstraints(t, conf, cov) IN AllFine(t, new) /\ AllGrow(t, cov, new)
<1> DEFINE E == EnginesOf(t)
           D == [cov : [EnginesOf(t) -> Coverages], stay : [EnginesOf(t) -> Int]]
           e(s) == Lowest(s.stay, Live(t, s.cov))
           c(s) == AdvanceSkipPunctuation(t, e(s), s.cov[e(s)])
           Done(s) == Live(t, s.cov) = {} \/ s.stay[e(s)] >= MinStay(t, conf, s.cov)
           after(s) == [cov |-> [s.cov EXCEPT ![e(s)] = c(s)],
                        stay |-> Recount(t, conf, s.cov, s.stay, e(s), c(s))]
           rest == {s \in D : Done(s)}
           step == [s \in D |-> IF Done(s) THEN s ELSE after(s)]
           out == [s \in D |-> s.cov]
           start == [cov |-> cov, stay |-> [o \in EnginesOf(t) |-> Votes(t, conf, cov, o)]]
           f == CHOOSE g : g = [s \in [cov : [EnginesOf(t) -> Coverages], stay : [EnginesOf(t) -> Int]] |->
                  LET live == Live(t, s.cov)
                      x == Lowest(s.stay, live)
                      d == AdvanceSkipPunctuation(t, x, s.cov[x])
                  IN IF live = {} \/ s.stay[x] >= MinStay(t, conf, s.cov) THEN s.cov
                     ELSE g[[cov |-> [s.cov EXCEPT ![x] = d],
                             stay |-> Recount(t, conf, s.cov, s.stay, x, d)]]]
<1>1. EnforceNewConstraints(t, conf, cov) = f[start]
  BY DEF EnforceNewConstraints
<1>2. E \subseteq Nat /\ IsFiniteSet(E)
  BY DEF Sentences
<1>3. ASSUME NEW s \in D, ~Done(s)
      PROVE  e(s) \in Live(t, s.cov) /\ e(s) \in E /\ after(s) \in D
  <2>1. s.cov \in [E -> Coverages] /\ s.stay \in [E -> Int]
    OBVIOUS
  <2>2. Live(t, s.cov) \in SUBSET E /\ Live(t, s.cov) # {}
    BY <1>3 DEF Live
  <2>3. IsFiniteSet(Live(t, s.cov))
    BY <1>2, <2>2, FS_Subset
  <2>4. e(s) \in Live(t, s.cov) /\ e(s) \in E
    BY <1>2, <2>1, <2>2, <2>3, LowestIs
  <2> HIDE DEF e
  <2>5. c(s) \in Coverages
    BY <2>1, <2>4, AdvanceIs
  <2>6. Recount(t, conf, s.cov, s.stay, e(s), c(s)) \in [E -> Int]
    BY <2>1, <2>4, RecountIs
  <2> HIDE DEF c
  <2>7. [s.cov EXCEPT ![e(s)] = c(s)] \in [E -> Coverages]
    BY <2>1, <2>5
  <2> QED
    BY <2>4, <2>6, <2>7
<1>4. step \in [D -> D] /\ rest \in SUBSET D /\ out \in [D -> [E -> Coverages]]
  <2> HIDE DEF Done, after
  <2>1. \A s \in D : step[s] \in D
    BY <1>3
  <2>2. step \in [D -> D]
    <3> HIDE DEF D
    <3> QED
      BY <2>1
  <2> QED
    BY <2>2
<1>5. Loop(D, step, rest, out, f)
  <2>1. PICK g \in [D -> [E -> Coverages] \cup {{}}] : Loop(D, step, rest, out, g)
    <3> HIDE DEF step, rest, out, D
    <3> QED
      BY <1>4, TailRecursion
  <2>2. g = [s \in [cov : [EnginesOf(t) -> Coverages], stay : [EnginesOf(t) -> Int]] |->
                  LET live == Live(t, s.cov)
                      x == Lowest(s.stay, live)
                      d == AdvanceSkipPunctuation(t, x, s.cov[x])
                  IN IF live = {} \/ s.stay[x] >= MinStay(t, conf, s.cov) THEN s.cov
                     ELSE g[[cov |-> [s.cov EXCEPT ![x] = d],
                             stay |-> Recount(t, conf, s.cov, s.stay, x, d)]]]
    <3>1. \A s \in D : g[s] = IF Done(s) THEN s.cov ELSE g[after(s)]
      <4> HIDE DEF Done, after
      <4> QED
        BY <2>1 DEF Loop
    <3>2. g = [s \in D |-> IF Done(s) THEN s.cov ELSE g[after(s)]]
      <4> HIDE DEF D, Done, after
      <4> QED
        BY <2>1, <3>1
    <3> QED
      BY <3>2
  <2>3. f = [s \in [cov : [EnginesOf(t) -> Coverages], stay : [EnginesOf(t) -> Int]] |->
                  LET live == Live(t, s.cov)
                      x == Lowest(s.stay, live)
                      d == AdvanceSkipPunctuation(t, x, s.cov[x])
                  IN IF live = {} \/ s.stay[x] >= MinStay(t, conf, s.cov) THEN s.cov
                     ELSE f[[cov |-> [s.cov EXCEPT ![x] = d],
                             stay |-> Recount(t, conf, s.cov, s.stay, x, d)]]]
    BY <2>2
  <2> HIDE DEF f
  <2>4. f = [s \in D |-> IF Done(s) THEN s.cov ELSE f[after(s)]]
    BY <2>3
  <2> HIDE DEF Done, after
  <2>5. \A s \in D : f[s] = IF Done(s) THEN s.cov ELSE f[after(s)]
    <3> HIDE DEF D
    <3> QED
      BY <2>4
  <2> QED
    BY <2>5 DEF Loop
<1> HIDE DEF f
<1> DEFINE Good == {s \in D : AllFine(t, s.cov) /\ AllGrow(t, cov, s.cov)}
           m == [s \in D |-> Cardinality(Left(t, s.cov))]
<1>6. ASSUME NEW s \in Good, s \notin rest
      PROVE  step[s] \in Good /\ m[step[s]] \in Nat /\ m[s] \in Nat /\ m[step[s]] < m[s]
  <2>1. s \in D /\ ~Done(s) /\ AllFine(t, s.cov) /\ AllGrow(t, cov, s.cov)
    BY <1>6
  <2>2. e(s) \in Live(t, s.cov) /\ e(s) \in E /\ after(s) \in D /\ step[s] = after(s)
    BY <1>3, <2>1
  <2>3. after(s).cov = [s.cov EXCEPT ![e(s)] = c(s)]
    OBVIOUS
  <2> DEFINE new == [s.cov EXCEPT ![e(s)] = c(s)]
  <2> HIDE DEF e
  <2>4. /\ AllFine(t, new) /\ AllGrow(t, s.cov, new)
        /\ new[e(s)].frontier > s.cov[e(s)].frontier
    BY <2>1, <2>2, MoveIs
  <2> HIDE DEF new, c, Done, after, Good
  <2>5. AllGrow(t, cov, new)
    BY <2>1, <2>4, AllGrowTwice
  <2>6. /\ Cardinality(Left(t, s.cov)) \in Nat /\ Cardinality(Left(t, new)) \in Nat
        /\ Cardinality(Left(t, new)) < Cardinality(Left(t, s.cov))
    BY <2>1, <2>2, <2>4, LeftFalls
  <2>7. after(s).cov = new
    BY <2>3 DEF new
  <2>8. m[s] = Cardinality(Left(t, s.cov)) /\ m[after(s)] = Cardinality(Left(t, new))
    BY <2>1, <2>2, <2>7
  <2>9. after(s) \in Good
    BY <2>2, <2>4, <2>5, <2>7 DEF Good
  <2> QED
    BY <2>2, <2>6, <2>8, <2>9
<1>7. Falls(Good, step, rest, m)
  <2> HIDE DEF Good, step, rest, m
  <2> QED
    BY <1>6 DEF Falls
<1>8. start \in Good /\ Good \in SUBSET D
  <2>1. start \in D
    BY VotesIs DEF AllFine
  <2>2. start.cov = cov
    OBVIOUS
  <2>3. AllGrow(t, cov, cov)
    BY DEF AllGrow, Grows
  <2> HIDE DEF start, D
  <2> QED
    BY <2>1, <2>2, <2>3
<1>9. \E r \in Good : r \in rest /\ f[start] = out[r]
  <2> HIDE DEF Good, D, step, rest, out, m, start
  <2> QED
    BY <1>5, <1>7, <1>8, LoopRule
<1>10. PICK r \in Good : f[start] = r.cov
  BY <1>9
<1> QED
  BY <1>1, <1>10

\* The top of the queue has a lowest frontier.
LEMMA TopIs ==
  ASSUME NEW E, NEW cov, \A e \in E : cov[e].frontier \in Nat,
         NEW queue \in SUBSET E, queue # {}, IsFiniteSet(queue)
  PROVE  Top(cov, queue) \in queue /\ \A f \in queue : cov[Top(cov, queue)].frontier <= cov[f].frontier
<1> DEFINE Before(e, f) == cov[e].frontier <= cov[f].frontier
           R == {p \in queue \X queue : Before(p[1], p[2])}
<1>1. \A e, f \in queue : <<e, f>> \in R <=> Before(e, f)
  OBVIOUS
<1>2. \A e \in queue : cov[e].frontier \in Nat
  OBVIOUS
<1> HIDE DEF R
<1>3. Orders(R, queue)
  <2>1. \A x, y \in queue : Before(x, y) \/ Before(y, x)
    BY <1>2
  <2>2. \A x, y, z \in queue : Before(x, y) /\ Before(y, z) => Before(x, z)
    BY <1>2
  <2> HIDE DEF Before
  <2> QED
    BY <1>1, <2>1, <2>2 DEF Orders
<1>4. \E e \in queue : \A f \in queue : Before(e, f)
  BY <1>1, <1>3, FirstExists DEF HasFirst
<1> QED
  BY <1>4 DEF Top

(* Method "length": engines only move on, and in the end no live one is    *)
(* more than the radius behind any other.                                  *)
LEMMA EnforceOldIs ==
  ASSUME NEW t, Sentences(t), NEW conf, Configured(t, conf), NEW cov, AllFine(t, cov)
  PROVE  LET new == EnforceOldConstraints(t, conf, cov) IN
         /\ AllFine(t, new) /\ AllGrow(t, cov, new)
         /\ \A e \in Live(t, new), f \in EnginesOf(t) :
              new[e].frontier + conf.radius >= new[f].frontier
<1> DEFINE E == EnginesOf(t)
           D == Queues(t)
           top(s) == Top(s.cov, s.queue)
           c(s) == AdvanceSkipPunctuation(t, top(s), s.cov[top(s)])
           Done(s) == s.cov[top(s)].frontier + conf.radius >= s.max_frontier
           moved(s) == [s EXCEPT !.cov[top(s)] = c(s)]
           after(s) == IF c(s).frontier >= t.len[top(s)]
                       THEN [moved(s) EXCEPT !.queue = @ \ {top(s)}]
                       ELSE [moved(s) EXCEPT !.max_frontier = Max({@, c(s).frontier})]
           rest == {s \in D : Done(s)}
           step == [s \in D |-> IF Done(s) THEN s ELSE after(s)]
           out == [s \in D |-> s.cov]
           start == [cov |-> cov, queue |-> EnginesOf(t),
                     max_frontier |-> Max({cov[e].frontier : e \in EnginesOf(t)})]
           f == CHOOSE g : g = [s \in Queues(t) |->
                  LET e == Top(s.cov, s.queue)
                      d == AdvanceSkipPunctuation(t, e, s.cov[e])
                      mv == [s EXCEPT !.cov[e] = d]
                  IN IF s.cov[e].frontier + conf.radius >= s.max_frontier THEN s.cov
                     ELSE IF d.frontier >= t.len[e]
                     THEN g[[mv EXCEPT !.queue = @ \ {e}]]
                     ELSE g[[mv EXCEPT !.max_frontier = Max({@, d.frontier})]]]
<1>1. EnforceOldConstraints(t, conf, cov) = f[start]
  BY DEF EnforceOldConstraints
<1>2. IsFiniteSet(E) /\ E # {} /\ conf.radius \in Nat /\ \A e \in E : t.len[e] \in Nat
  BY DEF Sentences, Configured
\* What a state of the queue is, and what a step makes of it.
<1>3. ASSUME NEW s \in D
      PROVE  /\ s.cov \in [E -> Coverages] /\ s.queue \in SUBSET E /\ s.max_frontier \in Nat
             /\ s = [cov |-> s.cov, queue |-> s.queue, max_frontier |-> s.max_frontier]
             /\ \E e \in s.queue : s.cov[e].frontier >= s.max_frontier
             /\ top(s) \in s.queue /\ top(s) \in E
             /\ \A e \in s.queue : s.cov[top(s)].frontier <= s.cov[e].frontier
             /\ \A e \in E : s.cov[e] \in Coverages /\ s.cov[e].frontier \in Nat
  <2>1. /\ s.cov \in [E -> Coverages] /\ s.queue \in SUBSET E /\ s.max_frontier \in Nat
        /\ s = [cov |-> s.cov, queue |-> s.queue, max_frontier |-> s.max_frontier]
        /\ \E e \in s.queue : s.cov[e].frontier >= s.max_frontier
    BY DEF Queues
  <2>2. \A e \in E : s.cov[e] \in Coverages /\ s.cov[e].frontier \in Nat
    BY <2>1, FrontierIs
  <2>3. IsFiniteSet(s.queue) /\ s.queue # {}
    BY <1>2, <2>1, FS_Subset
  <2>4. top(s) \in s.queue /\ \A e \in s.queue : s.cov[top(s)].frontier <= s.cov[e].frontier
    BY <2>1, <2>2, <2>3, TopIs
  <2> QED
    BY <2>1, <2>2, <2>4
<1>4. ASSUME NEW s \in D, ~Done(s)
      PROVE  LET a == after(s)
                 new == [s.cov EXCEPT ![top(s)] = c(s)]
             IN /\ a \in D /\ a.cov = new /\ c(s).frontier \in Nat
                /\ \/ /\ c(s).frontier >= t.len[top(s)]
                      /\ a.queue = s.queue \ {top(s)} /\ a.max_frontier = s.max_frontier
                   \/ /\ ~(c(s).frontier >= t.len[top(s)])
                      /\ a.queue = s.queue /\ a.max_frontier >= s.max_frontier /\ a.max_frontier >= c(s).frontier
  <2> DEFINE e == top(s)
             d == c(s)
             new == [s.cov EXCEPT ![e] = d]
             mf == Max({s.max_frontier, d.frontier})
  <2>1. /\ s.cov \in [E -> Coverages] /\ s.queue \in SUBSET E /\ s.max_frontier \in Nat
        /\ s = [cov |-> s.cov, queue |-> s.queue, max_frontier |-> s.max_frontier]
        /\ e \in s.queue /\ e \in E /\ s.cov[e] \in Coverages /\ s.cov[e].frontier \in Nat
    BY <1>3
  <2>2. PICK l \in s.queue : s.cov[l].frontier >= s.max_frontier
    BY <1>3
  <2>3. l # e
    BY <1>2, <1>4, <2>1, <2>2
  <2>4. d \in Coverages /\ d.frontier \in Nat
    BY <2>1, AdvanceIs
  <2>5. mf \in {s.max_frontier, d.frontier} /\ mf >= s.max_frontier /\ mf >= d.frontier
    BY <2>1, <2>4, LargerIs
  <2>6. after(s) = IF d.frontier >= t.len[e]
                   THEN [[s EXCEPT !.cov[e] = d] EXCEPT !.queue = @ \ {e}]
                   ELSE [[s EXCEPT !.cov[e] = d] EXCEPT !.max_frontier = Max({@, d.frontier})]
    OBVIOUS
  <2> HIDE DEF top, c, mf, after, D, Done
  <2>7. new \in [E -> Coverages] /\ new[l] = s.cov[l] /\ new[e] = d
    BY <2>1, <2>2, <2>3, <2>4
  <2>8. after(s) = IF d.frontier >= t.len[e]
                   THEN [cov |-> new, queue |-> s.queue \ {e}, max_frontier |-> s.max_frontier]
                   ELSE [cov |-> new, queue |-> s.queue, max_frontier |-> mf]
    <3> DEFINE q == s.queue
               n == s.max_frontier
               v == s.cov
    <3>1. s = [cov |-> v, queue |-> q, max_frontier |-> n]
      BY <2>1
    <3>2. mf = Max({n, d.frontier})
      BY DEF mf
    <3> HIDE DEF q, n, v, d, e
    <3>3. [s EXCEPT !.cov[e] = d] = [cov |-> [v EXCEPT ![e] = d], queue |-> q, max_frontier |-> n]
      BY <3>1
    <3> DEFINE u == [v EXCEPT ![e] = d]
               b == [s EXCEPT !.cov[e] = d]
    <3>4. b = [cov |-> u, queue |-> q, max_frontier |-> n]
      BY <3>3
    <3> HIDE DEF u, b
    <3>5. b.queue = q /\ b.max_frontier = n
      BY <3>4
    <3>6. [b EXCEPT !.queue = b.queue \ {e}] = [cov |-> u, queue |-> q \ {e}, max_frontier |-> n]
      BY <3>4
    <3>7. [b EXCEPT !.max_frontier = mf] = [cov |-> u, queue |-> q, max_frontier |-> mf]
      BY <3>4
    <3>8. after(s) = IF d.frontier >= t.len[e]
                     THEN [b EXCEPT !.queue = b.queue \ {e}]
                     ELSE [b EXCEPT !.max_frontier = mf]
      BY <2>6, <3>2, <3>5 DEF b
    <3> QED
      BY <3>6, <3>7, <3>8 DEF q, n, v, u
  <2> HIDE DEF new, d, e
  <2>9. CASE d.frontier >= t.len[e]
    <3>1. after(s) = [cov |-> new, queue |-> s.queue \ {e}, max_frontier |-> s.max_frontier]
      BY <2>8, <2>9
    <3>2. after(s).queue \in SUBSET E /\ l \in after(s).queue /\ after(s).cov[l].frontier >= after(s).max_frontier
      BY <2>1, <2>2, <2>3, <2>7, <3>1
    <3>3. after(s) \in D
      BY <2>1, <2>7, <3>1, <3>2 DEF D, Queues
    <3> QED
      BY <2>4, <2>9, <3>1, <3>3 DEF new, d, e
  <2>10. CASE ~(d.frontier >= t.len[e])
    <3>1. after(s) = [cov |-> new, queue |-> s.queue, max_frontier |-> mf]
      BY <2>8, <2>10
    <3>2. \E x \in s.queue : new[x].frontier >= mf
      BY <2>1, <2>2, <2>4, <2>5, <2>7
    <3>3. mf \in Nat
      BY <2>1, <2>4, <2>5
    <3>4. after(s) \in D
      BY <2>1, <2>7, <3>1, <3>2, <3>3 DEF D, Queues
    <3> QED
      BY <2>4, <2>5, <2>10, <3>1, <3>4 DEF new, d, e
  <2> QED
    BY <2>9, <2>10
<1>5. step \in [D -> D] /\ rest \in SUBSET D /\ out \in [D -> [E -> Coverages]]
  <2> HIDE DEF Done, after, top
  <2>1. \A s \in D : step[s] \in D
    BY <1>4
  <2>2. \A s \in D : s.cov \in [E -> Coverages]
    BY <1>3
  <2> HIDE DEF D
  <2>3. step \in [D -> D]
    BY <2>1
  <2> QED
    BY <2>2, <2>3
<1>6. Loop(D, step, rest, out, f)
  <2>1. PICK g \in [D -> [E -> Coverages] \cup {{}}] : Loop(D, step, rest, out, g)
    <3> HIDE DEF step, rest, out, D
    <3> QED
      BY <1>5, TailRecursion
  <2> DEFINE Body(s, h) == LET e == Top(s.cov, s.queue)
                      d == AdvanceSkipPunctuation(t, e, s.cov[e])
                      mv == [s EXCEPT !.cov[e] = d]
                  IN IF s.cov[e].frontier + conf.radius >= s.max_frontier THEN s.cov
                     ELSE IF d.frontier >= t.len[e]
                     THEN h[[mv EXCEPT !.queue = @ \ {e}]]
                     ELSE h[[mv EXCEPT !.max_frontier = Max({@, d.frontier})]]
  <2>2. ASSUME NEW h, NEW s PROVE Body(s, h) = IF Done(s) THEN s.cov ELSE h[after(s)]
    <3>1. CASE Done(s)
      BY <3>1
    <3>2. CASE ~Done(s) /\ c(s).frontier >= t.len[top(s)]
      BY <3>2
    <3>3. CASE ~Done(s) /\ ~(c(s).frontier >= t.len[top(s)])
      BY <3>3
    <3> QED
      BY <3>1, <3>2, <3>3
  <2>3. \E h : h = [s \in Queues(t) |-> Body(s, h)]
    <3>1. \A s \in D : g[s] = IF Done(s) THEN s.cov ELSE g[after(s)]
      <4> HIDE DEF Done, after
      <4> QED
        BY <2>1 DEF Loop
    <3> HIDE DEF Body, Done, after
    <3>2. \A s \in D : g[s] = Body(s, g)
      BY <2>2, <3>1
    <3>3. g = [s \in D |-> Body(s, g)]
      <4> HIDE DEF D
      <4> QED
        BY <2>1, <3>2
    <3> QED
      BY <3>3
  <2>4. f = [s \in Queues(t) |-> Body(s, f)]
    BY <2>3
  <2> HIDE DEF f, Body, Done, after
  <2>5. \A s \in D : f[s] = Body(s, f)
    <3>1. f = [s \in D |-> Body(s, f)]
      BY <2>4
    <3> HIDE DEF D
    <3> QED
      BY <3>1
  <2>6. \A s \in D : f[s] = IF Done(s) THEN s.cov ELSE f[after(s)]
    BY <2>2, <2>5
  <2> QED
    BY <2>6 DEF Loop
<1> HIDE DEF f
<1> DEFINE Good == {s \in D : /\ AllFine(t, s.cov) /\ AllGrow(t, cov, s.cov)
                              /\ \A e \in E : s.cov[e].frontier <= s.max_frontier
                              /\ \A e \in E \ s.queue : RunsOff(t, s.cov, e)}
           m == [s \in D |-> Cardinality(s.queue) + Cardinality(Left(t, s.cov))]
<1>7. ASSUME NEW s \in Good, s \notin rest
      PROVE  step[s] \in Good /\ m[step[s]] \in Nat /\ m[s] \in Nat /\ m[step[s]] < m[s]
  <2> DEFINE e == top(s)
             d == c(s)
             a == after(s)
             new == [s.cov EXCEPT ![e] = d]
  <2>1. /\ s \in D /\ ~Done(s) /\ AllFine(t, s.cov) /\ AllGrow(t, cov, s.cov)
        /\ \A x \in E : s.cov[x].frontier <= s.max_frontier
        /\ \A x \in E \ s.queue : RunsOff(t, s.cov, x)
    BY <1>7
  <2>2. step[s] = a
    BY <2>1
  <2>3. /\ s.queue \in SUBSET E /\ s.max_frontier \in Nat /\ e \in s.queue /\ e \in E
        /\ \A x \in E : s.cov[x].frontier \in Nat
    BY <1>3, <2>1
  <2>4. /\ a \in D /\ a.cov = new
        /\ \/ d.frontier >= t.len[e] /\ a.queue = s.queue \ {e} /\ a.max_frontier = s.max_frontier
           \/ /\ ~(d.frontier >= t.len[e])
              /\ a.queue = s.queue /\ a.max_frontier >= s.max_frontier /\ a.max_frontier >= d.frontier
    BY <1>4, <2>1
  <2>5. a.max_frontier \in Nat /\ a.queue \in SUBSET E
    BY <1>3, <2>4
  <2>6. s.cov[e].frontier + conf.radius < s.max_frontier
    BY <1>2, <2>1, <2>3
  <2> HIDE DEF top, Good, Done, after, D, m, step, rest
  <2>7. /\ AllFine(t, new) /\ AllGrow(t, s.cov, new)
        /\ new[e] = d /\ \A x \in E : x # e => new[x] = s.cov[x]
        /\ d.frontier \in Nat /\ s.cov[e].frontier \in Nat /\ d.frontier > s.cov[e].frontier
        /\ d.frontier = s.cov[e].frontier + 1 \/ d.frontier <= t.len[e] - 1
    BY <2>1, <2>3, MoveIs
  <2> HIDE DEF c, e, d, a, new
  <2>8. AllGrow(t, cov, new)
    BY <2>1, <2>7, AllGrowTwice
  <2>9. /\ Cardinality(Left(t, s.cov)) \in Nat /\ Cardinality(Left(t, new)) \in Nat
        /\ Cardinality(Left(t, new)) <= Cardinality(Left(t, s.cov))
        /\ e \in Live(t, s.cov) => Cardinality(Left(t, new)) < Cardinality(Left(t, s.cov))
    BY <2>1, <2>7, LeftFalls
  <2>10. IsFiniteSet(s.queue) /\ Cardinality(s.queue) \in Nat
    BY <1>2, <2>3, FS_Subset, FS_CardinalityType
  <2>11. t.len[e] \in Nat
    BY <1>2, <2>3
  <2>12. CASE d.frontier >= t.len[e] /\ a.queue = s.queue \ {e} /\ a.max_frontier = s.max_frontier
    <3>1. d.frontier <= s.max_frontier
      BY <1>2, <2>3, <2>6, <2>7, <2>11, <2>12
    <3>2. \A x \in E : a.cov[x].frontier <= a.max_frontier
      BY <2>1, <2>4, <2>7, <2>12, <3>1
    <3>3. \A x \in E \ a.queue : RunsOff(t, a.cov, x)
      BY <2>1, <2>4, <2>7, <2>12 DEF RunsOff
    <3>4. a \in Good
      BY <2>4, <2>7, <2>8, <3>2, <3>3 DEF Good
    <3>5. Cardinality(a.queue) = Cardinality(s.queue) - 1 /\ Cardinality(a.queue) \in Nat
      <4>1. Cardinality(s.queue \ {e}) = Cardinality(s.queue) - 1 /\ IsFiniteSet(s.queue \ {e})
        BY <2>3, <2>10, FS_RemoveElement
      <4> QED
        BY <2>12, <4>1, FS_CardinalityType
    <3>6. m[s] = Cardinality(s.queue) + Cardinality(Left(t, s.cov))
          /\ m[a] = Cardinality(a.queue) + Cardinality(Left(t, new))
      BY <2>1, <2>4 DEF m
    <3> QED
      BY <2>2, <2>9, <2>10, <3>4, <3>5, <3>6
  <2>13. CASE ~(d.frontier >= t.len[e]) /\ a.queue = s.queue /\ a.max_frontier >= s.max_frontier /\ a.max_frontier >= d.frontier
    <3>1. e \in Live(t, s.cov)
      BY <2>3, <2>7, <2>11, <2>13 DEF Live, RunsOff
    <3>2. \A x \in E : a.cov[x].frontier <= a.max_frontier
      <4> SUFFICES ASSUME NEW x \in E PROVE a.cov[x].frontier <= a.max_frontier
        OBVIOUS
      <4>1. CASE x = e
        BY <2>4, <2>7, <2>13, <4>1
      <4>2. CASE x # e
        BY <2>1, <2>3, <2>4, <2>5, <2>7, <2>13, <4>2
      <4> QED
        BY <4>1, <4>2
    <3>3. \A x \in E \ a.queue : RunsOff(t, a.cov, x)
      BY <2>1, <2>3, <2>4, <2>7, <2>13 DEF RunsOff
    <3>4. a \in Good
      BY <2>4, <2>7, <2>8, <3>2, <3>3 DEF Good
    <3>5. m[s] = Cardinality(s.queue) + Cardinality(Left(t, s.cov))
          /\ m[a] = Cardinality(a.queue) + Cardinality(Left(t, new))
      BY <2>1, <2>4 DEF m
    <3> QED
      BY <2>2, <2>9, <2>10, <2>13, <3>1, <3>4, <3>5
  <2> QED
    BY <2>4, <2>12, <2>13
<1>8. Falls(Good, step, rest, m)
  <2> HIDE DEF Good, step, rest, m
  <2> QED
    BY <1>7 DEF Falls
<1>9. start \in Good /\ Good \in SUBSET D
  <2> DEFINE F == {cov[e].frontier : e \in EnginesOf(t)}
             Op(e) == cov[e].frontier
  <2>1. cov \in [E -> Coverages] /\ \A e \in E : cov[e].frontier \in Nat
    BY FrontierIs DEF AllFine
  <2>2. F = {Op(e) : e \in E}
    OBVIOUS
  <2>3. F \in SUBSET Nat /\ F # {}
    BY <1>2, <2>1
  <2>4. IsFiniteSet(F)
    <3> DEFINE h == [e \in E |-> cov[e].frontier]
    <3>1. h \in Surjection(E, F)
      BY DEF Surjection
    <3> HIDE DEF h, F
    <3> QED
      BY <1>2, <3>1, FS_Surjection
  <2>5. Max(F) \in F /\ \A y \in F : Max(F) >= y
    <3> HIDE DEF F
    <3> QED
      BY <2>3, <2>4, MaxIs
  <2>6. start.cov = cov /\ start.queue = E /\ start.max_frontier = Max(F)
    OBVIOUS
  <2> DEFINE mf == Max(F)
  <2>7. mf \in Nat /\ (\A e \in E : cov[e].frontier <= mf) /\ \E e \in E : cov[e].frontier >= mf
    <3>1. \A e \in E : cov[e].frontier \in F
      OBVIOUS
    <3>2. \A y \in F : \E e \in E : y = cov[e].frontier
      OBVIOUS
    <3> HIDE DEF F
    <3>3. PICK e \in E : mf = cov[e].frontier
      BY <2>5, <3>2
    <3>4. mf \in Nat
      BY <2>3, <2>5
    <3>5. \A x \in E : cov[x].frontier <= mf
      BY <2>1, <2>5, <3>1, <3>4
    <3> QED
      BY <3>3, <3>4, <3>5
  <2> HIDE DEF mf
  <2>8. start = [cov |-> cov, queue |-> E, max_frontier |-> mf]
    BY DEF mf
  <2>9. start \in D
    BY <2>1, <2>7, <2>8 DEF Queues
  <2>10. AllGrow(t, cov, cov)
    BY DEF AllGrow, Grows
  <2>11. start.cov = cov /\ start.queue = E /\ start.max_frontier = mf
    BY <2>8
  <2> HIDE DEF start, D, F
  <2> QED
    BY <2>7, <2>9, <2>10, <2>11
<1>10. \E r \in Good : r \in rest /\ f[start] = out[r]
  <2> HIDE DEF Good, D, step, rest, out, m, start
  <2> QED
    BY <1>6, <1>8, <1>9, LoopRule
<1>11. PICK r \in Good : Done(r) /\ f[start] = r.cov
  BY <1>10
<1>12. \A e \in Live(t, r.cov), x \in E : r.cov[e].frontier + conf.radius >= r.cov[x].frontier
  <2> SUFFICES ASSUME NEW e \in Live(t, r.cov), NEW x \in E
               PROVE  r.cov[e].frontier + conf.radius >= r.cov[x].frontier
    OBVIOUS
  <2>1. /\ r.max_frontier \in Nat /\ top(r) \in E /\ \A y \in E : r.cov[y].frontier \in Nat
        /\ \A y \in r.queue : r.cov[top(r)].frontier <= r.cov[y].frontier
    BY <1>3
  <2>2. e \in E /\ e \in r.queue
    BY DEF Live
  <2>3. r.cov[x].frontier <= r.max_frontier /\ r.cov[top(r)].frontier + conf.radius >= r.max_frontier
    BY <1>11
  <2> HIDE DEF top
  <2> QED
    BY <1>2, <2>1, <2>2, <2>3
<1>13. AllFine(t, r.cov) /\ AllGrow(t, cov, r.cov)
  OBVIOUS
<1> QED
  BY <1>1, <1>11, <1>12, <1>13
-----------------------------------------------------------------------------
(* ConsumeWord uses all words that are aligned with l, makes none unused,  *)
(* and with the length method leaves no live engine behind.                *)
LEMMA ConsumeWordIs ==
  ASSUME NEW t, Sound(t), NEW c, Configured(t, c), NEW cov, AllFine(t, cov),
         NEW l \in Locations(t), ~IsEnd(t, l)
  PROVE  LET new == ConsumeWord(t, c, cov, l) IN
         /\ AllFine(t, new) /\ AllGrow(t, cov, new)
         /\ \A m \in Locations(t) : Aligned(t, l, m) => IsUsed(new[m[1]], m[2])
         /\ c.method = "length" => \A e \in Live(t, new), f \in EnginesOf(t) :
              new[e].frontier + c.radius >= new[f].frontier
<1> DEFINE a == Alignments(t, c.phrase, cov, l)
           b == SkipLeadingPunctuation(t, a, l[1])
           new == ConsumeWord(t, c, cov, l)
<1>1. /\ AllFine(t, a) /\ AllGrow(t, cov, a)
      /\ \A m \in Locations(t) : Aligned(t, l, m) => IsUsed(a[m[1]], m[2])
  BY AlignmentsIs
<1>2. new = IF c.method = "alignment" THEN EnforceNewConstraints(t, c, b) ELSE EnforceOldConstraints(t, c, b)
  BY DEF ConsumeWord
<1>3. Sentences(t)
  BY DEF Sound
<1> HIDE DEF a
<1>4. AllFine(t, b) /\ AllGrow(t, a, b)
  BY <1>1, <1>3, SkipLeadingIs
<1> HIDE DEF b, new
<1>5. /\ AllFine(t, new) /\ AllGrow(t, b, new)
      /\ c.method = "length" => \A e \in Live(t, new), f \in EnginesOf(t) :
              new[e].frontier + c.radius >= new[f].frontier
  <2>1. CASE c.method = "alignment"
    <3>1. new = EnforceNewConstraints(t, c, b) /\ c.method # "length"
      BY <1>2, <2>1
    <3> QED
      BY <1>3, <1>4, <3>1, EnforceNewIs
  <2>2. CASE c.method # "alignment"
    <3>1. new = EnforceOldConstraints(t, c, b)
      BY <1>2, <2>2
    <3> QED
      BY <1>3, <1>4, <3>1, EnforceOldIs
  <2> QED
    BY <2>1, <2>2
<1>6. AllGrow(t, a, new) /\ AllGrow(t, cov, new)
  BY <1>1, <1>4, <1>5, AllGrowTwice
<1>7. ASSUME NEW m \in Locations(t), Aligned(t, l, m) PROVE IsUsed(new[m[1]], m[2])
  <2>1. m[1] \in EnginesOf(t) /\ m[2] \in Nat
    BY <1>3, LocationIs DEF Sentences
  <2>2. IsUsed(a[m[1]], m[2])
    BY <1>1, <1>7
  <2> QED
    BY <1>6, <2>1, <2>2 DEF AllGrow, Grows
<1> QED
  BY <1>5, <1>6, <1>7 DEF new
-----------------------------------------------------------------------------
(* What is known of a word that has been appended.                         *)
Said(t, cov, l) ==
  /\ ~IsEnd(t, l)
  /\ \A m \in Locations(t) : Aligned(t, l, m) => IsUsed(cov[m[1]], m[2])

(* The inductive invariant.  Ready is about the input, Shape about types.  *)
(* Open is what lets NoWordTwice and NoMeaningTwice be kept: everything    *)
(* that is aligned with a word of the history is used.                     *)
Ready == Sound(input) /\ Configured(input, config) /\ (config.transitive => Transitive(input))

Shape ==
  /\ AllFine(input, horizon)
  /\ phrase \in [engine : EnginesOf(input) \cup {NoEngine}, end : Nat]
  /\ history \in Seq(Locations(input)) /\ Len(history) >= 1
  /\ status \in {"open", "ended", "dropped"}

Open == status = "open" =>
  /\ Live(input, horizon) # {}
  /\ InPhrase(phrase) => /\ phrase.end < input.len[phrase.engine]
                         /\ horizon[phrase.engine].frontier <= phrase.end
  /\ \A i \in DOMAIN history : Said(input, horizon, history[i])

Inductive == Ready /\ Shape /\ Open /\ NoWordTwice /\ NoMeaningTwice /\ HorizonHeld

\* It holds at the beginning of the sentence.
LEMMA InitInductive == Init => Inductive
<1> SUFFICES ASSUME Init PROVE Inductive
  OBVIOUS
<1>1. PICK i \in Inputs :
        /\ config = i.config
        /\ input = IF i.config.transitive THEN MakeAlignmentsTransitive(ReadFromJava(i.raw))
                                          ELSE ReadFromJava(i.raw)
  BY DEF Init
<1>2. /\ horizon = InitializeRoot(input) /\ phrase = NoPhrase
      /\ history = << BOS(0) >> /\ status = "open"
  BY DEF Init
<1>3. /\ MatcherOutput(i.raw) /\ i.config.method \in {"length", "alignment"} /\ i.config.radius \in Nat
      /\ i.config.stay_weights \in [EnginesOf(i.raw) -> Int] /\ i.config.stay_threshold \in Int
  BY InputsAssumption
<1>4. Sound(input) /\ input.len = i.raw.len /\ (config.transitive => Transitive(input))
  <2>1. CASE i.config.transitive
    BY <1>1, <1>3, <2>1, TransitiveIsSound
  <2>2. CASE ~i.config.transitive
    BY <1>1, <1>3, <2>2, ReadIsSound
  <2> QED
    BY <2>1, <2>2
<1>5. Ready
  <2>1. Configured(input, config)
    BY <1>1, <1>3, <1>4 DEF Configured, EnginesOf
  <2> QED
    BY <1>4, <2>1 DEF Ready
<1>6. Sentences(input) /\ BOS(0) \in Locations(input) /\ BOS(0)[1] = 0 /\ BOS(0)[2] = 0
      /\ 0 \in EnginesOf(input)
  <2>1. Sentences(input) /\ 0 \in EnginesOf(input) /\ 0 \in 0 .. input.len[0] - 1
    BY <1>4 DEF Sound, Sentences
  <2> QED
    BY <2>1, LocationIs DEF BOS
<1>7. \A e \in EnginesOf(input) : /\ input.len[e] \in Nat /\ input.len[e] >= 2
                                  /\ horizon[e] = Root
  BY <1>2, <1>6 DEF Sentences, InitializeRoot
<1>8. Root \in Coverages /\ Canonical(Root) /\ Root.frontier = 1 /\ \A w \in Nat : IsUsed(Root, w) <=> w = 0
  BY RootWords, WordsOf DEF Root
<1>9. AllFine(input, horizon)
  <2>1. horizon \in [EnginesOf(input) -> Coverages]
    BY <1>2, <1>8 DEF InitializeRoot
  <2>2. \A e \in EnginesOf(input) : Fine(horizon[e], input.len[e])
    BY <1>7, <1>8 DEF Fine
  <2> QED
    BY <2>1, <2>2 DEF AllFine
<1>10. Shape
  BY <1>2, <1>6, <1>9 DEF Shape, NoPhrase
<1>11. Said(input, horizon, BOS(0))
  <2>1. ~IsEnd(input, BOS(0))
    BY <1>6, <1>7 DEF IsEnd, EOS
  <2>2. ASSUME NEW m \in Locations(input), Aligned(input, BOS(0), m)
        PROVE  IsUsed(horizon[m[1]], m[2])
    <3>1. m = BOS(m[1]) /\ m[1] \in EnginesOf(input)
      BY <1>4, <1>6, <2>2, LocationIs DEF Sound
    <3>2. m[2] = 0
      BY <3>1 DEF BOS
    <3> QED
      BY <1>7, <1>8, <3>1, <3>2
  <2> QED
    BY <2>1, <2>2 DEF Said
<1>12. Open
  <2>1. 0 \in Live(input, horizon)
    BY <1>6, <1>7, <1>8 DEF Live, RunsOff
  <2>2. ~InPhrase(phrase)
    BY <1>2 DEF InPhrase, NoPhrase
  <2>3. \A j \in DOMAIN history : history[j] = BOS(0)
    BY <1>2
  <2> QED
    BY <1>11, <2>1, <2>2, <2>3 DEF Open
<1>13. DOMAIN history = {1} /\ Len(history) = 1
  BY <1>2
<1>14. NoWordTwice /\ NoMeaningTwice /\ HorizonHeld
  BY <1>13 DEF NoWordTwice, NoMeaningTwice, HorizonHeld
<1> QED
  BY <1>5, <1>10, <1>12, <1>14 DEF Inductive

(* An extension is a word of a sentence, and it uses up an unused word.    *)
LEMMA ExtensionIs ==
  ASSUME Ready, Shape, Open, status = "open", NEW l \in GetExtensions
  PROVE  /\ l \in Locations(input)
         /\ \E p \in Locations(input) : Aligned(input, l, p) /\ ~IsUsed(horizon[p[1]], p[2])
         /\ InPhrase(phrase) => l = Frontier(phrase.engine)
<1> DEFINE Fresh(x) == /\ x \in Locations(input)
                       /\ \E p \in Locations(input) : Aligned(input, x, p) /\ ~IsUsed(horizon[p[1]], p[2])
<1>1. /\ \A x \in Locations(input) : Aligned(input, x, x)
      /\ \A x, y \in Locations(input) : Aligned(input, x, y) => Aligned(input, y, x)
      /\ \A x \in Locations(input) : \A e \in EnginesOf(input) :
           IsConnection(Ask(input, x, e)) => <<e, Ask(input, x, e).offset>> \in Locations(input)
      /\ \A e \in EnginesOf(input) : e \in Nat /\ input.len[e] \in Nat
  BY DEF Ready, Sound, Sentences
<1>2. \A e \in EnginesOf(input) : /\ horizon[e] \in Coverages /\ horizon[e].frontier \in Nat
                                  /\ ~IsUsed(horizon[e], horizon[e].frontier)
  BY FrontierIs DEF Shape, AllFine
<1>3. ASSUME NEW e \in EnginesOf(input), horizon[e].frontier < input.len[e]
      PROVE  /\ Fresh(Frontier(e)) /\ ~IsUsed(horizon[Frontier(e)[1]], Frontier(e)[2])
  <2>1. Frontier(e) \in Locations(input) /\ Frontier(e)[1] = e /\ Frontier(e)[2] = horizon[e].frontier
    BY <1>1, <1>2, <1>3, LocationIs DEF Frontier
  <2> QED
    BY <1>1, <1>2, <2>1
<1>4. CASE InPhrase(phrase)
  <2>1. l = Frontier(phrase.engine)
    BY <1>4 DEF GetExtensions
  <2>2. phrase.engine \in EnginesOf(input) /\ phrase.end \in Nat
    BY <1>4 DEF Shape, InPhrase
  <2>3. phrase.end < input.len[phrase.engine] /\ horizon[phrase.engine].frontier <= phrase.end
    BY <1>4 DEF Open
  <2>4. horizon[phrase.engine].frontier < input.len[phrase.engine]
    BY <1>1, <1>2, <2>2, <2>3
  <2>5. Fresh(l)
    BY <1>3, <2>1, <2>2, <2>4
  <2> HIDE DEF Fresh
  <2> QED
    BY <2>1, <2>5 DEF Fresh
<1>5. ASSUME ~InPhrase(phrase), l \in FrontierWords PROVE Fresh(l)
  <2>1. PICK e \in Live(input, horizon) : l = Frontier(e)
    BY <1>5 DEF FrontierWords
  <2>2. e \in EnginesOf(input) /\ horizon[e].frontier < input.len[e]
    BY <1>1, <1>2 DEF Live, RunsOff
  <2> HIDE DEF Fresh
  <2> QED
    BY <1>3, <2>1, <2>2
<1>6. ASSUME ~InPhrase(phrase), l \in AlignedWords PROVE Fresh(l)
  <2>1. PICK q \in FrontierWords \X EnginesOf(input) :
          /\ Ask(input, q[1], q[2]).type \ {"boundary", "self", "exact"} # {}
          /\ l = <<q[2], Ask(input, q[1], q[2]).offset>>
    BY <1>6 DEF AlignedWords
  <2>2. PICK e \in Live(input, horizon) : q[1] = Frontier(e)
    BY DEF FrontierWords
  <2>3. e \in EnginesOf(input) /\ horizon[e].frontier < input.len[e]
    BY <1>1, <1>2 DEF Live, RunsOff
  <2> DEFINE p == Frontier(e)
  <2>4. p \in Locations(input) /\ ~IsUsed(horizon[p[1]], p[2])
    BY <1>3, <2>3
  <2>5. q[2] \in EnginesOf(input) /\ IsConnection(Ask(input, p, q[2]))
    BY <2>1, <2>2 DEF IsConnection
  <2>6. l \in Locations(input) /\ l[1] = q[2] /\ l[2] = Ask(input, p, q[2]).offset
    BY <1>1, <2>1, <2>2, <2>4, <2>5
  <2>7. Aligned(input, p, l)
    BY <2>5, <2>6 DEF Aligned
  <2> HIDE DEF p
  <2> QED
    BY <1>1, <2>4, <2>6, <2>7
<1>7. ASSUME ~InPhrase(phrase), l \in RecentWords PROVE Fresh(l)
  <2>1. PICK e \in EnginesOf(input) : IsConnection(Ask(input, Latest, e)) /\ l = <<e, Ask(input, Latest, e).offset + 1>>
    BY <1>7 DEF RecentWords
  <2>2. l[2] < input.len[l[1]] /\ ~IsUsed(horizon[l[1]], l[2])
    BY <1>7 DEF RecentWords
  <2>3. Latest \in Locations(input)
    BY DEF Latest, Shape
  <2>4. <<e, Ask(input, Latest, e).offset>> \in Locations(input)
    BY <1>1, <2>1, <2>3
  <2>5. Ask(input, Latest, e).offset \in Nat
    BY <1>1, <2>4, LocationIs
  <2>6. l \in Locations(input)
    BY <1>1, <2>1, <2>2, <2>5, LocationIs
  <2> QED
    BY <1>1, <2>2, <2>6
<1>8. CASE ~InPhrase(phrase)
  <2>1. l \in FrontierWords \/ l \in AlignedWords \/ l \in RecentWords
    BY <1>8 DEF GetExtensions
  <2>2. Fresh(l)
    <3> HIDE DEF Fresh
    <3> QED
      BY <1>5, <1>6, <1>7, <1>8, <2>1
  <2> QED
    BY <1>8, <2>2
<1> QED
  BY <1>4, <1>8

(* Advance enters, keeps or leaves a phrase; the engine of the phrase is   *)
(* then not behind it.                                                     *)
LEMMA AdvancePhrase ==
  ASSUME NEW t, Sentences(t), NEW types, NEW l \in Locations(t),
         NEW p \in [engine : EnginesOf(t) \cup {NoEngine}, end : Nat],
         InPhrase(p) => p.end < t.len[p.engine] /\ l[1] = p.engine,
         NEW c \in Coverages
  PROVE  LET q == Advance(p, Ends(t, types, l), c, l) IN
         /\ q \in [engine : EnginesOf(t) \cup {NoEngine}, end : Nat]
         /\ InPhrase(q) => /\ q.end < t.len[q.engine] /\ c.frontier <= q.end
                           /\ q.engine = l[1]
<1> DEFINE n == t.len[l[1]]
           ends == Ends(t, types, l)
           open == {x \in ends : x <= MaxClear(c)}
           q == Advance(p, ends, c, l)
<1>1. l[1] \in EnginesOf(t) /\ l[2] \in Nat /\ n \in Nat /\ l[1] \in Nat /\ l[2] < n /\ c.frontier \in Nat
  BY LocationIs, FrontierIs DEF Sentences
<1>2. ends \in SUBSET (l[2] + 1 .. n - 1)
  <2>1. PunctuationEnds(t, l) \subseteq l[2] + 1 .. n - 2
    BY DEF PunctuationEnds
  <2>2. AlignedEnds(t, l) \subseteq l[2] + 1 .. n - 1
    BY DEF AlignedEnds
  <2>3. l[2] + 1 .. n - 2 \subseteq l[2] + 1 .. n - 1
    BY <1>1
  <2> HIDE DEF n
  <2> QED
    BY <2>1, <2>2, <2>3 DEF Ends
<1>3. q = IF InPhrase(p) /\ c.frontier <= p.end THEN p
          ELSE IF c.frontier > l[2] + 1 \/ open = {} THEN NoPhrase
          ELSE [engine |-> l[1], end |-> CHOOSE x \in open : \A y \in open : y <= x]
  BY DEF Advance
<1>4. open \in SUBSET (l[2] + 1 .. n - 1)
  BY <1>2
<1> HIDE DEF open, q, ends, n
<1>5. CASE InPhrase(p) /\ c.frontier <= p.end
  <2>1. q = p
    BY <1>3, <1>5
  <2> QED
    BY <1>5, <2>1 DEF q, ends
<1>6. CASE ~(InPhrase(p) /\ c.frontier <= p.end) /\ (c.frontier > l[2] + 1 \/ open = {})
  <2>1. q = NoPhrase
    BY <1>3, <1>6
  <2> QED
    BY <2>1 DEF q, ends, NoPhrase, InPhrase
<1>7. CASE ~(InPhrase(p) /\ c.frontier <= p.end) /\ ~(c.frontier > l[2] + 1 \/ open = {})
  <2> DEFINE x == CHOOSE y \in open : \A z \in open : z <= y
  <2>1. q = [engine |-> l[1], end |-> x]
    BY <1>3, <1>7
  <2>2. x \in open
    <3>1. IsFiniteSet(open) /\ open \in SUBSET Int /\ open # {}
      <4> DEFINE i == l[2] + 1
                 j == n - 1
      <4>1. i \in Int /\ j \in Int /\ open \in SUBSET (i .. j) /\ open # {}
        BY <1>1, <1>4, <1>7
      <4> HIDE DEF i, j
      <4>2. IsFiniteSet(i .. j)
        BY <4>1, FS_Interval
      <4>3. IsFiniteSet(open)
        BY <4>1, <4>2, FS_Subset
      <4> QED
        BY <4>1, <4>3
    <3>2. Max(open) \in open /\ \A y \in open : Max(open) >= y
      BY <3>1, MaxIs
    <3>3. \A z \in open : z <= Max(open)
      BY <3>1, <3>2
    <3> QED
      BY <3>2, <3>3
  <2> HIDE DEF x
  <2>3. x \in Nat /\ x >= l[2] + 1 /\ x <= n - 1
    BY <1>1, <1>4, <2>2
  <2>4. c.frontier <= x
    BY <1>1, <1>7, <2>3
  <2>5. q.end = x /\ q.engine = l[1] /\ q \in [engine : EnginesOf(t) \cup {NoEngine}, end : Nat]
    BY <1>1, <2>1, <2>3
  <2>6. x < n
    BY <1>1, <2>3
  <2> QED
    BY <2>4, <2>5, <2>6 DEF q, ends, n
<1> QED
  BY <1>5, <1>6, <1>7

\* An end-of-sentence marker is aligned with its like only, and none was said.
LEMMA EndInductive ==
  ASSUME Inductive, status = "open", NEW l \in GetExtensions, End(l)
  PROVE  Inductive'
<1>1. Ready /\ Shape /\ Open /\ NoWordTwice /\ NoMeaningTwice
  BY DEF Inductive
<1>2. IsEnd(input, l) /\ l \in Locations(input)
  BY <1>1, ExtensionIs DEF End
<1>3. /\ history' = Append(history, l) /\ status' = "ended"
      /\ input' = input /\ config' = config /\ horizon' = horizon /\ phrase' = phrase
  BY DEF End
<1>4. /\ history \in Seq(Locations(input)) /\ Len(history) \in Nat
      /\ history' \in Seq(Locations(input)) /\ Len(history') = Len(history) + 1
      /\ DOMAIN history = 1 .. Len(history) /\ DOMAIN history' = 1 .. Len(history) + 1
      /\ \A i \in DOMAIN history : history'[i] = history[i] /\ history[i] \in Locations(input)
      /\ history'[Len(history) + 1] = l
  BY <1>1, <1>2, <1>3 DEF Shape
<1>5. \A i \in DOMAIN history : ~IsEnd(input, history[i])
  BY <1>1 DEF Open, Said
<1>6. Ready'
  BY <1>1, <1>3 DEF Ready
<1>7. Shape'
  BY <1>1, <1>3, <1>4 DEF Shape
<1>8. Open' /\ HorizonHeld'
  BY <1>3 DEF Open, HorizonHeld
<1>9. NoWordTwice'
  BY <1>1, <1>2, <1>4, <1>5 DEF NoWordTwice
<1>10. NoMeaningTwice'
  <2> SUFFICES ASSUME config.transitive, NEW i \in DOMAIN history', NEW j \in DOMAIN history', i # j,
                      Aligned(input, history'[i], history'[j])
               PROVE  Conflict(CloseAlignment(input, history'[i]))
    BY <1>3 DEF NoMeaningTwice
  <2>1. history'[i] \in Locations(input) /\ history'[j] \in Locations(input)
    BY <1>4
  <2>2. IsEnd(input, history'[i]) <=> IsEnd(input, history'[j])
    BY <1>1, <2>1 DEF Ready, Sound
  <2>3. i \in DOMAIN history /\ j \in DOMAIN history
    BY <1>2, <1>4, <1>5, <2>2
  <2> QED
    BY <1>1, <1>4, <2>3 DEF NoMeaningTwice
<1> QED
  BY <1>6, <1>7, <1>8, <1>9, <1>10 DEF Inductive

(* What the words appended so far have used stays used, and the new word's *)
(* partners are used too.                                                  *)
LEMMA ExtendUses ==
  ASSUME Inductive, status = "open", NEW l \in GetExtensions, ExtendNonScore(l)
  PROVE  /\ l \in Locations(input)
         /\ AllFine(input, horizon') /\ AllGrow(input, horizon, horizon')
         /\ Said(input, horizon', l)
         /\ \A i \in DOMAIN history : Said(input, horizon', history[i])
         /\ config.method = "length" => \A e \in Live(input, horizon'), f \in EnginesOf(input) :
              horizon'[e].frontier + config.radius >= horizon'[f].frontier
<1>1. Ready /\ Shape /\ Open
  BY DEF Inductive
<1>2. l \in Locations(input) /\ ~IsEnd(input, l)
  BY <1>1, ExtensionIs DEF ExtendNonScore
<1>3. Sound(input) /\ Configured(input, config) /\ AllFine(input, horizon)
      /\ horizon' = ConsumeWord(input, config, horizon, l)
  BY <1>1 DEF Ready, Shape, ExtendNonScore
<1>4. /\ AllFine(input, horizon') /\ AllGrow(input, horizon, horizon')
      /\ \A m \in Locations(input) : Aligned(input, l, m) => IsUsed(horizon'[m[1]], m[2])
      /\ config.method = "length" => \A e \in Live(input, horizon'), f \in EnginesOf(input) :
              horizon'[e].frontier + config.radius >= horizon'[f].frontier
  BY <1>2, <1>3, ConsumeWordIs
<1>5. \A m \in Locations(input) : m[1] \in EnginesOf(input) /\ m[2] \in Nat
  BY <1>3, LocationIs DEF Sound, Sentences
<1>6. \A i \in DOMAIN history : Said(input, horizon', history[i])
  BY <1>1, <1>4, <1>5 DEF Open, Said, AllGrow, Grows
<1> QED
  BY <1>2, <1>4, <1>6 DEF Said

(* A word that is not an end keeps it: the word has a partner that was     *)
(* unused, while all partners of the words before it are used.             *)
LEMMA ExtendInductive ==
  ASSUME Inductive, status = "open", NEW l \in GetExtensions, ExtendNonScore(l)
  PROVE  Inductive'
<1>1. Ready /\ Shape /\ Open /\ NoWordTwice /\ NoMeaningTwice /\ Sentences(input)
  BY DEF Inductive, Ready, Sound
<1>2. /\ history' = Append(history, l) /\ input' = input /\ config' = config
      /\ IF Live(input, horizon') = {}
         THEN status' = "dropped" /\ UNCHANGED phrase
         ELSE /\ phrase' = Advance(phrase, Ends(input, config.phrase, l), horizon'[l[1]], l)
              /\ UNCHANGED status
  BY DEF ExtendNonScore
<1>3. /\ l \in Locations(input) /\ AllFine(input, horizon') /\ Said(input, horizon', l)
      /\ \A i \in DOMAIN history : Said(input, horizon', history[i])
      /\ config.method = "length" => \A e \in Live(input, horizon'), f \in EnginesOf(input) :
              horizon'[e].frontier + config.radius >= horizon'[f].frontier
  BY ExtendUses
<1>4. PICK p \in Locations(input) : Aligned(input, l, p) /\ ~IsUsed(horizon[p[1]], p[2])
  BY <1>1, ExtensionIs
<1>5. /\ history \in Seq(Locations(input)) /\ Len(history) \in Nat
      /\ history' \in Seq(Locations(input)) /\ Len(history') = Len(history) + 1
      /\ DOMAIN history = 1 .. Len(history) /\ DOMAIN history' = 1 .. Len(history) + 1
      /\ \A i \in DOMAIN history : history'[i] = history[i] /\ history[i] \in Locations(input)
      /\ history'[Len(history) + 1] = l
  BY <1>1, <1>2, <1>3 DEF Shape
\* The partner p of l is unused, those of earlier words are used.
<1>6. \A i \in DOMAIN history : ~Aligned(input, history[i], p)
  BY <1>1, <1>4 DEF Open, Said
<1>7. Ready'
  BY <1>1, <1>2 DEF Ready
<1>8. l[1] \in EnginesOf(input) /\ horizon'[l[1]] \in Coverages
  BY <1>3, LocationIs DEF AllFine
<1>9. ASSUME status' = "open"
      PROVE  /\ Live(input, horizon') # {}
             /\ phrase' \in [engine : EnginesOf(input) \cup {NoEngine}, end : Nat]
             /\ InPhrase(phrase') => /\ phrase'.end < input.len[phrase'.engine]
                                     /\ horizon'[phrase'.engine].frontier <= phrase'.end
  <2>1. Live(input, horizon') # {}
    BY <1>2, <1>9
  <2>2. phrase' = Advance(phrase, Ends(input, config.phrase, l), horizon'[l[1]], l)
    BY <1>2, <2>1
  <2>3. /\ phrase \in [engine : EnginesOf(input) \cup {NoEngine}, end : Nat]
        /\ InPhrase(phrase) => phrase.end < input.len[phrase.engine]
    BY <1>1 DEF Shape, Open
  <2>4. ASSUME InPhrase(phrase) PROVE l[1] = phrase.engine
    <3>1. l = Frontier(phrase.engine)
      BY <1>1, <2>4, ExtensionIs
    <3> QED
      BY <3>1 DEF Frontier
  <2>5. /\ phrase' \in [engine : EnginesOf(input) \cup {NoEngine}, end : Nat]
        /\ InPhrase(phrase') => /\ phrase'.end < input.len[phrase'.engine]
                                /\ horizon'[l[1]].frontier <= phrase'.end
                                /\ phrase'.engine = l[1]
    BY <1>1, <1>3, <1>8, <2>2, <2>3, <2>4, AdvancePhrase
  <2> QED
    BY <2>1, <2>5
<1>10. Shape'
  <2>1. CASE Live(input, horizon') = {}
    <3>1. status' = "dropped" /\ phrase' = phrase
      BY <1>2, <2>1
    <3> QED
      BY <1>1, <1>2, <1>3, <1>5, <3>1 DEF Shape
  <2>2. CASE Live(input, horizon') # {}
    <3>1. status' = "open"
      BY <1>2, <2>2
    <3> QED
      BY <1>2, <1>3, <1>5, <1>9, <3>1 DEF Shape
  <2> QED
    BY <2>1, <2>2
<1>11. Open'
  <2> SUFFICES ASSUME status' = "open"
               PROVE  /\ Live(input, horizon') # {}
                      /\ InPhrase(phrase') => /\ phrase'.end < input.len[phrase'.engine]
                                              /\ horizon'[phrase'.engine].frontier <= phrase'.end
                      /\ \A i \in DOMAIN history' : Said(input, horizon', history'[i])
    BY <1>2 DEF Open
  <2>1. \A i \in DOMAIN history' : Said(input, horizon', history'[i])
    BY <1>3, <1>5
  <2> QED
    BY <1>9, <2>1
<1>12. HorizonHeld'
  BY <1>2, <1>3 DEF HorizonHeld
<1>13. \A i \in DOMAIN history : history[i] # l
  BY <1>4, <1>6
<1>14. NoWordTwice'
  BY <1>1, <1>5, <1>13 DEF NoWordTwice
\* No earlier word is aligned with l but for conflicts: it would be with p.
<1>15. ASSUME config.transitive, NEW i \in DOMAIN history
       PROVE  /\ Aligned(input, history[i], l) => Conflict(CloseAlignment(input, history[i]))
              /\ Aligned(input, l, history[i]) => Conflict(CloseAlignment(input, l))
  <2>1. history[i] \in Locations(input)
    BY <1>5
  <2>2. Aligned(input, history[i], l) => Conflict(CloseAlignment(input, history[i]))
    BY <1>1, <1>3, <1>4, <1>6, <1>15, <2>1 DEF Ready, Transitive
  <2>3. ASSUME Aligned(input, l, history[i]) PROVE Conflict(CloseAlignment(input, l))
    <3>1. Sound(input)
      BY <1>1 DEF Ready
    <3>2. Aligned(input, history[i], l)
      BY <1>3, <2>1, <2>3, <3>1 DEF Sound
    <3> QED
      BY <1>3, <2>1, <2>2, <2>3, <3>1, <3>2, ConflictBoth
  <2> QED
    BY <2>2, <2>3
<1>16. NoMeaningTwice'
  <2> SUFFICES ASSUME config.transitive, NEW i \in DOMAIN history', NEW j \in DOMAIN history', i # j,
                      Aligned(input, history'[i], history'[j])
               PROVE  Conflict(CloseAlignment(input, history'[i]))
    BY <1>2 DEF NoMeaningTwice
  <2>1. CASE i \in DOMAIN history /\ j \in DOMAIN history
    BY <1>1, <1>5, <2>1 DEF NoMeaningTwice
  <2>2. CASE i \in DOMAIN history /\ j = Len(history) + 1
    BY <1>5, <1>15, <2>2
  <2>3. CASE i = Len(history) + 1 /\ j \in DOMAIN history
    BY <1>5, <1>15, <2>3
  <2> QED
    BY <1>5, <2>1, <2>2, <2>3
<1> QED
  BY <1>7, <1>10, <1>11, <1>12, <1>14, <1>16 DEF Inductive

\* The invariant holds of every hypothesis.
THEOREM InductiveHolds == Spec => []Inductive
<1>1. Inductive /\ [Next]_vars => Inductive'
  <2> SUFFICES ASSUME Inductive, [Next]_vars PROVE Inductive'
    OBVIOUS
  <2>1. CASE Next
    <3>1. PICK l \in GetExtensions : End(l) \/ ExtendNonScore(l)
      BY <2>1 DEF Next, Extend
    <3>2. status = "open"
      BY <2>1 DEF Next, Extend
    <3> QED
      BY <3>1, <3>2, EndInductive, ExtendInductive
  <2>2. CASE UNCHANGED vars
    BY <2>2 DEF vars, Inductive, Ready, Shape, Open, NoWordTwice, NoMeaningTwice, HorizonHeld
  <2> QED
    BY <2>1, <2>2
<1> QED
  BY <1>1, InitInductive, PTL DEF Spec

(* Coverages are canonical, the phrase is one of a sentence, and the words *)
(* appended exist.                                                         *)
THEOREM LegacyTypeCorrect == Spec => []TypeOK
<1>1. Inductive => TypeOK
  <2> SUFFICES ASSUME Inductive PROVE TypeOK
    OBVIOUS
  <2>1. Shape
    BY DEF Inductive
  <2>2. \A e \in EnginesOf(input) : Canonical(horizon[e])
    BY <2>1 DEF Shape, AllFine, Fine
  <2>3. \A i \in DOMAIN history : history[i] \in Locations(input)
    BY <2>1 DEF Shape
  <2> QED
    BY <2>1, <2>2, <2>3 DEF Shape, AllFine, TypeOK
<1> QED
  BY <1>1, InductiveHolds, PTL

(* An open hypothesis has an extension, every extension is a word of a     *)
(* sentence, and a phrase has not ended: GetExtensions reads no word that  *)
(* does not exist (Sentence.hh:87, Phrase's Hypothesis.hh:70).             *)
THEOREM NeverStuckHolds == Spec => []NeverStuck
<1>1. Inductive => NeverStuck
  <2> SUFFICES ASSUME Inductive, status = "open"
               PROVE  /\ GetExtensions # {} /\ GetExtensions \subseteq Locations(input)
                      /\ InPhrase(phrase) => horizon[phrase.engine].frontier <= phrase.end
    BY DEF NeverStuck
  <2>1. Ready /\ Shape /\ Open
    BY DEF Inductive
  <2>2. GetExtensions \subseteq Locations(input)
    BY <2>1, ExtensionIs
  <2>3. GetExtensions # {}
    <3>1. PICK e \in Live(input, horizon) : TRUE
      BY <2>1 DEF Open
    <3>2. Frontier(e) \in FrontierWords
      BY DEF FrontierWords
    <3> QED
      BY <3>2 DEF GetExtensions
  <2> QED
    BY <2>1, <2>2, <2>3 DEF Open
<1> QED
  BY <1>1, InductiveHolds, PTL

(* No word is appended twice, whatever extend_aligned, continue_recent and *)
(* the phrases make of the frontiers.                                      *)
THEOREM NoWordTwiceHolds == Spec => []NoWordTwice
<1>1. Inductive => NoWordTwice
  BY DEF Inductive
<1> QED
  BY <1>1, InductiveHolds, PTL

(* With transitive alignments no two words appended are aligned, unless    *)
(* their closure is in conflict.                                           *)
THEOREM NoMeaningTwiceHolds == Spec => []NoMeaningTwice
<1>1. Inductive => NoMeaningTwice
  BY DEF Inductive
<1> QED
  BY <1>1, InductiveHolds, PTL

(* EnforceOldConstraints does what it is for: no live engine is left more  *)
(* than the radius behind another.                                         *)
THEOREM HorizonHeldHolds == Spec => []HorizonHeld
<1>1. Inductive => HorizonHeld
  BY DEF Inductive
<1> QED
  BY <1>1, InductiveHolds, PTL

(* Every word but an end uses a word that was unused, and none becomes     *)
(* unused; so a hypothesis is no longer than there are words.              *)
THEOREM EachWordUsesWordsHolds == Spec => EachWordUsesWords
<1>1. Inductive /\ [Next]_vars =>
        [history' # history /\ status' # "ended" =>
           UnusedWords' \subseteq UnusedWords /\ UnusedWords' # UnusedWords]_vars
  <2> SUFFICES ASSUME Inductive, Next, history' # history, status' # "ended"
               PROVE  UnusedWords' \subseteq UnusedWords /\ UnusedWords' # UnusedWords
    OBVIOUS
  <2>1. PICK l \in GetExtensions : status = "open" /\ ExtendNonScore(l)
    BY DEF Next, Extend, End
  <2>2. /\ l \in Locations(input) /\ AllGrow(input, horizon, horizon') /\ Said(input, horizon', l)
    BY <2>1, ExtendUses
  <2>3. PICK p \in Locations(input) : Aligned(input, l, p) /\ ~IsUsed(horizon[p[1]], p[2])
    BY <2>1, ExtensionIs DEF Inductive
  <2>4. input' = input
    BY <2>1 DEF ExtendNonScore
  <2>5. \A m \in Locations(input) : m[1] \in EnginesOf(input) /\ m[2] \in Nat
    BY LocationIs DEF Inductive, Ready, Sound, Sentences
  <2>6. UnusedWords' \subseteq UnusedWords
    BY <2>2, <2>4, <2>5 DEF UnusedWords, AllGrow, Grows
  <2>7. p \in UnusedWords /\ p \notin UnusedWords'
    BY <2>2, <2>3, <2>4 DEF UnusedWords, Said
  <2> QED
    BY <2>6, <2>7
<1>2. Spec => [][history' # history /\ status' # "ended" =>
           UnusedWords' \subseteq UnusedWords /\ UnusedWords' # UnusedWords]_vars
  BY <1>1, InductiveHolds, PTL DEF Spec
<1> QED
  BY <1>2 DEF EachWordUsesWords
=============================================================================
