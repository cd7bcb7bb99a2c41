------------------------------- MODULE Facts -------------------------------
(***************************************************************************)
(* What the proofs of several components need.  Least elements and firsts  *)
(* of orders; that recursive functions exist, and rules that stand in for  *)
(* induction (for loops, for folds and up to a number); increasing lists of*)
(* a finite set; and things distributed over places, each in just one,     *)
(* where most places are queues (batches in FilterControllerProofs,        *)
(* requests in ServerProofs).                                              *)
(***************************************************************************)
EXTENDS Integers, SequencesExt, FiniteSetTheorems, WellFoundedInduction, TLAPS

\* A non-empty set of naturals has a least element.
LEMMA LeastElement ==
  ASSUME NEW T, T \subseteq Nat, T # {}
  PROVE  \E x \in T : \A y \in T : x <= y
<1>1. PICK x \in T : \A y \in T : ~ (<<y, x>> \in OpToRel(<, Nat))
  BY NatLessThanWellFounded, WFMin
<1>2. \A y \in T : x <= y
  <2>1. TAKE y \in T
  <2>2. x \in Nat /\ y \in Nat
    OBVIOUS
  <2>3. ~ (y < x)
    BY <1>1, <2>2 DEF OpToRel
  <2>4. QED
    BY <2>2, <2>3
<1>3. QED
  BY <1>2

(* A finite set that a relation orders has a first element.                *)
Orders(R, S) ==
  /\ \A x, y \in S : <<x, y>> \in R \/ <<y, x>> \in R
  /\ \A x, y, z \in S : <<x, y>> \in R /\ <<y, z>> \in R => <<x, z>> \in R
HasFirst(R, S) == \E x \in S : \A y \in S : <<x, y>> \in R

LEMMA FirstExists ==
  ASSUME NEW S, IsFiniteSet(S), S # {}, NEW R, Orders(R, S)
  PROVE  HasFirst(R, S)
<1> DEFINE Bad == {s \in SUBSET S : s # {} /\ ~HasFirst(R, s)}
           T == {Cardinality(s) : s \in Bad}
<1> SUFFICES ASSUME S \in Bad PROVE FALSE
  OBVIOUS
<1>1. \A s \in Bad : s \in SUBSET S /\ s # {} /\ ~HasFirst(R, s) /\ IsFiniteSet(s) /\ Cardinality(s) \in Nat
  BY FS_Subset, FS_CardinalityType
<1>2. ASSUME NEW s \in Bad PROVE \E r \in Bad : Cardinality(r) = Cardinality(s) - 1
  <2>1. PICK x \in s : TRUE
    BY <1>1
  <2> DEFINE r == s \ {x}
  <2>2. Cardinality(r) = Cardinality(s) - 1
    BY <1>1, FS_RemoveElement
  <2>3. r # {}
    <3> SUFFICES ASSUME r = {} PROVE FALSE
      OBVIOUS
    <3>1. s = {x}
      OBVIOUS
    <3>2. <<x, x>> \in R
      BY <1>1 DEF Orders
    <3> QED
      BY <1>1, <3>1, <3>2 DEF HasFirst
  <2>4. ~HasFirst(R, r)
    <3> SUFFICES ASSUME NEW y \in r, \A z \in r : <<y, z>> \in R PROVE FALSE
      BY DEF HasFirst
    <3>1. x \in S /\ y \in S /\ s \subseteq S
      BY <1>1
    <3>2. CASE <<y, x>> \in R
      <4>1. \A z \in s : <<y, z>> \in R
        BY <3>2
      <4> QED
        BY <1>1, <4>1 DEF HasFirst
    <3>3. CASE <<x, y>> \in R
      <4>1. <<x, x>> \in R
        BY <3>1 DEF Orders
      <4>2. \A z \in r : <<x, z>> \in R
        BY <3>1, <3>3 DEF Orders
      <4>3. \A z \in s : <<x, z>> \in R
        BY <4>1, <4>2
      <4> QED
        BY <1>1, <4>3 DEF HasFirst
    <3> QED
      BY <3>1, <3>2, <3>3 DEF Orders
  <2>5. r \in Bad
    BY <1>1, <2>3, <2>4
  <2> QED
    BY <2>2, <2>5
<1> HIDE DEF Bad
<1>3. T \subseteq Nat /\ T # {}
  BY <1>1
<1>4. PICK n \in T : \A k \in T : n <= k
  BY <1>3, LeastElement
<1>5. PICK s \in Bad : n = Cardinality(s)
  BY <1>4
<1>6. PICK r \in Bad : Cardinality(r) = n - 1
  BY <1>2, <1>5
<1>7. n - 1 \in T /\ n \in Nat
  BY <1>3, <1>6
<1>8. n <= n - 1
  BY <1>4, <1>7
<1> QED
  BY <1>7, <1>8

\* The maximum of a finite set of integers.
LEMMA MaxIs ==
  ASSUME NEW S \in SUBSET Int, IsFiniteSet(S), S # {}
  PROVE  Max(S) \in S /\ \A y \in S : Max(S) >= y
<1> DEFINE R == {p \in S \X S : p[1] >= p[2]}
<1>1. \A x, y \in S : <<x, y>> \in R <=> x >= y
  OBVIOUS
<1> HIDE DEF R
<1>2. Orders(R, S)
  BY <1>1 DEF Orders
<1>3. \E x \in S : \A y \in S : x >= y
  BY <1>1, <1>2, FirstExists DEF HasFirst
<1> QED
  BY <1>3 DEF Max

\* The larger of two numbers.
LEMMA LargerIs ==
  ASSUME NEW a \in Int, NEW b \in Int
  PROVE  Max({a, b}) \in {a, b} /\ Max({a, b}) >= a /\ Max({a, b}) >= b
<1>1. IsFiniteSet({a, b})
  <2>1. IsFiniteSet({a})
    BY FS_Singleton
  <2>2. IsFiniteSet({a} \cup {b})
    BY <2>1, FS_AddElement
  <2>3. {a, b} = {a} \cup {b}
    OBVIOUS
  <2> QED
    BY <2>2, <2>3
<1>2. {a, b} \in SUBSET Int /\ {a, b} # {} /\ a \in {a, b} /\ b \in {a, b}
  OBVIOUS
<1>3. Max({a, b}) \in {a, b} /\ \A y \in {a, b} : Max({a, b}) >= y
  BY <1>1, <1>2, MaxIs
<1> HIDE DEF Max
<1> QED
  BY <1>3
-----------------------------------------------------------------------------
(* A loop that replaces s by step[s] until it is in rest, and then returns *)
(* out[s], is a function: the least set of pairs that its two rules allow. *)
Loop(D, step, rest, out, f) == \A s \in D : f[s] = IF s \in rest THEN out[s] ELSE f[step[s]]

LEMMA TailRecursion ==
  ASSUME NEW D, NEW step \in [D -> D], NEW rest \in SUBSET D, NEW W, NEW out \in [D -> W]
  PROVE  \E f \in [D -> W \cup {{}}] : Loop(D, step, rest, out, f)
<1> DEFINE V == {out[s] : s \in rest}
           Closed(Q) == /\ \A s \in rest : <<s, out[s]>> \in Q
                        /\ \A s \in D \ rest, v \in V : <<step[s], v>> \in Q => <<s, v>> \in Q
           R == {p \in D \X V : \A Q \in SUBSET (D \X V) : Closed(Q) => p \in Q}
           f == [s \in D |-> IF \E v \in V : <<s, v>> \in R
                             THEN CHOOSE v \in V : <<s, v>> \in R ELSE {}]
<1>1. Closed(R)
  <2>1. ASSUME NEW s \in rest PROVE <<s, out[s]>> \in R
    BY <2>1
  <2>2. ASSUME NEW s \in D \ rest, NEW v \in V, <<step[s], v>> \in R
        PROVE  <<s, v>> \in R
    <3>1. ASSUME NEW Q \in SUBSET (D \X V), Closed(Q) PROVE <<s, v>> \in Q
      <4>1. <<step[s], v>> \in Q
        BY <2>2, <3>1
      <4> QED
        BY <3>1, <4>1
    <3> QED
      BY <3>1
  <2> HIDE DEF R, V
  <2> QED
    BY <2>1, <2>2
<1>2. ASSUME NEW s \in rest, NEW v \in V, <<s, v>> \in R PROVE v = out[s]
  <2> DEFINE Q == {p \in R : p[1] = s => p[2] = out[s]}
  <2>1. Closed(Q)
    <3>1. ASSUME NEW x \in rest PROVE <<x, out[x]>> \in Q
      <4>1. <<x, out[x]>> \in R
        BY <1>1
      <4> HIDE DEF R
      <4> QED
        BY <4>1
    <3>2. ASSUME NEW x \in D \ rest, NEW w \in V, <<step[x], w>> \in Q
          PROVE  <<x, w>> \in Q
      <4>1. <<x, w>> \in R
        BY <1>1, <3>2
      <4>2. x # s
        OBVIOUS
      <4> HIDE DEF R
      <4> QED
        BY <4>1, <4>2
    <3> HIDE DEF Q, V
    <3> QED
      BY <3>1, <3>2
  <2>2. Q \in SUBSET (D \X V)
    OBVIOUS
  <2>3. <<s, v>> \in Q
    <3> HIDE DEF Q, Closed, V
    <3> QED
      BY <1>2, <2>1, <2>2
  <2> HIDE DEF R
  <2> QED
    BY <2>3
<1>3. ASSUME NEW s \in D \ rest, NEW v \in V, <<s, v>> \in R PROVE <<step[s], v>> \in R
  <2> SUFFICES ASSUME <<step[s], v>> \notin R PROVE FALSE
    OBVIOUS
  <2> DEFINE Q == R \ {<<s, v>>}
  <2>1. Closed(Q)
    <3>1. ASSUME NEW x \in rest PROVE <<x, out[x]>> \in Q
      <4>1. <<x, out[x]>> \in R /\ x # s
        BY <1>1
      <4> HIDE DEF R
      <4> QED
        BY <4>1
    <3>2. ASSUME NEW x \in D \ rest, NEW w \in V, <<step[x], w>> \in Q
          PROVE  <<x, w>> \in Q
      <4> HIDE DEF R, V
      <4>1. <<step[x], w>> \in R
        BY <3>2
      <4>2. <<x, w>> \in R
        BY <1>1, <3>2, <4>1
      <4>3. <<x, w>> # <<s, v>>
        BY <4>1
      <4> QED
        BY <4>2, <4>3
    <3> HIDE DEF Q, V
    <3> QED
      BY <3>1, <3>2
  <2>2. Q \in SUBSET (D \X V)
    OBVIOUS
  <2>3. <<s, v>> \in Q
    <3> HIDE DEF Q, Closed, V
    <3> QED
      BY <1>3, <2>1, <2>2
  <2> QED
    BY <2>3
<1>4. ASSUME NEW s \in rest PROVE f[s] = out[s]
  <2>1. out[s] \in V /\ <<s, out[s]>> \in R
    BY <1>1
  <2> HIDE DEF R, V
  <2> QED
    BY <1>2, <2>1
<1>5. ASSUME NEW s \in D \ rest PROVE f[s] = f[step[s]]
  <2> HIDE DEF R, V
  <2>1. \A v \in V : <<s, v>> \in R <=> <<step[s], v>> \in R
    BY <1>1, <1>3
  <2>2. step[s] \in D
    OBVIOUS
  <2>3. (\E v \in V : <<s, v>> \in R) <=> (\E v \in V : <<step[s], v>> \in R)
    BY <2>1
  <2>4. (CHOOSE v \in V : <<s, v>> \in R) = (CHOOSE v \in V : <<step[s], v>> \in R)
    BY <2>1
  <2> QED
    BY <2>2, <2>3, <2>4
<1>6. \A s \in D : f[s] = IF s \in rest THEN out[s] ELSE f[step[s]]
  BY <1>4, <1>5
<1>7. f \in [D -> W \cup {{}}]
  <2>1. V \subseteq W
    OBVIOUS
  <2> HIDE DEF R, V
  <2> QED
    BY <2>1
<1> HIDE DEF f, V
<1> QED
  BY <1>6, <1>7 DEF Loop

(* What holds of s and is kept by each step holds where the loop ends, if  *)
(* a measure falls with each step.                                         *)
Falls(Good, step, rest, m) ==
  \A s \in Good : s \notin rest => step[s] \in Good /\ m[step[s]] \in Nat /\ m[s] \in Nat /\ m[step[s]] < m[s]

LEMMA LoopRule ==
  ASSUME NEW D, NEW step, NEW rest, NEW out, NEW f, Loop(D, step, rest, out, f),
         NEW Good \in SUBSET D, NEW m, Falls(Good, step, rest, m),
         NEW start \in Good
  PROVE  \E r \in Good : r \in rest /\ f[start] = out[r]
<1> DEFINE Ends(s) == \E r \in Good : r \in rest /\ f[s] = out[r]
           Bad == {s \in Good : ~Ends(s)}
           T == {m[s] : s \in Bad}
<1> SUFFICES ASSUME ~Ends(start) PROVE FALSE
  OBVIOUS
<1>1. \A s \in Bad : /\ s \notin rest /\ step[s] \in Bad
                     /\ m[s] \in Nat /\ m[step[s]] \in Nat /\ m[step[s]] < m[s]
  <2> SUFFICES ASSUME NEW s \in Bad
               PROVE  /\ s \notin rest /\ step[s] \in Bad
                      /\ m[s] \in Nat /\ m[step[s]] \in Nat /\ m[step[s]] < m[s]
    OBVIOUS
  <2>1. f[s] = IF s \in rest THEN out[s] ELSE f[step[s]]
    BY DEF Loop
  <2>2. s \notin rest
    BY <2>1
  <2>3. step[s] \in Good /\ m[s] \in Nat /\ m[step[s]] \in Nat /\ m[step[s]] < m[s]
    BY <2>2 DEF Falls
  <2>4. f[s] = f[step[s]]
    BY <2>1, <2>2
  <2> QED
    BY <2>2, <2>3, <2>4
<1>2. start \in Bad
  OBVIOUS
<1> HIDE DEF Bad
<1>3. T \subseteq Nat /\ T # {}
  BY <1>1, <1>2
<1>4. PICK x \in T : \A y \in T : x <= y
  BY <1>3, LeastElement
<1>5. PICK s \in Bad : m[s] = x
  BY <1>4
<1>6. m[step[s]] \in T
  BY <1>1, <1>5
<1>7. x <= m[step[s]] /\ m[step[s]] < x /\ x \in Nat /\ m[step[s]] \in Nat
  BY <1>1, <1>3, <1>4, <1>5, <1>6
<1> QED
  BY <1>7

(* A fold over a finite set: some element is taken, the rest folded first. *)
Folding(S, base, op, f) ==
  \A s \in SUBSET S :
    f[s] = IF s = {} THEN base
           ELSE op[<<CHOOSE x \in s : TRUE, f[s \ {CHOOSE x \in s : TRUE}]>>]

LEMMA FoldExists ==
  ASSUME NEW S, IsFiniteSet(S), NEW base, NEW V, base \in V, NEW op \in [S \X V -> V]
  PROVE  \E f \in [SUBSET S -> V] : Folding(S, base, op, f)
<1> DEFINE D == SUBSET S
           pick(s) == CHOOSE x \in s : TRUE
           rem(s) == s \ {pick(s)}
           Closed(Q) ==
             /\ <<{}, base>> \in Q
             /\ \A s \in D \ {{}}, v \in V : <<rem(s), v>> \in Q => <<s, op[<<pick(s), v>>]>> \in Q
           R == {p \in D \X V : \A Q \in SUBSET (D \X V) : Closed(Q) => p \in Q}
           f == [s \in D |-> CHOOSE v \in V : <<s, v>> \in R]
<1>1. \A s \in D \ {{}} : pick(s) \in s /\ pick(s) \in S /\ rem(s) \in D
  OBVIOUS
<1>2. \A s \in D \ {{}} : IsFiniteSet(s) /\ Cardinality(s) \in Nat /\ Cardinality(rem(s)) = Cardinality(s) - 1
                          /\ Cardinality(rem(s)) \in Nat
  <2> SUFFICES ASSUME NEW s \in D \ {{}}
               PROVE  IsFiniteSet(s) /\ Cardinality(s) \in Nat /\ Cardinality(rem(s)) = Cardinality(s) - 1
                      /\ Cardinality(rem(s)) \in Nat
    OBVIOUS
  <2>1. IsFiniteSet(s)
    BY FS_Subset
  <2>2. IsFiniteSet(rem(s)) /\ Cardinality(rem(s)) = Cardinality(s) - 1
    BY <1>1, <2>1, FS_RemoveElement
  <2>3. Cardinality(s) \in Nat /\ Cardinality(rem(s)) \in Nat
    BY <2>1, <2>2, FS_CardinalityType
  <2> QED
    BY <2>1, <2>2, <2>3
<1>3. \A s \in D \ {{}}, v \in V : op[<<pick(s), v>>] \in V
  BY <1>1
<1> HIDE DEF pick, rem
<1>4. Closed(R)
  <2>1. <<{}, base>> \in R
    OBVIOUS
  <2>2. ASSUME NEW s \in D \ {{}}, NEW v \in V, <<rem(s), v>> \in R
        PROVE  <<s, op[<<pick(s), v>>]>> \in R
    <3>1. ASSUME NEW Q \in SUBSET (D \X V), Closed(Q) PROVE <<s, op[<<pick(s), v>>]>> \in Q
      <4>1. <<rem(s), v>> \in Q
        BY <2>2, <3>1
      <4> QED
        BY <3>1, <4>1
    <3>2. <<s, op[<<pick(s), v>>]>> \in D \X V
      BY <1>3
    <3> QED
      BY <3>1, <3>2
  <2> HIDE DEF R, D
  <2> QED
    BY <2>1, <2>2
<1>5. ASSUME NEW v, <<{}, v>> \in R PROVE v = base
  <2> SUFFICES ASSUME v # base PROVE FALSE
    OBVIOUS
  <2> DEFINE Q == R \ {<<{}, v>>}
  <2>1. <<{}, base>> \in Q
    BY <1>4
  <2>2. ASSUME NEW s \in D \ {{}}, NEW u \in V, <<rem(s), u>> \in Q
        PROVE  <<s, op[<<pick(s), u>>]>> \in Q
    <3> HIDE DEF R, D
    <3>1. <<s, op[<<pick(s), u>>]>> \in R
      BY <1>4, <2>2
    <3>2. <<s, op[<<pick(s), u>>]>> # <<{}, v>>
      OBVIOUS
    <3> QED
      BY <3>1, <3>2
  <2>3. Closed(Q)
    <3> HIDE DEF Q, D
    <3> QED
      BY <2>1, <2>2
  <2>4. Q \in SUBSET (D \X V)
    OBVIOUS
  <2>5. <<{}, v>> \in Q
    <3> HIDE DEF Q, Closed
    <3> QED
      BY <1>5, <2>3, <2>4
  <2> QED
    BY <2>5
<1>6. ASSUME NEW s \in D \ {{}}, NEW v, <<s, v>> \in R
      PROVE  \E u \in V : <<rem(s), u>> \in R /\ v = op[<<pick(s), u>>]
  <2> SUFFICES ASSUME \A u \in V : <<rem(s), u>> \in R => v # op[<<pick(s), u>>] PROVE FALSE
    OBVIOUS
  <2> DEFINE Q == R \ {<<s, v>>}
  <2>1. <<{}, base>> \in Q
    BY <1>4
  <2>2. ASSUME NEW x \in D \ {{}}, NEW u \in V, <<rem(x), u>> \in Q
        PROVE  <<x, op[<<pick(x), u>>]>> \in Q
    <3> HIDE DEF R, D
    <3>1. <<x, op[<<pick(x), u>>]>> \in R
      BY <1>4, <2>2
    <3>2. <<x, op[<<pick(x), u>>]>> # <<s, v>>
      BY <2>2
    <3> QED
      BY <3>1, <3>2
  <2>3. Closed(Q)
    <3> HIDE DEF Q, D
    <3> QED
      BY <2>1, <2>2
  <2>4. Q \in SUBSET (D \X V)
    OBVIOUS
  <2>5. <<s, v>> \in Q
    <3> HIDE DEF Q, Closed
    <3> QED
      BY <1>6, <2>3, <2>4
  <2> QED
    BY <2>5
<1> DEFINE Single(s) == \E v \in V : <<s, v>> \in R /\ \A w \in V : <<s, w>> \in R => w = v
<1>7. \A s \in D : Single(s)
  <2> DEFINE T == {Cardinality(s) : s \in {x \in D : ~Single(x)}}
  <2> SUFFICES ASSUME NEW z \in D, ~Single(z) PROVE FALSE
    OBVIOUS
  <2>0. Single({})
    <3> HIDE DEF R
    <3> QED
      BY <1>4, <1>5
  <2>1. T \subseteq Nat /\ T # {}
    <3> HIDE DEF Single
    <3> QED
      BY <1>2, <2>0
  <2>2. PICK n \in T : \A y \in T : n <= y
    <3> HIDE DEF T
    <3> QED
      BY <2>1, LeastElement
  <2>3. PICK s \in D : ~Single(s) /\ Cardinality(s) = n
    OBVIOUS
  <2>4. s \in D \ {{}}
    BY <2>0, <2>3
  <2>5. Cardinality(rem(s)) \notin T
    <3> HIDE DEF T
    <3>1. Cardinality(rem(s)) < n
      BY <1>2, <2>1, <2>3, <2>4
    <3>2. n \in Nat /\ Cardinality(rem(s)) \in Nat
      BY <1>2, <2>1, <2>4
    <3> QED
      BY <2>2, <3>1, <3>2
  <2>6. rem(s) \in D
    BY <1>1, <2>4
  <2>7. Single(rem(s))
    <3> HIDE DEF Single
    <3> QED
      BY <2>5, <2>6
  <2> HIDE DEF R, D, T
  <2>8. PICK u \in V : <<rem(s), u>> \in R /\ \A w \in V : <<rem(s), w>> \in R => w = u
    BY <2>7
  <2>9. <<s, op[<<pick(s), u>>]>> \in R /\ op[<<pick(s), u>>] \in V
    BY <1>3, <1>4, <2>4, <2>8
  <2>10. \A w \in V : <<s, w>> \in R => w = op[<<pick(s), u>>]
    BY <1>6, <2>4, <2>8
  <2> QED
    BY <2>3, <2>9, <2>10
<1>8. \A s \in D : f[s] \in V /\ <<s, f[s]>> \in R
  <2> HIDE DEF R, D
  <2> QED
    BY <1>7
<1>9. f[{}] = base
  <2>1. {} \in D
    OBVIOUS
  <2> HIDE DEF R, D, f
  <2> QED
    BY <1>5, <1>8, <2>1
<1>10. ASSUME NEW s \in D \ {{}} PROVE f[s] = op[<<pick(s), f[rem(s)]>>]
  <2>1. rem(s) \in D
    BY <1>1
  <2> HIDE DEF R, D, f
  <2>2. f[rem(s)] \in V /\ <<rem(s), f[rem(s)]>> \in R
    BY <1>8, <2>1
  <2>3. <<s, op[<<pick(s), f[rem(s)]>>]>> \in R /\ op[<<pick(s), f[rem(s)]>>] \in V
    BY <1>3, <1>4, <2>2
  <2> QED
    BY <1>7, <1>8, <2>3
<1>11. f \in [SUBSET S -> V]
  <2> DEFINE g(s) == CHOOSE v \in V : <<s, v>> \in R
  <2>1. \A s \in SUBSET S : g(s) \in V
    BY <1>8
  <2>2. f = [s \in SUBSET S |-> g(s)]
    OBVIOUS
  <2> HIDE DEF f, g
  <2> QED
    BY <2>1, <2>2
<1> HIDE DEF f
<1>12. \A s \in SUBSET S : f[s] = IF s = {} THEN base
         ELSE op[<<CHOOSE x \in s : TRUE, f[s \ {CHOOSE x \in s : TRUE}]>>]
  BY <1>9, <1>10 DEF pick, rem
<1> QED
  BY <1>11, <1>12 DEF Folding

(* What holds of the base and is kept by the operation holds of the fold.  *)
FoldKeeps(S, op, G) ==
  \A s \in SUBSET S, x \in S : \A v : x \in s /\ v \in G[s \ {x}] => op[<<x, v>>] \in G[s]

LEMMA FoldRule ==
  ASSUME NEW S, IsFiniteSet(S), NEW base, NEW op, NEW f,
         Folding(S, base, op, f),
         NEW G, base \in G[{}], FoldKeeps(S, op, G)
  PROVE  f[S] \in G[S]
<1> DEFINE T == {Cardinality(s) : s \in {x \in SUBSET S : f[x] \notin G[x]}}
<1> SUFFICES ASSUME f[S] \notin G[S] PROVE FALSE
  OBVIOUS
<1>1. T \subseteq Nat /\ T # {}
  <2>1. \A s \in SUBSET S : IsFiniteSet(s)
    BY FS_Subset
  <2>2. \A s \in SUBSET S : Cardinality(s) \in Nat
    BY <2>1, FS_CardinalityType
  <2>3. T \subseteq Nat
    <3> SUFFICES ASSUME NEW y \in T PROVE y \in Nat
      OBVIOUS
    <3>1. PICK s \in SUBSET S : y = Cardinality(s)
      OBVIOUS
    <3> QED
      BY <2>2, <3>1
  <2>4. Cardinality(S) \in T
    OBVIOUS
  <2> QED
    BY <2>3, <2>4
<1>2. PICK n \in T : \A y \in T : n <= y
  <2> HIDE DEF T
  <2> QED
    BY <1>1, LeastElement
<1>3. PICK s \in SUBSET S : f[s] \notin G[s] /\ Cardinality(s) = n
  OBVIOUS
<1>4. s # {}
  <2>1. {} \in SUBSET S
    OBVIOUS
  <2>2. f[{}] = base
    BY <2>1 DEF Folding
  <2> QED
    BY <1>3, <2>2
<1> DEFINE x == CHOOSE y \in s : TRUE
<1>5. x \in s /\ x \in S
  BY <1>4
<1>6. f[s] = op[<<x, f[s \ {x}]>>]
  BY <1>4 DEF Folding
<1> HIDE DEF x
<1>7. f[s \ {x}] \notin G[s \ {x}]
  <2>1. f[s \ {x}] \in G[s \ {x}] => op[<<x, f[s \ {x}]>>] \in G[s]
    BY <1>5 DEF FoldKeeps
  <2> QED
    BY <1>3, <1>6, <2>1
<1>8. Cardinality(s \ {x}) \in T
  BY <1>7
<1>9. IsFiniteSet(s) /\ Cardinality(s \ {x}) = Cardinality(s) - 1
  <2>1. IsFiniteSet(s)
    BY FS_Subset
  <2> QED
    BY <1>5, <2>1, FS_RemoveElement
<1>10. n \in Nat /\ Cardinality(s \ {x}) = n - 1 /\ n <= Cardinality(s \ {x})
  <2> HIDE DEF T
  <2> QED
    BY <1>1, <1>2, <1>3, <1>8, <1>9
<1> HIDE DEF T
<1> QED
  BY <1>10

(* A sum of integers over a finite set is an integer.                      *)
SumOf(w, S) == MapThenSumSet(LAMBDA x : w[x], S)

LEMMA SumIs ==
  ASSUME NEW S, IsFiniteSet(S), NEW w, \A x \in S : w[x] \in Int
  PROVE  SumOf(w, S) \in Int
<1> DEFINE op == [p \in S \X Int |-> w[p[1]] + p[2]]
           f == CHOOSE g : g = [s \in SUBSET S |->
                  IF s = {} THEN 0
                  ELSE LET x == CHOOSE y \in s : TRUE IN w[x] + g[s \ {x}]]
<1>1. SumOf(w, S) = f[S]
  BY DEF SumOf, MapThenSumSet, MapThenFoldSet
<1>2. op \in [S \X Int -> Int] /\ \A x \in S, v \in Int : op[<<x, v>>] = w[x] + v
  OBVIOUS
<1>3. f = [s \in SUBSET S |->
             IF s = {} THEN 0
             ELSE LET x == CHOOSE y \in s : TRUE IN w[x] + f[s \ {x}]]
  <2>1. PICK g \in [SUBSET S -> Int] : Folding(S, 0, op, g)
    <3> DEFINE Z == Int
    <3>1. op \in [S \X Z -> Z] /\ 0 \in Z
      BY <1>2
    <3>2. \E g \in [SUBSET S -> Z] : Folding(S, 0, op, g)
      <4> HIDE DEF op, Z
      <4> QED
        BY <3>1, FoldExists
    <3> QED
      BY <3>2
  <2>2. ASSUME NEW s \in SUBSET S, s # {}
        PROVE  op[<<CHOOSE x \in s : TRUE, g[s \ {CHOOSE x \in s : TRUE}]>>]
                 = w[CHOOSE x \in s : TRUE] + g[s \ {CHOOSE x \in s : TRUE}]
    <3> DEFINE x == CHOOSE y \in s : TRUE
    <3>1. x \in S /\ s \ {x} \in SUBSET S
      BY <2>2
    <3> HIDE DEF x, op
    <3>2. op[<<x, g[s \ {x}]>>] = w[x] + g[s \ {x}]
      BY <1>2, <2>1, <3>1
    <3> QED
      BY <3>2 DEF x
  <2>3. g = [s \in SUBSET S |->
               IF s = {} THEN 0
               ELSE LET x == CHOOSE y \in s : TRUE IN w[x] + g[s \ {x}]]
    <3> HIDE DEF op
    <3>1. \A s \in SUBSET S : g[s] = IF s = {} THEN 0
             ELSE w[CHOOSE x \in s : TRUE] + g[s \ {CHOOSE x \in s : TRUE}]
      BY <2>1, <2>2 DEF Folding
    <3> QED
      BY <2>1, <3>1
  <2> QED
    BY <2>3
<1> HIDE DEF f
<1> DEFINE V2 == Int \cup {f[s] : s \in SUBSET S}
           op2 == [p \in S \X V2 |-> w[p[1]] + p[2]]
           G == [s \in SUBSET S |-> Int]
<1>5. \A x \in S, v \in V2 : op2[<<x, v>>] = w[x] + v
  OBVIOUS
<1>6. Folding(S, 0, op2, f)
  <2> SUFFICES ASSUME NEW s \in SUBSET S
               PROVE  f[s] = IF s = {} THEN 0
                        ELSE op2[<<CHOOSE x \in s : TRUE, f[s \ {CHOOSE x \in s : TRUE}]>>]
    BY DEF Folding
  <2> DEFINE x == CHOOSE y \in s : TRUE
  <2>1. f[s] = IF s = {} THEN 0 ELSE w[x] + f[s \ {x}]
    BY <1>3
  <2>2. s # {} => x \in S /\ f[s \ {x}] \in V2
    OBVIOUS
  <2> HIDE DEF x, V2, op2
  <2>3. f[s] = IF s = {} THEN 0 ELSE op2[<<x, f[s \ {x}]>>]
    BY <1>5, <2>1, <2>2
  <2> QED
    BY <2>3 DEF x
<1>7. FoldKeeps(S, op2, G)
  <2> SUFFICES ASSUME NEW s \in SUBSET S, NEW x \in S, NEW v \in Int
               PROVE  op2[<<x, v>>] \in Int
    BY DEF FoldKeeps
  <2>1. op2[<<x, v>>] = w[x] + v
    BY <1>5
  <2> QED
    BY <2>1
<1>8. 0 \in G[{}]
  OBVIOUS
<1>9. f[S] \in G[S]
  <2> HIDE DEF G, op2
  <2> QED
    BY <1>6, <1>7, <1>8, FoldRule
<1> QED
  BY <1>1, <1>9
-----------------------------------------------------------------------------
\* A[p] is what is in place p.
Partition(A, Names, Things) ==
  /\ \A b \in Things : \E p \in Names : b \in A[p]
  /\ \A p \in Names : A[p] \subseteq Things
  /\ \A p, q \in Names : p # q => A[p] \cap A[q] = {}

\* What goes from one place to another is in one place after it.
LEMMA OneMoves ==
  ASSUME NEW Names, NEW Things, NEW A, NEW B, Partition(A, Names, Things),
         NEW p \in Names, NEW q \in Names, p # q,
         NEW b \in A[p], B[p] = A[p] \ {b}, B[q] = A[q] \cup {b},
         \A r \in Names \ {p, q} : B[r] = A[r]
  PROVE  Partition(B, Names, Things)
<1>1. \A c \in Things : \E r \in Names : c \in B[r]
  <2> SUFFICES ASSUME NEW c \in Things PROVE \E r \in Names : c \in B[r]
    OBVIOUS
  <2>1. PICK r \in Names : c \in A[r]
    BY DEF Partition
  <2>2. CASE c = b
    BY <2>2
  <2>3. CASE c # b
    BY <2>1, <2>3
  <2> QED
    BY <2>2, <2>3
<1>2. \A r \in Names : B[r] \subseteq Things
  BY DEF Partition
<1>3. \A r \in Names \ {p} : b \notin A[r]
  BY DEF Partition
<1>4. \A r \in Names : \A c :
        c \in B[r] => (c = b /\ r = q) \/ (c # b /\ c \in A[r])
  BY <1>3
<1>5. \A r, t \in Names : r # t => B[r] \cap B[t] = {}
  BY <1>4 DEF Partition
<1> QED
  BY <1>1, <1>2, <1>5 DEF Partition

\* Taking the head of a queue, adding at its end, putting on top of a stack.
LEMMA HeadTaken ==
  ASSUME NEW S, NEW q \in Seq(S), q # <<>>, IsInjective(q)
  PROVE  /\ Head(q) = q[1] /\ Head(q) \in ToSet(q) /\ Head(q) \in S
         /\ Tail(q) \in Seq(S) /\ IsInjective(Tail(q))
         /\ ToSet(Tail(q)) = ToSet(q) \ {Head(q)}
<1>1. /\ Len(q) \in Nat \ {0} /\ DOMAIN q = 1 .. Len(q) /\ Head(q) = q[1] /\ q[1] \in S
      /\ Tail(q) \in Seq(S) /\ Len(Tail(q)) = Len(q) - 1
      /\ \A i \in 1 .. Len(Tail(q)) : Tail(q)[i] = q[i + 1]
  OBVIOUS
<1>2. DOMAIN Tail(q) = 1 .. Len(Tail(q))
  BY <1>1
<1>3. IsInjective(Tail(q))
  BY <1>1 DEF IsInjective
<1>4. ToSet(q) = {q[i] : i \in 1 .. Len(q)} /\ ToSet(Tail(q)) = {Tail(q)[i] : i \in 1 .. Len(Tail(q))}
  BY <1>1, <1>2 DEF ToSet
<1>5. Head(q) \in ToSet(q)
  BY <1>1, <1>4
<1>6. ToSet(Tail(q)) \subseteq ToSet(q) \ {Head(q)}
  BY <1>1, <1>4 DEF IsInjective
<1>7. ToSet(q) \ {Head(q)} \subseteq ToSet(Tail(q))
  <2>1. SUFFICES ASSUME NEW i \in 1 .. Len(q), q[i] # Head(q) PROVE q[i] \in ToSet(Tail(q))
    BY <1>4
  <2>2. i - 1 \in 1 .. Len(Tail(q)) /\ Tail(q)[i - 1] = q[i]
    BY <1>1, <2>1
  <2> QED
    BY <1>4, <2>2
<1> QED
  BY <1>1, <1>3, <1>5, <1>6, <1>7

LEMMA EndAdded ==
  ASSUME NEW S, NEW q \in Seq(S), NEW e \in S, IsInjective(q), e \notin ToSet(q)
  PROVE  /\ Append(q, e) \in Seq(S) /\ IsInjective(Append(q, e))
         /\ ToSet(Append(q, e)) = ToSet(q) \cup {e}
<1> DEFINE a == Append(q, e)
<1>1. /\ a \in Seq(S) /\ Len(q) \in Nat /\ Len(a) = Len(q) + 1
      /\ a[Len(a)] = e /\ \A i \in 1 .. Len(q) : a[i] = q[i]
  OBVIOUS
<1>2. DOMAIN q = 1 .. Len(q) /\ DOMAIN a = 1 .. Len(a)
  BY <1>1
<1> HIDE DEF a
<1>3. ToSet(q) = {q[i] : i \in 1 .. Len(q)} /\ ToSet(a) = {a[i] : i \in 1 .. Len(a)}
  BY <1>2 DEF ToSet
<1>4. \A i \in 1 .. Len(a) : i \in 1 .. Len(q) \/ i = Len(a)
  BY <1>1
<1>5. ToSet(a) = ToSet(q) \cup {e}
  <2>1. ToSet(a) \subseteq ToSet(q) \cup {e}
    BY <1>1, <1>3, <1>4
  <2>2. Len(a) \in 1 .. Len(a) /\ \A i \in 1 .. Len(q) : i \in 1 .. Len(a)
    BY <1>1
  <2>3. ToSet(q) \subseteq ToSet(a)
    BY <1>1, <1>3, <2>2
  <2>4. e \in ToSet(a)
    BY <1>1, <1>3, <2>2
  <2> QED
    BY <2>1, <2>3, <2>4
<1>6. \A i \in 1 .. Len(q) : q[i] # e
  BY <1>3
<1>7. IsInjective(a)
  BY <1>1, <1>4, <1>6 DEF IsInjective
<1> QED
  BY <1>1, <1>5, <1>7 DEF a

LEMMA TopAdded ==
  ASSUME NEW S, NEW q \in Seq(S), NEW e \in S, IsInjective(q), e \notin ToSet(q)
  PROVE  /\ <<e>> \o q \in Seq(S) /\ IsInjective(<<e>> \o q)
         /\ ToSet(<<e>> \o q) = ToSet(q) \cup {e}
<1> DEFINE a == <<e>> \o q
<1>1. /\ a \in Seq(S) /\ Len(q) \in Nat /\ Len(a) = Len(q) + 1 /\ a[1] = e
      /\ \A i \in 2 .. Len(a) : a[i] = q[i - 1]
  OBVIOUS
<1>2. DOMAIN q = 1 .. Len(q) /\ DOMAIN a = 1 .. Len(a)
  BY <1>1
<1> HIDE DEF a
<1>3. ToSet(q) = {q[i] : i \in 1 .. Len(q)} /\ ToSet(a) = {a[i] : i \in 1 .. Len(a)}
  BY <1>2 DEF ToSet
<1>4. \A i \in 1 .. Len(a) : i = 1 \/ (i \in 2 .. Len(a) /\ i - 1 \in 1 .. Len(q))
  BY <1>1
<1>5. ToSet(a) = ToSet(q) \cup {e}
  <2>1. ToSet(a) \subseteq ToSet(q) \cup {e}
    <3>1. \A i \in 2 .. Len(a) : a[i] \in ToSet(q)
      BY <1>1, <1>3, <1>4
    <3> QED
      BY <1>1, <1>3, <1>4, <3>1
  <2>2. \A i \in 1 .. Len(q) : i + 1 \in 1 .. Len(a) /\ a[i + 1] = q[i]
    BY <1>1
  <2>3. ToSet(q) \subseteq ToSet(a)
    BY <1>3, <2>2
  <2>4. e \in ToSet(a)
    <3>1. 1 \in 1 .. Len(a)
      BY <1>1
    <3> QED
      BY <1>1, <1>3, <3>1
  <2> QED
    BY <2>1, <2>3, <2>4
<1>6. \A i \in 1 .. Len(q) : q[i] # e
  BY <1>3
<1>7. IsInjective(a)
  <2>1. SUFFICES ASSUME NEW i \in 1 .. Len(a), NEW j \in 1 .. Len(a), a[i] = a[j] PROVE i = j
    BY DEF IsInjective
  <2>2. i \in Int /\ j \in Int
    BY <1>1
  <2>3. CASE i = 1 \/ j = 1
    BY <1>1, <1>4, <1>6, <2>1, <2>3
  <2>4. CASE i # 1 /\ j # 1
    <3>1. i - 1 \in 1 .. Len(q) /\ j - 1 \in 1 .. Len(q) /\ q[i - 1] = q[j - 1]
      BY <1>1, <1>4, <2>1, <2>4
    <3> QED
      BY <2>2, <3>1 DEF IsInjective
  <2> QED
    BY <2>3, <2>4
<1> QED
  BY <1>1, <1>5, <1>7 DEF a
-----------------------------------------------------------------------------
(* Induction, for what is said of the numbers up to n.                     *)
LEMMA UpTo ==
  ASSUME NEW n \in Nat, NEW P, 0 \in P, \A i \in 0 .. n - 1 : i \in P => i + 1 \in P
  PROVE  0 .. n \subseteq P
<1> DEFINE T == {i \in 0 .. n : i \notin P}
<1> SUFFICES ASSUME T # {} PROVE FALSE
  OBVIOUS
<1>1. T \subseteq Nat
  OBVIOUS
<1>2. PICK x \in T : \A y \in T : x <= y
  BY <1>1, LeastElement
<1>3. x # 0 /\ x \in 0 .. n /\ x - 1 \in 0 .. n - 1
  OBVIOUS
<1>4. x - 1 \notin P
  BY <1>3
<1>5. x - 1 \in T
  BY <1>3, <1>4
<1> QED
  BY <1>2, <1>3, <1>5

(* A function on 0 .. n whose values are each made from the one before.    *)
Recursion(n, base, op, f) == f[0] = base /\ \A i \in 1 .. n : f[i] = op[<<i, f[i - 1]>>]

(* There is one such function for every operation.                         *)
LEMMA RecursionExists ==
  ASSUME NEW n \in Nat, NEW V, NEW base \in V, NEW op \in [(1 .. n) \X V -> V]
  PROVE  \E f \in [0 .. n -> V] : Recursion(n, base, op, f)
<1> DEFINE P == {k \in 0 .. n : \E f \in [0 .. k -> V] : Recursion(k, base, op, f)}
<1>1. 0 \in P
  <2> DEFINE f == [i \in 0 .. 0 |-> base]
  <2>1. f \in [0 .. 0 -> V] /\ Recursion(0, base, op, f)
    BY DEF Recursion
  <2> HIDE DEF f
  <2> QED
    BY <2>1
<1>2. ASSUME NEW k \in 0 .. n - 1, k \in P PROVE k + 1 \in P
  <2>1. PICK f \in [0 .. k -> V] : Recursion(k, base, op, f)
    BY <1>2
  <2> DEFINE g == [i \in 0 .. k + 1 |-> IF i = k + 1 THEN op[<<k + 1, f[k]>>] ELSE f[i]]
  <2>2. k + 1 \in 1 .. n /\ k \in 0 .. k /\ k + 1 \in 0 .. n
    OBVIOUS
  <2>3. op[<<k + 1, f[k]>>] \in V
    BY <2>2
  <2>4. g \in [0 .. k + 1 -> V]
    BY <2>3
  <2>5. g[0] = base
    BY <2>1 DEF Recursion
  <2>6. /\ \A i \in 0 .. k : g[i] = f[i]
        /\ g[k + 1] = op[<<k + 1, f[k]>>]
    OBVIOUS
  <2> HIDE DEF g, P
  <2>8. ASSUME NEW i \in 1 .. k + 1 PROVE g[i] = op[<<i, g[i - 1]>>]
    <3>1. i - 1 \in 0 .. k /\ k + 1 - 1 = k /\ (i = k + 1 \/ (i \in 1 .. k /\ i \in 0 .. k))
      OBVIOUS
    <3>2. g[i - 1] = f[i - 1]
      BY <2>6, <3>1
    <3>3. CASE i = k + 1
      BY <2>6, <3>1, <3>2, <3>3
    <3>4. CASE i \in 1 .. k /\ i \in 0 .. k
      <4>1. f[i] = op[<<i, f[i - 1]>>]
        BY <2>1, <3>4 DEF Recursion
      <4> QED
        BY <2>6, <3>2, <3>4, <4>1
    <3> QED
      BY <3>1, <3>3, <3>4
  <2>7. Recursion(k + 1, base, op, g)
    BY <2>5, <2>8 DEF Recursion
  <2> QED
    BY <2>2, <2>4, <2>7 DEF P
<1> HIDE DEF P
<1>3. 0 .. n \subseteq P
  BY <1>1, <1>2, UpTo
<1>4. n \in P
  BY <1>3
<1> QED
  BY <1>4 DEF P

(* A finite set of numbers can be listed in increasing order.              *)
LEMMA IncreasingExists ==
  ASSUME NEW S, IsFiniteSet(S), S \subseteq Int
  PROVE  /\ Cardinality(S) \in Nat
         /\ \E s \in [1 .. Cardinality(S) -> S] : \A i, j \in DOMAIN s : i < j => s[i] < s[j]
<1> DEFINE Up(A) == \E s \in [1 .. Cardinality(A) -> A] : \A i, j \in 1 .. Cardinality(A) : i < j => s[i] < s[j]
           n == Cardinality(S)
           P == {k \in 0 .. n : \A A \in SUBSET S : Cardinality(A) = k => Up(A)}
<1>1. n \in Nat /\ \A A \in SUBSET S : IsFiniteSet(A) /\ Cardinality(A) \in Nat
  BY FS_CardinalityType, FS_Subset
<1>2. 0 \in P
  <2>1. ASSUME NEW A \in SUBSET S, Cardinality(A) = 0 PROVE Up(A)
    <3> DEFINE s == [i \in {} |-> 0]
    <3>1. s \in [{} -> A] /\ 1 .. 0 = {}
      OBVIOUS
    <3> HIDE DEF s
    <3> QED
      BY <2>1, <3>1
  <2> HIDE DEF Up
  <2> QED
    BY <1>1, <2>1
<1>3. ASSUME NEW k \in 0 .. n - 1, k \in P PROVE k + 1 \in P
  <2>1. ASSUME NEW A \in SUBSET S, Cardinality(A) = k + 1 PROVE Up(A)
    <3>1. IsFiniteSet(A) /\ A # {} /\ A \in SUBSET Int
      BY <1>1, <2>1, FS_EmptySet
    <3>2. PICK x \in A : \A y \in A : x >= y
      BY <3>1, MaxIs
    <3>3. IsFiniteSet(A \ {x}) /\ Cardinality(A \ {x}) = k
      <4>1. IsFiniteSet(A \ {x}) /\ Cardinality(A \ {x}) = Cardinality(A) - 1
        BY <3>1, <3>2, FS_RemoveElement
      <4> QED
        BY <1>1, <2>1, <4>1
    <3>4. A \ {x} \in SUBSET S
      OBVIOUS
    <3>5. Up(A \ {x})
      <4> HIDE DEF Up
      <4> QED
        BY <1>3, <3>3, <3>4
    <3>6. PICK s \in [1 .. k -> A \ {x}] : \A i, j \in 1 .. k : i < j => s[i] < s[j]
      BY <3>3, <3>5
    <3> DEFINE t == [i \in 1 .. k + 1 |-> IF i = k + 1 THEN x ELSE s[i]]
    <3>7. t \in [1 .. k + 1 -> A]
      OBVIOUS
    <3>8. ASSUME NEW i \in 1 .. k + 1, NEW j \in 1 .. k + 1, i < j PROVE t[i] < t[j]
      <4>1. i \in 1 .. k /\ t[i] = s[i] /\ s[i] \in A \ {x}
        BY <3>8
      <4>2. CASE j = k + 1
        <5>1. t[j] = x /\ s[i] # x /\ x >= s[i] /\ s[i] \in Int /\ x \in Int
          BY <3>1, <3>2, <4>1, <4>2
        <5> QED
          BY <4>1, <5>1
      <4>3. CASE j # k + 1
        <5>1. j \in 1 .. k /\ t[j] = s[j]
          BY <4>3
        <5> QED
          BY <3>6, <3>8, <4>1, <5>1
      <4> QED
        BY <4>2, <4>3
    <3> HIDE DEF t
    <3> QED
      BY <2>1, <3>7, <3>8
  <2> HIDE DEF Up
  <2> QED
    BY <1>1, <2>1
<1> HIDE DEF P, Up
<1>4. 0 .. n \subseteq P
  BY <1>1, <1>2, <1>3, UpTo
<1>5. Up(S)
  BY <1>1, <1>4 DEF P
<1> QED
  BY <1>1, <1>5 DEF Up
=============================================================================
