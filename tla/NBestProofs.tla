---------------------------- MODULE NBestProofs -----------------------------
(***************************************************************************)
(* An NBest keeps the best classes of values, for any values, any size and *)
(* any merge that keeps the class and the better score.  There is a lemma  *)
(* for each of the three outcomes of InsertAvailable and one for MayMakeIt *)
(* that says no; what they rely on is that the values of a full beam have  *)
(* a lowest one.                                                           *)
(*                                                                         *)
(* The second part is about the decoder, whose three beams hold what they  *)
(* were offered: its list of sentences is in order and has no path twice.  *)
(***************************************************************************)
EXTENDS NBestCalls, Decoder, Facts

(* The inductive invariant.  Each part needs the others: that KeepsTheBest *)
(* survives when a value is dropped needs the heap to hold the slots in    *)
(* use, and the type of beam.value is about the slots in use as well.      *)
IInv == BeamOK /\ SlotsConsistent /\ KeepsTheBest

\* Some slot of a non-empty set has the lowest score: by the least k such
\* that the slots up to k have none.
LEMMA BottomExists ==
  ASSUME NEW n \in Nat, NEW S \in SUBSET (0 .. n), S # {},
         NEW value, \A s \in S : value[s].score \in Int
  PROVE  Bottoms(value, S) # {}
<1> DEFINE Upto(k) == S \cap (0 .. k)
           T == {k \in 0 .. n : Upto(k) # {} /\ Bottoms(value, Upto(k)) = {}}
<1>1. SUFFICES ASSUME Bottoms(value, S) = {}
               PROVE  FALSE
  OBVIOUS
<1>2. Upto(n) = S
  OBVIOUS
<1>3. n \in T
  BY <1>1, <1>2
<1>4. PICK k \in T : \A j \in T : k <= j
  <2>1. T \subseteq Nat
    OBVIOUS
  <2>2. T # {}
    BY <1>3
  <2>3. QED
    BY <2>1, <2>2, LeastElement
<1>5. k \in 0 .. n /\ Upto(k) # {} /\ Bottoms(value, Upto(k)) = {}
  BY <1>4
<1>6. CASE k \notin S
  <2>1. Upto(k) = Upto(k - 1) /\ k # 0
    BY <1>5, <1>6
  <2>2. k - 1 \in 0 .. n
    BY <1>5, <2>1
  <2>3. Upto(k - 1) # {} /\ Bottoms(value, Upto(k - 1)) = {}
    BY <1>5, <2>1
  <2>4. k - 1 \in T
    BY <2>2, <2>3
  <2>5. QED
    BY <1>4, <1>5, <2>4
<1>7. CASE k \in S /\ Upto(k - 1) = {}
  <2>1. Upto(k) = {k}
    BY <1>5, <1>7
  <2>2. k \in Bottoms(value, Upto(k))
    BY <1>7, <2>1 DEF Bottoms
  <2>3. QED
    BY <1>5, <2>2
<1>8. CASE k \in S /\ Upto(k - 1) # {}
  <2>1. k - 1 \in 0 .. n /\ k - 1 \notin T
    BY <1>4, <1>5, <1>8
  <2>2. PICK s \in Upto(k - 1) : \A t \in Upto(k - 1) : value[s].score <= value[t].score
    BY <1>8, <2>1 DEF Bottoms
  <2>3. Upto(k) = Upto(k - 1) \cup {k}
    BY <1>5, <1>8
  <2>4. \A t \in Upto(k) : value[t].score \in Int
    OBVIOUS
  <2>5. CASE value[s].score <= value[k].score
    <3>1. s \in Bottoms(value, Upto(k))
      BY <2>2, <2>3, <2>5 DEF Bottoms
    <3>2. QED
      BY <1>5, <3>1
  <2>6. CASE value[k].score < value[s].score
    <3>1. k \in Bottoms(value, Upto(k))
      BY <2>2, <2>3, <2>4, <2>6 DEF Bottoms
    <3>2. QED
      BY <1>5, <3>1
  <2>7. QED
    BY <2>2, <2>3, <2>4, <2>5, <2>6
<1>9. QED
  BY <1>6, <1>7, <1>8

\* The fields of a beam, and what is known of them.
LEMMA BeamFields ==
  ASSUME IInv
  PROVE  /\ beam.max = MaxSize /\ beam.size \in 0 .. MaxSize
         /\ beam.available \in 0 .. beam.size
         /\ beam.dupe = Occupied(beam)
         /\ beam.value \in [Occupied(beam) -> Items]
         /\ \A s \in Occupied(beam) : beam.value[s] \in Items /\ beam.value[s].score \in Int
         /\ offered \subseteq Items
         /\ MaxSize \in Nat \ {0}
<1>1. /\ beam.max = MaxSize /\ beam.size \in 0 .. MaxSize
      /\ beam.available \in 0 .. MaxSize /\ beam.available <= beam.size
      /\ beam.dupe = Occupied(beam)
      /\ beam.value \in [Occupied(beam) -> Items]
      /\ offered \subseteq Items
  BY DEF IInv, BeamOK, SlotsConsistent
<1>2. /\ \A x \in Items : x.score \in Int
      /\ MaxSize \in Nat \ {0}
  BY NBestAssumption
<1>3. QED
  BY <1>1, <1>2

\* A duplicate is merged: the class is there already, its score may rise.
LEMMA MergeKeeps ==
  ASSUME IInv, NEW x \in Items, beam' \in MergeDuplicate(beam, x),
         offered' = offered \cup {x}
  PROVE  IInv'
<1>1. PICK s \in Duplicates(beam, x) : \E m \in Merges(beam.value[s], x) :
        beam' = [beam EXCEPT !.value = [@ EXCEPT ![s] = m]]
  BY DEF MergeDuplicate
<1>2. PICK m \in Merges(beam.value[s], x) :
        beam' = [beam EXCEPT !.value = [@ EXCEPT ![s] = m]]
  BY <1>1
<1> DEFINE v == beam.value
           w == beam'.value
<1>3. s \in Occupied(beam) /\ v[s].key = x.key /\ v[s] \in Items
  BY BeamFields DEF Duplicates
<1>4. /\ m \in Items /\ m.key = x.key
      /\ m.score = IF v[s].score < x.score THEN x.score ELSE v[s].score
  <2>1. PICK y \in Items : y = v[s]
    BY <1>3
  <2>2. y.key = x.key /\ m \in Merges(y, x)
    BY <1>2, <1>3, <2>1
  <2>3. m \in Items /\ m.key = y.key /\ m.score = IF y.score < x.score THEN x.score ELSE y.score
    BY <2>2, NBestAssumption
  <2>4. QED
    BY <2>1, <2>2, <2>3
<1>5. /\ beam'.max = beam.max /\ beam'.size = beam.size
      /\ beam'.available = beam.available
      /\ beam'.dupe = beam.dupe /\ beam'.dropper = beam.dropper
      /\ w = [v EXCEPT ![s] = m]
      /\ beam' = [max |-> beam.max, size |-> beam.size, available |-> beam.available,
                  value |-> w, dupe |-> beam.dupe, dropper |-> beam.dropper]
  BY <1>2 DEF IInv, BeamOK
<1>6. Occupied(beam)' = Occupied(beam) /\ (Full(beam)' <=> Full(beam))
  BY <1>5 DEF Occupied, Full
<1>7. /\ w \in [Occupied(beam) -> Items] /\ w[s] = m
      /\ \A t \in Occupied(beam) : t # s => w[t] = v[t]
  BY <1>3, <1>4, <1>5, BeamFields
<1>8. \A t \in Occupied(beam) :
        /\ w[t].key = v[t].key /\ v[t].score <= w[t].score
        /\ v[t].score \in Int /\ w[t].score \in Int
  <2>1. x.score \in Int /\ \A t \in Occupied(beam) : v[t].score \in Int
    BY BeamFields, NBestAssumption
  <2>2. \A t \in Occupied(beam) : t = s \/ w[t] = v[t]
    BY <1>7
  <2>3. w[s].key = v[s].key /\ v[s].score <= w[s].score /\ w[s].score \in Int
    BY <1>3, <1>4, <1>7, <2>1
  <2>4. QED
    BY <2>1, <2>2, <2>3
<1>9. BeamOK'
  BY <1>5, <1>6, <1>7 DEF IInv, BeamOK
<1>10. SlotsConsistent'
  BY <1>5, <1>6, <1>8 DEF IInv, SlotsConsistent
<1>11. KeepsTheBest'
  <2>1. ASSUME NEW t \in Occupied(beam)
        PROVE  \E y \in offered' : y.key = w[t].key /\ y.score = w[t].score
    <3>1. PICK y \in offered : y.key = v[t].key /\ y.score = v[t].score
      BY DEF IInv, KeepsTheBest
    <3>2. CASE w[t].score = v[t].score
      BY <1>8, <3>1, <3>2
    <3>3. CASE t = s /\ w[t].score = x.score
      BY <1>4, <1>7, <3>3
    <3>4. QED
      BY <1>4, <1>7, <3>2, <3>3
  <2>2. ASSUME NEW y \in offered', NEW t \in Occupied(beam), y.key = w[t].key
        PROVE  y.score <= w[t].score
    <3>1. CASE y \in offered
      <4>1. y.score <= v[t].score
        BY <1>8, <2>2, <3>1 DEF IInv, KeepsTheBest
      <4>2. y.score \in Int
        BY <3>1, BeamFields, NBestAssumption
      <4>3. QED
        BY <1>8, <4>1, <4>2
    <3>2. CASE y = x
      <4>1. t = s
        BY <1>3, <1>8, <2>2, <3>2 DEF IInv, SlotsConsistent
      <4>2. w[t] = m /\ x.score \in Int /\ v[s].score \in Int
        BY <1>3, <1>7, <4>1, NBestAssumption
      <4>3. QED
        BY <1>4, <3>2, <4>2
    <3>3. QED
      BY <3>1, <3>2
  <2>3. ASSUME NEW y \in offered', \A t \in Occupied(beam) : y.key # w[t].key
        PROVE  Full(beam) /\ \A t \in Occupied(beam) : y.score <= w[t].score
    <3>1. y \in offered /\ \A t \in Occupied(beam) : y.key # v[t].key
      BY <1>3, <1>8, <2>3
    <3>2. Full(beam) /\ \A t \in Occupied(beam) : y.score <= v[t].score
      BY <3>1 DEF IInv, KeepsTheBest
    <3>3. y.score \in Int
      BY <3>1, BeamFields, NBestAssumption
    <3>4. QED
      BY <1>8, <3>2, <3>3
  <2>4. QED
    BY <1>6, <2>1, <2>2, <2>3 DEF KeepsTheBest
<1>12. QED
  BY <1>9, <1>10, <1>11 DEF IInv

\* There is room: the class is new, and all that was offered is still there.
LEMMA UseKeeps ==
  ASSUME IInv, NEW x \in Items, Duplicates(beam, x) = {}, ~Full(beam),
         beam' = UseAvailable(beam, x), offered' = offered \cup {x}
  PROVE  IInv'
<1> DEFINE a == beam.available
           v == beam.value
           w == beam'.value
<1>1. a = beam.size /\ beam.size < MaxSize /\ beam.dropper = {}
      /\ Occupied(beam) = 0 .. a - 1
  BY BeamFields DEF IInv, SlotsConsistent, Full, Occupied
<1>2. /\ beam'.max = MaxSize /\ beam'.size = a + 1 /\ beam'.available = a + 1
      /\ w = Set(beam, x) /\ beam'.dupe = beam.dupe \cup {a}
      /\ beam'.dropper = IF Full(beam') THEN Occupied(beam') ELSE {}
      /\ beam' = [max |-> MaxSize, size |-> a + 1, available |-> a + 1, value |-> w,
                  dupe |-> beam'.dupe, dropper |-> beam'.dropper]
  BY <1>1, BeamFields DEF UseAvailable, IInv, BeamOK, Full, Occupied
<1>3. Occupied(beam') = 0 .. a /\ Occupied(beam') = Occupied(beam) \cup {a}
  BY <1>1, <1>2, BeamFields DEF Occupied
<1>4. /\ w \in [Occupied(beam') -> Items] /\ w[a] = x
      /\ \A t \in Occupied(beam) : w[t] = v[t]
  BY <1>1, <1>2, <1>3, BeamFields DEF Set
<1>5. \A t \in Occupied(beam) : v[t].key # x.key
  BY BeamFields DEF Duplicates
<1>6. BeamOK'
  <2>1. beam'.dupe \subseteq 0 .. MaxSize /\ beam'.dropper \subseteq 0 .. MaxSize
    BY <1>1, <1>2, <1>3, BeamFields
  <2>2. a + 1 \in 0 .. MaxSize /\ offered' \subseteq Items
    BY <1>1, BeamFields
  <2>3. QED
    BY <1>2, <1>4, <2>1, <2>2 DEF BeamOK
<1>7. SlotsConsistent'
  <2>1. \A s, t \in Occupied(beam') : w[s].key = w[t].key => s = t
    BY <1>3, <1>4, <1>5 DEF IInv, SlotsConsistent
  <2>2. QED
    BY <1>1, <1>2, <1>3, <2>1, BeamFields DEF SlotsConsistent, Full
<1>8. KeepsTheBest'
  <2>1. \A y \in offered : \E t \in Occupied(beam) : y.key = v[t].key
    BY DEF IInv, KeepsTheBest
  <2>2. \A t \in Occupied(beam') : \E y \in offered' :
          y.key = w[t].key /\ y.score = w[t].score
    BY <1>3, <1>4 DEF IInv, KeepsTheBest
  <2>3. ASSUME NEW y \in offered', NEW t \in Occupied(beam'), y.key = w[t].key
        PROVE  y.score <= w[t].score
    <3>1. CASE t = a
      <4>1. y = x
        BY <1>4, <1>5, <2>1, <2>3, <3>1
      <4>2. QED
        BY <1>4, <3>1, <4>1, NBestAssumption
    <3>2. CASE t \in Occupied(beam)
      <4>1. y \in offered
        BY <1>4, <1>5, <2>3, <3>2
      <4>2. QED
        BY <1>4, <2>3, <3>2, <4>1 DEF IInv, KeepsTheBest
    <3>3. QED
      BY <1>3, <3>1, <3>2
  <2>4. \A y \in offered' : \E t \in Occupied(beam') : y.key = w[t].key
    BY <1>3, <1>4, <2>1
  <2>5. QED
    BY <2>2, <2>3, <2>4 DEF KeepsTheBest
<1>9. QED
  BY <1>6, <1>7, <1>8 DEF IInv

\* The beam is full: the lowest of its values and the new one goes.
LEMMA ReplaceKeeps ==
  ASSUME IInv, NEW x \in Items, Duplicates(beam, x) = {}, Full(beam),
         beam' \in ReplaceAvailable(beam, x), offered' = offered \cup {x}
  PROVE  IInv'
<1> DEFINE a == beam.available
           v == beam.value
           u == Set(beam, x)
           D == 0 .. MaxSize
           w == beam'.value
<1>1. /\ beam.size = MaxSize /\ a \in D /\ MaxSize \in Nat
      /\ Occupied(beam) = D \ {a} /\ beam.dropper = D \ {a} /\ beam.dupe = D \ {a}
  BY BeamFields DEF IInv, SlotsConsistent, Full, Occupied
<1>2. /\ u \in [D -> Items] /\ u[a] = x
      /\ \A t \in D \ {a} : u[t] = v[t]
  BY <1>1, BeamFields DEF Set
<1>3. PICK s \in D : /\ \A t \in D : u[s].score <= u[t].score
                     /\ beam' = [beam EXCEPT !.available = s,
                                   !.value = [t \in (DOMAIN @ \cup {a}) \ {s} |-> u[t]],
                                   !.dupe = (@ \cup {a}) \ {s},
                                   !.dropper = (@ \cup {a}) \ {s}]
  BY <1>1 DEF ReplaceAvailable, Bottoms
<1>4. /\ beam'.max = MaxSize /\ beam'.size = MaxSize /\ beam'.available = s
      /\ beam'.dupe = D \ {s} /\ beam'.dropper = D \ {s}
      /\ w = [t \in D \ {s} |-> u[t]]
      /\ beam' = [max |-> MaxSize, size |-> MaxSize, available |-> s,
                  value |-> w, dupe |-> D \ {s}, dropper |-> D \ {s}]
  <2>1. DOMAIN v = D \ {a}
    BY <1>1, BeamFields
  <2>2. (D \ {a}) \cup {a} = D
    BY <1>1
  <2>3. QED
    BY <1>1, <1>3, <2>1, <2>2, BeamFields DEF IInv, BeamOK
<1>5. Occupied(beam') = D \ {s} /\ Full(beam')
  BY <1>4 DEF Occupied, Full
<1>6. /\ w \in [D \ {s} -> Items]
      /\ \A t \in D \ {s} : w[t] = u[t]
  BY <1>2, <1>4
<1>7. \A t \in D : u[t].score \in Int
  BY <1>2, NBestAssumption
<1>8. \A t \in D \ {a} : u[t].key # x.key
  BY <1>1, <1>2 DEF Duplicates
<1>9. BeamOK'
  BY <1>1, <1>4, <1>5, <1>6, BeamFields DEF BeamOK
<1>10. SlotsConsistent'
  <2>1. \A t, r \in D : u[t].key = u[r].key => t = r
    BY <1>1, <1>2, <1>8 DEF IInv, SlotsConsistent
  <2>2. QED
    BY <1>1, <1>4, <1>5, <1>6, <2>1 DEF SlotsConsistent
<1>11. KeepsTheBest'
  <2>1. \A t \in D : \E y \in offered' : y.key = u[t].key /\ y.score = u[t].score
    BY <1>1, <1>2 DEF IInv, KeepsTheBest
  <2>2. ASSUME NEW y \in offered, \A r \in D \ {a} : y.key # u[r].key
        PROVE  \A r \in D \ {a} : y.score <= u[r].score
    BY <1>1, <1>2, <2>2 DEF IInv, KeepsTheBest
  <2>3. \A y \in offered' : y.score \in Int
    BY BeamFields, NBestAssumption
  <2>4. ASSUME NEW y \in offered', NEW t \in D \ {s}, y.key = u[t].key
        PROVE  y.score <= u[t].score
    <3>1. CASE y \in offered /\ t # a
      BY <1>1, <1>2, <2>4, <3>1 DEF IInv, KeepsTheBest
    <3>2. CASE y = x
      <4>1. t = a
        BY <1>8, <2>4, <3>2
      <4>2. QED
        BY <1>2, <2>3, <3>2, <4>1
    <3>3. CASE y \in offered /\ t = a
      <4>1. s \in D \ {a} /\ \A r \in D \ {a} : y.key # u[r].key
        BY <1>1, <1>2, <1>8, <2>4, <3>3
      <4>2. y.score <= u[s].score
        BY <2>2, <3>3, <4>1
      <4>3. QED
        BY <1>3, <1>7, <2>3, <4>2
    <3>4. QED
      BY <1>1, <3>1, <3>2, <3>3
  <2>5. ASSUME NEW y \in offered', \A t \in D \ {s} : y.key # u[t].key
        PROVE  \A t \in D \ {s} : y.score <= u[t].score
    <3>1. CASE y = x
      <4>1. s = a
        BY <1>1, <1>2, <2>5, <3>1
      <4>2. QED
        BY <1>2, <1>3, <3>1, <4>1
    <3>2. CASE y \in offered /\ \E r \in D \ {a} : y.key = u[r].key
      <4>1. s \in D \ {a} /\ y.key = u[s].key
        BY <2>5, <3>2
      <4>2. y.score <= u[s].score
        BY <1>1, <1>2, <3>2, <4>1 DEF IInv, KeepsTheBest
      <4>3. QED
        BY <1>3, <1>7, <2>3, <4>2
    <3>3. CASE y \in offered /\ \A r \in D \ {a} : y.key # u[r].key
      <4>1. \A r \in D \ {a} : y.score <= u[r].score
        BY <2>2, <3>3
      <4>2. CASE s = a
        BY <4>1, <4>2
      <4>3. CASE s # a
        <5>1. y.score <= u[s].score
          BY <4>1, <4>3
        <5>2. QED
          BY <1>3, <1>7, <2>3, <5>1
      <4>4. QED
        BY <4>2, <4>3
    <3>4. QED
      BY <3>1, <3>2, <3>3
  <2>6. QED
    BY <1>5, <1>6, <2>1, <2>4, <2>5 DEF KeepsTheBest
<1>12. QED
  BY <1>9, <1>10, <1>11 DEF IInv

\* MayMakeIt says no: every value of the beam scores at least as high.
LEMMA RejectKeeps ==
  ASSUME IInv, NEW x \in Items, Reject(x)
  PROVE  IInv'
<1> DEFINE v == beam.value
           O == Occupied(beam)
<1>1. /\ Full(beam) /\ O \in SUBSET (0 .. MaxSize) /\ beam.dropper = O
      /\ MaxSize \in Nat /\ O # {}
  <2>1. Full(beam)
    BY DEF Reject, MayMakeIt
  <2>2. MaxSize \in Nat \ {0} /\ beam.size = MaxSize /\ beam.available \in 0 .. MaxSize
    BY <2>1, BeamFields DEF Full
  <2>3. O = (0 .. MaxSize) \ {beam.available}
    BY <2>2 DEF Occupied
  <2>4. 0 \in O \/ 1 \in O
    BY <2>2, <2>3
  <2>5. QED
    BY <2>1, <2>2, <2>3, <2>4 DEF IInv, SlotsConsistent
<1>2. \A s \in O : v[s].score \in Int
  BY BeamFields
<1>3. PICK s \in Bottoms(v, O) : TRUE
  BY <1>1, <1>2, BottomExists
<1>4. s \in O /\ \A t \in O : v[s].score <= v[t].score
  BY <1>3 DEF Bottoms
<1>5. x.score \in Int /\ ~ (v[s].score < x.score)
  BY <1>1, <1>3, NBestAssumption DEF Reject, MayMakeIt
<1>6. \A t \in O : x.score <= v[t].score
  BY <1>2, <1>4, <1>5
<1>7. beam' = beam /\ offered' = offered \cup {x}
  BY DEF Reject
<1>8. BeamOK' /\ SlotsConsistent'
  BY <1>7 DEF IInv, BeamOK, SlotsConsistent, Occupied, Full
<1>9. KeepsTheBest'
  BY <1>1, <1>6, <1>7 DEF IInv, KeepsTheBest, Occupied, Full
<1>10. QED
  BY <1>8, <1>9 DEF IInv

(* What an NBest promises to the decoder holds in every history of calls.  *)
THEOREM Invariance == BeamSpec => []IInv
<1>1. BeamInit => IInv
  <2>1. SUFFICES ASSUME BeamInit
                 PROVE  IInv
    OBVIOUS
  <2>2. /\ beam = [max |-> MaxSize, size |-> 0, available |-> 0,
                   value |-> <<>>, dupe |-> {}, dropper |-> {}]
        /\ offered = {} /\ MaxSize \in Nat \ {0}
    BY <2>1, NBestAssumption DEF BeamInit, Reset
  <2>3. Occupied(beam) = {} /\ ~Full(beam)
    BY <2>2 DEF Occupied, Full
  <2>4. BeamOK
    <3>1. <<>> \in [Occupied(beam) -> Items]
      BY <2>3
    <3>2. 0 \in 0 .. MaxSize /\ {} \in SUBSET (0 .. MaxSize)
      BY <2>2
    <3>3. QED
      BY <2>2, <3>1, <3>2 DEF BeamOK
  <2>5. SlotsConsistent
    <3>1. /\ beam.available = 0 /\ beam.size = 0
          /\ beam.dupe = {} /\ beam.dropper = {}
      BY <2>2
    <3>2. QED
      BY <2>3, <3>1 DEF SlotsConsistent
  <2>6. KeepsTheBest
    BY <2>2, <2>3 DEF KeepsTheBest
  <2>7. QED
    BY <2>4, <2>5, <2>6 DEF IInv
<1>2. IInv /\ [BeamNext]_beamVars => IInv'
  <2>1. SUFFICES ASSUME IInv, [BeamNext]_beamVars
                 PROVE  IInv'
    OBVIOUS
  <2>2. ASSUME NEW x \in Items, Insert(x)
        PROVE  IInv'
    <3>1. beam' \in InsertAvailable(beam, x) /\ offered' = offered \cup {x}
      BY <2>2 DEF Insert
    <3>2. CASE Duplicates(beam, x) # {}
      BY <2>1, <3>1, <3>2, MergeKeeps DEF InsertAvailable
    <3>3. CASE Duplicates(beam, x) = {} /\ Full(beam)
      BY <2>1, <3>1, <3>3, ReplaceKeeps DEF InsertAvailable
    <3>4. CASE Duplicates(beam, x) = {} /\ ~Full(beam)
      BY <2>1, <3>1, <3>4, UseKeeps DEF InsertAvailable
    <3>5. QED
      BY <3>2, <3>3, <3>4
  <2>3. ASSUME NEW x \in Items, Reject(x)
        PROVE  IInv'
    BY <2>1, <2>3, RejectKeeps
  <2>4. CASE UNCHANGED beamVars
    BY <2>1, <2>4 DEF beamVars, IInv, BeamOK, SlotsConsistent, KeepsTheBest, Occupied, Full
  <2>5. QED
    BY <2>1, <2>2, <2>3, <2>4 DEF BeamNext
<1>3. QED
  BY <1>1, <1>2, PTL DEF BeamSpec

(* The fields of a beam keep their ranges.                                 *)
THEOREM TypeCorrect == BeamSpec => []BeamOK
<1>1. IInv => BeamOK
  BY DEF IInv
<1>2. QED
  BY <1>1, Invariance, PTL

(* The hash table and the heap hold the slots in use, for any size.        *)
THEOREM SlotsStayConsistent == BeamSpec => []SlotsConsistent
<1>1. IInv => SlotsConsistent
  BY DEF IInv
<1>2. QED
  BY <1>1, Invariance, PTL

(* The beam is the best k classes of what was offered, for any size, order *)
(* of calls, values, and ties.                                             *)
THEOREM BestAreKept == BeamSpec => []KeepsTheBest
<1>1. IInv => KeepsTheBest
  BY DEF IInv
<1>2. QED
  BY <1>1, Invariance, PTL
-----------------------------------------------------------------------------
\* What the decoder needs of a beam: its slots, those of the hash table and of
\* the heap among the slots in use. A beam keeps filling its slots until it is full.
BeamFine(b) ==
  /\ b = [max |-> b.max, size |-> b.size, available |-> b.available,
          value |-> b.value, dupe |-> b.dupe, dropper |-> b.dropper]
  /\ b.size \in Nat /\ b.available \in 0 .. b.size
  /\ DOMAIN b.value = Occupied(b)
  /\ b.dupe \subseteq Occupied(b) /\ b.dropper \subseteq Occupied(b)
  /\ ~Full(b) => b.available = b.size

\* An empty beam.
LEMMA ResetFine ==
  ASSUME NEW max
  PROVE  BeamFine(Reset(max)) /\ Values(Reset(max)) = {} /\ Reset(max).size = 0 /\ Reset(max).available = 0
BY DEF Reset, BeamFine, Occupied, Values, Full

\* UseAvailable puts the value in.
LEMMA UseFine ==
  ASSUME NEW b, NEW x, BeamFine(b), b.available = b.size, NEW c, c = UseAvailable(b, x)
  PROVE  BeamFine(c) /\ c.size = b.size + 1 /\ Values(c) \subseteq Values(b) \cup {x}
<1> DEFINE n == b.size
<1>1. n \in Nat /\ Occupied(b) = 0 .. n - 1 /\ DOMAIN b.value = 0 .. n - 1
      /\ b.dupe \subseteq 0 .. n - 1 /\ b.dropper \subseteq 0 .. n - 1
  BY DEF BeamFine, Occupied
<1>2. PICK d : c = [max |-> b.max, size |-> n + 1, available |-> n + 1, value |-> Set(b, x),
                    dupe |-> b.dupe \cup {n}, dropper |-> d]
               /\ (d = (0 .. n + 1) \ {n + 1} \/ d = b.dropper)
  <2>1. b = [max |-> b.max, size |-> b.size, available |-> b.available,
          value |-> b.value, dupe |-> b.dupe, dropper |-> b.dropper]
    BY DEF BeamFine
  <2> QED
    BY <1>1, <2>1 DEF UseAvailable, Occupied
<1>3. Set(b, x) = [s \in 0 .. n |-> IF s = n THEN x ELSE b.value[s]]
  BY <1>1 DEF Set
<1>4. c.size = n + 1 /\ c.available = n + 1 /\ c.value = Set(b, x)
      /\ c.dupe = b.dupe \cup {n} /\ c.dropper = d
  BY <1>2
<1>5. Occupied(c) = 0 .. n
  BY <1>1, <1>4 DEF Occupied
<1>6. BeamFine(c)
  <2>1. d \subseteq 0 .. n /\ DOMAIN Set(b, x) = 0 .. n /\ b.dupe \cup {n} \subseteq 0 .. n
    BY <1>1, <1>2, <1>3
  <2>2. c = [max |-> c.max, size |-> c.size, available |-> c.available,
             value |-> c.value, dupe |-> c.dupe, dropper |-> c.dropper]
    BY <1>2
  <2>3. c.size \in Nat /\ c.available \in 0 .. c.size /\ c.available = c.size
    BY <1>1, <1>4
  <2> QED
    BY <1>4, <1>5, <2>1, <2>2, <2>3 DEF BeamFine
<1>7. Values(c) \subseteq Values(b) \cup {x}
  BY <1>1, <1>3, <1>4, <1>5 DEF Values
<1> QED
  BY <1>4, <1>6, <1>7

\* ReplaceAvailable puts the value in and takes one out.
LEMMA ReplaceFine ==
  ASSUME NEW b, NEW x, BeamFine(b), Full(b), NEW c \in ReplaceAvailable(b, x)
  PROVE  BeamFine(c) /\ c.size = b.size /\ Values(c) \subseteq Values(b) \cup {x}
<1> DEFINE n == b.size
           a == b.available
<1>1. n \in Nat /\ a \in 0 .. n /\ DOMAIN b.value = (0 .. n) \ {a} /\ Occupied(b) = (0 .. n) \ {a}
      /\ b.dupe \subseteq (0 .. n) \ {a} /\ b.dropper \subseteq (0 .. n) \ {a}
  BY DEF BeamFine, Occupied
<1>2. PICK s \in 0 .. n :
        c = [b EXCEPT !.available = s,
             !.value = [t \in (DOMAIN @ \cup {b.available}) \ {s} |-> Set(b, x)[t]],
             !.dupe = (@ \cup {b.available}) \ {s},
             !.dropper = (@ \cup {b.available}) \ {s}]
  BY <1>1 DEF ReplaceAvailable, Bottoms
<1>3. c = [max |-> b.max, size |-> n, available |-> s, value |-> [t \in (0 .. n) \ {s} |-> Set(b, x)[t]],
           dupe |-> (b.dupe \cup {a}) \ {s}, dropper |-> (b.dropper \cup {a}) \ {s}]
  <2>1. b = [max |-> b.max, size |-> b.size, available |-> b.available,
          value |-> b.value, dupe |-> b.dupe, dropper |-> b.dropper]
    BY DEF BeamFine
  <2>2. (DOMAIN b.value \cup {a}) \ {s} = (0 .. n) \ {s}
    BY <1>1
  <2> QED
    BY <1>2, <2>1, <2>2
<1>4. \A t \in 0 .. n : Set(b, x)[t] = IF t = a THEN x ELSE b.value[t]
  BY <1>1 DEF Set
<1>5. c.size = n /\ c.available = s /\ c.value = [t \in (0 .. n) \ {s} |-> Set(b, x)[t]]
      /\ c.dupe = (b.dupe \cup {a}) \ {s} /\ c.dropper = (b.dropper \cup {a}) \ {s} /\ c.max = b.max
  BY <1>3
<1>6. Occupied(c) = (0 .. n) \ {s}
  BY <1>5 DEF Occupied
<1>7. Full(c)
  BY <1>5 DEF Full
<1>8. BeamFine(c)
  BY <1>1, <1>3, <1>5, <1>6, <1>7 DEF BeamFine
<1>9. Values(c) \subseteq Values(b) \cup {x}
  BY <1>1, <1>4, <1>5, <1>6 DEF Values
<1> QED
  BY <1>5, <1>8, <1>9

\* A merge leaves the slots as they are.
LEMMA MergeFine ==
  ASSUME NEW b, BeamFine(b), NEW s \in Occupied(b), NEW m, NEW c,
         c = [b EXCEPT !.value = [@ EXCEPT ![s] = m]]
  PROVE  BeamFine(c) /\ c.size = b.size /\ c.size >= b.size /\ Values(c) \subseteq Values(b) \cup {m}
<1>1. b = [max |-> b.max, size |-> b.size, available |-> b.available,
           value |-> b.value, dupe |-> b.dupe, dropper |-> b.dropper]
  BY DEF BeamFine
<1>2. c = [max |-> b.max, size |-> b.size, available |-> b.available,
           value |-> [b.value EXCEPT ![s] = m], dupe |-> b.dupe, dropper |-> b.dropper]
  BY <1>1
<1>3. /\ c.max = b.max /\ c.size = b.size /\ c.available = b.available
      /\ c.value = [b.value EXCEPT ![s] = m] /\ c.dupe = b.dupe /\ c.dropper = b.dropper
  BY <1>2
<1>4. Occupied(c) = Occupied(b) /\ (Full(c) <=> Full(b)) /\ DOMAIN c.value = DOMAIN b.value
  BY <1>3 DEF Occupied, Full
<1>5. BeamFine(c) /\ c.size >= b.size
  BY <1>2, <1>3, <1>4 DEF BeamFine
<1>6. \A t \in Occupied(b) : c.value[t] = IF t = s THEN m ELSE b.value[t]
  BY <1>3 DEF BeamFine
<1> QED
  BY <1>3, <1>4, <1>5, <1>6 DEF Values

\* The three instances of NBest differ in Merges only.
LEMMA HistorySame ==
  ASSUME NEW b, NEW x
  PROVE  /\ HistoryBeam!UseAvailable(b, x) = UseAvailable(b, x)
         /\ HistoryBeam!ReplaceAvailable(b, x) = ReplaceAvailable(b, x)
         /\ HistoryBeam!Values(b) = Values(b)
         /\ HistoryBeam!Full(b) <=> Full(b)
         /\ HistoryBeam!Reset(x) = Reset(x)
         /\ HistoryBeam!Duplicates(b, x) = Duplicates(b, x)
         /\ HistoryBeam!DecreasingOrders(b) = DecreasingOrders(b)
BY DEF HistoryBeam!UseAvailable, HistoryBeam!ReplaceAvailable, HistoryBeam!Values, HistoryBeam!Full,
       HistoryBeam!Set, HistoryBeam!Reset, HistoryBeam!Bottoms, HistoryBeam!Occupied, HistoryBeam!Duplicates,
       HistoryBeam!DecreasingOrders, UseAvailable, ReplaceAvailable, Values, Full, Set, Reset,
       Bottoms, Occupied, Duplicates, DecreasingOrders

\* (the same for the end beam)
LEMMA EndSame ==
  ASSUME NEW b, NEW x
  PROVE  /\ EndBeam!UseAvailable(b, x) = UseAvailable(b, x)
         /\ EndBeam!ReplaceAvailable(b, x) = ReplaceAvailable(b, x)
         /\ EndBeam!Values(b) = Values(b)
         /\ EndBeam!Full(b) <=> Full(b)
         /\ EndBeam!Reset(x) = Reset(x)
         /\ EndBeam!Duplicates(b, x) = Duplicates(b, x)
         /\ EndBeam!DecreasingOrders(b) = DecreasingOrders(b)
BY DEF EndBeam!UseAvailable, EndBeam!ReplaceAvailable, EndBeam!Values, EndBeam!Full,
       EndBeam!Set, EndBeam!Reset, EndBeam!Bottoms, EndBeam!Occupied, EndBeam!Duplicates,
       EndBeam!DecreasingOrders, UseAvailable, ReplaceAvailable, Values, Full, Set, Reset,
       Bottoms, Occupied, Duplicates, DecreasingOrders

\* (the same for the beam of hypotheses)
LEMMA InternalSame ==
  ASSUME NEW b, NEW x
  PROVE  /\ InternalBeam!UseAvailable(b, x) = UseAvailable(b, x)
         /\ InternalBeam!ReplaceAvailable(b, x) = ReplaceAvailable(b, x)
         /\ InternalBeam!Values(b) = Values(b)
         /\ InternalBeam!Full(b) <=> Full(b)
         /\ InternalBeam!Reset(x) = Reset(x)
         /\ InternalBeam!Duplicates(b, x) = Duplicates(b, x)
         /\ InternalBeam!DecreasingOrders(b) = DecreasingOrders(b)
BY DEF InternalBeam!UseAvailable, InternalBeam!ReplaceAvailable, InternalBeam!Values, InternalBeam!Full,
       InternalBeam!Set, InternalBeam!Reset, InternalBeam!Bottoms, InternalBeam!Occupied, InternalBeam!Duplicates,
       InternalBeam!DecreasingOrders, UseAvailable, ReplaceAvailable, Values, Full, Set, Reset,
       Bottoms, Occupied, Duplicates, DecreasingOrders

\* A beam has what was offered to it: of histories ...
LEMMA HistoryInsert ==
  ASSUME NEW b, BeamFine(b), NEW V, Values(b) \subseteq V, NEW x \in V,
         NEW c \in HistoryBeam!InsertAvailable(b, x)
  PROVE  BeamFine(c) /\ Values(c) \subseteq V /\ c.size >= b.size
<1>1. CASE Duplicates(b, x) # {}
  <2>1. c \in HistoryBeam!MergeDuplicate(b, x)
    BY <1>1, HistorySame DEF HistoryBeam!InsertAvailable
  <2>2. PICK s \in Duplicates(b, x) : \E m \in OneBest(b.value[s], x) :
          c = [b EXCEPT !.value = [@ EXCEPT ![s] = m]]
    BY <2>1, HistorySame DEF HistoryBeam!MergeDuplicate
  <2>3. PICK m \in OneBest(b.value[s], x) : c = [b EXCEPT !.value = [@ EXCEPT ![s] = m]]
    BY <2>2
  <2>4. s \in Occupied(b) /\ m \in V
    BY DEF Duplicates, BeamFine, OneBest, Values
  <2>5. BeamFine(c) /\ c.size >= b.size /\ Values(c) \subseteq Values(b) \cup {m}
    BY <2>3, <2>4, MergeFine
  <2> QED
    BY <2>4, <2>5
<1>2. CASE Duplicates(b, x) = {} /\ Full(b)
  <2>1. c \in ReplaceAvailable(b, x)
    BY <1>2, HistorySame DEF HistoryBeam!InsertAvailable
  <2> QED
    BY <1>2, <2>1, ReplaceFine DEF BeamFine
<1>3. CASE Duplicates(b, x) = {} /\ ~Full(b)
  <2>1. c = UseAvailable(b, x) /\ b.available = b.size /\ b.size \in Nat
    BY <1>3, HistorySame DEF HistoryBeam!InsertAvailable, BeamFine
  <2> QED
    BY <2>1, UseFine
<1> QED
  BY <1>1, <1>2, <1>3

\* ... of ends of sentences ...
LEMMA EndInsert ==
  ASSUME NEW b, BeamFine(b), NEW V, Values(b) \subseteq V, NEW x \in V,
         NEW c \in EndBeam!InsertAvailable(b, x)
  PROVE  BeamFine(c) /\ Values(c) \subseteq V /\ c.size >= b.size
<1>1. CASE Duplicates(b, x) # {}
  <2>1. c \in EndBeam!MergeDuplicate(b, x)
    BY <1>1, EndSame DEF EndBeam!InsertAvailable
  <2>2. PICK s \in Duplicates(b, x) : \E m \in OneBest(b.value[s], x) :
          c = [b EXCEPT !.value = [@ EXCEPT ![s] = m]]
    BY <2>1, EndSame DEF EndBeam!MergeDuplicate
  <2>3. PICK m \in OneBest(b.value[s], x) : c = [b EXCEPT !.value = [@ EXCEPT ![s] = m]]
    BY <2>2
  <2>4. s \in Occupied(b) /\ m \in V
    BY DEF Duplicates, BeamFine, OneBest, Values
  <2>5. BeamFine(c) /\ c.size >= b.size /\ Values(c) \subseteq Values(b) \cup {m}
    BY <2>3, <2>4, MergeFine
  <2> QED
    BY <2>4, <2>5
<1>2. CASE Duplicates(b, x) = {} /\ Full(b)
  <2>1. c \in ReplaceAvailable(b, x)
    BY <1>2, EndSame DEF EndBeam!InsertAvailable
  <2> QED
    BY <1>2, <2>1, ReplaceFine DEF BeamFine
<1>3. CASE Duplicates(b, x) = {} /\ ~Full(b)
  <2>1. c = UseAvailable(b, x) /\ b.available = b.size /\ b.size \in Nat
    BY <1>3, EndSame DEF EndBeam!InsertAvailable, BeamFine
  <2> QED
    BY <2>1, UseFine
<1> QED
  BY <1>1, <1>2, <1>3

\* An internal hypothesis of next_, with payload in K and histories in S packed.
IsHyp(h, S, K) ==
  /\ h = [key |-> h.key, word |-> h.word, loc |-> h.loc, score |-> h.score, previous |-> h.previous]
  /\ h.key \in K /\ h.score \in Int
  /\ BeamFine(h.previous) /\ Values(h.previous) \subseteq S /\ h.previous.size >= 1

\* What MergeSizeOneHistoryBeam returns has histories of both beams.
LEMMA PackFine ==
  ASSUME NEW into, NEW with, NEW S, BeamFine(into), Values(into) \subseteq S, Values(with) \subseteq S,
         NEW p \in MergeSizeOne(into, with)
  PROVE  BeamFine(p) /\ Values(p) \subseteq S /\ p.size >= into.size
<1>1. PICK hist \in Values(with) :
        p = into \/ p \in HistoryBeam!InsertAvailable(into, hist)
  BY HistorySame DEF MergeSizeOne
<1>2. into.size \in Nat
  BY DEF BeamFine
<1>3. CASE p = into
  BY <1>2, <1>3
<1>4. CASE p \in HistoryBeam!InsertAvailable(into, hist)
  <2>1. hist \in S
    OBVIOUS
  <2> QED
    BY <1>4, <2>1, HistoryInsert
<1> QED
  BY <1>1, <1>3, <1>4

\* The merge of two hypotheses is one.
LEMMA CallMergeFine ==
  ASSUME NEW S, NEW K, NEW to, NEW with, IsHyp(to, S, K), IsHyp(with, S, K),
         NEW m \in CallMerge(to, with)
  PROVE  IsHyp(m, S, K)
<1>1. PICK p \in MergeSizeOne(to.previous, with.previous) :
        m = [(IF to.score < with.score THEN with ELSE to) EXCEPT !.previous = p]
  BY DEF CallMerge
<1>2. BeamFine(p) /\ Values(p) \subseteq S /\ p.size >= to.previous.size
  BY PackFine DEF IsHyp
<1>3. to.previous.size \in Nat /\ p.size \in Nat /\ to.previous.size >= 1
  BY <1>2 DEF IsHyp, BeamFine
<1>4. p.size >= 1
  BY <1>2, <1>3
<1>5. PICK h : h = IF to.score < with.score THEN with ELSE to
  OBVIOUS
<1>6. IsHyp(h, S, K)
  BY <1>5
<1>7. m = [key |-> h.key, word |-> h.word, loc |-> h.loc, score |-> h.score, previous |-> p]
  BY <1>1, <1>5, <1>6 DEF IsHyp
<1>8. m.key = h.key /\ m.word = h.word /\ m.loc = h.loc /\ m.score = h.score /\ m.previous = p
  BY <1>7
<1> QED
  BY <1>2, <1>4, <1>6, <1>7, <1>8 DEF IsHyp

\* ... and of hypotheses.
LEMMA InternalInsert ==
  ASSUME NEW S, NEW K, NEW b, BeamFine(b), \A h \in Values(b) : IsHyp(h, S, K),
         NEW x, IsHyp(x, S, K), NEW c \in InternalBeam!InsertAvailable(b, x)
  PROVE  BeamFine(c) /\ \A h \in Values(c) : IsHyp(h, S, K)
<1>1. CASE Duplicates(b, x) # {}
  <2>1. c \in InternalBeam!MergeDuplicate(b, x)
    BY <1>1, InternalSame DEF InternalBeam!InsertAvailable
  <2>2. PICK s \in Duplicates(b, x) : \E m \in CallMerge(b.value[s], x) :
          c = [b EXCEPT !.value = [@ EXCEPT ![s] = m]]
    BY <2>1, InternalSame DEF InternalBeam!MergeDuplicate
  <2>3. PICK m \in CallMerge(b.value[s], x) : c = [b EXCEPT !.value = [@ EXCEPT ![s] = m]]
    BY <2>2
  <2>4. s \in Occupied(b) /\ b.value[s] \in Values(b)
    BY DEF Duplicates, BeamFine, Values
  <2>5. IsHyp(m, S, K)
    BY <2>4, CallMergeFine
  <2>6. BeamFine(c) /\ Values(c) \subseteq Values(b) \cup {m}
    BY <2>3, <2>4, MergeFine
  <2> QED
    BY <2>5, <2>6
<1>2. CASE Duplicates(b, x) = {} /\ Full(b)
  <2>1. c \in ReplaceAvailable(b, x)
    BY <1>2, InternalSame DEF InternalBeam!InsertAvailable
  <2>2. BeamFine(c) /\ Values(c) \subseteq Values(b) \cup {x}
    BY <1>2, <2>1, ReplaceFine
  <2> QED
    BY <2>2
<1>3. CASE Duplicates(b, x) = {} /\ ~Full(b)
  <2>1. c = UseAvailable(b, x) /\ b.available = b.size
    BY <1>3, InternalSame DEF InternalBeam!InsertAvailable, BeamFine
  <2>2. BeamFine(c) /\ Values(c) \subseteq Values(b) \cup {x}
    BY <2>1, UseFine
  <2> QED
    BY <2>2
<1> QED
  BY <1>1, <1>2, <1>3

\* A history with predecessors in S, best first and each once.
IsNode(h, S) ==
  /\ h.score \in Int /\ h.prev \in Seq(S) /\ h.prev # <<>>
  /\ \A i, j \in 1 .. Len(h.prev) : i < j => h.prev[i] # h.prev[j] /\ h.prev[i].score >= h.prev[j].score

\* The histories of the layers 1 .. n. Predecessors are one layer before.
Lattice(lat, n) == lat[1] = {RootHistory} /\ \A m \in 2 .. n : \A h \in lat[m] : IsNode(h, lat[m - 1])

\* What a hypothesis is shared as has predecessors in the current layer.
LEMMA FinishFine ==
  ASSUME NEW S, NEW K, NEW hyp, IsHyp(hyp, S, K), NEW h \in FinishMerging(hyp)
  PROVE  IsNode(h, S)
<1>1. PICK q \in DecreasingOrders(hyp.previous) :
        h = [key |-> Hash(hyp.word, q), score |-> hyp.score, word |-> hyp.word, loc |-> hyp.loc, prev |-> q]
  BY HistorySame DEF FinishMerging
<1>2. PICK n : n = hyp.previous.size
  OBVIOUS
<1>3. n \in Nat /\ n >= 1
  BY <1>2 DEF IsHyp, BeamFine
<1>4. q \in [1 .. n -> Values(hyp.previous)]
      /\ \A i, j \in 1 .. n : i < j => q[i] # q[j] /\ q[i].score >= q[j].score
  BY <1>2 DEF DecreasingOrders
<1>5. q \in Seq(S) /\ Len(q) = n /\ q # <<>>
  BY <1>3, <1>4 DEF IsHyp
<1>6. h.prev = q /\ h.score = hyp.score
  BY <1>1
<1> QED
  BY <1>4, <1>5, <1>6 DEF IsNode, IsHyp

\* Scores of nodes can be compared.
LEMMA NodeScores ==
  ASSUME NEW lat, NEW n \in Nat, Lattice(lat, n), NEW m \in 1 .. n, NEW h \in lat[m]
  PROVE  h.score \in Int
<1>1. CASE m = 1
  BY <1>1 DEF Lattice, RootHistory
<1>2. CASE m # 1
  <2>1. m \in 2 .. n
    BY <1>2
  <2> QED
    BY <2>1 DEF Lattice, IsNode
<1> QED
  BY <1>1, <1>2

\* Best predecessors of one another, from a node of layer n.
IsTrail(hist, lat, n, first) ==
  /\ hist[0] = first
  /\ \A i \in 0 .. n - 1 : hist[i] \in lat[n - i]
  /\ \A i \in 1 .. n - 1 : hist[i] = hist[i - 1].prev[1]

\* Following the best predecessors leads through one layer after the other to the beginning.
LEMMA TrailExists ==
  ASSUME NEW lat, NEW top \in Nat, Lattice(lat, top), NEW p, p.node_length \in 1 .. top,
         p.path[1].prev[p.packed] \in lat[p.node_length]
  PROVE  /\ IsTrail(Followed(p), lat, p.node_length, p.path[1].prev[p.packed])
         /\ Followed(p)[p.node_length - 1] = RootHistory
<1> DEFINE n == p.node_length
           first == p.path[1].prev[p.packed]
           hist == CHOOSE g : g = [i \in 0 .. n - 1 |->
                                     IF i = 0 THEN first ELSE BestPrevious(g[i - 1])]
<1>1. Followed(p) = hist
  BY DEF Followed
<1>2. n \in 1 .. top /\ n \in Nat /\ first \in lat[n]
  OBVIOUS
<1> HIDE DEF n, first
<1> DEFINE V == {NoHistory} \cup UNION {lat[m] : m \in 1 .. top}
           op == [c \in (1 .. n - 1) \X V |-> BestPrevious(c[2])]
           Good(g) == g = [i \in 0 .. n - 1 |-> IF i = 0 THEN first ELSE BestPrevious(g[i - 1])]
<1>3. ASSUME NEW v \in V PROVE BestPrevious(v) \in V
  <2>1. NoHistory.prev = <<>> /\ RootHistory.prev = <<>>
    BY DEF NoHistory, RootHistory
  <2>2. CASE v.prev = <<>>
    BY <2>2 DEF BestPrevious
  <2>3. CASE v.prev # <<>>
    <3>1. PICK m \in 1 .. top : v \in lat[m]
      BY <2>1, <2>3
    <3>2. m \in 2 .. top /\ m - 1 \in 1 .. top
      BY <2>1, <2>3, <3>1 DEF Lattice
    <3>3. v.prev \in Seq(lat[m - 1])
      BY <3>1, <3>2 DEF Lattice, IsNode
    <3>4. v.prev[1] \in lat[m - 1]
      BY <2>3, <3>3
    <3> QED
      BY <2>3, <3>2, <3>4 DEF BestPrevious
  <2> QED
    BY <2>2, <2>3
<1>4. n - 1 \in Nat /\ first \in V
  BY <1>2
<1>5. op \in [(1 .. n - 1) \X V -> V]
  BY <1>3
<1>6. PICK f \in [0 .. n - 1 -> V] : Recursion(n - 1, first, op, f)
  <2> HIDE DEF op, V
  <2> QED
    BY <1>2, <1>4, <1>5, RecursionExists
<1>7. Good(f)
  <2>1. f[0] = first
    BY <1>6 DEF Recursion
  <2>2. ASSUME NEW i \in 0 .. n - 1, i # 0 PROVE f[i] = BestPrevious(f[i - 1])
    <3>1. i \in 1 .. n - 1 /\ i - 1 \in 0 .. n - 1
      BY <1>2, <2>2
    <3>2. f[i] = op[<<i, f[i - 1]>>]
      BY <1>6, <3>1 DEF Recursion
    <3>3. f[i - 1] \in V
      BY <3>1
    <3> HIDE DEF V
    <3> QED
      BY <3>1, <3>2, <3>3
  <2> HIDE DEF V, op
  <2> QED
    BY <2>1, <2>2
<1> HIDE DEF hist
<1>8. Good(hist)
  <2>1. \E g : Good(g)
    BY <1>7
  <2>2. hist = CHOOSE g : Good(g)
    BY DEF hist
  <2> HIDE DEF Good
  <2> QED
    BY <2>1, <2>2
<1> DEFINE P == {i \in 0 .. n - 1 : hist[i] \in lat[n - i]}
           e == [i \in 0 .. n - 1 |-> IF i = 0 THEN first ELSE BestPrevious(hist[i - 1])]
<1>9. hist = e
  BY <1>8
<1>10. e[0] = first /\ \A i \in 0 .. n - 2 : e[i + 1] = BestPrevious(hist[i])
  BY <1>2
<1> HIDE DEF e, Good
<1>11. hist[0] = first /\ \A i \in 0 .. n - 2 : hist[i + 1] = BestPrevious(hist[i])
  BY <1>9, <1>10
<1>12. 0 \in P
  BY <1>2, <1>11
<1>13. ASSUME NEW i \in 0 .. n - 1 - 1, hist[i] \in lat[n - i]
      PROVE  hist[i + 1] \in lat[n - (i + 1)] /\ hist[i + 1] = hist[i].prev[1]
  <2>1. hist[i + 1] = BestPrevious(hist[i])
    <3>1. i \in 0 .. n - 2
      BY <1>2
    <3> QED
      BY <1>11, <3>1
  <2>2. n - i \in 2 .. top /\ n - i - 1 = n - (i + 1)
    BY <1>2, <1>13
  <2>3. hist[i].prev \in Seq(lat[n - i - 1]) /\ hist[i].prev # <<>>
    BY <1>13, <2>2 DEF Lattice, IsNode
  <2>4. hist[i].prev[1] \in lat[n - i - 1]
    BY <2>3
  <2> QED
    BY <2>1, <2>2, <2>3, <2>4 DEF BestPrevious
<1>14. 0 .. n - 1 \subseteq P
  <2>1. \A i \in 0 .. n - 1 - 1 : i \in P => i + 1 \in P
    BY <1>2, <1>13
  <2> HIDE DEF P
  <2> QED
    BY <1>4, <1>12, <2>1, UpTo
<1>15. \A i \in 0 .. n - 1 : hist[i] \in lat[n - i]
  BY <1>14
<1>16. ASSUME NEW i \in 1 .. n - 1 PROVE hist[i] = hist[i - 1].prev[1]
  <2>1. i - 1 \in 0 .. n - 1 - 1 /\ i - 1 + 1 = i /\ i - 1 \in 0 .. n - 1
    BY <1>2
  <2> QED
    BY <1>13, <1>15, <2>1
<1>17. hist[n - 1] = RootHistory
  <2>1. n - 1 \in 0 .. n - 1 /\ n - (n - 1) = 1
    BY <1>2
  <2>2. hist[n - 1] \in lat[1]
    BY <1>15, <2>1
  <2> QED
    BY <2>2 DEF Lattice
<1> QED
  BY <1>1, <1>11, <1>15, <1>16, <1>17 DEF IsTrail, n, first

\* Division by a number of words keeps the order.
LEMMA NormalizeOrder ==
  ASSUME model \in Models, NEW a \in Int, NEW b \in Int, NEW n \in Nat \ {0}
  PROVE  /\ Normalize(a, n) \in Int /\ Normalize(b, n) \in Int
         /\ a <= b => Normalize(a, n) <= Normalize(b, n)
<1>1. model.length_normalize \in BOOLEAN
  BY DecoderAssumption
<1>2. a \div n \in Int /\ b \div n \in Int /\ (a <= b => a \div n <= b \div n)
  OBVIOUS
<1> QED
  BY <1>1, <1>2 DEF Normalize

\* A history of the end beam: a sentence of e.length words.
IsEnd(e, lat, n) == e.length \in 2 .. n /\ IsNode(e, lat[e.length - 1])

\* A path of nodes N that leads to one of the ends E.
LeadsToEnd(path, N, E) ==
  /\ path \in Seq(N) /\ path # <<>> /\ path[Len(path)] \in E
  /\ \A j \in 2 .. Len(path) : path[j - 1] \in Range(path[j].prev)

\* A partial history: its path, the predecessor to follow next, and the score
\* of the best sentence it stands for.
IsPartial(p, lat, N, E) ==
  /\ p = [packed |-> p.packed, path |-> p.path, node_length |-> p.node_length,
          multiplier |-> p.multiplier, score |-> p.score]
  /\ p.node_length \in 1 .. length - 1
  /\ LeadsToEnd(p.path, N, E)
  /\ IsNode(p.path[1], lat[p.node_length])
  /\ p.packed \in 1 .. Len(p.path[1].prev)
  /\ p.multiplier \in Int /\ p.score \in Int /\ p.score = Through(p, p.packed)

\* What is known of the predecessors of a node.
LEMMA NodePrevious ==
  ASSUME NEW S, NEW h, IsNode(h, S), \A x \in S : x.score \in Int
  PROVE  /\ Len(h.prev) \in Nat \ {0}
         /\ \A k \in 1 .. Len(h.prev) : h.prev[k] \in S /\ h.prev[k].score \in Int
         /\ \A j, k \in 1 .. Len(h.prev) : j < k => h.prev[j] # h.prev[k] /\ h.prev[j].score >= h.prev[k].score
         /\ DOMAIN h.prev = 1 .. Len(h.prev)
<1>1. h.prev \in Seq(S) /\ h.prev # <<>>
  BY DEF IsNode
<1> QED
  BY <1>1 DEF IsNode

\* The first constructor of PartialHistory.
LEMMA FirstFine ==
  ASSUME model \in Models, length \in Nat, NEW lat, Lattice(lat, length - 1), NEW N, NEW E, E \subseteq N,
         NEW e \in E, IsEnd(e, lat, length)
  PROVE  IsPartial(FirstBest(e), lat, N, E)
<1>1. e.length \in 2 .. length /\ e.length - 1 \in 1 .. length - 1 /\ IsNode(e, lat[e.length - 1])
      /\ length - 1 \in Nat
  BY DEF IsEnd
<1>2. \A x \in lat[e.length - 1] : x.score \in Int
  BY <1>1, NodeScores
<1>3. Len(e.prev) \in Nat \ {0} /\ e.prev[1].score \in Int /\ 1 \in 1 .. Len(e.prev)
  BY <1>1, <1>2, NodePrevious
<1> DEFINE p == FirstBest(e)
<1>4. p.packed = 1 /\ p.path = <<e>> /\ p.node_length = e.length - 1 /\ p.score = e.score
      /\ p.multiplier = e.score - Normalize(e.prev[1].score, e.length)
      /\ p = [packed |-> p.packed, path |-> p.path, node_length |-> p.node_length,
              multiplier |-> p.multiplier, score |-> p.score]
  BY DEF FirstBest
<1>5. p.path[1] = e /\ Len(p.path) = 1 /\ LeadsToEnd(p.path, N, E)
  BY <1>4 DEF LeadsToEnd
<1>6. WordCount(p) = e.length
  BY <1>1, <1>4, <1>5 DEF WordCount
<1>7. e.score \in Int /\ Normalize(e.prev[1].score, e.length) \in Int
  <2>1. e.length \in Nat \ {0}
    BY <1>1
  <2> QED
    BY <1>1, <1>3, <2>1, NormalizeOrder DEF IsNode
<1> HIDE DEF p
<1>8. Through(p, 1) = Normalize(e.prev[1].score, e.length) + (e.score - Normalize(e.prev[1].score, e.length))
  BY <1>4, <1>5, <1>6 DEF Through
<1>9. Through(p, 1) = e.score
  BY <1>7, <1>8
<1>10. IsPartial(p, lat, N, E)
  BY <1>1, <1>3, <1>4, <1>5, <1>7, <1>9 DEF IsPartial
<1> QED
  BY <1>10 DEF p

\* What the next choice costs.
LEMMA PartialFields ==
  ASSUME model \in Models, length \in Nat, NEW lat, Lattice(lat, length - 1), NEW N, NEW E,
         NEW p, IsPartial(p, lat, N, E)
  PROVE  /\ WordCount(p) \in Nat \ {0} /\ Len(p.path) \in Nat \ {0} /\ p.node_length \in 1 .. length - 1
         /\ Len(p.path[1].prev) \in Nat \ {0} /\ p.packed \in 1 .. Len(p.path[1].prev)
         /\ \A k \in 1 .. Len(p.path[1].prev) :
              /\ p.path[1].prev[k] \in lat[p.node_length] /\ p.path[1].prev[k].score \in Int
              /\ Through(p, k) \in Int
         /\ \A j, k \in 1 .. Len(p.path[1].prev) :
              j < k => p.path[1].prev[j] # p.path[1].prev[k] /\ Through(p, j) >= Through(p, k)
         /\ DOMAIN p.path[1].prev = 1 .. Len(p.path[1].prev)
         /\ p.score \in Int /\ p.score = Through(p, p.packed)
<1> DEFINE h == p.path[1]
<1>1. /\ p.node_length \in 1 .. length - 1 /\ IsNode(h, lat[p.node_length])
      /\ p.path \in Seq(N) /\ p.path # <<>> /\ p.packed \in 1 .. Len(h.prev)
      /\ p.multiplier \in Int /\ p.score \in Int /\ p.score = Through(p, p.packed)
  BY DEF IsPartial, LeadsToEnd
<1>2. \A x \in lat[p.node_length] : x.score \in Int
  BY <1>1, NodeScores
<1>3. Len(p.path) \in Nat \ {0}
  BY <1>1
<1>4. WordCount(p) \in Nat \ {0}
  BY <1>1, <1>3 DEF WordCount
<1>5. /\ Len(h.prev) \in Nat \ {0}
      /\ \A k \in 1 .. Len(h.prev) : h.prev[k] \in lat[p.node_length] /\ h.prev[k].score \in Int
      /\ \A j, k \in 1 .. Len(h.prev) : j < k => h.prev[j] # h.prev[k] /\ h.prev[j].score >= h.prev[k].score
      /\ DOMAIN h.prev = 1 .. Len(h.prev)
  BY <1>1, <1>2, NodePrevious
<1>6. ASSUME NEW k \in 1 .. Len(h.prev)
      PROVE  Through(p, k) = Normalize(h.prev[k].score, WordCount(p)) + p.multiplier
             /\ Normalize(h.prev[k].score, WordCount(p)) \in Int /\ Through(p, k) \in Int
  <2>1. Through(p, k) = Normalize(h.prev[k].score, WordCount(p)) + p.multiplier
    BY DEF Through
  <2>2. Normalize(h.prev[k].score, WordCount(p)) \in Int
    BY <1>4, <1>5, NormalizeOrder
  <2> QED
    BY <1>1, <2>1, <2>2
<1>7. ASSUME NEW j \in 1 .. Len(h.prev), NEW k \in 1 .. Len(h.prev), j < k
      PROVE  Through(p, j) >= Through(p, k)
  <2>1. PICK x \in Int, y \in Int : x = h.prev[j].score /\ y = h.prev[k].score
    BY <1>5
  <2>2. y <= x
    BY <1>5, <1>7, <2>1
  <2>3. Normalize(y, WordCount(p)) <= Normalize(x, WordCount(p))
    BY <1>4, <2>2, NormalizeOrder
  <2>4. PICK u \in Int, v \in Int : u = Normalize(x, WordCount(p)) /\ v = Normalize(y, WordCount(p))
    BY <1>6, <2>1
  <2>5. Through(p, j) = u + p.multiplier /\ Through(p, k) = v + p.multiplier /\ v <= u
    BY <1>6, <2>1, <2>3, <2>4
  <2> QED
    BY <1>1, <2>4, <2>5
<1> QED
  BY <1>1, <1>3, <1>4, <1>5, <1>6, <1>7

\* A partial history stands for the paths f that end as it does and go through
\* the predecessor that is next, or one behind it.
Covers(p, f) ==
  /\ Len(f) = WordCount(p)
  /\ \A j \in 1 .. Len(p.path) : f[p.node_length + j] = p.path[j]
  /\ \E k \in p.packed .. Len(p.path[1].prev) : f[p.node_length] = p.path[1].prev[k]

\* The third constructor: what comes after the choice just taken.
LEMMA NextFine ==
  ASSUME model \in Models, length \in Nat, NEW lat, Lattice(lat, length - 1), NEW N, NEW E,
         NEW p, IsPartial(p, lat, N, E), NEW q \in NextBest(p)
  PROVE  /\ IsPartial(q, lat, N, E) /\ q.score <= p.score
         /\ \A f : Covers(q, f) => Covers(p, f) /\ f[p.node_length] # p.path[1].prev[p.packed]
<1> DEFINE h == p.path[1]
           n == Len(h.prev)
<1>1. /\ n \in Nat \ {0} /\ p.packed \in 1 .. n
      /\ p.score = Through(p, p.packed) /\ p.score \in Int
      /\ \A j, k \in 1 .. n : j < k => h.prev[j] # h.prev[k] /\ Through(p, j) >= Through(p, k)
      /\ \A k \in 1 .. n : Through(p, k) \in Int
  BY PartialFields
<1>2. PICK k : k = p.packed + 1
  OBVIOUS
<1>3. p.packed # n /\ q = [p EXCEPT !.packed = @ + 1, !.score = Through(p, k)]
  BY <1>2 DEF NextBest
<1>4. k \in 1 .. n /\ k > p.packed
  BY <1>1, <1>2, <1>3
<1>5. q = [packed |-> k, path |-> p.path, node_length |-> p.node_length,
           multiplier |-> p.multiplier, score |-> Through(p, k)]
  BY <1>2, <1>3 DEF IsPartial
<1>6. q.packed = k /\ q.path = p.path /\ q.node_length = p.node_length /\ q.multiplier = p.multiplier
      /\ q.score = Through(p, k)
  BY <1>5
<1>7. Through(q, k) = Through(p, k) /\ WordCount(q) = WordCount(p)
  BY <1>6 DEF Through, WordCount
<1>8. IsPartial(q, lat, N, E)
  <2>1. Through(p, k) \in Int
    BY <1>1, <1>4
  <2> QED
    BY <1>4, <1>5, <1>6, <1>7, <2>1 DEF IsPartial
<1>9. q.score <= p.score
  <2>1. Through(p, p.packed) >= Through(p, k)
    BY <1>1, <1>4
  <2> QED
    BY <1>1, <1>6, <2>1
<1>10. ASSUME NEW f, Covers(q, f)
       PROVE  Covers(p, f) /\ f[p.node_length] # h.prev[p.packed]
  <2>1. PICK j \in k .. n : f[p.node_length] = h.prev[j]
    BY <1>6, <1>10 DEF Covers
  <2>2. j \in p.packed .. n /\ p.packed < j /\ j \in 1 .. n
    BY <1>1, <1>4, <2>1
  <2>3. h.prev[j] # h.prev[p.packed]
    BY <1>1, <2>2
  <2> QED
    BY <1>6, <1>7, <1>10, <2>1, <2>2, <2>3 DEF Covers
<1> QED
  BY <1>8, <1>9, <1>10

\* What Complete follows, from the beginning to the i-th node before path.
Crumb(hist, i, path) == [j \in 1 .. i + 1 |-> hist[i + 1 - j]] \o path

\* A trail up to its i-th node is among N.
Along(hist, i, N) == i \in Nat /\ \A j \in 0 .. i : hist[j] \in N

\* c is a crumb, element by element.
Joined(c, hist, i, path) ==
  /\ Len(c) = i + 1 + Len(path)
  /\ \A j \in 1 .. i + 1 : c[j] = hist[i + 1 - j]
  /\ \A j \in 1 .. Len(path) : c[i + 1 + j] = path[j]

\* What a crumb is.
LEMMA CrumbIs ==
  ASSUME NEW hist, NEW i, NEW path, NEW N, path \in Seq(N), Along(hist, i, N)
  PROVE  Crumb(hist, i, path) \in Seq(N) /\ Joined(Crumb(hist, i, path), hist, i, path)
<1> DEFINE s == [j \in 1 .. i + 1 |-> hist[i + 1 - j]]
<1>1. i \in Nat /\ s \in [1 .. i + 1 -> N]
  BY DEF Along
<1>2. s \in Seq(N) /\ Len(s) = i + 1 /\ \A j \in 1 .. i + 1 : s[j] = hist[i + 1 - j]
  BY <1>1
<1> HIDE DEF s
<1>3. Crumb(hist, i, path) = s \o path
  BY DEF Crumb, s
<1>4. s \o path \in Seq(N)
  BY <1>2
<1>5. Len(s \o path) = i + 1 + Len(path)
  BY <1>2
<1>6. \A j \in 1 .. i + 1 : (s \o path)[j] = s[j]
  BY <1>2
<1>7. \A j \in 1 .. Len(path) : (s \o path)[i + 1 + j] = path[j]
  BY <1>2
<1> QED
  BY <1>2, <1>3, <1>4, <1>5, <1>6, <1>7 DEF Joined

\* A crumb is a path to the end of sentence.
LEMMA CrumbLeads ==
  ASSUME NEW lat, NEW top \in Nat, Lattice(lat, top), NEW n \in 1 .. top, NEW first, NEW hist,
         IsTrail(hist, lat, n, first), NEW i \in 0 .. n - 1,
         NEW N, NEW E, \A m \in 1 .. top : lat[m] \subseteq N, NEW path, LeadsToEnd(path, N, E),
         first \in Range(path[1].prev)
  PROVE  LeadsToEnd(Crumb(hist, i, path), N, E)
<1> DEFINE c == Crumb(hist, i, path)
<1>1. /\ path \in Seq(N) /\ path # <<>> /\ Len(path) \in Nat \ {0} /\ path[Len(path)] \in E
      /\ \A j \in 2 .. Len(path) : path[j - 1] \in Range(path[j].prev)
  BY DEF LeadsToEnd
<1>2. ASSUME NEW j \in 0 .. i PROVE hist[j] \in N
  <2>1. j \in 0 .. n - 1 /\ n - j \in 1 .. top
    OBVIOUS
  <2>2. hist[j] \in lat[n - j]
    BY <2>1 DEF IsTrail
  <2> QED
    BY <2>1, <2>2
<1>3. Along(hist, i, N)
  BY <1>2 DEF Along
<1>4. c \in Seq(N) /\ Joined(c, hist, i, path)
  BY <1>1, <1>3, CrumbIs
<1> HIDE DEF c
<1>5. /\ c \in Seq(N) /\ Len(c) = i + 1 + Len(path)
      /\ \A j \in 1 .. i + 1 : c[j] = hist[i + 1 - j]
      /\ \A j \in 1 .. Len(path) : c[i + 1 + j] = path[j]
  BY <1>4 DEF Joined
<1>6. c # <<>> /\ c[Len(c)] \in E
  <2>1. Len(path) \in 1 .. Len(path) /\ Len(c) # 0
    BY <1>1, <1>5
  <2> QED
    BY <1>1, <1>5, <2>1
<1>7. ASSUME NEW j \in 2 .. Len(c) PROVE c[j - 1] \in Range(c[j].prev)
  <2>1. CASE j <= i + 1
    <3>1. PICK k \in 1 .. n - 1 : k = i + 2 - j
      BY <2>1
    <3>2. j \in 1 .. i + 1 /\ j - 1 \in 1 .. i + 1 /\ i + 1 - j = k - 1 /\ i + 1 - (j - 1) = k
          /\ k - 1 \in 0 .. n - 1 /\ n - (k - 1) \in 2 .. top
      BY <2>1, <3>1
    <3>3. c[j - 1] = hist[k] /\ c[j] = hist[k - 1]
      BY <1>5, <3>2
    <3>4. hist[k] = hist[k - 1].prev[1] /\ hist[k - 1] \in lat[n - (k - 1)]
      BY <3>1, <3>2 DEF IsTrail
    <3>5. hist[k - 1].prev \in Seq(lat[n - (k - 1) - 1]) /\ hist[k - 1].prev # <<>>
      BY <3>2, <3>4 DEF Lattice, IsNode
    <3>6. 1 \in DOMAIN hist[k - 1].prev
      BY <3>5
    <3> QED
      BY <3>3, <3>4, <3>6 DEF Range
  <2>2. CASE j = i + 2
    <3>1. i + 1 \in 1 .. i + 1 /\ i + 1 - (i + 1) = 0 /\ 1 \in 1 .. Len(path) /\ j - 1 = i + 1 /\ j = i + 1 + 1
      BY <1>1, <2>2
    <3>2. c[j - 1] = hist[0] /\ c[j] = path[1]
      BY <1>5, <3>1
    <3> QED
      BY <3>2 DEF IsTrail
  <2>3. CASE j > i + 2
    <3>1. PICK k \in 2 .. Len(path) : k = j - (i + 1)
      BY <1>1, <1>5, <2>3
    <3>2. k - 1 \in 1 .. Len(path) /\ k \in 1 .. Len(path) /\ j - 1 = i + 1 + (k - 1) /\ j = i + 1 + k
      BY <1>1, <3>1
    <3>3. c[j - 1] = path[k - 1] /\ c[j] = path[k]
      BY <1>5, <3>2
    <3> QED
      BY <1>1, <3>1, <3>3
  <2> QED
    BY <2>1, <2>2, <2>3
<1>8. LeadsToEnd(c, N, E)
  BY <1>5, <1>6, <1>7 DEF LeadsToEnd
<1> QED
  BY <1>8 DEF c

\* The layers up to n are among the nodes N.
Within(lat, n, N) == \A m \in 1 .. n : lat[m] \subseteq N

\* What is followed is among the nodes.
LEMMA TrailWithin ==
  ASSUME NEW top \in Nat, NEW n \in 1 .. top, NEW lat, NEW hist, NEW first, IsTrail(hist, lat, n, first),
         NEW N, Within(lat, top, N), NEW i \in 0 .. n - 1
  PROVE  Along(hist, i, N)
<1>1. ASSUME NEW j \in 0 .. i PROVE hist[j] \in N
  <2>1. j \in 0 .. n - 1 /\ n - j \in 1 .. top
    OBVIOUS
  <2> QED
    BY <2>1 DEF IsTrail, Within
<1> QED
  BY <1>1 DEF Along

\* A path that leaves what Complete follows at the i-th node.
LEMMA SecondFine ==
  ASSUME model \in Models, length \in Nat, NEW lat, Lattice(lat, length - 1),
         NEW N, NEW E, Within(lat, length - 1, N),
         NEW p, IsPartial(p, lat, N, E),
         NEW hist, IsTrail(hist, lat, p.node_length, p.path[1].prev[p.packed]),
         NEW i \in 0 .. p.node_length - 1, Len(hist[i].prev) > 1,
         NEW q, q = SecondBest(Crumb(hist, i, p.path), p.node_length - 1 - i, p.score)
  PROVE  IsPartial(q, lat, N, E) /\ q.score <= p.score /\ i + 1 <= p.node_length - 1
<1>1. PICK n, path : n = p.node_length /\ path = p.path
  OBVIOUS
<1> DEFINE c == Crumb(hist, i, path)
           h == hist[i]
<1>2. /\ n \in 1 .. length - 1 /\ Len(path) \in Nat \ {0} /\ WordCount(p) \in Nat \ {0}
      /\ p.score \in Int /\ p.packed \in 1 .. Len(p.path[1].prev)
      /\ DOMAIN p.path[1].prev = 1 .. Len(p.path[1].prev)
  BY <1>1, PartialFields
<1>3. p.path[1].prev[p.packed] \in Range(p.path[1].prev)
  BY <1>2 DEF Range
<1>4. length - 1 \in Nat /\ LeadsToEnd(path, N, E) /\ path \in Seq(N)
  <2>1. length - 1 \in Nat
    BY <1>2
  <2>2. LeadsToEnd(path, N, E)
    BY <1>1 DEF IsPartial
  <2> QED
    BY <2>1, <2>2 DEF LeadsToEnd
<1>5. LeadsToEnd(c, N, E)
  BY <1>1, <1>2, <1>3, <1>4, CrumbLeads DEF Within
<1>6. Along(hist, i, N)
  BY <1>1, <1>2, <1>4, TrailWithin
<1>7. i \in Nat
  BY <1>6 DEF Along
<1>8. Len(c) = i + 1 + Len(path) /\ \A j \in 1 .. i + 1 : c[j] = hist[i + 1 - j]
  <2>1. Joined(c, hist, i, path)
    BY <1>4, <1>6, CrumbIs
  <2> HIDE DEF c
  <2> QED
    BY <2>1 DEF Joined
<1>9. c[1] = h
  BY <1>7, <1>8
<1>10. h \in lat[n - i] /\ n - i \in 1 .. length - 1
  BY <1>1, <1>2 DEF IsTrail
<1>11. n - i # 1
  <2>1. ASSUME n - i = 1 PROVE FALSE
    <3>1. h = RootHistory
      BY <1>10, <2>1 DEF Lattice
    <3>2. Len(h.prev) = 0
      BY <3>1 DEF RootHistory
    <3> QED
      BY <3>2
  <2> QED
    BY <2>1
<1>12. n - i \in 2 .. length - 1 /\ n - 1 - i \in 1 .. length - 1 /\ n - i - 1 = n - 1 - i
  <2>1. PICK m \in Nat : m = n /\ i \in 0 .. m - 1 /\ m \in 1 .. length - 1
    BY <1>1, <1>2
  <2>2. m - i # 1
    BY <1>11, <2>1
  <2>3. m - i \in 2 .. length - 1 /\ m - 1 - i \in 1 .. length - 1 /\ m - i - 1 = m - 1 - i
    BY <2>1, <2>2
  <2> QED
    BY <2>1, <2>3
<1>13. IsNode(h, lat[n - 1 - i])
  BY <1>10, <1>12 DEF Lattice
<1>14. \A x \in lat[n - 1 - i] : x.score \in Int
  BY <1>4, <1>12, NodeScores
<1>15. /\ Len(h.prev) \in Nat /\ h.prev[1].score \in Int /\ h.prev[2].score \in Int
       /\ h.prev[1].score >= h.prev[2].score /\ 2 \in 1 .. Len(h.prev)
  BY <1>13, <1>14, NodePrevious
<1>16. PICK w \in Nat \ {0} : w = n - 1 - i + Len(c)
  <2>1. PICK l \in Nat \ {0} : l = Len(path) /\ Len(c) = i + 1 + l
    BY <1>2, <1>8
  <2>2. n - 1 - i + (i + 1 + l) = n + l
    BY <1>2, <1>7
  <2>3. n + l \in Nat \ {0}
    BY <1>2
  <2> QED
    BY <2>1, <2>2, <2>3
<1>17. PICK u \in Int, v \in Int : /\ u = Normalize(h.prev[1].score, w)
                                   /\ v = Normalize(h.prev[2].score, w) /\ v <= u
  <2>1. PICK a \in Int, b \in Int : a = h.prev[1].score /\ b = h.prev[2].score /\ b <= a
    BY <1>15
  <2>2. Normalize(b, w) \in Int /\ Normalize(a, w) \in Int /\ Normalize(b, w) <= Normalize(a, w)
    BY <2>1, NormalizeOrder
  <2> QED
    BY <2>1, <2>2
<1> HIDE DEF c
<1>18. PICK o : /\ o = [packed |-> 2, path |-> c, node_length |-> n - 1 - i,
                        multiplier |-> p.score - Normalize(c[1].prev[1].score, (n - 1 - i) + Len(c)),
                        score |-> 0]
                /\ q = [o EXCEPT !.score = Through(o, 2)]
  BY <1>1 DEF SecondBest, c
<1>19. o.packed = 2 /\ o.path = c /\ o.node_length = n - 1 - i /\ o.multiplier = p.score - u
  BY <1>9, <1>16, <1>17, <1>18
<1>20. Through(o, 2) = v + (p.score - u)
  BY <1>9, <1>16, <1>17, <1>19 DEF Through, WordCount
<1>21. q = [packed |-> 2, path |-> c, node_length |-> n - 1 - i, multiplier |-> p.score - u,
            score |-> v + (p.score - u)]
  BY <1>9, <1>16, <1>17, <1>18, <1>20
<1>22. q.packed = 2 /\ q.path = c /\ q.node_length = n - 1 - i /\ q.multiplier = p.score - u
       /\ q.score = v + (p.score - u)
  BY <1>21
<1>23. Through(q, 2) = q.score
  BY <1>9, <1>16, <1>17, <1>22 DEF Through, WordCount
<1>24. q.score <= p.score /\ q.score \in Int /\ q.multiplier \in Int
  <2>1. PICK b \in Int : b = p.score
    BY <1>2
  <2>2. v + (b - u) <= b /\ v + (b - u) \in Int /\ b - u \in Int
    BY <1>17
  <2> QED
    BY <1>22, <2>1, <2>2
<1>25. i + 1 <= n - 1
  <2>1. PICK m \in Nat : m = n /\ i \in 0 .. m - 1
    BY <1>1, <1>2
  <2>2. m - i # 1
    BY <1>11, <2>1
  <2>3. i + 1 <= m - 1
    BY <2>1, <2>2
  <2> QED
    BY <2>1, <2>3
<1>26. IsPartial(q, lat, N, E)
  BY <1>5, <1>9, <1>12, <1>13, <1>15, <1>21, <1>22, <1>23, <1>24 DEF IsPartial, c
<1> QED
  BY <1>1, <1>24, <1>25, <1>26

\* The paths f that leave what Complete follows at the i-th node, counted from 0.
Leaves(q, p, hist, i) ==
  \A f : Covers(q, f) =>
    /\ Covers(p, f) /\ \A m \in 0 .. i - 1 : f[p.node_length - m] = hist[m]
    /\ f[p.node_length - i] # hist[i]

\* What such a path has of the one it leaves.
LEMMA SecondCovers ==
  ASSUME model \in Models, length \in Nat, NEW lat, Lattice(lat, length - 1),
         NEW N, NEW E, Within(lat, length - 1, N),
         NEW p, IsPartial(p, lat, N, E),
         NEW hist, IsTrail(hist, lat, p.node_length, p.path[1].prev[p.packed]),
         NEW i \in 0 .. p.node_length - 1, Len(hist[i].prev) > 1,
         NEW q, q = SecondBest(Crumb(hist, i, p.path), p.node_length - 1 - i, p.score)
  PROVE  Leaves(q, p, hist, i + 1)
<1> SUFFICES ASSUME NEW f, Covers(q, f)
             PROVE  /\ Covers(p, f) /\ \A m \in 0 .. i + 1 - 1 : f[p.node_length - m] = hist[m]
                    /\ f[p.node_length - (i + 1)] # hist[i + 1]
  BY DEF Leaves
<1>1. PICK n, path : n = p.node_length /\ path = p.path
  OBVIOUS
<1> DEFINE c == Crumb(hist, i, path)
           h == hist[i]
<1>2. /\ n \in 1 .. length - 1 /\ Len(path) \in Nat \ {0}
      /\ p.packed \in 1 .. Len(p.path[1].prev) /\ Len(p.path[1].prev) \in Nat
  BY <1>1, PartialFields
<1>3. i + 1 <= n - 1 /\ IsPartial(q, lat, N, E)
  BY <1>1, SecondFine
<1>4. path \in Seq(N) /\ length - 1 \in Nat
  <2>1. length - 1 \in Nat
    BY <1>2
  <2>2. LeadsToEnd(path, N, E)
    BY <1>1 DEF IsPartial
  <2> QED
    BY <2>1, <2>2 DEF LeadsToEnd
<1>5. Along(hist, i, N)
  BY <1>1, <1>2, <1>4, TrailWithin
<1>6. i \in Nat
  BY <1>5 DEF Along
<1>7. /\ Len(c) = i + 1 + Len(path) /\ \A j \in 1 .. i + 1 : c[j] = hist[i + 1 - j]
      /\ \A j \in 1 .. Len(path) : c[i + 1 + j] = path[j]
  <2>1. Joined(c, hist, i, path)
    BY <1>4, <1>5, CrumbIs
  <2> HIDE DEF c
  <2> QED
    BY <2>1 DEF Joined
<1> HIDE DEF c
<1>8. q.packed = 2 /\ q.path = c /\ q.node_length = n - 1 - i
  <2>1. q = SecondBest(c, n - 1 - i, p.score)
    BY <1>1 DEF c
  <2> QED
    BY <2>1 DEF SecondBest
<1>9. /\ Len(f) = n - 1 - i + Len(c)
      /\ \A j \in 1 .. Len(c) : f[n - 1 - i + j] = c[j]
  <2>1. /\ Len(f) = q.node_length + Len(q.path)
        /\ \A j \in 1 .. Len(q.path) : f[q.node_length + j] = q.path[j]
    BY DEF Covers, WordCount
  <2>2. PICK d : d = n - 1 - i /\ q.node_length = d /\ q.path = c
    BY <1>8
  <2>3. Len(f) = d + Len(c) /\ \A j \in 1 .. Len(c) : f[d + j] = c[j]
    BY <2>1, <2>2
  <2> QED
    BY <2>2, <2>3
<1>10. PICK k \in 2 .. Len(c[1].prev) : f[n - 1 - i] = c[1].prev[k]
  BY <1>8 DEF Covers
<1>11. Len(f) = WordCount(p)
  <2>1. PICK l \in Nat \ {0} : l = Len(path) /\ Len(c) = i + 1 + l
    BY <1>2, <1>7
  <2>2. n - 1 - i + (i + 1 + l) = n + l
    BY <1>2, <1>6
  <2> QED
    BY <1>1, <1>9, <2>1, <2>2 DEF WordCount
<1>12. ASSUME NEW j \in 1 .. Len(path) PROVE f[n + j] = path[j]
  <2>1. i + 1 + j \in 1 .. Len(c) /\ n - 1 - i + (i + 1 + j) = n + j
    BY <1>2, <1>6, <1>7
  <2> QED
    BY <1>7, <1>9, <2>1
<1>13. ASSUME NEW m \in 0 .. i PROVE f[n - m] = hist[m]
  <2>1. PICK j \in 1 .. i + 1 : j = i + 1 - m
    OBVIOUS
  <2>2. j \in 1 .. Len(c) /\ n - 1 - i + j = n - m /\ i + 1 - j = m
    BY <1>2, <1>6, <1>7, <2>1
  <2> QED
    BY <1>7, <1>9, <2>2
<1>14. f[n] = p.path[1].prev[p.packed]
  <2>1. f[n - 0] = hist[0] /\ n - 0 = n
    BY <1>2, <1>13
  <2> QED
    BY <2>1 DEF IsTrail
<1>15. Covers(p, f)
  <2>1. p.packed \in p.packed .. Len(p.path[1].prev)
    BY <1>2
  <2> QED
    BY <1>1, <1>11, <1>12, <1>14, <2>1 DEF Covers
<1>16. c[1] = h /\ n - 1 - i = n - (i + 1)
  BY <1>2, <1>6, <1>7
<1>17. hist[i + 1] = h.prev[1]
  <2>1. i + 1 \in 1 .. n - 1 /\ i + 1 - 1 = i
    BY <1>2, <1>3
  <2> QED
    BY <1>1, <2>1 DEF IsTrail
<1>18. IsNode(h, lat[n - 1 - i])
  BY <1>3, <1>8, <1>16 DEF IsPartial
<1>19. h.prev[1] # h.prev[k]
  <2>1. h.prev \in Seq(lat[n - 1 - i])
    BY <1>18 DEF IsNode
  <2>2. 1 \in 1 .. Len(h.prev) /\ k \in 1 .. Len(h.prev) /\ 1 < k
    BY <1>10, <1>16, <2>1
  <2> QED
    BY <1>18, <2>2 DEF IsNode
<1> QED
  <2>1. i + 1 - 1 = i
    BY <1>6
  <2> QED
    BY <1>1, <1>10, <1>13, <1>15, <1>16, <1>17, <1>19, <2>1

\* The whole path.
LEMMA WholePath ==
  ASSUME model \in Models, length \in Nat, NEW lat, Lattice(lat, length - 1),
         NEW N, NEW E, Within(lat, length - 1, N),
         NEW p, IsPartial(p, lat, N, E),
         NEW hist, IsTrail(hist, lat, p.node_length, p.path[1].prev[p.packed]),
         hist[p.node_length - 1] = RootHistory,
         NEW f, f = Crumb(hist, p.node_length - 1, p.path)
  PROVE  /\ LeadsToEnd(f, N, E) /\ f[1] = RootHistory
         /\ Covers(p, f) /\ \A m \in 0 .. p.node_length - 1 : f[p.node_length - m] = hist[m]
<1>0. PICK n, path : n = p.node_length /\ path = p.path
  OBVIOUS
<1>1. /\ n \in 1 .. length - 1 /\ Len(path) \in Nat \ {0}
      /\ p.packed \in 1 .. Len(p.path[1].prev) /\ Len(p.path[1].prev) \in Nat
      /\ DOMAIN p.path[1].prev = 1 .. Len(p.path[1].prev)
  BY <1>0, PartialFields
<1>2. p.path[1].prev[p.packed] \in Range(p.path[1].prev)
  BY <1>1 DEF Range
<1>3. length - 1 \in Nat /\ LeadsToEnd(path, N, E) /\ path \in Seq(N) /\ n - 1 \in 0 .. n - 1 /\ n - 1 \in Nat
  <2>1. length - 1 \in Nat /\ n - 1 \in 0 .. n - 1 /\ n - 1 \in Nat
    BY <1>1
  <2>2. LeadsToEnd(path, N, E)
    BY <1>0 DEF IsPartial
  <2> QED
    BY <2>1, <2>2 DEF LeadsToEnd
<1>4. LeadsToEnd(f, N, E)
  BY <1>0, <1>1, <1>2, <1>3, CrumbLeads DEF Within
<1>5. Along(hist, n - 1, N)
  BY <1>0, <1>1, <1>3, TrailWithin
<1>6. PICK i \in Nat : i = n - 1 /\ i + 1 = n
  BY <1>1, <1>3
<1>7. /\ Len(f) = i + 1 + Len(path) /\ \A j \in 1 .. i + 1 : f[j] = hist[i + 1 - j]
      /\ \A j \in 1 .. Len(path) : f[i + 1 + j] = path[j]
  <2>1. Along(hist, i, N)
    BY <1>5, <1>6
  <2>2. f = Crumb(hist, i, path)
    BY <1>0, <1>6
  <2>3. Joined(f, hist, i, path)
    BY <1>3, <2>1, <2>2, CrumbIs
  <2> QED
    BY <2>3 DEF Joined
<1>8. /\ Len(f) = n + Len(path) /\ \A j \in 1 .. n : f[j] = hist[n - j]
      /\ \A j \in 1 .. Len(path) : f[n + j] = path[j]
  <2>1. Len(f) = n + Len(path)
    BY <1>6, <1>7
  <2>2. \A j \in 1 .. n : f[j] = hist[n - j]
    BY <1>6, <1>7
  <2>3. \A j \in 1 .. Len(path) : f[n + j] = path[j]
    BY <1>6, <1>7
  <2> QED
    BY <2>1, <2>2, <2>3
<1>9. f[1] = RootHistory
  BY <1>0, <1>1, <1>8
<1>10. ASSUME NEW m \in 0 .. n - 1 PROVE f[n - m] = hist[m]
  <2>1. n - m \in 1 .. n /\ n - (n - m) = m
    BY <1>1
  <2> QED
    BY <1>8, <2>1
<1>11. Covers(p, f)
  <2>1. p.packed \in p.packed .. Len(p.path[1].prev)
    BY <1>1
  <2>2. f[n - 0] = hist[0] /\ n - 0 = n
    BY <1>1, <1>10
  <2>3. f[n] = p.path[1].prev[p.packed]
    BY <2>2 DEF IsTrail
  <2>4. Len(f) = WordCount(p)
    BY <1>0, <1>8 DEF WordCount
  <2> QED
    BY <1>0, <1>8, <2>1, <2>3, <2>4 DEF Covers
<1> QED
  BY <1>0, <1>4, <1>9, <1>10, <1>11

\* No path is stood for twice, and none that is listed already.
Apart(D, F) ==
  /\ \A p, q \in D : \A f : Covers(p, f) /\ Covers(q, f) => p = q
  /\ \A p \in D, i \in DOMAIN F : ~Covers(p, F[i].path)
  /\ \A i, j \in DOMAIN F : i < j => F[i].path # F[j].path

\* Taking one partial history out for paths that it stands for, without the one that is listed.
LEMMA StaysApart ==
  ASSUME NEW T, NEW F \in Seq(T), NEW D, Apart(D, F), NEW top \in D, NEW x, Covers(top, x.path),
         NEW X, \A q \in X : ~Covers(q, x.path),
         \A q \in X : \A f : Covers(q, f) => Covers(top, f),
         \A q, r \in X : \A f : Covers(q, f) /\ Covers(r, f) => q = r
  PROVE  Apart((D \ {top}) \cup X, Append(F, x))
<1> DEFINE E == (D \ {top}) \cup X
           G == Append(F, x)
           n == Len(F)
<1>1. /\ n \in Nat /\ DOMAIN F = 1 .. n /\ DOMAIN G = 1 .. n + 1 /\ G[n + 1] = x
      /\ \A i \in 1 .. n : G[i] = F[i]
  OBVIOUS
<1>2. ASSUME NEW p \in E, NEW q \in E, NEW f, Covers(p, f), Covers(q, f) PROVE p = q
  <2>1. \A r \in D : Covers(r, f) /\ Covers(top, f) => r = top
    BY DEF Apart
  <2>2. \A r \in D, t \in D : Covers(r, f) /\ Covers(t, f) => r = t
    BY DEF Apart
  <2> QED
    BY <1>2, <2>1, <2>2
<1>3. \A p \in D : Covers(p, x.path) => p = top
  BY DEF Apart
<1>4. ASSUME NEW p \in E, NEW i \in 1 .. n + 1 PROVE ~Covers(p, G[i].path)
  <2>1. CASE i = n + 1
    BY <1>1, <1>3, <2>1
  <2>2. CASE i # n + 1
    <3>1. i \in 1 .. n /\ G[i] = F[i]
      BY <1>1, <2>2
    <3>2. \A r \in D : ~Covers(r, F[i].path)
      BY <1>1, <3>1 DEF Apart
    <3>3. CASE p \in X
      <4>1. Covers(p, G[i].path) => Covers(top, G[i].path)
        BY <3>3
      <4> QED
        BY <3>1, <3>2, <4>1
    <3> QED
      BY <3>1, <3>2, <3>3
  <2> QED
    BY <2>1, <2>2
<1>5. ASSUME NEW i \in 1 .. n + 1, NEW j \in 1 .. n + 1, i < j PROVE G[i].path # G[j].path
  <2>1. i \in 1 .. n /\ G[i] = F[i]
    BY <1>1, <1>5
  <2>2. CASE j = n + 1
    <3>1. ~Covers(top, F[i].path)
      BY <1>1, <2>1 DEF Apart
    <3> QED
      BY <1>1, <2>1, <2>2, <3>1
  <2>3. CASE j # n + 1
    <3>1. j \in 1 .. n /\ G[j] = F[j]
      BY <1>1, <2>3
    <3> QED
      BY <1>1, <1>5, <2>1, <3>1 DEF Apart
  <2> QED
    BY <2>2, <2>3
<1> HIDE DEF E, G
<1>6. Apart(E, G)
  BY <1>1, <1>2, <1>4, <1>5 DEF Apart
<1> QED
  BY <1>6 DEF E, G

\* All histories, those that end a sentence too.
Nodes(lat) == Values(ending) \cup UNION {lat[m] : m \in 1 .. length - 1}

\* The layers that are finished, the current one being the last of them.
Layered(lat) ==
  /\ Lattice(lat, length - 1)
  /\ agenda \in Seq([history : lat[length - 1], arc : Arcs])
  /\ BeamFine(next) /\ \A h \in Values(next) : IsHyp(h, lat[length - 1], DOMAIN model.arcs)
  /\ BeamFine(ending) /\ \A e \in Values(ending) : IsEnd(e, lat, length)

\* What is queued and what is listed: paths of the lattice, each score no lower
\* than those to come, and no path twice in whatever way it is reached.
Listed(lat) ==
  /\ \A p \in delayed : IsPartial(p, lat, Nodes(lat), Values(ending))
  /\ finished \in Seq([score : Int, path : Seq(Nodes(lat))])
  /\ \A i \in DOMAIN finished : /\ finished[i].path[1] = RootHistory
                                /\ LeadsToEnd(finished[i].path, Nodes(lat), Values(ending))
  /\ \A i \in DOMAIN finished, p \in delayed : finished[i].score >= p.score
  /\ \A i, j \in DOMAIN finished : i < j => finished[i].score >= finished[j].score
  /\ Apart(delayed, finished)

\* The inductive invariant: there are such layers. They are in no variable, for
\* the agenda, the beams and the partial histories hold the histories.
DecoderIInv ==
  /\ model \in Models /\ length \in Nat /\ length >= 2
  /\ pc = "extend" => delayed = {} /\ finished = <<>>
  /\ \E lat : Layered(lat) /\ Listed(lat)

\* The assumption, for all arcs.
LEMMA ArcFacts ==
  ASSUME model \in Models
  PROVE  /\ model.root \in DOMAIN model.arcs
         /\ \A a \in Arcs : a.gain \in Int /\ a.to \in DOMAIN model.arcs \cup {Ended, Dropped}
         /\ \A p \in DOMAIN model.arcs : model.arcs[p] \in Seq(Arcs)
<1>1. /\ model.root \in DOMAIN model.arcs
      /\ \A p \in DOMAIN model.arcs :
         /\ model.arcs[p] \in Seq(Range(model.arcs[p]))
         /\ \A a \in Range(model.arcs[p]) : /\ a.gain \in Int
                                            /\ a.to \in DOMAIN model.arcs \cup {Ended, Dropped}
  BY DecoderAssumption
<1>2. ASSUME NEW a \in Arcs PROVE a.gain \in Int /\ a.to \in DOMAIN model.arcs \cup {Ended, Dropped}
  <2>1. PICK p \in DOMAIN model.arcs : \E i \in DOMAIN model.arcs[p] : a = model.arcs[p][i]
    BY DEF Arcs
  <2>2. a \in Range(model.arcs[p])
    BY <2>1 DEF Range
  <2> QED
    BY <1>1, <2>2
<1>3. ASSUME NEW p \in DOMAIN model.arcs PROVE model.arcs[p] \in Seq(Arcs)
  <2>1. Range(model.arcs[p]) \subseteq Arcs
    BY DEF Range, Arcs
  <2>2. PICK s : s = model.arcs[p]
    OBVIOUS
  <2>3. s \in Seq(Range(s)) /\ Range(s) \subseteq Arcs
    BY <1>1, <2>1, <2>2
  <2>4. \A i \in 1 .. Len(s) : s[i] \in Arcs
    BY <2>3
  <2>5. s \in Seq(Arcs)
    BY <2>3, <2>4
  <2> QED
    BY <2>2, <2>5
<1> QED
  BY <1>1, <1>2, <1>3

\* The calls for one history.
LEMMA ExtensionsFine ==
  ASSUME model \in Models, NEW S, NEW history \in S, NEW payload \in DOMAIN model.arcs
  PROVE  Extensions(history, payload) \in Seq([history : S, arc : Arcs])
<1>1. PICK s : s = model.arcs[payload]
  OBVIOUS
<1>2. s \in Seq(Arcs)
  BY <1>1, ArcFacts
<1>3. Extensions(history, payload) = [i \in 1 .. Len(s) |-> [history |-> history, arc |-> s[i]]]
  BY <1>1, <1>2 DEF Extensions
<1>4. \A i \in 1 .. Len(s) : [history |-> history, arc |-> s[i]] \in [history : S, arc : Arcs]
  BY <1>2
<1>5. Len(s) \in Nat
  BY <1>2
<1> QED
  BY <1>3, <1>4, <1>5

\* Nothing is listed while layers are made.
LEMMA ListedNothing ==
  ASSUME NEW lat, delayed' = {}, finished' = <<>>
  PROVE  Listed(lat)'
BY DEF Listed, Apart

\* The root is the first layer.
LEMMA DecoderStarts ==
  ASSUME DecoderInit
  PROVE  DecoderIInv
<1> DEFINE lat == [m \in {1} |-> {RootHistory}]
<1>1. /\ model \in Models /\ length = 2 /\ pc = "extend" /\ delayed = {} /\ finished = <<>>
      /\ agenda = Extensions(RootHistory, model.root)
      /\ next = Reset(model.internal_beam_size) /\ ending = Reset(model.end_beam_size)
  BY InternalSame, EndSame DEF DecoderInit
<1>2. model.root \in DOMAIN model.arcs
  BY <1>1, ArcFacts
<1>3. lat[1] = {RootHistory} /\ length - 1 = 1
  BY <1>1
<1> HIDE DEF lat
<1>4. agenda \in Seq([history : lat[length - 1], arc : Arcs])
  BY <1>1, <1>2, <1>3, ExtensionsFine
<1>5. BeamFine(next) /\ Values(next) = {} /\ BeamFine(ending) /\ Values(ending) = {}
  BY <1>1, ResetFine
<1>6. Lattice(lat, length - 1)
  BY <1>3 DEF Lattice
<1>7. Layered(lat)
  BY <1>4, <1>5, <1>6 DEF Layered
<1>8. Listed(lat)
  BY <1>1 DEF Listed, Apart
<1> QED
  BY <1>1, <1>7, <1>8 DEF DecoderIInv

\* The calls of the next layer are about its histories.
LEMMA AgendasFine ==
  ASSUME model \in Models, NEW S, NEW order, Len(order) \in Nat,
         \A i \in 1 .. Len(order) : order[i].key \in DOMAIN model.arcs,
         \A i \in 1 .. Len(order) : FinishMerging(order[i]) \subseteq S,
         NEW b \in Agendas(order)
  PROVE  b \in Seq([history : S, arc : Arcs])
<1> DEFINE n == Len(order)
           begun == CHOOSE g : g = [i \in 0 .. n |->
                      IF i = 0 THEN {<<>>}
                      ELSE {a \o Extensions(history, order[i].key) :
                              a \in g[i - 1], history \in FinishMerging(order[i])}]
<1>1. b \in begun[n]
  BY DEF Agendas
<1>2. /\ n \in Nat
       /\ \A i \in 1 .. n : order[i].key \in DOMAIN model.arcs /\ FinishMerging(order[i]) \subseteq S
  OBVIOUS
<1> HIDE DEF n
<1> DEFINE T == [history : S, arc : Arcs]
           V == SUBSET Seq(T)
           More(i, A) == {a \o Extensions(history, order[i].key) :
                            a \in A, history \in FinishMerging(order[i])}
           op == [p \in (1 .. n) \X V |-> More(p[1], p[2])]
           Good(g) == g = [i \in 0 .. n |-> IF i = 0 THEN {<<>>} ELSE More(i, g[i - 1])]
<1>3. ASSUME NEW i \in 1 .. n, NEW A \in V PROVE More(i, A) \in V
  <2>1. ASSUME NEW a \in A, NEW history \in FinishMerging(order[i])
        PROVE  a \o Extensions(history, order[i].key) \in Seq(T)
    <3>1. history \in S /\ order[i].key \in DOMAIN model.arcs /\ a \in Seq(T)
      BY <1>2
    <3>2. Extensions(history, order[i].key) \in Seq(T)
      BY <3>1, ExtensionsFine
    <3> HIDE DEF T
    <3> QED
      BY <3>1, <3>2
  <2>2. ASSUME NEW x \in More(i, A) PROVE x \in Seq(T)
    <3>1. PICK a \in A, history \in FinishMerging(order[i]) : x = a \o Extensions(history, order[i].key)
      BY <2>2
    <3> HIDE DEF T
    <3> QED
      BY <2>1, <3>1
  <2> HIDE DEF T, More
  <2> QED
    BY <2>2
<1>4. {<<>>} \in V
  <2> HIDE DEF T
  <2> QED
    OBVIOUS
<1>5. op \in [(1 .. n) \X V -> V]
  <2> HIDE DEF More, V
  <2> QED
    BY <1>3
<1>6. \A i \in 1 .. n, A \in V : op[<<i, A>>] = More(i, A)
  <2> HIDE DEF More, V
  <2> QED
    OBVIOUS
<1>7. PICK f \in [0 .. n -> V] : Recursion(n, {<<>>}, op, f)
  <2> HIDE DEF op, V
  <2> QED
    BY <1>2, <1>4, <1>5, RecursionExists
<1> HIDE DEF op, V
<1>8. Good(f)
  <2>1. f[0] = {<<>>}
    BY <1>7 DEF Recursion
  <2>2. ASSUME NEW i \in 0 .. n, i # 0 PROVE f[i] = More(i, f[i - 1])
    <3>1. i \in 1 .. n /\ i - 1 \in 0 .. n
      BY <1>2, <2>2
    <3>2. f[i] = op[<<i, f[i - 1]>>]
      BY <1>7, <3>1 DEF Recursion
    <3>3. f[i - 1] \in V
      BY <3>1
    <3> HIDE DEF More
    <3> QED
      BY <1>6, <3>1, <3>2, <3>3
  <2> HIDE DEF More
  <2> QED
    BY <2>1, <2>2
<1> HIDE DEF begun
<1>9. Good(begun)
  <2>1. \E g : Good(g)
    <3> HIDE DEF Good
    <3> QED
      BY <1>8
  <2>2. begun = CHOOSE g : Good(g)
    BY DEF begun
  <2> HIDE DEF Good
  <2> QED
    BY <2>1, <2>2
<1> DEFINE e == [i \in 0 .. n |-> IF i = 0 THEN {<<>>} ELSE More(i, begun[i - 1])]
           P == {i \in 0 .. n : begun[i] \in V}
<1> HIDE DEF More
<1>10. begun = e
  BY <1>9
<1> HIDE DEF Good
<1>11. e[0] = {<<>>} /\ \A i \in 0 .. n - 1 : e[i + 1] = More(i + 1, begun[i])
  BY <1>2
<1> HIDE DEF e
<1>12. begun[0] = {<<>>} /\ \A i \in 0 .. n - 1 : begun[i + 1] = More(i + 1, begun[i])
  BY <1>10, <1>11
<1>13. 0 \in P
  <2>1. begun[0] = {<<>>}
    BY <1>12
  <2>2. begun[0] \in V
    BY <1>4, <2>1
  <2>3. 0 \in 0 .. n
    BY <1>2
  <2> QED
    BY <2>2, <2>3
<1>14. \A i \in 0 .. n - 1 : i \in P => i + 1 \in P
  <2>1. ASSUME NEW i \in 0 .. n - 1, i \in P PROVE i + 1 \in P
    <3>1. i + 1 \in 1 .. n /\ i + 1 \in 0 .. n /\ begun[i] \in V
      BY <1>2, <2>1
    <3>2. begun[i + 1] \in V
      BY <1>3, <1>12, <3>1
    <3> QED
      BY <3>1, <3>2
  <2> QED
    BY <2>1
<1> HIDE DEF P
<1>15. 0 .. n \subseteq P
  BY <1>2, <1>13, <1>14, UpTo
<1>16. begun[n] \in V
  <2>1. n \in P
    BY <1>2, <1>15
  <2> QED
    BY <2>1 DEF P
<1> QED
  BY <1>1, <1>16 DEF V

\* A step that offers a sentence to the end beam.
LEMMA ExtendToEndKeeps ==
  ASSUME DecoderIInv, ExtendToEnd
  PROVE  DecoderIInv'
<1>1. /\ pc = "extend" /\ agenda # <<>> /\ agenda' = Tail(agenda) /\ model' = model /\ next' = next
      /\ length' = length /\ delayed' = delayed /\ finished' = finished /\ pc' = pc
  BY DEF ExtendToEnd
<1>2. model \in Models /\ length \in Nat /\ length >= 2 /\ delayed = {} /\ finished = <<>>
  BY <1>1 DEF DecoderIInv
<1>3. PICK lat : Layered(lat) /\ Listed(lat)
  BY DEF DecoderIInv
<1> DEFINE S == lat[length - 1]
           T == [history : S, arc : Arcs]
<1>4. agenda \in Seq(T) /\ Lattice(lat, length - 1)
      /\ BeamFine(ending) /\ \A e \in Values(ending) : IsEnd(e, lat, length)
  BY <1>3 DEF Layered
<1>5. Head(agenda) \in T /\ Tail(agenda) \in Seq(T)
  <2> HIDE DEF T
  <2> QED
    BY <1>1, <1>4
<1>6. PICK start \in S, arc \in Arcs : Head(agenda) = [history |-> start, arc |-> arc]
  BY <1>5
<1>7. start.score \in Int /\ arc.gain \in Int
  <2>1. length - 1 \in Nat /\ length - 1 \in 1 .. length - 1
    BY <1>2
  <2>2. start.score \in Int
    BY <1>4, <2>1, NodeScores
  <2> QED
    BY <1>2, <2>2, ArcFacts
<1>8. PICK hyp : hyp = EndingHypothesis(start, arc)
  OBVIOUS
<1>9. hyp.length = length /\ hyp.prev = <<start>>
      /\ hyp.score = Normalize(start.score + arc.gain, length)
  BY <1>8 DEF EndingHypothesis
<1>10. IsEnd(hyp, lat, length)
  <2>1. start.score + arc.gain \in Int /\ length \in Nat \ {0}
    BY <1>2, <1>7
  <2>2. hyp.score \in Int
    BY <1>2, <1>9, <2>1, NormalizeOrder
  <2>3. hyp.prev \in Seq(S) /\ Len(hyp.prev) = 1 /\ hyp.prev # <<>>
    <3> HIDE DEF S
    <3>1. <<start>> \in Seq(S) /\ Len(<<start>>) = 1 /\ <<start>> # <<>>
      OBVIOUS
    <3> QED
      BY <1>9, <3>1
  <2>4. IsNode(hyp, S)
    BY <2>2, <2>3 DEF IsNode
  <2>5. hyp.length \in 2 .. length
    BY <1>2, <1>9
  <2> QED
    BY <1>9, <2>4, <2>5 DEF IsEnd
<1>11. ending' = ending \/ ending' \in EndBeam!InsertAvailable(ending, hyp)
  BY <1>6, <1>8 DEF ExtendToEnd
<1>12. BeamFine(ending') /\ Values(ending') \subseteq Values(ending) \cup {hyp}
  <2>1. CASE ending' = ending
    BY <1>4, <2>1
  <2>2. CASE ending' \in EndBeam!InsertAvailable(ending, hyp)
    <3>1. hyp \in Values(ending) \cup {hyp} /\ Values(ending) \subseteq Values(ending) \cup {hyp}
      OBVIOUS
    <3> QED
      BY <1>4, <2>2, <3>1, EndInsert
  <2> QED
    BY <1>11, <2>1, <2>2
<1>13. Arcs' = Arcs
  BY <1>1 DEF Arcs
<1>14. (agenda \in Seq([history : lat[length - 1], arc : Arcs]))'
  BY <1>1, <1>5, <1>13
<1>15. (BeamFine(next) /\ \A h \in Values(next) : IsHyp(h, lat[length - 1], DOMAIN model.arcs))'
  BY <1>1, <1>3 DEF Layered
<1>16. \A e \in Values(ending') : IsEnd(e, lat, length)
  BY <1>4, <1>10, <1>12
<1>17. Layered(lat)'
  BY <1>1, <1>4, <1>12, <1>14, <1>15, <1>16 DEF Layered
<1>18. Listed(lat)'
  BY <1>1, <1>2, ListedNothing
<1> QED
  BY <1>1, <1>2, <1>17, <1>18 DEF DecoderIInv

\* A step that merges into next_, or drops or rejects a hypothesis.
LEMMA ExtendToNextKeeps ==
  ASSUME DecoderIInv, ExtendToNext
  PROVE  DecoderIInv'
<1>1. /\ pc = "extend" /\ agenda # <<>> /\ agenda' = Tail(agenda) /\ model' = model /\ ending' = ending
      /\ length' = length /\ delayed' = delayed /\ finished' = finished /\ pc' = pc
      /\ Head(agenda).arc.to # Ended
  BY DEF ExtendToNext
<1>2. model \in Models /\ length \in Nat /\ length >= 2 /\ delayed = {} /\ finished = <<>>
  BY <1>1 DEF DecoderIInv
<1>3. PICK lat : Layered(lat) /\ Listed(lat)
  BY DEF DecoderIInv
<1> DEFINE S == lat[length - 1]
           T == [history : S, arc : Arcs]
           K == DOMAIN model.arcs
<1>4. agenda \in Seq(T) /\ Lattice(lat, length - 1)
      /\ BeamFine(next) /\ \A h \in Values(next) : IsHyp(h, S, K)
      /\ BeamFine(ending) /\ \A e \in Values(ending) : IsEnd(e, lat, length)
  BY <1>3 DEF Layered
<1>5. Head(agenda) \in T /\ Tail(agenda) \in Seq(T)
  <2> HIDE DEF T
  <2> QED
    BY <1>1, <1>4
<1>6. PICK start \in S, arc \in Arcs : Head(agenda) = [history |-> start, arc |-> arc]
  BY <1>5
<1>7. start.score \in Int /\ arc.gain \in Int /\ arc.to # Ended /\ arc.to \in K \cup {Ended, Dropped}
  <2>1. length - 1 \in Nat /\ length - 1 \in 1 .. length - 1
    BY <1>2
  <2>2. start.score \in Int
    BY <1>4, <2>1, NodeScores
  <2> QED
    BY <1>1, <1>2, <1>6, <2>2, ArcFacts
<1>8. PICK hyp : hyp = InternalHypothesis(start, arc)
  OBVIOUS
<1>9. next' = next \/ (next' \in InternalBeam!InsertAvailable(next, hyp) /\ arc.to \in K)
  BY <1>6, <1>7, <1>8 DEF ExtendToNext
<1>10. hyp = [key |-> arc.to, word |-> arc.word, loc |-> arc.loc, score |-> start.score + arc.gain,
              previous |-> UseAvailable(Reset(model.end_beam_size), start)]
  BY <1>8, HistorySame DEF InternalHypothesis
<1>11. ASSUME arc.to \in K PROVE IsHyp(hyp, S, K)
  <2>1. PICK r : /\ r = Reset(model.end_beam_size) /\ BeamFine(r) /\ Values(r) = {}
                 /\ r.size = 0 /\ r.available = r.size
    BY ResetFine
  <2>2. PICK p : p = UseAvailable(r, start)
    OBVIOUS
  <2>3. BeamFine(p) /\ p.size = 1 /\ Values(p) \subseteq {start}
    BY <2>1, <2>2, UseFine
  <2>4. hyp = [key |-> arc.to, word |-> arc.word, loc |-> arc.loc, score |-> start.score + arc.gain,
               previous |-> p]
    BY <1>10, <2>1, <2>2
  <2>5. hyp.key = arc.to /\ hyp.word = arc.word /\ hyp.loc = arc.loc
        /\ hyp.score = start.score + arc.gain /\ hyp.previous = p
    BY <2>4
  <2>6. hyp.score \in Int
    BY <1>7, <2>5
  <2> QED
    BY <1>11, <2>3, <2>4, <2>5, <2>6 DEF IsHyp
<1>12. BeamFine(next') /\ \A h \in Values(next') : IsHyp(h, S, K)
  <2>1. CASE next' = next
    BY <1>4, <2>1
  <2>2. CASE next' \in InternalBeam!InsertAvailable(next, hyp) /\ arc.to \in K
    BY <1>4, <1>11, <2>2, InternalInsert
  <2> QED
    BY <1>9, <2>1, <2>2
<1>13. Arcs' = Arcs
  BY <1>1 DEF Arcs
<1>14. (agenda \in Seq([history : lat[length - 1], arc : Arcs]))'
  BY <1>1, <1>5, <1>13
<1>15. (BeamFine(next) /\ \A h \in Values(next) : IsHyp(h, lat[length - 1], DOMAIN model.arcs))'
  BY <1>1, <1>12
<1>16. (BeamFine(ending) /\ \A e \in Values(ending) : IsEnd(e, lat, length))'
  BY <1>1, <1>3 DEF Layered
<1>17. Lattice(lat, length - 1)'
  BY <1>1, <1>4
<1>18. Layered(lat)'
  BY <1>14, <1>15, <1>16, <1>17 DEF Layered
<1>19. Listed(lat)'
  BY <1>1, <1>2, ListedNothing
<1> QED
  BY <1>1, <1>2, <1>18, <1>19 DEF DecoderIInv

\* A step that makes the hypotheses a layer.
LEMMA NextLayerKeeps ==
  ASSUME DecoderIInv, NextLayer
  PROVE  DecoderIInv'
<1>1. /\ pc = "extend" /\ model' = model /\ ending' = ending /\ length' = length + 1
      /\ delayed' = delayed /\ finished' = finished /\ pc' = pc
      /\ next' = Reset(model.internal_beam_size)
  BY InternalSame DEF NextLayer
<1>2. model \in Models /\ length \in Nat /\ length >= 2 /\ delayed = {} /\ finished = <<>>
  BY <1>1 DEF DecoderIInv
<1>3. PICK lat : Layered(lat) /\ Listed(lat)
  BY DEF DecoderIInv
<1>4. /\ Lattice(lat, length - 1)
      /\ BeamFine(next) /\ \A h \in Values(next) : IsHyp(h, lat[length - 1], DOMAIN model.arcs)
      /\ BeamFine(ending) /\ \A e \in Values(ending) : IsEnd(e, lat, length)
  BY <1>3 DEF Layered
<1>5. PICK layer : layer = UNION {FinishMerging(hyp) : hyp \in Values(next)}
  OBVIOUS
<1>6. PICK more : more = [m \in 1 .. length |-> IF m = length THEN layer ELSE lat[m]]
  OBVIOUS
<1>7. /\ more[length] = layer
      /\ \A m \in 1 .. length - 1 : more[m] = lat[m]
  BY <1>2, <1>6
<1>8. ASSUME NEW h \in layer PROVE IsNode(h, lat[length - 1])
  <2>1. PICK hyp \in Values(next) : h \in FinishMerging(hyp)
    BY <1>5
  <2> QED
    BY <1>4, <2>1, FinishFine
<1>9. Lattice(more, length)
  <2>1. more[1] = {RootHistory}
    BY <1>2, <1>4, <1>7 DEF Lattice
  <2>2. ASSUME NEW m \in 2 .. length, NEW h \in more[m] PROVE IsNode(h, more[m - 1])
    <3>1. m - 1 \in 1 .. length - 1 /\ more[m - 1] = lat[m - 1]
      BY <1>2, <1>7
    <3>2. CASE m = length
      BY <1>7, <1>8, <3>1, <3>2
    <3>3. CASE m # length
      <4>1. m \in 2 .. length - 1 /\ m \in 1 .. length - 1
        BY <1>2, <3>3
      <4> QED
        BY <1>4, <1>7, <3>1, <4>1 DEF Lattice
    <3> QED
      BY <3>2, <3>3
  <2> QED
    BY <2>1, <2>2 DEF Lattice
<1>10. agenda' \in Seq([history : layer, arc : Arcs])
  <2>1. PICK order \in InternalBeam!DecreasingOrders(next) : agenda' \in Agendas(order)
    BY DEF NextLayer
  <2>2. PICK n \in Nat : n = next.size
    BY <1>4 DEF BeamFine
  <2>8. order \in [1 .. n -> Values(next)]
    BY <2>2, InternalSame DEF DecreasingOrders
  <2>3. order \in [1 .. n -> Values(next)] /\ Len(order) = n
    BY <2>8
  <2>4. \A i \in 1 .. Len(order) : order[i].key \in DOMAIN model.arcs
    BY <1>4, <2>3 DEF IsHyp
  <2>5. \A i \in 1 .. Len(order) : FinishMerging(order[i]) \subseteq layer
    BY <1>5, <2>3
  <2>6. PICK b : b = agenda'
    OBVIOUS
  <2>7. b \in Seq([history : layer, arc : Arcs])
    BY <1>2, <2>1, <2>2, <2>3, <2>4, <2>5, <2>6, AgendasFine
  <2> QED
    BY <2>6, <2>7
<1>11. length' - 1 = length
  BY <1>1, <1>2
<1>12. Lattice(more, length - 1)'
  BY <1>9, <1>11
<1>13. (agenda \in Seq([history : more[length - 1], arc : Arcs]))'
  <2>1. Arcs' = Arcs
    BY <1>1 DEF Arcs
  <2> QED
    BY <1>7, <1>10, <1>11, <2>1
<1>14. (BeamFine(next) /\ \A h \in Values(next) : IsHyp(h, more[length - 1], DOMAIN model.arcs))'
  <2>1. PICK r : r = next' /\ BeamFine(r) /\ Values(r) = {}
    BY <1>1, ResetFine
  <2> QED
    BY <2>1
<1>15. (BeamFine(ending) /\ \A e \in Values(ending) : IsEnd(e, more, length))'
  <2>1. ASSUME NEW e \in Values(ending) PROVE IsEnd(e, more, length + 1)
    <3>1. e.length \in 2 .. length /\ IsNode(e, lat[e.length - 1])
      BY <1>4 DEF IsEnd
    <3>2. e.length - 1 \in 1 .. length - 1 /\ e.length \in 2 .. length + 1
      BY <1>2, <3>1
    <3> QED
      BY <1>7, <3>1, <3>2 DEF IsEnd
  <2> QED
    BY <1>1, <1>4, <2>1
<1>16. Layered(more)'
  BY <1>12, <1>13, <1>14, <1>15 DEF Layered
<1>17. Listed(more)'
  BY <1>1, <1>2, ListedNothing
<1>18. (model \in Models /\ length \in Nat /\ length >= 2 /\ (pc = "extend" => delayed = {} /\ finished = <<>>))'
  BY <1>1, <1>2
<1> QED
  BY <1>16, <1>17, <1>18 DEF DecoderIInv

-----------------------------------

\* What is said of the lattice does not change while the list is made.
LEMMA LayeredStays ==
  ASSUME NEW lat, Layered(lat), UNCHANGED <<model, agenda, next, ending, length>>
  PROVE  Layered(lat)'
<1>1. Arcs' = Arcs
  BY DEF Arcs
<1>2. (BeamFine(next) /\ \A h \in Values(next) : IsHyp(h, lat[length - 1], DOMAIN model.arcs))'
  BY DEF Layered
<1>3. (BeamFine(ending) /\ \A e \in Values(ending) : IsEnd(e, lat, length))'
  BY DEF Layered
<1>4. (Lattice(lat, length - 1) /\ agenda \in Seq([history : lat[length - 1], arc : Arcs]))'
  BY <1>1 DEF Layered
<1> QED
  BY <1>2, <1>3, <1>4 DEF Layered

\* A partial history stays one.
LEMMA PartialStays ==
  ASSUME NEW lat, NEW N, NEW E, NEW p, IsPartial(p, lat, N, E), model' = model, length' = length
  PROVE  IsPartial(p, lat, N, E)'
BY DEF IsPartial, Through, Normalize, WordCount

\* Layers and ends are nodes.
LEMMA LatticeNodes ==
  ASSUME NEW lat
  PROVE  Values(ending) \subseteq Nodes(lat) /\ Within(lat, length - 1, Nodes(lat))
BY DEF Nodes, Within

\* The step that queues one partial history for each end of sentence.
LEMMA MakeCompletedHypothesesKeeps ==
  ASSUME DecoderIInv, MakeCompletedHypotheses
  PROVE  DecoderIInv'
<1>1. /\ pc = "extend" /\ UNCHANGED <<model, agenda, next, ending, length, finished>>
      /\ delayed' = {FirstBest(hyp) : hyp \in Values(ending)} /\ pc' \in {"done", "complete"}
  BY EndSame DEF MakeCompletedHypotheses
<1>2. model \in Models /\ length \in Nat /\ length >= 2 /\ delayed = {} /\ finished = <<>>
  BY <1>1 DEF DecoderIInv
<1>3. PICK lat : Layered(lat) /\ Listed(lat)
  BY DEF DecoderIInv
<1>4. Layered(lat)'
  BY <1>1, <1>3, LayeredStays
<1>5. PICK N, E : N = Nodes(lat) /\ E = Values(ending)
  OBVIOUS
<1>6. (N = Nodes(lat) /\ E = Values(ending))'
  BY <1>1, <1>5 DEF Nodes
<1>7. E \subseteq N
  BY <1>5, LatticeNodes
<1>8. Lattice(lat, length - 1) /\ \A e \in E : IsEnd(e, lat, length)
  BY <1>3, <1>5 DEF Layered
<1>9. ASSUME NEW e \in E PROVE IsPartial(FirstBest(e), lat, N, E)
  BY <1>2, <1>7, <1>8, FirstFine
<1>10. ASSUME NEW p \in delayed' PROVE IsPartial(p, lat, N, E)'
  <2>1. PICK e \in E : p = FirstBest(e)
    BY <1>1, <1>5
  <2> QED
    BY <1>1, <1>9, <2>1, PartialStays
<1>11. ASSUME NEW e \in E, NEW f, Covers(FirstBest(e), f) PROVE f[Len(f)] = e
  <2>1. PICK p : p = FirstBest(e)
    OBVIOUS
  <2>2. p.path = <<e>> /\ p.node_length = e.length - 1
    BY <2>1 DEF FirstBest
  <2>3. PICK k \in Nat : k = e.length - 1
    BY <1>2, <1>8 DEF IsEnd
  <2>4. Len(f) = WordCount(p) /\ \A j \in 1 .. Len(p.path) : f[p.node_length + j] = p.path[j]
    BY <1>11, <2>1 DEF Covers
  <2>5. Len(p.path) = 1 /\ p.path[1] = e /\ 1 \in 1 .. Len(p.path)
    BY <2>2
  <2>6. Len(f) = k + 1
    BY <2>2, <2>3, <2>4, <2>5 DEF WordCount
  <2> QED
    BY <2>2, <2>3, <2>4, <2>5, <2>6
<1>12. ASSUME NEW p \in delayed', NEW q \in delayed', NEW f, Covers(p, f), Covers(q, f) PROVE p = q
  <2>1. PICK d \in E : p = FirstBest(d)
    BY <1>1, <1>5
  <2>2. PICK e \in E : q = FirstBest(e)
    BY <1>1, <1>5
  <2>3. f[Len(f)] = d /\ f[Len(f)] = e
    BY <1>11, <1>12, <2>1, <2>2
  <2> QED
    BY <2>1, <2>2, <2>3
<1>13. finished' = <<>>
  BY <1>1, <1>2
<1>14. PICK D : D = delayed'
  OBVIOUS
<1>15. Apart(D, <<>>)
  BY <1>12, <1>14 DEF Apart
<1>16. Apart(delayed, finished)'
  BY <1>13, <1>14, <1>15
<1>17. (\A p \in delayed : IsPartial(p, lat, Nodes(lat), Values(ending)))'
  BY <1>6, <1>10
<1>18. Listed(lat)'
  BY <1>13, <1>16, <1>17 DEF Listed
<1> QED
  BY <1>1, <1>2, <1>4, <1>18 DEF DecoderIInv

\* What a round of Completed pushes.
Pushed(p, hist) ==
  NextBest(p) \cup {SecondBest(Crumb(hist, i, p.path), p.node_length - 1 - i, p.score) :
                      i \in {i \in 0 .. p.node_length - 1 : Len(hist[i].prev) > 1}}

\* They stand for paths of the one that is taken out, none of them twice.
LEMMA PushedFine ==
  ASSUME model \in Models, length \in Nat, NEW lat, Lattice(lat, length - 1),
         NEW N, NEW E, Within(lat, length - 1, N),
         NEW p, IsPartial(p, lat, N, E),
         NEW hist, IsTrail(hist, lat, p.node_length, p.path[1].prev[p.packed])
  PROVE  /\ \A q \in Pushed(p, hist) :
              /\ IsPartial(q, lat, N, E) /\ q.score <= p.score
              /\ \E i \in 0 .. p.node_length - 1 : Leaves(q, p, hist, i)
         /\ \A q, r \in Pushed(p, hist) : \A f : Covers(q, f) /\ Covers(r, f) => q = r
<1> DEFINE n == p.node_length
           Second(i) == SecondBest(Crumb(hist, i, p.path), n - 1 - i, p.score)
           I == {i \in 0 .. n - 1 : Len(hist[i].prev) > 1}
<1>1. n \in 1 .. length - 1 /\ n \in Nat /\ hist[0] = p.path[1].prev[p.packed]
  BY PartialFields DEF IsTrail
<1>2. Pushed(p, hist) = NextBest(p) \cup {Second(i) : i \in I}
  BY DEF Pushed
<1>3. ASSUME NEW q \in NextBest(p)
      PROVE  IsPartial(q, lat, N, E) /\ q.score <= p.score /\ 0 \in 0 .. n - 1 /\ Leaves(q, p, hist, 0)
  <2>1. /\ IsPartial(q, lat, N, E) /\ q.score <= p.score
        /\ \A f : Covers(q, f) => Covers(p, f) /\ f[n] # p.path[1].prev[p.packed]
    BY NextFine
  <2>2. n - 0 = n /\ 0 .. 0 - 1 = {} /\ 0 \in 0 .. n - 1
    BY <1>1
  <2>3. ASSUME NEW f, Covers(q, f)
        PROVE  /\ Covers(p, f) /\ \A m \in 0 .. 0 - 1 : f[n - m] = hist[m]
               /\ f[n - 0] # hist[0]
    BY <1>1, <2>1, <2>2, <2>3
  <2>4. Leaves(q, p, hist, 0)
    BY <2>3 DEF Leaves
  <2> QED
    BY <2>1, <2>2, <2>4
<1>4. ASSUME NEW i \in I
      PROVE  /\ IsPartial(Second(i), lat, N, E) /\ Second(i).score <= p.score
             /\ i + 1 \in 0 .. n - 1 /\ i \in Nat /\ Leaves(Second(i), p, hist, i + 1)
  <2>1. PICK q : q = SecondBest(Crumb(hist, i, p.path), p.node_length - 1 - i, p.score)
    OBVIOUS
  <2>2. i \in 0 .. p.node_length - 1 /\ Len(hist[i].prev) > 1
    OBVIOUS
  <2>3. IsPartial(q, lat, N, E) /\ q.score <= p.score /\ i + 1 <= p.node_length - 1
    BY <2>1, <2>2, SecondFine
  <2>4. Leaves(q, p, hist, i + 1)
    BY <2>1, <2>2, SecondCovers
  <2>5. i + 1 - 1 = i /\ i \in Nat /\ i + 1 \in 0 .. p.node_length - 1
    BY <1>1, <2>2, <2>3
  <2> QED
    BY <2>1, <2>3, <2>4, <2>5
<1> HIDE DEF I, Second
<1>5. ASSUME NEW q, NEW r, NEW i \in 0 .. n - 1, NEW j \in 0 .. n - 1,
             Leaves(q, p, hist, i), Leaves(r, p, hist, j),
             NEW f, Covers(q, f), Covers(r, f)
      PROVE  ~(i < j)
  <2>1. /\ f[n - i] # hist[i]
        /\ \A m \in 0 .. j - 1 : f[n - m] = hist[m]
    BY <1>5 DEF Leaves
  <2>2. i < j => i \in 0 .. j - 1
    OBVIOUS
  <2> QED
    BY <2>1, <2>2
<1>6. ASSUME NEW q \in Pushed(p, hist), NEW r \in Pushed(p, hist), NEW f, Covers(q, f), Covers(r, f)
      PROVE  q = r
  <2>1. CASE q \in NextBest(p) /\ r \in NextBest(p)
    BY <2>1 DEF NextBest
  <2>2. ASSUME NEW i \in I, q = Second(i), r \in NextBest(p) PROVE FALSE
    <3>1. i + 1 \in 0 .. n - 1 /\ i \in Nat /\ Leaves(q, p, hist, i + 1)
      BY <1>4, <2>2
    <3>2. 0 \in 0 .. n - 1 /\ Leaves(r, p, hist, 0)
      BY <1>3, <2>2
    <3>3. ~(0 < i + 1)
      BY <1>5, <1>6, <3>1, <3>2
    <3> QED
      BY <3>1, <3>3
  <2>3. ASSUME NEW i \in I, r = Second(i), q \in NextBest(p) PROVE FALSE
    <3>1. i + 1 \in 0 .. n - 1 /\ i \in Nat /\ Leaves(r, p, hist, i + 1)
      BY <1>4, <2>3
    <3>2. 0 \in 0 .. n - 1 /\ Leaves(q, p, hist, 0)
      BY <1>3, <2>3
    <3>3. ~(0 < i + 1)
      BY <1>5, <1>6, <3>1, <3>2
    <3> QED
      BY <3>1, <3>3
  <2>4. ASSUME NEW i \in I, q = Second(i), NEW j \in I, r = Second(j) PROVE q = r
    <3>1. i + 1 \in 0 .. n - 1 /\ i \in Nat /\ Leaves(q, p, hist, i + 1)
      BY <1>4, <2>4
    <3>2. j + 1 \in 0 .. n - 1 /\ j \in Nat /\ Leaves(r, p, hist, j + 1)
      BY <1>4, <2>4
    <3>3. ~(i + 1 < j + 1)
      BY <1>5, <1>6, <3>1, <3>2
    <3>4. ~(j + 1 < i + 1)
      BY <1>5, <1>6, <3>1, <3>2
    <3>5. i = j
      BY <3>1, <3>2, <3>3, <3>4
    <3> QED
      BY <2>4, <3>5
  <2> QED
    BY <1>2, <2>1, <2>2, <2>3, <2>4
<1>7. ASSUME NEW q \in Pushed(p, hist)
      PROVE  /\ IsPartial(q, lat, N, E) /\ q.score <= p.score
             /\ \E i \in 0 .. p.node_length - 1 : Leaves(q, p, hist, i)
  <2>1. CASE q \in NextBest(p)
    BY <1>3, <2>1
  <2>2. ASSUME NEW i \in I, q = Second(i)
        PROVE  /\ IsPartial(q, lat, N, E) /\ q.score <= p.score
               /\ \E k \in 0 .. p.node_length - 1 : Leaves(q, p, hist, k)
    BY <1>4, <2>2
  <2> QED
    BY <1>2, <2>1, <2>2
<1> QED
  BY <1>6, <1>7

\* A step that lists a sentence and queues what leaves its path.
LEMMA CompleteKeeps ==
  ASSUME DecoderIInv, Complete
  PROVE  DecoderIInv'
<1>1. /\ pc = "complete" /\ UNCHANGED <<model, agenda, next, ending, length>>
      /\ pc' \in {"done", "complete"}
  BY DEF Complete
<1>2. model \in Models /\ length \in Nat /\ length >= 2 /\ length - 1 \in Nat
  BY DEF DecoderIInv
<1>3. PICK lat : Layered(lat) /\ Listed(lat)
  BY DEF DecoderIInv
<1>4. Layered(lat)'
  BY <1>1, <1>3, LayeredStays
<1>5. PICK N, E : N = Nodes(lat) /\ E = Values(ending)
  OBVIOUS
<1>6. (N = Nodes(lat) /\ E = Values(ending))'
  BY <1>1, <1>5 DEF Nodes
<1>7. Lattice(lat, length - 1) /\ Within(lat, length - 1, N)
  BY <1>3, <1>5, LatticeNodes DEF Layered
<1>8. PICK D, F : D = delayed /\ F = finished
  OBVIOUS
<1>9. /\ \A p \in D : IsPartial(p, lat, N, E) /\ p.score \in Int
      /\ F \in Seq([score : Int, path : Seq(N)])
      /\ \A i \in DOMAIN F : F[i].path[1] = RootHistory /\ LeadsToEnd(F[i].path, N, E)
      /\ \A i \in DOMAIN F, p \in D : F[i].score >= p.score
      /\ \A i, j \in DOMAIN F : i < j => F[i].score >= F[j].score
      /\ Apart(D, F)
  BY <1>3, <1>5, <1>8 DEF Listed, IsPartial
<1>10. PICK top \in D :
         /\ \A other \in D : ~Below(top, other)
         /\ delayed' = (D \ {top}) \cup Pushed(top, Followed(top))
         /\ finished' = Append(F, [score |-> top.score,
                                   path |-> Crumb(Followed(top), top.node_length - 1, top.path)])
  BY <1>8 DEF Complete, Pushed, Crumb
<1>11. IsPartial(top, lat, N, E) /\ top.score \in Int
  BY <1>9
<1>12. PICK n, first : n = top.node_length /\ first = top.path[1].prev[top.packed]
  OBVIOUS
<1>13. n \in 1 .. length - 1 /\ n \in Nat
  BY <1>2, <1>7, <1>11, <1>12, PartialFields
<1>14. first \in lat[n]
  BY <1>2, <1>7, <1>11, <1>12, PartialFields
<1>15. PICK hist : hist = Followed(top)
  OBVIOUS
<1>16. IsTrail(hist, lat, n, first) /\ hist[n - 1] = RootHistory
  BY <1>2, <1>7, <1>12, <1>13, <1>14, <1>15, TrailExists
<1>17. PICK f : f = Crumb(hist, n - 1, top.path)
  OBVIOUS
<1>18. /\ LeadsToEnd(f, N, E) /\ f[1] = RootHistory
       /\ Covers(top, f) /\ \A m \in 0 .. n - 1 : f[n - m] = hist[m]
  BY <1>2, <1>7, <1>11, <1>12, <1>16, <1>17, WholePath
<1>19. PICK x, X : x = [score |-> top.score, path |-> f] /\ X = Pushed(top, hist)
  OBVIOUS
<1>20. delayed' = (D \ {top}) \cup X /\ finished' = Append(F, x)
  BY <1>10, <1>12, <1>15, <1>17, <1>19
<1>21. /\ \A q \in X : /\ IsPartial(q, lat, N, E) /\ q.score <= top.score
                       /\ \E i \in 0 .. n - 1 : Leaves(q, top, hist, i)
       /\ \A q, r \in X : \A g : Covers(q, g) /\ Covers(r, g) => q = r
  BY <1>2, <1>7, <1>11, <1>12, <1>16, <1>19, PushedFine
<1>22. ASSUME NEW q \in X PROVE ~Covers(q, f) /\ \A g : Covers(q, g) => Covers(top, g)
  <2>1. PICK i \in 0 .. n - 1 : Leaves(q, top, hist, i)
    BY <1>21
  <2>2. \A g : Covers(q, g) => Covers(top, g)
    BY <2>1 DEF Leaves
  <2>3. Covers(q, f) => f[n - i] # hist[i]
    BY <1>12, <2>1 DEF Leaves
  <2> QED
    BY <1>18, <2>2, <2>3
<1>23. x.score = top.score /\ x.path = f
  BY <1>19
<1>24. PICK E2, G : E2 = (D \ {top}) \cup X /\ G = Append(F, x)
  OBVIOUS
<1>25. Apart(E2, G)
  <2>1. Covers(top, x.path) /\ \A q \in X : ~Covers(q, x.path)
    BY <1>18, <1>22, <1>23
  <2> QED
    BY <1>9, <1>21, <1>22, <1>24, <2>1, StaysApart
<1>26. PICK k \in Nat : k = Len(F)
  BY <1>9
<1>27. /\ DOMAIN F = 1 .. k /\ DOMAIN G = 1 .. k + 1 /\ G[k + 1] = x
       /\ \A i \in 1 .. k : G[i] = F[i]
  BY <1>9, <1>24, <1>26
<1>28. G \in Seq([score : Int, path : Seq(N)])
  <2>1. x \in [score : Int, path : Seq(N)]
    BY <1>11, <1>18, <1>19 DEF LeadsToEnd
  <2> QED
    BY <1>9, <1>24, <2>1
<1>29. ASSUME NEW i \in 1 .. k + 1
       PROVE  G[i].path[1] = RootHistory /\ LeadsToEnd(G[i].path, N, E)
              /\ G[i].score >= top.score /\ G[i].score \in Int
  <2>1. CASE i = k + 1
    BY <1>11, <1>18, <1>23, <1>27, <2>1
  <2>2. CASE i # k + 1
    <3>1. i \in 1 .. k /\ G[i] = F[i]
      BY <1>27, <2>2
    <3>2. F[i] \in [score : Int, path : Seq(N)]
      <4>1. PICK R : R = [score : Int, path : Seq(N)]
        OBVIOUS
      <4>2. F \in Seq(R) /\ i \in DOMAIN F
        BY <1>9, <1>27, <3>1, <4>1
      <4>3. F[i] \in R
        BY <4>2
      <4> QED
        BY <4>1, <4>3
    <3> QED
      BY <1>9, <1>27, <3>1, <3>2
  <2> QED
    BY <2>1, <2>2
<1>30. ASSUME NEW p \in E2 PROVE IsPartial(p, lat, N, E) /\ p.score <= top.score /\ p.score \in Int
  <2>1. CASE p \in D
    <3>1. ~Below(top, p) /\ p.score \in Int
      BY <1>9, <1>10, <2>1
    <3>2. p.score <= top.score
      BY <1>11, <3>1 DEF Below
    <3> QED
      BY <1>9, <2>1, <3>1, <3>2
  <2>2. CASE p \in X
    BY <1>21, <2>2 DEF IsPartial
  <2> QED
    BY <1>24, <2>1, <2>2
<1>31. ASSUME NEW i \in 1 .. k + 1, NEW p \in E2 PROVE G[i].score >= p.score
  <2>1. PICK a \in Int, b \in Int, c \in Int : a = G[i].score /\ b = top.score /\ c = p.score
    BY <1>11, <1>29, <1>30
  <2>2. a >= b /\ c <= b
    BY <1>29, <1>30, <2>1
  <2>3. a >= c
    BY <2>2
  <2> QED
    BY <2>1, <2>3
<1>32. ASSUME NEW i \in 1 .. k + 1, NEW j \in 1 .. k + 1, i < j PROVE G[i].score >= G[j].score
  <2>1. i \in 1 .. k /\ G[i] = F[i]
    BY <1>27, <1>32
  <2>2. CASE j = k + 1
    BY <1>23, <1>27, <1>29, <2>2
  <2>3. CASE j # k + 1
    <3>1. j \in 1 .. k /\ G[j] = F[j]
      BY <1>27, <2>3
    <3> QED
      BY <1>9, <1>27, <1>32, <2>1, <3>1
  <2> QED
    BY <2>2, <2>3
<1>33. delayed' = E2 /\ finished' = G
  BY <1>20, <1>24
<1>34. ASSUME NEW p \in E2 PROVE IsPartial(p, lat, N, E)'
  BY <1>1, <1>30, PartialStays
<1>35. (\A p \in delayed : IsPartial(p, lat, Nodes(lat), Values(ending)))'
  BY <1>6, <1>33, <1>34
<1>36. (finished \in Seq([score : Int, path : Seq(Nodes(lat))]))'
  BY <1>6, <1>28, <1>33
<1>37. (\A i \in DOMAIN finished : /\ finished[i].path[1] = RootHistory
                                   /\ LeadsToEnd(finished[i].path, Nodes(lat), Values(ending)))'
  BY <1>6, <1>27, <1>29, <1>33
<1>38. (\A i \in DOMAIN finished, p \in delayed : finished[i].score >= p.score)'
  BY <1>27, <1>31, <1>33
<1>39. (\A i, j \in DOMAIN finished : i < j => finished[i].score >= finished[j].score)'
  BY <1>27, <1>32, <1>33
<1>40. Apart(delayed, finished)'
  BY <1>25, <1>33
<1>41. Listed(lat)'
  BY <1>35, <1>36, <1>37, <1>38, <1>39, <1>40 DEF Listed
<1> QED
  BY <1>1, <1>2, <1>4, <1>41 DEF DecoderIInv

\* Steps that change nothing.
LEMMA StutterKeeps ==
  ASSUME DecoderIInv, UNCHANGED decoderVars
  PROVE  DecoderIInv'
<1>1. UNCHANGED <<model, agenda, next, ending, length, delayed, finished, pc>>
  BY DEF decoderVars
<1>2. PICK lat : Layered(lat) /\ Listed(lat)
  BY DEF DecoderIInv
<1>3. Layered(lat)'
  BY <1>1, <1>2, LayeredStays
<1>4. PICK N, E : N = Nodes(lat) /\ E = Values(ending)
  OBVIOUS
<1>5. (N = Nodes(lat) /\ E = Values(ending))'
  BY <1>1, <1>4 DEF Nodes
<1>6. ASSUME NEW p \in delayed PROVE IsPartial(p, lat, N, E)'
  BY <1>1, <1>2, <1>4, PartialStays DEF Listed
<1>7. (\A p \in delayed : IsPartial(p, lat, Nodes(lat), Values(ending)))'
  BY <1>1, <1>5, <1>6
<1>8. /\ finished \in Seq([score : Int, path : Seq(N)])
      /\ \A i \in DOMAIN finished : /\ finished[i].path[1] = RootHistory
                                    /\ LeadsToEnd(finished[i].path, N, E)
      /\ \A i \in DOMAIN finished, p \in delayed : finished[i].score >= p.score
      /\ \A i, j \in DOMAIN finished : i < j => finished[i].score >= finished[j].score
      /\ Apart(delayed, finished)
  BY <1>2, <1>4 DEF Listed
<1>9. Listed(lat)'
  BY <1>1, <1>5, <1>7, <1>8 DEF Listed
<1> QED
  BY <1>1, <1>3, <1>9 DEF DecoderIInv

(* Completed lists the sentences in order of score, though it pushes while *)
(* it reads, and every path once, each of them from the beginning through  *)
(* packed predecessors to an end of sentence, for any arcs, beam sizes and *)
(* ties: PathsListedInOrder.                                               *)
THEOREM PathsInOrder == DecoderSpec => []PathsListedInOrder
<1>1. DecoderInit => DecoderIInv
  BY DecoderStarts
<1>2. DecoderIInv /\ [DecoderNext]_decoderVars => DecoderIInv'
  <2> SUFFICES ASSUME DecoderIInv, [DecoderNext]_decoderVars PROVE DecoderIInv'
    OBVIOUS
  <2>1. CASE ExtendToEnd
    BY <2>1, ExtendToEndKeeps
  <2>2. CASE ExtendToNext
    BY <2>2, ExtendToNextKeeps
  <2>3. CASE NextLayer
    BY <2>3, NextLayerKeeps
  <2>4. CASE MakeCompletedHypotheses
    BY <2>4, MakeCompletedHypothesesKeeps
  <2>5. CASE Complete
    BY <2>5, CompleteKeeps
  <2>6. CASE UNCHANGED decoderVars
    BY <2>6, StutterKeeps
  <2> QED
    BY <2>1, <2>2, <2>3, <2>4, <2>5, <2>6 DEF DecoderNext
<1>3. DecoderIInv => PathsListedInOrder
  <2> SUFFICES ASSUME DecoderIInv PROVE PathsListedInOrder
    OBVIOUS
  <2>1. PICK lat : Listed(lat)
    BY DEF DecoderIInv
  <2>2. ASSUME NEW i \in DOMAIN finished
        PROVE  LET path == finished[i].path
               IN /\ path[1] = RootHistory
                  /\ path[Len(path)] \in EndBeam!Values(ending)
                  /\ \A j \in 2 .. Len(path) : path[j - 1] \in Range(path[j].prev)
    BY <2>1, EndSame DEF Listed, LeadsToEnd
  <2>3. ASSUME NEW i \in DOMAIN finished, NEW j \in DOMAIN finished, i < j
        PROVE  finished[i].score >= finished[j].score /\ finished[i].path # finished[j].path
    BY <2>1, <2>3 DEF Listed, Apart
  <2> QED
    BY <2>2, <2>3 DEF PathsListedInOrder
<1> QED
  BY <1>1, <1>2, <1>3, PTL DEF DecoderSpec
=============================================================================
