----------------------------- MODULE NBestCalls -----------------------------
(***************************************************************************)
(* A caller that offers values to an NBest, in any order, with or without  *)
(* asking MayMakeIt first ("This call is optional").                       *)
(***************************************************************************)
EXTENDS NBest

CONSTANTS Items,     \* bound: the values that are offered
          MaxSize    \* max_size

\* MergeT as OneBestMerge and InternalHypothesis::Merge are: the class stays,
\* the better score is kept.
ASSUME NBestAssumption ==
  /\ MaxSize \in Nat \ {0}
  /\ \A x \in Items : x.score \in Int
  /\ \A x, y \in Items : x.key = y.key =>
       /\ Merges(x, y) # {} /\ Merges(x, y) \subseteq Items
       /\ \A m \in Merges(x, y) :
            /\ m.key = x.key
            /\ m.score = IF x.score < y.score THEN y.score ELSE x.score

VARIABLES beam,      \* the NBest
          offered    \* the values offered since Reset

beamVars == <<beam, offered>>

BeamInit == beam = Reset(MaxSize) /\ offered = {}

Insert(x) == beam' \in InsertAvailable(beam, x) /\ offered' = offered \cup {x}

Reject(x) == /\ ~MayMakeIt(beam, x.score)
             /\ offered' = offered \cup {x}
             /\ UNCHANGED beam

BeamNext == \E x \in Items : Insert(x) \/ Reject(x)

BeamSpec == BeamInit /\ [][BeamNext]_beamVars
-----------------------------------------------------------------------------
BeamOK ==
  /\ beam \in [max : {MaxSize}, size : 0 .. MaxSize, available : 0 .. MaxSize,
               value : [Occupied(beam) -> Items],
               dupe : SUBSET (0 .. MaxSize), dropper : SUBSET (0 .. MaxSize)]
  /\ offered \subseteq Items

(* The hash table and the heap hold exactly the slots that are in use, of  *)
(* each class one, and the next slot to write is not one of them: neither  *)
(* structure ever points to a slot that a caller is about to overwrite.    *)
SlotsConsistent ==
  /\ beam.available <= beam.size
  /\ ~Full(beam) => beam.available = beam.size /\ beam.dropper = {}
  /\ Full(beam) => beam.dropper = Occupied(beam)
  /\ beam.dupe = Occupied(beam)
  /\ \A s, t \in Occupied(beam) : beam.value[s].key = beam.value[t].key => s = t

(* Whatever was merged, dropped, rejected or offered again, the beam holds *)
(* the best classes, each with the best score offered for it.              *)
KeepsTheBest ==
  /\ \A s \in Occupied(beam) : \E x \in offered :
       x.key = beam.value[s].key /\ x.score = beam.value[s].score
  /\ \A x \in offered : \A s \in Occupied(beam) :
       x.key = beam.value[s].key => x.score <= beam.value[s].score
  /\ \A x \in offered :
       \/ \E s \in Occupied(beam) : x.key = beam.value[s].key
       \/ Full(beam) /\ \A s \in Occupied(beam) : x.score <= beam.value[s].score
=============================================================================
