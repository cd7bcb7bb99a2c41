------------------------------- MODULE NBest --------------------------------
(***************************************************************************)
(* nbest::NBest (util/n_best.hh): at most max values, of each class of     *)
(* duplicates one, the values with the lowest scores dropped.  Storage has *)
(* max + 1 slots; the caller writes a value into the available one, and    *)
(* InsertAvailable decides which slot is available next.  A value is a     *)
(* record with a key, which EqualsT compares, and a score, which LessT     *)
(* compares.  The heap compares the values that are in the slots now: an   *)
(* update takes a slot out before its value changes and pushes it after.   *)
(***************************************************************************)
EXTENDS Integers, Sequences

CONSTANT Merges(_, _)   \* what MergeT may make of a value and its duplicate

Reset(max) == [max |-> max, size |-> 0, available |-> 0,
               value |-> <<>>, dupe |-> {}, dropper |-> {}]

\* begin() .. end(): the slots up to size, without the available one.
Occupied(b) == (0 .. b.size) \ {b.available}
Full(b) == b.size = b.max
Values(b) == {b.value[s] : s \in Occupied(b)}

\* The slots that PopBottom may return.
Bottoms(value, slots) ==
  {s \in slots : \A t \in slots : value[s].score <= value[t].score}

MayMakeIt(b, score) ==
  ~Full(b) \/ \E s \in Bottoms(b.value, b.dropper) : b.value[s].score < score

\* FindOrInsert finds one of these.
Duplicates(b, x) == {s \in b.dupe : b.value[s].key = x.key}

\* Available() = x
Set(b, x) == [s \in DOMAIN b.value \cup {b.available} |->
                IF s = b.available THEN x ELSE b.value[s]]

MergeDuplicate(b, x) ==
  UNION {{[b EXCEPT !.value = [@ EXCEPT ![s] = m]] : m \in Merges(b.value[s], x)} :
           s \in Duplicates(b, x)}

\* The dropper is built when the beam is filled.
UseAvailable(b, x) ==
  LET c == [b EXCEPT !.size = @ + 1, !.available = @ + 1,
                     !.value = Set(b, x), !.dupe = @ \cup {b.available}]
  IN [c EXCEPT !.dropper = IF Full(c) THEN Occupied(c) ELSE @]

\* Mutant: what was dropped is still found as a duplicate.
ReplaceAvailableFound(b, x) ==
  {[b EXCEPT !.available = s,
             !.value = Set(b, x),
             !.dupe = @ \cup {b.available},
             !.dropper = (@ \cup {b.available}) \ {s}] :
   s \in Bottoms(Set(b, x), b.dropper \cup {b.available})}
\* Mutant: the new value replaces the lowest one without being compared.
ReplaceAvailableAlways(b, x) ==
  {[b EXCEPT !.available = s,
             !.value = [t \in (DOMAIN @ \cup {b.available}) \ {s} |-> Set(b, x)[t]],
             !.dupe = (@ \cup {b.available}) \ {s},
             !.dropper = (@ \cup {b.available}) \ {s}] :
   s \in Bottoms(b.value, b.dropper)}
\* Push the available slot, pop the bottom, which becomes available.
ReplaceAvailable(b, x) ==
  {[b EXCEPT !.available = s,
             !.value = [t \in (DOMAIN @ \cup {b.available}) \ {s} |-> Set(b, x)[t]],
             !.dupe = (@ \cup {b.available}) \ {s},
             !.dropper = (@ \cup {b.available}) \ {s}] :
   s \in Bottoms(Set(b, x), b.dropper \cup {b.available})}

\* What b may be after Available() = x and InsertAvailable().
InsertAvailable(b, x) ==
  IF Duplicates(b, x) # {} THEN MergeDuplicate(b, x)
  ELSE IF Full(b) THEN ReplaceAvailable(b, x)
  ELSE {UseAvailable(b, x)}

\* destructive_ordered_make, read from the end: ties come in any order.
DecreasingOrders(b) ==
  {q \in [1 .. b.size -> Values(b)] :
     \A i, j \in 1 .. b.size : i < j => q[i] # q[j] /\ q[i].score >= q[j].score}
=============================================================================
