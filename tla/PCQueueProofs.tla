--------------------------- MODULE PCQueueProofs ----------------------------
(***************************************************************************)
(* What PCQueue guarantees for every number of threads and every Capacity. *)
(* The argument: each step moves one thread from one of the sets Writing,  *)
(* Published, Reading, Released to the next, with the matching change of a *)
(* semaphore (ProducerMoves, ConsumerMoves), so slots stay accounted for;  *)
(* accounting keeps the two cursors apart while both ends are in use.      *)
(***************************************************************************)
EXTENDS PCQueue, FiniteSetTheorems, SequenceTheorems, TLAPS

\* 1 when x is in S, to count with.
One(x, S) == IF x \in S THEN 1 ELSE 0

(* When sets F and G of threads differ at most in thread t, so do their    *)
(* cardinalities.                                                          *)
LEMMA CountMoves ==
  ASSUME NEW T, IsFiniteSet(T), NEW t \in T,
         NEW F \in SUBSET T, NEW G \in SUBSET T, F \ {t} = G \ {t}
  PROVE  /\ Cardinality(F) \in Nat /\ Cardinality(G) \in Nat
         /\ Cardinality(G) = Cardinality(F) - One(t, F) + One(t, G)
         /\ One(t, F) <= Cardinality(F)
<1>1. IsFiniteSet(F) /\ IsFiniteSet(G)
  BY FS_Subset
<1>2. /\ Cardinality(F) \in Nat /\ Cardinality(G) \in Nat
      /\ Cardinality(F \ {t}) \in Nat
  BY <1>1, FS_CardinalityType, FS_RemoveElement
<1>3. Cardinality(F \ {t}) = Cardinality(F) - One(t, F)
  <2>1. Cardinality(F \ {t})
          = IF t \in F THEN Cardinality(F) - 1 ELSE Cardinality(F)
    BY <1>1, FS_RemoveElement, Zenon
  <2> QED
    BY <1>2, <2>1 DEF One
<1>4. Cardinality(G \ {t}) = Cardinality(G) - One(t, G)
  <2>1. Cardinality(G \ {t})
          = IF t \in G THEN Cardinality(G) - 1 ELSE Cardinality(G)
    BY <1>1, FS_RemoveElement, Zenon
  <2> QED
    BY <1>2, <2>1 DEF One
<1>5. Cardinality(G \ {t}) = Cardinality(F \ {t})
  OBVIOUS
<1>6. One(t, F) \in {0, 1} /\ One(t, G) \in {0, 1}
  BY DEF One
<1> QED
  BY <1>2, <1>3, <1>4, <1>5, <1>6

(* A producer that moves between two places of Produce changes the counts *)
(* of those two sets by one and of no other.                              *)
LEMMA ProducerMoves ==
  ASSUME PCQueueAssumption, TypeOK, NEW p \in Producers,
         NEW from, NEW to, Goto(p, from, to)
  PROVE  /\ Cardinality(Writing) \in Nat /\ Cardinality(Writing)' \in Nat
         /\ Cardinality(Published) \in Nat /\ Cardinality(Published)' \in Nat
         /\ Cardinality(Writing)' = Cardinality(Writing)
              - One(from, {"lock", "assign"}) + One(to, {"lock", "assign"})
         /\ Cardinality(Published)' = Cardinality(Published)
              - One(from, {"post"}) + One(to, {"post"})
         /\ One(from, {"lock", "assign"}) <= Cardinality(Writing)
         /\ One(from, {"post"}) <= Cardinality(Published)
         /\ Reading' = Reading /\ Released' = Released
<1>1. \A u \in Producers : pc'[u] = IF u = p THEN to ELSE pc[u]
  BY DEF Goto, TypeOK, Threads
<1>2. \A c \in Consumers : pc'[c] = pc[c]
  BY DEF Goto, TypeOK, Threads, PCQueueAssumption
<1>3. IsFiniteSet(Producers) /\ pc[p] = from
  BY DEF PCQueueAssumption, Goto
<1>4. Reading' = Reading /\ Released' = Released
  BY <1>2 DEF Reading, Released, At
<1>5. /\ Cardinality(Writing) \in Nat /\ Cardinality(Writing)' \in Nat
      /\ Cardinality(Writing)' = Cardinality(Writing)
              - One(from, {"lock", "assign"}) + One(to, {"lock", "assign"})
      /\ One(from, {"lock", "assign"}) <= Cardinality(Writing)
  <2>1. /\ Writing \in SUBSET Producers /\ Writing' \in SUBSET Producers
        /\ Writing \ {p} = Writing' \ {p}
    BY <1>1 DEF Writing, At
  <2>2. One(p, Writing) = One(from, {"lock", "assign"})
    BY <1>3 DEF Writing, At, One
  <2>3. One(p, Writing') = One(to, {"lock", "assign"})
    BY <1>1 DEF Writing, At, One
  <2> QED
    BY <1>3, <2>1, <2>2, <2>3, CountMoves
<1>6. /\ Cardinality(Published) \in Nat /\ Cardinality(Published)' \in Nat
      /\ Cardinality(Published)' = Cardinality(Published)
              - One(from, {"post"}) + One(to, {"post"})
      /\ One(from, {"post"}) <= Cardinality(Published)
  <2>1. /\ Published \in SUBSET Producers /\ Published' \in SUBSET Producers
        /\ Published \ {p} = Published' \ {p}
    BY <1>1 DEF Published, At
  <2>2. One(p, Published) = One(from, {"post"})
    BY <1>3 DEF Published, At, One
  <2>3. One(p, Published') = One(to, {"post"})
    BY <1>1 DEF Published, At, One
  <2> QED
    BY <1>3, <2>1, <2>2, <2>3, CountMoves
<1> QED
  BY <1>4, <1>5, <1>6

(* The same for a consumer.                                               *)
LEMMA ConsumerMoves ==
  ASSUME PCQueueAssumption, TypeOK, NEW c \in Consumers,
         NEW from, NEW to, Goto(c, from, to)
  PROVE  /\ Cardinality(Reading) \in Nat /\ Cardinality(Reading)' \in Nat
         /\ Cardinality(Released) \in Nat /\ Cardinality(Released)' \in Nat
         /\ Cardinality(Reading)' = Cardinality(Reading)
              - One(from, {"lock", "assign"}) + One(to, {"lock", "assign"})
         /\ Cardinality(Released)' = Cardinality(Released)
              - One(from, {"post"}) + One(to, {"post"})
         /\ One(from, {"lock", "assign"}) <= Cardinality(Reading)
         /\ One(from, {"post"}) <= Cardinality(Released)
         /\ Writing' = Writing /\ Published' = Published
<1>1. \A u \in Consumers : pc'[u] = IF u = c THEN to ELSE pc[u]
  BY DEF Goto, TypeOK, Threads
<1>2. \A p \in Producers : pc'[p] = pc[p]
  BY DEF Goto, TypeOK, Threads, PCQueueAssumption
<1>3. IsFiniteSet(Consumers) /\ pc[c] = from
  BY DEF PCQueueAssumption, Goto
<1>4. Writing' = Writing /\ Published' = Published
  BY <1>2 DEF Writing, Published, At
<1>5. /\ Cardinality(Reading) \in Nat /\ Cardinality(Reading)' \in Nat
      /\ Cardinality(Reading)' = Cardinality(Reading)
              - One(from, {"lock", "assign"}) + One(to, {"lock", "assign"})
      /\ One(from, {"lock", "assign"}) <= Cardinality(Reading)
  <2>1. /\ Reading \in SUBSET Consumers /\ Reading' \in SUBSET Consumers
        /\ Reading \ {c} = Reading' \ {c}
    BY <1>1 DEF Reading, At
  <2>2. One(c, Reading) = One(from, {"lock", "assign"})
    BY <1>3 DEF Reading, At, One
  <2>3. One(c, Reading') = One(to, {"lock", "assign"})
    BY <1>1 DEF Reading, At, One
  <2> QED
    BY <1>3, <2>1, <2>2, <2>3, CountMoves
<1>6. /\ Cardinality(Released) \in Nat /\ Cardinality(Released)' \in Nat
      /\ Cardinality(Released)' = Cardinality(Released)
              - One(from, {"post"}) + One(to, {"post"})
      /\ One(from, {"post"}) <= Cardinality(Released)
  <2>1. /\ Released \in SUBSET Consumers /\ Released' \in SUBSET Consumers
        /\ Released \ {c} = Released' \ {c}
    BY <1>1 DEF Released, At
  <2>2. One(c, Released) = One(from, {"post"})
    BY <1>3 DEF Released, At, One
  <2>3. One(c, Released') = One(to, {"post"})
    BY <1>1 DEF Released, At, One
  <2> QED
    BY <1>3, <2>1, <2>2, <2>3, CountMoves
<1> QED
  BY <1>4, <1>5, <1>6

(* The four sets are finite and counted by naturals, in every typed state. *)
LEMMA CountsAreNat ==
  ASSUME PCQueueAssumption
  PROVE  /\ IsFiniteSet(Writing) /\ IsFiniteSet(Published)
         /\ IsFiniteSet(Reading) /\ IsFiniteSet(Released)
         /\ Cardinality(Writing) \in Nat /\ Cardinality(Published) \in Nat
         /\ Cardinality(Reading) \in Nat /\ Cardinality(Released) \in Nat
<1>1. IsFiniteSet(Writing) /\ IsFiniteSet(Published)
  BY FS_Subset DEF Writing, Published, At, PCQueueAssumption
<1>2. IsFiniteSet(Reading) /\ IsFiniteSet(Released)
  BY FS_Subset DEF Reading, Released, At, PCQueueAssumption
<1> QED
  BY <1>1, <1>2, FS_CardinalityType
-----------------------------------------------------------------------------
(* The ring: positions are counted from consume_at.                        *)

(* A position below Capacity is a slot.                                   *)
LEMMA AheadInSlots ==
  ASSUME PCQueueAssumption, consume_at \in Slots, NEW i \in 0 .. Capacity
  PROVE  Ahead(i) \in Slots
BY DEF PCQueueAssumption, Slots, Ahead

(* "++at, back to the start at end_" goes to the next position.          *)
LEMMA AdvanceIsNext ==
  ASSUME PCQueueAssumption, consume_at \in Slots, NEW i \in 0 .. Capacity - 1
  PROVE  Advance(Ahead(i)) = Ahead(i + 1)
BY DEF PCQueueAssumption, Slots, Ahead, Advance

(* Different positions are different slots.                               *)
LEMMA AheadOneToOne ==
  ASSUME PCQueueAssumption, consume_at \in Slots,
         NEW i \in 0 .. Capacity - 1, NEW j \in 0 .. Capacity - 1,
         Ahead(i) = Ahead(j)
  PROVE  i = j
BY DEF PCQueueAssumption, Slots, Ahead

\* Moving consume_at by one shifts every position by one.
LEMMA AheadShifts ==
  ASSUME PCQueueAssumption, consume_at \in Slots,
         consume_at' = Advance(consume_at), NEW i \in 0 .. Capacity - 1
  PROVE  Ahead(i)' = Ahead(i + 1)
BY DEF PCQueueAssumption, Slots, Ahead, Advance

\* The part of SlotsAccounted that counts.
Accounted ==
  empty + used + Cardinality(Writing) + Cardinality(Published)
    + Cardinality(Reading) + Cardinality(Released) = Capacity

(* Accounting bounds the semaphores and the number of stored values.       *)
LEMMA AccountedBounds ==
  ASSUME PCQueueAssumption, Accounted, empty \in Nat, used \in Nat
  PROVE  /\ empty \in 0 .. Capacity /\ used \in 0 .. Capacity
         /\ Stored \in 0 .. Capacity
         /\ Cardinality(Writing) <= Capacity - Stored
<1>1. /\ Cardinality(Writing) \in Nat /\ Cardinality(Published) \in Nat
      /\ Cardinality(Reading) \in Nat /\ Cardinality(Released) \in Nat
  BY CountsAreNat
<1>2. Capacity \in Nat
  BY DEF PCQueueAssumption
<1> QED
  BY <1>1, <1>2 DEF Accounted, Stored

(* A step that leaves the ring and the number of stored values alone.      *)
LEMMA RingUnchanged ==
  ASSUME IInv, UNCHANGED <<storage, produce_at, consume_at>>, Stored' = Stored
  PROVE  /\ produce_at' = Ahead(Stored)'
         /\ \A i \in 0 .. Stored' - 1 : storage'[Ahead(i)'] \in Values
BY DEF IInv, SlotsAccounted, Ahead

(* What Contents holds, before and after a step.                           *)
ContentsTypedHere ==
  /\ Stored \in 0 .. Capacity
  /\ Contents \in Seq(Values) /\ Len(Contents) = Stored
  /\ \A i \in 1 .. Stored : Contents[i] = storage[Ahead(i - 1)]

(* In a state of IInv the contents of the FIFO are a sequence of values.  *)
LEMMA ContentsTyped == PCQueueAssumption /\ IInv => ContentsTypedHere
<1> SUFFICES ASSUME PCQueueAssumption, IInv
             PROVE  ContentsTypedHere
  OBVIOUS
<1>1. Stored \in 0 .. Capacity
  BY AccountedBounds DEF IInv, TypeOK, SlotsAccounted, Accounted, PCQueueAssumption
<1>2. \A i \in 1 .. Stored : storage[Ahead(i - 1)] \in Values
  BY <1>1 DEF IInv, SlotsAccounted
<1> QED
  BY <1>1, <1>2 DEF ContentsTypedHere, Contents, PCQueueAssumption

(* The same of the state after a step.                                    *)
LEMMA ContentsTypedNext ==
  ASSUME PCQueueAssumption, IInv'
  PROVE  /\ Stored' \in 0 .. Capacity
         /\ Contents' \in Seq(Values) /\ Len(Contents') = Stored'
         /\ \A i \in 1 .. Stored' : Contents'[i] = storage'[Ahead(i - 1)']
<1>1. ContentsTypedHere'
  BY ContentsTyped, PTL
<1> QED
  BY <1>1 DEF ContentsTypedHere

(* A step that changes no slot between the cursors, and neither their      *)
(* distance nor the lower one, is a stutter of the FIFO.                   *)
LEMMA ContentsUnchanged ==
  ASSUME PCQueueAssumption, IInv, IInv', Stored' = Stored,
         \A i \in 0 .. Stored - 1 : storage'[Ahead(i)'] = storage[Ahead(i)]
  PROVE  Contents' = Contents
<1>1. ContentsTypedHere
  BY ContentsTyped
<1>2. \A i \in 1 .. Stored : Contents'[i] = Contents[i]
  BY <1>1, ContentsTypedNext DEF ContentsTypedHere, PCQueueAssumption
<1> QED
  BY <1>1, <1>2, ContentsTypedNext, SeqEqual DEF ContentsTypedHere

-----------------------------------------------------------------------------
(* The constructed queue: all slots are empty, nobody is inside.           *)
THEOREM InitInv == PCQueueAssumption /\ Init => IInv
<1> SUFFICES ASSUME PCQueueAssumption, Init
             PROVE  IInv
  OBVIOUS
<1>1. TypeOK
  BY DEF TypeOK, Init, PCQueueAssumption, Slots
<1>2. Writing = {} /\ Published = {} /\ Reading = {} /\ Released = {}
  BY DEF Init, Writing, Published, Reading, Released, At, Threads
<1>3. Cardinality({}) = 0
  BY FS_EmptySet
<1>4. Stored = 0 /\ Capacity \in Nat /\ Capacity > 0
  BY <1>2, <1>3 DEF Stored, Init, PCQueueAssumption
<1>5. SlotsAccounted
  BY <1>2, <1>3, <1>4 DEF SlotsAccounted, Ahead, Init
<1>6. MutexesHeld
  BY DEF MutexesHeld, Init, Threads, PCQueueAssumption
<1> QED
  BY <1>1, <1>5, <1>6 DEF IInv
-----------------------------------------------------------------------------
(* Every step preserves IInv.                                              *)

(* A thread that calls Produce keeps IInv; the FIFO stutters.             *)
LEMMA CallProduceStep ==
  ASSUME PCQueueAssumption, IInv, NEW p \in Producers, CallProduce(p)
  PROVE  IInv' /\ UNCHANGED <<Contents, out>>
<1>1. /\ Cardinality(Writing)' = Cardinality(Writing)
      /\ Cardinality(Published)' = Cardinality(Published)
      /\ Cardinality(Reading)' = Cardinality(Reading)
      /\ Cardinality(Released)' = Cardinality(Released)
      /\ Cardinality(Writing)' \in Nat /\ Cardinality(Published)' \in Nat
  BY ProducerMoves DEF CallProduce, IInv, One
<1>2. /\ Cardinality(Writing) \in Nat /\ Cardinality(Published) \in Nat
      /\ Cardinality(Reading) \in Nat /\ Cardinality(Released) \in Nat
  BY CountsAreNat
<1>3. Accounted' /\ Stored' = Stored
  BY <1>1, <1>2 DEF CallProduce, IInv, TypeOK, SlotsAccounted, Accounted, Stored, queueVars,
                    PCQueueAssumption
<1>4. empty' \in Nat /\ used' \in Nat
  BY DEF CallProduce, IInv, TypeOK, queueVars
<1>5. empty' \in 0 .. Capacity /\ used' \in 0 .. Capacity
  BY <1>1, <1>2, <1>3, <1>4 DEF Accounted, PCQueueAssumption
<1>6. TypeOK'
  BY <1>5 DEF CallProduce, IInv, TypeOK, Goto, Threads, queueVars
<1>7. SlotsAccounted'
  BY <1>3, RingUnchanged DEF SlotsAccounted, Accounted, CallProduce, queueVars
<1>8. MutexesHeld'
  BY DEF CallProduce, IInv, TypeOK, MutexesHeld, Goto, Threads, queueVars, PCQueueAssumption
<1>9. IInv'
  BY <1>6, <1>7, <1>8 DEF IInv
<1>10. \A i \in 0 .. Stored - 1 : storage'[Ahead(i)'] = storage[Ahead(i)]
  BY DEF CallProduce, Ahead, queueVars
<1>11. Contents' = Contents
  BY <1>3, <1>9, <1>10, ContentsUnchanged DEF IInv
<1> QED
  BY <1>9, <1>11 DEF CallProduce, queueVars

(* A producer that gets empty_ has one slot more to write.                *)
LEMMA ProduceWaitStep ==
  ASSUME PCQueueAssumption, IInv, NEW p \in Producers, ProduceWait(p)
  PROVE  IInv' /\ UNCHANGED <<Contents, out>>
<1>1. /\ Cardinality(Writing)' = Cardinality(Writing) + 1
      /\ Cardinality(Published)' = Cardinality(Published)
      /\ Cardinality(Reading)' = Cardinality(Reading)
      /\ Cardinality(Released)' = Cardinality(Released)
      /\ Cardinality(Writing)' \in Nat /\ Cardinality(Published)' \in Nat
  BY ProducerMoves DEF ProduceWait, IInv, One
<1>2. /\ Cardinality(Writing) \in Nat /\ Cardinality(Published) \in Nat
      /\ Cardinality(Reading) \in Nat /\ Cardinality(Released) \in Nat
  BY CountsAreNat
<1>3. Accounted' /\ Stored' = Stored
  BY <1>1, <1>2 DEF ProduceWait, IInv, TypeOK, SlotsAccounted, Accounted, Stored,
                    PCQueueAssumption
<1>4. empty' \in Nat /\ used' \in Nat
  BY DEF ProduceWait, IInv, TypeOK
<1>5. empty' \in 0 .. Capacity /\ used' \in 0 .. Capacity
  BY <1>1, <1>2, <1>3, <1>4 DEF Accounted, PCQueueAssumption
<1>6. TypeOK'
  BY <1>5 DEF ProduceWait, IInv, TypeOK, Goto, Threads
<1>7. SlotsAccounted'
  BY <1>3, RingUnchanged DEF SlotsAccounted, Accounted, ProduceWait
<1>8. MutexesHeld'
  BY DEF ProduceWait, IInv, TypeOK, MutexesHeld, Goto, Threads, PCQueueAssumption
<1>9. IInv'
  BY <1>6, <1>7, <1>8 DEF IInv
<1>10. \A i \in 0 .. Stored - 1 : storage'[Ahead(i)'] = storage[Ahead(i)]
  BY DEF ProduceWait, Ahead
<1>11. Contents' = Contents
  BY <1>3, <1>9, <1>10, ContentsUnchanged DEF IInv
<1> QED
  BY <1>9, <1>11 DEF ProduceWait

(* A producer that starts to write tears a slot no reader has.            *)
LEMMA ProduceLockStep ==
  ASSUME PCQueueAssumption, IInv, NEW p \in Producers, ProduceLock(p)
  PROVE  IInv' /\ UNCHANGED <<Contents, out>>
<1>1. /\ Cardinality(Writing)' = Cardinality(Writing)
      /\ Cardinality(Published)' = Cardinality(Published)
      /\ Cardinality(Reading)' = Cardinality(Reading)
      /\ Cardinality(Released)' = Cardinality(Released)
      /\ Cardinality(Writing)' \in Nat /\ Cardinality(Published)' \in Nat
  BY ProducerMoves DEF ProduceLock, IInv, One
<1>2. /\ Cardinality(Writing) \in Nat /\ Cardinality(Published) \in Nat
      /\ Cardinality(Reading) \in Nat /\ Cardinality(Released) \in Nat
  BY CountsAreNat
<1>3. Accounted' /\ Stored' = Stored
  BY <1>1, <1>2 DEF ProduceLock, IInv, TypeOK, SlotsAccounted, Accounted, Stored,
                    PCQueueAssumption
<1>4. empty' \in Nat /\ used' \in Nat
  BY DEF ProduceLock, IInv, TypeOK
<1>5. empty' \in 0 .. Capacity /\ used' \in 0 .. Capacity
  BY <1>1, <1>2, <1>3, <1>4 DEF Accounted, PCQueueAssumption
<1>6. TypeOK'
  BY <1>5 DEF ProduceLock, IInv, TypeOK, Goto, Threads
<1>7. Stored \in 0 .. Capacity - 1
  <2>1. 1 <= Cardinality(Writing)
    BY ProducerMoves DEF ProduceLock, IInv, One
  <2> QED
    BY <2>1, <1>2, AccountedBounds
      DEF IInv, TypeOK, SlotsAccounted, Accounted, PCQueueAssumption
<1>8. \A i \in 0 .. Stored - 1 : storage'[Ahead(i)] = storage[Ahead(i)]
  <2>1. \A i \in 0 .. Stored - 1 : Ahead(i) # produce_at
    BY <1>7, AheadOneToOne DEF IInv, TypeOK, SlotsAccounted, PCQueueAssumption
  <2> QED
    BY <1>7, <2>1, AheadInSlots DEF ProduceLock, IInv, TypeOK, PCQueueAssumption
<1>9. produce_at' = produce_at /\ consume_at' = consume_at
  BY DEF ProduceLock
<1>10. SlotsAccounted'
  <2>1. \A i \in 0 .. Stored - 1 : storage'[Ahead(i)] \in Values
    BY <1>8 DEF IInv, SlotsAccounted
  <2> QED
    BY <1>3, <1>9, <2>1 DEF IInv, SlotsAccounted, Accounted, Ahead
<1>11. MutexesHeld'
  BY DEF ProduceLock, IInv, TypeOK, MutexesHeld, Goto, Threads, PCQueueAssumption
<1>12. IInv'
  BY <1>6, <1>10, <1>11 DEF IInv
<1>13. \A i \in 0 .. Stored - 1 : storage'[Ahead(i)'] = storage[Ahead(i)]
  BY <1>8, <1>9 DEF Ahead
<1>14. Contents' = Contents
  BY <1>3, <1>12, <1>13, ContentsUnchanged DEF IInv
<1> QED
  BY <1>12, <1>14 DEF ProduceLock

(* The end of the assignment puts the value into the FIFO.                *)
LEMMA ProduceAssignStep ==
  ASSUME PCQueueAssumption, IInv, NEW p \in Producers, ProduceAssign(p)
  PROVE  IInv' /\ FIFO!Put(val[p])
<1>1. /\ Cardinality(Writing)' = Cardinality(Writing) - 1
      /\ Cardinality(Published)' = Cardinality(Published) + 1
      /\ Cardinality(Reading)' = Cardinality(Reading)
      /\ Cardinality(Released)' = Cardinality(Released)
      /\ Cardinality(Writing)' \in Nat /\ Cardinality(Published)' \in Nat
  BY ProducerMoves DEF ProduceAssign, IInv, One
<1>2. /\ Cardinality(Writing) \in Nat /\ Cardinality(Published) \in Nat
      /\ Cardinality(Reading) \in Nat /\ Cardinality(Released) \in Nat
  BY CountsAreNat
<1>3. Accounted' /\ Stored' = Stored + 1
  BY <1>1, <1>2 DEF ProduceAssign, IInv, TypeOK, SlotsAccounted, Accounted, Stored,
                    PCQueueAssumption
<1>4. empty' \in Nat /\ used' \in Nat
  BY DEF ProduceAssign, IInv, TypeOK
<1>5. empty' \in 0 .. Capacity /\ used' \in 0 .. Capacity
  BY <1>1, <1>2, <1>3, <1>4 DEF Accounted, PCQueueAssumption
<1>6. Stored \in 0 .. Capacity - 1
  <2>1. 1 <= Cardinality(Writing)
    BY ProducerMoves DEF ProduceAssign, IInv, One
  <2> QED
    BY <2>1, <1>2, AccountedBounds
      DEF IInv, TypeOK, SlotsAccounted, Accounted, PCQueueAssumption
<1>7. TypeOK'
  <2>1. produce_at' \in Slots
    BY DEF ProduceAssign, IInv, TypeOK, Advance, Slots, PCQueueAssumption
  <2> QED
    BY <1>5, <2>1 DEF ProduceAssign, IInv, TypeOK, Goto, Threads
<1>8. storage'[Ahead(Stored)] = val[p] /\ val[p] \in Values
  BY DEF ProduceAssign, IInv, TypeOK, SlotsAccounted
<1>9. \A i \in 0 .. Stored - 1 : storage'[Ahead(i)] = storage[Ahead(i)]
  <2>1. \A i \in 0 .. Stored - 1 : Ahead(i) # produce_at
    BY <1>6, AheadOneToOne DEF IInv, TypeOK, SlotsAccounted, PCQueueAssumption
  <2> QED
    BY <1>6, <2>1, AheadInSlots DEF ProduceAssign, IInv, TypeOK, PCQueueAssumption
<1>10. consume_at' = consume_at
  BY DEF ProduceAssign
<1>11. SlotsAccounted'
  <2>1. produce_at' = Ahead(Stored + 1)
    BY <1>6, AdvanceIsNext DEF ProduceAssign, IInv, TypeOK, SlotsAccounted
  <2>2. \A i \in 0 .. Stored : storage'[Ahead(i)] \in Values
    BY <1>6, <1>8, <1>9 DEF IInv, SlotsAccounted
  <2>3. Capacity \in Nat
    BY DEF PCQueueAssumption
  <2> QED
    BY <1>3, <1>6, <1>10, <2>1, <2>2, <2>3 DEF SlotsAccounted, Accounted, Ahead
<1>12. MutexesHeld'
  BY DEF ProduceAssign, IInv, TypeOK, MutexesHeld, Goto, Threads, PCQueueAssumption
<1>13. IInv'
  BY <1>7, <1>11, <1>12 DEF IInv
<1>14. Contents' = Append(Contents, val[p])
  <2>1. ContentsTypedHere
    BY ContentsTyped
  <2>2. /\ Append(Contents, val[p]) \in Seq(Values)
        /\ Len(Append(Contents, val[p])) = Stored + 1
        /\ \A i \in 1 .. Stored : Append(Contents, val[p])[i] = Contents[i]
        /\ Append(Contents, val[p])[Stored + 1] = val[p]
    BY <1>6, <1>8, <2>1 DEF ContentsTypedHere
  <2>3. /\ Contents' \in Seq(Values) /\ Len(Contents') = Stored + 1
        /\ \A i \in 1 .. Stored + 1 : Contents'[i] = storage'[Ahead(i - 1)]
    BY <1>3, <1>10, <1>13, ContentsTypedNext DEF Ahead
  <2>4. Contents'[Stored + 1] = val[p]
    BY <1>6, <1>8, <2>3
  <2>5. \A i \in 1 .. Stored : Contents'[i] = Contents[i]
    <3>1. \A i \in 1 .. Stored : i - 1 \in 0 .. Stored - 1
      BY <1>6
    <3>2. \A i \in 1 .. Stored : storage'[Ahead(i - 1)] = storage[Ahead(i - 1)]
      BY <1>9, <3>1
    <3> QED
      BY <1>6, <2>1, <2>3, <3>2 DEF ContentsTypedHere
  <2>6. \A i \in 1 .. Stored + 1 : Contents'[i] = Append(Contents, val[p])[i]
    BY <1>6, <2>2, <2>4, <2>5
  <2> QED
    BY <2>2, <2>3, <2>6, SeqEqual
<1>15. Len(Contents) < Capacity
  BY <1>6, ContentsTyped DEF ContentsTypedHere, PCQueueAssumption
<1> QED
  BY <1>13, <1>14, <1>15 DEF FIFO!Put, ProduceAssign

(* A throwing assignment gives back its slot and nothing else.            *)
LEMMA ProduceThrowStep ==
  ASSUME PCQueueAssumption, IInv, NEW p \in Producers, ProduceThrow(p)
  PROVE  IInv' /\ UNCHANGED <<Contents, out>>
<1>1. /\ Cardinality(Writing)' = Cardinality(Writing) - 1
      /\ Cardinality(Published)' = Cardinality(Published)
      /\ Cardinality(Reading)' = Cardinality(Reading)
      /\ Cardinality(Released)' = Cardinality(Released)
      /\ Cardinality(Writing)' \in Nat /\ Cardinality(Published)' \in Nat
  BY ProducerMoves DEF ProduceThrow, IInv, One
<1>2. /\ Cardinality(Writing) \in Nat /\ Cardinality(Published) \in Nat
      /\ Cardinality(Reading) \in Nat /\ Cardinality(Released) \in Nat
  BY CountsAreNat
<1>3. Accounted' /\ Stored' = Stored
  BY <1>1, <1>2 DEF ProduceThrow, IInv, TypeOK, SlotsAccounted, Accounted, Stored,
                    PCQueueAssumption
<1>4. empty' \in Nat /\ used' \in Nat
  BY DEF ProduceThrow, IInv, TypeOK
<1>5. empty' \in 0 .. Capacity /\ used' \in 0 .. Capacity
  BY <1>1, <1>2, <1>3, <1>4 DEF Accounted, PCQueueAssumption
<1>6. TypeOK'
  BY <1>5 DEF ProduceThrow, IInv, TypeOK, Goto, Threads
<1>7. SlotsAccounted'
  BY <1>3, RingUnchanged DEF SlotsAccounted, Accounted, ProduceThrow
<1>8. MutexesHeld'
  BY DEF ProduceThrow, IInv, TypeOK, MutexesHeld, Goto, Threads, PCQueueAssumption
<1>9. IInv'
  BY <1>6, <1>7, <1>8 DEF IInv
<1>10. \A i \in 0 .. Stored - 1 : storage'[Ahead(i)'] = storage[Ahead(i)]
  BY DEF ProduceThrow, Ahead
<1>11. Contents' = Contents
  BY <1>3, <1>9, <1>10, ContentsUnchanged DEF IInv
<1> QED
  BY <1>9, <1>11 DEF ProduceThrow

(* A published value becomes one that consumers may claim.                *)
LEMMA ProducePostStep ==
  ASSUME PCQueueAssumption, IInv, NEW p \in Producers, ProducePost(p)
  PROVE  IInv' /\ UNCHANGED <<Contents, out>>
<1>1. /\ Cardinality(Writing)' = Cardinality(Writing)
      /\ Cardinality(Published)' = Cardinality(Published) - 1
      /\ Cardinality(Reading)' = Cardinality(Reading)
      /\ Cardinality(Released)' = Cardinality(Released)
      /\ Cardinality(Writing)' \in Nat /\ Cardinality(Published)' \in Nat
  BY ProducerMoves DEF ProducePost, IInv, One
<1>2. /\ Cardinality(Writing) \in Nat /\ Cardinality(Published) \in Nat
      /\ Cardinality(Reading) \in Nat /\ Cardinality(Released) \in Nat
  BY CountsAreNat
<1>3. Accounted' /\ Stored' = Stored
  BY <1>1, <1>2 DEF ProducePost, IInv, TypeOK, SlotsAccounted, Accounted, Stored,
                    PCQueueAssumption
<1>4. empty' \in Nat /\ used' \in Nat
  BY DEF ProducePost, IInv, TypeOK
<1>5. empty' \in 0 .. Capacity /\ used' \in 0 .. Capacity
  BY <1>1, <1>2, <1>3, <1>4 DEF Accounted, PCQueueAssumption
<1>6. TypeOK'
  BY <1>5 DEF ProducePost, IInv, TypeOK, Goto, Threads
<1>7. SlotsAccounted'
  BY <1>3, RingUnchanged DEF SlotsAccounted, Accounted, ProducePost
<1>8. MutexesHeld'
  BY DEF ProducePost, IInv, TypeOK, MutexesHeld, Goto, Threads, PCQueueAssumption
<1>9. IInv'
  BY <1>6, <1>7, <1>8 DEF IInv
<1>10. \A i \in 0 .. Stored - 1 : storage'[Ahead(i)'] = storage[Ahead(i)]
  BY DEF ProducePost, Ahead
<1>11. Contents' = Contents
  BY <1>3, <1>9, <1>10, ContentsUnchanged DEF IInv
<1> QED
  BY <1>9, <1>11 DEF ProducePost

(* A thread that calls Consume keeps IInv; the FIFO stutters.             *)
LEMMA CallConsumeStep ==
  ASSUME PCQueueAssumption, IInv, NEW c \in Consumers, CallConsume(c)
  PROVE  IInv' /\ UNCHANGED <<Contents, out>>
<1>1. /\ Cardinality(Reading)' = Cardinality(Reading)
      /\ Cardinality(Released)' = Cardinality(Released)
      /\ Cardinality(Writing)' = Cardinality(Writing)
      /\ Cardinality(Published)' = Cardinality(Published)
      /\ Cardinality(Reading)' \in Nat /\ Cardinality(Released)' \in Nat
  BY ConsumerMoves DEF CallConsume, IInv, One
<1>2. /\ Cardinality(Writing) \in Nat /\ Cardinality(Published) \in Nat
      /\ Cardinality(Reading) \in Nat /\ Cardinality(Released) \in Nat
  BY CountsAreNat
<1>3. Accounted' /\ Stored' = Stored
  BY <1>1, <1>2 DEF CallConsume, IInv, TypeOK, SlotsAccounted, Accounted, Stored, queueVars,
                    PCQueueAssumption
<1>4. empty' \in Nat /\ used' \in Nat
  BY DEF CallConsume, IInv, TypeOK, queueVars
<1>5. empty' \in 0 .. Capacity /\ used' \in 0 .. Capacity
  BY <1>1, <1>2, <1>3, <1>4 DEF Accounted, PCQueueAssumption
<1>6. TypeOK'
  BY <1>5 DEF CallConsume, IInv, TypeOK, Goto, Threads, queueVars
<1>7. SlotsAccounted'
  BY <1>3, RingUnchanged DEF SlotsAccounted, Accounted, CallConsume, queueVars
<1>8. MutexesHeld'
  BY DEF CallConsume, IInv, TypeOK, MutexesHeld, Goto, Threads, queueVars, PCQueueAssumption
<1>9. IInv'
  BY <1>6, <1>7, <1>8 DEF IInv
<1>10. \A i \in 0 .. Stored - 1 : storage'[Ahead(i)'] = storage[Ahead(i)]
  BY DEF CallConsume, Ahead, queueVars
<1>11. Contents' = Contents
  BY <1>3, <1>9, <1>10, ContentsUnchanged DEF IInv
<1> QED
  BY <1>9, <1>11 DEF CallConsume, queueVars

(* A consumer that gets used_ has one slot more to read.                  *)
LEMMA ConsumeWaitStep ==
  ASSUME PCQueueAssumption, IInv, NEW c \in Consumers, ConsumeWait(c)
  PROVE  IInv' /\ UNCHANGED <<Contents, out>>
<1>1. /\ Cardinality(Reading)' = Cardinality(Reading) + 1
      /\ Cardinality(Released)' = Cardinality(Released)
      /\ Cardinality(Writing)' = Cardinality(Writing)
      /\ Cardinality(Published)' = Cardinality(Published)
      /\ Cardinality(Reading)' \in Nat /\ Cardinality(Released)' \in Nat
  BY ConsumerMoves DEF ConsumeWait, IInv, One
<1>2. /\ Cardinality(Writing) \in Nat /\ Cardinality(Published) \in Nat
      /\ Cardinality(Reading) \in Nat /\ Cardinality(Released) \in Nat
  BY CountsAreNat
<1>3. Accounted' /\ Stored' = Stored
  BY <1>1, <1>2 DEF ConsumeWait, IInv, TypeOK, SlotsAccounted, Accounted, Stored,
                    PCQueueAssumption
<1>4. empty' \in Nat /\ used' \in Nat
  BY DEF ConsumeWait, IInv, TypeOK
<1>5. empty' \in 0 .. Capacity /\ used' \in 0 .. Capacity
  BY <1>1, <1>2, <1>3, <1>4 DEF Accounted, PCQueueAssumption
<1>6. TypeOK'
  BY <1>5 DEF ConsumeWait, IInv, TypeOK, Goto, Threads
<1>7. SlotsAccounted'
  BY <1>3, RingUnchanged DEF SlotsAccounted, Accounted, ConsumeWait
<1>8. MutexesHeld'
  BY DEF ConsumeWait, IInv, TypeOK, MutexesHeld, Goto, Threads, PCQueueAssumption
<1>9. IInv'
  BY <1>6, <1>7, <1>8 DEF IInv
<1>10. \A i \in 0 .. Stored - 1 : storage'[Ahead(i)'] = storage[Ahead(i)]
  BY DEF ConsumeWait, Ahead
<1>11. Contents' = Contents
  BY <1>3, <1>9, <1>10, ContentsUnchanged DEF IInv
<1> QED
  BY <1>9, <1>11 DEF ConsumeWait

(* Taking the consume mutex leaves the ring alone.                        *)
LEMMA ConsumeLockStep ==
  ASSUME PCQueueAssumption, IInv, NEW c \in Consumers, ConsumeLock(c)
  PROVE  IInv' /\ UNCHANGED <<Contents, out>>
<1>1. /\ Cardinality(Reading)' = Cardinality(Reading)
      /\ Cardinality(Released)' = Cardinality(Released)
      /\ Cardinality(Writing)' = Cardinality(Writing)
      /\ Cardinality(Published)' = Cardinality(Published)
      /\ Cardinality(Reading)' \in Nat /\ Cardinality(Released)' \in Nat
  BY ConsumerMoves DEF ConsumeLock, IInv, One
<1>2. /\ Cardinality(Writing) \in Nat /\ Cardinality(Published) \in Nat
      /\ Cardinality(Reading) \in Nat /\ Cardinality(Released) \in Nat
  BY CountsAreNat
<1>3. Accounted' /\ Stored' = Stored
  BY <1>1, <1>2 DEF ConsumeLock, IInv, TypeOK, SlotsAccounted, Accounted, Stored,
                    PCQueueAssumption
<1>4. empty' \in Nat /\ used' \in Nat
  BY DEF ConsumeLock, IInv, TypeOK
<1>5. empty' \in 0 .. Capacity /\ used' \in 0 .. Capacity
  BY <1>1, <1>2, <1>3, <1>4 DEF Accounted, PCQueueAssumption
<1>6. TypeOK'
  BY <1>5 DEF ConsumeLock, IInv, TypeOK, Goto, Threads
<1>7. SlotsAccounted'
  BY <1>3, RingUnchanged DEF SlotsAccounted, Accounted, ConsumeLock
<1>8. MutexesHeld'
  BY DEF ConsumeLock, IInv, TypeOK, MutexesHeld, Goto, Threads, PCQueueAssumption
<1>9. IInv'
  BY <1>6, <1>7, <1>8 DEF IInv
<1>10. \A i \in 0 .. Stored - 1 : storage'[Ahead(i)'] = storage[Ahead(i)]
  BY DEF ConsumeLock, Ahead
<1>11. Contents' = Contents
  BY <1>3, <1>9, <1>10, ContentsUnchanged DEF IInv
<1> QED
  BY <1>9, <1>11 DEF ConsumeLock

(* The end of the assignment gets the oldest value of the FIFO.           *)
LEMMA ConsumeAssignStep ==
  ASSUME PCQueueAssumption, IInv, NEW c \in Consumers, ConsumeAssign(c)
  PROVE  IInv' /\ FIFO!Get(c)
<1>1. /\ Cardinality(Reading)' = Cardinality(Reading) - 1
      /\ Cardinality(Released)' = Cardinality(Released) + 1
      /\ Cardinality(Writing)' = Cardinality(Writing)
      /\ Cardinality(Published)' = Cardinality(Published)
      /\ Cardinality(Reading)' \in Nat /\ Cardinality(Released)' \in Nat
  BY ConsumerMoves DEF ConsumeAssign, IInv, One
<1>2. /\ Cardinality(Writing) \in Nat /\ Cardinality(Published) \in Nat
      /\ Cardinality(Reading) \in Nat /\ Cardinality(Released) \in Nat
  BY CountsAreNat
<1>3. Accounted' /\ Stored' = Stored - 1
  BY <1>1, <1>2 DEF ConsumeAssign, IInv, TypeOK, SlotsAccounted, Accounted, Stored,
                    PCQueueAssumption
<1>4. empty' \in Nat /\ used' \in Nat
  BY DEF ConsumeAssign, IInv, TypeOK
<1>5. empty' \in 0 .. Capacity /\ used' \in 0 .. Capacity
  BY <1>1, <1>2, <1>3, <1>4 DEF Accounted, PCQueueAssumption
<1>6. Stored \in 1 .. Capacity
  <2>1. 1 <= Cardinality(Reading)
    BY ConsumerMoves DEF ConsumeAssign, IInv, One
  <2>2. Stored \in 0 .. Capacity
    BY AccountedBounds DEF IInv, TypeOK, SlotsAccounted, Accounted, PCQueueAssumption
  <2> QED
    BY <1>2, <2>1, <2>2 DEF Stored, IInv, TypeOK, PCQueueAssumption
<1>7. storage[consume_at] \in Values
  BY <1>6 DEF IInv, TypeOK, SlotsAccounted, Ahead, Slots, PCQueueAssumption
<1>8. TypeOK'
  <2>1. consume_at' \in Slots
    BY DEF ConsumeAssign, IInv, TypeOK, Advance, Slots, PCQueueAssumption
  <2> QED
    BY <1>5, <1>7, <2>1 DEF ConsumeAssign, IInv, TypeOK, Goto, Threads
<1>9. SlotsAccounted'
  <2>1. \A i \in 0 .. Capacity - 1 : Ahead(i)' = Ahead(i + 1)
    BY AheadShifts DEF ConsumeAssign, IInv, TypeOK
  <2>2. produce_at' = IF consume_at' + Stored' < Capacity
                        THEN consume_at' + Stored'
                        ELSE consume_at' + Stored' - Capacity
    BY <1>3, <1>6 DEF ConsumeAssign, IInv, TypeOK, SlotsAccounted, Ahead, Advance,
                      Slots, PCQueueAssumption
  <2>3. \A i \in 0 .. Stored - 2 : storage'[Ahead(i)'] \in Values
    BY <1>6, <2>1 DEF ConsumeAssign, IInv, SlotsAccounted, PCQueueAssumption
  <2> QED
    BY <1>3, <1>6, <2>2, <2>3 DEF SlotsAccounted, Accounted, Ahead, PCQueueAssumption
<1>10. MutexesHeld'
  BY DEF ConsumeAssign, IInv, TypeOK, MutexesHeld, Goto, Threads, PCQueueAssumption
<1>11. IInv'
  BY <1>8, <1>9, <1>10 DEF IInv
<1>12. Contents # <<>> /\ Head(Contents) = storage[consume_at]
  BY <1>6, ContentsTyped
    DEF ContentsTypedHere, Ahead, IInv, TypeOK, Slots, PCQueueAssumption
<1>13. Contents' = Tail(Contents)
  <2>1. ContentsTypedHere
    BY ContentsTyped
  <2>2. /\ Tail(Contents) \in Seq(Values)
        /\ Len(Tail(Contents)) = Stored - 1
        /\ \A i \in 1 .. Stored - 1 : Tail(Contents)[i] = Contents[i + 1]
    BY <1>12, <2>1, HeadTailProperties DEF ContentsTypedHere
  <2>3. /\ Contents' \in Seq(Values) /\ Len(Contents') = Stored - 1
        /\ \A i \in 1 .. Stored - 1 : Contents'[i] = storage[Ahead(i - 1)']
    BY <1>3, <1>11, ContentsTypedNext DEF ConsumeAssign
  <2>4. \A i \in 1 .. Stored - 1 : Ahead(i - 1)' = Ahead(i)
    BY <1>6, AheadShifts DEF ConsumeAssign, IInv, TypeOK, PCQueueAssumption
  <2>5. \A i \in 1 .. Stored - 1 : Contents[i + 1] = storage[Ahead(i)]
    BY <1>6, <2>1 DEF ContentsTypedHere
  <2>6. \A i \in 1 .. Stored - 1 : Contents'[i] = Tail(Contents)[i]
    BY <2>2, <2>3, <2>4, <2>5
  <2> QED
    BY <2>2, <2>3, <2>6, SeqEqual
<1> QED
  BY <1>11, <1>12, <1>13 DEF FIFO!Get, ConsumeAssign

(* A throwing assignment leaves the value in the FIFO.                    *)
LEMMA ConsumeThrowStep ==
  ASSUME PCQueueAssumption, IInv, NEW c \in Consumers, ConsumeThrow(c)
  PROVE  IInv' /\ UNCHANGED <<Contents, out>>
<1>1. /\ Cardinality(Reading)' = Cardinality(Reading) - 1
      /\ Cardinality(Released)' = Cardinality(Released)
      /\ Cardinality(Writing)' = Cardinality(Writing)
      /\ Cardinality(Published)' = Cardinality(Published)
      /\ Cardinality(Reading)' \in Nat /\ Cardinality(Released)' \in Nat
  BY ConsumerMoves DEF ConsumeThrow, IInv, One
<1>2. /\ Cardinality(Writing) \in Nat /\ Cardinality(Published) \in Nat
      /\ Cardinality(Reading) \in Nat /\ Cardinality(Released) \in Nat
  BY CountsAreNat
<1>3. Accounted' /\ Stored' = Stored
  BY <1>1, <1>2 DEF ConsumeThrow, IInv, TypeOK, SlotsAccounted, Accounted, Stored,
                    PCQueueAssumption
<1>4. empty' \in Nat /\ used' \in Nat
  BY DEF ConsumeThrow, IInv, TypeOK
<1>5. empty' \in 0 .. Capacity /\ used' \in 0 .. Capacity
  BY <1>1, <1>2, <1>3, <1>4 DEF Accounted, PCQueueAssumption
<1>6. TypeOK'
  BY <1>5 DEF ConsumeThrow, IInv, TypeOK, Goto, Threads
<1>7. SlotsAccounted'
  BY <1>3, RingUnchanged DEF SlotsAccounted, Accounted, ConsumeThrow
<1>8. MutexesHeld'
  BY DEF ConsumeThrow, IInv, TypeOK, MutexesHeld, Goto, Threads, PCQueueAssumption
<1>9. IInv'
  BY <1>6, <1>7, <1>8 DEF IInv
<1>10. \A i \in 0 .. Stored - 1 : storage'[Ahead(i)'] = storage[Ahead(i)]
  BY DEF ConsumeThrow, Ahead
<1>11. Contents' = Contents
  BY <1>3, <1>9, <1>10, ContentsUnchanged DEF IInv
<1> QED
  BY <1>9, <1>11 DEF ConsumeThrow

(* A slot that was read becomes one that producers may claim.             *)
LEMMA ConsumePostStep ==
  ASSUME PCQueueAssumption, IInv, NEW c \in Consumers, ConsumePost(c)
  PROVE  IInv' /\ UNCHANGED <<Contents, out>>
<1>1. /\ Cardinality(Reading)' = Cardinality(Reading)
      /\ Cardinality(Released)' = Cardinality(Released) - 1
      /\ Cardinality(Writing)' = Cardinality(Writing)
      /\ Cardinality(Published)' = Cardinality(Published)
      /\ Cardinality(Reading)' \in Nat /\ Cardinality(Released)' \in Nat
  BY ConsumerMoves DEF ConsumePost, IInv, One
<1>2. /\ Cardinality(Writing) \in Nat /\ Cardinality(Published) \in Nat
      /\ Cardinality(Reading) \in Nat /\ Cardinality(Released) \in Nat
  BY CountsAreNat
<1>3. Accounted' /\ Stored' = Stored
  BY <1>1, <1>2 DEF ConsumePost, IInv, TypeOK, SlotsAccounted, Accounted, Stored,
                    PCQueueAssumption
<1>4. empty' \in Nat /\ used' \in Nat
  BY DEF ConsumePost, IInv, TypeOK
<1>5. empty' \in 0 .. Capacity /\ used' \in 0 .. Capacity
  BY <1>1, <1>2, <1>3, <1>4 DEF Accounted, PCQueueAssumption
<1>6. TypeOK'
  BY <1>5 DEF ConsumePost, IInv, TypeOK, Goto, Threads
<1>7. SlotsAccounted'
  BY <1>3, RingUnchanged DEF SlotsAccounted, Accounted, ConsumePost
<1>8. MutexesHeld'
  BY DEF ConsumePost, IInv, TypeOK, MutexesHeld, Goto, Threads, PCQueueAssumption
<1>9. IInv'
  BY <1>6, <1>7, <1>8 DEF IInv
<1>10. \A i \in 0 .. Stored - 1 : storage'[Ahead(i)'] = storage[Ahead(i)]
  BY DEF ConsumePost, Ahead
<1>11. Contents' = Contents
  BY <1>3, <1>9, <1>10, ContentsUnchanged DEF IInv
<1> QED
  BY <1>9, <1>11 DEF ConsumePost
-----------------------------------------------------------------------------
(* Every step of Next preserves IInv and is a step or a stutter of FIFO.   *)
LEMMA Step ==
  ASSUME PCQueueAssumption, IInv, [Next]_vars
  PROVE  IInv' /\ [FIFO!Next]_<<Contents, out>>
<1>1. CASE UNCHANGED vars
  BY <1>1 DEF vars, queueVars, IInv, TypeOK, SlotsAccounted, MutexesHeld, Stored,
              Ahead, Writing, Published, Reading, Released, At, Contents
<1>2. ASSUME NEW p \in Producers, Produce(p)
      PROVE  IInv' /\ [FIFO!Next]_<<Contents, out>>
  <2>1. CASE ProduceAssign(p)
    <3>1. val[p] \in Values
      BY DEF IInv, TypeOK
    <3> QED
      BY <2>1, <3>1, ProduceAssignStep DEF FIFO!Next
  <2> QED
    BY <1>2, <2>1, CallProduceStep, ProduceWaitStep, ProduceLockStep,
       ProduceThrowStep, ProducePostStep DEF Produce
<1>3. ASSUME NEW c \in Consumers, Consume(c)
      PROVE  IInv' /\ [FIFO!Next]_<<Contents, out>>
  BY <1>3, CallConsumeStep, ConsumeWaitStep, ConsumeLockStep, ConsumeAssignStep,
     ConsumeThrowStep, ConsumePostStep DEF Consume, FIFO!Next
<1> QED
  BY <1>1, <1>2, <1>3 DEF Next

(* IInv holds in every reachable state.                                    *)
THEOREM Invariance == Spec => []IInv
<1>1. PCQueueAssumption
  BY PCQueueAssumption
<1>2. Init => IInv
  BY <1>1, InitInv
<1>3. IInv /\ [Next]_vars => IInv'
  BY <1>1, Step
<1> QED
  BY <1>2, <1>3, PTL DEF Spec

(* Every variable of the queue keeps its type: in particular no semaphore  *)
(* goes below zero or above Capacity and no cursor leaves the ring.        *)
THEOREM TypeCorrect == Spec => []TypeOK
<1>1. IInv => TypeOK
  BY DEF IInv
<1> QED
  BY <1>1, Invariance, PTL

(* Produce and Consume never touch one slot at the same time, though the   *)
(* two ends of pcqueue.hh use two mutexes.                                 *)
THEOREM SlotsNeverRace == Spec => []NoSlotRace
<1>1. PCQueueAssumption
  BY PCQueueAssumption
<1>2. IInv => NoSlotRace
  <2> SUFFICES ASSUME IInv
               PROVE  NoSlotRace
    OBVIOUS
  <2>1. /\ \A p, q \in At(Producers, {"assign"}) : p = q
        /\ \A c, d \in At(Consumers, {"assign"}) : c = d
    BY DEF IInv, MutexesHeld, At
  <2>2. ASSUME At(Producers, {"assign"}) # {}, At(Consumers, {"assign"}) # {}
        PROVE  produce_at # consume_at
    <3>1. Writing # {} /\ Reading # {}
      BY <2>2 DEF At, Writing, Reading
    <3>2. Cardinality(Writing) \in Nat \ {0} /\ Cardinality(Reading) \in Nat \ {0}
      BY <1>1, <3>1, CountsAreNat, FS_EmptySet
    <3>3. Stored \in 1 .. Capacity - 1
      BY <1>1, <3>2, AccountedBounds, CountsAreNat
        DEF IInv, TypeOK, SlotsAccounted, Accounted, Stored, PCQueueAssumption
    <3> QED
      BY <1>1, <3>3 DEF IInv, TypeOK, SlotsAccounted, Ahead, Slots, PCQueueAssumption
  <2> QED
    BY <2>1, <2>2 DEF NoSlotRace
<1> QED
  BY <1>2, Invariance, PTL

(* The strong exception guarantee of pcqueue.hh: whatever assignments      *)
(* threw, an idle queue has all of its slots and all of its values.        *)
THEOREM SlotsNeverLost == Spec => []NoSlotLost
<1>1. IInv => NoSlotLost
  <2> SUFFICES ASSUME IInv, \A t \in Threads : pc[t] \in {"idle", "wait"}
               PROVE  /\ empty + used = Capacity
                      /\ produce_at = Ahead(used)
                      /\ \A i \in 0 .. used - 1 : storage[Ahead(i)] \in Values
    BY DEF NoSlotLost
  <2>1. Writing = {} /\ Published = {} /\ Reading = {} /\ Released = {}
    BY DEF Writing, Published, Reading, Released, At, Threads
  <2>2. Cardinality({}) = 0
    BY FS_EmptySet
  <2>3. Stored = used
    BY <2>1, <2>2 DEF Stored, IInv, TypeOK
  <2> QED
    BY <2>1, <2>2, <2>3 DEF IInv, TypeOK, SlotsAccounted
<1> QED
  BY <1>1, Invariance, PTL

(* The ring of slots, semaphores and mutexes implements the bounded FIFO   *)
(* that the thread pools, the server and the filter rely on.               *)
THEOREM Refinement == Spec => ImplementsFIFO
<1>1. PCQueueAssumption
  BY PCQueueAssumption
<1>2. Init => FIFO!Init
  <2> SUFFICES ASSUME Init
               PROVE  FIFO!Init
    OBVIOUS
  <2>1. Writing = {} /\ Published = {} /\ Reading = {} /\ Released = {}
    BY DEF Init, Writing, Published, Reading, Released, At, Threads
  <2>2. Stored = 0
    BY <2>1, FS_EmptySet DEF Stored, Init
  <2>3. ContentsTypedHere
    BY <1>1, InitInv, ContentsTyped
  <2>4. Contents = <<>>
    BY <2>2, <2>3 DEF ContentsTypedHere
  <2> QED
    BY <2>4 DEF FIFO!Init, Init
<1>3. IInv /\ [Next]_vars => [FIFO!Next]_<<Contents, out>>
  BY <1>1, Step
<1> QED
  BY <1>2, <1>3, Invariance, PTL DEF Spec, ImplementsFIFO, FIFO!Spec
=============================================================================
