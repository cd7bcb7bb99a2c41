------------------------------ MODULE PCQueue -------------------------------
(***************************************************************************)
(* util::PCQueue<T> (util/pcqueue.hh): a ring of Capacity slots, two       *)
(* counting semaphores and one mutex per end.  Any number of threads       *)
(* produce and consume.  A step of this module is what one thread does     *)
(* between two points where another thread can interfere.                  *)
(*                                                                         *)
(* Assigning a T takes two steps (the slot is Torn in between), so that a  *)
(* reader and a writer, or two writers, inside one slot are a visible      *)
(* state.  An assignment may throw: the code then gives the semaphore back *)
(* and leaves the cursor where it was.                                     *)
(***************************************************************************)
EXTENDS Integers, FiniteSets, Sequences

CONSTANTS Producers,   \* threads that call Produce
          Consumers,   \* threads that call Consume
          Values,      \* the values of type T that are produced
          Capacity,    \* the size passed to the constructor
          Torn,        \* a slot that was never assigned, or only in part
          NoValue,     \* an "out" that was not assigned yet
          NoOwner      \* the owner of a free mutex

ASSUME PCQueueAssumption ==
  /\ Capacity \in Nat \ {0}
  /\ IsFiniteSet(Producers) /\ IsFiniteSet(Consumers)
  /\ Producers \cap Consumers = {}
  /\ Torn \notin Values
  /\ NoOwner \notin Producers \cup Consumers

VARIABLES
  empty,             \* semaphore: slots a producer may still claim
  used,              \* semaphore: slots a consumer may still claim
  storage,           \* the ring
  produce_at, consume_at,
  produce_at_mutex, consume_at_mutex,
  pc,                \* where each thread is inside Produce or Consume
  val,               \* the argument of each producer's call
  out                \* the object each consumer assigns to

queueVars == <<empty, used, storage, produce_at, consume_at,
               produce_at_mutex, consume_at_mutex>>
vars == <<queueVars, pc, val, out>>

Slots == 0 .. Capacity - 1
Threads == Producers \cup Consumers

Goto(t, from, to) == pc[t] = from /\ pc' = [pc EXCEPT ![t] = to]

Init ==
  /\ empty = Capacity
  /\ used = 0
  /\ storage = [s \in Slots |-> Torn]
  /\ produce_at = 0 /\ consume_at = 0
  /\ produce_at_mutex = NoOwner /\ consume_at_mutex = NoOwner
  /\ pc = [t \in Threads |-> "idle"]
  /\ val \in [Producers -> Values]
  /\ out = [c \in Consumers |-> NoValue]

\* "if (++at == end_) at = storage_.get()"
Advance(at) == IF at + 1 = Capacity THEN 0 ELSE at + 1
-----------------------------------------------------------------------------
(* Produce(const T &val) *)

CallProduce(p) ==
  /\ Goto(p, "idle", "wait")
  /\ \E v \in Values : val' = [val EXCEPT ![p] = v]
  /\ UNCHANGED <<queueVars, out>>

\* Mutant: the producer does not wait for an empty slot.
ProduceWaitUnguarded(p) ==
  /\ Goto(p, "wait", "lock")
  /\ empty' = IF empty > 0 THEN empty - 1 ELSE 0
  /\ UNCHANGED <<used, storage, produce_at, consume_at, produce_at_mutex,
                 consume_at_mutex, val, out>>
\* WaitSemaphore(empty_): an interrupted wait (EINTR) is taken up again.
ProduceWait(p) ==
  /\ Goto(p, "wait", "lock")
  /\ empty > 0
  /\ empty' = empty - 1
  /\ UNCHANGED <<used, storage, produce_at, consume_at, produce_at_mutex,
                 consume_at_mutex, val, out>>

\* Mutant: the produce mutex is not taken.
ProduceLockFree(p) ==
  /\ Goto(p, "lock", "assign")
  /\ storage' = [storage EXCEPT ![produce_at] = Torn]
  /\ UNCHANGED <<empty, used, produce_at, consume_at, produce_at_mutex,
                 consume_at_mutex, val, out>>
\* Take the mutex and enter "*produce_at_ = val".
ProduceLock(p) ==
  /\ Goto(p, "lock", "assign")
  /\ produce_at_mutex = NoOwner
  /\ produce_at_mutex' = p
  /\ storage' = [storage EXCEPT ![produce_at] = Torn]
  /\ UNCHANGED <<empty, used, produce_at, consume_at, consume_at_mutex,
                 val, out>>

\* The assignment is complete: move the cursor and leave the critical section.
ProduceAssign(p) ==
  /\ Goto(p, "assign", "post")
  /\ storage' = [storage EXCEPT ![produce_at] = val[p]]
  /\ produce_at' = Advance(produce_at)
  /\ produce_at_mutex' = NoOwner
  /\ UNCHANGED <<empty, used, consume_at, consume_at_mutex, val, out>>

\* Mutant: the claimed slot is not given back when the assignment throws.
ProduceThrowLeak(p) ==
  /\ Goto(p, "assign", "idle")
  /\ produce_at_mutex' = NoOwner
  /\ UNCHANGED <<empty, used, storage, produce_at, consume_at,
                 consume_at_mutex, val, out>>
\* The assignment throws: empty_.post(), unlock, and the exception goes to the
\* caller.  The slot stays Torn, the cursor still points at it.
ProduceThrow(p) ==
  /\ Goto(p, "assign", "idle")
  /\ empty' = empty + 1
  /\ produce_at_mutex' = NoOwner
  /\ UNCHANGED <<used, storage, produce_at, consume_at, consume_at_mutex,
                 val, out>>

\* used_.post(), after the mutex was released.
ProducePost(p) ==
  /\ Goto(p, "post", "idle")
  /\ used' = used + 1
  /\ UNCHANGED <<empty, storage, produce_at, consume_at, produce_at_mutex,
                 consume_at_mutex, val, out>>
-----------------------------------------------------------------------------
(* Consume(T &out) *)

CallConsume(c) ==
  /\ Goto(c, "idle", "wait")
  /\ UNCHANGED <<queueVars, val, out>>

ConsumeWait(c) ==
  /\ Goto(c, "wait", "lock")
  /\ used > 0
  /\ used' = used - 1
  /\ UNCHANGED <<empty, storage, produce_at, consume_at, produce_at_mutex,
                 consume_at_mutex, val, out>>

\* Take the mutex and enter "out = *consume_at_".
ConsumeLock(c) ==
  /\ Goto(c, "lock", "assign")
  /\ consume_at_mutex = NoOwner
  /\ consume_at_mutex' = c
  /\ UNCHANGED <<empty, used, storage, produce_at, consume_at,
                 produce_at_mutex, val, out>>

ConsumeAssign(c) ==
  /\ Goto(c, "assign", "post")
  /\ out' = [out EXCEPT ![c] = storage[consume_at]]
  /\ consume_at' = Advance(consume_at)
  /\ consume_at_mutex' = NoOwner
  /\ UNCHANGED <<empty, used, storage, produce_at, produce_at_mutex, val>>

\* The assignment throws: used_.post(), unlock; the value is still the oldest.
ConsumeThrow(c) ==
  /\ Goto(c, "assign", "idle")
  /\ used' = used + 1
  /\ consume_at_mutex' = NoOwner
  /\ UNCHANGED <<empty, storage, produce_at, consume_at, produce_at_mutex,
                 val, out>>

\* empty_.post(), after the mutex was released.
ConsumePost(c) ==
  /\ Goto(c, "post", "idle")
  /\ empty' = empty + 1
  /\ UNCHANGED <<used, storage, produce_at, consume_at, produce_at_mutex,
                 consume_at_mutex, val, out>>
-----------------------------------------------------------------------------
Produce(p) == \/ CallProduce(p)   \/ ProduceWait(p)  \/ ProduceLock(p)
              \/ ProduceAssign(p) \/ ProduceThrow(p) \/ ProducePost(p)
Consume(c) == \/ CallConsume(c)   \/ ConsumeWait(c)  \/ ConsumeLock(c)
              \/ ConsumeAssign(c) \/ ConsumeThrow(c) \/ ConsumePost(c)

Next == \/ \E p \in Producers : Produce(p)
        \/ \E c \in Consumers : Consume(c)

Spec == Init /\ [][Next]_vars

(* Threads inside the queue keep running, the mutexes and semaphores wake  *)
(* somebody, and consumers are worker loops that always call Consume       *)
(* again; no thread in particular is favoured, and nobody has to call      *)
(* Produce.  Strong fairness of the assignments: not every one throws.     *)
Fairness ==
  /\ WF_vars(\E p \in Producers : ProduceWait(p) \/ ProduceLock(p) \/ ProducePost(p))
  /\ SF_vars(\E p \in Producers : ProduceAssign(p))
  /\ WF_vars(\E c \in Consumers : CallConsume(c) \/ ConsumeWait(c)
                                 \/ ConsumeLock(c) \/ ConsumePost(c))
  /\ SF_vars(\E c \in Consumers : ConsumeAssign(c))

FairSpec == Spec /\ Fairness
-----------------------------------------------------------------------------
(* The threads that hold a claim on some slot. *)
At(T, places) == {t \in T : pc[t] \in places}
Writing    == At(Producers, {"lock", "assign"})  \* claimed an empty slot
Published  == At(Producers, {"post"})            \* wrote it, used_ not posted
Reading    == At(Consumers, {"lock", "assign"})  \* claimed a used slot
Released   == At(Consumers, {"post"})            \* read it, empty_ not posted

\* How many slots between the cursors hold a value.
Stored == used + Cardinality(Published) + Cardinality(Reading)

\* The slot that is i after consume_at_.
Ahead(i) == IF consume_at + i < Capacity THEN consume_at + i
                                         ELSE consume_at + i - Capacity

TypeOK ==
  /\ empty \in 0 .. Capacity
  /\ used \in 0 .. Capacity
  /\ storage \in [Slots -> Values \cup {Torn}]
  /\ produce_at \in Slots /\ consume_at \in Slots
  /\ produce_at_mutex \in Producers \cup {NoOwner}
  /\ consume_at_mutex \in Consumers \cup {NoOwner}
  /\ pc \in [Threads -> {"idle", "wait", "lock", "assign", "post"}]
  /\ val \in [Producers -> Values]
  /\ out \in [Consumers -> Values \cup {NoValue}]

(* No thread writes a slot while another thread reads or writes it, though *)
(* the two ends take different mutexes: only the semaphores keep a reader  *)
(* and a writer apart when the ring is full or empty.                      *)
NoSlotRace ==
  /\ \A p, q \in At(Producers, {"assign"}) : p = q
  /\ \A c, d \in At(Consumers, {"assign"}) : c = d
  /\ At(Producers, {"assign"}) # {} /\ At(Consumers, {"assign"}) # {}
       => produce_at # consume_at

(* "Strong exception guarantee" (pcqueue.hh:80): when no thread is inside  *)
(* the queue, whatever was thrown before, each slot is counted by exactly  *)
(* one semaphore and the cursors are as far apart as used_ says.           *)
NoSlotLost ==
  (\A t \in Threads : pc[t] \in {"idle", "wait"}) =>
    /\ empty + used = Capacity
    /\ produce_at = Ahead(used)
    /\ \A i \in 0 .. used - 1 : storage[Ahead(i)] \in Values

(* Each slot is either counted by a semaphore or claimed by one thread, and *)
(* exactly the slots from consume_at on that were written and not yet read  *)
(* hold values; this is what makes the two ends safe without a common lock. *)
SlotsAccounted ==
  /\ empty + used + Cardinality(Writing) + Cardinality(Published)
       + Cardinality(Reading) + Cardinality(Released) = Capacity
  /\ produce_at = Ahead(Stored)
  /\ \A i \in 0 .. Stored - 1 : storage[Ahead(i)] \in Values

\* A thread is inside the assignment exactly while it owns its end's mutex.
MutexesHeld ==
  /\ \A p \in Producers : pc[p] = "assign" <=> produce_at_mutex = p
  /\ \A c \in Consumers : pc[c] = "assign" <=> consume_at_mutex = c

(* The inductive invariant from which the theorems follow.                 *)
IInv == TypeOK /\ SlotsAccounted /\ MutexesHeld

(* The ring is a bounded FIFO: values leave in the order in which they     *)
(* were assigned to slots, none twice, none lost, never more than Capacity.*)
Contents == [i \in 1 .. Stored |-> storage[Ahead(i - 1)]]
FIFO == INSTANCE BoundedQueue WITH queue <- Contents, received <- out
ImplementsFIFO == FIFO!Spec

(* While consumers keep consuming, blocked producers are not all left      *)
(* behind: one of them gets a slot (no wakeup is lost).                    *)
ProducersProgress ==
  (\E p \in Producers : pc[p] = "wait") ~> (\E p \in Producers : pc[p] = "lock")
=============================================================================
