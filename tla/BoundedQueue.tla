---------------------------- MODULE BoundedQueue ----------------------------
(***************************************************************************)
(* What util::PCQueue promises its callers: a FIFO of at most Capacity     *)
(* values.  Put blocks while it is full, Get blocks while it is empty, and *)
(* each is one indivisible step.  "received" is the object that each       *)
(* consumer passed to Consume(T &out).                                     *)
(***************************************************************************)
EXTENDS Naturals, Sequences

CONSTANTS Values,      \* what may be stored
          Consumers,   \* the threads that call Consume
          Capacity,    \* the size given to the constructor
          NoValue      \* an "out" nobody has assigned

VARIABLES queue, received

Put(v) ==
  /\ Len(queue) < Capacity
  /\ queue' = Append(queue, v)
  /\ UNCHANGED received

Get(c) ==
  /\ queue # <<>>
  /\ received' = [received EXCEPT ![c] = Head(queue)]
  /\ queue' = Tail(queue)

Init ==
  /\ queue = <<>>
  /\ received = [c \in Consumers |-> NoValue]

Next == \/ \E v \in Values : Put(v)
        \/ \E c \in Consumers : Get(c)

Spec == Init /\ [][Next]_<<queue, received>>
=============================================================================
