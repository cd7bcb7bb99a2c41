---------------------------- MODULE ChainProofs ----------------------------
(***************************************************************************)
(* No block of a chain is ever in two hands, for every number of blocks,   *)
(* every layout of workers, every input and every number of rounds.        *)
(*                                                                         *)
(* BlockOwnedOnce is inductive together with the shape of the state: which *)
(* queues and workers there are.  What is in a block beside its address    *)
(* plays no part, so the blocks are elements of some set.  Three lemmas do *)
(* the work: what a Produce, a Consume, and a step that touches neither do *)
(* to the blocks.                                                          *)
(*                                                                         *)
(* That nobody waits for room is a matter of numbers: Awaiting counts the  *)
(* blocks, and follows the one poison from the source to the end.          *)
(*                                                                         *)
(* That the chain copies, whatever its layout, is a refinement: Copying    *)
(* adds what is in the blocks.  It numbers those that the source fills,    *)
(* and says for every worker which of them it has passed on, which it      *)
(* holds and which wait for it, with the records of each.                  *)
(***************************************************************************)
EXTENDS Chain, FiniteSetTheorems, SequenceTheorems, TLAPS

F == INSTANCE Facts

Places == {"none", "init", "body", "next", "last", "poison", "repoison", "final", "done"}

\* Which queues and workers there are.
Shape ==
  /\ Last \in Nat
  /\ pc \in [Workers -> Places]
  /\ \E S : queue \in [0 .. Last - 1 -> Seq(S)] /\ current \in [Workers -> S]

Inv == Shape /\ BlockOwnedOnce

\* The queues of a worker exist.
LEMMA QueuesExist ==
  ASSUME Last \in Nat, NEW w \in Workers
  PROVE  In(w) \in 0 .. Last - 1 /\ Out(w) \in 0 .. Last - 1
BY DEF Workers, In, Out

\* Producing a block that the worker has, or a poison, leaves every block in one
\* place.
LEMMA ProduceKeeps ==
  ASSUME Shape, BlockOwnedOnce, NEW w \in Workers, NEW b,
         Produce(w, b), layout' = layout,
         b.mem = NULL \/ (Holds(w) /\ b.mem = current[w].mem),
         ~Holds(w)',
         \A v \in Workers \ {w} : Holds(v)' = Holds(v) /\ current'[v] = current[v]
  PROVE  BlockOwnedOnce'
<1> DEFINE o == Out(w)
<1>1. PICK S : queue \in [0 .. Last - 1 -> Seq(S)] /\ current \in [Workers -> S]
  BY DEF Shape
<1>2. o \in 0 .. Last - 1
  BY QueuesExist DEF Shape
<1>3. Workers' = Workers /\ DOMAIN queue = 0 .. Last - 1
  BY <1>1 DEF Workers, Last
<1>4. queue' = [queue EXCEPT ![o] = Append(@, b)]
  BY DEF Produce
<1> HIDE DEF o
<1>5. DOMAIN queue' = 0 .. Last - 1
  BY <1>1, <1>4
<1>6. \A q \in 0 .. Last - 1 : q # o => queue'[q] = queue[q]
  BY <1>1, <1>4
<1>7. queue[o] \in Seq(S) /\ queue'[o] = Append(queue[o], b)
  BY <1>1, <1>2, <1>4
<1>8. /\ Len(queue[o]) \in Nat
      /\ Len(queue'[o]) = Len(queue[o]) + 1
      /\ queue'[o][Len(queue[o]) + 1] = b
      /\ \A k \in 1 .. Len(queue[o]) : queue'[o][k] = queue[o][k]
  BY <1>7
\* Every position holds what it held, or is the new one.
<1>9. \A q \in 0 .. Last - 1 : \A k \in 1 .. Len(queue'[q]) :
        \/ k \in 1 .. Len(queue[q]) /\ queue'[q][k] = queue[q][k]
        \/ q = o /\ k = Len(queue[o]) + 1 /\ queue'[q][k] = b
  BY <1>6, <1>8
<1>10. \A q \in 0 .. Last - 1 : \A k \in 1 .. Len(queue[q]) :
         Holds(w) /\ current[w].mem # NULL => queue[q][k].mem # current[w].mem
  BY <1>3 DEF BlockOwnedOnce
<1>11. \A q \in 0 .. Last - 1 : \A k \in 1 .. Len(queue[q]) :
         b.mem # NULL => queue[q][k].mem # b.mem
  BY <1>10
<1>12. \A v, u \in Workers : Holds(v)' /\ Holds(u)' /\ current'[v].mem = current'[u].mem
                             /\ current'[v].mem # NULL => v = u
  BY DEF BlockOwnedOnce
<1>13. \A v \in Workers, q \in 0 .. Last - 1 : \A k \in 1 .. Len(queue'[q]) :
         Holds(v)' /\ current'[v].mem # NULL => queue'[q][k].mem # current'[v].mem
  <2> SUFFICES ASSUME NEW v \in Workers, NEW q \in 0 .. Last - 1, NEW k \in 1 .. Len(queue'[q]),
                      Holds(v)', current'[v].mem # NULL
               PROVE  queue'[q][k].mem # current'[v].mem
    OBVIOUS
  <2>1. v # w /\ Holds(v) /\ current'[v] = current[v]
    OBVIOUS
  <2>2. CASE k \in 1 .. Len(queue[q]) /\ queue'[q][k] = queue[q][k]
    BY <1>3, <2>1, <2>2 DEF BlockOwnedOnce
  <2>3. CASE queue'[q][k] = b
    BY <2>1, <2>3 DEF BlockOwnedOnce
  <2> QED
    BY <1>9, <2>2, <2>3
<1>14. \A p, q \in 0 .. Last - 1 : \A j \in 1 .. Len(queue'[p]), k \in 1 .. Len(queue'[q]) :
         queue'[p][j].mem = queue'[q][k].mem /\ queue'[p][j].mem # NULL => p = q /\ j = k
  <2> SUFFICES ASSUME NEW p \in 0 .. Last - 1, NEW q \in 0 .. Last - 1,
                      NEW j \in 1 .. Len(queue'[p]), NEW k \in 1 .. Len(queue'[q]),
                      queue'[p][j].mem = queue'[q][k].mem, queue'[p][j].mem # NULL
               PROVE  p = q /\ j = k
    OBVIOUS
  <2>1. \/ j \in 1 .. Len(queue[p]) /\ queue'[p][j] = queue[p][j]
        \/ p = o /\ j = Len(queue[o]) + 1 /\ queue'[p][j] = b
    BY <1>9
  <2>2. \/ k \in 1 .. Len(queue[q]) /\ queue'[q][k] = queue[q][k]
        \/ q = o /\ k = Len(queue[o]) + 1 /\ queue'[q][k] = b
    BY <1>9
  <2>3. CASE /\ j \in 1 .. Len(queue[p]) /\ queue'[p][j] = queue[p][j]
             /\ k \in 1 .. Len(queue[q]) /\ queue'[q][k] = queue[q][k]
    BY <1>3, <2>3 DEF BlockOwnedOnce
  <2> QED
    BY <1>11, <2>1, <2>2, <2>3
<1> QED
  BY <1>3, <1>5, <1>12, <1>13, <1>14 DEF BlockOwnedOnce

\* Consuming a block moves it from the head of a queue to the worker.
LEMMA ConsumeKeeps ==
  ASSUME Shape, BlockOwnedOnce, NEW w \in Workers,
         Consume(w), layout' = layout,
         ~Holds(w),
         \A v \in Workers \ {w} : Holds(v)' = Holds(v)
  PROVE  BlockOwnedOnce'
<1> DEFINE i == In(w)
           h == Head(queue[i])
<1>1. PICK S : queue \in [0 .. Last - 1 -> Seq(S)] /\ current \in [Workers -> S]
  BY DEF Shape
<1>2. i \in 0 .. Last - 1
  BY QueuesExist DEF Shape
<1>3. Workers' = Workers /\ DOMAIN queue = 0 .. Last - 1
  BY <1>1 DEF Workers, Last
<1>4. /\ queue[i] # <<>>
      /\ queue' = [queue EXCEPT ![i] = Tail(@)]
      /\ current' = [current EXCEPT ![w] = h]
  BY DEF Consume
<1> HIDE DEF i
<1>5. DOMAIN queue' = 0 .. Last - 1
  BY <1>1, <1>4
<1>6. \A q \in 0 .. Last - 1 : q # i => queue'[q] = queue[q]
  BY <1>1, <1>4
<1>7. queue[i] \in Seq(S) /\ queue[i] # <<>> /\ queue'[i] = Tail(queue[i])
  BY <1>1, <1>2, <1>4
<1>8. /\ Len(queue[i]) \in Nat /\ Len(queue[i]) >= 1
      /\ Len(queue'[i]) = Len(queue[i]) - 1
      /\ \A k \in 1 .. Len(queue'[i]) : queue'[i][k] = queue[i][k + 1]
      /\ h = queue[i][1]
  BY <1>7
<1> HIDE DEF h
<1>9. current'[w] = h /\ \A v \in Workers \ {w} : current'[v] = current[v]
  BY <1>1, <1>4
\* Where a position's block was before.
<1> DEFINE was(q, k) == IF q = i THEN k + 1 ELSE k
<1>10. \A q \in 0 .. Last - 1 : \A k \in 1 .. Len(queue'[q]) :
         /\ was(q, k) \in 1 .. Len(queue[q])
         /\ queue'[q][k] = queue[q][was(q, k)]
         /\ q = i => was(q, k) # 1
  <2>1. ASSUME NEW k \in 1 .. Len(queue'[i])
        PROVE  k + 1 \in 1 .. Len(queue[i]) /\ queue'[i][k] = queue[i][k + 1] /\ k + 1 # 1
    BY <1>8
  <2>2. \A q \in 0 .. Last - 1 : q # i => queue'[q] = queue[q]
    BY <1>6
  <2> QED
    BY <2>1, <2>2
<1>11. 1 \in 1 .. Len(queue[i])
  BY <1>8
<1>12. \A v, u \in Workers : Holds(v)' /\ Holds(u)' /\ current'[v].mem = current'[u].mem
                             /\ current'[v].mem # NULL => v = u
  <2> SUFFICES ASSUME NEW v \in Workers, NEW u \in Workers, Holds(v)', Holds(u)',
                      current'[v].mem = current'[u].mem, current'[v].mem # NULL
               PROVE  v = u
    OBVIOUS
  <2>1. \A x \in Workers \ {w} : Holds(x) /\ current[x].mem # NULL => h.mem # current[x].mem
    BY <1>2, <1>3, <1>8, <1>11 DEF BlockOwnedOnce
  <2>2. CASE v # w /\ u # w
    BY <1>9, <2>2 DEF BlockOwnedOnce
  <2>3. CASE v = w /\ u # w
    BY <1>9, <2>1, <2>3
  <2>4. CASE u = w /\ v # w
    BY <1>9, <2>1, <2>4
  <2> QED
    BY <2>2, <2>3, <2>4
<1>13. \A v \in Workers, q \in 0 .. Last - 1 : \A k \in 1 .. Len(queue'[q]) :
         Holds(v)' /\ current'[v].mem # NULL => queue'[q][k].mem # current'[v].mem
  <2> SUFFICES ASSUME NEW v \in Workers, NEW q \in 0 .. Last - 1, NEW k \in 1 .. Len(queue'[q]),
                      Holds(v)', current'[v].mem # NULL
               PROVE  queue'[q][k].mem # current'[v].mem
    OBVIOUS
  <2>1. was(q, k) \in 1 .. Len(queue[q]) /\ queue'[q][k] = queue[q][was(q, k)]
        /\ (q = i => was(q, k) # 1)
    BY <1>10
  <2> HIDE DEF was
  <2>2. CASE v # w
    BY <1>3, <1>9, <2>1, <2>2 DEF BlockOwnedOnce
  <2>3. CASE v = w
    <3>1. current'[v].mem = queue[i][1].mem
      BY <1>8, <1>9, <2>3
    <3> QED
      BY <1>2, <1>3, <1>11, <2>1, <3>1 DEF BlockOwnedOnce
  <2> QED
    BY <2>2, <2>3
<1>14. \A p, q \in 0 .. Last - 1 : \A j \in 1 .. Len(queue'[p]), k \in 1 .. Len(queue'[q]) :
         queue'[p][j].mem = queue'[q][k].mem /\ queue'[p][j].mem # NULL => p = q /\ j = k
  <2> SUFFICES ASSUME NEW p \in 0 .. Last - 1, NEW q \in 0 .. Last - 1,
                      NEW j \in 1 .. Len(queue'[p]), NEW k \in 1 .. Len(queue'[q]),
                      queue'[p][j].mem = queue'[q][k].mem, queue'[p][j].mem # NULL
               PROVE  p = q /\ j = k
    OBVIOUS
  <2>1. was(p, j) \in 1 .. Len(queue[p]) /\ queue'[p][j] = queue[p][was(p, j)]
    BY <1>10
  <2>2. was(q, k) \in 1 .. Len(queue[q]) /\ queue'[q][k] = queue[q][was(q, k)]
    BY <1>10
  <2>3. p = q /\ was(p, j) = was(q, k)
    <3> HIDE DEF was
    <3>1. \A m \in 1 .. Len(queue[p]), n \in 1 .. Len(queue[q]) :
            queue[p][m].mem = queue[q][n].mem /\ queue[p][m].mem # NULL => p = q /\ m = n
      BY <1>3 DEF BlockOwnedOnce
    <3> QED
      BY <2>1, <2>2, <3>1
  <2>4. j \in Int /\ k \in Int
    <3>1. Len(queue'[p]) \in Int /\ Len(queue'[q]) \in Int
      BY <1>1, <1>6, <1>8
    <3> QED
      BY <3>1
  <2> QED
    BY <2>3, <2>4
<1> QED
  BY <1>3, <1>5, <1>12, <1>13, <1>14 DEF BlockOwnedOnce

\* A step that moves no block: nobody holds more than before.
LEMMA QuietKeeps ==
  ASSUME BlockOwnedOnce, UNCHANGED <<layout, queue, current>>,
         \A v \in Workers : Holds(v)' => Holds(v)
  PROVE  BlockOwnedOnce'
BY DEF BlockOwnedOnce, Workers, Last

\* Moving on changes no other worker.
LEMMA GotoMoves ==
  ASSUME Shape, NEW w \in Workers, NEW next \in Places, Goto(w, next), layout' = layout
  PROVE  /\ pc' \in [Workers -> Places]
         /\ pc'[w] = next
         /\ \A v \in Workers \ {w} : pc'[v] = pc[v]
BY DEF Shape, Goto

\* The shape after a step of one worker that may change its block.
LEMMA ShapeKept ==
  ASSUME Shape, NEW w \in Workers, layout' = layout, pc' \in [Workers -> Places],
         \/ UNCHANGED queue
         \/ Consume(w)
         \/ \E b : Produce(w, b),
         UNCHANGED current \/ (\E b : current' = [current EXCEPT ![w] = b])
  PROVE  Shape'
<1>1. PICK S : queue \in [0 .. Last - 1 -> Seq(S)] /\ current \in [Workers -> S]
  BY DEF Shape
<1>2. Last' = Last /\ Workers' = Workers /\ Last \in Nat
  BY DEF Last, Workers, Shape
<1>3. In(w) \in 0 .. Last - 1 /\ Out(w) \in 0 .. Last - 1
  BY QueuesExist DEF Shape
<1>4. \E T : S \subseteq T /\ current' \in [Workers -> T]
  <2>1. CASE UNCHANGED current
    BY <1>1, <2>1
  <2>2. CASE \E b : current' = [current EXCEPT ![w] = b]
    <3>1. PICK b : current' = [current EXCEPT ![w] = b]
      BY <2>2
    <3> WITNESS S \cup {b}
    <3> QED
      BY <1>1, <3>1
  <2> QED
    BY <2>1, <2>2
<1>5. PICK T : S \subseteq T /\ current' \in [Workers -> T]
  BY <1>4
<1>6. \A q \in 0 .. Last - 1 : queue[q] \in Seq(T)
  BY <1>1, <1>5
<1>7. \E U : T \subseteq U /\ queue' \in [0 .. Last - 1 -> Seq(U)]
  <2>1. CASE UNCHANGED queue
    BY <1>1, <1>6, <2>1
  <2>2. CASE Consume(w)
    <3>1. queue' = [queue EXCEPT ![In(w)] = Tail(@)] /\ queue[In(w)] # <<>>
      BY <2>2 DEF Consume
    <3>2. Tail(queue[In(w)]) \in Seq(T)
      BY <1>3, <1>6, <3>1
    <3> QED
      BY <1>1, <1>6, <3>1, <3>2
  <2>3. CASE \E b : Produce(w, b)
    <3>1. PICK b : queue' = [queue EXCEPT ![Out(w)] = Append(@, b)]
      BY <2>3 DEF Produce
    <3>2. \A q \in 0 .. Last - 1 : queue[q] \in Seq(T \cup {b})
      BY <1>6
    <3>3. Append(queue[Out(w)], b) \in Seq(T \cup {b})
      BY <1>3, <3>2
    <3>4. queue' \in [0 .. Last - 1 -> Seq(T \cup {b})]
      BY <1>1, <3>1, <3>2, <3>3
    <3> QED
      BY <3>4
  <2> QED
    BY <2>1, <2>2, <2>3
<1> QED
  BY <1>2, <1>5, <1>7 DEF Shape

LEMMA Initially == Init => Inv
<1> SUFFICES ASSUME Init PROVE Inv
  OBVIOUS
<1>1. Last = 0 /\ Workers = {}
  BY DEF Init, Last, Workers
<1>2. 0 .. Last - 1 = {} /\ Last \in Nat
  BY <1>1
<1>3. queue \in [0 .. Last - 1 -> Seq({})] /\ current \in [Workers -> {}]
      /\ pc \in [Workers -> Places]
  BY <1>1, <1>2 DEF Init
<1>4. Shape
  BY <1>2, <1>3 DEF Shape
<1>5. DOMAIN queue = {}
  BY <1>2, <1>3
<1> QED
  BY <1>1, <1>4, <1>5 DEF Inv, BlockOwnedOnce

\* Start puts each block into the lead queue once.
LEMMA StartInv ==
  ASSUME Inv, NEW l \in Layouts, NEW i \in Inputs, NEW t \in BOOLEAN, Start(l, i, t)
  PROVE  Inv'
<1>1. Len(l) \in Nat /\ Len(l) >= 2 /\ BlockCount \in Nat \ {0}
  <2>1. BlockCount \in Nat \ {0}
    BY ChainAssumption
  <2>2. l \in Seq(Kinds) /\ Len(l) \in 2 .. MaxWorkers
    BY ChainAssumption
  <2>3. Len(l) \in Nat
    BY <2>2
  <2> QED
    BY <2>1, <2>2, <2>3
<1>2. Last' = Len(l) /\ Workers' = 1 .. Len(l)
  BY DEF Start, Last, Workers
<1>3. /\ pc' = [w \in 1 .. Len(l) |-> "none"]
      /\ current' = [w \in 1 .. Len(l) |-> Poison]
      /\ queue' = [q \in 0 .. Len(l) - 1 |-> IF q = 0 THEN Populated ELSE <<>>]
  BY DEF Start
<1> DEFINE S == [mem : Memory \cup {NULL}, size : {0, BlockSize}]
<1>4. Populated \in Seq(S) /\ Len(Populated) = BlockCount
      /\ \A m \in 1 .. BlockCount : Populated[m].mem = m
  <2>1. Populated = [m \in 1 .. BlockCount |-> [mem |-> m, size |-> BlockSize]]
    BY DEF Populated, Memory
  <2>2. \A m \in 1 .. BlockCount : [mem |-> m, size |-> BlockSize] \in S
    BY DEF Memory
  <2>3. Populated \in [1 .. BlockCount -> S]
    BY <2>1, <2>2
  <2> QED
    BY <1>1, <2>1, <2>3
<1>5. Poison \in S
  BY DEF Poison
<1> HIDE DEF S
<1>6. queue' \in [0 .. Last' - 1 -> Seq(S)] /\ current' \in [Workers' -> S]
  BY <1>1, <1>2, <1>3, <1>4, <1>5
<1>7. pc' \in [Workers' -> Places]
  BY <1>2, <1>3 DEF Places
<1>8. Shape'
  BY <1>1, <1>2, <1>6, <1>7 DEF Shape
<1>9. \A w \in Workers' : ~Holds(w)'
  BY <1>2, <1>3 DEF Holds
<1>10. DOMAIN queue' = 0 .. Len(l) - 1
  BY <1>3
<1>11. \A p, q \in 0 .. Len(l) - 1 : \A j \in 1 .. Len(queue'[p]), k \in 1 .. Len(queue'[q]) :
         queue'[p][j].mem = queue'[q][k].mem => p = q /\ j = k
  <2>1. queue'[0] = Populated /\ \A q \in 0 .. Len(l) - 1 : q # 0 => queue'[q] = <<>>
    BY <1>1, <1>3
  <2>2. \A q \in 0 .. Len(l) - 1 : \A k \in 1 .. Len(queue'[q]) :
         q = 0 /\ k \in 1 .. BlockCount
    BY <1>4, <2>1
  <2>3. \A j, k \in 1 .. BlockCount : queue'[0][j].mem = queue'[0][k].mem => j = k
    BY <1>4, <2>1
  <2> QED
    BY <2>2, <2>3
<1>12. \A p, q \in DOMAIN queue' : \A j \in 1 .. Len(queue'[p]), k \in 1 .. Len(queue'[q]) :
         queue'[p][j].mem = queue'[q][k].mem /\ queue'[p][j].mem # NULL => p = q /\ j = k
  <2> DEFINE D == 0 .. Len(l) - 1
  <2>1. DOMAIN queue' = D
    BY <1>10
  <2>2. \A p, q \in D : \A j \in 1 .. Len(queue'[p]), k \in 1 .. Len(queue'[q]) :
          queue'[p][j].mem = queue'[q][k].mem => p = q /\ j = k
    BY <1>11
  <2> HIDE DEF D
  <2> QED
    BY <2>1, <2>2
<1>13. BlockOwnedOnce'
  BY <1>9, <1>12 DEF BlockOwnedOnce
<1> QED
  BY <1>8, <1>13 DEF Inv

\* The three kinds of steps, with what they do to pc.
LEMMA ConsumeMoves ==
  ASSUME Inv, NEW w \in Workers, Consume(w), NEW next \in Places, Goto(w, next),
         layout' = layout, pc[w] \in {"init", "next", "last"}
  PROVE  Inv'
<1>1. /\ pc' \in [Workers -> Places] /\ \A v \in Workers \ {w} : pc'[v] = pc[v]
  BY GotoMoves DEF Inv
<1>2. ~Holds(w) /\ \A v \in Workers \ {w} : Holds(v)' = Holds(v)
  BY <1>1 DEF Holds
<1>3. BlockOwnedOnce'
  BY <1>2, ConsumeKeeps DEF Inv
<1>4. Shape'
  BY <1>1, ShapeKept DEF Inv, Consume
<1> QED
  BY <1>3, <1>4 DEF Inv

LEMMA ProduceMoves ==
  ASSUME Inv, NEW w \in Workers, NEW b, Produce(w, b),
         NEW next \in {"next", "last", "final", "done"}, Goto(w, next),
         layout' = layout,
         UNCHANGED current \/ (\E c : current' = [current EXCEPT ![w] = c]),
         b.mem = NULL \/ (Holds(w) /\ b.mem = current[w].mem)
  PROVE  Inv'
<1>1. /\ pc' \in [Workers -> Places] /\ pc'[w] = next
      /\ \A v \in Workers \ {w} : pc'[v] = pc[v]
  BY GotoMoves DEF Inv, Places
<1>2. ~Holds(w)' /\ \A v \in Workers \ {w} : Holds(v)' = Holds(v)
  BY <1>1 DEF Holds
<1>3. \A v \in Workers \ {w} : current'[v] = current[v]
  BY DEF Inv, Shape
<1>4. BlockOwnedOnce'
  BY <1>2, <1>3, ProduceKeeps DEF Inv
<1>5. Shape'
  BY <1>1, ShapeKept DEF Inv
<1> QED
  BY <1>4, <1>5 DEF Inv

LEMMA QuietMoves ==
  ASSUME Inv, NEW w \in Workers, NEW next \in Places, Goto(w, next),
         UNCHANGED <<layout, queue, current>>,
         next \in {"init", "done"} \/ Holds(w)
  PROVE  Inv'
<1>1. /\ pc' \in [Workers -> Places] /\ pc'[w] = next
      /\ \A v \in Workers \ {w} : pc'[v] = pc[v]
  BY GotoMoves DEF Inv
<1>2. \A v \in Workers : Holds(v)' => Holds(v)
  BY <1>1 DEF Holds
<1>3. BlockOwnedOnce'
  BY <1>2, QuietKeeps DEF Inv
<1>4. Shape'
  BY <1>1, ShapeKept DEF Inv
<1> QED
  BY <1>3, <1>4 DEF Inv

\* Nothing that the invariant speaks of changes.
LEMMA StutterInv ==
  ASSUME Inv, UNCHANGED <<layout, queue, current, pc>>
  PROVE  Inv'
BY DEF Inv, Shape, BlockOwnedOnce, Holds, Workers, Last

\* The steps of a worker, by what they do to the blocks.
LEMMA WorkerInv ==
  ASSUME Inv, NEW w \in Workers, Worker(w)
  PROVE  Inv'
<1> USE DEF Inv
<1>1. CASE LinkInit(w)
  <2>1. Consume(w) /\ Goto(w, "body") /\ layout' = layout /\ pc[w] = "init"
    BY <1>1 DEF LinkInit, At, chainVars
  <2> QED
    BY <2>1, ConsumeMoves DEF Places
<1>2. CASE LinkNext(w)
  <2>1. /\ Consume(w) /\ layout' = layout /\ pc[w] = "next"
        /\ Goto(w, "body") \/ Goto(w, "repoison")
    BY <1>2 DEF LinkNext, At, chainVars
  <2> QED
    BY <2>1, ConsumeMoves DEF Places
<1>3. CASE LinkLast(w)
  <2>1. Consume(w) /\ Goto(w, "poison") /\ layout' = layout /\ pc[w] = "last"
    BY <1>3 DEF LinkLast, At, chainVars
  <2> QED
    BY <2>1, ConsumeMoves DEF Places
<1>4. CASE LinkRepoison(w)
  <2>1. /\ Produce(w, current[w]) /\ Goto(w, "final") /\ UNCHANGED current
        /\ layout' = layout /\ pc[w] = "repoison"
    BY <1>4 DEF LinkRepoison, At, chainVars
  <2> QED
    BY <2>1, ProduceMoves DEF Places, Holds
<1>5. CASE LinkPoison(w)
  <2>1. /\ current' = [current EXCEPT ![w] = [mem |-> NULL, size |-> @.size]]
        /\ Produce(w, current'[w]) /\ Goto(w, "final")
        /\ layout' = layout
    BY <1>5 DEF LinkPoison, At, chainVars
  <2>2. current'[w].mem = NULL
    BY <2>1 DEF Shape
  <2> QED
    BY <2>1, <2>2, ProduceMoves DEF Places, Holds
<1>6. CASE LinkEnd(w)
  <2>1. /\ Goto(w, "done") /\ UNCHANGED <<current, layout>>
        /\ UNCHANGED queue \/ (Produce(w, current[w]) /\ current[w].mem = NULL)
    BY <1>6 DEF LinkEnd, chainVars
  <2>2. CASE UNCHANGED queue
    BY <2>1, <2>2, QuietMoves DEF Places
  <2>3. CASE Produce(w, current[w]) /\ current[w].mem = NULL
    BY <2>1, <2>3, ProduceMoves DEF Places
  <2> QED
    BY <2>1, <2>2, <2>3
<1>7. CASE ReadEnd(w)
  <2>1. Goto(w, "poison") /\ UNCHANGED <<current, layout, queue>> /\ pc[w] = "body"
    BY <1>7 DEF ReadEnd, Working, At, chainVars
  <2> QED
    BY <2>1, QuietMoves DEF Places, Holds
<1>8. CASE ReadTorn(w)
  <2>1. UNCHANGED <<layout, queue, current, pc>>
    BY <1>8 DEF ReadTorn, chainVars, linkVars
  <2> QED
    BY <2>1, StutterInv
<1>9. ASSUME NEW n, NEW next \in {"next", "last"}, PassOn(w, n), Goto(w, next),
             Working(w), layout' = layout
      PROVE  Inv'
  <2>1. /\ current' = [current EXCEPT ![w] = [mem |-> @.mem, size |-> n]]
        /\ Produce(w, current'[w])
    BY <1>9 DEF PassOn
  <2>2. current'[w].mem = current[w].mem
    BY <2>1 DEF Shape
  <2>3. Holds(w)
    BY <1>9 DEF Working, At, Holds
  <2> QED
    BY <1>9, <2>1, <2>2, <2>3, ProduceMoves DEF Places
<1>10. CASE ReadBlock(w)
  <2>1. /\ Working(w) /\ layout' = layout /\ PassOn(w, Smaller(Left, BlockSize))
        /\ Goto(w, "next") \/ Goto(w, "last")
    BY <1>10 DEF ReadBlock, chainVars
  <2> QED
    BY <1>9, <2>1
<1>11. CASE StreamBlock(w)
  BY <1>9, <1>11 DEF StreamBlock, chainVars
<1>12. CASE StreamEnd(w)
  BY <1>9, <1>12 DEF StreamEnd, chainVars
<1>13. CASE Filter(w)
  BY <1>9, <1>13 DEF Filter, chainVars
<1>14. CASE Output(w)
  BY <1>9, <1>14 DEF Output, chainVars
<1>15. CASE Recycle(w)
  BY <1>9, <1>15 DEF Recycle, chainVars
<1> QED
  BY <1>1, <1>2, <1>3, <1>4, <1>5, <1>6, <1>7, <1>8, <1>10, <1>11, <1>12, <1>13, <1>14, <1>15
  DEF Worker

\* Wait takes blocks out of the front queue.
LEMMA DrainInv ==
  ASSUME Inv, Drain
  PROVE  Inv'
<1>1. PICK S : queue \in [0 .. Last - 1 -> Seq(S)] /\ current \in [Workers -> S]
  BY DEF Inv, Shape
<1>2. /\ UNCHANGED <<layout, pc, current>>
      /\ queue[0] # <<>> /\ queue' = [queue EXCEPT ![0] = Tail(@)]
  BY DEF Drain, chainVars, linkVars
<1>3. Last' = Last /\ Workers' = Workers /\ DOMAIN queue = 0 .. Last - 1
      /\ DOMAIN queue' = 0 .. Last - 1 /\ \A w \in Workers : Holds(w)' = Holds(w)
  BY <1>1, <1>2 DEF Last, Workers, Holds
<1>4. CASE 0 \notin 0 .. Last - 1
  <2>1. queue' = queue
    BY <1>1, <1>2, <1>4
  <2> QED
    BY <1>2, <2>1, StutterInv
<1>5. CASE 0 \in 0 .. Last - 1
  <2>1. queue[0] \in Seq(S) /\ queue'[0] = Tail(queue[0])
    BY <1>1, <1>2, <1>5
  <2>2. /\ Tail(queue[0]) \in Seq(S)
        /\ Len(queue[0]) \in Nat /\ Len(queue'[0]) = Len(queue[0]) - 1
        /\ \A k \in 1 .. Len(queue'[0]) : queue'[0][k] = queue[0][k + 1]
    <3>1. queue[0] # <<>>
      BY <1>2
    <3> QED
      BY <2>1, <3>1
  <2>3. \A q \in 0 .. Last - 1 : q # 0 => queue'[q] = queue[q]
    BY <1>1, <1>2
  <2>4. queue' \in [0 .. Last - 1 -> Seq(S)]
    BY <1>1, <1>2, <2>1, <2>2
  <2>5. Shape'
    BY <1>1, <1>2, <1>3, <2>4 DEF Inv, Shape
  <2> DEFINE was(q, k) == IF q = 0 THEN k + 1 ELSE k
  <2>6. \A q \in 0 .. Last - 1 : \A k \in 1 .. Len(queue'[q]) :
          /\ was(q, k) \in 1 .. Len(queue[q]) /\ queue'[q][k] = queue[q][was(q, k)]
    BY <2>2, <2>3
  <2>7. \A q \in 0 .. Last - 1 : \A j, k \in 1 .. Len(queue'[q]) :
          was(q, j) = was(q, k) => j = k
    <3>1. \A q \in 0 .. Last - 1 : Len(queue'[q]) \in Nat
      BY <2>4
    <3> QED
      BY <3>1
  <2> HIDE DEF was
  <2>8. \A p, q \in 0 .. Last - 1 : \A j \in 1 .. Len(queue[p]), k \in 1 .. Len(queue[q]) :
          queue[p][j].mem = queue[q][k].mem /\ queue[p][j].mem # NULL => p = q /\ j = k
    BY <1>3 DEF Inv, BlockOwnedOnce
  <2>9. \A p, q \in 0 .. Last - 1 : \A j \in 1 .. Len(queue'[p]), k \in 1 .. Len(queue'[q]) :
          queue'[p][j].mem = queue'[q][k].mem /\ queue'[p][j].mem # NULL => p = q /\ j = k
    <3> SUFFICES ASSUME NEW p \in 0 .. Last - 1, NEW q \in 0 .. Last - 1,
                        NEW j \in 1 .. Len(queue'[p]), NEW k \in 1 .. Len(queue'[q]),
                        queue'[p][j].mem = queue'[q][k].mem, queue'[p][j].mem # NULL
                 PROVE  p = q /\ j = k
      OBVIOUS
    <3>1. /\ was(p, j) \in 1 .. Len(queue[p]) /\ queue'[p][j] = queue[p][was(p, j)]
          /\ was(q, k) \in 1 .. Len(queue[q]) /\ queue'[q][k] = queue[q][was(q, k)]
      BY <2>6
    <3>2. \A m \in 1 .. Len(queue[p]), n \in 1 .. Len(queue[q]) :
            queue[p][m].mem = queue[q][n].mem /\ queue[p][m].mem # NULL => p = q /\ m = n
      BY <2>8
    <3>3. p = q /\ was(p, j) = was(q, k)
      BY <3>1, <3>2
    <3> QED
      BY <2>7, <3>3
  <2>10. \A v \in Workers, q \in 0 .. Last - 1 : \A k \in 1 .. Len(queue'[q]) :
           Holds(v) /\ current[v].mem # NULL => queue'[q][k].mem # current[v].mem
    BY <1>3, <2>6 DEF Inv, BlockOwnedOnce
  <2> QED
    BY <1>2, <1>3, <2>5, <2>9, <2>10 DEF Inv, BlockOwnedOnce
<1> QED
  BY <1>4, <1>5

\* When Wait returns there are no queues and no workers any more.
LEMMA WaitReturnsInv ==
  ASSUME WaitReturns
  PROVE  Inv'
<1>1. layout' = <<>> /\ queue' = <<>> /\ pc' = <<>> /\ current' = <<>>
  BY DEF WaitReturns
<1>2. Last' = 0 /\ Workers' = {} /\ 0 .. Last' - 1 = {} /\ Last' \in Nat
  BY <1>1 DEF Last, Workers
<1>3. queue' \in [0 .. Last' - 1 -> Seq({})] /\ current' \in [Workers' -> {}]
      /\ pc' \in [Workers' -> Places] /\ DOMAIN queue' = {}
  BY <1>1, <1>2
<1> QED
  BY <1>2, <1>3 DEF Inv, Shape, BlockOwnedOnce

\* Every step keeps the invariant.
LEMMA Inductive == Inv /\ [Next]_vars => Inv'
<1> SUFFICES ASSUME Inv, [Next]_vars PROVE Inv'
  OBVIOUS
<1>1. ASSUME NEW w \in Workers, AddWorker(w) PROVE Inv'
  <2>1. Goto(w, "init") /\ UNCHANGED <<layout, current, queue>>
    BY <1>1 DEF AddWorker, chainVars
  <2> QED
    BY <2>1, QuietMoves DEF Places
<1>2. CASE Wait \/ Done \/ UNCHANGED vars
  <2>1. UNCHANGED <<layout, queue, current, pc>>
    BY <1>2 DEF Wait, Done, vars, chainVars, linkVars
  <2> QED
    BY <2>1, StutterInv
<1> QED
  BY <1>1, <1>2, StartInv, WorkerInv, DrainInv, WaitReturnsInv DEF Next

\* Workers write into the blocks they hold without any lock; this is why they
\* may: no memory is ever held by two workers, or held and queued, or queued
\* twice (Link, chain.cc:114-162).
THEOREM BlockOwnedOnceHolds == Spec => []BlockOwnedOnce
<1>1. Inv => BlockOwnedOnce
  BY DEF Inv
<1> QED
  BY <1>1, Initially, Inductive, PTL DEF Spec
-----------------------------------------------------------------------------
(* No worker ever waits for room: the blocks in the queues and in hands,   *)
(* and those that Wait has taken out, are always BlockCount many, so while *)
(* a worker holds one no queue has all of them.  That there is one poison, *)
(* the last thing that every queue sees, follows the poison round: the     *)
(* workers that have sent it on are those before it.                       *)

\* The worker has sent the poison on; it holds one that it has not sent on yet;
\* the worker that fills a queue.
Passed(w) == pc[w] \in {"final", "done"}
HasPoison(w) == Holds(w) /\ current[w].mem = NULL
Feeder(q) == IF q = 0 THEN Last ELSE q

Setting ==
  /\ main = "idle" => layout = <<>>
  /\ main # "idle" => layout \in Layouts
  /\ main \in {"idle", "adding"} => drained = 0
  /\ main = "aborted" => torn

\* Where blocks are: position k of queue q is <<q, k>>, the block that worker w
\* holds is <<-1, w>>.
SlotsOf(n, holders, queues) ==
  {s \in (-1 .. n) \X (1 .. BlockCount + n) :
     \/ s[1] = -1 /\ s[2] \in holders
     \/ s[1] \in 0 .. n - 1 /\ s[2] <= Len(queues[s[1]])}
Holders == {w \in Workers : Holds(w)}
Slots == SlotsOf(Last, Holders, queue)

\* No block gets lost, and none appears.
Counted ==
  /\ \A q \in 0 .. Last - 1 : Len(queue[q]) <= BlockCount
  /\ drained \in Nat
  /\ main # "idle" => Cardinality(Slots) + drained = BlockCount

\* The poison comes behind all blocks of its queue, all the workers up to
\* there have sent it on, and no other one has.
OnePoison ==
  /\ \A w \in Workers : Passed(w) => \A v \in 1 .. w : Passed(v)
  /\ \A q \in 0 .. Last - 1 : \A k \in 1 .. Len(queue[q]) : queue[q][k].mem = NULL =>
       /\ k = Len(queue[q])
       /\ Passed(Feeder(q))
       /\ q # 0 => ~Passed(q + 1) /\ ~HasPoison(q + 1)
  /\ \A w \in Workers :
       /\ HasPoison(w) => w # 1 /\ Passed(w - 1)
       /\ pc[w] \in {"last", "poison"} => w = 1
       /\ pc[w] = "repoison" => current[w].mem = NULL
       /\ pc[w] = "final" => w \in poisoned
       /\ w \in poisoned => Passed(w)

\* The source ends when it has delivered everything; the blocks that come back
\* to it have their full size.
SourceEnds ==
  /\ taken \in Int /\ Len(input) \in Int
  /\ \A w \in Workers : w = 1 =>
       /\ pc[w] \in {"last", "poison", "final", "done"} => taken = Len(input)
       /\ pc[w] = "body" => current[w].size = BlockSize
       /\ \A k \in 1 .. Len(queue[0]) : queue[0][k].mem # NULL => queue[0][k].size = BlockSize

Awaiting == Inv /\ Setting /\ Counted /\ OnePoison /\ SourceEnds

\* What a Produce does to the queues.
LEMMA Produced ==
  ASSUME Shape, NEW w \in Workers, NEW b, Produce(w, b)
  PROVE  /\ Out(w) \in 0 .. Last - 1
         /\ \A q \in 0 .. Last - 1 : Len(queue[q]) \in Nat
         /\ \A q \in 0 .. Last - 1 : q # Out(w) => queue'[q] = queue[q]
         /\ Len(queue[Out(w)]) < BlockCount
         /\ Len(queue'[Out(w)]) = Len(queue[Out(w)]) + 1
         /\ queue'[Out(w)][Len(queue[Out(w)]) + 1] = b
         /\ \A k \in 1 .. Len(queue[Out(w)]) : queue'[Out(w)][k] = queue[Out(w)][k]
<1> DEFINE o == Out(w)
<1>1. PICK S : queue \in [0 .. Last - 1 -> Seq(S)] /\ current \in [Workers -> S]
  BY DEF Shape
<1>2. o \in 0 .. Last - 1
  BY QueuesExist DEF Shape
<1>3. queue' = [queue EXCEPT ![o] = Append(@, b)] /\ Len(queue[o]) < BlockCount
  BY DEF Produce
<1> HIDE DEF o
<1>4. queue[o] \in Seq(S) /\ queue'[o] = Append(queue[o], b)
  BY <1>1, <1>2, <1>3
<1>5. /\ Len(queue'[o]) = Len(queue[o]) + 1
      /\ queue'[o][Len(queue[o]) + 1] = b
      /\ \A k \in 1 .. Len(queue[o]) : queue'[o][k] = queue[o][k]
  BY <1>4
<1>6. \A q \in 0 .. Last - 1 : Len(queue[q]) \in Nat
  BY <1>1
<1>7. \A q \in 0 .. Last - 1 : q # o => queue'[q] = queue[q]
  BY <1>1, <1>3
<1> QED
  BY <1>2, <1>3, <1>5, <1>6, <1>7 DEF o

\* What taking the head of a queue does.
LEMMA Taken ==
  ASSUME Shape, NEW i \in 0 .. Last - 1, queue[i] # <<>>,
         queue' = [queue EXCEPT ![i] = Tail(@)]
  PROVE  /\ \A q \in 0 .. Last - 1 : Len(queue[q]) \in Nat
         /\ \A q \in 0 .. Last - 1 : q # i => queue'[q] = queue[q]
         /\ Len(queue[i]) >= 1
         /\ Len(queue'[i]) = Len(queue[i]) - 1
         /\ Head(queue[i]) = queue[i][1]
         /\ \A k \in 1 .. Len(queue'[i]) : queue'[i][k] = queue[i][k + 1]
<1>1. PICK S : queue \in [0 .. Last - 1 -> Seq(S)] /\ current \in [Workers -> S]
  BY DEF Shape
<1>2. queue[i] \in Seq(S) /\ queue[i] # <<>> /\ queue'[i] = Tail(queue[i])
  BY <1>1
<1>3. /\ Len(queue[i]) >= 1 /\ Len(queue'[i]) = Len(queue[i]) - 1
      /\ Head(queue[i]) = queue[i][1]
      /\ \A k \in 1 .. Len(queue'[i]) : queue'[i][k] = queue[i][k + 1]
  <2>1. PICK s \in Seq(S) : s = queue[i] /\ s # <<>>
    BY <1>2
  <2>2. /\ Len(s) >= 1 /\ Len(Tail(s)) = Len(s) - 1 /\ Head(s) = s[1]
        /\ \A k \in 1 .. Len(Tail(s)) : Tail(s)[k] = s[k + 1]
    BY <2>1
  <2> QED
    BY <1>2, <2>1, <2>2
<1>4. \A q \in 0 .. Last - 1 : Len(queue[q]) \in Nat
  BY <1>1
<1>5. \A q \in 0 .. Last - 1 : q # i => queue'[q] = queue[q]
  BY <1>1
<1> QED
  BY <1>3, <1>4, <1>5

\* There are finitely many places, and what is one.
LEMMA SlotsAre ==
  ASSUME NEW n \in Nat, NEW H \in SUBSET (1 .. n), NEW qs,
         \A q \in 0 .. n - 1 : Len(qs[q]) \in Nat /\ Len(qs[q]) <= BlockCount
  PROVE  /\ IsFiniteSet(SlotsOf(n, H, qs)) /\ Cardinality(SlotsOf(n, H, qs)) \in Nat
         /\ \A s \in SlotsOf(n, H, qs) : s = <<s[1], s[2]>>
         /\ \A w : <<-1, w>> \in SlotsOf(n, H, qs) <=> w \in H
         /\ \A q, k : q # -1 => (<<q, k>> \in SlotsOf(n, H, qs)
                                   <=> q \in 0 .. n - 1 /\ k \in 1 .. Len(qs[q]))
<1>1. BlockCount \in Nat \ {0}
  BY ChainAssumption
<1> DEFINE A == (-1 .. n) \X (1 .. BlockCount + n)
           Slot == SlotsOf(n, H, qs)
<1>2. IsFiniteSet(A)
  <2>1. IsFiniteSet(-1 .. n) /\ IsFiniteSet(1 .. BlockCount + n)
    BY <1>1, FS_Interval
  <2> QED
    BY <2>1, FS_Product
<1>3. Slot \subseteq A
  BY DEF SlotsOf
<1>4. IsFiniteSet(Slot) /\ Cardinality(Slot) \in Nat
  BY <1>2, <1>3, FS_Subset, FS_CardinalityType
<1>5. \A s \in Slot : s = <<s[1], s[2]>>
  BY <1>3
<1>6. \A w : <<-1, w>> \in Slot <=> w \in H
  <2>1. \A w \in H : w \in 1 .. BlockCount + n
    BY <1>1
  <2>2. -1 \in -1 .. n /\ -1 \notin 0 .. n - 1
    OBVIOUS
  <2> QED
    BY <2>1, <2>2 DEF SlotsOf
<1>7. \A q, k : q # -1 => (<<q, k>> \in Slot <=> q \in 0 .. n - 1 /\ k \in 1 .. Len(qs[q]))
  <2> SUFFICES ASSUME NEW q, NEW k, q # -1
               PROVE  <<q, k>> \in Slot <=> q \in 0 .. n - 1 /\ k \in 1 .. Len(qs[q])
    OBVIOUS
  <2>1. <<q, k>> \in Slot <=> /\ q \in 0 .. n - 1
                              /\ k \in 1 .. BlockCount + n /\ k <= Len(qs[q])
    BY DEF SlotsOf
  <2>2. ASSUME q \in 0 .. n - 1
        PROVE  k \in 1 .. BlockCount + n /\ k <= Len(qs[q]) <=> k \in 1 .. Len(qs[q])
    BY <1>1, <2>2
  <2> QED
    BY <2>1, <2>2
<1> QED
  BY <1>4, <1>5, <1>6, <1>7

\* A block that comes to one place and goes from another is counted once.
LEMMA SlotMoves ==
  ASSUME IsFiniteSet(Slots), Cardinality(Slots) \in Nat, IsFiniteSet(Slots'),
         NEW s \in Slots, NEW t, t \notin Slots, Slots' = (Slots \ {s}) \cup {t}
  PROVE  Cardinality(Slots') = Cardinality(Slots)
<1>1. IsFiniteSet(Slots \ {s}) /\ Cardinality(Slots \ {s}) = Cardinality(Slots) - 1
  BY FS_RemoveElement
<1>2. Cardinality((Slots \ {s}) \cup {t}) = Cardinality(Slots \ {s}) + 1
  BY <1>1, FS_AddElement
<1> QED
  BY <1>1, <1>2

\* The places before and after a step that adds and removes no queue.
LEMMA SlotsBoth ==
  ASSUME Inv, Counted, layout' = layout,
         \A q \in 0 .. Last - 1 : Len(queue[q]) \in Nat,
         \A q \in 0 .. Last - 1 : Len(queue'[q]) \in Nat /\ Len(queue'[q]) <= BlockCount
  PROVE  /\ IsFiniteSet(Slots) /\ Cardinality(Slots) \in Nat /\ IsFiniteSet(Slots')
         /\ \A s \in Slots \cup Slots' : s = <<s[1], s[2]>>
         /\ \A v : <<-1, v>> \in Slots <=> v \in Holders
         /\ \A v : <<-1, v>> \in Slots' <=> v \in Holders'
         /\ \A q, k : q # -1 =>
              (<<q, k>> \in Slots <=> q \in 0 .. Last - 1 /\ k \in 1 .. Len(queue[q]))
         /\ \A q, k : q # -1 =>
              (<<q, k>> \in Slots' <=> q \in 0 .. Last - 1 /\ k \in 1 .. Len(queue'[q]))
<1>1. Last' = Last /\ Workers' = Workers /\ Last \in Nat
  BY DEF Last, Workers, Inv, Shape
<1>2. Holders \in SUBSET (1 .. Last) /\ Holders' \in SUBSET (1 .. Last)
  BY <1>1 DEF Holders, Workers
<1>3. Slots = SlotsOf(Last, Holders, queue) /\ Slots' = SlotsOf(Last, Holders', queue')
  BY <1>1 DEF Slots
<1>4. \A q \in 0 .. Last - 1 : Len(queue[q]) <= BlockCount
  BY DEF Counted
<1>5. /\ IsFiniteSet(Slots) /\ Cardinality(Slots) \in Nat
      /\ \A s \in Slots : s = <<s[1], s[2]>>
      /\ \A v : <<-1, v>> \in Slots <=> v \in Holders
      /\ \A q, k : q # -1 =>
           (<<q, k>> \in Slots <=> q \in 0 .. Last - 1 /\ k \in 1 .. Len(queue[q]))
  BY <1>1, <1>2, <1>3, <1>4, SlotsAre
<1>6. /\ IsFiniteSet(Slots')
      /\ \A s \in Slots' : s = <<s[1], s[2]>>
      /\ \A v : <<-1, v>> \in Slots' <=> v \in Holders'
      /\ \A q, k : q # -1 =>
           (<<q, k>> \in Slots' <=> q \in 0 .. Last - 1 /\ k \in 1 .. Len(queue'[q]))
  BY <1>1, <1>2, <1>3, SlotsAre
<1> QED
  BY <1>5, <1>6

LEMMA ProduceCounts ==
  ASSUME Inv, Counted, NEW w \in Workers, NEW b, Produce(w, b), layout' = layout,
         Holds(w), ~Holds(w)', \A v \in Workers \ {w} : Holds(v)' = Holds(v),
         drained' = drained, main # "idle"
  PROVE  Counted'
<1> DEFINE o == Out(w)
           n == Len(queue[o])
<1>1. /\ o \in 0 .. Last - 1 /\ n < BlockCount
      /\ \A q \in 0 .. Last - 1 : Len(queue[q]) \in Nat
      /\ \A q \in 0 .. Last - 1 : q # o => queue'[q] = queue[q]
      /\ Len(queue'[o]) = n + 1
  BY Produced DEF Inv
<1> HIDE DEF o
<1>2. Last' = Last /\ Workers' = Workers
  BY DEF Last, Workers
<1>3. \A q \in 0 .. Last - 1 : Len(queue[q]) <= BlockCount
  BY DEF Counted
<1>4. BlockCount \in Nat
  BY ChainAssumption
<1>5. \A q \in 0 .. Last - 1 : Len(queue'[q]) \in Nat /\ Len(queue'[q]) <= BlockCount
  BY <1>1, <1>3, <1>4
<1>6. /\ IsFiniteSet(Slots) /\ Cardinality(Slots) \in Nat /\ IsFiniteSet(Slots')
      /\ \A s \in Slots \cup Slots' : s = <<s[1], s[2]>>
      /\ \A v : <<-1, v>> \in Slots <=> v \in Holders
      /\ \A v : <<-1, v>> \in Slots' <=> v \in Holders'
      /\ \A q, k : q # -1 =>
           (<<q, k>> \in Slots <=> q \in 0 .. Last - 1 /\ k \in 1 .. Len(queue[q]))
      /\ \A q, k : q # -1 =>
           (<<q, k>> \in Slots' <=> q \in 0 .. Last - 1 /\ k \in 1 .. Len(queue'[q]))
  BY <1>1, <1>5, SlotsBoth
<1>7. w \in Holders /\ Holders' = Holders \ {w}
  BY <1>2 DEF Holders
<1> DEFINE from == <<-1, w>>
           to == <<o, n + 1>>
<1>8. from \in Slots /\ to \notin Slots
  BY <1>1, <1>6, <1>7
<1>9. Slots' = (Slots \ {from}) \cup {to}
  <2>1. \A v : <<-1, v>> \in Slots' <=> <<-1, v>> \in (Slots \ {from}) \cup {to}
    <3>1. \A v : <<-1, v>> # to
      BY <1>1
    <3>2. \A v : <<-1, v>> = from <=> v = w
      OBVIOUS
    <3> HIDE DEF from, to
    <3> QED
      BY <1>6, <1>7, <3>1, <3>2
  <2>2. \A q, k : q # -1 => (<<q, k>> \in Slots' <=> <<q, k>> \in (Slots \ {from}) \cup {to})
    <3> SUFFICES ASSUME NEW q, NEW k, q # -1
                 PROVE  <<q, k>> \in Slots' <=> <<q, k>> \in Slots \/ <<q, k>> = to
      OBVIOUS
    <3>1. CASE q # o
      BY <1>1, <1>6, <3>1
    <3>2. CASE q = o
      <4>1. k \in 1 .. n + 1 <=> k \in 1 .. n \/ k = n + 1
        BY <1>1
      <4> QED
        BY <1>1, <1>6, <3>2, <4>1
    <3> QED
      BY <3>1, <3>2
  <2>3. \A q, k : <<q, k>> \in Slots' <=> <<q, k>> \in (Slots \ {from}) \cup {to}
    BY <2>1, <2>2
  <2>4. \A s \in (Slots \ {from}) \cup {to} : s = <<s[1], s[2]>>
    BY <1>6
  <2> QED
    BY <1>6, <2>3, <2>4
<1> HIDE DEF from, to
<1>10. Cardinality(Slots') = Cardinality(Slots)
  BY <1>6, <1>8, <1>9, SlotMoves
<1> QED
  BY <1>2, <1>5, <1>10 DEF Counted

LEMMA ConsumeCounts ==
  ASSUME Inv, Counted, NEW w \in Workers, Consume(w), layout' = layout,
         ~Holds(w), Holds(w)', \A v \in Workers \ {w} : Holds(v)' = Holds(v),
         drained' = drained, main # "idle"
  PROVE  Counted'
<1> DEFINE i == In(w)
           n == Len(queue[i])
<1>1. i \in 0 .. Last - 1
  BY QueuesExist DEF Inv, Shape
<1>2. queue[i] # <<>> /\ queue' = [queue EXCEPT ![i] = Tail(@)]
  BY DEF Consume
<1> HIDE DEF i
<1>3. /\ n >= 1 /\ Len(queue'[i]) = n - 1
      /\ \A q \in 0 .. Last - 1 : Len(queue[q]) \in Nat
      /\ \A q \in 0 .. Last - 1 : q # i => queue'[q] = queue[q]
  BY <1>1, <1>2, Taken DEF Inv
<1>4. Last' = Last /\ Workers' = Workers
  BY DEF Last, Workers
<1>5. \A q \in 0 .. Last - 1 : Len(queue'[q]) \in Nat /\ Len(queue'[q]) <= BlockCount
  <2>1. \A q \in 0 .. Last - 1 : Len(queue[q]) <= BlockCount
    BY DEF Counted
  <2> QED
    BY <1>1, <1>3, <2>1, ChainAssumption
<1>6. /\ IsFiniteSet(Slots) /\ Cardinality(Slots) \in Nat /\ IsFiniteSet(Slots')
      /\ \A s \in Slots \cup Slots' : s = <<s[1], s[2]>>
      /\ \A v : <<-1, v>> \in Slots <=> v \in Holders
      /\ \A v : <<-1, v>> \in Slots' <=> v \in Holders'
      /\ \A q, k : q # -1 =>
           (<<q, k>> \in Slots <=> q \in 0 .. Last - 1 /\ k \in 1 .. Len(queue[q]))
      /\ \A q, k : q # -1 =>
           (<<q, k>> \in Slots' <=> q \in 0 .. Last - 1 /\ k \in 1 .. Len(queue'[q]))
  BY <1>3, <1>5, SlotsBoth
<1>7. w \notin Holders /\ Holders' = Holders \cup {w}
  BY <1>4 DEF Holders
<1> DEFINE from == <<i, n>>
           to == <<-1, w>>
<1>8. from \in Slots /\ to \notin Slots
  BY <1>1, <1>3, <1>6, <1>7
<1>9. Slots' = (Slots \ {from}) \cup {to}
  <2>1. \A v : <<-1, v>> \in Slots' <=> <<-1, v>> \in (Slots \ {from}) \cup {to}
    <3>1. \A v : <<-1, v>> # from
      BY <1>1
    <3>2. \A v : <<-1, v>> = to <=> v = w
      OBVIOUS
    <3> HIDE DEF from, to
    <3> QED
      BY <1>6, <1>7, <3>1, <3>2
  <2>2. \A q, k : q # -1 => (<<q, k>> \in Slots' <=> <<q, k>> \in (Slots \ {from}) \cup {to})
    <3> SUFFICES ASSUME NEW q, NEW k, q # -1
                 PROVE  <<q, k>> \in Slots' <=> <<q, k>> \in Slots /\ <<q, k>> # from
      OBVIOUS
    <3>1. CASE q # i
      BY <1>1, <1>3, <1>6, <3>1
    <3>2. CASE q = i
      <4>1. k \in 1 .. n - 1 <=> k \in 1 .. n /\ k # n
        BY <1>1, <1>3
      <4> QED
        BY <1>1, <1>3, <1>6, <3>2, <4>1
    <3> QED
      BY <3>1, <3>2
  <2>3. \A q, k : <<q, k>> \in Slots' <=> <<q, k>> \in (Slots \ {from}) \cup {to}
    BY <2>1, <2>2
  <2>4. \A s \in (Slots \ {from}) \cup {to} : s = <<s[1], s[2]>>
    BY <1>6
  <2> QED
    BY <1>6, <2>3, <2>4
<1> HIDE DEF from, to
<1>10. Cardinality(Slots') = Cardinality(Slots)
  BY <1>6, <1>8, <1>9, SlotMoves
<1> QED
  BY <1>4, <1>5, <1>10 DEF Counted

\* Wait takes a block out only while it has not taken all of them: it never
\* finds the chain without poison.
LEMMA DrainCounts ==
  ASSUME Inv, Counted, Setting, Drain, 0 \in 0 .. Last - 1
  PROVE  Counted' /\ main' = main /\ drained # BlockCount
<1> DEFINE n == Len(queue[0])
<1>1. /\ queue[0] # <<>> /\ queue' = [queue EXCEPT ![0] = Tail(@)]
      /\ layout' = layout /\ drained' = drained + 1
      /\ main = "draining" /\ main' = IF drained = BlockCount THEN "aborted" ELSE main
      /\ UNCHANGED pc
  BY DEF Drain, chainVars, linkVars
<1>2. /\ n >= 1 /\ Len(queue'[0]) = n - 1
      /\ \A q \in 0 .. Last - 1 : Len(queue[q]) \in Nat
      /\ \A q \in 0 .. Last - 1 : q # 0 => queue'[q] = queue[q]
  BY <1>1, Taken DEF Inv
<1>3. Last' = Last /\ Holders' = Holders
  BY <1>1 DEF Last, Holders, Workers, Holds
<1>4. \A q \in 0 .. Last - 1 : Len(queue'[q]) \in Nat /\ Len(queue'[q]) <= BlockCount
  <2>1. \A q \in 0 .. Last - 1 : Len(queue[q]) <= BlockCount
    BY DEF Counted
  <2> QED
    BY <1>2, <2>1, ChainAssumption
<1>5. /\ IsFiniteSet(Slots) /\ Cardinality(Slots) \in Nat /\ IsFiniteSet(Slots')
      /\ \A s \in Slots \cup Slots' : s = <<s[1], s[2]>>
      /\ \A v : <<-1, v>> \in Slots <=> v \in Holders
      /\ \A v : <<-1, v>> \in Slots' <=> v \in Holders'
      /\ \A q, k : q # -1 =>
           (<<q, k>> \in Slots <=> q \in 0 .. Last - 1 /\ k \in 1 .. Len(queue[q]))
      /\ \A q, k : q # -1 =>
           (<<q, k>> \in Slots' <=> q \in 0 .. Last - 1 /\ k \in 1 .. Len(queue'[q]))
  BY <1>1, <1>2, <1>4, SlotsBoth
<1> DEFINE from == <<0, n>>
<1>6. from \in Slots
  BY <1>2, <1>5
<1>7. Slots' = Slots \ {from}
  <2>1. \A v : <<-1, v>> \in Slots' <=> <<-1, v>> \in Slots \ {from}
    <3>1. \A v : <<-1, v>> # from
      OBVIOUS
    <3> HIDE DEF from
    <3> QED
      BY <1>3, <1>5, <3>1
  <2>2. \A q, k : q # -1 => (<<q, k>> \in Slots' <=> <<q, k>> \in Slots \ {from})
    <3> SUFFICES ASSUME NEW q, NEW k, q # -1
                 PROVE  <<q, k>> \in Slots' <=> <<q, k>> \in Slots /\ <<q, k>> # from
      OBVIOUS
    <3>1. CASE q # 0
      BY <1>2, <1>5, <3>1
    <3>2. CASE q = 0
      <4>1. k \in 1 .. n - 1 <=> k \in 1 .. n /\ k # n
        BY <1>2
      <4> QED
        BY <1>2, <1>5, <3>2, <4>1
    <3> QED
      BY <3>1, <3>2
  <2>3. \A q, k : <<q, k>> \in Slots' <=> <<q, k>> \in Slots \ {from}
    BY <2>1, <2>2
  <2> QED
    BY <1>5, <2>3
<1> HIDE DEF from
<1>8. Cardinality(Slots') = Cardinality(Slots) - 1 /\ Cardinality(Slots') \in Nat
  BY <1>5, <1>6, <1>7, FS_RemoveElement, FS_CardinalityType
<1>9. drained \in Nat /\ Cardinality(Slots) + drained = BlockCount
  BY <1>1 DEF Counted
<1> QED
  BY <1>1, <1>3, <1>4, <1>5, <1>8, <1>9 DEF Counted

LEMMA QuietCounts ==
  ASSUME Counted, UNCHANGED <<layout, queue, drained>>, Holders' = Holders,
         main' # "idle" => main # "idle"
  PROVE  Counted'
<1>1. Last' = Last /\ Slots' = Slots
  BY DEF Slots, Last
<1> QED
  BY <1>1 DEF Counted

\* A worker sends its block on.
LEMMA ProduceOnePoison ==
  ASSUME Inv, OnePoison, NEW w \in Workers, NEW b, Produce(w, b),
         NEW next \in {"next", "last", "final", "done"}, Goto(w, next), layout' = layout,
         Holds(w), \A v \in Workers \ {w} : current'[v] = current[v],
         b.mem = NULL <=> next \in {"final", "done"},
         b.mem = NULL => w = 1 \/ HasPoison(w),
         next = "last" => w = 1,
         poisoned' = IF next = "final" THEN poisoned \cup {w} ELSE poisoned
  PROVE  OnePoison'
<1> DEFINE o == Out(w)
           n == Len(queue[o])
<1>1. /\ o \in 0 .. Last - 1
      /\ \A q \in 0 .. Last - 1 : Len(queue[q]) \in Nat
      /\ \A q \in 0 .. Last - 1 : q # o => queue'[q] = queue[q]
      /\ Len(queue'[o]) = n + 1 /\ queue'[o][n + 1] = b
      /\ \A k \in 1 .. n : queue'[o][k] = queue[o][k]
  BY Produced DEF Inv
<1>2. /\ pc' \in [Workers -> Places] /\ pc'[w] = next
      /\ \A v \in Workers \ {w} : pc'[v] = pc[v]
  BY GotoMoves DEF Inv, Places
<1>3. Last' = Last /\ Workers' = Workers /\ Last \in Nat /\ Workers = 1 .. Last
  BY DEF Last, Workers, Inv, Shape
<1>4. Feeder(o) = w /\ (o # 0 => o = w)
  BY <1>3 DEF Out, Feeder
<1>5. ~Passed(w) /\ ~Holds(w)' /\ (Passed(w)' <=> b.mem = NULL)
  BY <1>2 DEF Holds, Passed
<1>6. \A v \in Workers \ {w} : /\ Passed(v)' <=> Passed(v)
                               /\ HasPoison(v)' <=> HasPoison(v)
  BY <1>2 DEF Holds, HasPoison, Passed
<1> HIDE DEF o
\* Those before w have sent the poison on, those after it have not.
<1>7. \A u \in Workers : Passed(u) => u < w
  <2>1. \A u \in Workers : Passed(u) => \A v \in 1 .. u : Passed(v)
    BY DEF OnePoison
  <2> QED
    BY <1>3, <1>5, <2>1
<1>8. \A u \in Workers : Passed(u)' => \A v \in 1 .. u : Passed(v)'
  <2>1. \A u \in Workers : Passed(u) => \A v \in 1 .. u : Passed(v)
    BY DEF OnePoison
  <2>2. Passed(w)' => \A v \in 1 .. w : v # w => Passed(v)
    <3> SUFFICES ASSUME Passed(w)', NEW v \in 1 .. w, v # w
                 PROVE  Passed(v)
      OBVIOUS
    <3>1. w \in Int /\ w >= 1 /\ w # 1 /\ Passed(w - 1) /\ v \in 1 .. w - 1
      <4>1. w \in Int /\ w >= 1 /\ w # 1 /\ v \in 1 .. w - 1
        BY <1>3
      <4>2. HasPoison(w)
        BY <1>5, <4>1
      <4> QED
        BY <4>1, <4>2 DEF OnePoison
    <3> QED
      BY <1>3, <2>1, <3>1
  <2> QED
    BY <1>3, <1>6, <1>7, <2>1, <2>2
<1>9. ASSUME NEW q \in 0 .. Last - 1, NEW k \in 1 .. Len(queue[q]), queue[q][k].mem = NULL
      PROVE  k = Len(queue[q]) /\ Passed(Feeder(q)) /\ (q # 0 => ~Passed(q + 1) /\ ~HasPoison(q + 1))
  BY <1>9 DEF OnePoison
<1>10. ASSUME NEW q \in 0 .. Last - 1, NEW k \in 1 .. Len(queue'[q]), queue'[q][k].mem = NULL
       PROVE  k = Len(queue'[q]) /\ Passed(Feeder(q))' /\ (q # 0 => ~Passed(q + 1)' /\ ~HasPoison(q + 1)')
  <2>1. CASE q = o
    <3>1. \A j \in 1 .. n : queue[o][j].mem # NULL
      BY <1>1, <1>4, <1>5, <1>9
    <3>2. k = n + 1 /\ b.mem = NULL
      BY <1>1, <1>10, <2>1, <3>1
    <3>3. Passed(Feeder(q))'
      BY <1>3, <1>4, <1>5, <2>1, <3>2 DEF Feeder
    <3>4. q # 0 => q = w /\ w + 1 \in Workers /\ w + 1 # w
      BY <1>1, <1>3, <1>4, <2>1
    <3>5. q # 0 => ~Passed(w + 1) /\ ~HasPoison(w + 1)
      <4>1. q # 0 => ~Passed(w + 1)
        BY <1>3, <1>7, <3>4
      <4>2. q # 0 /\ HasPoison(w + 1) => Passed(w + 1 - 1)
        BY <3>4 DEF OnePoison
      <4> QED
        BY <1>3, <1>5, <4>1, <4>2
    <3> QED
      BY <1>1, <1>6, <2>1, <3>2, <3>3, <3>4, <3>5
  <2>2. CASE q # o
    <3>1. queue'[q] = queue[q]
      BY <1>1, <2>2
    <3>2. k = Len(queue[q]) /\ Passed(Feeder(q)) /\ (q # 0 => ~Passed(q + 1) /\ ~HasPoison(q + 1))
      BY <1>9, <1>10, <3>1
    <3>3. Feeder(q) \in Workers /\ Feeder(q)' = Feeder(q) /\ (q # 0 => q + 1 \in Workers)
      BY <1>1, <1>3 DEF Feeder
    <3>4. Feeder(q) # w
      BY <1>5, <3>2
    <3>5. Passed(Feeder(q))'
      BY <1>6, <3>2, <3>3, <3>4 DEF Passed
    <3>6. q # 0 => ~Passed(q + 1)' /\ ~HasPoison(q + 1)'
      <4>1. CASE q # 0 /\ q + 1 = w
        <5>1. ~HasPoison(w) /\ w # 1
          BY <1>3, <3>2, <4>1
        <5>2. ~Passed(w)' /\ ~HasPoison(w)'
          BY <1>5, <5>1 DEF HasPoison
        <5> QED
          BY <1>3, <4>1, <5>2 DEF Passed, HasPoison, Holds
      <4>2. CASE q # 0 /\ q + 1 # w
        BY <1>6, <3>2, <3>3, <4>2
      <4> QED
        BY <4>1, <4>2
    <3> QED
      BY <3>1, <3>2, <3>5, <3>6
  <2> QED
    BY <2>1, <2>2
<1>11. ASSUME NEW u \in Workers
       PROVE  /\ HasPoison(u)' => u # 1 /\ Passed(u - 1)'
              /\ pc'[u] \in {"last", "poison"} => u = 1
              /\ pc'[u] = "repoison" => current'[u].mem = NULL
              /\ pc'[u] = "final" => u \in poisoned'
              /\ u \in poisoned' => Passed(u)'
  <2>1. /\ HasPoison(u) => u # 1 /\ Passed(u - 1)
        /\ pc[u] \in {"last", "poison"} => u = 1
        /\ pc[u] = "repoison" => current[u].mem = NULL
        /\ pc[u] = "final" => u \in poisoned
        /\ u \in poisoned => Passed(u)
    BY DEF OnePoison
  <2>2. CASE u = w
    BY <1>2, <1>5, <2>1, <2>2 DEF HasPoison, Passed
  <2>3. CASE u # w
    <3>1. HasPoison(u)' => u # 1 /\ Passed(u - 1)'
      <4> SUFFICES ASSUME HasPoison(u)' PROVE u # 1 /\ Passed(u - 1)'
        OBVIOUS
      <4>1. u # 1 /\ Passed(u - 1) /\ u - 1 \in Workers
        BY <1>3, <1>6, <2>1, <2>3
      <4>2. u - 1 # w
        BY <1>5, <4>1
      <4> QED
        BY <1>6, <4>1, <4>2 DEF Passed
    <3> QED
      BY <1>2, <1>6, <2>1, <2>3, <3>1
  <2> QED
    BY <2>2, <2>3
<1> QED
  BY <1>3, <1>8, <1>10, <1>11 DEF OnePoison

\* A worker takes a block.
LEMMA ConsumeOnePoison ==
  ASSUME Inv, OnePoison, NEW w \in Workers, Consume(w),
         NEW next \in {"body", "poison", "repoison"}, Goto(w, next), layout' = layout,
         pc[w] \in {"init", "next", "last"},
         next = "repoison" => current'[w].mem = NULL, next = "poison" => w = 1,
         poisoned' = poisoned
  PROVE  OnePoison'
<1> DEFINE i == In(w)
           h == Head(queue[i])
<1>1. i \in 0 .. Last - 1
  BY QueuesExist DEF Inv, Shape
<1>2. /\ queue[i] # <<>> /\ queue' = [queue EXCEPT ![i] = Tail(@)]
      /\ current' = [current EXCEPT ![w] = h]
  BY DEF Consume
<1>3. /\ pc' \in [Workers -> Places] /\ pc'[w] = next
      /\ \A v \in Workers \ {w} : pc'[v] = pc[v]
  BY GotoMoves DEF Inv, Places
<1>4. Last' = Last /\ Workers' = Workers /\ Last \in Nat /\ Workers = 1 .. Last
  BY DEF Last, Workers, Inv, Shape
<1>5. i = w - 1
  BY DEF In
<1> HIDE DEF i
<1>6. /\ Len(queue[i]) >= 1 /\ Len(queue'[i]) = Len(queue[i]) - 1
      /\ h = queue[i][1]
      /\ \A q \in 0 .. Last - 1 : Len(queue[q]) \in Nat
      /\ \A q \in 0 .. Last - 1 : q # i => queue'[q] = queue[q]
      /\ \A k \in 1 .. Len(queue'[i]) : queue'[i][k] = queue[i][k + 1]
  BY <1>1, <1>2, Taken DEF Inv
<1> HIDE DEF h
<1>7. current'[w] = h /\ \A v \in Workers \ {w} : current'[v] = current[v]
  BY <1>2 DEF Inv, Shape
<1>8. ~Passed(w) /\ ~Passed(w)' /\ ~HasPoison(w) /\ (HasPoison(w)' <=> h.mem = NULL)
  BY <1>3, <1>7 DEF Holds, HasPoison, Passed
<1>9. \A v \in Workers \ {w} : /\ Passed(v)' <=> Passed(v)
                               /\ HasPoison(v)' <=> HasPoison(v)
  BY <1>3, <1>7 DEF Holds, HasPoison, Passed
<1>10. \A u \in Workers : Passed(u)' => \A v \in 1 .. u : Passed(v)'
  <2>1. \A u \in Workers : Passed(u) => \A v \in 1 .. u : Passed(v)
    BY DEF OnePoison
  <2>2. \A u \in Workers : Passed(u)' <=> Passed(u)
    BY <1>8, <1>9
  <2> QED
    BY <1>4, <2>1, <2>2
<1>11. ASSUME NEW q \in 0 .. Last - 1, NEW k \in 1 .. Len(queue[q]), queue[q][k].mem = NULL
       PROVE  k = Len(queue[q]) /\ Passed(Feeder(q)) /\ (q # 0 => ~Passed(q + 1) /\ ~HasPoison(q + 1))
  BY <1>11 DEF OnePoison
\* A poison at the head of the queue is all there is in it.
<1>12. h.mem = NULL => w # 1 /\ Passed(w - 1) /\ Len(queue[i]) = 1
  <2> SUFFICES ASSUME h.mem = NULL PROVE w # 1 /\ Passed(w - 1) /\ Len(queue[i]) = 1
    OBVIOUS
  <2>1. 1 \in 1 .. Len(queue[i])
    BY <1>1, <1>6
  <2>2. 1 = Len(queue[i]) /\ Passed(Feeder(i))
    BY <1>1, <1>6, <1>11, <2>1
  <2>3. CASE w = 1
    <3>1. Passed(Last) /\ Last \in Workers /\ 1 \in 1 .. Last
      BY <1>4, <1>5, <2>2, <2>3 DEF Feeder
    <3>2. Passed(1)
      BY <3>1 DEF OnePoison
    <3> QED
      BY <1>8, <2>3, <3>2
  <2>4. CASE w # 1
    BY <1>4, <1>5, <2>2, <2>4 DEF Feeder
  <2> QED
    BY <2>3, <2>4
<1>13. ASSUME NEW q \in 0 .. Last - 1, NEW k \in 1 .. Len(queue'[q]), queue'[q][k].mem = NULL
       PROVE  k = Len(queue'[q]) /\ Passed(Feeder(q))' /\ (q # 0 => ~Passed(q + 1)' /\ ~HasPoison(q + 1)')
  <2>1. Feeder(q) \in Workers /\ Feeder(q)' = Feeder(q) /\ (q # 0 => q + 1 \in Workers)
    BY <1>4 DEF Feeder
  <2>2. Passed(Feeder(q)) => Passed(Feeder(q))'
    BY <1>8, <1>9, <2>1 DEF Passed
  <2>3. CASE q = i
    <3>1. k + 1 \in 1 .. Len(queue[q]) /\ queue[q][k + 1].mem = NULL
      <4>1. k \in 1 .. Len(queue'[i]) /\ queue'[i][k].mem = NULL
        BY <1>13, <2>3
      <4>2. queue[i][k + 1].mem = NULL
        BY <1>6, <4>1
      <4>3. Len(queue'[i]) = Len(queue[i]) - 1 /\ Len(queue[i]) \in Nat
        BY <1>6, <2>3
      <4>4. k + 1 \in 1 .. Len(queue[i])
        BY <4>1, <4>3
      <4> QED
        BY <2>3, <4>2, <4>4
    <3>2. k + 1 = Len(queue[q]) /\ Passed(Feeder(q))
      BY <1>11, <3>1
    <3>3. h.mem # NULL
      BY <1>6, <1>12, <2>3, <3>1
    <3>4. q + 1 = w /\ ~Passed(w)' /\ ~HasPoison(w)'
      BY <1>4, <1>5, <1>8, <2>3, <3>3
    <3>5. ~Passed(q + 1)' /\ ~HasPoison(q + 1)'
      BY <3>4 DEF Passed, HasPoison, Holds
    <3> QED
      BY <1>6, <2>2, <2>3, <3>2, <3>5
  <2>4. CASE q # i
    <3>1. q + 1 # w /\ queue'[q] = queue[q]
      BY <1>5, <1>6, <2>4
    <3>2. k = Len(queue[q]) /\ Passed(Feeder(q)) /\ (q # 0 => ~Passed(q + 1) /\ ~HasPoison(q + 1))
      BY <1>11, <1>13, <3>1
    <3> QED
      BY <1>9, <2>1, <2>2, <3>1, <3>2
  <2> QED
    BY <2>3, <2>4
<1>14. ASSUME NEW u \in Workers
       PROVE  /\ HasPoison(u)' => u # 1 /\ Passed(u - 1)'
              /\ pc'[u] \in {"last", "poison"} => u = 1
              /\ pc'[u] = "repoison" => current'[u].mem = NULL
              /\ pc'[u] = "final" => u \in poisoned'
              /\ u \in poisoned' => Passed(u)'
  <2>1. /\ HasPoison(u) => u # 1 /\ Passed(u - 1)
        /\ pc[u] \in {"last", "poison"} => u = 1
        /\ pc[u] = "repoison" => current[u].mem = NULL
        /\ pc[u] = "final" => u \in poisoned
        /\ u \in poisoned => Passed(u)
    BY DEF OnePoison
  <2>2. HasPoison(u)' => u # 1 /\ Passed(u - 1)
    BY <1>8, <1>9, <1>12, <2>1
  <2>3. u # 1 => u - 1 \in Workers
    BY <1>4
  <2>4. HasPoison(u)' => u # 1 /\ Passed(u - 1)'
    BY <1>8, <1>9, <2>2, <2>3 DEF Passed
  <2>5. CASE u = w
    BY <1>3, <1>8, <2>1, <2>4, <2>5
  <2>6. CASE u # w
    BY <1>3, <1>7, <1>9, <2>1, <2>4, <2>6
  <2> QED
    BY <2>5, <2>6
<1> QED
  BY <1>4, <1>10, <1>13, <1>14 DEF OnePoison

\* Nothing moves, and no worker gets or passes a poison.
LEMMA QuietOnePoison ==
  ASSUME Inv, OnePoison, NEW w \in Workers,
         NEW next \in {"init", "poison", "done"}, Goto(w, next),
         UNCHANGED <<layout, queue, current, poisoned>>,
         next = "poison" => w = 1 /\ pc[w] = "body",
         next = "done" => pc[w] = "final",
         next = "init" => pc[w] = "none"
  PROVE  OnePoison'
<1>1. /\ pc' \in [Workers -> Places] /\ pc'[w] = next
      /\ \A v \in Workers \ {w} : pc'[v] = pc[v]
  BY GotoMoves DEF Inv, Places
<1>2. Last' = Last /\ Workers' = Workers /\ Last \in Nat /\ Workers = 1 .. Last
  BY DEF Last, Workers, Inv, Shape
<1>3. \A v \in Workers : /\ Passed(v)' <=> Passed(v)
                         /\ HasPoison(v)' <=> HasPoison(v)
  BY <1>1 DEF Holds, HasPoison, Passed
<1>4. \A u \in Workers : Passed(u)' => \A v \in 1 .. u : Passed(v)'
  <2>1. \A u \in Workers : Passed(u) => \A v \in 1 .. u : Passed(v)
    BY DEF OnePoison
  <2> QED
    BY <1>2, <1>3, <2>1
<1>5. ASSUME NEW q \in 0 .. Last - 1, NEW k \in 1 .. Len(queue[q]), queue[q][k].mem = NULL
      PROVE  k = Len(queue[q]) /\ Passed(Feeder(q))' /\ (q # 0 => ~Passed(q + 1)' /\ ~HasPoison(q + 1)')
  <2>1. k = Len(queue[q]) /\ Passed(Feeder(q)) /\ (q # 0 => ~Passed(q + 1) /\ ~HasPoison(q + 1))
    BY <1>5 DEF OnePoison
  <2>2. Feeder(q) \in Workers /\ Feeder(q)' = Feeder(q) /\ (q # 0 => q + 1 \in Workers)
    BY <1>2 DEF Feeder
  <2>3. Passed(Feeder(q))'
    BY <1>3, <2>1, <2>2 DEF Passed
  <2> QED
    BY <1>3, <2>1, <2>2, <2>3
<1>6. ASSUME NEW u \in Workers
      PROVE  /\ HasPoison(u)' => u # 1 /\ Passed(u - 1)'
             /\ pc'[u] \in {"last", "poison"} => u = 1
             /\ pc'[u] = "repoison" => current[u].mem = NULL
             /\ pc'[u] = "final" => u \in poisoned
             /\ u \in poisoned => Passed(u)'
  <2>1. /\ HasPoison(u) => u # 1 /\ Passed(u - 1)
        /\ pc[u] \in {"last", "poison"} => u = 1
        /\ pc[u] = "repoison" => current[u].mem = NULL
        /\ pc[u] = "final" => u \in poisoned
        /\ u \in poisoned => Passed(u)
    BY DEF OnePoison
  <2>2. u # 1 => u - 1 \in Workers
    BY <1>2
  <2>3. HasPoison(u)' => u # 1 /\ Passed(u - 1)'
    BY <1>3, <2>1, <2>2 DEF Passed
  <2> QED
    BY <1>1, <1>3, <2>1, <2>3
<1> QED
  BY <1>2, <1>4, <1>5, <1>6 DEF OnePoison

\* Wait takes a block that is not the poison out of the front queue.
LEMMA DrainOnePoison ==
  ASSUME Inv, OnePoison, Drain, 0 \in 0 .. Last - 1
  PROVE  OnePoison'
<1>1. /\ queue[0] # <<>> /\ queue' = [queue EXCEPT ![0] = Tail(@)]
      /\ UNCHANGED <<layout, pc, current, poisoned>>
  BY DEF Drain, chainVars, linkVars
<1>2. /\ Len(queue[0]) >= 1 /\ Len(queue'[0]) = Len(queue[0]) - 1
      /\ \A q \in 0 .. Last - 1 : Len(queue[q]) \in Nat
      /\ \A q \in 0 .. Last - 1 : q # 0 => queue'[q] = queue[q]
      /\ \A k \in 1 .. Len(queue'[0]) : queue'[0][k] = queue[0][k + 1]
  BY <1>1, Taken DEF Inv
<1>3. /\ Last' = Last /\ Workers' = Workers
      /\ \A v : (Passed(v)' <=> Passed(v)) /\ (HasPoison(v)' <=> HasPoison(v))
      /\ \A q : Feeder(q)' = Feeder(q)
  BY <1>1 DEF Last, Workers, Passed, HasPoison, Holds, Feeder
<1>4. ASSUME NEW q \in 0 .. Last - 1, NEW k \in 1 .. Len(queue'[q]), queue'[q][k].mem = NULL
      PROVE  k = Len(queue'[q]) /\ Passed(Feeder(q)) /\ (q # 0 => ~Passed(q + 1) /\ ~HasPoison(q + 1))
  <2>1. ASSUME NEW j \in 1 .. Len(queue[q]), queue[q][j].mem = NULL
        PROVE  j = Len(queue[q]) /\ Passed(Feeder(q)) /\ (q # 0 => ~Passed(q + 1) /\ ~HasPoison(q + 1))
    BY <2>1 DEF OnePoison
  <2>2. CASE q = 0
    <3>1. k + 1 \in 1 .. Len(queue[q]) /\ queue[q][k + 1].mem = NULL
      BY <1>2, <1>4, <2>2
    <3> QED
      BY <1>2, <2>1, <2>2, <3>1
  <2>3. CASE q # 0
    BY <1>2, <1>4, <2>1, <2>3
  <2> QED
    BY <2>2, <2>3
<1>5. \A q \in 0 .. Last - 1 : \A k \in 1 .. Len(queue'[q]) : queue'[q][k].mem = NULL =>
        /\ k = Len(queue'[q])
        /\ Passed(Feeder(q))'
        /\ q # 0 => ~Passed(q + 1)' /\ ~HasPoison(q + 1)'
  BY <1>1, <1>3, <1>4 DEF Passed, HasPoison, Holds
<1> QED
  BY <1>1, <1>3, <1>5 DEF OnePoison, Passed, HasPoison, Holds

LEMMA ProduceSource ==
  ASSUME Inv, SourceEnds, NEW w \in Workers, NEW b, Produce(w, b),
         NEW next \in {"next", "last", "final", "done"}, Goto(w, next),
         UNCHANGED <<layout, input>>,
         \A v \in Workers \ {w} : current'[v] = current[v],
         taken' \in Int, w # 1 => taken' = taken,
         w = 1 /\ next # "next" => taken' = Len(input),
         Out(w) = 0 /\ b.mem # NULL => b.size = BlockSize
  PROVE  SourceEnds'
<1> DEFINE o == Out(w)
           n == Len(queue[o])
<1>1. /\ o \in 0 .. Last - 1
      /\ \A q \in 0 .. Last - 1 : Len(queue[q]) \in Nat
      /\ \A q \in 0 .. Last - 1 : q # o => queue'[q] = queue[q]
      /\ Len(queue'[o]) = n + 1 /\ queue'[o][n + 1] = b
      /\ \A k \in 1 .. n : queue'[o][k] = queue[o][k]
  BY Produced DEF Inv
<1>2. /\ pc' \in [Workers -> Places] /\ pc'[w] = next
      /\ \A v \in Workers \ {w} : pc'[v] = pc[v]
  BY GotoMoves DEF Inv, Places
<1>3. Last' = Last /\ Workers' = Workers
  BY DEF Last, Workers
<1>4. ASSUME 1 \in Workers
      PROVE  /\ pc'[1] \in {"last", "poison", "final", "done"} => taken' = Len(input)
             /\ pc'[1] = "body" => current'[1].size = BlockSize
             /\ \A k \in 1 .. Len(queue'[0]) :
                  queue'[0][k].mem # NULL => queue'[0][k].size = BlockSize
  <2>1. /\ pc[1] \in {"last", "poison", "final", "done"} => taken = Len(input)
        /\ pc[1] = "body" => current[1].size = BlockSize
        /\ \A k \in 1 .. Len(queue[0]) : queue[0][k].mem # NULL => queue[0][k].size = BlockSize
    BY <1>4 DEF SourceEnds
  <2>2. \A k \in 1 .. Len(queue'[0]) : queue'[0][k].mem # NULL => queue'[0][k].size = BlockSize
    <3>1. CASE o = 0
      <4>1. \A k \in 1 .. n + 1 : k \in 1 .. n \/ k = n + 1
        BY <1>1
      <4> QED
        BY <1>1, <2>1, <3>1, <4>1
    <3>2. CASE o # 0
      <4>1. 0 \in 0 .. Last - 1
        BY <1>4 DEF Workers, Inv, Shape
      <4> QED
        BY <1>1, <2>1, <3>2, <4>1
    <3> QED
      BY <3>1, <3>2
  <2>3. CASE w = 1
    BY <1>2, <2>2, <2>3
  <2>4. CASE w # 1
    BY <1>2, <1>4, <2>1, <2>2, <2>4
  <2> QED
    BY <2>3, <2>4
<1>5. taken' \in Int /\ Len(input') \in Int
  BY DEF SourceEnds
<1> QED
  BY <1>3, <1>4, <1>5 DEF SourceEnds

LEMMA ConsumeSource ==
  ASSUME Inv, SourceEnds, OnePoison', NEW w \in Workers, Consume(w),
         NEW next \in {"body", "poison", "repoison"}, Goto(w, next),
         UNCHANGED <<layout, input, taken>>,
         next = "poison" => pc[w] = "last"
  PROVE  SourceEnds'
<1> DEFINE i == In(w)
           h == Head(queue[i])
<1>1. i \in 0 .. Last - 1 /\ i = w - 1
  BY QueuesExist DEF Inv, Shape, In
<1>2. /\ queue[i] # <<>> /\ queue' = [queue EXCEPT ![i] = Tail(@)]
      /\ current' = [current EXCEPT ![w] = h]
  BY DEF Consume
<1>3. /\ pc' \in [Workers -> Places] /\ pc'[w] = next
      /\ \A v \in Workers \ {w} : pc'[v] = pc[v]
  BY GotoMoves DEF Inv, Places
<1>4. Last' = Last /\ Workers' = Workers /\ Workers = 1 .. Last /\ Last \in Nat
  BY DEF Last, Workers, Inv, Shape
<1> HIDE DEF i
<1>5. /\ Len(queue[i]) >= 1 /\ Len(queue'[i]) = Len(queue[i]) - 1
      /\ h = queue[i][1]
      /\ \A q \in 0 .. Last - 1 : Len(queue[q]) \in Nat
      /\ \A q \in 0 .. Last - 1 : q # i => queue'[q] = queue[q]
      /\ \A k \in 1 .. Len(queue'[i]) : queue'[i][k] = queue[i][k + 1]
  BY <1>1, <1>2, Taken DEF Inv
<1> HIDE DEF h
<1>6. current'[w] = h /\ \A v \in Workers \ {w} : current'[v] = current[v]
  BY <1>2 DEF Inv, Shape
<1>7. ASSUME 1 \in Workers
      PROVE  /\ pc'[1] \in {"last", "poison", "final", "done"} => taken = Len(input)
             /\ pc'[1] = "body" => current'[1].size = BlockSize
             /\ \A k \in 1 .. Len(queue'[0]) :
                  queue'[0][k].mem # NULL => queue'[0][k].size = BlockSize
  <2>1. /\ pc[1] \in {"last", "poison", "final", "done"} => taken = Len(input)
        /\ pc[1] = "body" => current[1].size = BlockSize
        /\ \A k \in 1 .. Len(queue[0]) : queue[0][k].mem # NULL => queue[0][k].size = BlockSize
    BY <1>7 DEF SourceEnds
  <2>2. \A k \in 1 .. Len(queue'[0]) : queue'[0][k].mem # NULL => queue'[0][k].size = BlockSize
    <3>1. CASE i = 0
      <4>1. \A k \in 1 .. Len(queue'[0]) : k + 1 \in 1 .. Len(queue[0])
        BY <1>1, <1>5, <3>1
      <4> QED
        BY <1>5, <2>1, <3>1, <4>1
    <3>2. CASE i # 0
      <4>1. 0 \in 0 .. Last - 1
        BY <1>4, <1>7
      <4> QED
        BY <1>5, <2>1, <3>2, <4>1
    <3> QED
      BY <3>1, <3>2
  <2>3. CASE w = 1
    <3>1. pc'[1] = "body" => h.mem # NULL
      <4>1. \A u \in Workers : HasPoison(u)' => u # 1
        BY <1>4 DEF OnePoison
      <4> QED
        BY <1>6, <1>7, <2>3, <4>1 DEF HasPoison, Holds
    <3>2. i = 0 /\ 1 \in 1 .. Len(queue[0])
      BY <1>1, <1>5, <2>3
    <3>3. pc'[1] = "body" => current'[1].size = BlockSize
      BY <1>5, <1>6, <2>1, <2>3, <3>1, <3>2
    <3> QED
      BY <1>3, <2>1, <2>2, <2>3, <3>3
  <2>4. CASE w # 1
    BY <1>3, <1>6, <1>7, <2>1, <2>2, <2>4
  <2> QED
    BY <2>3, <2>4
<1> QED
  BY <1>4, <1>7 DEF SourceEnds

LEMMA QuietSource ==
  ASSUME Inv, SourceEnds, NEW w \in Workers,
         NEW next \in {"init", "poison", "done"}, Goto(w, next),
         UNCHANGED <<layout, queue, current, input, taken>>,
         next = "poison" => taken = Len(input),
         next = "done" => pc[w] = "final"
  PROVE  SourceEnds'
<1>1. /\ pc' \in [Workers -> Places] /\ pc'[w] = next
      /\ \A v \in Workers \ {w} : pc'[v] = pc[v]
  BY GotoMoves DEF Inv, Places
<1>2. Last' = Last /\ Workers' = Workers
  BY DEF Last, Workers
<1> QED
  BY <1>1, <1>2 DEF SourceEnds

LEMMA DrainSource ==
  ASSUME Inv, SourceEnds, Drain, 0 \in 0 .. Last - 1
  PROVE  SourceEnds'
<1>1. /\ queue[0] # <<>> /\ queue' = [queue EXCEPT ![0] = Tail(@)]
      /\ UNCHANGED <<layout, input, taken, pc, current>>
  BY DEF Drain, chainVars, linkVars, dataVars
<1>2. /\ Len(queue[0]) >= 1 /\ Len(queue'[0]) = Len(queue[0]) - 1
      /\ Len(queue[0]) \in Nat
      /\ \A k \in 1 .. Len(queue'[0]) : queue'[0][k] = queue[0][k + 1]
  BY <1>1, Taken DEF Inv
<1>3. \A k \in 1 .. Len(queue'[0]) : k + 1 \in 1 .. Len(queue[0])
  BY <1>2
<1>4. Workers' = Workers
  BY <1>1 DEF Last, Workers
<1> QED
  BY <1>1, <1>2, <1>3, <1>4 DEF SourceEnds

\* A round has a source at its start, and only there, and a worker that closes
\* the loop at its end.
LEMMA InRound ==
  ASSUME Setting, main # "idle"
  PROVE  /\ Last \in Nat /\ Last >= 2 /\ 1 \in Workers /\ 0 \in 0 .. Last - 1
         /\ layout[Last] \in Closing
         /\ \A w \in Workers : layout[w] \in Sources => w = 1
         /\ \A w \in Workers : Out(w) = 0 <=> w = Last
<1>1. layout \in Layouts
  BY DEF Setting
<1>2. /\ layout \in Seq(Kinds) /\ Last \in 2 .. MaxWorkers
      /\ layout[Last] \in Closing
      /\ \A w \in 2 .. Last - 1 : layout[w] \in {"Filter", "Write", "MainStream"}
  BY <1>1, ChainAssumption DEF Last
<1>3. Last \in Nat
  BY <1>2 DEF Last
<1>4. \A w \in Workers : w = 1 \/ w = Last \/ w \in 2 .. Last - 1
  BY <1>3 DEF Workers
<1>5. \A w \in Workers : layout[w] \in Sources => w = 1
  BY <1>2, <1>4 DEF Sources, Closing
<1>6. Last >= 2
  BY <1>2, <1>3
<1>7. \A w \in Workers : Out(w) = 0 <=> w = Last
  BY <1>3 DEF Workers, Out
<1> QED
  BY <1>2, <1>3, <1>5, <1>6, <1>7 DEF Workers

LEMMA ProduceAwaits ==
  ASSUME Awaiting, NEW w \in Workers, NEW b, Produce(w, b), Holds(w),
         NEW next \in {"next", "last", "final", "done"}, Goto(w, next),
         UNCHANGED <<layout, input, torn, mainVars>>, main # "idle", Inv',
         \A v \in Workers \ {w} : current'[v] = current[v],
         b.mem = NULL <=> next \in {"final", "done"},
         b.mem = NULL => w = 1 \/ HasPoison(w),
         next = "last" => w = 1,
         poisoned' = IF next = "final" THEN poisoned \cup {w} ELSE poisoned,
         taken' \in Int, w # 1 => taken' = taken,
         w = 1 /\ next # "next" => taken' = Len(input),
         Out(w) = 0 /\ b.mem # NULL => b.size = BlockSize
  PROVE  Awaiting'
<1>1. /\ pc'[w] = next /\ \A v \in Workers \ {w} : pc'[v] = pc[v]
  BY GotoMoves DEF Awaiting, Inv, Places
<1>2. ~Holds(w)' /\ \A v \in Workers \ {w} : Holds(v)' = Holds(v)
  BY <1>1 DEF Holds
<1>3. Counted'
  BY <1>2, ProduceCounts DEF Awaiting, mainVars
<1>4. OnePoison'
  BY ProduceOnePoison DEF Awaiting
<1>5. SourceEnds'
  BY ProduceSource DEF Awaiting
<1>6. Setting'
  BY DEF Awaiting, Setting, mainVars
<1> QED
  BY <1>3, <1>4, <1>5, <1>6 DEF Awaiting

LEMMA ConsumeAwaits ==
  ASSUME Awaiting, NEW w \in Workers, Consume(w),
         NEW next \in {"body", "poison", "repoison"}, Goto(w, next),
         UNCHANGED <<chainVars, poisoned, taken, mainVars>>, main # "idle", Inv',
         pc[w] \in {"init", "next", "last"},
         next = "repoison" => current'[w].mem = NULL, next = "poison" => pc[w] = "last"
  PROVE  Awaiting'
<1>1. /\ pc'[w] = next /\ \A v \in Workers \ {w} : pc'[v] = pc[v]
  BY GotoMoves DEF Awaiting, Inv, Places, chainVars
<1>2. ~Holds(w) /\ Holds(w)' /\ \A v \in Workers \ {w} : Holds(v)' = Holds(v)
  BY <1>1 DEF Holds
<1>3. Counted'
  BY <1>2, ConsumeCounts DEF Awaiting, mainVars, chainVars
<1>4. next = "poison" => w = 1
  BY DEF Awaiting, OnePoison
<1>5. OnePoison'
  BY <1>4, ConsumeOnePoison DEF Awaiting, chainVars
<1>6. SourceEnds'
  BY <1>5, ConsumeSource DEF Awaiting, chainVars
<1>7. Setting'
  BY DEF Awaiting, Setting, mainVars, chainVars
<1> QED
  BY <1>3, <1>5, <1>6, <1>7 DEF Awaiting

LEMMA QuietAwaits ==
  ASSUME Awaiting, NEW w \in Workers,
         NEW next \in {"init", "poison", "done"}, Goto(w, next),
         UNCHANGED <<chainVars, queue, current, poisoned, taken, mainVars>>, Inv',
         next = "poison" => w = 1 /\ pc[w] = "body" /\ taken = Len(input),
         next = "done" => pc[w] = "final",
         next = "init" => pc[w] = "none"
  PROVE  Awaiting'
<1>1. /\ pc'[w] = next /\ \A v \in Workers \ {w} : pc'[v] = pc[v]
  BY GotoMoves DEF Awaiting, Inv, Places, chainVars
<1>2. Holders' = Holders
  BY <1>1 DEF Holds, Holders, Workers, Last, chainVars
<1>3. Counted'
  BY <1>2, QuietCounts DEF Awaiting, mainVars, chainVars
<1>4. OnePoison'
  BY QuietOnePoison DEF Awaiting, chainVars
<1>5. SourceEnds'
  BY QuietSource DEF Awaiting, chainVars
<1>6. Setting'
  BY DEF Awaiting, Setting, mainVars, chainVars
<1> QED
  BY <1>3, <1>4, <1>5, <1>6 DEF Awaiting

\* Nothing moves, or the main thread starts to wait or the source gives up.
LEMMA StutterAwaits ==
  ASSUME Awaiting, UNCHANGED <<chainVars, linkVars, queue, taken, drained>>,
         \/ main' = main
         \/ main = "adding" /\ main' = "draining"
         \/ main # "idle" /\ main' = "aborted" /\ torn
  PROVE  Awaiting'
<1>1. Inv'
  BY StutterInv DEF Awaiting, chainVars, linkVars
<1>2. Holders' = Holders
  BY DEF Holds, Holders, Workers, Last, chainVars, linkVars
<1>3. Counted'
  BY <1>2, QuietCounts DEF Awaiting, chainVars
<1>4. OnePoison'
  BY DEF Awaiting, OnePoison, Passed, HasPoison, Holds, Feeder, Workers, Last, chainVars, linkVars
<1>5. SourceEnds'
  BY DEF Awaiting, SourceEnds, Workers, Last, chainVars, linkVars
<1>6. Setting'
  BY DEF Awaiting, Setting, chainVars
<1> QED
  BY <1>1, <1>3, <1>4, <1>5, <1>6 DEF Awaiting

LEMMA WorkerAwaits ==
  ASSUME Awaiting, NEW w \in Workers, Worker(w)
  PROVE  Awaiting'
<1>1. Inv'
  BY WorkerInv DEF Awaiting
<1>2. main # "idle"
  BY DEF Awaiting, Setting, Workers, Last
<1>3. /\ Last \in Nat /\ Last >= 2 /\ layout[Last] \in Closing
      /\ layout[w] \in Sources => w = 1
      /\ Out(w) = 0 <=> w = Last
  BY <1>2, InRound DEF Awaiting
<1>4. /\ HasPoison(w) => w # 1 /\ Passed(w - 1)
      /\ pc[w] \in {"last", "poison"} => w = 1
      /\ pc[w] = "repoison" => current[w].mem = NULL
      /\ pc[w] = "final" => w \in poisoned
      /\ w \in poisoned => Passed(w)
  BY DEF Awaiting, OnePoison
<1>5. /\ taken \in Int /\ Len(input) \in Int
      /\ w = 1 /\ pc[w] \in {"last", "poison", "final", "done"} => taken = Len(input)
      /\ w = 1 /\ pc[w] = "body" => current[w].size = BlockSize
  BY DEF Awaiting, SourceEnds
<1>6. BlockSize \in Nat
  BY ChainAssumption
<1>7. CASE LinkInit(w)
  <2>1. /\ Consume(w) /\ Goto(w, "body") /\ pc[w] = "init"
        /\ UNCHANGED <<chainVars, poisoned, taken, mainVars>>
    BY <1>7 DEF LinkInit, At, dataVars
  <2> QED
    BY <1>1, <1>2, <2>1, ConsumeAwaits
<1>8. CASE LinkNext(w)
  <2>1. /\ Consume(w) /\ pc[w] = "next"
        /\ UNCHANGED <<chainVars, poisoned, taken, mainVars>>
        /\ \/ Goto(w, "body")
           \/ Goto(w, "repoison") /\ current'[w].mem = NULL
    BY <1>8 DEF LinkNext, At, dataVars
  <2>2. CASE Goto(w, "body")
    BY <1>1, <1>2, <2>1, <2>2, ConsumeAwaits
  <2>3. CASE Goto(w, "repoison") /\ current'[w].mem = NULL
    BY <1>1, <1>2, <2>1, <2>3, ConsumeAwaits
  <2> QED
    BY <2>1, <2>2, <2>3
<1>9. CASE LinkLast(w)
  <2>1. /\ Consume(w) /\ Goto(w, "poison") /\ pc[w] = "last"
        /\ UNCHANGED <<chainVars, poisoned, taken, mainVars>>
    BY <1>9 DEF LinkLast, At, dataVars
  <2> QED
    BY <1>1, <1>2, <2>1, ConsumeAwaits
<1>10. CASE LinkRepoison(w)
  <2>1. /\ Produce(w, current[w]) /\ Goto(w, "final") /\ pc[w] = "repoison"
        /\ poisoned' = poisoned \cup {w}
        /\ UNCHANGED <<layout, input, torn, current, taken, mainVars>>
    BY <1>10 DEF LinkRepoison, At, dataVars, chainVars
  <2>2. Holds(w) /\ HasPoison(w) /\ w # 1 /\ current[w].mem = NULL
    BY <1>4, <2>1 DEF Holds, HasPoison
  <2> DEFINE b == current[w]
  <2> HIDE DEF b
  <2>3. Produce(w, b) /\ b.mem = NULL
    BY <2>1, <2>2 DEF b
  <2> QED
    BY <1>1, <1>2, <1>5, <2>1, <2>2, <2>3, ProduceAwaits
<1>11. CASE LinkPoison(w)
  <2>1. /\ current' = [current EXCEPT ![w] = [mem |-> NULL, size |-> @.size]]
        /\ Produce(w, current'[w]) /\ Goto(w, "final") /\ pc[w] = "poison"
        /\ poisoned' = poisoned \cup {w}
        /\ UNCHANGED <<layout, input, torn, taken, mainVars>>
    BY <1>11 DEF LinkPoison, At, dataVars, chainVars
  <2>2. current'[w].mem = NULL /\ \A v \in Workers \ {w} : current'[v] = current[v]
    BY <2>1 DEF Awaiting, Inv, Shape
  <2>3. Holds(w) /\ w = 1 /\ taken = Len(input)
    BY <1>4, <1>5, <2>1 DEF Holds
  <2>4. PICK b : Produce(w, b) /\ b.mem = NULL
    BY <2>1, <2>2
  <2> QED
    BY <1>1, <1>2, <1>5, <2>1, <2>2, <2>3, <2>4, ProduceAwaits
<1>12. CASE LinkEnd(w)
  <2>1. /\ Goto(w, "done") /\ UNCHANGED <<chainVars, current, poisoned, taken, mainVars>>
        /\ \/ pc[w] = "final"
           \/ pc[w] = "body" /\ current[w].mem = NULL
        /\ IF current[w].mem = NULL /\ w \notin poisoned
             THEN Produce(w, current[w]) ELSE UNCHANGED queue
    BY <1>12 DEF LinkEnd, LoopOver, At
  <2>2. CASE pc[w] = "final"
    <3>1. UNCHANGED queue
      BY <1>4, <2>1, <2>2
    <3> QED
      BY <1>1, <2>1, <2>2, <3>1, QuietAwaits
  <2>3. CASE pc[w] = "body" /\ current[w].mem = NULL
    <3>1. Holds(w) /\ HasPoison(w) /\ w # 1 /\ w \notin poisoned
      BY <1>4, <2>3 DEF Holds, HasPoison, Passed
    <3>2. PICK b : Produce(w, b) /\ b.mem = NULL
      BY <2>1, <2>3, <3>1
    <3> QED
      BY <1>1, <1>2, <1>5, <2>1, <3>1, <3>2, ProduceAwaits DEF chainVars
  <2> QED
    BY <2>1, <2>2, <2>3
<1>13. CASE ReadEnd(w)
  <2>1. /\ Goto(w, "poison") /\ pc[w] = "body" /\ layout[w] \in {"Read", "PRead"} /\ Left = 0
        /\ UNCHANGED <<chainVars, queue, current, poisoned, taken, mainVars>>
    BY <1>13 DEF ReadEnd, Working, At, dataVars
  <2>2. w = 1 /\ taken = Len(input)
    BY <1>3, <1>5, <2>1 DEF Sources, Left
  <2> QED
    BY <1>1, <2>1, <2>2, QuietAwaits
<1>14. CASE ReadTorn(w)
  <2>1. /\ torn /\ main' = "aborted"
        /\ UNCHANGED <<chainVars, linkVars, queue, taken, drained>>
    BY <1>14 DEF ReadTorn, dataVars
  <2> QED
    BY <1>2, <2>1, StutterAwaits
\* The loops' bodies.
<1>15. ASSUME NEW n, NEW next \in {"next", "last"}, PassOn(w, n), Goto(w, next), Working(w),
              UNCHANGED <<chainVars, poisoned, mainVars>>,
              taken' \in Int, w # 1 => taken' = taken,
              next = "last" => w = 1 /\ taken' = Len(input),
              w = Last => n = BlockSize
       PROVE  Awaiting'
  <2>1. /\ current' = [current EXCEPT ![w] = [mem |-> @.mem, size |-> n]]
        /\ Produce(w, current'[w])
    BY <1>15 DEF PassOn
  <2>2. /\ current'[w].mem = current[w].mem /\ current'[w].size = n
        /\ \A v \in Workers \ {w} : current'[v] = current[v]
    BY <2>1 DEF Awaiting, Inv, Shape
  <2>3. Holds(w) /\ current[w].mem # NULL
    BY <1>15 DEF Working, At, Holds
  <2>4. PICK b : Produce(w, b) /\ b.mem # NULL /\ b.size = n
    BY <2>1, <2>2, <2>3
  <2> QED
    BY <1>1, <1>2, <1>3, <1>15, <2>2, <2>3, <2>4, ProduceAwaits DEF chainVars
<1>16. CASE ReadBlock(w)
  <2> DEFINE n == Smaller(Left, BlockSize)
  <2>1. /\ layout[w] \in {"Read", "PRead"} /\ Working(w)
        /\ taken' = taken + n /\ PassOn(w, n)
        /\ UNCHANGED <<chainVars, poisoned, mainVars>>
        /\ \/ Goto(w, "next")
           \/ Goto(w, "last") /\ Left <= BlockSize
    BY <1>16 DEF ReadBlock, Taking
  <2>2. w = 1 /\ Left \in Int /\ n \in Int /\ taken' \in Int
        /\ (Left <= BlockSize => taken' = Len(input))
    BY <1>3, <1>5, <1>6, <2>1 DEF Sources, Left, Smaller
  <2> HIDE DEF n
  <2>3. w # Last
    BY <1>3, <2>2
  <2> QED
    BY <1>15, <2>1, <2>2, <2>3
<1>17. CASE StreamBlock(w)
  <2> DEFINE n == current[w].size
  <2>1. /\ layout[w] = "Stream" /\ Working(w) /\ pc[w] = "body"
        /\ taken' = taken + n /\ PassOn(w, n) /\ Goto(w, "next")
        /\ UNCHANGED <<chainVars, poisoned, mainVars>>
    BY <1>17 DEF StreamBlock, Taking, Working, At
  <2>2. w = 1 /\ n = BlockSize /\ taken' \in Int /\ w # Last
    BY <1>3, <1>5, <1>6, <2>1 DEF Sources
  <2> HIDE DEF n
  <2> QED
    BY <1>15, <2>1, <2>2
<1>18. CASE StreamEnd(w)
  <2>1. /\ layout[w] = "Stream" /\ Working(w)
        /\ taken' = taken + Left /\ PassOn(w, Left) /\ Goto(w, "last")
        /\ UNCHANGED <<chainVars, poisoned, mainVars>>
    BY <1>18 DEF StreamEnd, Taking
  <2>2. w = 1 /\ taken' = Len(input) /\ w # Last
    BY <1>3, <1>5, <2>1 DEF Sources, Left
  <2> QED
    BY <1>5, <1>15, <2>1, <2>2
<1>19. CASE Filter(w)
  <2>1. /\ layout[w] = "Filter" /\ Working(w) /\ taken' = taken
        /\ PassOn(w, Len(KeepOnly(Held(w)))) /\ Goto(w, "next")
        /\ UNCHANGED <<chainVars, poisoned, mainVars>>
    BY <1>19 DEF Filter
  <2>2. w # Last
    BY <1>3, <2>1 DEF Closing
  <2> QED
    BY <1>5, <1>15, <2>1, <2>2
<1>20. CASE Output(w)
  <2>1. /\ Working(w) /\ taken' = taken
        /\ PassOn(w, IF layout[w] \in Closing THEN BlockSize ELSE current[w].size)
        /\ Goto(w, "next")
        /\ UNCHANGED <<chainVars, poisoned, mainVars>>
    BY <1>20 DEF Output
  <2>2. PICK n : PassOn(w, n) /\ (layout[w] \in Closing => n = BlockSize)
    BY <2>1
  <2>3. w = Last => n = BlockSize
    BY <1>3, <2>2
  <2> QED
    BY <1>5, <1>15, <2>1, <2>2, <2>3
<1>21. CASE Recycle(w)
  <2>1. /\ Working(w) /\ taken' = taken
        /\ PassOn(w, BlockSize) /\ Goto(w, "next")
        /\ UNCHANGED <<chainVars, poisoned, mainVars>>
    BY <1>21 DEF Recycle, dataVars
  <2> QED
    BY <1>5, <1>15, <2>1
<1> QED
  BY <1>7, <1>8, <1>9, <1>10, <1>11, <1>12, <1>13, <1>14, <1>16, <1>17, <1>18, <1>19, <1>20, <1>21
  DEF Worker

LEMMA DrainAwaits ==
  ASSUME Awaiting, Drain
  PROVE  Awaiting'
<1>1. main = "draining" /\ UNCHANGED <<layout, torn>>
  BY DEF Drain, chainVars
<1>2. 0 \in 0 .. Last - 1
  BY <1>1, InRound DEF Awaiting
<1>3. Inv'
  BY DrainInv DEF Awaiting
<1>4. Counted' /\ main' = main
  BY <1>2, DrainCounts DEF Awaiting
<1>5. OnePoison' /\ SourceEnds'
  BY <1>2, DrainOnePoison, DrainSource DEF Awaiting
<1>6. Setting'
  BY <1>1, <1>4 DEF Awaiting, Setting
<1> QED
  BY <1>3, <1>4, <1>5, <1>6 DEF Awaiting

\* All blocks are in the lead queue.
LEMMA StartAwaits ==
  ASSUME Awaiting, NEW l \in Layouts, NEW i \in Inputs, NEW t \in BOOLEAN, Start(l, i, t)
  PROVE  Awaiting'
<1>1. Inv'
  BY StartInv DEF Awaiting
<1>2. /\ main = "idle" /\ main' = "adding" /\ drained' = drained
      /\ layout' = l /\ input' = i /\ taken' = 0 /\ poisoned' = {}
      /\ queue' = [q \in 0 .. Len(l) - 1 |-> IF q = 0 THEN Populated ELSE <<>>]
      /\ pc' = [w \in 1 .. Len(l) |-> "none"]
  BY DEF Start
<1>3. Last' = Len(l) /\ Len(l) \in Nat /\ Len(l) >= 2
  <2>1. l \in Seq(Kinds) /\ Len(l) \in 2 .. MaxWorkers
    BY ChainAssumption
  <2>2. Len(l) \in Nat
    BY <2>1
  <2> QED
    BY <1>2, <2>1, <2>2 DEF Last
<1>4. BlockCount \in Nat \ {0}
  BY ChainAssumption
<1>5. /\ Len(Populated) = BlockCount
      /\ \A m \in 1 .. BlockCount : Populated[m].mem # NULL /\ Populated[m].size = BlockSize
  BY <1>4 DEF Populated, Memory, NULL
<1>6. /\ queue'[0] = Populated
      /\ \A q \in 0 .. Len(l) - 1 : q # 0 => queue'[q] = <<>>
  BY <1>2, <1>3
<1>7. \A w \in Workers' : pc'[w] = "none" /\ ~Holds(w)' /\ ~Passed(w)' /\ ~HasPoison(w)'
  BY <1>2, <1>3 DEF Workers, Holds, Passed, HasPoison
<1>8. Setting'
  BY <1>2 DEF Awaiting, Setting
<1>9. Counted'
  <2>1. Holders' = {}
    BY <1>7 DEF Holders
  <2>2. Slots' = SlotsOf(Len(l), {}, queue')
    BY <1>3, <2>1 DEF Slots
  <2>3. \A q \in 0 .. Len(l) - 1 : Len(queue'[q]) \in Nat /\ Len(queue'[q]) <= BlockCount
    BY <1>4, <1>5, <1>6
  <2>4. /\ \A s \in Slots' : s = <<s[1], s[2]>>
        /\ \A w : <<-1, w>> \in Slots' <=> w \in {}
        /\ \A q, k : q # -1 => (<<q, k>> \in Slots' <=> q \in 0 .. Len(l) - 1 /\ k \in 1 .. Len(queue'[q]))
    <3>1. {} \in SUBSET (1 .. Len(l))
      OBVIOUS
    <3> QED
      BY <1>3, <2>2, <2>3, <3>1, SlotsAre
  <2>5. Slots' = {0} \X (1 .. BlockCount)
    <3>1. \A q, k : <<q, k>> \in Slots' <=> q = 0 /\ k \in 1 .. BlockCount
      <4> SUFFICES ASSUME NEW q, NEW k
                   PROVE  <<q, k>> \in Slots' <=> q = 0 /\ k \in 1 .. BlockCount
        OBVIOUS
      <4>1. CASE q = -1
        BY <2>4, <4>1
      <4>2. CASE q = 0
        BY <1>3, <1>5, <1>6, <2>4, <4>2
      <4>3. CASE q # -1 /\ q # 0
        <5>1. q \in 0 .. Len(l) - 1 => Len(queue'[q]) = 0
          BY <1>6, <4>3
        <5> QED
          BY <2>4, <4>3, <5>1
      <4> QED
        BY <4>1, <4>2, <4>3
    <3>2. \A s \in {0} \X (1 .. BlockCount) : s = <<s[1], s[2]>>
      OBVIOUS
    <3>3. \A q, k : <<q, k>> \in {0} \X (1 .. BlockCount) <=> q = 0 /\ k \in 1 .. BlockCount
      OBVIOUS
    <3> QED
      BY <2>4, <3>1, <3>2, <3>3
  <2>6. Cardinality(Slots') = BlockCount
    <3>1. IsFiniteSet({0}) /\ Cardinality({0}) = 1
      BY FS_Singleton
    <3>2. IsFiniteSet(1 .. BlockCount) /\ Cardinality(1 .. BlockCount) = BlockCount
      BY <1>4, FS_Interval
    <3>3. Cardinality({0} \X (1 .. BlockCount)) = Cardinality({0}) * Cardinality(1 .. BlockCount)
      BY <3>1, <3>2, FS_Product, Zenon
    <3>4. BlockCount \in Nat /\ 1 * BlockCount = BlockCount
      BY <1>4
    <3>5. Cardinality({0}) * Cardinality(1 .. BlockCount) = 1 * BlockCount
      BY <3>1, <3>2
    <3> QED
      BY <2>5, <3>3, <3>4, <3>5
  <2>7. drained' = 0
    BY <1>2 DEF Awaiting, Setting
  <2> QED
    BY <1>3, <1>4, <2>3, <2>6, <2>7 DEF Counted
<1>10. OnePoison'
  <2>1. \A q \in 0 .. Len(l) - 1 : \A k \in 1 .. Len(queue'[q]) : queue'[q][k].mem # NULL
    BY <1>5, <1>6
  <2> QED
    BY <1>2, <1>3, <1>7, <2>1 DEF OnePoison
<1>11. SourceEnds'
  <2>1. Len(i) \in Int
    <3>1. i \in Seq(Records)
      BY ChainAssumption
    <3> QED
      BY <3>1
  <2> QED
    BY <1>2, <1>5, <1>6, <1>7, <2>1 DEF SourceEnds
<1> QED
  BY <1>1, <1>8, <1>9, <1>10, <1>11 DEF Awaiting

\* Between rounds there are no queues and no workers.
LEMMA WaitReturnsAwaits ==
  ASSUME WaitReturns
  PROVE  Awaiting'
<1>1. /\ layout' = <<>> /\ input' = <<>> /\ taken' = 0 /\ drained' = 0 /\ main' = "idle"
  BY DEF WaitReturns
<1>2. Last' = 0 /\ Workers' = {} /\ 0 .. Last' - 1 = {} /\ Len(<<>>) \in Int
  BY <1>1 DEF Last, Workers
<1>3. Inv'
  BY WaitReturnsInv
<1>4. Setting'
  BY <1>1 DEF Setting
<1>5. Counted'
  BY <1>1, <1>2 DEF Counted
<1>6. OnePoison' /\ SourceEnds'
  BY <1>1, <1>2 DEF OnePoison, SourceEnds
<1> QED
  BY <1>3, <1>4, <1>5, <1>6 DEF Awaiting

LEMMA AwaitingStarts == Init => Awaiting
<1> SUFFICES ASSUME Init PROVE Awaiting
  OBVIOUS
<1>1. layout = <<>> /\ input = <<>> /\ taken = 0 /\ drained = 0 /\ main = "idle"
  BY DEF Init
<1>2. Last = 0 /\ Workers = {} /\ 0 .. Last - 1 = {} /\ Len(<<>>) \in Int
  BY <1>1 DEF Last, Workers
<1>3. Setting /\ Counted
  BY <1>1, <1>2 DEF Setting, Counted
<1>4. OnePoison /\ SourceEnds
  BY <1>1, <1>2 DEF OnePoison, SourceEnds
<1> QED
  BY <1>3, <1>4, Initially DEF Awaiting

LEMMA AwaitingKeeps == Awaiting /\ [Next]_vars => Awaiting'
<1> SUFFICES ASSUME Awaiting, [Next]_vars PROVE Awaiting'
  OBVIOUS
<1>1. ASSUME NEW w \in Workers, AddWorker(w) PROVE Awaiting'
  <2>1. /\ Goto(w, "init") /\ pc[w] = "none"
        /\ UNCHANGED <<chainVars, queue, current, poisoned, taken, mainVars>>
    BY <1>1 DEF AddWorker, dataVars
  <2>2. Inv'
    BY <2>1, QuietMoves DEF Awaiting, Places, chainVars
  <2> QED
    BY <2>1, <2>2, QuietAwaits
<1>2. CASE Wait
  <2>1. /\ main = "adding" /\ main' = "draining" /\ drained' = 0
        /\ UNCHANGED <<chainVars, linkVars, queue, taken>>
    BY <1>2 DEF Wait, dataVars
  <2>2. drained' = drained
    BY <2>1 DEF Awaiting, Setting
  <2> QED
    BY <2>1, <2>2, StutterAwaits
<1>3. CASE Done \/ UNCHANGED vars
  <2>1. UNCHANGED <<chainVars, linkVars, queue, taken, drained, main>>
    BY <1>3 DEF Done, vars, dataVars, mainVars
  <2> QED
    BY <2>1, StutterAwaits
<1> QED
  BY <1>1, <1>2, <1>3, StartAwaits, WorkerAwaits, DrainAwaits, WaitReturnsAwaits DEF Next

\* Whoever holds a block knows that no queue has all of them.
LEMMA RoomForAll ==
  ASSUME Awaiting, NEW w \in Workers, Holds(w)
  PROVE  Len(queue[Out(w)]) < BlockCount
<1> DEFINE o == Out(w)
           n == Len(queue[o])
           A == {o} \X (1 .. n)
           here == <<-1, w>>
<1>1. Last \in Nat /\ o \in 0 .. Last - 1 /\ main # "idle" /\ w \in Holders
  BY QueuesExist DEF Awaiting, Setting, Inv, Shape, Workers, Last, Holders
<1>2. \A q \in 0 .. Last - 1 : Len(queue[q]) \in Nat /\ Len(queue[q]) <= BlockCount
  <2>1. PICK S : queue \in [0 .. Last - 1 -> Seq(S)] /\ current \in [Workers -> S]
    BY DEF Awaiting, Inv, Shape
  <2>2. \A q \in 0 .. Last - 1 : Len(queue[q]) \in Nat
    BY <2>1
  <2> QED
    BY <2>2 DEF Awaiting, Counted
<1> HIDE DEF o
<1>3. /\ IsFiniteSet(Slots) /\ Cardinality(Slots) \in Nat
      /\ here \in Slots
      /\ \A k \in 1 .. n : <<o, k>> \in Slots
  <2>1. Holders \in SUBSET (1 .. Last)
    BY DEF Holders, Workers
  <2> QED
    BY <1>1, <1>2, <2>1, SlotsAre DEF Slots
<1>4. n \in Nat /\ IsFiniteSet(A) /\ Cardinality(A) = n
  <2>1. n \in Nat
    BY <1>1, <1>2
  <2>2. IsFiniteSet({o}) /\ Cardinality({o}) = 1
    BY FS_Singleton
  <2>3. IsFiniteSet(1 .. n) /\ Cardinality(1 .. n) = n
    BY <2>1, FS_Interval
  <2>4. IsFiniteSet(A) /\ Cardinality(A) = Cardinality({o}) * Cardinality(1 .. n)
    BY <2>2, <2>3, FS_Product
  <2>5. 1 * n = n
    BY <2>1
  <2> QED
    BY <2>1, <2>2, <2>3, <2>4, <2>5
<1>5. here \notin A
  BY <1>1
<1>6. A \cup {here} \subseteq Slots
  BY <1>3
<1>7. Cardinality(A \cup {here}) = n + 1
  BY <1>4, <1>5, FS_AddElement
<1>8. Cardinality(A \cup {here}) <= Cardinality(Slots)
  BY <1>3, <1>6, FS_Subset
<1>9. drained \in Nat /\ Cardinality(Slots) + drained = BlockCount
  BY <1>1 DEF Awaiting, Counted
<1> QED
  BY <1>3, <1>4, <1>7, <1>8, <1>9, ChainAssumption DEF o

\* There is one poison in the queues at a time, and only after the source has
\* delivered everything.
LEMMA PoisonsSame ==
  ASSUME Awaiting, NEW p \in 0 .. Last - 1, NEW q \in 0 .. Last - 1,
         NEW j \in 1 .. Len(queue[p]), NEW k \in 1 .. Len(queue[q]),
         queue[p][j].mem = NULL, queue[q][k].mem = NULL
  PROVE  p = q /\ j = k /\ taken = Len(input)
<1>1. Last \in Nat /\ Workers = 1 .. Last
  BY DEF Awaiting, Inv, Shape, Workers
<1>2. /\ j = Len(queue[p]) /\ Passed(Feeder(p)) /\ (p # 0 => ~Passed(p + 1))
      /\ k = Len(queue[q]) /\ Passed(Feeder(q)) /\ (q # 0 => ~Passed(q + 1))
  BY DEF Awaiting, OnePoison
<1>3. Feeder(p) \in Workers /\ Feeder(q) \in Workers
  BY <1>1 DEF Feeder
<1>4. \A u \in Workers : Passed(u) => \A v \in 1 .. u : Passed(v)
  BY DEF Awaiting, OnePoison
<1>5. \A x, y \in 0 .. Last - 1 : Passed(Feeder(y)) /\ x # 0 /\ ~Passed(x + 1) => Feeder(y) <= x
  <2> SUFFICES ASSUME NEW x \in 0 .. Last - 1, NEW y \in 0 .. Last - 1,
                      Passed(Feeder(y)), x # 0, ~Passed(x + 1)
               PROVE  Feeder(y) <= x
    OBVIOUS
  <2>1. Feeder(y) \in Workers
    BY <1>1 DEF Feeder
  <2>2. x + 1 \notin 1 .. Feeder(y)
    BY <1>4, <2>1
  <2> QED
    BY <1>1, <2>1, <2>2
<1>6. p = q
  <2>1. CASE p = 0 /\ q # 0
    BY <1>1, <1>2, <1>5, <2>1 DEF Feeder
  <2>2. CASE q = 0 /\ p # 0
    BY <1>1, <1>2, <1>5, <2>2 DEF Feeder
  <2>3. CASE p # 0 /\ q # 0
    BY <1>1, <1>2, <1>5, <2>3 DEF Feeder
  <2> QED
    BY <2>1, <2>2, <2>3
<1>7. taken = Len(input)
  <2>1. 1 \in Workers /\ Passed(1)
    BY <1>1, <1>2, <1>3, <1>4
  <2> QED
    BY <2>1 DEF Awaiting, SourceEnds, Passed
<1> QED
  BY <1>2, <1>6, <1>7

\* "This queue can accomodate all blocks" (chain.cc:94): a worker with a block
\* to pass on has room for it, whatever the others do; the poison is alone and
\* comes after everything the source had; and Wait meets it before it has taken
\* out too many blocks, so that only a torn file aborts the program.
THEOREM OnlyInputIsAwaitedHolds == Spec => []OnlyInputIsAwaited
<1>1. Awaiting => OnlyInputIsAwaited
  <2> SUFFICES ASSUME Awaiting PROVE OnlyInputIsAwaited
    OBVIOUS
  <2>1. DOMAIN queue = 0 .. Last - 1
    BY DEF Awaiting, Inv, Shape
  <2>2. \A p, q \in 0 .. Last - 1 : \A j \in 1 .. Len(queue[p]), k \in 1 .. Len(queue[q]) :
          queue[p][j].mem = NULL /\ queue[q][k].mem = NULL
            => <<p, j>> = <<q, k>> /\ taken = Len(input)
    BY PoisonsSame
  <2>3. main = "aborted" => torn
    BY DEF Awaiting, Setting
  <2> QED
    BY <2>1, <2>2, <2>3, RoomForAll DEF OnlyInputIsAwaited
<1> QED
  BY <1>1, AwaitingStarts, AwaitingKeeps, PTL DEF Spec
-----------------------------------------------------------------------------
(* The chain copies: Copying implies RecordCopy.  First KeepOnly, which    *)
(* keeps of two joined sequences what it keeps of each.                    *)

\* KeepOnly of the first n records of s.
KeepStep(s, k, n) == IF s[n] \in Keep THEN Append(k[n - 1], s[n]) ELSE k[n - 1]

\* The recursion of KeepOnly has a value, and the end of it is KeepOnly.
LEMMA KeptExists ==
  ASSUME NEW s \in Seq(Records)
  PROVE  \E k \in [0 .. Len(s) -> Seq(Records)] :
            /\ k[0] = <<>> /\ \A n \in 1 .. Len(s) : k[n] = KeepStep(s, k, n)
            /\ KeepOnly(s) = k[Len(s)]
<1> DEFINE N == Len(s)
           op == [p \in (1 .. N) \X Seq(Records) |->
                    IF s[p[1]] \in Keep THEN Append(p[2], s[p[1]]) ELSE p[2]]
           h == CHOOSE g : g = [n \in 0 .. Len(s) |->
                  IF n = 0 THEN <<>>
                  ELSE IF s[n] \in Keep THEN Append(g[n - 1], s[n]) ELSE g[n - 1]]
<1>1. N \in Nat /\ <<>> \in Seq(Records) /\ \A n \in 1 .. N : s[n] \in Records
  OBVIOUS
<1>2. KeepOnly(s) = h[N]
  BY DEF KeepOnly
<1>3. \A n \in 1 .. N, v \in Seq(Records) :
         op[<<n, v>>] = IF s[n] \in Keep THEN Append(v, s[n]) ELSE v
  OBVIOUS
<1>4. op \in [(1 .. N) \X Seq(Records) -> Seq(Records)]
  <2> HIDE DEF N
  <2> QED
    BY <1>1
<1> HIDE DEF N, op
<1>5. \E g \in [0 .. N -> Seq(Records)] : F!Recursion(N, <<>>, op, g)
  BY <1>1, <1>4, F!RecursionExists
<1>6. PICK g \in [0 .. N -> Seq(Records)] :
         g[0] = <<>> /\ \A n \in 1 .. N : g[n] = op[<<n, g[n - 1]>>]
  BY <1>5 DEF F!Recursion
<1>7. \A n \in 1 .. N : n \in 0 .. N /\ n # 0 /\ n - 1 \in 0 .. N /\ g[n - 1] \in Seq(Records)
  BY <1>1
<1>8. \A n \in 1 .. N : g[n] = IF s[n] \in Keep THEN Append(g[n - 1], s[n]) ELSE g[n - 1]
  BY <1>3, <1>6, <1>7
<1>9. \A n \in 0 .. N : g[n] = IF n = 0 THEN <<>>
                               ELSE IF s[n] \in Keep THEN Append(g[n - 1], s[n]) ELSE g[n - 1]
  <2> TAKE n \in 0 .. N
  <2>1. n = 0 \/ (n \in 1 .. N /\ n # 0)
    BY <1>1
  <2> QED
    BY <1>6, <1>8, <2>1
<1>10. g = [n \in 0 .. N |-> IF n = 0 THEN <<>>
                             ELSE IF s[n] \in Keep THEN Append(g[n - 1], s[n]) ELSE g[n - 1]]
  BY <1>9
<1>11. h = [n \in 0 .. N |-> IF n = 0 THEN <<>>
                             ELSE IF s[n] \in Keep THEN Append(h[n - 1], s[n]) ELSE h[n - 1]]
  BY <1>10 DEF N
<1> HIDE DEF h
<1>12. DOMAIN h = 0 .. N /\ h[0] = <<>>
       /\ \A n \in 1 .. N : h[n] = IF s[n] \in Keep THEN Append(h[n - 1], s[n]) ELSE h[n - 1]
  <2>1. 0 \in 0 .. N
    BY <1>1
  <2>2. \A n \in 0 .. N : h[n] = IF n = 0 THEN <<>>
                             ELSE IF s[n] \in Keep THEN Append(h[n - 1], s[n]) ELSE h[n - 1]
    BY <1>11
  <2>3. DOMAIN h = 0 .. N
    BY <1>11
  <2> QED
    BY <1>7, <2>1, <2>2, <2>3
<1> DEFINE P == {n \in 0 .. N : h[n] = g[n]}
<1>13. 0 .. N \subseteq P
  <2>1. 0 \in P
    BY <1>1, <1>6, <1>12
  <2>2. ASSUME NEW n \in 0 .. N - 1, n \in P PROVE n + 1 \in P
    <3>1. n + 1 \in 1 .. N /\ n + 1 \in 0 .. N /\ (n + 1) - 1 = n
      BY <1>1
    <3> QED
      BY <1>8, <1>12, <2>2, <3>1
  <2> HIDE DEF P
  <2> QED
    BY <1>1, <2>1, <2>2, F!UpTo
<1>14. h[N] = g[N]
  <2>1. N \in 0 .. N
    BY <1>1
  <2> QED
    BY <1>13, <2>1
<1>15. g[0] = <<>> /\ (\A n \in 1 .. N : g[n] = KeepStep(s, g, n)) /\ KeepOnly(s) = g[N]
  BY <1>2, <1>6, <1>8, <1>14 DEF KeepStep
<1> QED
  BY <1>15 DEF N

\* One record more.
LEMMA KeepAppend ==
  ASSUME NEW s \in Seq(Records), NEW r \in Records
  PROVE  KeepOnly(Append(s, r)) = IF r \in Keep THEN Append(KeepOnly(s), r) ELSE KeepOnly(s)
<1> DEFINE t == Append(s, r)
<1>1. t \in Seq(Records) /\ Len(t) = Len(s) + 1 /\ t[Len(s) + 1] = r /\ Len(s) \in Nat
      /\ \A n \in 1 .. Len(s) : t[n] = s[n]
  OBVIOUS
<1> HIDE DEF t
<1>2. PICK k \in [0 .. Len(s) -> Seq(Records)] :
            /\ k[0] = <<>> /\ \A n \in 1 .. Len(s) : k[n] = KeepStep(s, k, n)
            /\ KeepOnly(s) = k[Len(s)]
  BY KeptExists
<1>3. PICK l \in [0 .. Len(t) -> Seq(Records)] :
            /\ l[0] = <<>> /\ \A n \in 1 .. Len(t) : l[n] = KeepStep(t, l, n)
            /\ KeepOnly(t) = l[Len(t)]
  BY <1>1, KeptExists
<1> DEFINE P == {n \in 0 .. Len(s) : l[n] = k[n]}
<1>4. 0 .. Len(s) \subseteq P
  <2>1. 0 \in P
    BY <1>1, <1>2, <1>3
  <2>2. ASSUME NEW n \in 0 .. Len(s) - 1, n \in P PROVE n + 1 \in P
    <3>1. n + 1 \in 1 .. Len(s) /\ n + 1 \in 0 .. Len(s) /\ (n + 1) - 1 = n /\ n + 1 \in 1 .. Len(t)
      BY <1>1
    <3>2. l[n + 1] = KeepStep(t, l, n + 1) /\ k[n + 1] = KeepStep(s, k, n + 1)
      BY <1>2, <1>3, <3>1
    <3> QED
      BY <1>1, <2>2, <3>1, <3>2 DEF KeepStep
  <2> HIDE DEF P
  <2> QED
    BY <1>1, <2>1, <2>2, F!UpTo
<1>5. l[Len(s)] = k[Len(s)]
  BY <1>1, <1>4
<1>6. Len(t) \in 1 .. Len(t) /\ Len(t) - 1 = Len(s)
  BY <1>1
<1>7. l[Len(t)] = KeepStep(t, l, Len(t))
  BY <1>3, <1>6
<1> QED
  BY <1>1, <1>2, <1>3, <1>5, <1>6, <1>7 DEF t, KeepStep

\* What is kept are records, and of nothing nothing is kept.
LEMMA KeepType ==
  ASSUME NEW s \in Seq(Records)
  PROVE  KeepOnly(s) \in Seq(Records) /\ KeepOnly(<<>>) = <<>>
<1>1. Len(s) \in 0 .. Len(s) /\ <<>> \in Seq(Records) /\ Len(<<>>) = 0
  OBVIOUS
<1> QED
  BY <1>1, KeptExists

\* The first n records and those behind them.
LEMMA KeepConcat ==
  ASSUME NEW s \in Seq(Records), NEW t \in Seq(Records)
  PROVE  KeepOnly(s \o t) = KeepOnly(s) \o KeepOnly(t)
<1> DEFINE P == {n \in 0 .. Len(t) : KeepOnly(s \o SubSeq(t, 1, n)) = KeepOnly(s) \o KeepOnly(SubSeq(t, 1, n))}
<1>1. Len(t) \in Nat /\ KeepOnly(s) \in Seq(Records) /\ SubSeq(t, 1, 0) = <<>>
  BY KeepType
<1>2. 0 \in P
  <2>1. s \o <<>> = s /\ KeepOnly(s) \o <<>> = KeepOnly(s) /\ KeepOnly(<<>>) = <<>>
    BY <1>1, KeepType, ConcatEmptySeq
  <2>2. KeepOnly(s \o SubSeq(t, 1, 0)) = KeepOnly(s) \o KeepOnly(SubSeq(t, 1, 0))
    BY <1>1, <2>1
  <2> QED
    BY <1>1, <2>2
<1>3. ASSUME NEW n \in 0 .. Len(t) - 1, n \in P PROVE n + 1 \in P
  <2> DEFINE u == SubSeq(t, 1, n)
             r == t[n + 1]
  <2>1. n \in Nat /\ n + 1 \in 1 .. Len(t) /\ n + 1 \in 0 .. Len(t) /\ (n + 1) - 1 = n /\ 1 \in 1 .. Len(t)
    BY <1>1
  <2>2. u \in Seq(Records) /\ r \in Records
    <3>1. r \in Records
      BY <2>1
    <3>2. \A i \in 1 .. n : t[i] \in Records
      BY <1>1, <2>1
    <3> QED
      BY <2>1, <3>1, <3>2, SubSeqProperties
  <2>3. SubSeq(t, 1, n + 1) = Append(u, r)
    <3>1. SubSeq(t, 1, n + 1) = u \o <<r>>
      BY <2>1, SubSeqRecursiveSecond
    <3> QED
      BY <2>2, <3>1, AppendIsConcat
  <2>4. KeepOnly(s \o u) = KeepOnly(s) \o KeepOnly(u)
    BY <1>3
  <2> HIDE DEF u, r
  <2>5. s \o u \in Seq(Records) /\ KeepOnly(u) \in Seq(Records)
    BY <2>2, KeepType, ConcatProperties
  <2>6. \A v \in Seq(Records), w \in Seq(Records) : v \o Append(w, r) = Append(v \o w, r)
    <3> TAKE v \in Seq(Records), w \in Seq(Records)
    <3>1. v \o w \in Seq(Records) /\ <<r>> \in Seq(Records)
      BY <2>2, ConcatProperties
    <3>2. v \o (w \o <<r>>) = (v \o w) \o <<r>>
      BY <3>1, ConcatAssociative
    <3> QED
      BY <2>2, <3>1, <3>2, AppendIsConcat
  <2>7. KeepOnly(s \o Append(u, r)) = IF r \in Keep THEN Append(KeepOnly(s \o u), r) ELSE KeepOnly(s \o u)
    BY <2>2, <2>5, <2>6, KeepAppend
  <2>8. KeepOnly(Append(u, r)) = IF r \in Keep THEN Append(KeepOnly(u), r) ELSE KeepOnly(u)
    BY <2>2, KeepAppend
  <2>9. KeepOnly(s \o Append(u, r)) = KeepOnly(s) \o KeepOnly(Append(u, r))
    <3>1. KeepOnly(s) \o Append(KeepOnly(u), r) = Append(KeepOnly(s) \o KeepOnly(u), r)
      BY <1>1, <2>5, <2>6
    <3> QED
      BY <2>4, <2>7, <2>8, <3>1
  <2> QED
    BY <2>1, <2>3, <2>9
<1>4. Len(t) \in P
  <2> HIDE DEF P
  <2>1. 0 .. Len(t) \subseteq P
    BY <1>1, <1>2, <1>3, F!UpTo
  <2> QED
    BY <1>1, <2>1
<1>5. SubSeq(t, 1, Len(t)) = t
  BY SubSeqFull
<1> QED
  BY <1>4, <1>5

\* A Filter behind a Filter finds nothing to remove.
LEMMA KeepTwice ==
  ASSUME NEW s \in Seq(Records)
  PROVE  KeepOnly(KeepOnly(s)) = KeepOnly(s)
<1> DEFINE P == {n \in 0 .. Len(s) : KeepOnly(KeepOnly(SubSeq(s, 1, n))) = KeepOnly(SubSeq(s, 1, n))}
<1>1. Len(s) \in Nat /\ SubSeq(s, 1, 0) = <<>> /\ KeepOnly(<<>>) = <<>>
  <2>1. KeepOnly(<<>>) = <<>>
    BY KeepType
  <2> QED
    BY <2>1
<1>2. 0 \in P
  <2>1. KeepOnly(KeepOnly(SubSeq(s, 1, 0))) = KeepOnly(SubSeq(s, 1, 0))
    BY <1>1
  <2> QED
    BY <1>1, <2>1
<1>3. ASSUME NEW n \in 0 .. Len(s) - 1, n \in P PROVE n + 1 \in P
  <2> DEFINE u == SubSeq(s, 1, n)
             r == s[n + 1]
  <2>1. n \in Nat /\ n + 1 \in 1 .. Len(s) /\ n + 1 \in 0 .. Len(s) /\ (n + 1) - 1 = n /\ 1 \in 1 .. Len(s)
    BY <1>1
  <2>2. u \in Seq(Records) /\ r \in Records
    BY <1>1, <2>1
  <2>3. SubSeq(s, 1, n + 1) = Append(u, r)
    <3>1. SubSeq(s, 1, n + 1) = u \o <<r>>
      BY <2>1, SubSeqRecursiveSecond
    <3> QED
      BY <2>2, <3>1, AppendIsConcat
  <2>4. KeepOnly(KeepOnly(u)) = KeepOnly(u)
    BY <1>3
  <2> HIDE DEF u, r
  <2>5. KeepOnly(u) \in Seq(Records)
    BY <2>2, KeepType
  <2>6. KeepOnly(Append(u, r)) = IF r \in Keep THEN Append(KeepOnly(u), r) ELSE KeepOnly(u)
    BY <2>2, KeepAppend
  <2>7. r \in Keep => KeepOnly(Append(KeepOnly(u), r)) = Append(KeepOnly(KeepOnly(u)), r)
    BY <2>2, <2>5, KeepAppend
  <2> QED
    BY <2>1, <2>3, <2>4, <2>6, <2>7
<1>4. Len(s) \in P
  <2> HIDE DEF P
  <2>1. 0 .. Len(s) \subseteq P
    BY <1>1, <1>2, <1>3, F!UpTo
  <2> QED
    BY <1>1, <2>1
<1>5. SubSeq(s, 1, Len(s)) = s
  BY SubSeqFull
<1> QED
  BY <1>4, <1>5

\* What has become of the records s of the source when they have passed the
\* workers up to w, Filters from the second on.
Through(w, s) == IF w = 1 THEN s ELSE KeepOnly(s)

\* The records of the source behind the first m, up to the n-th.
Part(m, n) == SubSeq(input, m + 1, n)

\* What becomes of joined records is what becomes of each, joined.
LEMMA ThroughConcat ==
  ASSUME NEW w, NEW s \in Seq(Records), NEW t \in Seq(Records)
  PROVE  /\ Through(w, s) \in Seq(Records)
         /\ Through(w, <<>>) = <<>>
         /\ Through(w, s \o t) = Through(w, s) \o Through(w, t)
         /\ KeepOnly(Through(w, s)) = KeepOnly(s)
BY KeepType, KeepConcat, KeepTwice DEF Through

\* Adjacent parts of the input.
LEMMA PartJoins ==
  ASSUME input \in Seq(Records), NEW m \in Nat, NEW n \in Nat, NEW k \in Nat,
         m <= n, n <= k, k <= Len(input)
  PROVE  /\ Part(m, n) \in Seq(Records) /\ Len(Part(m, n)) = n - m
         /\ Part(m, n) \o Part(n, k) = Part(m, k)
<1>1. Len(input) \in Nat
  OBVIOUS
<1>2. m + 1 \in 1 .. Len(input) + 1 /\ n \in (m + 1) - 1 .. Len(input) /\ k \in n .. Len(input)
  BY <1>1
<1>3. Part(m, n) \o Part(n, k) = Part(m, k)
  BY <1>2, ConcatAdjacentSubSeq DEF Part
<1>4. \A i \in m + 1 .. n : input[i] \in Records
  BY <1>1
<1>5. m + 1 \in Int /\ n \in Int
  OBVIOUS
<1>6. Part(m, n) \in Seq(Records) /\ Len(Part(m, n)) = IF m + 1 <= n THEN n - (m + 1) + 1 ELSE 0
  BY <1>4, <1>5, SubSeqProperties DEF Part
<1> QED
  BY <1>3, <1>6

\* Writing over the end.
LEMMA OverwrittenIs ==
  ASSUME NEW s \in Seq(Records), NEW t \in Seq(Records), NEW n \in 0 .. Len(s)
  PROVE  /\ Overwritten(s, n, t) \in Seq(Records)
         /\ Len(Overwritten(s, n, t)) = IF n + Len(t) > Len(s) THEN n + Len(t) ELSE Len(s)
         /\ SubSeq(Overwritten(s, n, t), 1, n + Len(t)) = SubSeq(s, 1, n) \o t
<1> DEFINE o == Overwritten(s, n, t)
           N == IF n + Len(t) > Len(s) THEN n + Len(t) ELSE Len(s)
<1>1. Len(s) \in Nat /\ Len(t) \in Nat /\ n \in Nat /\ N \in Nat /\ n + Len(t) \in 0 .. N
  OBVIOUS
<1>2. o = [i \in 1 .. N |-> IF i \in n + 1 .. n + Len(t) THEN t[i - n] ELSE s[i]]
  BY DEF Overwritten
<1> HIDE DEF o
<1>3. \A i \in 1 .. N : (IF i \in n + 1 .. n + Len(t) THEN t[i - n] ELSE s[i]) \in Records
  <2> TAKE i \in 1 .. N
  <2>1. CASE i \in n + 1 .. n + Len(t)
    <3>1. i - n \in 1 .. Len(t)
      BY <1>1, <2>1
    <3> QED
      BY <2>1, <3>1
  <2>2. CASE i \notin n + 1 .. n + Len(t)
    <3>1. i \in 1 .. Len(s)
      BY <1>1, <2>2
    <3> QED
      BY <2>2, <3>1
  <2> QED
    BY <2>1, <2>2
<1>4. o \in [1 .. N -> Records]
  <2> HIDE DEF N
  <2> QED
    BY <1>2, <1>3
<1>5. o \in Seq(Records) /\ Len(o) = N
  <2> HIDE DEF N
  <2> QED
    BY <1>1, <1>4
<1> DEFINE l == SubSeq(o, 1, n + Len(t))
           r == SubSeq(s, 1, n) \o t
<1>6. l \in Seq(Records) /\ Len(l) = n + Len(t) /\ \A i \in 1 .. n + Len(t) : l[i] = o[i]
  <2> HIDE DEF N
  <2>1. \A i \in 1 .. n + Len(t) : o[i] \in Records
    BY <1>1, <1>4
  <2>2. /\ l \in Seq(Records)
        /\ Len(l) = IF 1 <= n + Len(t) THEN n + Len(t) - 1 + 1 ELSE 0
        /\ \A i \in 1 .. n + Len(t) - 1 + 1 : l[i] = o[1 + i - 1]
    BY <1>1, <2>1, SubSeqProperties
  <2>3. n + Len(t) \in Nat
    BY <1>1
  <2> HIDE DEF l
  <2>4. \A i \in 1 .. n + Len(t) : i \in 1 .. n + Len(t) - 1 + 1 /\ 1 + i - 1 = i
    BY <2>3
  <2> QED
    BY <2>2, <2>3, <2>4
<1>7. /\ SubSeq(s, 1, n) \in Seq(Records) /\ Len(SubSeq(s, 1, n)) = n
      /\ \A i \in 1 .. n : SubSeq(s, 1, n)[i] = s[i]
  BY <1>1
<1> DEFINE u == SubSeq(s, 1, n)
<1> HIDE DEF u
<1>8. r \in Seq(Records) /\ Len(r) = n + Len(t)
      /\ \A i \in 1 .. n + Len(t) : r[i] = IF i <= n THEN s[i] ELSE t[i - n]
  <2>1. u \in Seq(Records) /\ Len(u) = n /\ \A i \in 1 .. n : u[i] = s[i]
    BY <1>7 DEF u
  <2>2. /\ u \o t \in Seq(Records) /\ Len(u \o t) = Len(u) + Len(t)
        /\ \A i \in 1 .. Len(u) + Len(t) : (u \o t)[i] = IF i <= Len(u) THEN u[i] ELSE t[i - Len(u)]
    BY <2>1, ConcatProperties
  <2>3. \A i \in 1 .. n + Len(t) : i <= n => i \in 1 .. n
    BY <1>1
  <2> QED
    BY <2>1, <2>2, <2>3 DEF u
<1> HIDE DEF l, r
<1>9. \A i \in 1 .. Len(l) : l[i] = r[i]
  <2> SUFFICES ASSUME NEW i \in 1 .. n + Len(t) PROVE l[i] = r[i]
    BY <1>6
  <2>1. i \in 1 .. N /\ (i <= n <=> i \notin n + 1 .. n + Len(t))
    BY <1>1
  <2>2. o[i] = IF i \in n + 1 .. n + Len(t) THEN t[i - n] ELSE s[i]
    BY <1>2, <2>1
  <2> QED
    BY <1>6, <1>8, <2>1, <2>2
<1>10. l = r
  BY <1>6, <1>8, <1>9, SeqEqual
<1> QED
  BY <1>5, <1>10 DEF o, l, r

-----------------------------------------------------------------------------
(* The valid records of a block are in its memory.                         *)

\* A block's valid records are in its memory.
Sized == [mem : Memory \cup {NULL}, size : Nat]
Readable(b) == b.mem # NULL => b.size <= Len(memory[b.mem])

\* The valid records of a block, in a queue or in hands, are in its memory; but
\* the last worker and the lead queue give blocks their full size back, so the
\* source may have a block that is larger than what its memory holds.
Sizes ==
  /\ memory \in [Memory -> Seq(Records)]
  /\ queue \in [0 .. Last - 1 -> Seq(Sized)] /\ current \in [Workers -> Sized]
  /\ \A q \in 1 .. Last - 1 : \A k \in 1 .. Len(queue[q]) : Readable(queue[q][k])
  /\ \A w \in 2 .. Last : Holds(w) => Readable(current[w])

\* Memory is written over, never cut short.
Grows ==
  /\ memory' \in [Memory -> Seq(Records)]
  /\ \A m \in Memory : Len(memory[m]) <= Len(memory'[m])

\* What a block can be read for it still can.
LEMMA GrowsReadable ==
  ASSUME memory \in [Memory -> Seq(Records)], Grows, NEW b \in Sized, Readable(b)
  PROVE  b.mem # NULL => b.size <= Len(memory'[b.mem])
<1> SUFFICES ASSUME b.mem # NULL PROVE b.size <= Len(memory'[b.mem])
  OBVIOUS
<1>1. b.mem \in Memory /\ b.size \in Nat
  BY DEF Sized
<1>2. Len(memory[b.mem]) \in Nat /\ Len(memory'[b.mem]) \in Nat
  <2>1. memory[b.mem] \in Seq(Records) /\ memory'[b.mem] \in Seq(Records)
    BY <1>1 DEF Grows
  <2> QED
    BY <2>1
<1>3. b.size <= Len(memory[b.mem]) /\ Len(memory[b.mem]) <= Len(memory'[b.mem])
  BY <1>1 DEF Readable, Grows
<1> QED
  BY <1>1, <1>2, <1>3

\* Sizes after a Produce.
LEMMA ProduceSizes ==
  ASSUME Shape, Sizes, Grows, NEW w \in Workers, NEW b \in Sized, Produce(w, b), layout' = layout,
         UNCHANGED current \/ current' = [current EXCEPT ![w] = b],
         Out(w) # 0 /\ b.mem # NULL => b.size <= Len(memory'[b.mem]),
         ~Holds(w)',
         \A v \in Workers \ {w} : Holds(v)' = Holds(v)
  PROVE  Sizes'
<1> DEFINE o == Out(w)
<1>1. Last' = Last /\ Workers' = Workers /\ Last \in Nat /\ Workers = 1 .. Last
  BY DEF Last, Workers, Shape
<1>2. current' \in [Workers -> Sized] /\ \A v \in Workers \ {w} : current'[v] = current[v]
  <2>1. current \in [Workers -> Sized]
    BY DEF Sizes
  <2> QED
    BY <2>1
<1>3. queue' = [queue EXCEPT ![o] = Append(@, b)] /\ o \in 0 .. Last - 1
  BY QueuesExist DEF Produce, Shape
<1> HIDE DEF o
<1>4. queue \in [0 .. Last - 1 -> Seq(Sized)]
  BY DEF Sizes
<1>5. Append(queue[o], b) \in Seq(Sized)
  BY <1>3, <1>4
<1>6. queue' \in [0 .. Last - 1 -> Seq(Sized)]
  BY <1>3, <1>4, <1>5
<1>7. memory \in [Memory -> Seq(Records)]
  BY DEF Sizes
<1>8. ASSUME NEW q \in 1 .. Last - 1, NEW k \in 1 .. Len(queue'[q]) PROVE Readable(queue[q][k])'
  <2>1. q \in 0 .. Last - 1
    BY <1>1
  <2>2. queue[q] \in Seq(Sized)
    BY <1>4, <2>1
  <2>3. CASE q # o
    <3>1. queue'[q] = queue[q]
      BY <1>3, <1>4, <2>1, <2>3
    <3>2. queue[q][k] \in Sized /\ Readable(queue[q][k])
      BY <2>2, <3>1 DEF Sizes
    <3> QED
      BY <1>7, <3>1, <3>2, GrowsReadable DEF Readable
  <2>4. CASE q = o
    <3>1. queue'[q] = Append(queue[q], b)
      BY <1>3, <1>4, <2>1, <2>4
    <3>2. CASE k = Len(queue[q]) + 1
      <4>1. queue'[q][k] = b /\ Out(w) # 0
        BY <2>2, <2>4, <3>1, <3>2, <1>1 DEF o
      <4> QED
        BY <4>1 DEF Readable
    <3>3. CASE k # Len(queue[q]) + 1
      <4>1. k \in 1 .. Len(queue[q]) /\ queue'[q][k] = queue[q][k]
        BY <2>2, <3>1, <3>3
      <4>2. queue[q][k] \in Sized /\ Readable(queue[q][k])
        BY <2>2, <4>1 DEF Sizes
      <4> QED
        BY <1>7, <4>1, <4>2, GrowsReadable DEF Readable
    <3> QED
      BY <3>2, <3>3
  <2> QED
    BY <2>3, <2>4
<1>9. ASSUME NEW v \in 2 .. Last, Holds(v)' PROVE Readable(current[v])'
  <2>1. v \in Workers \ {w}
    BY <1>1, <1>9
  <2>2. Holds(v) /\ current'[v] = current[v] /\ current[v] \in Sized
    BY <1>2, <1>9, <2>1 DEF Sizes
  <2>3. Readable(current[v])
    BY <2>2 DEF Sizes
  <2> QED
    BY <1>7, <2>2, <2>3, GrowsReadable DEF Readable
<1>10. memory' \in [Memory -> Seq(Records)]
  BY DEF Grows
<1>11. (\A q \in 1 .. Last - 1 : \A k \in 1 .. Len(queue[q]) : Readable(queue[q][k]))'
  BY <1>1, <1>8
<1>12. (\A v \in 2 .. Last : Holds(v) => Readable(current[v]))'
  BY <1>1, <1>9
<1> QED
  BY <1>1, <1>2, <1>6, <1>10, <1>11, <1>12 DEF Sizes

\* Sizes after a Consume.
LEMMA ConsumeSizes ==
  ASSUME Shape, Sizes, memory' = memory, NEW w \in Workers, Consume(w), layout' = layout,
         \A v \in Workers \ {w} : Holds(v)' = Holds(v)
  PROVE  Sizes'
<1> DEFINE i == In(w)
<1>1. Last' = Last /\ Workers' = Workers /\ Last \in Nat /\ Workers = 1 .. Last
  BY DEF Last, Workers, Shape
<1>2. /\ queue[i] # <<>> /\ current' = [current EXCEPT ![w] = Head(queue[i])]
      /\ queue' = [queue EXCEPT ![i] = Tail(@)] /\ i \in 0 .. Last - 1
      /\ w # 1 => i \in 1 .. Last - 1
  BY <1>1, QueuesExist DEF Consume, Shape, In
<1> HIDE DEF i
<1>3. queue \in [0 .. Last - 1 -> Seq(Sized)] /\ current \in [Workers -> Sized]
  BY DEF Sizes
<1>4. /\ Tail(queue[i]) \in Seq(Sized) /\ Head(queue[i]) \in Sized /\ Head(queue[i]) = queue[i][1]
      /\ 1 \in 1 .. Len(queue[i])
      /\ \A k \in 1 .. Len(Tail(queue[i])) : Tail(queue[i])[k] = queue[i][k + 1] /\ k + 1 \in 1 .. Len(queue[i])
  <2>1. queue[i] \in Seq(Sized) /\ queue[i] # <<>>
    BY <1>2, <1>3
  <2> QED
    BY <2>1
<1>5. queue' \in [0 .. Last - 1 -> Seq(Sized)] /\ current' \in [Workers -> Sized]
  BY <1>2, <1>3, <1>4
<1>6. ASSUME NEW q \in 1 .. Last - 1, NEW k \in 1 .. Len(queue'[q]) PROVE Readable(queue[q][k])'
  <2>1. CASE q # i
    <3>1. queue'[q] = queue[q]
      BY <1>1, <1>2, <1>3, <2>1
    <3> QED
      BY <3>1 DEF Readable, Sizes
  <2>2. CASE q = i
    <3>1. queue'[q] = Tail(queue[i])
      BY <1>2, <1>3, <2>2
    <3>2. queue'[q][k] = queue[q][k + 1] /\ k + 1 \in 1 .. Len(queue[q])
      BY <1>4, <2>2, <3>1
    <3> QED
      BY <3>2 DEF Readable, Sizes
  <2> QED
    BY <2>1, <2>2
<1>7. ASSUME NEW v \in 2 .. Last, Holds(v)' PROVE Readable(current[v])'
  <2>1. v \in Workers
    BY <1>1
  <2>2. CASE v # w
    BY <1>2, <1>3, <1>7, <2>1, <2>2 DEF Readable, Sizes
  <2>3. CASE v = w
    <3>1. current'[v] = queue[i][1] /\ i \in 1 .. Last - 1
      BY <1>1, <1>2, <1>3, <1>4, <2>3
    <3> QED
      BY <1>4, <3>1 DEF Readable, Sizes
  <2> QED
    BY <2>2, <2>3
<1>8. (\A q \in 1 .. Last - 1 : \A k \in 1 .. Len(queue[q]) : Readable(queue[q][k]))'
  BY <1>1, <1>6
<1>9. (\A v \in 2 .. Last : Holds(v) => Readable(current[v]))'
  BY <1>1, <1>7
<1> QED
  BY <1>1, <1>5, <1>8, <1>9 DEF Sizes

\* Sizes when no block moves.
LEMMA QuietSizes ==
  ASSUME Sizes, UNCHANGED <<layout, queue, current, memory>>,
         \A v \in Workers : Holds(v)' => Holds(v), Last \in Nat
  PROVE  Sizes'
<1>1. Last' = Last /\ Workers' = Workers /\ 2 .. Last \subseteq Workers
  BY DEF Last, Workers
<1>2. (\A q \in 1 .. Last - 1 : \A k \in 1 .. Len(queue[q]) : Readable(queue[q][k]))'
  BY <1>1 DEF Sizes, Readable
<1>3. (\A v \in 2 .. Last : Holds(v) => Readable(current[v]))'
  BY <1>1 DEF Sizes, Readable
<1> QED
  BY <1>1, <1>2, <1>3 DEF Sizes

-----------------------------------------------------------------------------
(* The blocks on their way: what a worker has passed on, holds and will    *)
(* take, in numbers from the source, and what is in them.                  *)

\* The worker holds a block that is not poison.
HasBlock(w) == Holds(w) /\ current[w].mem # NULL

\* Worker o delivers, the workers between the source and it are Filters.
Delivers(o) ==
  /\ o \in 2 .. Last /\ layout[o] \in Outputs
  /\ \A w \in Workers : layout[w] \in Outputs => w = o
  /\ \A w \in 2 .. o - 1 : layout[w] = "Filter"

\* The source has filled g blocks: the n-th ends with record cut[n].
Cuts(g, cut) ==
  /\ cut \in [Nat -> 0 .. Len(input)]
  /\ cut[0] = 0 /\ \A n \in Nat : cut[n] <= cut[n + 1]
  /\ \A n \in Nat : n >= g => cut[n] = taken

\* A block that worker w has passed on as its n-th.
Filled(b, w, n, cut) ==
  SubSeq(memory[b.mem], 1, b.size) = Through(w, Part(cut[n - 1], cut[n]))

\* Worker w has passed on got[w] blocks, and has one more if it holds one; the
\* next in its queue are the ones after that, up to the last that the worker
\* before it has passed on, and only a poison comes behind them.
Drawn(w, got) == got[w] + (IF HasBlock(w) THEN 1 ELSE 0)
Fed(w, got, cut) ==
  /\ Drawn(w, got) <= got[w - 1] /\ got[w - 1] <= Drawn(w, got) + Len(queue[w - 1])
  /\ \A k \in 1 .. Len(queue[w - 1]) :
       /\ queue[w - 1][k].mem # NULL <=> Drawn(w, got) + k <= got[w - 1]
       /\ queue[w - 1][k].mem # NULL => Filled(queue[w - 1][k], w - 1, Drawn(w, got) + k, cut)
  /\ HasBlock(w) => Filled(current[w], w - 1, got[w] + 1, cut)
  /\ HasPoison(w) \/ Passed(w) => got[w] = got[w - 1]

\* A block that is passed on is so under every name of it.
LEMMA FilledQueue ==
  ASSUME NEW w, NEW b, NEW m, NEW d, NEW k, NEW next, NEW longer, Filled(b, w - 1, m, longer)',
         queue'[w - 1][k] = b, Drawn(w, next)' = d, m = d + k
  PROVE  Filled(queue[w - 1][k], w - 1, Drawn(w, next) + k, longer)'
<1>1. Drawn(w, next)' + k = m
  OBVIOUS
<1> QED
  BY <1>1 DEF Filled, Through, Part

LEMMA FilledCurrent ==
  ASSUME NEW w, NEW b, NEW m, NEW next, NEW longer, Filled(b, w - 1, m, longer)',
         current'[w] = b, m = next[w] + 1
  PROVE  Filled(current[w], w - 1, next[w] + 1, longer)'
BY DEF Filled, Through, Part

\* A block whose memory is left alone holds what it held.
LEMMA FilledSame ==
  ASSUME NEW b, NEW w, NEW cut, NEW longer, NEW g \in Nat, NEW n \in 1 .. g, Filled(b, w, n, cut),
         \A m \in 0 .. g : longer[m] = cut[m],
         input' = input, memory'[b.mem] = memory[b.mem]
  PROVE  Filled(b, w, n, longer)'
<1>1. n - 1 \in 0 .. g /\ n \in 0 .. g
  OBVIOUS
<1>2. longer[n - 1] = cut[n - 1] /\ longer[n] = cut[n]
  BY <1>1
<1> QED
  BY <1>2 DEF Filled, Through, Part

\* Nothing that Fed speaks of changes.
LEMMA FedSame ==
  ASSUME Last \in Nat, NEW w \in 2 .. Last, NEW got \in [1 .. Last -> Nat], NEW next \in [1 .. Last -> Nat],
         NEW cut, NEW longer, Fed(w, got, cut), Len(queue[w - 1]) \in Nat,
         queue'[w - 1] = queue[w - 1], current'[w] = current[w], input' = input,
         Holds(w)' = Holds(w), Passed(w)' => Passed(w),
         next[w] = got[w], next[w - 1] = got[w - 1],
         \A n \in 0 .. got[w - 1] : longer[n] = cut[n],
         HasBlock(w) => memory'[current[w].mem] = memory[current[w].mem],
         \A k \in 1 .. Len(queue[w - 1]) : queue[w - 1][k].mem # NULL =>
           memory'[queue[w - 1][k].mem] = memory[queue[w - 1][k].mem]
  PROVE  Fed(w, next, longer)'
<1> DEFINE q == queue[w - 1]
<1>1. got[w] \in Nat /\ got[w - 1] \in Nat /\ w \in 1 .. Last /\ w - 1 \in 1 .. Last
  OBVIOUS
<1>2. HasBlock(w)' = HasBlock(w) /\ HasPoison(w)' = HasPoison(w)
  BY DEF HasBlock, HasPoison
<1>3. PICK d \in Nat : d = Drawn(w, got) /\ (HasBlock(w) => d = got[w] + 1)
  BY <1>1 DEF Drawn
<1>4. Drawn(w, next)' = d
  BY <1>2, <1>3 DEF Drawn
<1>5. /\ d <= got[w - 1] /\ got[w - 1] <= d + Len(q)
      /\ \A k \in 1 .. Len(q) : q[k].mem # NULL <=> d + k <= got[w - 1]
      /\ \A k \in 1 .. Len(q) : q[k].mem # NULL => Filled(q[k], w - 1, d + k, cut)
      /\ HasBlock(w) => Filled(current[w], w - 1, got[w] + 1, cut)
      /\ HasPoison(w) \/ Passed(w) => got[w] = got[w - 1]
  BY <1>3 DEF Fed
<1>6. PICK g \in Nat : g = got[w - 1] /\ \A m \in 0 .. g : longer[m] = cut[m]
  BY <1>1
<1>10. (\A k \in 1 .. Len(queue[w - 1]) :
       /\ queue[w - 1][k].mem # NULL <=> Drawn(w, next) + k <= next[w - 1]
       /\ queue[w - 1][k].mem # NULL => Filled(queue[w - 1][k], w - 1, Drawn(w, next) + k, longer))'
  <2> SUFFICES ASSUME NEW k \in 1 .. Len(queue'[w - 1])
               PROVE  /\ queue'[w - 1][k].mem # NULL <=> Drawn(w, next)' + k <= next[w - 1]
                      /\ queue'[w - 1][k].mem # NULL =>
                           Filled(queue[w - 1][k], w - 1, Drawn(w, next) + k, longer)'
    OBVIOUS
  <2>1. k \in 1 .. Len(q) /\ queue'[w - 1][k] = q[k]
    OBVIOUS
  <2>2. q[k].mem # NULL <=> d + k <= got[w - 1]
    BY <1>5, <2>1
  <2>3. ASSUME q[k].mem # NULL
        PROVE  Filled(queue[w - 1][k], w - 1, Drawn(w, next) + k, longer)'
    <3>1. PICK b, m : b = q[k] /\ m = d + k
      OBVIOUS
    <3>2. m \in 1 .. g
      <4>1. d + k <= g
        BY <1>6, <2>2, <2>3
      <4>2. k \in Nat /\ k >= 1
        BY <2>1
      <4> HIDE DEF q
      <4> QED
        BY <3>1, <4>1, <4>2
    <3>3. Filled(b, w - 1, m, cut) /\ memory'[b.mem] = memory[b.mem]
      BY <1>5, <2>1, <2>3, <3>1
    <3>4. Filled(b, w - 1, m, longer)'
      BY <1>6, <3>2, <3>3, FilledSame
    <3> QED
      BY <1>4, <2>1, <3>1, <3>4, FilledQueue
  <2> QED
    BY <1>4, <2>1, <2>2, <2>3
<1>11. (HasBlock(w) => Filled(current[w], w - 1, next[w] + 1, longer))'
  <2> SUFFICES ASSUME HasBlock(w)
               PROVE  Filled(current[w], w - 1, next[w] + 1, longer)'
    BY <1>2
  <2>1. PICK b, m : b = current[w] /\ m = got[w] + 1
    OBVIOUS
  <2>2. m \in 1 .. g
    BY <1>1, <1>3, <1>5, <1>6, <2>1
  <2>3. Filled(b, w - 1, m, cut) /\ memory'[b.mem] = memory[b.mem]
    BY <1>5, <2>1
  <2>4. Filled(b, w - 1, m, longer)'
    BY <1>6, <2>2, <2>3, FilledSame
  <2>5. current'[w] = b /\ m = next[w] + 1
    BY <2>1
  <2> QED
    BY <2>4, <2>5, FilledCurrent
<1>12. (Drawn(w, next) <= next[w - 1] /\ next[w - 1] <= Drawn(w, next) + Len(queue[w - 1]))'
  BY <1>4, <1>5
<1>13. (HasPoison(w) \/ Passed(w) => next[w] = next[w - 1])'
  BY <1>2, <1>5
<1> QED
  BY <1>10, <1>11, <1>12, <1>13 DEF Fed

\* A worker takes the next block, or the poison behind the last one.
LEMMA FedConsume ==
  ASSUME Shape, NEW w \in 2 .. Last, NEW got \in [1 .. Last -> Nat], NEW cut,
         Fed(w, got, cut), Consume(w), layout' = layout,
         memory' = memory, input' = input, ~Holds(w), Holds(w)', ~Passed(w)'
  PROVE  Fed(w, got, cut)'
<1>1. Last \in Nat /\ w \in Workers /\ w - 1 \in 0 .. Last - 1 /\ In(w) = w - 1
      /\ w \in 1 .. Last /\ w - 1 \in 1 .. Last
  BY DEF Shape, Workers, In
<1>2. queue[w - 1] # <<>> /\ queue' = [queue EXCEPT ![w - 1] = Tail(@)]
      /\ current' = [current EXCEPT ![w] = Head(queue[w - 1])]
  BY <1>1 DEF Consume
<1>3. /\ Len(queue[w - 1]) \in Nat /\ Len(queue[w - 1]) >= 1
      /\ Len(queue'[w - 1]) = Len(queue[w - 1]) - 1
      /\ Head(queue[w - 1]) = queue[w - 1][1]
      /\ \A k \in 1 .. Len(queue'[w - 1]) : queue'[w - 1][k] = queue[w - 1][k + 1]
  BY <1>1, <1>2, Taken
<1>4. PICK q, n : q = queue[w - 1] /\ n = Len(q) /\ n \in Nat /\ n >= 1
  BY <1>3
<1>5. current'[w] = q[1]
  BY <1>1, <1>2, <1>3, <1>4 DEF Shape
<1>6. PICK d \in Nat, g \in Nat : d = got[w] /\ g = got[w - 1]
  BY <1>1
<1>7. ~HasBlock(w) /\ Drawn(w, got) = d
  BY <1>6 DEF HasBlock, Drawn
<1>8. /\ d <= g /\ g <= d + n
      /\ \A k \in 1 .. n : q[k].mem # NULL <=> d + k <= g
      /\ \A k \in 1 .. n : q[k].mem # NULL => Filled(q[k], w - 1, d + k, cut)
  BY <1>4, <1>6, <1>7 DEF Fed
<1>9. /\ HasBlock(w)' <=> q[1].mem # NULL
      /\ HasPoison(w)' <=> q[1].mem = NULL
  BY <1>5 DEF HasBlock, HasPoison
<1>10. q[1].mem # NULL <=> d + 1 <= g
  BY <1>4, <1>8
<1>11. PICK e \in Nat : e = Drawn(w, got)' /\ e = IF d + 1 <= g THEN d + 1 ELSE d
  BY <1>6, <1>9, <1>10 DEF Drawn
<1>12. e <= g /\ g <= e + (n - 1) /\ (d + 1 > g => d = g)
  <2>1. n \in Nat /\ n >= 1 /\ d <= g /\ g <= d + n
    BY <1>4, <1>8
  <2>2. CASE d + 1 <= g
    BY <1>11, <2>1, <2>2
  <2>3. CASE ~(d + 1 <= g)
    BY <1>11, <2>1, <2>3
  <2> QED
    BY <2>2, <2>3
<1>13. ASSUME NEW k \in 1 .. n - 1
       PROVE  /\ k + 1 \in 1 .. n
              /\ q[k + 1].mem # NULL <=> e + k <= g
              /\ q[k + 1].mem # NULL => d + (k + 1) = e + k
  <2>1. k + 1 \in 1 .. n
    BY <1>4
  <2>2. q[k + 1].mem # NULL <=> d + (k + 1) <= g
    BY <1>8, <2>1
  <2> QED
    BY <1>8, <1>11, <2>1, <2>2
<1>14. \A k \in 1 .. n - 1 : q[k + 1].mem # NULL => Filled(q[k + 1], w - 1, e + k, cut)
  <2> SUFFICES ASSUME NEW k \in 1 .. n - 1, q[k + 1].mem # NULL
               PROVE  Filled(q[k + 1], w - 1, e + k, cut)
    OBVIOUS
  <2>1. k + 1 \in 1 .. n /\ d + (k + 1) = e + k
    BY <1>13
  <2>2. Filled(q[k + 1], w - 1, d + (k + 1), cut)
    BY <1>8, <2>1
  <2> QED
    BY <2>1, <2>2
<1>15. \A b, m : Filled(b, w - 1, m, cut) => Filled(b, w - 1, m, cut)'
  BY DEF Filled, Through, Part
<1>16. (\A k \in 1 .. Len(queue[w - 1]) :
       /\ queue[w - 1][k].mem # NULL <=> Drawn(w, got) + k <= got[w - 1]
       /\ queue[w - 1][k].mem # NULL => Filled(queue[w - 1][k], w - 1, Drawn(w, got) + k, cut))'
  <2> SUFFICES ASSUME NEW k \in 1 .. n - 1
               PROVE  (/\ queue[w - 1][k].mem # NULL <=> Drawn(w, got) + k <= got[w - 1]
                       /\ queue[w - 1][k].mem # NULL => Filled(queue[w - 1][k], w - 1, Drawn(w, got) + k, cut))'
    BY <1>3, <1>4
  <2>1. queue'[w - 1][k] = q[k + 1]
    BY <1>3, <1>4
  <2>2. q[k + 1].mem # NULL => Filled(q[k + 1], w - 1, e + k, cut)'
    BY <1>14, <1>15
  <2> QED
    BY <1>6, <1>11, <1>13, <2>1, <2>2 DEF Filled, Through
<1>17. (HasBlock(w) => Filled(current[w], w - 1, got[w] + 1, cut))'
  <2>1. HasBlock(w)' => Filled(q[1], w - 1, d + 1, cut)
    BY <1>4, <1>8, <1>9
  <2>2. HasBlock(w)' => Filled(q[1], w - 1, d + 1, cut)'
    BY <1>15, <2>1
  <2> QED
    BY <1>5, <1>6, <2>2 DEF Filled, Through
<1>18. (Drawn(w, got) <= got[w - 1] /\ got[w - 1] <= Drawn(w, got) + Len(queue[w - 1]))'
  BY <1>3, <1>4, <1>6, <1>11, <1>12
<1>19. (HasPoison(w) \/ Passed(w) => got[w] = got[w - 1])'
  BY <1>6, <1>9, <1>10, <1>12
<1> QED
  BY <1>16, <1>17, <1>18, <1>19 DEF Fed

\* A worker passes its block on.
LEMMA FedOwn ==
  ASSUME Last \in Nat, NEW w \in 2 .. Last, NEW got \in [1 .. Last -> Nat], NEW next \in [1 .. Last -> Nat],
         NEW cut, Fed(w, got, cut), Len(queue[w - 1]) \in Nat,
         HasBlock(w), ~Holds(w)', ~Passed(w)', queue'[w - 1] = queue[w - 1], input' = input,
         next[w] = got[w] + 1, next[w - 1] = got[w - 1],
         \A k \in 1 .. Len(queue[w - 1]) : queue[w - 1][k].mem # NULL =>
           memory'[queue[w - 1][k].mem] = memory[queue[w - 1][k].mem]
  PROVE  Fed(w, next, cut)'
<1>1. PICK q, n : q = queue[w - 1] /\ n = Len(q) /\ n \in Nat
  OBVIOUS
<1>2. w \in 1 .. Last /\ w - 1 \in 1 .. Last
  OBVIOUS
<1>3. PICK d \in Nat, g \in Nat : d = got[w] + 1 /\ g = got[w - 1]
  BY <1>2
<1>4. Drawn(w, got) = d /\ ~HasBlock(w)' /\ ~HasPoison(w)'
  BY <1>3 DEF Drawn, HasBlock, HasPoison
<1>5. Drawn(w, next)' = d
  BY <1>3, <1>4 DEF Drawn
<1>6. /\ d <= g /\ g <= d + n
      /\ \A k \in 1 .. n : q[k].mem # NULL <=> d + k <= g
      /\ \A k \in 1 .. n : q[k].mem # NULL => Filled(q[k], w - 1, d + k, cut)
  BY <1>1, <1>3, <1>4 DEF Fed
<1>7. (\A k \in 1 .. Len(queue[w - 1]) :
       /\ queue[w - 1][k].mem # NULL <=> Drawn(w, next) + k <= next[w - 1]
       /\ queue[w - 1][k].mem # NULL => Filled(queue[w - 1][k], w - 1, Drawn(w, next) + k, cut))'
  <2> SUFFICES ASSUME NEW k \in 1 .. n
               PROVE  (/\ queue[w - 1][k].mem # NULL <=> Drawn(w, next) + k <= next[w - 1]
                       /\ queue[w - 1][k].mem # NULL => Filled(queue[w - 1][k], w - 1, Drawn(w, next) + k, cut))'
    BY <1>1
  <2>1. ASSUME q[k].mem # NULL PROVE Filled(q[k], w - 1, d + k, cut)'
    <3>1. PICK m \in 1 .. g : m = d + k
      BY <1>6, <2>1
    <3>2. Filled(q[k], w - 1, m, cut)
      BY <1>6, <2>1, <3>1
    <3>3. Filled(q[k], w - 1, m, cut)'
      BY <1>1, <2>1, <3>2, FilledSame
    <3> QED
      BY <3>1, <3>3
  <2> QED
    BY <1>1, <1>3, <1>5, <1>6, <2>1 DEF Filled, Through
<1>8. (Drawn(w, next) <= next[w - 1] /\ next[w - 1] <= Drawn(w, next) + Len(queue[w - 1]))'
  BY <1>1, <1>3, <1>5, <1>6
<1> QED
  BY <1>4, <1>7, <1>8 DEF Fed

\* A worker sends the poison on.
LEMMA FedOwnPoison ==
  ASSUME Last \in Nat, NEW w \in 2 .. Last, NEW got \in [1 .. Last -> Nat],
         NEW cut, Fed(w, got, cut), Len(queue[w - 1]) \in Nat,
         HasPoison(w), ~Holds(w)', queue'[w - 1] = queue[w - 1],
         input' = input, memory' = memory
  PROVE  Fed(w, got, cut)'
<1>1. Drawn(w, got)' = Drawn(w, got) /\ ~HasBlock(w)' /\ got[w] = got[w - 1]
  BY DEF Drawn, HasBlock, HasPoison, Fed
<1>2. \A b, m : Filled(b, w - 1, m, cut) => Filled(b, w - 1, m, cut)'
  BY DEF Filled, Through, Part
<1>3. (\A k \in 1 .. Len(queue[w - 1]) :
       /\ queue[w - 1][k].mem # NULL <=> Drawn(w, got) + k <= got[w - 1]
       /\ queue[w - 1][k].mem # NULL => Filled(queue[w - 1][k], w - 1, Drawn(w, got) + k, cut))'
  <2>1. PICK d, q : d = Drawn(w, got) /\ q = queue[w - 1]
    OBVIOUS
  <2>2. \A k \in 1 .. Len(q) : /\ q[k].mem # NULL <=> d + k <= got[w - 1]
                               /\ q[k].mem # NULL => Filled(q[k], w - 1, d + k, cut)
    BY <2>1 DEF Fed
  <2>3. \A k \in 1 .. Len(q) : q[k].mem # NULL => Filled(q[k], w - 1, d + k, cut)'
    BY <1>2, <2>2
  <2> QED
    BY <1>1, <2>1, <2>2, <2>3 DEF Filled, Through
<1>4. (Drawn(w, got) <= got[w - 1] /\ got[w - 1] <= Drawn(w, got) + Len(queue[w - 1]))'
  BY <1>1 DEF Fed
<1> QED
  BY <1>1, <1>3, <1>4 DEF Fed

\* Block b comes behind the n blocks q in the queue of worker w.
Joined(w, q, n, b) ==
  /\ Len(queue'[w - 1]) = n + 1 /\ queue'[w - 1][n + 1] = b
  /\ \A k \in 1 .. n : /\ q[k].mem # NULL /\ queue'[w - 1][k] = q[k]
                       /\ memory'[q[k].mem] = memory[q[k].mem]

\* The first g blocks end where they did.
Agree(g, cut, longer) == \A m \in 0 .. g : longer[m] = cut[m]

\* Worker w - 1 has passed on one block more.
OneMore(w, got, next) == next[w] = got[w] /\ next[w - 1] = got[w - 1] + 1

\* Block b, passed on by worker w, now holds the records from m + 1 to n.
Holding(b, w, m, n) == SubSeq(memory'[b.mem], 1, b.size) = Through(w, Part(m, n))

\* A worker is passed a block.
LEMMA FedMore ==
  ASSUME Last \in Nat, NEW w \in 2 .. Last, NEW got \in [1 .. Last -> Nat], NEW next \in [1 .. Last -> Nat],
         NEW cut, NEW longer, Fed(w, got, cut), Len(queue[w - 1]) \in Nat,
         NEW b, b.mem # NULL, Joined(w, queue[w - 1], Len(queue[w - 1]), b),
         current'[w] = current[w], Holds(w)' = Holds(w), input' = input,
         ~HasPoison(w), ~Passed(w)',
         OneMore(w, got, next),
         Holding(b, w - 1, longer[got[w - 1]], longer[got[w - 1] + 1]),
         Agree(got[w - 1], cut, longer),
         HasBlock(w) => memory'[current[w].mem] = memory[current[w].mem]
  PROVE  Fed(w, next, longer)'
<1>1. w \in 1 .. Last /\ w - 1 \in 1 .. Last
  OBVIOUS
<1>12. PICK q : q = queue[w - 1]
  OBVIOUS
<1>15. PICK n \in Nat : n = Len(q)
  BY <1>12
<1>0. /\ n \in Nat
      /\ Len(queue'[w - 1]) = n + 1 /\ queue'[w - 1][n + 1] = b
      /\ \A k \in 1 .. n : q[k].mem # NULL /\ queue'[w - 1][k] = q[k] /\ memory'[q[k].mem] = memory[q[k].mem]
  BY <1>12, <1>15 DEF Joined
<1>2. HasBlock(w)' = HasBlock(w) /\ ~HasPoison(w)'
  BY DEF HasBlock, HasPoison
<1>3. PICK d \in Nat, g \in Nat : d = Drawn(w, got) /\ g = got[w - 1]
                                  /\ (HasBlock(w) => d = got[w] + 1)
  BY <1>1 DEF Drawn
<1>4. Drawn(w, next)' = d /\ next[w - 1] = g + 1
  BY <1>2, <1>3 DEF Drawn, OneMore
<1>5. /\ d <= g /\ g <= d + n
  BY <1>3, <1>12, <1>15 DEF Fed
<1>10. \A k \in 1 .. n : q[k].mem # NULL <=> d + k <= g
  BY <1>3, <1>12, <1>15 DEF Fed
<1>11. /\ \A k \in 1 .. n : q[k].mem # NULL => Filled(q[k], w - 1, d + k, cut)
       /\ HasBlock(w) => Filled(current[w], w - 1, got[w] + 1, cut)
  BY <1>3, <1>12, <1>15 DEF Fed
<1>14. \A m \in 0 .. g : longer[m] = cut[m]
  BY <1>3 DEF Agree
<1>6. g = d + n
  <2>1. CASE n = 0
    BY <1>0, <1>5, <2>1
  <2>2. CASE n # 0
    <3>1. n \in 1 .. n
      BY <1>0, <2>2
    <3>2. d + n <= g
      BY <1>0, <1>10, <3>1
    <3> QED
      BY <1>0, <1>5, <3>2
  <2> QED
    BY <2>1, <2>2
<1>7. (\A k \in 1 .. Len(queue[w - 1]) :
       /\ queue[w - 1][k].mem # NULL <=> Drawn(w, next) + k <= next[w - 1]
       /\ queue[w - 1][k].mem # NULL => Filled(queue[w - 1][k], w - 1, Drawn(w, next) + k, longer))'
  <2> SUFFICES ASSUME NEW k \in 1 .. n + 1
               PROVE  (/\ queue[w - 1][k].mem # NULL <=> Drawn(w, next) + k <= next[w - 1]
                       /\ queue[w - 1][k].mem # NULL => Filled(queue[w - 1][k], w - 1, Drawn(w, next) + k, longer))'
    BY <1>0
  <2>1. PICK m \in Nat : m = d + k
    OBVIOUS
  <2>2. queue'[w - 1][k].mem # NULL /\ Filled(queue[w - 1][k], w - 1, Drawn(w, next) + k, longer)'
    <3>1. CASE k = n + 1
      <4>0. k = n + 1 /\ g = d + n /\ m = d + k
        BY <1>6, <2>1, <3>1
      <4>1. m = g + 1 /\ m - 1 = g
        BY <4>0
      <4>2. queue'[w - 1][k] = b
        BY <1>0, <3>1
      <4>3. Drawn(w, next)' = d /\ m = d + k
        BY <1>4, <2>1
      <4>4. SubSeq(memory'[b.mem], 1, b.size) = Through(w - 1, Part(longer[m - 1], longer[m]))
        BY <1>3, <4>1 DEF Holding
      <4>5. Filled(b, w - 1, m, longer)'
        BY <4>4 DEF Filled, Through, Part
      <4> QED
        BY <4>2, <4>3, <4>5, FilledQueue
    <3>2. CASE k # n + 1
      <4>1. k \in 1 .. n /\ m \in 1 .. g
        BY <1>6, <2>1, <3>2
      <4>2. Filled(q[k], w - 1, m, cut) /\ memory'[q[k].mem] = memory[q[k].mem]
        BY <1>0, <1>11, <2>1, <4>1
      <4>3. Filled(q[k], w - 1, m, longer)'
        BY <1>14, <4>1, <4>2, FilledSame
      <4>4. queue'[w - 1][k] = q[k] /\ q[k].mem # NULL
        BY <1>0, <4>1
      <4> QED
        BY <1>4, <2>1, <4>3, <4>4, FilledQueue
    <3> QED
      BY <3>1, <3>2
  <2>3. d + k <= g + 1
    BY <1>0, <1>6
  <2>4. Drawn(w, next)' + k <= next[w - 1]
    BY <1>4, <2>3
  <2> QED
    BY <2>2, <2>4
<1>8. (HasBlock(w) => Filled(current[w], w - 1, next[w] + 1, longer))'
  <2> USE DEF OneMore
  <2> SUFFICES ASSUME HasBlock(w) PROVE Filled(current[w], w - 1, next[w] + 1, longer)'
    BY <1>2
  <2>0. d <= g /\ d \in 1 .. g /\ d = got[w] + 1
    <3>1. got[w] \in Nat
      BY <1>1
    <3>2. d = got[w] + 1
      BY <1>3
    <3> QED
      BY <1>5, <3>1, <3>2
  <2>1. PICK m \in 1 .. g, c \in {current[w]} : c = current[w] /\ m = got[w] + 1
    BY <2>0
  <2>2. Filled(c, w - 1, m, cut) /\ memory'[c.mem] = memory[c.mem]
    BY <1>11, <2>1
  <2>3. Filled(c, w - 1, m, longer)'
    BY <1>14, <2>1, <2>2, FilledSame
  <2>4. next[w] = got[w]
    BY DEF OneMore
  <2>5. current'[w] = c /\ m = next[w] + 1
    BY <2>1, <2>4
  <2> QED
    BY <2>3, <2>5, FilledCurrent
<1>9. (Drawn(w, next) <= next[w - 1] /\ next[w - 1] <= Drawn(w, next) + Len(queue[w - 1]))'
  <2>1. n \in Nat /\ Len(queue'[w - 1]) = n + 1
    BY <1>0
  <2>2. d <= g + 1 /\ g + 1 <= d + (n + 1)
    BY <1>6, <2>1
  <2> QED
    BY <1>4, <2>1, <2>2
<1> QED
  BY <1>2, <1>7, <1>8, <1>9 DEF Fed

\* A worker is sent the poison.
LEMMA FedPoison ==
  ASSUME Last \in Nat, NEW w \in 2 .. Last, NEW got \in [1 .. Last -> Nat],
         NEW cut, Fed(w, got, cut), Len(queue[w - 1]) \in Nat,
         NEW b, b.mem = NULL, Joined(w, queue[w - 1], Len(queue[w - 1]), b),
         current'[w] = current[w], Holds(w)' = Holds(w), input' = input, memory' = memory,
         Passed(w)' => Passed(w)
  PROVE  Fed(w, got, cut)'
<1>1. w \in 1 .. Last /\ w - 1 \in 1 .. Last
  OBVIOUS
<1>12. PICK q, n : q = queue[w - 1] /\ n = Len(q) /\ n \in Nat
  OBVIOUS
<1>0. /\ n \in Nat
      /\ Len(queue'[w - 1]) = n + 1 /\ queue'[w - 1][n + 1] = b
      /\ \A k \in 1 .. n : q[k].mem # NULL /\ queue'[w - 1][k] = q[k] /\ memory'[q[k].mem] = memory[q[k].mem]
  BY <1>12 DEF Joined
<1>2. HasBlock(w)' = HasBlock(w) /\ HasPoison(w)' = HasPoison(w)
  BY DEF HasBlock, HasPoison
<1>3. PICK d \in Nat, g \in Nat : d = Drawn(w, got) /\ g = got[w - 1]
  BY <1>1 DEF Drawn
<1>4. Drawn(w, got)' = d
  BY <1>2, <1>3 DEF Drawn
<1>5. /\ d <= g /\ g <= d + n
      /\ \A k \in 1 .. n : q[k].mem # NULL <=> d + k <= g
      /\ \A k \in 1 .. n : q[k].mem # NULL => Filled(q[k], w - 1, d + k, cut)
      /\ HasBlock(w) => Filled(current[w], w - 1, got[w] + 1, cut)
      /\ HasPoison(w) \/ Passed(w) => got[w] = got[w - 1]
  BY <1>3, <1>12 DEF Fed
<1>6. \A c, m : Filled(c, w - 1, m, cut) => Filled(c, w - 1, m, cut)'
  BY DEF Filled, Through, Part
<1>7. (\A k \in 1 .. Len(queue[w - 1]) :
       /\ queue[w - 1][k].mem # NULL <=> Drawn(w, got) + k <= got[w - 1]
       /\ queue[w - 1][k].mem # NULL => Filled(queue[w - 1][k], w - 1, Drawn(w, got) + k, cut))'
  <2> SUFFICES ASSUME NEW k \in 1 .. n + 1
               PROVE  (/\ queue[w - 1][k].mem # NULL <=> Drawn(w, got) + k <= got[w - 1]
                       /\ queue[w - 1][k].mem # NULL => Filled(queue[w - 1][k], w - 1, Drawn(w, got) + k, cut))'
    BY <1>0
  <2>1. CASE k = n + 1
    <3>1. queue'[w - 1][k].mem = NULL
      BY <1>0, <2>1
    <3>2. ~(d + k <= g)
      BY <1>0, <1>5, <2>1
    <3> QED
      BY <1>3, <1>4, <3>1, <3>2
  <2>2. CASE k # n + 1
    <3>1. k \in 1 .. n
      BY <1>0, <2>2
    <3>2. queue'[w - 1][k] = q[k] /\ (q[k].mem # NULL <=> d + k <= g)
          /\ Filled(q[k], w - 1, d + k, cut)'
      BY <1>0, <1>5, <1>6, <1>12, <3>1
    <3> QED
      BY <1>3, <1>4, <3>2 DEF Filled, Through
  <2> QED
    BY <2>1, <2>2
<1>8. (HasBlock(w) => Filled(current[w], w - 1, got[w] + 1, cut))'
  <2>1. PICK c, m : c = current[w] /\ m = got[w] + 1
    OBVIOUS
  <2>2. HasBlock(w) => Filled(c, w - 1, m, cut)'
    BY <1>5, <1>6, <2>1
  <2> QED
    BY <1>2, <2>1, <2>2 DEF Filled, Through
<1>9. (Drawn(w, got) <= got[w - 1] /\ got[w - 1] <= Drawn(w, got) + Len(queue[w - 1]))'
  BY <1>0, <1>3, <1>4, <1>5
<1>10. (HasPoison(w) \/ Passed(w) => got[w] = got[w - 1])'
  BY <1>2, <1>5
<1> QED
  BY <1>7, <1>8, <1>9, <1>10 DEF Fed

-----------------------------------------------------------------------------
(* All of the way, and how a step of one worker changes it.                *)

\* The blocks on their way from the source to worker o, and what it has
\* delivered.
Flow(o, got, cut) ==
  /\ Delivers(o)
  /\ got \in [1 .. Last -> Nat] /\ \A w \in 1 .. o : got[w] <= got[1]
  /\ Cuts(got[1], cut)
  /\ \A w \in 2 .. o : Fed(w, got, cut)
  /\ SubSeq(file, 1, offset) = Through(o - 1, Part(0, cut[got[o]]))

\* A step of worker w, which changes no memory that another one or a queue has.
StepOf(w) ==
  /\ UNCHANGED <<layout, input>>
  /\ \A v \in Workers \ {w} :
       current'[v] = current[v] /\ Holds(v)' = Holds(v) /\ Passed(v)' = Passed(v)
Untouched(w) ==
  /\ \A v \in Workers \ {w} : HasBlock(v) => memory'[current[v].mem] = memory[current[v].mem]
  /\ \A q \in 0 .. Last - 1 : \A k \in 1 .. Len(queue[q]) : queue[q][k].mem # NULL =>
       memory'[queue[q][k].mem] = memory[queue[q][k].mem]

\* A block belongs to its worker alone.
LEMMA OwnMemory ==
  ASSUME Shape, BlockOwnedOnce, Sizes, NEW w \in Workers, HasBlock(w),
         \A m \in Memory \ {current[w].mem} : memory'[m] = memory[m]
  PROVE  Untouched(w)
<1>1. DOMAIN queue = 0 .. Last - 1
  BY DEF Shape
<1>2. ASSUME NEW v \in Workers \ {w}, HasBlock(v)
      PROVE  memory'[current[v].mem] = memory[current[v].mem]
  <2>1. current[v].mem \in Memory
    BY <1>2 DEF Sizes, Sized, HasBlock
  <2>2. current[v].mem # current[w].mem
    BY <1>2 DEF BlockOwnedOnce, HasBlock
  <2> QED
    BY <2>1, <2>2
<1>3. ASSUME NEW q \in 0 .. Last - 1, NEW k \in 1 .. Len(queue[q]), queue[q][k].mem # NULL
      PROVE  memory'[queue[q][k].mem] = memory[queue[q][k].mem]
  <2>1. queue[q][k].mem \in Memory
    <3>1. queue[q] \in Seq(Sized)
      BY DEF Sizes
    <3>2. queue[q][k] \in Sized
      BY <3>1
    <3> QED
      BY <1>3, <3>2 DEF Sized
  <2>2. queue[q][k].mem # current[w].mem
    BY <1>1 DEF BlockOwnedOnce, HasBlock
  <2> QED
    BY <2>1, <2>2
<1> QED
  BY <1>2, <1>3 DEF Untouched

\* A step of worker w does not reach the queue of worker v.
LEMMA FedOther ==
  ASSUME Shape, Sizes, NEW w \in Workers, StepOf(w), Untouched(w), NEW v \in 2 .. Last, v # w,
         NEW got \in [1 .. Last -> Nat], NEW next \in [1 .. Last -> Nat], NEW cut, NEW longer,
         Fed(v, got, cut), queue'[v - 1] = queue[v - 1],
         next[v] = got[v], next[v - 1] = got[v - 1], Agree(got[v - 1], cut, longer)
  PROVE  Fed(v, next, longer)'
<1>1. Last \in Nat /\ v \in Workers \ {w} /\ v - 1 \in 0 .. Last - 1
  BY DEF Shape, Workers
<1>2. Len(queue[v - 1]) \in Nat
  <2>1. queue[v - 1] \in Seq(Sized)
    BY <1>1 DEF Sizes
  <2> QED
    BY <2>1
<1>3. current'[v] = current[v] /\ input' = input /\ Holds(v)' = Holds(v) /\ Passed(v)' = Passed(v)
  BY <1>1 DEF StepOf
<1>4. /\ HasBlock(v) => memory'[current[v].mem] = memory[current[v].mem]
      /\ \A k \in 1 .. Len(queue[v - 1]) : queue[v - 1][k].mem # NULL =>
           memory'[queue[v - 1][k].mem] = memory[queue[v - 1][k].mem]
  BY <1>1 DEF Untouched
<1>5. \A n \in 0 .. got[v - 1] : longer[n] = cut[n]
  BY DEF Agree
<1> QED
  BY <1>1, <1>2, <1>3, <1>4, <1>5, FedSame

\* A worker takes a block.
LEMMA FlowConsume ==
  ASSUME Shape, Sizes, NEW o, NEW got, NEW cut, Flow(o, got, cut), NEW w \in Workers, StepOf(w),
         Consume(w), UNCHANGED <<taken, memory, file, offset>>, ~Holds(w), Holds(w)', ~Passed(w)'
  PROVE  Flow(o, got, cut)'
<1>1. /\ Last \in Nat /\ Last' = Last /\ Workers' = Workers /\ layout' = layout /\ input' = input
      /\ Workers = 1 .. Last /\ o \in 2 .. Last
  BY DEF Shape, StepOf, Last, Workers, Flow, Delivers
<1>2. Untouched(w)
  BY DEF Untouched
<1>3. got \in [1 .. Last -> Nat]
  BY DEF Flow
<1>4. In(w) = w - 1 /\ In(w) \in 0 .. Last - 1 /\ queue[In(w)] # <<>>
      /\ queue' = [queue EXCEPT ![In(w)] = Tail(@)]
  BY <1>1, QueuesExist DEF Consume, In
<1>5. ASSUME NEW v \in 2 .. o PROVE Fed(v, got, cut)'
  <2>1. Fed(v, got, cut) /\ v \in 2 .. Last
    BY <1>1 DEF Flow
  <2>2. CASE v = w
    BY <1>1, <1>3, <2>1, <2>2, FedConsume
  <2>3. CASE v # w
    <3>1. v - 1 \in 0 .. Last - 1 /\ v - 1 # In(w)
      BY <1>1, <1>4, <2>1, <2>3
    <3>2. queue'[v - 1] = queue[v - 1]
      BY <1>4, <3>1, Taken
    <3> QED
      BY <1>2, <1>3, <2>1, <2>3, <3>2, FedOther DEF Agree
  <2> QED
    BY <2>2, <2>3
<1>6. Delivers(o)' /\ Cuts(got[1], cut)'
  BY <1>1 DEF Flow, Delivers, Cuts
<1>7. (SubSeq(file, 1, offset) = Through(o - 1, Part(0, cut[got[o]])))'
  BY <1>1 DEF Flow, Through, Part
<1> QED
  BY <1>1, <1>3, <1>5, <1>6, <1>7 DEF Flow

\* Nothing moves, at most the file is cut to what has been written.
LEMMA FlowQuiet ==
  ASSUME Shape, Sizes, NEW o, NEW got, NEW cut, Flow(o, got, cut),
         UNCHANGED <<layout, input, queue, current, taken, memory>>,
         SubSeq(file', 1, offset') = SubSeq(file, 1, offset),
         \A v \in Workers : Holds(v)' = Holds(v) /\ Passed(v)' = Passed(v)
  PROVE  Flow(o, got, cut)'
<1>1. /\ Last \in Nat /\ Last' = Last /\ Workers' = Workers /\ Workers = 1 .. Last /\ o \in 2 .. Last
  BY DEF Shape, Last, Workers, Flow, Delivers
<1>2. got \in [1 .. Last -> Nat]
  BY DEF Flow
<1>3. ASSUME NEW v \in 2 .. o PROVE Fed(v, got, cut)'
  <2>1. Fed(v, got, cut) /\ v \in 2 .. Last /\ v \in Workers /\ v - 1 \in 0 .. Last - 1
    BY <1>1 DEF Flow
  <2>2. Len(queue[v - 1]) \in Nat
    <3>1. queue[v - 1] \in Seq(Sized)
      BY <2>1 DEF Sizes
    <3> QED
      BY <3>1
  <2> QED
    BY <1>1, <1>2, <2>1, <2>2, FedSame
<1>4. Delivers(o)' /\ Cuts(got[1], cut)'
  BY <1>1 DEF Flow, Delivers, Cuts
<1>5. (SubSeq(file, 1, offset) = Through(o - 1, Part(0, cut[got[o]])))'
  BY DEF Flow, Through, Part
<1> QED
  BY <1>1, <1>2, <1>3, <1>4, <1>5 DEF Flow

\* Behind a worker that has not sent the poison on there is none.
LEMMA NoPoisonYet ==
  ASSUME Awaiting, NEW w \in Workers, Holds(w), w # Last
  PROVE  /\ \A k \in 1 .. Len(queue[w]) : queue[w][k].mem # NULL
         /\ ~Passed(w) /\ ~Passed(w + 1) /\ ~HasPoison(w + 1)
<1>1. Last \in Nat /\ w \in 1 .. Last /\ w + 1 \in Workers /\ w \in 0 .. Last - 1 /\ w # 0
      /\ w \in 1 .. w + 1 /\ (w + 1) - 1 = w /\ w + 1 # 1
  BY DEF Awaiting, Inv, Shape, Workers
<1>2. ~Passed(w)
  BY DEF Holds, Passed
<1>3. \A k \in 1 .. Len(queue[w]) : queue[w][k].mem # NULL
  BY <1>1, <1>2 DEF Awaiting, OnePoison, Feeder
<1>4. ~Passed(w + 1) /\ ~HasPoison(w + 1)
  BY <1>1, <1>2 DEF Awaiting, OnePoison
<1> QED
  BY <1>2, <1>3, <1>4

\* A worker passes a block on.  Behind worker o nobody looks.
LEMMA FlowPass ==
  ASSUME Awaiting, Sizes, NEW o, NEW got, NEW cut, Flow(o, got, cut), NEW w \in Workers, StepOf(w),
         HasBlock(w), Untouched(w), NEW b, b.mem # NULL, Produce(w, b), ~Holds(w)', ~Passed(w)',
         NEW longer, Agree(got[1], cut, longer), w # 1 => longer = cut,
         Cuts(IF w = 1 THEN got[1] + 1 ELSE got[1], longer)',
         w < o => Holding(b, w, longer[got[w]], longer[got[w] + 1]),
         SubSeq(file', 1, offset')
           = Through(o - 1, Part(0, longer[IF w = o THEN got[o] + 1 ELSE got[o]]))
  PROVE  Flow(o, [got EXCEPT ![w] = @ + 1], longer)'
<1> DEFINE nxt == [got EXCEPT ![w] = @ + 1]
<1>1. /\ Last \in Nat /\ Last' = Last /\ Workers' = Workers /\ layout' = layout /\ input' = input
      /\ Workers = 1 .. Last /\ o \in 2 .. Last
  BY DEF Awaiting, Inv, Shape, StepOf, Last, Workers, Flow, Delivers
<1>2. got \in [1 .. Last -> Nat]
  BY DEF Flow
<1>3. /\ nxt \in [1 .. Last -> Nat] /\ nxt[w] = got[w] + 1
      /\ \A v \in 1 .. Last : v # w => nxt[v] = got[v]
  BY <1>1, <1>2
<1>4. PICK next : next = nxt
  OBVIOUS
<1> HIDE DEF nxt
<1>5. next \in [1 .. Last -> Nat] /\ next[w] = got[w] + 1
      /\ \A v \in 1 .. Last : v # w => next[v] = got[v]
  BY <1>3, <1>4
<1>6. Shape /\ \A v \in 1 .. Last : got[v] \in Nat
  BY <1>2 DEF Awaiting, Inv
<1>7. /\ \A q \in 0 .. Last - 1 : q # Out(w) => queue'[q] = queue[q]
      /\ Len(queue'[Out(w)]) = Len(queue[Out(w)]) + 1
      /\ queue'[Out(w)][Len(queue[Out(w)]) + 1] = b
      /\ \A k \in 1 .. Len(queue[Out(w)]) : queue'[Out(w)][k] = queue[Out(w)][k]
      /\ \A q \in 0 .. Last - 1 : Len(queue[q]) \in Nat
  BY <1>6, Produced
<1>8. \A v \in 2 .. Last : v - 1 \in 0 .. Last - 1 /\ v \in 1 .. Last /\ v - 1 \in 1 .. Last
                           /\ (v - 1 = Out(w) <=> v = w + 1)
  BY <1>1 DEF Out
<1>9. \A v \in 1 .. o : got[v] <= got[1] /\ \A n \in 0 .. got[v] : longer[n] = cut[n]
  <2> TAKE v \in 1 .. o
  <2>1. got[v] <= got[1] /\ got[v] \in Nat /\ got[1] \in Nat
    BY <1>1, <1>6 DEF Flow
  <2> QED
    BY <2>1 DEF Agree
<1>10. ASSUME NEW v \in 2 .. o PROVE Fed(v, next, longer)'
  <2>1. Fed(v, got, cut) /\ v \in 2 .. Last /\ v - 1 \in 1 .. o
    BY <1>1 DEF Flow
  <2>2. CASE v = w
    <3>1. next[v - 1] = got[v - 1] /\ queue'[v - 1] = queue[v - 1] /\ longer = cut
          /\ Len(queue[v - 1]) \in Nat
      BY <1>5, <1>7, <1>8, <2>1, <2>2
    <3>2. \A k \in 1 .. Len(queue[v - 1]) : queue[v - 1][k].mem # NULL =>
           memory'[queue[v - 1][k].mem] = memory[queue[v - 1][k].mem]
      BY <1>8, <2>1 DEF Untouched
    <3> QED
      BY <1>1, <1>2, <1>5, <2>1, <2>2, <3>1, <3>2, FedOwn
  <2>3. CASE v = w + 1
    <3>1. v - 1 = w /\ w # Last /\ Holds(w) /\ w < o /\ Out(w) = w /\ v \in Workers \ {w}
      BY <1>1, <2>1, <2>3 DEF HasBlock, Out
    <3>2. /\ \A k \in 1 .. Len(queue[v - 1]) : queue[v - 1][k].mem # NULL
          /\ ~Passed(v) /\ ~HasPoison(v)
      BY <2>3, <3>1, NoPoisonYet
    <3>3. \A k \in 1 .. Len(queue[v - 1]) : memory'[queue[v - 1][k].mem] = memory[queue[v - 1][k].mem]
      BY <1>8, <2>1, <3>2 DEF Untouched
    <3>4. Joined(v, queue[v - 1], Len(queue[v - 1]), b)
      BY <1>7, <3>1, <3>2, <3>3 DEF Joined
    <3>5. current'[v] = current[v] /\ Holds(v)' = Holds(v) /\ ~Passed(v)'
      BY <3>1, <3>2 DEF StepOf
    <3>6. OneMore(v, got, next) /\ Holding(b, v - 1, longer[got[v - 1]], longer[got[v - 1] + 1])
      BY <1>5, <1>8, <2>1, <2>3, <3>1 DEF OneMore
    <3>7. Agree(got[v - 1], cut, longer)
      BY <1>9, <2>1 DEF Agree
    <3>8. HasBlock(v) => memory'[current[v].mem] = memory[current[v].mem]
      BY <3>1 DEF Untouched
    <3>9. Len(queue[v - 1]) \in Nat
      BY <1>7, <1>8, <2>1
    <3> QED
      BY <1>1, <1>2, <1>5, <2>1, <3>2, <3>4, <3>5, <3>6, <3>7, <3>8, <3>9, FedMore
  <2>4. CASE v # w /\ v # w + 1
    <3>1. next[v] = got[v] /\ next[v - 1] = got[v - 1] /\ queue'[v - 1] = queue[v - 1]
      <4>1. v - 1 # w
        BY <1>1, <2>1, <2>4
      <4> QED
        BY <1>5, <1>7, <1>8, <2>1, <2>4, <4>1
    <3>2. Agree(got[v - 1], cut, longer)
      BY <1>9, <2>1 DEF Agree
    <3> QED
      BY <1>2, <1>5, <1>6, <2>1, <2>4, <3>1, <3>2, FedOther
  <2> QED
    BY <2>2, <2>3, <2>4
<1>11. \A v \in 1 .. o : next[v] <= next[1]
  <2>1. 1 \in 1 .. Last /\ \A v \in 1 .. o : v \in 1 .. Last
    BY <1>1
  <2>2. next[1] >= got[1] /\ got[1] \in Nat
    BY <1>5, <1>6, <2>1
  <2>3. ASSUME NEW v \in 1 .. o, v = w, v # 1 PROVE got[v] + 1 <= got[1]
    <3>1. v \in 2 .. o /\ v - 1 \in 1 .. o
      BY <1>1, <2>3
    <3>2. Drawn(v, got) <= got[v - 1] /\ got[v - 1] <= got[1]
      BY <1>9, <3>1 DEF Flow, Fed
    <3>3. Drawn(v, got) = got[v] + 1
      BY <2>3 DEF Drawn
    <3>4. got[v] \in Nat /\ got[v - 1] \in Nat
      BY <1>6, <2>1, <3>1
    <3> QED
      BY <2>2, <3>2, <3>3, <3>4
  <2> TAKE v \in 1 .. o
  <2>4. got[v] \in Nat /\ next[v] \in Nat /\ next[1] \in Nat
    BY <1>5, <1>6, <2>1
  <2>5. CASE v = 1
    BY <2>4, <2>5
  <2>6. CASE v # 1 /\ v = w
    <3>1. got[v] + 1 <= got[1] /\ next[v] = got[v] + 1
      BY <1>5, <2>3, <2>6
    <3> QED
      BY <2>2, <2>4, <3>1
  <2>7. CASE v # w
    <3>1. next[v] = got[v] /\ got[v] <= got[1]
      BY <1>5, <1>9, <2>1, <2>7
    <3> QED
      BY <2>2, <2>4, <3>1
  <2> QED
    BY <2>5, <2>6, <2>7
<1>12. Delivers(o)'
  BY <1>1 DEF Flow, Delivers
<1>13. Cuts(next[1], longer)'
  <2>1. next[1] = IF w = 1 THEN got[1] + 1 ELSE got[1]
    BY <1>1, <1>5
  <2> QED
    BY <2>1 DEF Cuts
<1>14. (SubSeq(file, 1, offset) = Through(o - 1, Part(0, longer[next[o]])))'
  <2>1. next[o] = IF w = o THEN got[o] + 1 ELSE got[o]
    BY <1>1, <1>5
  <2> QED
    BY <1>1, <2>1 DEF Through, Part
<1>15. Flow(o, next, longer)'
  BY <1>1, <1>5, <1>10, <1>11, <1>12, <1>13, <1>14 DEF Flow
<1> QED
  BY <1>4, <1>15 DEF nxt

\* A worker sends the poison on; the file may be cut to what has been written.
LEMMA FlowPoison ==
  ASSUME Awaiting, Sizes, NEW o, NEW got, NEW cut, Flow(o, got, cut), NEW w \in Workers, StepOf(w),
         Holds(w), w = 1 \/ HasPoison(w), NEW b, b.mem = NULL, Produce(w, b), ~Holds(w)',
         UNCHANGED <<taken, memory>>, SubSeq(file', 1, offset') = SubSeq(file, 1, offset)
  PROVE  Flow(o, got, cut)'
<1>1. /\ Last \in Nat /\ Last' = Last /\ Workers' = Workers /\ layout' = layout /\ input' = input
      /\ Workers = 1 .. Last /\ o \in 2 .. Last
  BY DEF Awaiting, Inv, Shape, StepOf, Last, Workers, Flow, Delivers
<1>2. got \in [1 .. Last -> Nat] /\ Shape
  BY DEF Flow, Awaiting, Inv
<1>3. /\ \A q \in 0 .. Last - 1 : q # Out(w) => queue'[q] = queue[q]
      /\ Len(queue'[Out(w)]) = Len(queue[Out(w)]) + 1
      /\ queue'[Out(w)][Len(queue[Out(w)]) + 1] = b
      /\ \A k \in 1 .. Len(queue[Out(w)]) : queue'[Out(w)][k] = queue[Out(w)][k]
      /\ \A q \in 0 .. Last - 1 : Len(queue[q]) \in Nat
  BY <1>2, Produced
<1>4. \A v \in 2 .. Last : v - 1 \in 0 .. Last - 1 /\ v \in 1 .. Last /\ v - 1 \in 1 .. Last
                           /\ (v - 1 = Out(w) <=> v = w + 1)
  BY <1>1 DEF Out
<1>5. Untouched(w)
  BY DEF Untouched
<1>6. ASSUME NEW v \in 2 .. o PROVE Fed(v, got, cut)'
  <2>1. Fed(v, got, cut) /\ v \in 2 .. Last /\ Len(queue[v - 1]) \in Nat
    BY <1>1, <1>3, <1>4 DEF Flow
  <2>2. CASE v = w
    <3>1. queue'[v - 1] = queue[v - 1] /\ HasPoison(v)
      BY <1>3, <1>4, <2>1, <2>2
    <3> QED
      BY <1>1, <1>2, <2>1, <2>2, <3>1, FedOwnPoison
  <2>3. CASE v = w + 1
    <3>1. v - 1 = w /\ w # Last /\ Out(w) = w /\ v \in Workers \ {w}
      BY <1>1, <2>1, <2>3 DEF Out
    <3>2. \A k \in 1 .. Len(queue[v - 1]) : queue[v - 1][k].mem # NULL
      BY <3>1, NoPoisonYet
    <3>3. Joined(v, queue[v - 1], Len(queue[v - 1]), b)
      BY <1>3, <3>1, <3>2 DEF Joined
    <3>4. current'[v] = current[v] /\ Holds(v)' = Holds(v) /\ Passed(v)' = Passed(v)
      BY <3>1 DEF StepOf
    <3> QED
      BY <1>1, <1>2, <2>1, <3>3, <3>4, FedPoison
  <2>4. CASE v # w /\ v # w + 1
    <3>1. queue'[v - 1] = queue[v - 1]
      BY <1>3, <1>4, <2>1, <2>4
    <3> QED
      BY <1>2, <1>5, <2>1, <2>4, <3>1, FedOther DEF Agree
  <2> QED
    BY <2>2, <2>3, <2>4
<1>7. Delivers(o)' /\ Cuts(got[1], cut)'
  BY <1>1 DEF Flow, Delivers, Cuts
<1>8. (SubSeq(file, 1, offset) = Through(o - 1, Part(0, cut[got[o]])))'
  BY <1>1 DEF Flow, Through, Part
<1> QED
  BY <1>1, <1>2, <1>6, <1>7, <1>8 DEF Flow

-----------------------------------------------------------------------------
(* The invariant Copying, step by step.                                    *)

\* The input, the file, and how far they have been read and written.
Data ==
  /\ input \in Seq(Records) /\ taken \in 0 .. Len(input)
  /\ file \in Seq(Records) /\ offset \in 0 .. Len(file)

\* The file is as long as what has been written, but for one that a
\* PWriteAndRecycle has still to cut.
Untrimmed(w) == layout[w] = "PWriteAndRecycle" /\ pc[w] # "done"
Trimmed ==
  /\ main # "idle" /\ offset # Len(file) => \E w \in Workers : Untrimmed(w)
  /\ main = "draining" => \A w \in Workers : ~Untrimmed(w)

\* The invariant.
Copying ==
  /\ Awaiting /\ Sizes /\ Data /\ Trimmed
  /\ main # "idle" => \E o, got, cut : Flow(o, got, cut)

\* A worker moves on, not to its end.
LEMMA TrimmedMoves ==
  ASSUME Shape, Trimmed, NEW w \in Workers, NEW next \in Places, Goto(w, next),
         UNCHANGED <<layout, file, offset, main>>, pc[w] # "done", next # "done"
  PROVE  Trimmed'
<1>1. /\ pc'[w] = next /\ \A v \in Workers \ {w} : pc'[v] = pc[v]
  BY GotoMoves
<1>2. Workers' = Workers /\ \A v \in Workers : Untrimmed(v)' = Untrimmed(v)
  BY <1>1 DEF Untrimmed, Workers, Last
<1> QED
  BY <1>2 DEF Trimmed

\* The records of a block that a worker behind the source holds.
LEMMA HeldIs ==
  ASSUME Sizes, Last \in Nat, NEW w \in 2 .. Last, HasBlock(w)
  PROVE  /\ current[w].mem \in Memory /\ current[w].size \in Nat
         /\ Held(w) \in Seq(Records) /\ Len(Held(w)) = current[w].size
         /\ current[w].size <= Len(memory[current[w].mem])
<1>1. w \in Workers /\ Holds(w) /\ current[w].mem # NULL
  BY DEF Workers, HasBlock
<1>2. current[w] \in Sized /\ current[w].size <= Len(memory[current[w].mem])
  BY <1>1 DEF Sizes, Readable
<1>3. current[w].mem \in Memory /\ current[w].size \in Nat
  BY <1>1, <1>2 DEF Sized
<1>4. memory[current[w].mem] \in Seq(Records)
  BY <1>3 DEF Sizes
<1>5. PICK s \in Seq(Records), n \in Nat : s = memory[current[w].mem] /\ n = current[w].size
  BY <1>3, <1>4
<1>6. n <= Len(s) /\ Len(s) \in Nat
  BY <1>2, <1>5
<1>7. SubSeq(s, 1, n) \in Seq(Records) /\ Len(SubSeq(s, 1, n)) = n
  BY <1>6
<1> QED
  BY <1>2, <1>3, <1>5, <1>7 DEF Held

\* Writing at the start of a block's memory.
LEMMA WrittenIs ==
  ASSUME memory \in [Memory -> Seq(Records)], NEW m \in Memory, NEW t \in Seq(Records),
         memory' = [memory EXCEPT ![m] = Overwritten(@, 0, t)]
  PROVE  /\ Grows /\ SubSeq(memory'[m], 1, Len(t)) = t /\ Len(t) <= Len(memory'[m])
         /\ \A k \in Memory \ {m} : memory'[k] = memory[k]
<1> DEFINE s == memory[m]
           w == Overwritten(s, 0, t)
<1>1. s \in Seq(Records) /\ Len(s) \in Nat /\ Len(t) \in Nat /\ 0 \in 0 .. Len(s)
  OBVIOUS
<1>2. memory'[m] = w /\ \A k \in Memory \ {m} : memory'[k] = memory[k]
  OBVIOUS
<1> HIDE DEF s
<1>3. /\ w \in Seq(Records) /\ Len(w) = IF 0 + Len(t) > Len(s) THEN 0 + Len(t) ELSE Len(s)
      /\ SubSeq(w, 1, 0 + Len(t)) = SubSeq(s, 1, 0) \o t
  BY <1>1, OverwrittenIs
<1> HIDE DEF w
<1>4. Len(w) >= Len(t) /\ Len(w) >= Len(s) /\ 0 + Len(t) = Len(t)
  BY <1>1, <1>3
<1>5. SubSeq(s, 1, 0) = <<>> /\ <<>> \o t = t
  BY <1>1, ConcatEmptySeq
<1>6. Grows
  <2>1. memory' \in [Memory -> Seq(Records)]
    BY <1>1, <1>3 DEF w, s
  <2>2. ASSUME NEW k \in Memory PROVE Len(memory[k]) <= Len(memory'[k])
    <3>1. CASE k = m
      BY <1>2, <1>4, <3>1 DEF s
    <3>2. CASE k # m
      <4>1. memory'[k] = memory[k] /\ memory[k] \in Seq(Records)
        BY <1>2, <3>2
      <4> QED
        BY <4>1
    <3> QED
      BY <3>1, <3>2
  <2> QED
    BY <2>1, <2>2 DEF Grows
<1> QED
  BY <1>2, <1>3, <1>4, <1>5, <1>6

\* The loops' bodies have this in common.
LEMMA BodyPasses ==
  ASSUME Awaiting, Sizes, NEW w \in Workers, Working(w), NEW n \in Nat, PassOn(w, n),
         NEW next \in {"next", "last"}, Goto(w, next), UNCHANGED chainVars, Grows,
         \A m \in Memory \ {current[w].mem} : memory'[m] = memory[m],
         Out(w) # 0 => n <= Len(memory'[current[w].mem])
  PROVE  /\ Sizes' /\ StepOf(w) /\ HasBlock(w) /\ Untouched(w) /\ ~Holds(w)' /\ ~Passed(w)'
         /\ \E b : Produce(w, b) /\ b.mem # NULL /\ b.mem = current[w].mem /\ b.size = n
<1>1. Shape /\ BlockOwnedOnce
  BY DEF Awaiting, Inv
<1>2. /\ pc'[w] = next /\ \A v \in Workers \ {w} : pc'[v] = pc[v]
  BY <1>1, GotoMoves DEF Places, chainVars
<1>3. ~Holds(w)' /\ ~Passed(w)'
      /\ \A v \in Workers \ {w} : Holds(v)' = Holds(v) /\ Passed(v)' = Passed(v)
  BY <1>2 DEF Holds, Passed
<1>4. HasBlock(w) /\ current[w] \in Sized /\ current[w].mem \in Memory
  BY DEF Sizes, Working, At, HasBlock, Holds, Sized
<1>5. PICK b : b = [mem |-> current[w].mem, size |-> n]
  OBVIOUS
<1>6. b \in Sized /\ b.mem = current[w].mem /\ b.size = n /\ b.mem # NULL
  BY <1>4, <1>5 DEF Sized, HasBlock
<1>7. current' = [current EXCEPT ![w] = b] /\ Produce(w, b)
  <2>1. current' = [current EXCEPT ![w] = b]
    BY <1>5 DEF PassOn
  <2>2. current'[w] = b
    BY <2>1 DEF Sizes
  <2> QED
    BY <2>1, <2>2 DEF PassOn
<1>8. \A v \in Workers \ {w} : current'[v] = current[v]
  BY <1>7 DEF Sizes
<1>9. StepOf(w)
  BY <1>3, <1>8 DEF StepOf, chainVars
<1>10. Untouched(w)
  BY <1>1, <1>4, OwnMemory
<1>11. Out(w) # 0 /\ b.mem # NULL => b.size <= Len(memory'[b.mem])
  BY <1>6
<1>12. layout' = layout
  BY DEF chainVars
<1>13. Sizes'
  BY <1>1, <1>3, <1>6, <1>7, <1>11, <1>12, ProduceSizes
<1> QED
  BY <1>3, <1>4, <1>6, <1>7, <1>9, <1>10, <1>13

\* One worker of a layout delivers.
LEMMA OneOutput ==
  ASSUME NEW l \in Layouts
  PROVE  \E o \in 2 .. Len(l) :
           /\ l[o] \in Outputs /\ \A w \in 1 .. Len(l) : l[w] \in Outputs => w = o
           /\ \A w \in 2 .. o - 1 : l[w] = "Filter"
<1> DEFINE S == {w \in 1 .. Len(l) : l[w] \in Outputs}
<1>1. /\ l \in Seq(Kinds) /\ Len(l) \in 2 .. MaxWorkers
      /\ l[1] \in Sources
      /\ \A w \in 2 .. Len(l) - 1 : l[w] \in {"Filter", "Write", "MainStream"}
      /\ Cardinality(S) = 1
  BY ChainAssumption
<1>2. Len(l) \in Nat
  BY <1>1
<1>3. IsFiniteSet(1 .. Len(l))
  BY <1>2, FS_Interval
<1>4. S \in SUBSET (1 .. Len(l))
  OBVIOUS
<1> HIDE DEF S
<1>5. IsFiniteSet(S)
  BY <1>3, <1>4, FS_Subset
<1>6. PICK o : S = {o}
  BY <1>1, <1>5, FS_Singleton
<1>7. o \in 1 .. Len(l) /\ l[o] \in Outputs
      /\ \A w \in 1 .. Len(l) : l[w] \in Outputs => w = o
  BY <1>6 DEF S
<1>8. o # 1
  BY <1>1, <1>7 DEF Sources, Outputs
<1>9. \A w \in 2 .. o - 1 : l[w] = "Filter"
  <2> SUFFICES ASSUME NEW w \in 2 .. o - 1 PROVE l[w] = "Filter"
    OBVIOUS
  <2>1. w \in 2 .. Len(l) - 1 /\ w \in 1 .. Len(l) /\ w # o
    BY <1>2, <1>7
  <2> QED
    BY <1>1, <1>7, <2>1 DEF Outputs
<1>10. o \in 2 .. Len(l)
  BY <1>2, <1>7, <1>8
<1> QED
  BY <1>7, <1>9, <1>10

\* What is given to the abstract copy has passed the Filters up to the output.
LEMMA GivenIs ==
  ASSUME layout \in Layouts, NEW o, Delivers(o)
  PROVE  KeptInput = Through(o - 1, input)
<1>1. layout[1] \in Sources /\ Last \in Nat
  <2>1. layout \in Seq(Kinds) /\ layout[1] \in Sources
    BY ChainAssumption
  <2> QED
    BY <2>1 DEF Last
<1>2. /\ o \in 2 .. Last /\ layout[o] \in Outputs
      /\ \A w \in Workers : layout[w] \in Outputs => w = o
      /\ \A w \in 2 .. o - 1 : layout[w] = "Filter"
  BY DEF Delivers
<1>3. CASE o = 2
  <2>1. \A v \in Workers : v < 2 => layout[v] # "Filter"
    BY <1>1 DEF Workers, Sources
  <2>2. ~\E v, w \in Workers : v < w /\ layout[v] = "Filter" /\ layout[w] \in Outputs
    BY <1>2, <1>3, <2>1
  <2> QED
    BY <1>3, <2>2 DEF KeptInput, Through
<1>4. CASE o # 2
  <2>1. 2 \in Workers /\ o \in Workers /\ 2 < o /\ 2 \in 2 .. o - 1 /\ o - 1 # 1
    BY <1>1, <1>2, <1>4 DEF Workers
  <2>2. \E v, w \in Workers : v < w /\ layout[v] = "Filter" /\ layout[w] \in Outputs
    BY <1>2, <2>1
  <2> QED
    BY <2>1, <2>2 DEF KeptInput, Through
<1> QED
  BY <1>3, <1>4

\* Where in a layout a worker may be.
LEMMA RoleIs ==
  ASSUME layout \in Layouts, NEW w \in Workers, NEW o, Delivers(o)
  PROVE  /\ layout[w] \in Sources => w = 1
         /\ layout[w] = "Filter" => w # 1 /\ w # Last /\ w # o
         /\ layout[w] \in Outputs => w = o /\ w # 1
         /\ layout[w] \in Closing => w = Last /\ w # 1
         /\ layout[w] = "Recycler" => w # o
<1>1. /\ layout \in Seq(Kinds) /\ Last \in 2 .. MaxWorkers
      /\ layout[1] \in Sources /\ layout[Last] \in Closing
      /\ \A v \in 2 .. Last - 1 : layout[v] \in {"Filter", "Write", "MainStream"}
  BY ChainAssumption DEF Last
<1>2. Last \in Nat
  BY <1>1 DEF Last
<1>3. w \in 1 .. Last /\ (w = 1 \/ w = Last \/ w \in 2 .. Last - 1) /\ 1 # Last
  BY <1>1, <1>2 DEF Workers
<1>4. o \in 2 .. Last /\ layout[o] \in Outputs /\ (layout[w] \in Outputs => w = o)
  BY DEF Delivers
<1>5. CASE w = 1
  BY <1>1, <1>3, <1>4, <1>5 DEF Sources, Closing, Outputs
<1>6. CASE w = Last
  BY <1>1, <1>3, <1>4, <1>6 DEF Sources, Closing, Outputs
<1>7. CASE w \in 2 .. Last - 1
  BY <1>1, <1>2, <1>3, <1>4, <1>7 DEF Sources, Closing, Outputs
<1> QED
  BY <1>3, <1>5, <1>6, <1>7

\* Copying within a round.
Carrying == Sizes /\ Data /\ Trimmed /\ \E o, got, cut : Flow(o, got, cut)

\* The source fills a block.
LEMMA SourceCopies ==
  ASSUME Awaiting, main # "idle", Carrying, NEW w \in Workers, w = 1, Working(w),
         NEW n \in 0 .. Len(input) - taken, Taking(w, n), PassOn(w, n),
         NEW next \in {"next", "last"}, Goto(w, next),
         UNCHANGED <<chainVars, poisoned, file, offset, mainVars>>
  PROVE  Carrying'
<1>1. /\ Shape /\ Sizes /\ Data /\ Trimmed
      /\ Last \in Nat /\ Last >= 2 /\ Out(w) = 1 /\ w # Last
  <2>1. Last \in Nat /\ Last >= 2
    BY InRound DEF Awaiting
  <2> QED
    BY <2>1 DEF Awaiting, Inv, Out, Carrying
<1>2. /\ input \in Seq(Records) /\ taken \in Nat /\ n \in Nat /\ taken + n \in Nat
      /\ taken <= taken + n /\ taken + n <= Len(input) /\ Len(input) \in Nat
      /\ taken' = taken + n /\ input' = input /\ layout' = layout
  BY <1>1 DEF Data, Taking, chainVars
<1>3. PICK m \in Memory : m = current[w].mem
  BY <1>1 DEF Working, Sizes, Sized
<1>4. PICK t : t = Part(taken, taken + n)
  OBVIOUS
<1>5. t \in Seq(Records) /\ Len(t) = n
  <2>1. PICK e \in Nat : e = taken + n /\ taken <= e /\ e <= e /\ e <= Len(input) /\ e - taken = n
    BY <1>2
  <2>2. Part(taken, e) \in Seq(Records) /\ Len(Part(taken, e)) = e - taken
    BY <1>2, <2>1, PartJoins
  <2> QED
    BY <1>4, <2>1, <2>2
<1>6. memory' = [memory EXCEPT ![m] = Overwritten(@, 0, t)]
  BY <1>3, <1>4 DEF Taking, Part
<1>7. /\ Grows /\ SubSeq(memory'[m], 1, n) = t /\ n <= Len(memory'[m])
      /\ \A k \in Memory \ {m} : memory'[k] = memory[k]
  <2>1. memory \in [Memory -> Seq(Records)]
    BY <1>1 DEF Sizes
  <2> QED
    BY <1>5, <1>6, <2>1, WrittenIs
<1>8. /\ Sizes' /\ StepOf(w) /\ HasBlock(w) /\ Untouched(w) /\ ~Holds(w)' /\ ~Passed(w)'
      /\ \E b : Produce(w, b) /\ b.mem # NULL /\ b.mem = current[w].mem /\ b.size = n
  BY <1>1, <1>2, <1>3, <1>7, BodyPasses
<1>9. PICK b : Produce(w, b) /\ b.mem # NULL /\ b.mem = m /\ b.size = n
  BY <1>3, <1>8
<1>10. PICK o, got, cut : Flow(o, got, cut)
  BY DEF Carrying
<1>11. /\ got \in [1 .. Last -> Nat] /\ \A v \in 1 .. o : got[v] <= got[1]
       /\ o \in 2 .. Last /\ Cuts(got[1], cut)
       /\ SubSeq(file, 1, offset) = Through(o - 1, Part(0, cut[got[o]]))
  BY <1>10 DEF Flow, Delivers
<1>12. PICK g \in Nat : g = got[1]
  BY <1>1, <1>11
<1>13. /\ cut \in [Nat -> 0 .. Len(input)]
       /\ cut[0] = 0 /\ \A k \in Nat : cut[k] <= cut[k + 1]
       /\ cut[g] = taken
  <2>1. Cuts(g, cut)
    BY <1>11, <1>12
  <2>2. \A k \in Nat : k >= g => cut[k] = taken
    BY <2>1 DEF Cuts
  <2>3. g >= g
    BY <1>12
  <2> QED
    BY <1>12, <2>1, <2>2, <2>3 DEF Cuts
<1>14. PICK longer : longer = [k \in Nat |-> IF k <= g THEN cut[k] ELSE taken + n]
  OBVIOUS
<1>15. longer[g] = taken /\ longer[g + 1] = taken + n
  <2>1. g \in Nat /\ g <= g /\ g + 1 \in Nat /\ ~(g + 1 <= g)
    BY <1>12
  <2>2. longer[g] = cut[g] /\ longer[g + 1] = taken + n
    BY <1>14, <2>1
  <2> QED
    BY <1>13, <2>2
<1>16. Agree(g, cut, longer) /\ longer[0] = cut[0]
  <2>1. ASSUME NEW k \in 0 .. g PROVE longer[k] = cut[k]
    <3>1. k \in Nat /\ k <= g
      BY <1>12
    <3> QED
      BY <1>14, <3>1
  <2>2. 0 \in 0 .. g
    BY <1>12
  <2> QED
    BY <2>1, <2>2 DEF Agree
<1>17. Cuts(g + 1, longer)'
  <2>1. longer \in [Nat -> 0 .. Len(input)]
    <3>1. taken + n \in 0 .. Len(input)
      BY <1>2
    <3>2. \A k \in Nat : cut[k] \in 0 .. Len(input)
      BY <1>13
    <3> QED
      BY <1>14, <3>1, <3>2
  <2>2. longer[0] = 0
    BY <1>13, <1>16
  <2>3. ASSUME NEW k \in Nat PROVE longer[k] <= longer[k + 1]
    <3>1. cut[k] \in 0 .. Len(input) /\ cut[k] <= cut[k + 1]
      BY <1>13
    <3>2. CASE k < g
      BY <1>12, <1>14, <3>1, <3>2
    <3>3. CASE k = g
      BY <1>2, <1>15, <3>3
    <3>4. CASE k > g
      BY <1>2, <1>12, <1>14, <3>4
    <3> QED
      BY <1>12, <3>2, <3>3, <3>4
  <2>4. \A k \in Nat : k >= g + 1 => longer[k] = taken + n
    BY <1>12, <1>14
  <2> QED
    BY <1>2, <2>1, <2>2, <2>3, <2>4 DEF Cuts
<1>18. Holding(b, w, longer[g], longer[g + 1])
  BY <1>4, <1>7, <1>9, <1>15 DEF Holding, Through
<1>19. SubSeq(file', 1, offset') = Through(o - 1, Part(0, longer[got[o]]))
  <2>1. got[o] \in 0 .. g
    BY <1>1, <1>11, <1>12
  <2>2. longer[got[o]] = cut[got[o]]
    BY <1>16, <2>1 DEF Agree
  <2> QED
    BY <1>11, <2>2
<1>20. (\E p, q, c : Flow(p, q, c))'
  <2>1. w # o /\ w < o
    BY <1>1, <1>11
  <2>2. /\ Agree(got[1], cut, longer)
        /\ Cuts(IF w = 1 THEN got[1] + 1 ELSE got[1], longer)'
        /\ Holding(b, w, longer[got[w]], longer[got[w] + 1])
        /\ SubSeq(file', 1, offset')
             = Through(o - 1, Part(0, longer[IF w = o THEN got[o] + 1 ELSE got[o]]))
    BY <1>12, <1>16, <1>17, <1>18, <1>19, <2>1
  <2>3. Flow(o, [got EXCEPT ![w] = @ + 1], longer)'
    BY <1>1, <1>8, <1>9, <1>10, <2>2, FlowPass
  <2> QED
    BY <2>3
<1>21. Data'
  BY <1>1, <1>2 DEF Data
<1>22. Trimmed'
  BY <1>1, TrimmedMoves DEF Places, Working, At, chainVars, mainVars
<1> QED
  BY <1>8, <1>20, <1>21, <1>22 DEF Carrying

\* What a worker behind the source does with its block.
LEMMA PassCopies ==
  ASSUME Awaiting, Sizes, NEW o, NEW got, NEW cut, Flow(o, got, cut),
         NEW w \in Workers, w # 1, Working(w), NEW n \in Nat, PassOn(w, n), Goto(w, "next"),
         UNCHANGED <<chainVars, taken>>, Grows,
         \A m \in Memory \ {current[w].mem} : memory'[m] = memory[m],
         Out(w) # 0 => n <= Len(memory'[current[w].mem]),
         w < o => SubSeq(memory'[current[w].mem], 1, n)
                    = Through(w, Part(cut[got[w]], cut[got[w] + 1])),
         SubSeq(file', 1, offset')
           = Through(o - 1, Part(0, cut[IF w = o THEN got[o] + 1 ELSE got[o]]))
  PROVE  Sizes' /\ (\E p, q, c : Flow(p, q, c))'
<1>1. /\ Sizes' /\ StepOf(w) /\ HasBlock(w) /\ Untouched(w) /\ ~Holds(w)' /\ ~Passed(w)'
      /\ \E b : Produce(w, b) /\ b.mem # NULL /\ b.mem = current[w].mem /\ b.size = n
  BY BodyPasses
<1>2. PICK b : Produce(w, b) /\ b.mem # NULL /\ b.mem = current[w].mem /\ b.size = n
  BY <1>1
<1>3. Agree(got[1], cut, cut)
  BY DEF Agree
<1>4. Cuts(IF w = 1 THEN got[1] + 1 ELSE got[1], cut)'
  <2>1. Cuts(got[1], cut) /\ input' = input /\ taken' = taken
    BY DEF Flow, chainVars
  <2>2. Cuts(got[1], cut)'
    BY <2>1 DEF Cuts
  <2> QED
    BY <2>2
<1>5. w < o => Holding(b, w, cut[got[w]], cut[got[w] + 1])
  BY <1>2 DEF Holding
<1>6. Flow(o, [got EXCEPT ![w] = @ + 1], cut)'
  BY <1>1, <1>2, <1>3, <1>4, <1>5, FlowPass
<1> QED
  BY <1>1, <1>6

\* What the block of a worker up to the output holds.
LEMMA HeldCopied ==
  ASSUME Sizes, Data, Last \in Nat, NEW o, NEW got, NEW cut, Flow(o, got, cut),
         NEW w \in 2 .. o, HasBlock(w)
  PROVE  /\ got[w] \in Nat /\ cut[got[w]] \in Nat /\ cut[got[w] + 1] \in Nat
         /\ cut[got[w]] <= cut[got[w] + 1] /\ cut[got[w] + 1] <= Len(input)
         /\ Part(cut[got[w]], cut[got[w] + 1]) \in Seq(Records)
         /\ Held(w) = Through(w - 1, Part(cut[got[w]], cut[got[w] + 1]))
<1>1. o \in 2 .. Last /\ got \in [1 .. Last -> Nat] /\ Fed(w, got, cut) /\ Cuts(got[1], cut)
  BY DEF Flow, Delivers
<1>2. PICK n \in Nat : n = got[w]
  BY <1>1
<1>3. /\ cut \in [Nat -> 0 .. Len(input)] /\ \A k \in Nat : cut[k] <= cut[k + 1]
      /\ input \in Seq(Records)
  BY <1>1 DEF Cuts, Data
<1>4. n + 1 \in Nat /\ n + 1 - 1 = n
  BY <1>2
<1>5. PICK d \in 0 .. Len(input), e \in 0 .. Len(input) : d = cut[n] /\ e = cut[n + 1]
  BY <1>2, <1>3, <1>4
<1>6. d <= e
  BY <1>2, <1>3, <1>5
<1>7. Part(d, e) \in Seq(Records)
  <2>1. d \in Nat /\ e \in Nat /\ e <= e /\ e <= Len(input)
    OBVIOUS
  <2> QED
    BY <1>3, <1>6, <2>1, PartJoins
<1>8. Filled(current[w], w - 1, n + 1, cut)
  BY <1>1, <1>2 DEF Fed
<1>9. Held(w) = Through(w - 1, Part(cut[n + 1 - 1], cut[n + 1]))
  BY <1>8 DEF Filled, Held
<1>10. Held(w) = Through(w - 1, Part(d, e))
  BY <1>4, <1>5, <1>9
<1> QED
  BY <1>2, <1>5, <1>6, <1>7, <1>10

\* A Filter removes records.
LEMMA FilterCopies ==
  ASSUME Awaiting, main # "idle", Carrying, NEW w \in Workers, Filter(w)
  PROVE  Carrying'
<1>1. PICK o, got, cut : Flow(o, got, cut)
  BY DEF Carrying
<1>2. /\ Shape /\ Sizes /\ Data /\ Trimmed /\ Last \in Nat /\ Delivers(o) /\ layout \in Layouts
  <2>1. Last \in Nat
    BY InRound DEF Awaiting
  <2> QED
    BY <1>1, <2>1 DEF Awaiting, Inv, Carrying, Flow, Setting
<1>3. layout[w] = "Filter" /\ Working(w) /\ UNCHANGED <<chainVars, taken, file, offset, main>>
  BY DEF Filter, mainVars
<1>4. w # 1 /\ w # Last /\ w # o /\ w \in 2 .. Last
  <2>1. w # 1 /\ w # Last /\ w # o
    BY <1>2, <1>3, RoleIs
  <2> QED
    BY <1>2, <2>1 DEF Workers
<1>5. HasBlock(w)
  BY <1>3 DEF Working, At, HasBlock, Holds
<1>6. current[w].mem \in Memory /\ Held(w) \in Seq(Records)
  BY <1>2, <1>4, <1>5, HeldIs
<1>7. PICK m \in Memory, t \in Seq(Records) : m = current[w].mem /\ t = KeepOnly(Held(w))
  BY <1>6, KeepType
<1>8. t \in Seq(Records)
  OBVIOUS
<1>9. PICK n \in Nat : n = Len(t)
  BY <1>8
<1>10. memory' = [memory EXCEPT ![m] = Overwritten(@, 0, t)] /\ PassOn(w, n) /\ Goto(w, "next")
  BY <1>7, <1>9 DEF Filter
<1>11. /\ Grows /\ SubSeq(memory'[m], 1, n) = t /\ n <= Len(memory'[m])
       /\ \A k \in Memory \ {m} : memory'[k] = memory[k]
  <2>1. memory \in [Memory -> Seq(Records)]
    BY <1>2 DEF Sizes
  <2> QED
    BY <1>8, <1>9, <1>10, <2>1, WrittenIs
<1>12. ASSUME w < o
       PROVE  SubSeq(memory'[m], 1, n) = Through(w, Part(cut[got[w]], cut[got[w] + 1]))
  <2>1. w \in 2 .. o
    BY <1>2, <1>4, <1>12 DEF Delivers
  <2>2. PICK p \in Seq(Records) : /\ p = Part(cut[got[w]], cut[got[w] + 1])
                                  /\ Held(w) = Through(w - 1, p)
    BY <1>1, <1>2, <1>5, <2>1, HeldCopied
  <2>3. t = KeepOnly(p)
    BY <1>7, <2>2, ThroughConcat
  <2> QED
    BY <1>4, <1>11, <2>2, <2>3 DEF Through
<1>13. SubSeq(file', 1, offset')
         = Through(o - 1, Part(0, cut[IF w = o THEN got[o] + 1 ELSE got[o]]))
  BY <1>1, <1>3, <1>4 DEF Flow
<1>14. Sizes' /\ (\E p, q, c : Flow(p, q, c))'
  BY <1>1, <1>2, <1>3, <1>4, <1>7, <1>10, <1>11, <1>12, <1>13, PassCopies
<1>15. Data'
  BY <1>2, <1>3 DEF Data, chainVars
<1>16. Trimmed'
  BY <1>2, <1>3, <1>10, TrimmedMoves DEF Places, Working, At, chainVars
<1> QED
  BY <1>14, <1>15, <1>16 DEF Carrying

\* The last worker gives the block back.
LEMMA RecycleCopies ==
  ASSUME Awaiting, main # "idle", Carrying, NEW w \in Workers, Recycle(w)
  PROVE  Carrying'
<1>1. PICK o, got, cut : Flow(o, got, cut)
  BY DEF Carrying
<1>2. /\ Shape /\ Sizes /\ Data /\ Trimmed /\ Last \in Nat /\ Delivers(o) /\ layout \in Layouts
  <2>1. Last \in Nat
    BY InRound DEF Awaiting
  <2> QED
    BY <1>1, <2>1 DEF Awaiting, Inv, Carrying, Flow, Setting
<1>3. /\ layout[w] = "Recycler" /\ Working(w) /\ Goto(w, "next") /\ PassOn(w, BlockSize)
      /\ UNCHANGED <<chainVars, taken, memory, file, offset, main>>
  BY DEF Recycle, mainVars, dataVars
<1>4. w # 1 /\ w = Last /\ w # o /\ ~(w < o) /\ Out(w) = 0
  <2>1. w # 1 /\ w = Last /\ w # o
    BY <1>2, <1>3, RoleIs DEF Closing
  <2> QED
    BY <1>2, <2>1 DEF Workers, Delivers, Out
<1>5. BlockSize \in Nat
  BY ChainAssumption
<1>6. Grows
  BY <1>2, <1>3 DEF Grows, Sizes
<1>7. SubSeq(file', 1, offset')
         = Through(o - 1, Part(0, cut[IF w = o THEN got[o] + 1 ELSE got[o]]))
  BY <1>1, <1>3, <1>4 DEF Flow
<1>8. Sizes' /\ (\E p, q, c : Flow(p, q, c))'
  BY <1>1, <1>2, <1>3, <1>4, <1>5, <1>6, <1>7, PassCopies
<1>9. Data'
  BY <1>2, <1>3 DEF Data, chainVars
<1>10. Trimmed'
  BY <1>2, <1>3, TrimmedMoves DEF Places, Working, At, chainVars
<1> QED
  BY <1>8, <1>9, <1>10 DEF Carrying

\* The output writes its block behind what it has written.
LEMMA OutputCopies ==
  ASSUME Awaiting, main # "idle", Carrying, NEW w \in Workers, Output(w)
  PROVE  Carrying'
<1>1. PICK o, got, cut : Flow(o, got, cut)
  BY DEF Carrying
<1>2. /\ Shape /\ Sizes /\ Data /\ Trimmed /\ Last \in Nat /\ Delivers(o) /\ layout \in Layouts
  <2>1. Last \in Nat
    BY InRound DEF Awaiting
  <2> QED
    BY <1>1, <2>1 DEF Awaiting, Inv, Carrying, Flow, Setting
<1>3. /\ layout[w] \in Outputs /\ Working(w) /\ Goto(w, "next")
      /\ PassOn(w, IF layout[w] \in Closing THEN BlockSize ELSE current[w].size)
      /\ file' = Overwritten(file, offset, Held(w)) /\ offset' = offset + current[w].size
      /\ UNCHANGED <<chainVars, taken, memory, main>>
  BY DEF Output, mainVars
<1>4. w # 1 /\ w = o /\ w \in 2 .. Last /\ w \in 2 .. o /\ ~(w < o)
  <2>1. w # 1 /\ w = o
    BY <1>2, <1>3, RoleIs
  <2> QED
    BY <1>2, <2>1 DEF Workers
<1>5. HasBlock(w)
  BY <1>3 DEF Working, At, HasBlock, Holds
<1>6. /\ current[w].mem \in Memory /\ current[w].size \in Nat
      /\ Held(w) \in Seq(Records) /\ Len(Held(w)) = current[w].size
      /\ current[w].size <= Len(memory[current[w].mem])
  BY <1>2, <1>4, <1>5, HeldIs
<1>7. PICK n \in Nat : /\ n = IF layout[w] \in Closing THEN BlockSize ELSE current[w].size
                       /\ layout[w] \notin Closing => n = current[w].size
  BY <1>6, ChainAssumption
<1>8. PassOn(w, n)
  BY <1>3, <1>7
<1>9. Out(w) # 0 => n <= Len(memory'[current[w].mem])
  <2>1. layout[w] \in Closing => Out(w) = 0
    BY <1>2, RoleIs DEF Out
  <2> QED
    BY <1>3, <1>6, <1>7, <2>1
<1>10. Grows
  BY <1>2, <1>3 DEF Grows, Sizes
<1>11. PICK s \in Seq(Records), t \in Seq(Records), at \in Nat :
         /\ s = file /\ t = Held(w) /\ at = offset /\ Len(t) = current[w].size
         /\ at \in 0 .. Len(s)
  <2>1. file \in Seq(Records) /\ offset \in 0 .. Len(file) /\ offset \in Nat
    BY <1>2 DEF Data
  <2> QED
    BY <1>6, <2>1
<1>12. file' = Overwritten(s, at, t) /\ offset' = at + Len(t)
  BY <1>3, <1>11
<1>13. /\ file' \in Seq(Records)
       /\ Len(file') = IF offset' > Len(s) THEN offset' ELSE Len(s)
       /\ SubSeq(file', 1, offset') = SubSeq(s, 1, at) \o t
  BY <1>11, <1>12, OverwrittenIs
<1>14. PICK g \in Nat : g = got[o]
  BY <1>1, <1>2, <1>4, <1>5, HeldCopied
<1>15. PICK d \in Nat, e \in Nat :
         /\ d = cut[g] /\ e = cut[g + 1] /\ d <= e /\ e <= Len(input)
         /\ Part(d, e) \in Seq(Records) /\ t = Through(o - 1, Part(d, e))
  <2>1. /\ cut[got[w]] \in Nat /\ cut[got[w] + 1] \in Nat
        /\ cut[got[w]] <= cut[got[w] + 1] /\ cut[got[w] + 1] <= Len(input)
        /\ Part(cut[got[w]], cut[got[w] + 1]) \in Seq(Records)
        /\ Held(w) = Through(w - 1, Part(cut[got[w]], cut[got[w] + 1]))
    BY <1>1, <1>2, <1>4, <1>5, HeldCopied
  <2>2. got[w] = g /\ w = o /\ t = Held(w)
    BY <1>4, <1>11, <1>14
  <2> QED
    BY <2>1, <2>2
<1>16. SubSeq(s, 1, at) = Through(o - 1, Part(0, d))
  BY <1>1, <1>11, <1>14, <1>15 DEF Flow
<1>17. Part(0, d) \in Seq(Records) /\ Part(0, d) \o Part(d, e) = Part(0, e)
  <2>1. input \in Seq(Records) /\ 0 \in Nat /\ 0 <= d /\ Len(input) \in Nat
    BY <1>2 DEF Data
  <2>2. d <= Len(input) /\ d <= d
    BY <1>15, <2>1
  <2>3. Part(0, d) \in Seq(Records)
    BY <2>1, <2>2, PartJoins
  <2>4. Part(0, d) \o Part(d, e) = Part(0, e)
    BY <1>15, <2>1, PartJoins
  <2> QED
    BY <2>3, <2>4
<1>18. SubSeq(file', 1, offset') = Through(o - 1, Part(0, e))
  <2>1. Through(o - 1, Part(0, d) \o Part(d, e))
          = Through(o - 1, Part(0, d)) \o Through(o - 1, Part(d, e))
    BY <1>15, <1>17, ThroughConcat
  <2> QED
    BY <1>13, <1>15, <1>16, <1>17, <2>1
<1>19. SubSeq(file', 1, offset')
         = Through(o - 1, Part(0, cut[IF w = o THEN got[o] + 1 ELSE got[o]]))
  BY <1>4, <1>14, <1>15, <1>18
<1>20. Sizes' /\ (\E p, q, c : Flow(p, q, c))'
  BY <1>1, <1>2, <1>3, <1>4, <1>8, <1>9, <1>10, <1>19, PassCopies
<1>21. Data' /\ (offset = Len(file) => offset' = Len(file'))
  <2>1. Len(s) \in Nat /\ Len(t) \in Nat
    OBVIOUS
  <2>2. offset' \in 0 .. Len(file')
    BY <1>12, <1>13, <2>1
  <2>3. offset = Len(file) => offset' = Len(file')
    BY <1>11, <1>12, <1>13, <2>1
  <2>4. input' \in Seq(Records) /\ taken' \in 0 .. Len(input')
    BY <1>2, <1>3 DEF Data, chainVars
  <2> QED
    BY <1>13, <2>2, <2>3, <2>4 DEF Data
<1>22. Trimmed'
  <2>1. /\ pc'[w] = "next" /\ pc[w] = "body" /\ \A v \in Workers \ {w} : pc'[v] = pc[v]
    BY <1>2, <1>3, GotoMoves DEF Places, chainVars, Working, At
  <2>2. Workers' = Workers /\ \A v \in Workers : Untrimmed(v)' = Untrimmed(v)
    BY <1>3, <2>1 DEF Untrimmed, Workers, Last, chainVars
  <2> QED
    BY <1>2, <1>3, <1>21, <2>2 DEF Trimmed
<1> QED
  BY <1>20, <1>21, <1>22 DEF Carrying

\* A worker takes the next block, or the poison.
LEMMA ConsumeCopies ==
  ASSUME Awaiting, Carrying, NEW w \in Workers, Consume(w), pc[w] \in {"init", "next", "last"},
         NEW next \in {"body", "poison", "repoison"}, Goto(w, next),
         UNCHANGED <<chainVars, taken, memory, file, offset, main>>
  PROVE  Carrying'
<1>1. Shape /\ Sizes /\ Data /\ Trimmed
  BY DEF Awaiting, Inv, Carrying
<1>2. PICK o, got, cut : Flow(o, got, cut)
  BY DEF Carrying
<1>3. /\ pc'[w] = next /\ \A v \in Workers \ {w} : pc'[v] = pc[v]
  BY <1>1, GotoMoves DEF Places, chainVars
<1>4. ~Holds(w) /\ Holds(w)' /\ ~Passed(w)'
      /\ \A v \in Workers \ {w} : Holds(v)' = Holds(v) /\ Passed(v)' = Passed(v)
  BY <1>3 DEF Holds, Passed
<1>5. StepOf(w)
  BY <1>1, <1>4 DEF StepOf, Consume, Sizes, chainVars
<1>6. Flow(o, got, cut)'
  BY <1>1, <1>2, <1>4, <1>5, FlowConsume
<1>7. Sizes'
  BY <1>1, <1>4, ConsumeSizes DEF chainVars
<1>8. Data'
  BY <1>1 DEF Data, chainVars
<1>9. Trimmed'
  BY <1>1, TrimmedMoves DEF Places, chainVars
<1> QED
  BY <1>6, <1>7, <1>8, <1>9 DEF Carrying

\* A worker sends the poison on.
LEMMA PoisonCopies ==
  ASSUME Awaiting, Sizes, \E o, got, cut : Flow(o, got, cut),
         NEW w \in Workers, Holds(w), w = 1 \/ HasPoison(w),
         NEW b \in Sized, b.mem = NULL, Produce(w, b),
         UNCHANGED current \/ current' = [current EXCEPT ![w] = b],
         NEW next \in {"final", "done"}, Goto(w, next),
         UNCHANGED <<chainVars, taken, memory>>, SubSeq(file', 1, offset') = SubSeq(file, 1, offset)
  PROVE  Sizes' /\ (\E o, got, cut : Flow(o, got, cut))'
<1>1. Shape
  BY DEF Awaiting, Inv
<1>2. PICK o, got, cut : Flow(o, got, cut)
  OBVIOUS
<1>3. /\ pc'[w] = next /\ \A v \in Workers \ {w} : pc'[v] = pc[v]
  BY <1>1, GotoMoves DEF Places, chainVars
<1>4. ~Holds(w)'
      /\ \A v \in Workers \ {w} : Holds(v)' = Holds(v) /\ Passed(v)' = Passed(v)
  BY <1>3 DEF Holds, Passed
<1>5. StepOf(w)
  BY <1>4 DEF StepOf, Sizes, chainVars
<1>6. Flow(o, got, cut)'
  BY <1>2, <1>4, <1>5, FlowPoison
<1>7. Grows
  BY DEF Grows, Sizes
<1>8. Sizes'
  BY <1>1, <1>4, <1>7, ProduceSizes DEF chainVars
<1> QED
  BY <1>6, <1>8

\* A step that leaves the blocks where they are.
LEMMA QuietCopies ==
  ASSUME Awaiting, Sizes, \E o, got, cut : Flow(o, got, cut),
         UNCHANGED <<chainVars, queue, current, taken, memory>>,
         SubSeq(file', 1, offset') = SubSeq(file, 1, offset),
         \A v \in Workers : Holds(v)' = Holds(v) /\ Passed(v)' = Passed(v)
  PROVE  Sizes' /\ (\E o, got, cut : Flow(o, got, cut))'
<1>1. Shape /\ Last \in Nat
  BY DEF Awaiting, Inv, Shape
<1>2. PICK o, got, cut : Flow(o, got, cut)
  OBVIOUS
<1>3. Flow(o, got, cut)'
  BY <1>1, <1>2, FlowQuiet DEF chainVars
<1>4. Sizes'
  BY <1>1, QuietSizes DEF chainVars
<1> QED
  BY <1>3, <1>4

\* A worker's end, and what it does to the file.
LEMMA EndCopies ==
  ASSUME Awaiting, main # "idle", Carrying, NEW w \in Workers, LinkEnd(w)
  PROVE  Carrying'
<1>1. Shape /\ Sizes /\ Data /\ Trimmed /\ \E o, got, cut : Flow(o, got, cut)
  BY DEF Awaiting, Inv, Carrying
<1>2. /\ Goto(w, "done") /\ UNCHANGED <<chainVars, current, poisoned, taken, memory, offset, main>>
      /\ \/ pc[w] = "final"
         \/ pc[w] = "body" /\ current[w].mem = NULL
      /\ IF current[w].mem = NULL /\ w \notin poisoned
           THEN Produce(w, current[w]) ELSE UNCHANGED queue
      /\ file' = IF layout[w] = "PWriteAndRecycle" THEN SubSeq(file, 1, offset) ELSE file
  BY DEF LinkEnd, LoopOver, At, mainVars
<1>3. /\ pc'[w] = "done" /\ \A v \in Workers \ {w} : pc'[v] = pc[v]
  BY <1>1, <1>2, GotoMoves DEF Places, chainVars
<1>4. PICK s \in Seq(Records), n \in Nat : s = file /\ n = offset /\ n <= Len(s)
  BY <1>1 DEF Data
<1>5. /\ file' \in Seq(Records) /\ offset' = n /\ n <= Len(file')
      /\ SubSeq(file', 1, n) = SubSeq(s, 1, n)
      /\ layout[w] = "PWriteAndRecycle" => n = Len(file')
  <2>1. CASE layout[w] = "PWriteAndRecycle"
    <3>1. PICK t : t = SubSeq(s, 1, n)
      OBVIOUS
    <3>2. t \in Seq(Records) /\ Len(t) = n
      BY <1>4, <3>1
    <3>3. SubSeq(t, 1, n) = t
      BY <3>2
    <3> QED
      BY <1>2, <1>4, <2>1, <3>1, <3>2, <3>3
  <2>2. CASE layout[w] # "PWriteAndRecycle"
    BY <1>2, <1>4, <2>2
  <2> QED
    BY <2>1, <2>2
<1>6. SubSeq(file', 1, offset') = SubSeq(file, 1, offset)
  BY <1>4, <1>5
<1>7. Sizes' /\ (\E o, got, cut : Flow(o, got, cut))'
  <2>1. CASE pc[w] = "final"
    <3>1. UNCHANGED queue
      BY <1>2, <2>1 DEF Awaiting, OnePoison
    <3>2. \A v \in Workers : Holds(v)' = Holds(v) /\ Passed(v)' = Passed(v)
      BY <1>3, <2>1 DEF Holds, Passed
    <3> QED
      BY <1>1, <1>2, <1>6, <3>1, <3>2, QuietCopies
  <2>2. CASE pc[w] = "body" /\ current[w].mem = NULL
    <3>1. Holds(w) /\ HasPoison(w) /\ w \notin poisoned
      BY <2>2 DEF Holds, HasPoison, Awaiting, OnePoison, Passed
    <3>2. PICK b \in Sized : Produce(w, b) /\ b.mem = NULL
      BY <1>1, <1>2, <2>2, <3>1 DEF Sizes
    <3> QED
      BY <1>1, <1>2, <1>6, <3>1, <3>2, PoisonCopies
  <2> QED
    BY <1>2, <2>1, <2>2
<1>8. Data'
  <2>1. offset' \in 0 .. Len(file')
    BY <1>5
  <2> QED
    BY <1>1, <1>2, <1>5, <2>1 DEF Data, chainVars
<1>9. Trimmed'
  <2>1. /\ Workers' = Workers /\ layout' = layout /\ ~Untrimmed(w)'
        /\ \A v \in Workers \ {w} : Untrimmed(v)' = Untrimmed(v)
    BY <1>2, <1>3 DEF Untrimmed, Workers, Last, chainVars
  <2>2. CASE layout[w] = "PWriteAndRecycle"
    BY <1>1, <1>2, <1>5, <2>1, <2>2 DEF Trimmed
  <2>3. CASE layout[w] # "PWriteAndRecycle"
    <3>1. ~Untrimmed(w) /\ file' = file
      BY <1>2, <2>3 DEF Untrimmed
    <3> QED
      BY <1>1, <1>2, <2>1, <3>1 DEF Trimmed
  <2> QED
    BY <2>2, <2>3
<1> QED
  BY <1>7, <1>8, <1>9 DEF Carrying

\* Every step of a worker.
LEMMA WorkerCopies ==
  ASSUME Awaiting, main # "idle", Carrying, NEW w \in Workers, Worker(w)
  PROVE  Carrying'
<1>1. /\ Shape /\ Sizes /\ Data /\ Trimmed /\ layout \in Layouts
      /\ \E o, got, cut : Flow(o, got, cut)
  BY DEF Awaiting, Inv, Carrying, Setting
<1>2. /\ layout[w] \in Sources => w = 1
      /\ pc[w] \in {"last", "poison"} => w = 1
      /\ pc[w] = "repoison" => current[w].mem = NULL
      /\ w = 1 /\ pc[w] = "body" => current[w].size = BlockSize
  BY InRound DEF Awaiting, OnePoison, SourceEnds
<1>3. Left \in Nat /\ 0 .. Len(input) - taken = 0 .. Left
  BY <1>1 DEF Left, Data
<1>4. CASE LinkInit(w) \/ LinkNext(w) \/ LinkLast(w)
  <2>1. /\ Consume(w) /\ pc[w] \in {"init", "next", "last"}
        /\ \E next \in {"body", "poison", "repoison"} : Goto(w, next)
        /\ UNCHANGED <<chainVars, taken, memory, file, offset, main>>
    <3>1. CASE LinkInit(w)
      BY <3>1 DEF LinkInit, At, dataVars, mainVars
    <3>2. CASE LinkNext(w)
      BY <3>2 DEF LinkNext, At, dataVars, mainVars
    <3>3. CASE LinkLast(w)
      BY <3>3 DEF LinkLast, At, dataVars, mainVars
    <3> QED
      BY <1>4, <3>1, <3>2, <3>3
  <2> QED
    BY <2>1, ConsumeCopies
<1>5. CASE LinkRepoison(w) \/ LinkPoison(w)
  <2>1. /\ Holds(w) /\ pc[w] # "done" /\ Goto(w, "final")
        /\ UNCHANGED <<chainVars, dataVars, mainVars>>
        /\ w = 1 \/ HasPoison(w)
        /\ \E b \in Sized : /\ b.mem = NULL /\ Produce(w, b)
                            /\ UNCHANGED current \/ current' = [current EXCEPT ![w] = b]
    <3>1. CASE LinkRepoison(w)
      <4>1. pc[w] = "repoison" /\ Goto(w, "final") /\ Produce(w, current[w])
            /\ UNCHANGED <<chainVars, current, dataVars, mainVars>>
        BY <3>1 DEF LinkRepoison, At
      <4>2. current[w].mem = NULL /\ current[w] \in Sized /\ Holds(w) /\ HasPoison(w)
        BY <1>1, <1>2, <4>1 DEF Sizes, Holds, HasPoison
      <4> QED
        BY <4>1, <4>2
    <3>2. CASE LinkPoison(w)
      <4>1. /\ pc[w] = "poison" /\ Goto(w, "final") /\ Produce(w, current'[w])
            /\ current' = [current EXCEPT ![w] = [mem |-> NULL, size |-> @.size]]
            /\ UNCHANGED <<chainVars, dataVars, mainVars>>
        BY <3>2 DEF LinkPoison, At
      <4>2. current \in [Workers -> Sized]
        BY <1>1 DEF Sizes
      <4>3. PICK b : b = [mem |-> NULL, size |-> current[w].size]
        OBVIOUS
      <4>4. b \in Sized /\ b.mem = NULL
        BY <4>2, <4>3 DEF Sized
      <4>5. current' = [current EXCEPT ![w] = b] /\ current'[w] = b
        BY <4>1, <4>2, <4>3
      <4>6. Holds(w) /\ w = 1
        BY <1>2, <4>1 DEF Holds
      <4> QED
        BY <4>1, <4>4, <4>5, <4>6
    <3> QED
      BY <1>5, <3>1, <3>2
  <2>2. UNCHANGED <<taken, memory, file, offset, main>>
    BY <2>1 DEF dataVars, mainVars
  <2>3. Sizes' /\ (\E o, got, cut : Flow(o, got, cut))'
    BY <1>1, <2>1, <2>2, PoisonCopies
  <2>4. Data'
    BY <1>1, <2>1, <2>2 DEF Data, chainVars
  <2>5. Trimmed'
    BY <1>1, <2>1, <2>2, TrimmedMoves DEF Places, chainVars
  <2> QED
    BY <2>3, <2>4, <2>5 DEF Carrying
<1>6. CASE ReadBlock(w)
  <2>1. /\ layout[w] \in {"Read", "PRead"} /\ Working(w)
        /\ Taking(w, Smaller(Left, BlockSize)) /\ PassOn(w, Smaller(Left, BlockSize))
        /\ \E next \in {"next", "last"} : Goto(w, next)
        /\ UNCHANGED <<chainVars, poisoned, file, offset, mainVars>>
    BY <1>6 DEF ReadBlock
  <2>2. PICK n \in 0 .. Left : n = Smaller(Left, BlockSize)
    BY <1>3, ChainAssumption DEF Smaller
  <2>3. w = 1 /\ n \in 0 .. Len(input) - taken
    BY <1>2, <1>3, <2>1 DEF Sources
  <2> QED
    BY <2>1, <2>2, <2>3, SourceCopies
<1>7. CASE StreamBlock(w) \/ StreamEnd(w)
  <2>1. /\ layout[w] = "Stream" /\ Working(w) /\ pc[w] = "body"
        /\ \E next \in {"next", "last"} : Goto(w, next)
        /\ UNCHANGED <<chainVars, poisoned, file, offset, mainVars>>
        /\ \/ Left >= current[w].size /\ Taking(w, current[w].size) /\ PassOn(w, current[w].size)
           \/ Taking(w, Left) /\ PassOn(w, Left)
    BY <1>7 DEF StreamBlock, StreamEnd, Working, At
  <2>2. w = 1 /\ current[w].size \in Nat
    BY <1>2, <2>1, ChainAssumption DEF Sources
  <2>3. PICK n \in 0 .. Left : Taking(w, n) /\ PassOn(w, n)
    BY <1>3, <2>1, <2>2
  <2>4. n \in 0 .. Len(input) - taken
    BY <1>3
  <2> QED
    BY <2>1, <2>2, <2>3, <2>4, SourceCopies
<1>8. CASE ReadEnd(w)
  <2>1. /\ pc[w] = "body" /\ Goto(w, "poison")
        /\ UNCHANGED <<chainVars, current, taken, memory, file, offset, main, queue>>
    BY <1>8 DEF ReadEnd, Working, At, dataVars, mainVars
  <2>2. /\ pc'[w] = "poison" /\ \A v \in Workers \ {w} : pc'[v] = pc[v]
    BY <1>1, <2>1, GotoMoves DEF Places, chainVars
  <2>3. \A v \in Workers : Holds(v)' = Holds(v) /\ Passed(v)' = Passed(v)
    BY <2>1, <2>2 DEF Holds, Passed
  <2>4. Sizes' /\ (\E o, got, cut : Flow(o, got, cut))'
    BY <1>1, <2>1, <2>3, QuietCopies
  <2>5. Data'
    BY <1>1, <2>1 DEF Data, chainVars
  <2>6. Trimmed'
    BY <1>1, <2>1, TrimmedMoves DEF Places, chainVars
  <2> QED
    BY <2>4, <2>5, <2>6 DEF Carrying
<1>9. CASE ReadTorn(w)
  <2>1. /\ main' = "aborted"
        /\ UNCHANGED <<chainVars, pc, current, taken, memory, file, offset, queue>>
    BY <1>9 DEF ReadTorn, linkVars, dataVars
  <2>2. \A v \in Workers : Holds(v)' = Holds(v) /\ Passed(v)' = Passed(v)
    BY <2>1 DEF Holds, Passed
  <2>3. Sizes' /\ (\E o, got, cut : Flow(o, got, cut))'
    BY <1>1, <2>1, <2>2, QuietCopies
  <2>4. Data'
    BY <1>1, <2>1 DEF Data, chainVars
  <2>5. Trimmed'
    BY <1>1, <2>1 DEF Trimmed, Untrimmed, Workers, Last, chainVars
  <2> QED
    BY <2>3, <2>4, <2>5 DEF Carrying
<1> QED
  BY <1>4, <1>5, <1>6, <1>7, <1>8, <1>9, EndCopies, FilterCopies, OutputCopies, RecycleCopies
  DEF Worker

\* A round starts with nothing filled and nothing delivered.
LEMMA StartCopies ==
  ASSUME Sizes, Data, NEW l \in Layouts, NEW i \in Inputs, NEW t \in BOOLEAN, Start(l, i, t)
  PROVE  Carrying'
<1>1. /\ layout' = l /\ input' = i /\ taken' = 0 /\ memory' = memory
      /\ queue' = [q \in 0 .. Len(l) - 1 |-> IF q = 0 THEN Populated ELSE <<>>]
      /\ pc' = [w \in 1 .. Len(l) |-> "none"]
      /\ current' = [w \in 1 .. Len(l) |-> Poison]
      /\ file' = IF l[Len(l)] = "PWriteAndRecycle" THEN file ELSE <<>>
      /\ offset' = 0 /\ main' = "adding"
  BY DEF Start
<1>2. /\ l \in Seq(Kinds) /\ Len(l) \in Nat /\ Len(l) >= 2
      /\ i \in Seq(Records) /\ Len(i) \in Nat /\ BlockCount \in Nat \ {0} /\ BlockSize \in Nat
  <2>1. l \in Seq(Kinds) /\ Len(l) \in 2 .. MaxWorkers
    BY ChainAssumption
  <2>2. Len(l) \in Nat
    BY <2>1
  <2>3. i \in Seq(Records)
    BY ChainAssumption
  <2> QED
    BY <2>1, <2>2, <2>3, ChainAssumption
<1>3. Last' = Len(l) /\ Workers' = 1 .. Len(l)
  BY <1>1 DEF Last, Workers
<1>4. \A w \in Workers' : pc'[w] = "none" /\ ~Holds(w)' /\ ~Passed(w)'
                          /\ ~HasPoison(w)' /\ ~HasBlock(w)'
  BY <1>1, <1>3 DEF Holds, Passed, HasPoison, HasBlock
<1>5. \A q \in 1 .. Len(l) - 1 : queue'[q] = <<>> /\ Len(queue'[q]) = 0
  BY <1>1, <1>2
<1>6. file' \in Seq(Records) /\ <<>> \in Seq(Records)
  BY <1>1 DEF Data
<1>7. Sizes'
  <2>1. Populated \in Seq(Sized) /\ <<>> \in Seq(Sized)
    <3>1. Populated \in [1 .. BlockCount -> Sized]
      BY <1>2 DEF Populated, Sized, Memory
    <3> QED
      BY <1>2, <3>1
  <2>2. queue' \in [0 .. Last' - 1 -> Seq(Sized)]
    BY <1>1, <1>3, <2>1
  <2>3. current' \in [Workers' -> Sized]
    BY <1>1, <1>3 DEF Poison, Sized
  <2>4. (\A q \in 1 .. Last - 1 : \A k \in 1 .. Len(queue[q]) : Readable(queue[q][k]))'
    BY <1>3, <1>5
  <2>5. (\A w \in 2 .. Last : Holds(w) => Readable(current[w]))'
    BY <1>2, <1>3, <1>4
  <2>6. memory' \in [Memory -> Seq(Records)]
    BY <1>1 DEF Sizes
  <2> QED
    BY <2>2, <2>3, <2>4, <2>5, <2>6 DEF Sizes
<1>8. Data'
  <2>1. 0 \in 0 .. Len(i) /\ 0 \in 0 .. Len(file')
    BY <1>2, <1>6
  <2> QED
    BY <1>1, <1>2, <1>6, <2>1 DEF Data
<1>9. Trimmed'
  <2>1. CASE l[Len(l)] = "PWriteAndRecycle"
    <3>1. Len(l) \in Workers' /\ Untrimmed(Len(l))'
      BY <1>1, <1>2, <1>3, <1>4, <2>1 DEF Untrimmed
    <3> QED
      BY <1>1, <3>1 DEF Trimmed
  <2>2. CASE l[Len(l)] # "PWriteAndRecycle"
    <3>1. offset' = Len(file')
      BY <1>1, <2>2
    <3> QED
      BY <1>1, <3>1 DEF Trimmed
  <2> QED
    BY <2>1, <2>2
<1>10. PICK o \in 2 .. Len(l) :
         /\ l[o] \in Outputs /\ \A w \in 1 .. Len(l) : l[w] \in Outputs => w = o
         /\ \A w \in 2 .. o - 1 : l[w] = "Filter"
  BY OneOutput
<1>11. PICK got, cut : got = [w \in 1 .. Len(l) |-> 0] /\ cut = [k \in Nat |-> 0]
  OBVIOUS
<1>12. Flow(o, got, cut)'
  <2>1. Delivers(o)'
    BY <1>1, <1>3, <1>10 DEF Delivers
  <2>2. /\ got \in [1 .. Last' -> Nat]
        /\ \A w \in 1 .. Len(l) : got[w] = 0
        /\ \A w \in 1 .. o : got[w] <= got[1]
    <3>1. \A w \in 1 .. Len(l) : got[w] = 0
      BY <1>11
    <3>2. \A w \in 1 .. o : w \in 1 .. Len(l)
      BY <1>2
    <3>3. 1 \in 1 .. Len(l)
      BY <1>2
    <3> QED
      BY <1>3, <1>11, <3>1, <3>2, <3>3
  <2>3. 1 \in 1 .. Len(l) /\ got[1] = 0 /\ o \in 1 .. Len(l) /\ got[o] = 0 /\ cut[0] = 0
    BY <1>2, <1>11
  <2>4. Cuts(got[1], cut)'
    <3>1. 0 \in 0 .. Len(i)
      BY <1>2
    <3>2. cut \in [Nat -> 0 .. Len(i)]
      BY <1>11, <3>1
    <3>3. \A k \in Nat : cut[k] = 0 /\ cut[k] <= cut[k + 1]
      <4> SUFFICES ASSUME NEW k \in Nat PROVE cut[k] = 0 /\ cut[k] <= cut[k + 1]
        OBVIOUS
      <4>1. cut[k] = 0 /\ cut[k + 1] = 0 /\ 0 <= 0
        BY <1>11
      <4> QED
        BY <4>1
    <3> QED
      BY <1>1, <2>3, <3>2, <3>3 DEF Cuts
  <2>5. ASSUME NEW w \in 2 .. o PROVE Fed(w, got, cut)'
    <3>1. w \in 1 .. Len(l) /\ w - 1 \in 1 .. Len(l) /\ w - 1 \in 1 .. Len(l) - 1
      BY <1>2
    <3>2. /\ got[w] = 0 /\ got[w - 1] = 0 /\ Len(queue'[w - 1]) = 0
          /\ ~HasBlock(w)' /\ ~HasPoison(w)' /\ ~Passed(w)'
      BY <1>3, <1>4, <1>5, <2>2, <3>1
    <3>3. Drawn(w, got)' = 0
      BY <3>2 DEF Drawn
    <3> QED
      BY <3>2, <3>3 DEF Fed
  <2>6. (SubSeq(file, 1, offset) = Through(o - 1, Part(0, cut[got[o]])))'
    <3>1. SubSeq(file', 1, 0) = <<>> /\ SubSeq(i, 1, 0) = <<>>
      BY <1>2, <1>6
    <3>2. Through(o - 1, <<>>) = <<>>
      BY <1>6, ThroughConcat
    <3>3. Part(0, 0)' = <<>>
      <4>1. 0 + 1 = 1
        OBVIOUS
      <4> QED
        BY <1>1, <3>1, <4>1 DEF Part
    <3>4. Through(o - 1, Part(0, 0)')  = <<>>
      BY <3>2, <3>3
    <3> QED
      BY <1>1, <2>3, <3>1, <3>4 DEF Through
  <2>7. (\A w \in 2 .. o : Fed(w, got, cut))'
    BY <2>5
  <2> QED
    BY <2>1, <2>2, <2>4, <2>6, <2>7 DEF Flow
<1> QED
  BY <1>7, <1>8, <1>9, <1>12 DEF Carrying

\* Wait takes blocks that have gone all the way.
LEMMA DrainCopies ==
  ASSUME Awaiting, Carrying, Drain
  PROVE  Carrying'
<1>1. /\ Shape /\ Sizes /\ Data /\ Trimmed
      /\ Last \in Nat /\ 0 \in 0 .. Last - 1
  <2>1. main # "idle"
    BY DEF Drain
  <2> QED
    BY <2>1, InRound DEF Awaiting, Inv, Carrying
<1>2. /\ main = "draining" /\ main' \in {"draining", "aborted"}
      /\ queue[0] # <<>> /\ queue' = [queue EXCEPT ![0] = Tail(@)]
      /\ UNCHANGED <<chainVars, pc, current, taken, memory, file, offset>>
  BY DEF Drain, linkVars, dataVars
<1>3. \A v \in Workers : Holds(v)' = Holds(v) /\ Passed(v)' = Passed(v)
  BY <1>2 DEF Holds, Passed
<1>4. Workers' = Workers /\ Last' = Last /\ Workers = 1 .. Last
  BY <1>2 DEF Workers, Last, chainVars
<1>5. queue \in [0 .. Last - 1 -> Seq(Sized)]
  BY <1>1 DEF Sizes
<1>6. \A q \in 1 .. Last - 1 : queue'[q] = queue[q] /\ Len(queue[q]) \in Nat
  BY <1>1, <1>2, <1>5
<1>7. Sizes'
  <2>1. queue' \in [0 .. Last - 1 -> Seq(Sized)]
    BY <1>1, <1>2, <1>5
  <2>2. (\A q \in 1 .. Last - 1 : \A k \in 1 .. Len(queue[q]) : Readable(queue[q][k]))'
    <3>1. ASSUME NEW q \in 1 .. Last - 1, NEW k \in 1 .. Len(queue'[q])
          PROVE  Readable(queue[q][k])'
      <4>1. queue'[q] = queue[q] /\ k \in 1 .. Len(queue[q]) /\ Readable(queue[q][k])
        BY <1>1, <1>6 DEF Sizes
      <4> QED
        BY <1>2, <4>1 DEF Readable
    <3> QED
      BY <1>4, <3>1
  <2>3. (\A w \in 2 .. Last : Holds(w) => Readable(current[w]))'
    <3>1. 2 .. Last \subseteq Workers
      BY <1>1, <1>4
    <3> QED
      BY <1>1, <1>2, <1>3, <1>4, <3>1 DEF Sizes, Readable
  <2> QED
    BY <1>1, <1>2, <1>4, <2>1, <2>2, <2>3 DEF Sizes
<1>8. PICK o, got, cut : Flow(o, got, cut)
  BY DEF Carrying
<1>9. o \in 2 .. Last /\ got \in [1 .. Last -> Nat] /\ \A w \in 2 .. o : Fed(w, got, cut)
  BY <1>8 DEF Flow, Delivers
<1>10. ASSUME NEW w \in 2 .. o PROVE Fed(w, got, cut)'
  <2>1. w \in 2 .. Last /\ w \in Workers /\ w - 1 \in 1 .. Last - 1
    BY <1>1, <1>4, <1>9
  <2>2. queue'[w - 1] = queue[w - 1] /\ Len(queue[w - 1]) \in Nat
    BY <1>6, <2>1
  <2>3. Fed(w, got, cut)
    BY <1>9
  <2> QED
    BY <1>1, <1>2, <1>3, <1>9, <2>1, <2>2, <2>3, FedSame DEF chainVars
<1>11. Flow(o, got, cut)'
  <2>1. (\A w \in 2 .. o : Fed(w, got, cut))'
    BY <1>10
  <2>2. Delivers(o)' /\ Cuts(got[1], cut)'
    BY <1>2, <1>4, <1>8 DEF Flow, Delivers, Cuts, chainVars
  <2>3. (SubSeq(file, 1, offset) = Through(o - 1, Part(0, cut[got[o]])))'
    BY <1>2, <1>8 DEF Flow, Through, Part, chainVars
  <2>4. got \in [1 .. Last' -> Nat] /\ \A w \in 1 .. o : got[w] <= got[1]
    BY <1>4, <1>8 DEF Flow
  <2> QED
    BY <2>1, <2>2, <2>3, <2>4 DEF Flow
<1>12. Data'
  BY <1>1, <1>2 DEF Data, chainVars
<1>13. Trimmed'
  <2>1. \A w \in Workers : Untrimmed(w)' = Untrimmed(w)
    BY <1>2 DEF Untrimmed, chainVars
  <2> QED
    BY <1>1, <1>2, <1>4, <2>1 DEF Trimmed
<1> QED
  BY <1>7, <1>11, <1>12, <1>13 DEF Carrying

\* When Wait begins to drain, every worker has cut its file.
LEMMA WaitCopies ==
  ASSUME Awaiting, Carrying, Wait
  PROVE  Carrying'
<1>1. /\ Sizes /\ Data /\ Trimmed /\ \E o, got, cut : Flow(o, got, cut)
      /\ UNCHANGED <<chainVars, pc, current, queue, taken, memory, file, offset>>
      /\ main = "adding" /\ \A w \in Workers : Over(w)
  BY DEF Wait, Carrying, linkVars, dataVars
<1>2. \A v \in Workers : Holds(v)' = Holds(v) /\ Passed(v)' = Passed(v)
  BY <1>1 DEF Holds, Passed
<1>3. Sizes' /\ (\E o, got, cut : Flow(o, got, cut))'
  BY <1>1, <1>2, QuietCopies
<1>4. \A w \in Workers : ~Untrimmed(w)
  BY <1>1 DEF Over, Untrimmed
<1>5. Workers' = Workers /\ \A w \in Workers : Untrimmed(w)' = Untrimmed(w)
  BY <1>1 DEF Untrimmed, Workers, Last, chainVars
<1>6. Trimmed'
  BY <1>1, <1>4, <1>5 DEF Trimmed
<1>7. Data'
  BY <1>1 DEF Data, chainVars
<1> QED
  BY <1>3, <1>6, <1>7 DEF Carrying

\* A worker is added.
LEMMA AddCopies ==
  ASSUME Awaiting, Carrying, NEW w \in Workers, AddWorker(w)
  PROVE  Carrying'
<1>1. /\ Shape /\ Sizes /\ Data /\ Trimmed /\ \E o, got, cut : Flow(o, got, cut)
      /\ pc[w] = "none" /\ Goto(w, "init")
      /\ UNCHANGED <<chainVars, current, queue, taken, memory, file, offset, main>>
  BY DEF AddWorker, Awaiting, Inv, Carrying, dataVars, mainVars
<1>2. /\ pc'[w] = "init" /\ \A v \in Workers \ {w} : pc'[v] = pc[v]
  BY <1>1, GotoMoves DEF Places, chainVars
<1>3. \A v \in Workers : Holds(v)' = Holds(v) /\ Passed(v)' = Passed(v)
  BY <1>1, <1>2 DEF Holds, Passed
<1>4. Sizes' /\ (\E o, got, cut : Flow(o, got, cut))'
  BY <1>1, <1>3, QuietCopies
<1>5. Trimmed'
  BY <1>1, TrimmedMoves DEF Places, chainVars
<1>6. Data'
  BY <1>1 DEF Data, chainVars
<1> QED
  BY <1>4, <1>5, <1>6 DEF Carrying

\* Between rounds there is only the memory and the file.
LEMMA WaitReturnsCopies ==
  ASSUME Sizes, Data, WaitReturns
  PROVE  Sizes' /\ Data' /\ Trimmed'
<1>1. /\ layout' = <<>> /\ input' = <<>> /\ taken' = 0 /\ queue' = <<>> /\ current' = <<>>
      /\ main' = "idle" /\ UNCHANGED <<memory, file, offset>>
  BY DEF WaitReturns
<1>2. /\ Last' = 0 /\ Workers' = {} /\ 0 .. Last' - 1 = {} /\ 1 .. Last' - 1 = {} /\ 2 .. Last' = {}
      /\ <<>> \in Seq(Records) /\ 0 \in 0 .. Len(<<>>)
  BY <1>1 DEF Last, Workers
<1>3. Sizes'
  BY <1>1, <1>2 DEF Sizes
<1>4. Data'
  BY <1>1, <1>2 DEF Data
<1>5. Trimmed'
  BY <1>1 DEF Trimmed
<1> QED
  BY <1>3, <1>4, <1>5

\* Before the first round nothing is given and nothing delivered.
LEMMA CopyingStarts == Init => Copying
<1> SUFFICES ASSUME Init PROVE Copying
  OBVIOUS
<1>1. /\ layout = <<>> /\ input = <<>> /\ taken = 0 /\ queue = <<>> /\ current = <<>>
      /\ main = "idle" /\ file = <<>> /\ offset = 0 /\ memory = [m \in Memory |-> <<>>]
  BY DEF Init
<1>2. /\ Last = 0 /\ Workers = {} /\ 0 .. Last - 1 = {} /\ 1 .. Last - 1 = {} /\ 2 .. Last = {}
      /\ <<>> \in Seq(Records) /\ 0 \in 0 .. Len(<<>>)
  BY <1>1 DEF Last, Workers
<1>3. Sizes
  BY <1>1, <1>2 DEF Sizes
<1>4. Data /\ Trimmed
  BY <1>1, <1>2 DEF Data, Trimmed
<1> QED
  BY <1>1, <1>3, <1>4, AwaitingStarts DEF Copying

\* Every step keeps the invariant.
LEMMA CopyingKeeps == Copying /\ [Next]_vars => Copying'
<1> SUFFICES ASSUME Copying, [Next]_vars PROVE Copying'
  OBVIOUS
<1>1. Awaiting'
  BY AwaitingKeeps DEF Copying
<1>2. Awaiting /\ Sizes /\ Data /\ Trimmed /\ (main # "idle" => Carrying)
  BY DEF Copying, Carrying
<1>3. Carrying' => Copying'
  BY <1>1 DEF Copying, Carrying
<1>4. ASSUME NEW w \in Workers PROVE main # "idle"
  BY <1>2 DEF Awaiting, Setting, Workers, Last
<1>5. CASE \E l \in Layouts, i \in Inputs, t \in BOOLEAN : Start(l, i, t)
  BY <1>2, <1>3, <1>5, StartCopies
<1>6. CASE \E w \in Workers : AddWorker(w) \/ Worker(w)
  BY <1>2, <1>3, <1>4, <1>6, AddCopies, WorkerCopies
<1>7. CASE Wait \/ Drain
  <2>1. main # "idle"
    BY <1>7 DEF Wait, Drain
  <2> QED
    BY <1>2, <1>3, <1>7, <2>1, WaitCopies, DrainCopies
<1>8. CASE WaitReturns
  <2>1. main' = "idle"
    BY <1>8 DEF WaitReturns
  <2> QED
    BY <1>1, <1>2, <1>8, <2>1, WaitReturnsCopies DEF Copying
<1>9. CASE Done \/ UNCHANGED vars
  <2>1. UNCHANGED <<chainVars, pc, current, queue, taken, memory, file, offset, main>>
    BY <1>9 DEF Done, vars, linkVars, dataVars, mainVars
  <2>2. Workers' = Workers /\ Last' = Last
    BY <2>1 DEF Workers, Last, chainVars
  <2>3. \A v \in Workers : Holds(v)' = Holds(v) /\ Passed(v)' = Passed(v)
    BY <2>1 DEF Holds, Passed
  <2>4. Sizes'
    BY <1>2, <2>1, <2>3, QuietSizes DEF Awaiting, Inv, Shape, chainVars
  <2>5. Data'
    BY <1>2, <2>1 DEF Data, chainVars
  <2>6. Trimmed'
    BY <1>2, <2>1, <2>2 DEF Trimmed, Untrimmed, chainVars
  <2>7. main # "idle" => (\E o, got, cut : Flow(o, got, cut))'
    BY <1>2, <2>1, <2>3, QuietCopies DEF Carrying
  <2> QED
    BY <1>1, <2>1, <2>4, <2>5, <2>6, <2>7 DEF Copying
<1> QED
  BY <1>5, <1>6, <1>7, <1>8, <1>9 DEF Next

-----------------------------------------------------------------------------
(* The copy.                                                               *)

\* What has been delivered in a round is the beginning of what is given.
Prefixed ==
  main # "idle" =>
    /\ offset \in 0 .. Len(KeptInput) /\ KeptInput \in Seq(Records)
    /\ SubSeq(file, 1, offset) = SubSeq(KeptInput, 1, offset)

\* The flow has brought a part of the input, from its start, to the output.
LEMMA CopyingPrefixed == Copying => Prefixed
<1> SUFFICES ASSUME Copying, main # "idle"
             PROVE  /\ offset \in 0 .. Len(KeptInput) /\ KeptInput \in Seq(Records)
                    /\ SubSeq(file, 1, offset) = SubSeq(KeptInput, 1, offset)
  BY DEF Prefixed
<1>1. Data /\ layout \in Layouts
  BY DEF Copying, Awaiting, Setting
<1>2. PICK o, got, cut : Flow(o, got, cut)
  BY DEF Copying
<1>3. KeptInput = Through(o - 1, input)
  BY <1>1, <1>2, GivenIs DEF Flow
<1>4. PICK c \in 0 .. Len(input) : c = cut[got[o]]
  <2>1. o \in 2 .. Last /\ got \in [1 .. Last -> Nat] /\ cut \in [Nat -> 0 .. Len(input)]
    BY <1>2 DEF Flow, Delivers, Cuts
  <2>2. Last \in Nat
    BY DEF Copying, Awaiting, Inv, Shape
  <2>3. got[o] \in Nat
    BY <2>1, <2>2
  <2> QED
    BY <2>1, <2>3
<1>5. SubSeq(file, 1, offset) = Through(o - 1, Part(0, c))
  BY <1>2, <1>4 DEF Flow
<1>6. PICK n \in Nat : n = Len(input) /\ input \in Seq(Records)
  BY <1>1 DEF Data
<1>7. /\ Part(0, c) \in Seq(Records) /\ Part(c, n) \in Seq(Records)
      /\ Part(0, c) \o Part(c, n) = input
  <2>1. c \in Nat /\ 0 <= c /\ c <= c /\ c <= n /\ n <= n /\ c <= Len(input) /\ n <= Len(input) /\ 0 \in Nat
    BY <1>6
  <2>2. Part(0, c) \in Seq(Records)
    BY <1>6, <2>1, PartJoins
  <2>3. Part(c, n) \in Seq(Records)
    BY <1>6, <2>1, PartJoins
  <2>4. Part(0, c) \o Part(c, n) = Part(0, n)
    BY <1>6, <2>1, PartJoins
  <2>5. Part(0, n) = input
    BY <1>6 DEF Part
  <2> QED
    BY <2>2, <2>3, <2>4, <2>5
<1>8. PICK s \in Seq(Records), t \in Seq(Records) :
        s = Through(o - 1, Part(0, c)) /\ t = Through(o - 1, Part(c, n))
  BY <1>7, ThroughConcat
<1>9. KeptInput = s \o t
  BY <1>3, <1>7, <1>8, ThroughConcat
<1>10. Len(s) = offset
  <2>1. file \in Seq(Records) /\ offset \in 0 .. Len(file)
    BY <1>1 DEF Data
  <2>2. Len(SubSeq(file, 1, offset)) = offset
    BY <2>1
  <2> QED
    BY <1>5, <1>8, <2>2
<1>11. SubSeq(s \o t, 1, Len(s)) = s /\ s \o t \in Seq(Records) /\ Len(s) \in 0 .. Len(s \o t)
  OBVIOUS
<1> QED
  BY <1>5, <1>8, <1>9, <1>10, <1>11

\* When the poison has come round, everything has been delivered.
LEMMA AllDelivered ==
  ASSUME Copying, WaitReturns
  PROVE  offset = Len(file) /\ file = KeptInput
<1>1. /\ Data /\ Trimmed /\ layout \in Layouts /\ OnePoison /\ SourceEnds
      /\ main = "draining" /\ queue[0] # <<>> /\ Head(queue[0]).mem = NULL
  BY DEF Copying, Awaiting, Setting, WaitReturns
<1>2. Last \in Nat /\ Last >= 2 /\ 0 \in 0 .. Last - 1
  BY <1>1, InRound DEF Copying, Awaiting
<1>3. PICK o, got, cut : Flow(o, got, cut)
  BY <1>1 DEF Copying
<1>4. /\ o \in 2 .. Last /\ got \in [1 .. Last -> Nat]
      /\ \A w \in 2 .. o : Fed(w, got, cut)
      /\ Cuts(got[1], cut)
      /\ SubSeq(file, 1, offset) = Through(o - 1, Part(0, cut[got[o]]))
  BY <1>3 DEF Flow, Delivers
<1>5. Passed(Last)
  <2>1. queue[0] \in Seq(Sized)
    BY <1>2 DEF Copying, Sizes
  <2>2. 1 \in 1 .. Len(queue[0]) /\ Head(queue[0]) = queue[0][1]
    BY <1>1, <2>1
  <2>3. Passed(Feeder(0))
    BY <1>1, <1>2, <2>2 DEF OnePoison
  <2> QED
    BY <2>3 DEF Feeder
<1>6. \A w \in 1 .. Last : Passed(w)
  BY <1>1, <1>2, <1>5 DEF OnePoison, Workers
<1>7. taken = Len(input)
  <2>1. 1 \in Workers /\ pc[1] \in {"final", "done"}
    BY <1>2, <1>6 DEF Workers, Passed
  <2> QED
    BY <1>1, <2>1 DEF SourceEnds
<1>8. got[o] = got[1]
  <2> DEFINE P == {k \in Nat : k + 1 \in 1 .. o => got[k + 1] = got[1]}
  <2>1. PICK m \in Nat : m = o - 1
    BY <1>2, <1>4
  <2>2. 0 \in P
    OBVIOUS
  <2>3. ASSUME NEW k \in 0 .. m - 1, k \in P PROVE k + 1 \in P
    <3>1. PICK w \in 2 .. o : w = k + 1 + 1
      BY <1>4, <2>1
    <3>2. w - 1 = k + 1 /\ w - 1 \in 1 .. o /\ w \in 1 .. Last
      BY <1>2, <1>4, <3>1
    <3>3. got[w] = got[w - 1]
      BY <1>4, <1>6, <3>2 DEF Fed
    <3>4. got[k + 1] = got[1]
      BY <2>3, <3>2
    <3> QED
      BY <3>1, <3>2, <3>3, <3>4
  <2> HIDE DEF P
  <2>4. 0 .. m \subseteq P
    BY <2>1, <2>2, <2>3, F!UpTo
  <2>5. m \in P
    BY <2>1, <2>4
  <2> QED
    BY <1>4, <2>1, <2>5 DEF P
<1>9. cut[got[o]] = Len(input)
  <2>1. PICK g \in Nat : g = got[1] /\ g >= g
    BY <1>2, <1>4
  <2>2. Cuts(g, cut)
    BY <1>4, <2>1
  <2>3. cut[g] = taken
    BY <2>1, <2>2 DEF Cuts
  <2> QED
    BY <1>7, <1>8, <2>1, <2>3
<1>10. Part(0, Len(input)) = input
  BY <1>1 DEF Data, Part
<1>11. offset = Len(file)
  BY <1>1 DEF Trimmed
<1>12. SubSeq(file, 1, offset) = file
  BY <1>1, <1>11 DEF Data
<1>13. KeptInput = Through(o - 1, input)
  BY <1>1, <1>3, GivenIs DEF Flow
<1> QED
  BY <1>4, <1>9, <1>10, <1>11, <1>12, <1>13

\* What is out of the chain, and a step that leaves it and what is given alone.
Delivered == IF main = "idle" THEN file ELSE SubSeq(file, 1, offset)

\* The file may be cut to what has been delivered, no more.
LEMMA CopyStutters ==
  ASSUME UNCHANGED <<layout, input, offset>>, main # "idle", main' # "idle",
         SubSeq(file', 1, offset) = SubSeq(file, 1, offset)
  PROVE  UNCHANGED <<KeptInput, Delivered, main # "idle">>
<1>1. KeptInput' = KeptInput
  BY DEF KeptInput, Workers, Last
<1> QED
  BY <1>1 DEF Delivered

\* The output delivers some of the records that are left, or, given an empty
\* block, none.
LEMMA OutputDelivers ==
  ASSUME Copying, Prefixed, Prefixed', NEW w \in Workers, Output(w), main # "idle"
  PROVE  \/ /\ main' = main /\ KeptInput' = KeptInput
            /\ \E n \in Len(Delivered) + 1 .. Len(KeptInput) : Delivered' = SubSeq(KeptInput, 1, n)
         \/ UNCHANGED <<KeptInput, Delivered, main # "idle">>
<1>1. /\ layout[w] \in Outputs /\ Working(w) /\ offset' = offset + current[w].size
      /\ UNCHANGED <<layout, input, main>>
  BY DEF Output, chainVars, mainVars
<1>2. KeptInput' = KeptInput
  BY <1>1 DEF KeptInput, Workers, Last
<1>3. Data /\ current[w].size \in Nat
  BY DEF Copying, Sizes, Sized
<1>4. offset \in 0 .. Len(file) /\ file \in Seq(Records)
  BY <1>3 DEF Data
<1>5. Len(Delivered) = offset
  BY <1>4 DEF Delivered
<1>6. /\ Delivered = SubSeq(KeptInput, 1, offset)
      /\ Delivered' = SubSeq(KeptInput, 1, offset')
      /\ offset' \in 0 .. Len(KeptInput)
  BY <1>1, <1>2 DEF Prefixed, Delivered
<1>7. CASE current[w].size = 0
  <2>1. offset' = offset
    BY <1>1, <1>4, <1>7
  <2> QED
    BY <1>1, <1>2, <1>6, <2>1
<1>8. CASE current[w].size # 0
  <2>1. offset' \in Len(Delivered) + 1 .. Len(KeptInput)
    BY <1>1, <1>3, <1>4, <1>5, <1>6, <1>8
  <2> QED
    BY <1>1, <1>2, <1>6, <2>1
<1> QED
  BY <1>7, <1>8

\* Each step of the chain is one of the copy, or none.
LEMMA CopyStep ==
  ASSUME Copying, Prefixed, Prefixed', [Next]_vars
  PROVE  [Copy!Next]_<<KeptInput, Delivered, main # "idle">>
<1> DEFINE Stutter == UNCHANGED <<KeptInput, Delivered, main # "idle">>
<1>1. ASSUME NEW l \in Layouts, NEW i \in Inputs, NEW t \in BOOLEAN, Start(l, i, t)
      PROVE  Copy!Begin
  <2>1. /\ main = "idle" /\ main' = "adding" /\ input' = i /\ offset' = 0
        /\ file' = IF l[Len(l)] = "PWriteAndRecycle" THEN file ELSE <<>>
    BY <1>1 DEF Start
  <2>2. SubSeq(file', 1, 0) = <<>>
    <3>1. file' \in Seq(Records)
      BY <2>1 DEF Copying, Data
    <3> QED
      BY <3>1
  <2>3. KeptInput' \in {KeepOnly(j) : j \in Inputs} \cup Inputs
    <3>1. KeptInput' = KeepOnly(i) \/ KeptInput' = i
      BY <2>1 DEF KeptInput, KeepOnly
    <3> QED
      BY <3>1
  <2> QED
    BY <2>1, <2>2, <2>3 DEF Copy!Begin
<1>2. ASSUME NEW w \in Workers PROVE main # "idle"
  BY DEF Copying, Awaiting, Setting, Workers, Last
<1>3. ASSUME NEW w \in Workers, AddWorker(w) PROVE Stutter
  <2>1. UNCHANGED <<layout, input, file, offset, main>>
    BY <1>3 DEF AddWorker, chainVars, dataVars, mainVars
  <2> QED
    BY <1>2, <2>1, CopyStutters
<1>4. ASSUME NEW w \in Workers, Output(w) PROVE Copy!Deliver \/ Stutter
  BY <1>2, <1>4, OutputDelivers DEF Copy!Deliver, Delivered
<1>5. ASSUME NEW w \in Workers, Worker(w), ~Output(w) PROVE Stutter
  <2>1. UNCHANGED <<layout, input, offset>> /\ (main' = main \/ main' = "aborted")
        /\ (file' = file \/ file' = SubSeq(file, 1, offset))
    <3>1. CASE LinkInit(w) \/ LinkNext(w) \/ LinkRepoison(w) \/ LinkLast(w) \/ LinkPoison(w)
      BY <3>1 DEF LinkInit, LinkNext, LinkRepoison, LinkLast, LinkPoison, chainVars, dataVars, mainVars
    <3>2. CASE LinkEnd(w)
      BY <3>2 DEF LinkEnd, chainVars, mainVars
    <3>3. CASE ReadBlock(w) \/ ReadEnd(w) \/ ReadTorn(w) \/ StreamBlock(w) \/ StreamEnd(w)
      BY <3>3 DEF ReadBlock, ReadEnd, ReadTorn, StreamBlock, StreamEnd, chainVars, dataVars, mainVars
    <3>4. CASE Filter(w) \/ Recycle(w)
      BY <3>4 DEF Filter, Recycle, chainVars, dataVars, mainVars
    <3> QED
      BY <1>5, <3>1, <3>2, <3>3, <3>4 DEF Worker
  <2>2. SubSeq(file', 1, offset) = SubSeq(file, 1, offset)
    <3>1. file \in Seq(Records) /\ offset \in 0 .. Len(file)
      BY DEF Copying, Data
    <3>2. PICK t : t = SubSeq(file, 1, offset)
      OBVIOUS
    <3>3. t \in Seq(Records) /\ Len(t) = offset
      BY <3>1, <3>2
    <3>4. SubSeq(t, 1, offset) = t
      BY <3>3
    <3> QED
      BY <2>1, <3>2, <3>4
  <2>3. main # "idle" /\ main' # "idle"
    BY <1>2, <2>1
  <2> QED
    BY <2>1, <2>2, <2>3, CopyStutters
<1>6. CASE Wait \/ Drain
  <2>1. UNCHANGED <<layout, input, file, offset>> /\ main # "idle" /\ main' # "idle"
    BY <1>6 DEF Wait, Drain, chainVars, dataVars
  <2> QED
    BY <2>1, CopyStutters
<1>7. CASE WaitReturns
  <2>1. /\ main = "draining" /\ main' = "idle" /\ layout' = <<>> /\ input' = <<>>
        /\ UNCHANGED <<file, offset>>
    BY <1>7 DEF WaitReturns
  <2>2. offset = Len(file) /\ file = KeptInput
    BY <1>7, AllDelivered
  <2>3. SubSeq(file, 1, offset) = file
    BY <2>2 DEF Copying, Data
  <2>4. KeptInput' = <<>>
    BY <2>1 DEF KeptInput, Workers, Last
  <2> QED
    BY <2>1, <2>2, <2>3, <2>4 DEF Copy!Next, Copy!End, Delivered
<1>8. CASE Done \/ UNCHANGED vars
  <2>1. UNCHANGED <<layout, input, file, offset, main>>
    BY <1>8 DEF Done, vars, chainVars, dataVars, mainVars
  <2> QED
    BY <2>1 DEF KeptInput, Workers, Last, Delivered
<1> QED
  BY <1>1, <1>3, <1>4, <1>5, <1>6, <1>7, <1>8 DEF Next, Copy!Next

\* What the user of a chain relies on (Chain, chain.hh:56-166): the records of
\* the source come out in order, each once, and when Wait returns they are all
\* there, for every layout of workers, every number and size of blocks, and
\* however the threads interleave.
THEOREM ImplementsCopyHolds == Spec => ImplementsCopy
<1>1. Init => Copy!Init
  <2> SUFFICES ASSUME Init PROVE Copy!Init
    OBVIOUS
  <2>1. layout = <<>> /\ input = <<>> /\ file = <<>> /\ main = "idle"
    BY DEF Init
  <2>2. KeptInput = <<>>
    BY <2>1 DEF KeptInput, Workers, Last
  <2> QED
    BY <2>1, <2>2 DEF Copy!Init
<1>2. Copying /\ Prefixed /\ Prefixed' /\ [Next]_vars
        => [Copy!Next]_<<KeptInput, Delivered, main # "idle">>
  BY CopyStep
<1> QED
  BY <1>1, <1>2, CopyingStarts, CopyingKeeps, CopyingPrefixed, PTL
  DEF Spec, ImplementsCopy, Copy!Spec, Delivered
=============================================================================
