-------------------------- MODULE ThreadPoolProofs --------------------------
(***************************************************************************)
(* A pool loses no request and handles none twice, and its destructor      *)
(* returns after the last of them, for any number of workers, requests and *)
(* places in the queue.                                                    *)
(***************************************************************************)
EXTENDS ThreadPool, FiniteSetTheorems, TLAPS

Returned == {w \in Workers : worker[w] = "returned"}
Busy == {w \in Workers : worker[w] = "handle"}

(* What the stage of the destructor says of the poisons and the workers.   *)
Stages ==
  /\ owner = "produce" => poisons = 0
  /\ owner = "poison" => poisons < Cardinality(Workers)
  /\ owner \in {"join", "destroyed"} => poisons = Cardinality(Workers)
  /\ owner = "destroyed" => Returned = Workers

(* t requests were consumed: the queue has the others in order, and after  *)
(* them the poisons that no worker has got.                                *)
InQueue(t) ==
  /\ Cardinality(Returned) <= poisons
  /\ Returned # {} => t = produced
  /\ Len(in) = (produced - t) + (poisons - Cardinality(Returned))
  /\ \A i \in 1 .. Len(in) : in[i] = IF i <= produced - t THEN t + i ELSE Poison

(* Each of the t is in one worker's hands or was handled, once.            *)
TakenOnce(t) ==
  /\ InHand \cup Done = 1 .. t
  /\ InHand \cap Done = {}
  /\ \A v, w \in Busy : v # w => request[v] # request[w]
  /\ Len(handled) + Cardinality(Busy) = t

(* The inductive invariant.  RequestsConserved alone is not inductive: that*)
(* a worker's poison never comes before a request needs their order in the *)
(* queue, and DestroyedMeansHandled needs the number of poisons.           *)
IInv == PoolOK /\ Stages /\ \E t \in 0 .. produced : InQueue(t) /\ TakenOnce(t)

\* Sets of workers are finite.
LEMMA FiniteWorkers ==
  ASSUME NEW S \in SUBSET Workers
  PROVE  IsFiniteSet(S) /\ Cardinality(S) \in Nat
BY ThreadPoolAssumption, FS_Subset, FS_CardinalityType

\* A request is no poison.
LEMMA PoisonIsNoRequest == Poison \notin Requests
BY ThreadPoolAssumption DEF Requests

\* The pool starts with an empty queue and idle workers.
LEMMA PoolStarts == PoolInit => IInv
<1>1. SUFFICES ASSUME PoolInit PROVE IInv
  OBVIOUS
<1>2. PoolOK
  <2>1. Cardinality(Workers) \in Nat
    BY FiniteWorkers
  <2>2. in \in Seq(Requests \cup {Poison}) /\ Len(in) <= QueueLength
    BY <1>1, ThreadPoolAssumption DEF PoolInit, Queue!Init
  <2>3. request \in [Workers -> Requests \cup {Poison, NoRequest}]
    BY <1>1 DEF PoolInit, Queue!Init
  <2>4. produced \in 0 .. MaxRequests /\ poisons \in 0 .. Cardinality(Workers)
    BY <1>1, <2>1, ThreadPoolAssumption DEF PoolInit
  <2>5. handled \in Seq(Requests)
    BY <1>1 DEF PoolInit
  <2>6. QED
    BY <1>1, <2>2, <2>3, <2>4, <2>5 DEF PoolInit, PoolOK
<1>3. Returned = {} /\ Busy = {} /\ InHand = {} /\ Done = {}
  BY <1>1 DEF PoolInit, Queue!Init, Returned, Busy, InHand, Done
<1>4. Cardinality({}) = 0
  BY FS_EmptySet
<1>5. Stages
  BY <1>1, <1>3 DEF PoolInit, Stages
<1>6. InQueue(0) /\ TakenOnce(0)
  BY <1>1, <1>3, <1>4 DEF PoolInit, Queue!Init, InQueue, TakenOnce
<1>7. 0 \in 0 .. produced
  BY <1>1 DEF PoolInit
<1>8. QED
  BY <1>2, <1>5, <1>6, <1>7 DEF IInv

\* Produce puts the next request behind the others: there are no poisons yet.
LEMMA ProduceKeeps ==
  ASSUME IInv, Produce
  PROVE  IInv'
<1>1. PICK t \in 0 .. produced : InQueue(t) /\ TakenOnce(t)
  BY DEF IInv
<1>2. PoolOK'
  BY ThreadPoolAssumption DEF IInv, PoolOK, Produce, Queue!Put, Requests
<1>3. Returned' = Returned /\ Busy' = Busy /\ InHand' = InHand /\ Done' = Done
  BY DEF Produce, Queue!Put, Returned, Busy, InHand, Done
<1>4. poisons = 0 /\ Cardinality(Returned) \in Nat
  BY FiniteWorkers DEF IInv, Stages, Produce, Returned
<1>5. produced \in Nat /\ t \in Nat
  BY DEF IInv, PoolOK
<1>6. InQueue(t)'
  <2>1. Len(in) = produced - t
    BY <1>1, <1>4, <1>5 DEF InQueue
  <2>2. /\ in \in Seq(Requests \cup {Poison}) /\ in' = Append(in, produced + 1)
        /\ produced + 1 \in Requests \cup {Poison}
    BY ThreadPoolAssumption DEF IInv, PoolOK, Produce, Queue!Put, Requests
  <2>3. \A i \in 1 .. Len(in) : in[i] = t + i
    BY <1>1, <1>5, <2>1 DEF InQueue
  <2>4. Len(in') = produced + 1 - t
    <3>1. Len(in') = Len(in) + 1
      BY <2>2
    <3>2. QED
      BY <1>5, <2>1, <3>1
  <2>5. \A i \in 1 .. Len(in') : in'[i] = t + i
    BY <1>5, <2>1, <2>2, <2>3, <2>4
  <2>6. Cardinality(Returned) = 0
    BY <1>1, <1>4 DEF InQueue
  <2>7. Returned = {}
    BY <2>6, FiniteWorkers, FS_EmptySet DEF Returned
  <2>8. QED
    BY <1>3, <1>4, <1>5, <2>4, <2>5, <2>6, <2>7 DEF InQueue, Produce
<1>7. TakenOnce(t)'
  BY <1>1, <1>3 DEF TakenOnce, Produce, Queue!Put
<1>8. Stages'
  BY <1>3 DEF IInv, Stages, Produce
<1>9. t \in 0 .. produced'
  BY <1>5 DEF Produce
<1>10. QED
  BY <1>2, <1>6, <1>7, <1>8, <1>9 DEF IInv

\* The owner's other steps: only ProducePoison changes the queue.
LEMMA DestructorKeeps ==
  ASSUME IInv, Destroy \/ ProducePoison \/ JoinAll
  PROVE  IInv'
<1>1. PICK t \in 0 .. produced : InQueue(t) /\ TakenOnce(t)
  BY DEF IInv
<1>2. Cardinality(Workers) \in Nat /\ Cardinality(Workers) # 0 /\ Cardinality(Returned) \in Nat
  BY FiniteWorkers, FS_EmptySet, ThreadPoolAssumption DEF Returned
<1>3. PoolOK /\ Stages /\ poisons \in Nat /\ produced \in Nat /\ t \in Nat
  BY DEF IInv, PoolOK
<1>4. /\ Returned' = Returned /\ Busy' = Busy /\ InHand' = InHand /\ Done' = Done
      /\ produced' = produced /\ handled' = handled /\ request' = request
  BY DEF Destroy, ProducePoison, JoinAll, Queue!Put, Returned, Busy, InHand, Done
<1>5. TakenOnce(t)'
  BY <1>1, <1>4 DEF TakenOnce
<1>6. t \in 0 .. produced'
  BY <1>4
<1>7. CASE ProducePoison
  <2>1. in \in Seq(Requests \cup {Poison}) /\ in' = Append(in, Poison) /\ poisons' = poisons + 1
    BY <1>3, <1>7 DEF PoolOK, ProducePoison, Queue!Put
  <2>2. poisons < Cardinality(Workers)
    BY <1>3, <1>7 DEF Stages, ProducePoison
  <2>3. PoolOK'
    BY <1>2, <1>3, <1>7, <2>1, <2>2, ThreadPoolAssumption DEF PoolOK, ProducePoison, Queue!Put
  <2>4. Stages'
    BY <1>2, <1>3, <1>7, <2>1, <2>2 DEF Stages, ProducePoison
  <2>5. InQueue(t)'
    <3>1. Len(in') = Len(in) + 1 /\ Len(in) \in Nat
      BY <2>1
    <3>2. \A i \in 1 .. Len(in') : in'[i] = IF i = Len(in') THEN Poison ELSE in[i]
      BY <2>1, <3>1
    <3>3. \A i \in 1 .. Len(in) : in[i] = IF i <= produced - t THEN t + i ELSE Poison
      BY <1>1 DEF InQueue
    <3>4. Len(in') > produced - t
      BY <1>1, <1>2, <1>3, <3>1 DEF InQueue
    <3>5. \A i \in 1 .. Len(in') : in'[i] = IF i <= produced - t THEN t + i ELSE Poison
      BY <1>3, <3>1, <3>2, <3>3, <3>4
    <3>6. Len(in') = (produced - t) + (poisons' - Cardinality(Returned))
      BY <1>1, <1>2, <1>3, <2>1, <3>1 DEF InQueue
    <3>7. Cardinality(Returned) <= poisons' /\ (Returned # {} => t = produced)
      BY <1>1, <1>2, <1>3, <2>1 DEF InQueue
    <3>8. QED
      BY <1>4, <3>5, <3>6, <3>7 DEF InQueue
  <2>6. QED
    BY <1>5, <1>6, <2>3, <2>4, <2>5 DEF IInv
<1>8. CASE Destroy \/ JoinAll
  <2>1. in' = in /\ poisons' = poisons
    BY <1>8 DEF Destroy, JoinAll
  <2>2. InQueue(t)'
    BY <1>1, <1>4, <2>1 DEF InQueue
  <2>3. PoolOK'
    BY <1>3, <1>8 DEF PoolOK, Destroy, JoinAll
  <2>4. Stages'
    BY <1>2, <1>3, <1>4, <1>8 DEF Stages, Destroy, JoinAll, Returned
  <2>5. QED
    BY <1>5, <1>6, <2>2, <2>3, <2>4 DEF IInv
<1>9. QED
  BY <1>7, <1>8

\* Consume: a request goes to the hands of one worker, a poison ends it.
LEMMA ConsumeKeeps ==
  ASSUME IInv, NEW c \in Workers, Consume(c)
  PROVE  IInv'
<1>1. PICK t \in 0 .. produced : InQueue(t) /\ TakenOnce(t)
  BY DEF IInv
<1>2. PoolOK /\ Stages /\ poisons \in Nat /\ produced \in Nat /\ t \in Nat /\ produced <= MaxRequests
  BY DEF IInv, PoolOK
<1>3. /\ in \in Seq(Requests \cup {Poison}) /\ in # <<>> /\ worker[c] = "consume"
      /\ in' = Tail(in) /\ request' = [request EXCEPT ![c] = Head(in)]
      /\ UNCHANGED <<owner, produced, poisons, handled, aborted>>
      /\ worker' = [worker EXCEPT ![c] = IF request'[c] = Poison THEN "returned" ELSE "handle"]
  BY <1>2 DEF PoolOK, Consume, Queue!Get
<1>4. /\ Len(in) \in Nat \ {0} /\ Head(in) = in[1] /\ Head(in) \in Requests \cup {Poison}
      /\ in' \in Seq(Requests \cup {Poison})
      /\ Len(in') = Len(in) - 1 /\ \A i \in 1 .. Len(in') : in'[i] = in[i + 1]
  BY <1>3
<1>5. /\ request \in [Workers -> Requests \cup {Poison, NoRequest}]
      /\ worker \in [Workers -> {"consume", "handle", "returned"}]
      /\ handled \in Seq(Requests)
  BY <1>2 DEF PoolOK
<1>6. request'[c] = Head(in) /\ \A w \in Workers \ {c} : request'[w] = request[w]
  BY <1>3, <1>5
<1>7. PoolOK'
  <2>1. Len(in') <= QueueLength
    BY <1>2, <1>4, ThreadPoolAssumption DEF PoolOK
  <2>2. request' \in [Workers -> Requests \cup {Poison, NoRequest}]
    BY <1>3, <1>4, <1>5
  <2>3. worker' \in [Workers -> {"consume", "handle", "returned"}]
    BY <1>3, <1>5
  <2>4. QED
    BY <1>2, <1>3, <1>4, <2>1, <2>2, <2>3 DEF PoolOK
<1>8. /\ Cardinality(Returned) \in Nat /\ Cardinality(Busy) \in Nat
      /\ IsFiniteSet(Returned) /\ IsFiniteSet(Busy)
  BY FiniteWorkers DEF Returned, Busy
<1>9. c \notin Returned /\ c \notin Busy /\ Done' = Done
  BY <1>3 DEF Returned, Busy, Done
<1>10. in[1] = IF 1 <= produced - t THEN t + 1 ELSE Poison
  BY <1>1, <1>4 DEF InQueue
<1>11. \A i \in 1 .. Len(in') :
         in'[i] = IF i + 1 <= produced - t THEN t + (i + 1) ELSE Poison
  <2>1. TAKE i \in 1 .. Len(in')
  <2>2. i + 1 \in 1 .. Len(in)
    BY <1>4
  <2>3. in[i + 1] = IF i + 1 <= produced - t THEN t + (i + 1) ELSE Poison
    BY <1>1, <2>2 DEF InQueue
  <2>4. QED
    BY <1>4, <2>3
<1>12. CASE 1 <= produced - t
  <2>1. Head(in) = t + 1 /\ t + 1 \in Requests /\ t + 1 # Poison
    <3>1. t + 1 \in Requests
      BY <1>2, <1>12, ThreadPoolAssumption DEF Requests
    <3>2. QED
      BY <1>4, <1>10, <1>12, <3>1, PoisonIsNoRequest
  <2>2. Returned = {} /\ Cardinality(Returned) = 0
    <3>1. t # produced
      BY <1>2, <1>12
    <3>2. Returned = {}
      BY <1>1, <3>1 DEF InQueue
    <3>3. QED
      BY <3>2, FS_EmptySet
  <2>3. worker' = [worker EXCEPT ![c] = "handle"]
    BY <1>3, <1>6, <2>1
  <2>4. Returned' = Returned /\ Busy' = Busy \cup {c}
    BY <1>5, <1>3, <2>3 DEF Returned, Busy
  <2>5. Cardinality(Busy') = Cardinality(Busy) + 1
    BY <1>8, <1>9, <2>4, FS_AddElement
  <2>6. InHand = {request[w] : w \in Busy} /\ InHand' = {request'[w] : w \in Busy'}
    BY DEF InHand, Busy
  <2>7. \A w \in Busy : w # c /\ w \in Workers /\ request'[w] = request[w]
    BY <1>6, <1>9 DEF Busy
  <2>8. InHand' = InHand \cup {t + 1}
    BY <1>6, <2>1, <2>4, <2>6, <2>7
  <2>9. InQueue(t + 1)'
    <3>1. Len(in') = (produced - (t + 1)) + (poisons - Cardinality(Returned))
      BY <1>1, <1>2, <1>4, <1>8 DEF InQueue
    <3>2. \A i \in 1 .. Len(in') :
            in'[i] = IF i <= produced - (t + 1) THEN (t + 1) + i ELSE Poison
      BY <1>2, <1>4, <1>11
    <3>3. QED
      BY <1>1, <1>3, <2>2, <2>4, <3>1, <3>2 DEF InQueue
  <2>10. TakenOnce(t + 1)'
    <3>1. InHand \cup Done = 1 .. t /\ InHand \cap Done = {}
      BY <1>1 DEF TakenOnce
    <3>2. (InHand \cup Done)' = 1 .. (t + 1) /\ (InHand \cap Done)' = {}
      BY <1>2, <1>9, <2>8, <3>1
    <3>3. \A w \in Busy : request[w] \in 1 .. t
      BY <2>6, <3>1
    <3>4. \A v, w \in Busy' : v # w => request'[v] # request'[w]
      <4>1. \A w \in Busy : request'[w] # t + 1
        BY <1>2, <2>7, <3>3
      <4>2. \A v, w \in Busy : v # w => request'[v] # request'[w]
        BY <1>1, <2>7 DEF TakenOnce
      <4>3. QED
        BY <1>6, <2>1, <2>4, <4>1, <4>2
    <3>5. Len(handled') + Cardinality(Busy') = t + 1
      BY <1>1, <1>2, <1>3, <1>5, <1>8, <2>5 DEF TakenOnce
    <3>6. QED
      BY <3>2, <3>4, <3>5 DEF TakenOnce
  <2>11. Stages'
    <3>1. owner # "destroyed"
      BY <1>2, <2>2 DEF Stages
    <3>2. QED
      BY <1>2, <1>3, <3>1 DEF Stages
  <2>12. t + 1 \in 0 .. produced'
    BY <1>2, <1>3, <1>12
  <2>13. QED
    BY <1>7, <2>9, <2>10, <2>11, <2>12 DEF IInv
<1>13. CASE ~(1 <= produced - t)
  <2>1. Head(in) = Poison /\ t = produced
    BY <1>2, <1>4, <1>10, <1>13
  <2>2. worker' = [worker EXCEPT ![c] = "returned"]
    BY <1>3, <1>6, <2>1
  <2>3. Returned' = Returned \cup {c} /\ Busy' = Busy
    BY <1>5, <1>3, <2>2 DEF Returned, Busy
  <2>4. Cardinality(Returned') = Cardinality(Returned) + 1
    BY <1>8, <1>9, <2>3, FS_AddElement
  <2>5. \A w \in Busy : request'[w] = request[w]
    BY <1>6, <1>9 DEF Busy
  <2>6. InHand' = InHand
    BY <2>3, <2>5 DEF InHand, Busy
  <2>7. InQueue(t)'
    <3>1. Len(in) = poisons - Cardinality(Returned)
      BY <1>1, <1>2, <1>8, <2>1 DEF InQueue
    <3>2. Cardinality(Returned') <= poisons
      BY <1>2, <1>4, <1>8, <2>4, <3>1
    <3>3. Len(in') = poisons - Cardinality(Returned')
      BY <1>2, <1>4, <1>8, <2>4, <3>1
    <3>4. \A i \in 1 .. Len(in') : in'[i] = Poison
      BY <1>2, <1>4, <1>11, <2>1
    <3>5. QED
      BY <1>2, <1>3, <1>4, <1>8, <2>1, <2>4, <3>2, <3>3, <3>4 DEF InQueue
  <2>8. TakenOnce(t)'
    BY <1>1, <1>3, <1>9, <2>3, <2>5, <2>6 DEF TakenOnce
  <2>9. Stages'
    BY <1>2, <1>3, <2>3 DEF Stages, Returned
  <2>10. t \in 0 .. produced'
    BY <1>2, <1>3
  <2>11. QED
    BY <1>7, <2>7, <2>8, <2>9, <2>10 DEF IInv
<1>14. QED
  BY <1>12, <1>13

\* Handle: a request goes from one worker's hands to the handled ones.
LEMMA HandleKeeps ==
  ASSUME IInv, NEW c \in Workers, Handle(c)
  PROVE  IInv'
<1>1. PICK t \in 0 .. produced : InQueue(t) /\ TakenOnce(t)
  BY DEF IInv
<1>2. PoolOK /\ Stages /\ t \in Nat
  BY DEF IInv, PoolOK
<1>3. /\ worker[c] = "handle" /\ worker' = [worker EXCEPT ![c] = "consume"]
      /\ handled' = Append(handled, request[c])
      /\ UNCHANGED <<in, request, owner, produced, poisons, aborted>>
  BY DEF Handle
<1>4. /\ worker \in [Workers -> {"consume", "handle", "returned"}]
      /\ handled \in Seq(Requests)
  BY <1>2 DEF PoolOK
<1>5. Returned' = Returned /\ Busy' = Busy \ {c} /\ c \in Busy
  BY <1>3, <1>4 DEF Returned, Busy
<1>6. IsFiniteSet(Busy) /\ Cardinality(Busy) \in Nat
  BY FiniteWorkers DEF Busy
<1>7. Cardinality(Busy') = Cardinality(Busy) - 1
  BY <1>5, <1>6, FS_RemoveElement
<1>8. InHand = {request[w] : w \in Busy} /\ InHand' = {request[w] : w \in Busy'}
  BY <1>3 DEF InHand, Busy
<1>9. InHand \cup Done = 1 .. t /\ InHand \cap Done = {} /\ t <= MaxRequests
  BY <1>1, <1>2, ThreadPoolAssumption DEF TakenOnce, PoolOK
<1>10. request[c] \in InHand /\ request[c] \in Requests
  <2>1. request[c] \in InHand
    BY <1>5, <1>8
  <2>2. request[c] \in 1 .. t
    BY <1>9, <2>1
  <2>3. QED
    BY <1>2, <1>9, <2>1, <2>2, ThreadPoolAssumption DEF Requests
<1>11. \A w \in Busy' : request[w] # request[c]
  BY <1>1, <1>5 DEF TakenOnce
<1>12. InHand' = InHand \ {request[c]}
  BY <1>5, <1>8, <1>11
<1>13. Len(handled') = Len(handled) + 1 /\ handled' \in Seq(Requests)
  BY <1>3, <1>4, <1>10
<1>14. Done' = Done \cup {request[c]}
  <2>1. \A i \in 1 .. Len(handled) : handled'[i] = handled[i]
    BY <1>3, <1>4, <1>10
  <2>2. handled'[Len(handled) + 1] = request[c]
    BY <1>3, <1>4, <1>10
  <2>3. DOMAIN handled = 1 .. Len(handled) /\ DOMAIN handled' = 1 .. (Len(handled) + 1)
    BY <1>4, <1>13
  <2>4. \A i \in DOMAIN handled' : i \in DOMAIN handled \/ i = Len(handled) + 1
    BY <1>4, <2>3
  <2>5. DOMAIN handled \subseteq DOMAIN handled' /\ Len(handled) + 1 \in DOMAIN handled'
    BY <1>4, <2>3
  <2>6. QED
    BY <2>1, <2>2, <2>3, <2>4, <2>5 DEF Done
<1>15. TakenOnce(t)'
  <2>1. (InHand \cup Done)' = 1 .. t /\ (InHand \cap Done)' = {}
    BY <1>9, <1>10, <1>12, <1>14
  <2>2. \A v, w \in Busy' : v # w => request'[v] # request'[w]
    BY <1>1, <1>3, <1>5 DEF TakenOnce
  <2>3. Len(handled') + Cardinality(Busy') = t
    BY <1>1, <1>2, <1>4, <1>6, <1>7, <1>13 DEF TakenOnce
  <2>4. QED
    BY <2>1, <2>2, <2>3 DEF TakenOnce
<1>16. InQueue(t)' /\ Stages' /\ t \in 0 .. produced'
  BY <1>1, <1>2, <1>3, <1>5 DEF InQueue, Stages
<1>17. PoolOK'
  BY <1>2, <1>3, <1>13 DEF PoolOK
<1>18. QED
  BY <1>15, <1>16, <1>17 DEF IInv

\* A step that changes none of the invariant's variables.
LEMMA SameKeeps ==
  ASSUME IInv, UNCHANGED <<in, request, worker, owner, produced, poisons, handled>>,
         aborted' \in BOOLEAN
  PROVE  IInv'
<1>1. PICK t \in 0 .. produced : InQueue(t) /\ TakenOnce(t)
  BY DEF IInv
<1>2. InQueue(t)' /\ TakenOnce(t)'
  BY <1>1 DEF InQueue, TakenOnce, Returned, Busy, InHand, Done
<1>3. PoolOK' /\ Stages' /\ t \in 0 .. produced'
  BY DEF IInv, PoolOK, Stages, Returned
<1>4. QED
  BY <1>2, <1>3 DEF IInv

\* Every step of the owner and of the workers keeps the invariant.
LEMMA PoolStepKeeps == IInv /\ [PoolNext]_poolVars => IInv'
<1>1. SUFFICES ASSUME IInv, [PoolNext]_poolVars PROVE IInv'
  OBVIOUS
<1>2. CASE UNCHANGED poolVars
  BY <1>1, <1>2, SameKeeps DEF poolVars, IInv, PoolOK
<1>3. CASE Produce
  BY <1>1, <1>3, ProduceKeeps
<1>4. CASE Destroy \/ ProducePoison \/ JoinAll
  BY <1>1, <1>4, DestructorKeeps
<1>5. ASSUME NEW c \in Workers, Consume(c) PROVE IInv'
  BY <1>1, <1>5, ConsumeKeeps
<1>6. ASSUME NEW c \in Workers, Handle(c) PROVE IInv'
  BY <1>1, <1>6, HandleKeeps
<1>7. ASSUME NEW c \in Workers, HandlerThrows(c) PROVE IInv'
  BY <1>1, <1>7, SameKeeps DEF HandlerThrows
<1>8. QED
  BY <1>1, <1>2, <1>3, <1>4, <1>5, <1>6, <1>7 DEF PoolNext

\* The invariant holds throughout.
LEMMA PoolInvariant == PoolSpec => []IInv
BY PoolStarts, PoolStepKeeps, PTL DEF PoolSpec

\* No request is lost, in two places or in two workers' hands, for any pool.
THEOREM RequestsConservedHolds == PoolSpec => []RequestsConserved
<1>1. IInv => RequestsConserved
  <2>1. SUFFICES ASSUME IInv PROVE RequestsConserved
    OBVIOUS
  <2>2. PICK t \in 0 .. produced : InQueue(t) /\ TakenOnce(t)
    BY <2>1 DEF IInv
  <2>3. /\ in \in Seq(Requests \cup {Poison}) /\ produced \in Nat /\ t \in Nat
        /\ produced <= MaxRequests /\ poisons \in Nat /\ Cardinality(Returned) \in Nat
    BY <2>1, FiniteWorkers DEF IInv, PoolOK, Returned
  <2>4. Len(in) \in Nat /\ DOMAIN in = 1 .. Len(in) /\ Len(in) >= produced - t
    BY <2>2, <2>3 DEF InQueue
  <2>5. \A i \in 1 .. Len(in) : in[i] = IF i <= produced - t THEN t + i ELSE Poison
    BY <2>2 DEF InQueue
  <2>6. Waiting \ {Poison} \subseteq (t + 1) .. produced
    BY <2>3, <2>4, <2>5 DEF Waiting
  <2>7. (t + 1) .. produced \subseteq Waiting \ {Poison}
    <3>1. SUFFICES ASSUME NEW r \in (t + 1) .. produced PROVE r \in Waiting \ {Poison}
      OBVIOUS
    <3>2. r - t \in 1 .. Len(in) /\ r - t <= produced - t /\ t + (r - t) = r
      BY <2>3, <2>4
    <3>3. in[r - t] = r
      BY <2>5, <3>2
    <3>4. r \in Requests /\ r # Poison
      BY <2>3, PoisonIsNoRequest, ThreadPoolAssumption DEF Requests
    <3>5. QED
      BY <2>4, <3>2, <3>3, <3>4 DEF Waiting
  <2>8. InHand \cup Done = 1 .. t /\ InHand \cap Done = {}
    BY <2>2 DEF TakenOnce
  <2>9. Poison \notin 1 .. t
    BY <2>3, PoisonIsNoRequest, ThreadPoolAssumption DEF Requests
  <2>10. Waiting \cap (InHand \cup Done) = {}
    BY <2>3, <2>6, <2>8, <2>9
  <2>11. (Waiting \ {Poison}) \cup InHand \cup Done = 1 .. produced
    BY <2>3, <2>6, <2>7, <2>8
  <2>12. \A v, w \in Workers : worker[v] = "handle" /\ worker[w] = "handle" /\ v # w
                                 => request[v] # request[w]
    BY <2>2 DEF TakenOnce, Busy
  <2>13. QED
    BY <2>8, <2>10, <2>11, <2>12 DEF RequestsConserved
<1>2. QED
  BY <1>1, PoolInvariant, PTL

\* The destructor returns after the last request was handled, for any pool.
THEOREM DestroyedMeansHandledHolds == PoolSpec => []DestroyedMeansHandled
<1>1. IInv => DestroyedMeansHandled
  <2>1. SUFFICES ASSUME IInv, owner = "destroyed"
                 PROVE  /\ Done = 1 .. produced /\ Len(handled) = produced
                        /\ in = <<>>
                        /\ \A w \in Workers : worker[w] = "returned"
    BY DEF DestroyedMeansHandled
  <2>2. PICK t \in 0 .. produced : InQueue(t) /\ TakenOnce(t)
    BY <2>1 DEF IInv
  <2>3. Returned = Workers /\ poisons = Cardinality(Workers) /\ Cardinality(Workers) \in Nat
    BY <2>1, FiniteWorkers DEF IInv, Stages
  <2>4. t = produced /\ produced \in Nat
    BY <2>1, <2>2, <2>3, ThreadPoolAssumption DEF InQueue, IInv, PoolOK
  <2>5. Len(in) = 0 /\ in \in Seq(Requests \cup {Poison})
    BY <2>1, <2>2, <2>3, <2>4 DEF InQueue, IInv, PoolOK
  <2>6. Busy = {} /\ InHand = {}
    BY <2>3 DEF Busy, InHand, Returned
  <2>7. Cardinality(Busy) = 0
    BY <2>6, FS_EmptySet
  <2>8. Done = 1 .. produced
    BY <2>2, <2>4, <2>6 DEF TakenOnce
  <2>9. Len(handled) = produced
    BY <2>1, <2>2, <2>4, <2>7 DEF TakenOnce, IInv, PoolOK
  <2>10. QED
    BY <2>3, <2>5, <2>8, <2>9 DEF Returned
<1>2. QED
  BY <1>1, PoolInvariant, PTL
=============================================================================
