----------------------------- MODULE ThreadPool -----------------------------
(***************************************************************************)
(* util::ThreadPool<Handler> and util::Worker<Handler>                     *)
(* (util/thread_pool.hh): workers that share one queue of requests, and an *)
(* owner that produces requests and then destroys the pool.  The queue is  *)
(* the bounded FIFO that PCQueue implements.                               *)
(***************************************************************************)
EXTENDS Naturals, FiniteSets, Sequences

CONSTANTS Workers,       \* the worker threads
          MaxRequests,   \* bound: requests the owner produces before it stops
          QueueLength,   \* queue_length
          Poison,        \* the request that ends a worker
          NoRequest      \* a default-constructed Request

ASSUME ThreadPoolAssumption ==
  /\ IsFiniteSet(Workers) /\ Workers # {}
  /\ MaxRequests \in Nat
  /\ QueueLength \in Nat \ {0}
  /\ {Poison, NoRequest} \cap (1 .. MaxRequests) = {} /\ Poison # NoRequest

VARIABLES
  in,        \* PCQueue<Request> in_
  request,   \* the Request local of each worker's loop
  worker,    \* "consume", "handle" or "returned", of each worker
  owner,     \* "produce", "poison", "join" or "destroyed"
  produced,  \* how many requests the owner produced: the requests are 1, 2, ...
  poisons,   \* how many poisons the destructor produced
  handled,   \* requests whose handler call returned, in order of return
  aborted    \* a handler threw and the process called abort()

poolVars == <<in, request, worker, owner, produced, poisons, handled, aborted>>

Requests == 1 .. MaxRequests
Queue == INSTANCE BoundedQueue
           WITH queue <- in, received <- request, Consumers <- Workers,
                Values <- Requests \cup {Poison}, Capacity <- QueueLength,
                NoValue <- NoRequest

PoolInit ==
  /\ Queue!Init
  /\ worker = [w \in Workers |-> "consume"]
  /\ owner = "produce"
  /\ produced = 0 /\ poisons = 0
  /\ handled = <<>>
  /\ aborted = FALSE

(* The owner: Produce, any number of times, then ~ThreadPool. *)
Produce ==
  /\ owner = "produce" /\ produced < MaxRequests
  /\ Queue!Put(produced + 1)
  /\ produced' = produced + 1
  /\ UNCHANGED <<worker, owner, poisons, handled, aborted>>

Destroy ==
  /\ owner = "produce"
  /\ owner' = "poison"
  /\ UNCHANGED <<in, request, worker, produced, poisons, handled, aborted>>

\* Mutant: one poison for the whole pool.
ProducePoisonOnce ==
  /\ owner = "poison" /\ poisons = 0
  /\ Queue!Put(Poison)
  /\ poisons' = 1
  /\ owner' = "join"
  /\ UNCHANGED <<worker, produced, handled, aborted>>
\* One poison for each worker; only then are the workers joined.
ProducePoison ==
  /\ owner = "poison"
  /\ Queue!Put(Poison)
  /\ poisons' = poisons + 1
  /\ owner' = IF poisons' = Cardinality(Workers) THEN "join" ELSE "poison"
  /\ UNCHANGED <<worker, produced, handled, aborted>>

\* Mutant: the destructor does not join.
JoinNobody ==
  /\ owner = "join"
  /\ owner' = "destroyed"
  /\ UNCHANGED <<in, request, worker, produced, poisons, handled, aborted>>
\* Join every worker; then in_ is destroyed.
JoinAll ==
  /\ owner = "join"
  /\ \A w \in Workers : worker[w] = "returned"
  /\ owner' = "destroyed"
  /\ UNCHANGED <<in, request, worker, produced, poisons, handled, aborted>>

(* A worker: Consume, then return on poison or call the handler. *)
Consume(w) ==
  /\ worker[w] = "consume"
  /\ Queue!Get(w)
  /\ worker' = [worker EXCEPT ![w] = IF request'[w] = Poison THEN "returned"
                                                             ELSE "handle"]
  /\ UNCHANGED <<owner, produced, poisons, handled, aborted>>

Handle(w) ==
  /\ worker[w] = "handle"
  /\ worker' = [worker EXCEPT ![w] = "consume"]
  /\ handled' = Append(handled, request[w])
  /\ UNCHANGED <<in, request, owner, produced, poisons, aborted>>

\* Mutant: a worker whose handler throws returns instead of ending the process.
HandlerThrowsQuietly(w) ==
  /\ worker[w] = "handle"
  /\ worker' = [worker EXCEPT ![w] = "returned"]
  /\ UNCHANGED <<in, request, owner, produced, poisons, handled, aborted>>
\* The handler throws: abort().
HandlerThrows(w) ==
  /\ worker[w] = "handle"
  /\ aborted' = TRUE
  /\ UNCHANGED <<in, request, worker, owner, produced, poisons, handled>>

\* After abort() no thread of the process takes a step.
PoolNext == /\ ~aborted
        /\ \/ Produce \/ Destroy \/ ProducePoison \/ JoinAll
           \/ \E w \in Workers : Consume(w) \/ Handle(w) \/ HandlerThrows(w)

(* The destructor runs to its end once entered, workers and handlers run.  *)
PoolFairness ==
  /\ WF_poolVars(~aborted /\ (ProducePoison \/ JoinAll))
  /\ \A w \in Workers : WF_poolVars(~aborted /\ (Consume(w) \/ Handle(w)))

PoolSpec == PoolInit /\ [][PoolNext]_poolVars /\ PoolFairness
-----------------------------------------------------------------------------
InHand == {request[w] : w \in {v \in Workers : worker[v] = "handle"}}
Waiting == {in[i] : i \in DOMAIN in}
Done == {handled[i] : i \in DOMAIN handled}

PoolOK ==
  /\ in \in Seq(Requests \cup {Poison}) /\ Len(in) <= QueueLength
  /\ request \in [Workers -> Requests \cup {Poison, NoRequest}]
  /\ worker \in [Workers -> {"consume", "handle", "returned"}]
  /\ owner \in {"produce", "poison", "join", "destroyed"}
  /\ produced \in 0 .. MaxRequests
  /\ poisons \in 0 .. Cardinality(Workers)
  /\ handled \in Seq(Requests)
  /\ aborted \in BOOLEAN

(* When the destructor returns, the handler has returned for each request  *)
(* that was ever produced, once, and no worker runs against the dead pool: *)
(* a poison never overtakes a request and never reaches two workers.       *)
DestroyedMeansHandled ==
  owner = "destroyed" =>
    /\ Done = 1 .. produced /\ Len(handled) = produced
    /\ in = <<>>
    /\ \A w \in Workers : worker[w] = "returned"

(* No request is in two places, and none is missing while the process is   *)
(* alive: handlers never see one twice, whatever the number of workers.    *)
RequestsConserved ==
  /\ (Waiting \ {Poison}) \cup InHand \cup Done = 1 .. produced
  /\ Waiting \cap (InHand \cup Done) = {} /\ InHand \cap Done = {}
  /\ \A v, w \in Workers :
       worker[v] = "handle" /\ worker[w] = "handle" /\ v # w
         => request[v] # request[w]

(* The destructor terminates, though its own Produce blocks on a full      *)
(* queue, unless a handler ended the process.                              *)
DestructorReturns == (owner = "poison") ~> (owner = "destroyed" \/ aborted)
=============================================================================
