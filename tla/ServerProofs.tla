---------------------------- MODULE ServerProofs ----------------------------
(***************************************************************************)
(* Each SentenceRequest is in one place, and a handler between connections *)
(* has left nothing behind, for every number of handlers, requests,        *)
(* decoders and clients, and every size of the output queues.              *)
(*                                                                         *)
(* The two need each other.  A handler's Reset clears the requests that its*)
(* output thread holds back: nothing is lost only because ~Connection has  *)
(* waited for all of them.  That waiting is enough because counter_ and the*)
(* requests still under way add up to sequence_, and the output thread puts*)
(* no two requests in one position because their numbers differ.           *)
(*                                                                         *)
(* From there, that each client is answered: Answering relates the counters*)
(* of the handler that serves it to what it has sent and been sent.        *)
(***************************************************************************)
EXTENDS Server, Facts, FiniteSetTheorems, TLAPS

Names == ({"free", "decode"} \X {None}) \cup ({"decoder"} \X Decoders)
         \cup ({"aligned", "out", "pending", "sending"} \X Handlers)
\* The requests in each place.
At == [p \in Names |->
         IF p[1] = "free" THEN ToSet(freeRequests)
         ELSE IF p[1] = "decode" THEN ToSet(decodeQueue)
         ELSE IF p[1] = "decoder" THEN {decoding[p[2]]} \ {None}
         ELSE IF p[1] = "aligned" THEN {current[p[2]]} \ {None}
         ELSE IF p[1] = "out" THEN ToSet(outQueue[p[2]])
         ELSE IF p[1] = "pending" THEN ToSet(pending[p[2]]) \ {None}
         ELSE {sending[p[2]]} \ {None}]

\* Where the threads are, and where an output thread has a request in hand.
HandlerPlaces == {"consume", "header", "info", "free", "aligned", "error", "tell", "drain"}
OutputPlaces  == {"consume", "loop", "write", "free"}
WithRequest   == {"write", "free"}
DecoderPlaces == {"consume", "decoded", "aborted"}
USE DEF HandlerPlaces, OutputPlaces, WithRequest, DecoderPlaces

Threads ==
  /\ handler \in [Handlers -> HandlerPlaces]
  /\ output \in [Handlers -> OutputPlaces]
  /\ decoder \in [Decoders -> DecoderPlaces]
  /\ current \in [Handlers -> Requests \cup {None}]
  /\ sending \in [Handlers -> Requests \cup {None}]
  /\ decoding \in [Decoders -> Requests \cup {None}]
  /\ \A h \in Handlers : /\ current[h] # None <=> handler[h] = "aligned"
                         /\ sending[h] # None <=> output[h] \in WithRequest
  /\ \A d \in Decoders : decoding[d] # None <=> decoder[d] = "decoded"

Queues ==
  /\ freeRequests \in Seq(Requests) /\ IsInjective(freeRequests)
  /\ decodeQueue \in Seq(Requests) /\ IsInjective(decodeQueue)
  /\ outQueue \in [Handlers -> Seq(Requests)]
  /\ pending \in [Handlers -> Seq(Requests \cup {None})]
  /\ \A h \in Handlers : IsInjective(outQueue[h])

\* What is in a request, and the numbers of a connection.
Records(S) == [config : S, sequence : Nat, text : S, output : Handlers \cup {None}, nbest : S]
Fields ==
  /\ \E S : req \in [Requests -> Records(S)]
  /\ sequence \in [Handlers -> Nat] /\ base \in [Handlers -> Nat]
  /\ counter \in [Handlers -> Nat]

\* A request knows whose it is from when it is filled until it is free again.
Owners == \A p \in Names : \A r \in At[p] :
  /\ p[1] \in {"free", "aligned"} <=> req[r].output = None
  /\ p[1] \in {"out", "pending", "sending"} => req[r].output = p[2]

\* The requests of the connection that h serves which are not freed yet.
Of(h) == {r \in Requests : req[r].output = h}

Backend(h) ==
  /\ Cardinality(Of(h)) + counter[h] = sequence[h]
  /\ IF handler[h] = "consume" THEN sequence[h] = 0 ELSE base[h] <= sequence[h]
  /\ \A r \in Of(h) : /\ req[r].sequence < sequence[h]
                      /\ r # sending[h] => base[h] <= req[r].sequence
  /\ \A r, s \in Of(h) : req[r].sequence = req[s].sequence => r = s
  /\ \A i \in 1 .. Len(pending[h]) :
       pending[h][i] # None => req[pending[h][i]].sequence = base[h] + i - 1
  /\ pending[h] # <<>> => pending[h][Len(pending[h])] # None

IInv == /\ Partition(At, Names, Requests)
        /\ Threads /\ Queues /\ Fields /\ Owners
        /\ \A h \in Handlers : Backend(h)
-----------------------------------------------------------------------------
LEMMA NoneIsNew == None \notin Requests /\ None \notin Handlers
BY ServerAssumption

\* A name is a kind of place and whose it is.
LEMMA NamesArePairs ==
  /\ \A p \in Names : p = <<p[1], p[2]>>
  /\ \A p \in Names : \/ p[1] \in {"free", "decode"} /\ p[2] = None
                      \/ p[1] = "decoder" /\ p[2] \in Decoders
                      \/ p[1] \in {"aligned", "out", "pending", "sending"} /\ p[2] \in Handlers
  /\ <<"free", None>> \in Names /\ <<"decode", None>> \in Names
  /\ \A d \in Decoders : <<"decoder", d>> \in Names
  /\ \A h \in Handlers : /\ <<"aligned", h>> \in Names /\ <<"out", h>> \in Names
                         /\ <<"pending", h>> \in Names /\ <<"sending", h>> \in Names
<1>1. \A p \in Names : p = <<p[1], p[2]>>
  BY DEF Names
<1>2. \A p \in Names : \/ p[1] \in {"free", "decode"} /\ p[2] = None
                       \/ p[1] = "decoder" /\ p[2] \in Decoders
                       \/ p[1] \in {"aligned", "out", "pending", "sending"} /\ p[2] \in Handlers
  BY DEF Names
<1>3. /\ <<"free", None>> \in Names /\ <<"decode", None>> \in Names
      /\ \A d \in Decoders : <<"decoder", d>> \in Names
      /\ \A h \in Handlers : /\ <<"aligned", h>> \in Names /\ <<"out", h>> \in Names
                             /\ <<"pending", h>> \in Names /\ <<"sending", h>> \in Names
  BY DEF Names
<1> QED
  BY <1>1, <1>2, <1>3

\* At at each of its names.
LEMMA AtNames ==
  /\ At[<<"free", None>>] = ToSet(freeRequests)
  /\ At[<<"decode", None>>] = ToSet(decodeQueue)
  /\ \A d \in Decoders : At[<<"decoder", d>>] = {decoding[d]} \ {None}
  /\ \A h \in Handlers : /\ At[<<"aligned", h>>] = {current[h]} \ {None}
                         /\ At[<<"out", h>>] = ToSet(outQueue[h])
                         /\ At[<<"pending", h>>] = ToSet(pending[h]) \ {None}
                         /\ At[<<"sending", h>>] = {sending[h]} \ {None}
<1>1. At[<<"free", None>>] = ToSet(freeRequests) /\ At[<<"decode", None>>] = ToSet(decodeQueue)
  BY NamesArePairs DEF At
<1>2. \A d \in Decoders : At[<<"decoder", d>>] = {decoding[d]} \ {None}
  BY NamesArePairs DEF At
<1>3. \A h \in Handlers : At[<<"aligned", h>>] = {current[h]} \ {None}
  BY NamesArePairs DEF At
<1>4. \A h \in Handlers : At[<<"out", h>>] = ToSet(outQueue[h])
  BY NamesArePairs DEF At
<1>5. \A h \in Handlers : At[<<"pending", h>>] = ToSet(pending[h]) \ {None}
  BY NamesArePairs DEF At
<1>6. \A h \in Handlers : At[<<"sending", h>>] = {sending[h]} \ {None}
  BY NamesArePairs DEF At
<1> QED
  BY <1>1, <1>2, <1>3, <1>4, <1>5, <1>6

\* The members of a queue.
LEMMA Members ==
  ASSUME NEW S, NEW q \in Seq(S)
  PROVE  ToSet(q) = {q[i] : i \in 1 .. Len(q)} /\ Len(q) \in Nat
BY DEF ToSet

\* What a handler's output thread holds back is of the handler's connection.
LEMMA PendingAreOf ==
  ASSUME IInv, NEW h \in Handlers, NEW i \in 1 .. Len(pending[h]), pending[h][i] # None
  PROVE  pending[h][i] \in Of(h) /\ pending[h][i] \in At[<<"pending", h>>]
<1>1. pending[h] \in Seq(Requests \cup {None})
  BY DEF IInv, Queues
<1>2. pending[h][i] \in ToSet(pending[h]) /\ pending[h][i] \in Requests
  BY <1>1, Members
<1>3. pending[h][i] \in At[<<"pending", h>>] /\ <<"pending", h>> \in Names
  BY <1>2, AtNames, NamesArePairs
<1>4. req[pending[h][i]].output = h
  BY <1>3 DEF IInv, Owners
<1> QED
  BY <1>2, <1>3, <1>4 DEF Of

\* The requests of a connection are finitely many.
LEMMA OfFinite ==
  ASSUME NEW h
  PROVE  IsFiniteSet(Of(h)) /\ Cardinality(Of(h)) \in Nat
<1>1. Of(h) \in SUBSET Requests /\ IsFiniteSet(Requests)
  BY ServerAssumption DEF Of
<1> QED
  BY <1>1, FS_Subset, FS_CardinalityType

\* Between connections a handler and its output thread have nothing.
LEMMA NothingLeft ==
  ASSUME IInv, NEW h \in Handlers, Of(h) = {}
  PROVE  pending[h] = <<>> /\ outQueue[h] = <<>> /\ sending[h] = None
<1>1. /\ pending[h] \in Seq(Requests \cup {None}) /\ outQueue[h] \in Seq(Requests)
      /\ sending[h] \in Requests \cup {None}
  BY DEF IInv, Queues, Threads
<1>2. ASSUME pending[h] # <<>> PROVE FALSE
  <2>1. Len(pending[h]) \in 1 .. Len(pending[h]) /\ pending[h][Len(pending[h])] # None
    BY <1>1, <1>2 DEF IInv, Backend
  <2> QED
    BY <2>1, PendingAreOf
<1>3. ASSUME outQueue[h] # <<>> PROVE FALSE
  <2>1. 1 \in 1 .. Len(outQueue[h]) /\ outQueue[h][1] \in Requests
    BY <1>1, <1>3
  <2>2. outQueue[h][1] \in At[<<"out", h>>] /\ <<"out", h>> \in Names
    <3>1. At[<<"out", h>>] = ToSet(outQueue[h]) /\ <<"out", h>> \in Names
      BY AtNames, NamesArePairs
    <3>2. outQueue[h][1] \in ToSet(outQueue[h])
      BY <1>1, <2>1, Members
    <3> QED
      BY <3>1, <3>2
  <2>3. req[outQueue[h][1]].output = h
    BY <2>2 DEF IInv, Owners
  <2> QED
    BY <2>1, <2>3 DEF Of
<1>4. ASSUME sending[h] # None PROVE FALSE
  <2>1. sending[h] \in At[<<"sending", h>>] /\ <<"sending", h>> \in Names /\ sending[h] \in Requests
    <3>1. At[<<"sending", h>>] = {sending[h]} \ {None} /\ <<"sending", h>> \in Names
      BY AtNames, NamesArePairs
    <3> QED
      BY <1>1, <1>4, <3>1
  <2>2. req[sending[h]].output = h
    BY <2>1 DEF IInv, Owners
  <2> QED
    BY <2>1, <2>2 DEF Of
<1> QED
  BY <1>2, <1>3, <1>4

LEMMA IdleHasNone ==
  ASSUME IInv, NEW h \in Handlers, handler[h] = "consume"
  PROVE  Of(h) = {} /\ counter[h] = 0
<1>1. Cardinality(Of(h)) + counter[h] = 0 /\ counter[h] \in Nat
  BY DEF IInv, Backend, Fields
<1>2. Cardinality(Of(h)) = 0 /\ counter[h] = 0
  BY <1>1, OfFinite
<1> QED
  BY <1>2, OfFinite, FS_EmptySet

\* What one connection's step leaves alone at the others.
LEMMA BackendSame ==
  ASSUME IInv, NEW g \in Handlers,
         base'[g] = base[g], sequence'[g] = sequence[g], counter'[g] = counter[g],
         pending'[g] = pending[g], sending'[g] = sending[g],
         handler'[g] = "consume" <=> handler[g] = "consume",
         Of(g)' = Of(g), \A r \in Of(g) : req'[r].sequence = req[r].sequence
  PROVE  Backend(g)'
<1>1. \A i \in 1 .. Len(pending[g]) : pending[g][i] # None => pending[g][i] \in Of(g)
  BY PendingAreOf
<1>2. Backend(g)
  BY DEF IInv
<1>3. \A i \in 1 .. Len(pending'[g]) :
        pending'[g][i] # None => req'[pending'[g][i]].sequence = base'[g] + i - 1
  BY <1>1, <1>2 DEF Backend
<1>4. Cardinality(Of(g)') + counter'[g] = sequence'[g]
  BY <1>2 DEF Backend
<1>5. IF handler'[g] = "consume" THEN sequence'[g] = 0 ELSE base'[g] <= sequence'[g]
  BY <1>2 DEF Backend
<1>6. \A r \in Of(g)' : /\ req'[r].sequence < sequence'[g]
                        /\ r # sending'[g] => base'[g] <= req'[r].sequence
  BY <1>2 DEF Backend
<1>7. \A r, s \in Of(g)' : req'[r].sequence = req'[s].sequence => r = s
  BY <1>2 DEF Backend
<1>8. pending'[g] # <<>> => pending'[g][Len(pending'[g])] # None
  BY <1>2 DEF Backend
<1> QED
  BY <1>3, <1>4, <1>5, <1>6, <1>7, <1>8 DEF Backend
-----------------------------------------------------------------------------
\* A sequence of a finite set's elements, each once, has them all.
LEMMA SequenceOfAll ==
  ASSUME NEW S, IsFiniteSet(S), NEW q \in SetToSeqs(S)
  PROVE  q \in Seq(S) /\ IsInjective(q) /\ ToSet(q) = S
<1> DEFINE n == Cardinality(S)
<1>1. n \in Nat
  BY FS_CardinalityType
<1>2. q \in [1 .. n -> S] /\ \A i, j \in 1 .. n : i # j => q[i] # q[j]
  BY DEF SetToSeqs
<1>3. DOMAIN q = 1 .. n /\ IsInjective(q)
  BY <1>2 DEF IsInjective
<1>4. q \in Seq(S)
  BY <1>1, <1>2
<1>5. IsFiniteSet(1 .. n) /\ Cardinality(1 .. n) = n
  <2>1. 1 \in Int /\ n \in Int
    BY <1>1
  <2>2. IsFiniteSet(1 .. n) /\ Cardinality(1 .. n) = IF 1 > n THEN 0 ELSE n - 1 + 1
    BY <2>1, FS_Interval
  <2> QED
    BY <1>1, <2>2
<1>6. q \in Injection(1 .. n, S)
  BY <1>2, <1>3 DEF Injection
<1>7. q \in Surjection(1 .. n, S)
  BY <1>5, <1>6, FS_Injection
<1>8. \A x \in S : \E i \in 1 .. n : q[i] = x
  BY <1>7 DEF Surjection
<1>9. ToSet(q) = S
  BY <1>2, <1>3, <1>8 DEF ToSet
<1> QED
  BY <1>3, <1>4, <1>9

\* At first all requests are free.
LEMMA Starts == Init => IInv
<1> SUFFICES ASSUME Init PROVE IInv
  OBVIOUS
<1>1. freeRequests \in Seq(Requests) /\ IsInjective(freeRequests) /\ ToSet(freeRequests) = Requests
  BY SequenceOfAll, ServerAssumption DEF Init
<1>2. ToSet(<<>>) = {} /\ IsInjective(<<>>) /\ \A S : <<>> \in Seq(S)
  BY DEF ToSet, IsInjective
<1>3. /\ At[<<"free", None>>] = Requests
      /\ \A p \in Names : p # <<"free", None>> => At[p] = {}
  <2>1. At[<<"free", None>>] = Requests
    BY <1>1, AtNames
  <2>2. At[<<"decode", None>>] = {}
    BY <1>2, AtNames DEF Init
  <2>3. \A d \in Decoders : At[<<"decoder", d>>] = {}
    BY AtNames DEF Init
  <2>4. \A h \in Handlers : /\ At[<<"aligned", h>>] = {} /\ At[<<"out", h>>] = {}
                            /\ At[<<"pending", h>>] = {} /\ At[<<"sending", h>>] = {}
    BY <1>2, AtNames DEF Init
  <2>5. SUFFICES ASSUME NEW p \in Names, p # <<"free", None>> PROVE At[p] = {}
    BY <2>1
  <2>6. p = <<p[1], p[2]>>
    BY NamesArePairs
  <2> QED
    BY <2>2, <2>3, <2>4, <2>5, <2>6, NamesArePairs
<1>4. Partition(At, Names, Requests)
  BY <1>3, NamesArePairs DEF Partition
<1>5. Threads
  BY DEF Init, Threads
<1>6. Queues
  BY <1>1, <1>2 DEF Init, Queues
<1>7. \A r \in Requests : req[r] = NoRequest
  BY DEF Init
<1>8. Fields
  <2>1. req \in [Requests -> Records({None})]
    BY DEF Init, Records, NoRequest
  <2>2. \E S : req \in [Requests -> Records(S)]
    BY <2>1
  <2>3. sequence \in [Handlers -> Nat] /\ base \in [Handlers -> Nat] /\ counter \in [Handlers -> Nat]
    BY DEF Init
  <2> QED
    BY <2>2, <2>3 DEF Fields
<1>9. Owners
  <2>1. SUFFICES ASSUME NEW p \in Names, NEW r \in At[p]
                 PROVE  /\ p[1] \in {"free", "aligned"} <=> req[r].output = None
                        /\ p[1] \in {"out", "pending", "sending"} => req[r].output = p[2]
    BY DEF Owners
  <2>2. p = <<"free", None>> /\ r \in Requests
    BY <1>3, <2>1
  <2>3. req[r].output = None
    BY <1>7, <2>2 DEF NoRequest
  <2> QED
    BY <2>2, <2>3
<1>10. \A h \in Handlers : Backend(h)
  <2>1. SUFFICES ASSUME NEW h \in Handlers PROVE Backend(h)
    OBVIOUS
  <2>2. Of(h) = {}
    BY <1>7, NoneIsNew DEF Of, NoRequest
  <2>3. Cardinality(Of(h)) = 0
    BY <2>2, FS_EmptySet
  <2>4. handler[h] = "consume" /\ sequence[h] = 0 /\ counter[h] = 0 /\ pending[h] = <<>>
    BY DEF Init
  <2>5. 1 .. Len(pending[h]) = {}
    BY <2>4
  <2> QED
    BY <2>2, <2>3, <2>4, <2>5 DEF Backend
<1> QED
  BY <1>4, <1>5, <1>6, <1>8, <1>9, <1>10 DEF IInv

\* A step that touches no request: handlers and output threads move on.
LEMMA QuietKeeps ==
  ASSUME IInv,
         UNCHANGED <<freeRequests, decodeQueue, decoding, current, outQueue, pending,
                     sending, req, sequence, base, counter>>,
         decoder' \in [Decoders -> DecoderPlaces],
         \A d \in Decoders : decoder'[d] = "decoded" <=> decoder[d] = "decoded",
         handler' \in [Handlers -> HandlerPlaces],
         output' \in [Handlers -> OutputPlaces],
         \A h \in Handlers : /\ handler'[h] = "aligned" <=> handler[h] = "aligned"
                             /\ handler'[h] = "consume" <=> handler[h] = "consume"
                             /\ output'[h] \in WithRequest <=> output[h] \in WithRequest
  PROVE  IInv'
<1>1. At' = At
  BY DEF At
<1>2. Partition(At, Names, Requests)' /\ Queues' /\ Fields' /\ Owners'
  BY <1>1 DEF IInv, Queues, Fields, Owners
<1>3. Threads'
  BY DEF IInv, Threads
<1>4. \A h \in Handlers : Of(h)' = Of(h)
  BY DEF Of
<1>5. \A h \in Handlers : Backend(h)'
  BY <1>4, BackendSame
<1> QED
  BY <1>2, <1>3, <1>5 DEF IInv

\* Reset finds nothing to clear.
LEMMA OpenConnectionKeeps == ASSUME IInv, NEW h \in Handlers, OpenConnection(h) PROVE IInv'
<1>1. /\ handler[h] = "consume" /\ handler' = [handler EXCEPT ![h] = "header"]
      /\ base' = [base EXCEPT ![h] = 0] /\ pending' = [pending EXCEPT ![h] = <<>>]
      /\ UNCHANGED <<freeRequests, decodeQueue, decoder, decoding, current, outQueue,
                     sending, req, sequence, counter, output>>
  BY DEF OpenConnection, Reset, decoderVars
<1>2. Of(h) = {} /\ counter[h] = 0 /\ pending[h] = <<>>
  BY <1>1, IdleHasNone, NothingLeft
<1>3. pending' = pending
  BY <1>1, <1>2 DEF IInv, Queues
<1>4. At' = At
  BY <1>1, <1>3 DEF At
<1>5. Partition(At, Names, Requests)' /\ Queues' /\ Owners'
  BY <1>1, <1>3, <1>4 DEF IInv, Queues, Owners
<1>6. Fields'
  BY <1>1 DEF IInv, Fields
<1>7. Threads'
  BY <1>1 DEF IInv, Threads
<1>8. \A g \in Handlers : Of(g)' = Of(g)
  BY <1>1 DEF Of
<1>9. ASSUME NEW g \in Handlers, g # h PROVE Backend(g)'
  <2>1. base'[g] = base[g] /\ handler'[g] = handler[g]
    BY <1>1, <1>9 DEF IInv, Fields, Threads
  <2> QED
    BY <1>1, <1>3, <1>8, <2>1, BackendSame
<1>10. Backend(h)'
  <2>1. base'[h] = 0 /\ handler'[h] = "header" /\ sequence'[h] = 0
    BY <1>1 DEF IInv, Fields, Threads, Backend
  <2>2. Of(h)' = {} /\ Cardinality(Of(h)') = 0 /\ counter'[h] = 0
    BY <1>1, <1>2, <1>8, FS_EmptySet
  <2>3. pending'[h] = <<>> /\ 1 .. Len(pending'[h]) = {}
    BY <1>2, <1>3
  <2> QED
    BY <2>1, <2>2, <2>3 DEF Backend
<1> QED
  BY <1>5, <1>6, <1>7, <1>9, <1>10 DEF IInv

\* When as many posts were counted as requests, none is under way.
LEMMA CloseConnectionKeeps == ASSUME IInv, NEW h \in Handlers, CloseConnection(h) PROVE IInv'
<1>1. /\ handler[h] = "drain" /\ handler' = [handler EXCEPT ![h] = "consume"]
      /\ counter[h] >= sequence[h]
      /\ sequence' = [sequence EXCEPT ![h] = 0]
      /\ counter' = [counter EXCEPT ![h] = counter[h] - sequence[h]]
      /\ UNCHANGED <<freeRequests, decodeQueue, decoder, decoding, current, outQueue,
                     pending, sending, req, base, output>>
  BY DEF CloseConnection, Drained, decoderVars
<1>2. Cardinality(Of(h)) = 0 /\ counter[h] = sequence[h]
  <2>1. Cardinality(Of(h)) + counter[h] = sequence[h] /\ counter[h] \in Nat /\ sequence[h] \in Nat
    BY DEF IInv, Backend, Fields
  <2> QED
    BY <1>1, <2>1, OfFinite
<1>3. Of(h) = {}
  BY <1>2, OfFinite, FS_EmptySet
<1>4. At' = At
  BY <1>1 DEF At
<1>5. Partition(At, Names, Requests)' /\ Queues' /\ Owners'
  BY <1>1, <1>4 DEF IInv, Queues, Owners
<1>6. counter'[h] = 0 /\ sequence'[h] = 0 /\ handler'[h] = "consume"
  BY <1>1, <1>2 DEF IInv, Fields, Threads
<1>7. \A g \in Handlers : g # h => /\ counter'[g] = counter[g] /\ sequence'[g] = sequence[g]
                                   /\ handler'[g] = handler[g]
  BY <1>1 DEF IInv, Fields, Threads
<1>8. Fields'
  <2>1. sequence' \in [Handlers -> Nat] /\ counter' \in [Handlers -> Nat]
    BY <1>1, <1>2 DEF IInv, Fields
  <2> QED
    BY <1>1, <2>1 DEF IInv, Fields
<1>9. Threads'
  BY <1>1 DEF IInv, Threads
<1>10. \A g \in Handlers : Of(g)' = Of(g)
  BY <1>1 DEF Of
<1>11. ASSUME NEW g \in Handlers, g # h PROVE Backend(g)'
  BY <1>1, <1>7, <1>10, <1>11, BackendSame
<1>12. Backend(h)'
  <2>1. Of(h)' = {} /\ Cardinality(Of(h)') = 0
    BY <1>2, <1>3, <1>10
  <2>2. pending'[h] = <<>> /\ 1 .. Len(pending'[h]) = {}
    BY <1>1, <1>3, NothingLeft
  <2> QED
    BY <1>6, <2>1, <2>2 DEF Backend
<1> QED
  BY <1>5, <1>8, <1>9, <1>11, <1>12 DEF IInv
-----------------------------------------------------------------------------
\* A place is as before when its queue or its thread's hands are.
LEMMA PlaceSame ==
  ASSUME NEW x \in Names,
         x[1] = "free" => freeRequests' = freeRequests,
         x[1] = "decode" => decodeQueue' = decodeQueue,
         x[1] = "decoder" => decoding'[x[2]] = decoding[x[2]],
         x[1] = "aligned" => current'[x[2]] = current[x[2]],
         x[1] = "out" => outQueue'[x[2]] = outQueue[x[2]],
         x[1] = "pending" => pending'[x[2]] = pending[x[2]],
         x[1] = "sending" => sending'[x[2]] = sending[x[2]]
  PROVE  At'[x] = At[x]
<1>1. x[1] \in {"free", "decode", "decoder", "aligned", "out", "pending", "sending"}
  BY NamesArePairs
<1> QED
  BY <1>1 DEF At

\* A request that moves is in one place after it, and knows whose it is if its
\* new place demands it.
LEMMA RequestMoves ==
  ASSUME IInv, NEW p \in Names, NEW q \in Names, p # q, NEW b \in At[p],
         At'[p] = At[p] \ {b}, At'[q] = At[q] \cup {b},
         \A x \in Names \ {p, q} : At'[x] = At[x],
         \A s \in Requests \ {b} : req'[s].output = req[s].output,
         q[1] \in {"free", "aligned"} <=> req'[b].output = None,
         q[1] \in {"out", "pending", "sending"} => req'[b].output = q[2]
  PROVE  Partition(At', Names, Requests) /\ Owners'
<1>1. Partition(At, Names, Requests)
  BY DEF IInv
<1>2. Partition(At', Names, Requests)
  BY <1>1, OneMoves
<1>3. Owners'
  <2>1. SUFFICES ASSUME NEW x \in Names, NEW s \in At'[x]
                 PROVE  /\ x[1] \in {"free", "aligned"} <=> req'[s].output = None
                        /\ x[1] \in {"out", "pending", "sending"} => req'[s].output = x[2]
    BY DEF Owners
  <2>2. CASE s = b
    <3>1. b \in At'[q]
      OBVIOUS
    <3>2. x = q
      BY <1>2, <2>2, <3>1 DEF Partition
    <3> QED
      BY <2>2, <3>2
  <2>3. CASE s # b
    <3>1. s \in At[x]
      BY <2>3
    <3>2. s \in Requests
      BY <1>1, <3>1 DEF Partition
    <3>3. req'[s].output = req[s].output
      BY <2>3, <3>2
    <3> QED
      BY <3>1, <3>3 DEF IInv, Owners
  <2> QED
    BY <2>2, <2>3
<1> QED
  BY <1>2, <1>3

\* The same when no request's fields and no number changes.
LEMMA BackendsSame ==
  ASSUME IInv, UNCHANGED <<req, base, sequence, counter, pending, sending>>,
         \A h \in Handlers : handler'[h] = "consume" <=> handler[h] = "consume"
  PROVE  Fields' /\ \A h \in Handlers : Backend(h)'
<1>1. \A h \in Handlers : Of(h)' = Of(h)
  BY DEF Of
<1>2. \A h \in Handlers : Backend(h)'
  BY <1>1, BackendSame
<1> QED
  BY <1>2 DEF IInv, Fields

\* A handler waits for a free request and gets one.
LEMMA GetFreeKeeps == ASSUME IInv, NEW h \in Handlers, GetFree(h) PROVE IInv'
<1> DEFINE r == Head(freeRequests)
<1>1. /\ handler[h] = "free" /\ freeRequests # <<>>
      /\ current' = [current EXCEPT ![h] = r] /\ freeRequests' = Tail(freeRequests)
      /\ handler' = [handler EXCEPT ![h] = "aligned"]
      /\ UNCHANGED <<decodeQueue, decoder, decoding, outQueue, pending, sending, req,
                     sequence, base, counter, output>>
  BY DEF GetFree, outputVars, decoderVars
<1>2. freeRequests \in Seq(Requests) /\ IsInjective(freeRequests)
  BY DEF IInv, Queues
<1>3. /\ r \in ToSet(freeRequests) /\ r \in Requests
      /\ freeRequests' \in Seq(Requests) /\ IsInjective(freeRequests')
      /\ ToSet(freeRequests') = ToSet(freeRequests) \ {r}
  BY <1>1, <1>2, HeadTaken
<1> HIDE DEF r
<1>4. current[h] = None /\ r # None
  BY <1>1, <1>3, NoneIsNew DEF IInv, Threads
<1>5. /\ current'[h] = r /\ \A g \in Handlers \ {h} : current'[g] = current[g]
      /\ handler'[h] = "aligned" /\ \A g \in Handlers \ {h} : handler'[g] = handler[g]
  BY <1>1 DEF IInv, Threads
<1> DEFINE p == <<"free", None>>
           q == <<"aligned", h>>
<1>6. p \in Names /\ q \in Names /\ p # q /\ q[1] = "aligned"
  BY NamesArePairs
<1>7. r \in At[p] /\ At'[p] = At[p] \ {r}
  <2>1. At[p] = ToSet(freeRequests) /\ At'[p] = ToSet(freeRequests')
    BY AtNames, <1>6 DEF At
  <2> QED
    BY <1>3, <2>1
<1>8. At'[q] = At[q] \cup {r}
  <2>1. At[q] = {current[h]} \ {None} /\ At'[q] = {current'[h]} \ {None}
    BY <1>6 DEF At
  <2> QED
    BY <1>4, <1>5, <2>1
<1>9. \A x \in Names \ {p, q} : At'[x] = At[x]
  <2>1. \A x \in Names \ {p, q} : /\ x[1] # "free"
                                  /\ x[1] = "aligned" => x[2] \in Handlers \ {h}
    BY NamesArePairs
  <2> QED
    BY <1>1, <1>5, <2>1, PlaceSame
<1>10. req'[r].output = None
  BY <1>1, <1>6, <1>7 DEF IInv, Owners
<1> HIDE DEF p, q
<1>11. Partition(At', Names, Requests) /\ Owners'
  BY <1>1, <1>6, <1>7, <1>8, <1>9, <1>10, RequestMoves
<1>12. Queues'
  BY <1>1, <1>3 DEF IInv, Queues
<1>13. Threads'
  <2>1. current' \in [Handlers -> Requests \cup {None}]
        /\ handler' \in [Handlers -> HandlerPlaces]
    BY <1>1, <1>3 DEF IInv, Threads
  <2> QED
    BY <1>1, <1>4, <1>5, <2>1 DEF IInv, Threads
<1>14. Fields' /\ \A g \in Handlers : Backend(g)'
  BY <1>1, <1>5, BackendsSame
<1> QED
  BY <1>11, <1>12, <1>13, <1>14 DEF IInv

\* Reading fails: the request is given back at once.
LEMMA AlignedFailsKeeps == ASSUME IInv, NEW h \in Handlers, AlignedFails(h) PROVE IInv'
<1> DEFINE r == current[h]
<1>1. /\ handler[h] = "aligned"
      /\ current' = [current EXCEPT ![h] = None] /\ freeRequests' = Append(freeRequests, r)
      /\ handler' = [handler EXCEPT ![h] = "error"]
      /\ UNCHANGED <<decodeQueue, decoder, decoding, outQueue, pending, sending, req,
                     sequence, base, counter, output>>
  BY DEF AlignedFails, Free, outputVars, decoderVars
<1>2. /\ freeRequests \in Seq(Requests) /\ IsInjective(freeRequests)
      /\ r \in Requests /\ r # None
  BY <1>1 DEF IInv, Queues, Threads
<1> DEFINE p == <<"aligned", h>>
           q == <<"free", None>>
<1>3. p \in Names /\ q \in Names /\ p # q /\ q[1] = "free" /\ p[1] = "aligned"
  BY NamesArePairs
<1>4. At[p] = {r} /\ At[q] = ToSet(freeRequests)
  <2>1. At[p] = {current[h]} \ {None} /\ At[q] = ToSet(freeRequests)
    BY AtNames
  <2> QED
    BY <1>2, <2>1
<1>5. r \notin ToSet(freeRequests)
  BY <1>3, <1>4 DEF IInv, Partition
<1>6. /\ freeRequests' \in Seq(Requests) /\ IsInjective(freeRequests')
      /\ ToSet(freeRequests') = ToSet(freeRequests) \cup {r}
  BY <1>1, <1>2, <1>5, EndAdded
<1> HIDE DEF r
<1>7. /\ current'[h] = None /\ \A g \in Handlers \ {h} : current'[g] = current[g]
      /\ handler'[h] = "error" /\ \A g \in Handlers \ {h} : handler'[g] = handler[g]
  BY <1>1 DEF IInv, Threads
<1>8. At'[p] = At[p] \ {r} /\ At'[q] = At[q] \cup {r}
  <2>1. At'[p] = {current'[h]} \ {None} /\ At'[q] = ToSet(freeRequests')
    BY <1>3 DEF At
  <2> QED
    BY <1>4, <1>6, <1>7, <2>1
<1>9. \A x \in Names \ {p, q} : At'[x] = At[x]
  <2>1. \A x \in Names \ {p, q} : /\ x[1] # "free"
                                  /\ x[1] = "aligned" => x[2] \in Handlers \ {h}
    BY NamesArePairs
  <2> QED
    BY <1>1, <1>7, <2>1, PlaceSame
<1>10. r \in At[p] /\ req'[r].output = None
  <2>1. r \in At[p]
    BY <1>4
  <2> QED
    BY <1>1, <1>3, <2>1 DEF IInv, Owners
<1> HIDE DEF p, q
<1>11. Partition(At', Names, Requests) /\ Owners'
  BY <1>1, <1>3, <1>8, <1>9, <1>10, RequestMoves
<1>12. Queues'
  BY <1>1, <1>6 DEF IInv, Queues
<1>13. Threads'
  <2>1. current' \in [Handlers -> Requests \cup {None}]
        /\ handler' \in [Handlers -> HandlerPlaces]
    BY <1>1 DEF IInv, Threads
  <2> QED
    BY <1>1, <1>7, <2>1 DEF IInv, Threads
<1>14. Fields' /\ \A g \in Handlers : Backend(g)'
  BY <1>1, <1>7, BackendsSame
<1> QED
  BY <1>11, <1>12, <1>13, <1>14 DEF IInv

\* A request is filled and sent to the decoders with the connection's next number.
LEMMA AlignedKeeps == ASSUME IInv, NEW h \in Handlers, Aligned(h) PROVE IInv'
<1> DEFINE r == current[h]
<1>1. /\ handler[h] = "aligned" /\ handler' = [handler EXCEPT ![h] = "header"]
      /\ current' = [current EXCEPT ![h] = None] /\ decodeQueue' = Append(decodeQueue, r)
      /\ req' = [req EXCEPT ![r] = Fill(h)]
      /\ sequence' = [sequence EXCEPT ![h] = @ + 1]
      /\ UNCHANGED <<freeRequests, decoder, decoding, outQueue, pending, sending, base,
                     counter, output>>
  BY DEF Aligned, CountUp, outputVars
<1>2. /\ decodeQueue \in Seq(Requests) /\ IsInjective(decodeQueue)
      /\ r \in Requests /\ r # None
  BY <1>1 DEF IInv, Queues, Threads
<1> DEFINE p == <<"aligned", h>>
           q == <<"decode", None>>
<1>3. p \in Names /\ q \in Names /\ p # q /\ q[1] = "decode" /\ p[1] = "aligned"
  BY NamesArePairs
<1>4. At[p] = {r} /\ At[q] = ToSet(decodeQueue)
  <2>1. At[p] = {current[h]} \ {None} /\ At[q] = ToSet(decodeQueue)
    BY AtNames
  <2> QED
    BY <1>2, <2>1
<1>5. r \notin ToSet(decodeQueue)
  BY <1>3, <1>4 DEF IInv, Partition
<1>6. /\ decodeQueue' \in Seq(Requests) /\ IsInjective(decodeQueue')
      /\ ToSet(decodeQueue') = ToSet(decodeQueue) \cup {r}
  BY <1>1, <1>2, <1>5, EndAdded
<1> HIDE DEF r
<1>7. /\ current'[h] = None /\ \A g \in Handlers \ {h} : current'[g] = current[g]
      /\ handler'[h] = "header" /\ \A g \in Handlers \ {h} : handler'[g] = handler[g]
  BY <1>1 DEF IInv, Threads
<1>8. At'[p] = At[p] \ {r} /\ At'[q] = At[q] \cup {r}
  <2>1. At'[p] = {current'[h]} \ {None} /\ At'[q] = ToSet(decodeQueue')
    BY <1>3 DEF At
  <2> QED
    BY <1>4, <1>6, <1>7, <2>1
<1>9. \A x \in Names \ {p, q} : At'[x] = At[x]
  <2>1. \A x \in Names \ {p, q} : /\ x[1] # "decode"
                                  /\ x[1] = "aligned" => x[2] \in Handlers \ {h}
    BY NamesArePairs
  <2> QED
    BY <1>1, <1>7, <2>1, PlaceSame
<1>10. PICK S : req \in [Requests -> Records(S)]
  BY DEF IInv, Fields
<1>11. req'[r] = Fill(h) /\ \A s \in Requests \ {r} : req'[s] = req[s]
  BY <1>1, <1>2, <1>10
<1>12. Fill(h).output = h /\ Fill(h).sequence = sequence[h]
  BY DEF Fill
<1>13. r \in At[p] /\ req[r].output = None
  <2>1. r \in At[p]
    BY <1>4
  <2> QED
    BY <1>3, <2>1 DEF IInv, Owners
<1> HIDE DEF p, q
<1>14. Partition(At', Names, Requests) /\ Owners'
  BY <1>3, <1>8, <1>9, <1>11, <1>12, <1>13, NoneIsNew, RequestMoves
<1>15. Queues'
  BY <1>1, <1>6 DEF IInv, Queues
<1>16. Threads'
  <2>1. current' \in [Handlers -> Requests \cup {None}]
        /\ handler' \in [Handlers -> HandlerPlaces]
    BY <1>1 DEF IInv, Threads
  <2> QED
    BY <1>1, <1>7, <2>1 DEF IInv, Threads
<1>17. /\ sequence' \in [Handlers -> Nat] /\ sequence'[h] = sequence[h] + 1
       /\ sequence[h] \in Nat /\ base[h] \in Nat /\ counter[h] \in Nat
       /\ \A g \in Handlers \ {h} : sequence'[g] = sequence[g]
  BY <1>1 DEF IInv, Fields
<1>18. Fields'
  <2> DEFINE T == S \cup {Fill(h).config, Fill(h).text, None}
  <2>1. Fill(h) \in Records(T)
    BY <1>17 DEF Fill, Records
  <2>2. \A s \in Requests : req[s] \in Records(T)
    BY <1>10 DEF Records
  <2>3. req' \in [Requests -> Records(T)]
    BY <1>1, <1>10, <1>2, <2>1, <2>2
  <2>4. \E U : req' \in [Requests -> Records(U)]
    BY <2>3
  <2> QED
    BY <1>1, <1>17, <2>4 DEF IInv, Fields
<1>19. ASSUME NEW g \in Handlers, g # h PROVE Backend(g)'
  <2>1. Of(g)' = Of(g) /\ \A s \in Of(g) : req'[s].sequence = req[s].sequence
    BY <1>11, <1>12, <1>13, <1>19, NoneIsNew DEF Of
  <2> QED
    BY <1>1, <1>7, <1>17, <1>19, <2>1, BackendSame
<1>20. Backend(h)'
  <2>1. Of(h)' = Of(h) \cup {r} /\ r \notin Of(h)
    BY <1>2, <1>11, <1>12, <1>13, NoneIsNew DEF Of
  <2>2. Cardinality(Of(h)') = Cardinality(Of(h)) + 1 /\ Cardinality(Of(h)) \in Nat
    BY <2>1, OfFinite, FS_AddElement
  <2>3. \A s \in Of(h) : req'[s] = req[s] /\ req[s].sequence \in Nat /\ s \in Requests
    BY <1>10, <1>11, <2>1 DEF Of, Records
  <2>4. req'[r].sequence = sequence[h]
    BY <1>11, <1>12
  <2>5. \A i \in 1 .. Len(pending[h]) : pending[h][i] # None => pending[h][i] \in Of(h)
    BY PendingAreOf
  <2>6. Cardinality(Of(h)) + counter[h] = sequence[h] /\ base[h] <= sequence[h]
    BY <1>1 DEF IInv, Backend
  <2>7. \A s \in Of(h) : /\ req[s].sequence < sequence[h]
                         /\ s # sending[h] => base[h] <= req[s].sequence
    BY DEF IInv, Backend
  <2>8. \A s, t \in Of(h) : req[s].sequence = req[t].sequence => s = t
    BY DEF IInv, Backend
  <2>9. Cardinality(Of(h)') + counter'[h] = sequence'[h]
    BY <1>1, <1>17, <2>2, <2>6
  <2>10. IF handler'[h] = "consume" THEN sequence'[h] = 0 ELSE base'[h] <= sequence'[h]
    BY <1>1, <1>7, <1>17, <2>6
  <2>11. \A s \in Of(h)' : /\ req'[s].sequence < sequence'[h]
                           /\ s # sending'[h] => base'[h] <= req'[s].sequence
    BY <1>1, <1>17, <2>1, <2>3, <2>4, <2>6, <2>7
  <2>12. \A s, t \in Of(h)' : req'[s].sequence = req'[t].sequence => s = t
    BY <1>17, <2>1, <2>3, <2>4, <2>7, <2>8
  <2>13. \A i \in 1 .. Len(pending'[h]) :
           pending'[h][i] # None => req'[pending'[h][i]].sequence = base'[h] + i - 1
    BY <1>1, <2>3, <2>5 DEF IInv, Backend
  <2>14. pending'[h] # <<>> => pending'[h][Len(pending'[h])] # None
    BY <1>1 DEF IInv, Backend
  <2> QED
    BY <2>9, <2>10, <2>11, <2>12, <2>13, <2>14 DEF Backend
<1> QED
  BY <1>14, <1>15, <1>16, <1>18, <1>19, <1>20 DEF IInv

\* A decoder takes the oldest request; the rest of what is in it stays.
LEMMA DecodeKeeps == ASSUME IInv, NEW d \in Decoders, Decode(d) PROVE IInv'
<1> DEFINE r == Head(decodeQueue)
<1>1. /\ decoder[d] = "consume" /\ decodeQueue # <<>> /\ decodeQueue' = Tail(decodeQueue)
      /\ decoding' = [decoding EXCEPT ![d] = r] /\ decoder' = [decoder EXCEPT ![d] = "decoded"]
      /\ \E v : req' = [req EXCEPT ![r].nbest = v]
      /\ UNCHANGED <<freeRequests, current, outQueue, pending, sending, base, sequence,
                     counter, output, handler>>
  BY DEF Decode, handlerVars, outputVars
<1>2. decodeQueue \in Seq(Requests) /\ IsInjective(decodeQueue)
  BY DEF IInv, Queues
<1>3. /\ r \in ToSet(decodeQueue) /\ r \in Requests
      /\ decodeQueue' \in Seq(Requests) /\ IsInjective(decodeQueue')
      /\ ToSet(decodeQueue') = ToSet(decodeQueue) \ {r}
  BY <1>1, <1>2, HeadTaken
<1> HIDE DEF r
<1>4. decoding[d] = None /\ r # None
  BY <1>1, <1>3, NoneIsNew DEF IInv, Threads
<1>5. /\ decoding'[d] = r /\ \A e \in Decoders \ {d} : decoding'[e] = decoding[e]
      /\ decoder'[d] = "decoded" /\ \A e \in Decoders \ {d} : decoder'[e] = decoder[e]
  BY <1>1 DEF IInv, Threads
<1> DEFINE p == <<"decode", None>>
           q == <<"decoder", d>>
<1>6. p \in Names /\ q \in Names /\ p # q /\ q[1] = "decoder" /\ p[1] = "decode"
  BY NamesArePairs
<1>7. r \in At[p] /\ At'[p] = At[p] \ {r}
  <2>1. At[p] = ToSet(decodeQueue) /\ At'[p] = ToSet(decodeQueue')
    BY AtNames, <1>6 DEF At
  <2> QED
    BY <1>3, <2>1
<1>8. At'[q] = At[q] \cup {r}
  <2>1. At[q] = {decoding[d]} \ {None} /\ At'[q] = {decoding'[d]} \ {None}
    BY <1>6 DEF At
  <2> QED
    BY <1>4, <1>5, <2>1
<1>9. \A x \in Names \ {p, q} : At'[x] = At[x]
  <2>1. \A x \in Names \ {p, q} : /\ x[1] # "decode"
                                  /\ x[1] = "decoder" => x[2] \in Decoders \ {d}
    BY NamesArePairs
  <2> QED
    BY <1>1, <1>5, <2>1, PlaceSame
<1>10. PICK S : req \in [Requests -> Records(S)]
  BY DEF IInv, Fields
<1>11. PICK v : req' = [req EXCEPT ![r].nbest = v]
  BY <1>1
<1>12. \A s \in Requests : /\ req'[s].output = req[s].output
                           /\ req'[s].sequence = req[s].sequence
                           /\ req'[s] \in Records(S \cup {v})
  BY <1>3, <1>10, <1>11 DEF Records
<1>13. req[r].output # None
  BY <1>6, <1>7 DEF IInv, Owners
<1> HIDE DEF p, q
<1>14. Partition(At', Names, Requests) /\ Owners'
  BY <1>3, <1>6, <1>7, <1>8, <1>9, <1>12, <1>13, RequestMoves
<1>15. Queues'
  BY <1>1, <1>3 DEF IInv, Queues
<1>16. Threads'
  <2>1. /\ decoding' \in [Decoders -> Requests \cup {None}]
        /\ decoder' \in [Decoders -> DecoderPlaces]
    BY <1>1, <1>3 DEF IInv, Threads
  <2> QED
    BY <1>1, <1>4, <1>5, <2>1 DEF IInv, Threads
<1>17. Fields'
  <2>1. req' \in [Requests -> Records(S \cup {v})]
    BY <1>10, <1>11, <1>12
  <2>2. \E T : req' \in [Requests -> Records(T)]
    BY <2>1
  <2> QED
    BY <1>1, <2>2 DEF IInv, Fields
<1>18. \A g \in Handlers : Backend(g)'
  <2>1. \A g \in Handlers : Of(g)' = Of(g) /\ \A s \in Of(g) : req'[s].sequence = req[s].sequence
    BY <1>12 DEF Of
  <2> QED
    BY <1>1, <2>1, BackendSame
<1> QED
  BY <1>14, <1>15, <1>16, <1>17, <1>18 DEF IInv

\* A decoder gives the request to the output thread of its connection.
LEMMA DecodedKeeps == ASSUME IInv, NEW d \in Decoders, Decoded(d) PROVE IInv'
<1> DEFINE r == decoding[d]
           h == req[r].output
<1>1. /\ decoder[d] = "decoded" /\ outQueue' = [outQueue EXCEPT ![h] = Append(@, r)]
      /\ decoding' = [decoding EXCEPT ![d] = None] /\ decoder' = [decoder EXCEPT ![d] = "consume"]
      /\ UNCHANGED <<freeRequests, decodeQueue, current, pending, sending, base, sequence,
                     counter, output, handler, req>>
  BY DEF Decoded, handlerVars
<1>2. r \in Requests /\ r # None
  BY <1>1 DEF IInv, Threads
<1> DEFINE p == <<"decoder", d>>
<1>3. p \in Names /\ p[1] = "decoder" /\ At[p] = {r}
  BY <1>2, NamesArePairs, AtNames
<1>4. h \in Handlers
  <2>1. h \in Handlers \cup {None}
    BY <1>2 DEF IInv, Fields, Records
  <2>2. h # None
    BY <1>3 DEF IInv, Owners
  <2> QED
    BY <2>1, <2>2
<1> DEFINE q == <<"out", h>>
<1>5. q \in Names /\ q[1] = "out" /\ q[2] = h /\ p # q /\ At[q] = ToSet(outQueue[h])
  BY <1>4, NamesArePairs, AtNames
<1>6. outQueue[h] \in Seq(Requests) /\ IsInjective(outQueue[h])
  BY <1>4 DEF IInv, Queues
<1>7. r \notin ToSet(outQueue[h])
  BY <1>3, <1>5 DEF IInv, Partition
<1>8. outQueue'[h] = Append(outQueue[h], r) /\ \A g \in Handlers \ {h} : outQueue'[g] = outQueue[g]
  BY <1>1, <1>4 DEF IInv, Queues
<1>9. /\ outQueue'[h] \in Seq(Requests) /\ IsInjective(outQueue'[h])
      /\ ToSet(outQueue'[h]) = ToSet(outQueue[h]) \cup {r}
  <2>1. PICK t \in Seq(Requests) : t = outQueue[h] /\ IsInjective(t) /\ r \notin ToSet(t)
    BY <1>6, <1>7
  <2>2. /\ Append(t, r) \in Seq(Requests) /\ IsInjective(Append(t, r))
        /\ ToSet(Append(t, r)) = ToSet(t) \cup {r}
    BY <1>2, <2>1, EndAdded
  <2> QED
    BY <1>8, <2>1, <2>2
<1>10. /\ decoding'[d] = None /\ \A e \in Decoders \ {d} : decoding'[e] = decoding[e]
       /\ decoder'[d] = "consume" /\ \A e \in Decoders \ {d} : decoder'[e] = decoder[e]
  BY <1>1 DEF IInv, Threads
<1>11. req[r].output = h
  OBVIOUS
<1> HIDE DEF r, h
<1>12. At'[p] = At[p] \ {r} /\ At'[q] = At[q] \cup {r}
  <2>1. At'[p] = {decoding'[d]} \ {None} /\ At'[q] = ToSet(outQueue'[h])
    BY <1>3, <1>5 DEF At
  <2> QED
    BY <1>3, <1>5, <1>9, <1>10, <2>1
<1>13. \A x \in Names \ {p, q} : At'[x] = At[x]
  <2>1. \A x \in Names \ {p, q} : /\ x[1] = "decoder" => x[2] \in Decoders \ {d}
                                  /\ x[1] = "out" => x[2] \in Handlers \ {h}
    BY NamesArePairs
  <2> QED
    BY <1>1, <1>8, <1>10, <2>1, PlaceSame
<1> HIDE DEF p, q
<1>14. Partition(At', Names, Requests) /\ Owners'
  <2>1. r \in At[p] /\ req'[r].output = h /\ h # None
    BY <1>1, <1>3, <1>4, <1>11, NoneIsNew
  <2> QED
    BY <1>1, <1>3, <1>5, <1>12, <1>13, <2>1, RequestMoves
<1>15. Queues'
  <2>1. outQueue' \in [Handlers -> Seq(Requests)]
    BY <1>1, <1>8, <1>9 DEF IInv, Queues
  <2>2. \A g \in Handlers : IsInjective(outQueue'[g])
    BY <1>8, <1>9 DEF IInv, Queues
  <2> QED
    BY <1>1, <2>1, <2>2 DEF IInv, Queues
<1>16. Threads'
  <2>1. /\ decoding' \in [Decoders -> Requests \cup {None}]
        /\ decoder' \in [Decoders -> DecoderPlaces]
    BY <1>1 DEF IInv, Threads
  <2> QED
    BY <1>1, <1>10, <2>1 DEF IInv, Threads
<1>17. Fields' /\ \A g \in Handlers : Backend(g)'
  BY <1>1, BackendsSame
<1> QED
  BY <1>14, <1>15, <1>16, <1>17 DEF IInv

\* The position of a request is still free: no other of the connection has its number.
LEMMA ReceiveKeeps == ASSUME IInv, NEW h \in Handlers, Receive(h) PROVE IInv'
<1> DEFINE r == Head(outQueue[h])
           at == req[r].sequence - base[h]
<1>1. /\ output[h] = "consume" /\ outQueue[h] # <<>>
      /\ outQueue' = [outQueue EXCEPT ![h] = Tail(@)]
      /\ pending' = [pending EXCEPT ![h] = Place(@, at, r)]
      /\ output' = [output EXCEPT ![h] = "loop"]
      /\ UNCHANGED <<freeRequests, decodeQueue, decoder, decoding, current, sending, req,
                     sequence, base, counter, handler>>
  BY DEF Receive, handlerVars, decoderVars
<1>2. /\ outQueue[h] \in Seq(Requests) /\ IsInjective(outQueue[h])
      /\ pending[h] \in Seq(Requests \cup {None})
  BY DEF IInv, Queues
<1>3. outQueue'[h] = Tail(outQueue[h]) /\ \A g \in Handlers \ {h} : outQueue'[g] = outQueue[g]
  BY <1>1 DEF IInv, Queues
<1>4. /\ r \in ToSet(outQueue[h]) /\ r \in Requests
      /\ outQueue'[h] \in Seq(Requests) /\ IsInjective(outQueue'[h])
      /\ ToSet(outQueue'[h]) = ToSet(outQueue[h]) \ {r}
  BY <1>1, <1>2, <1>3, HeadTaken
<1> HIDE DEF r
<1>5. pending'[h] = Place(pending[h], at, r) /\ \A g \in Handlers \ {h} : pending'[g] = pending[g]
  BY <1>1 DEF IInv, Queues
<1> DEFINE p == <<"out", h>>
           q == <<"pending", h>>
<1>6. /\ p \in Names /\ q \in Names /\ p # q /\ q[1] = "pending" /\ p[1] = "out"
      /\ p[2] = h /\ q[2] = h
      /\ At[p] = ToSet(outQueue[h]) /\ At[q] = ToSet(pending[h]) \ {None}
  BY NamesArePairs, AtNames
<1>7. r \in At[p] /\ r # None /\ r \notin At[q]
  BY <1>4, <1>6, NoneIsNew DEF IInv, Partition
<1>8. req[r].output = h /\ r \in Of(h)
  BY <1>4, <1>6, <1>7 DEF IInv, Owners, Of
\* It is not the one the thread writes.
<1>9. r # sending[h]
  BY <1>1, <1>7 DEF IInv, Threads
<1>10. at \in Nat /\ base[h] \in Nat /\ req[r].sequence = base[h] + at
  <2>1. base[h] \in Nat /\ req[r].sequence \in Nat
    BY <1>4 DEF IInv, Fields, Records
  <2>2. base[h] <= req[r].sequence
    BY <1>8, <1>9 DEF IInv, Backend
  <2> QED
    BY <2>1, <2>2
<1> HIDE DEF at
<1> DEFINE n == Place(pending[h], at, r)
<1>11. /\ n \in Seq(Requests \cup {None}) /\ Len(pending[h]) \in Nat
       /\ Len(n) = (IF at >= Len(pending[h]) THEN at + 1 ELSE Len(pending[h]))
       /\ at + 1 \in 1 .. Len(n) /\ n[at + 1] = r
       /\ \A i \in 1 .. Len(n) :
            i # at + 1 => n[i] = IF i <= Len(pending[h]) THEN pending[h][i] ELSE None
  <2>1. PICK t : t = pending[h] /\ t \in Seq(Requests \cup {None})
    BY <1>2
  <2> DEFINE l == IF at >= Len(t) THEN at + 1 ELSE Len(t)
  <2>2. Len(t) \in Nat /\ l \in Nat /\ at + 1 \in 1 .. l
    BY <1>10, <2>1
  <2>3. n = [i \in 1 .. l |-> IF i = at + 1 THEN r ELSE IF i <= Len(t) THEN t[i] ELSE None]
    BY <2>1 DEF Place
  <2> HIDE DEF n, l
  <2>4. \A i \in 1 .. l : n[i] \in Requests \cup {None}
    <3>1. \A i \in 1 .. l : i <= Len(t) => i \in 1 .. Len(t)
      BY <2>2
    <3> QED
      BY <1>4, <2>1, <2>3, <3>1
  <2>5. n \in Seq(Requests \cup {None}) /\ Len(n) = l
    BY <2>2, <2>3, <2>4
  <2>6. /\ n[at + 1] = r
        /\ \A i \in 1 .. l : i # at + 1 => n[i] = IF i <= Len(t) THEN t[i] ELSE None
    BY <2>2, <2>3
  <2> QED
    BY <2>1, <2>2, <2>5, <2>6 DEF l
<1> HIDE DEF n
\* What was there is no request.
<1>12. at + 1 <= Len(pending[h]) => pending[h][at + 1] = None
  <2>1. SUFFICES ASSUME at + 1 <= Len(pending[h]), pending[h][at + 1] # None PROVE FALSE
    OBVIOUS
  <2>2. at + 1 \in 1 .. Len(pending[h])
    BY <1>10, <1>11, <2>1
  <2>3. pending[h][at + 1] \in Of(h) /\ pending[h][at + 1] \in At[q]
    BY <2>1, <2>2, PendingAreOf
  <2>4. req[pending[h][at + 1]].sequence = base[h] + (at + 1) - 1
    BY <2>1, <2>2 DEF IInv, Backend
  <2>5. req[pending[h][at + 1]].sequence = req[r].sequence
    BY <1>10, <2>4
  <2>6. pending[h][at + 1] = r
    BY <1>8, <2>3, <2>5 DEF IInv, Backend
  <2> QED
    BY <1>7, <2>3, <2>6
<1>13. \A i \in 1 .. Len(n) : \/ i = at + 1 /\ n[i] = r
                              \/ i # at + 1 /\ i \in 1 .. Len(pending[h]) /\ n[i] = pending[h][i]
                              \/ i # at + 1 /\ n[i] = None
  BY <1>10, <1>11
<1>14. ToSet(n) \ {None} = At[q] \cup {r}
  <2>1. ToSet(n) = {n[i] : i \in 1 .. Len(n)}
        /\ ToSet(pending[h]) = {pending[h][i] : i \in 1 .. Len(pending[h])}
    BY <1>2, <1>11, Members
  <2>2. ToSet(n) \ {None} \subseteq At[q] \cup {r}
    BY <1>6, <1>13, <2>1
  <2>3. r \in ToSet(n)
    BY <1>11, <2>1
  <2>4. At[q] \subseteq ToSet(n)
    <3>1. SUFFICES ASSUME NEW i \in 1 .. Len(pending[h]), pending[h][i] # None
                   PROVE  pending[h][i] \in ToSet(n)
      BY <1>6, <2>1
    <3>2. i # at + 1 /\ i \in 1 .. Len(n) /\ n[i] = pending[h][i]
      BY <1>10, <1>11, <1>12, <3>1
    <3> QED
      BY <2>1, <3>2
  <2> QED
    BY <1>6, <1>7, <2>2, <2>3, <2>4
<1>15. At'[p] = At[p] \ {r} /\ At'[q] = At[q] \cup {r}
  <2>1. At'[p] = ToSet(outQueue'[h]) /\ At'[q] = ToSet(pending'[h]) \ {None}
    BY <1>6 DEF At
  <2> QED
    BY <1>4, <1>5, <1>6, <1>14, <2>1 DEF n
<1>16. \A x \in Names \ {p, q} : At'[x] = At[x]
  <2>1. \A x \in Names \ {p, q} : x[1] \in {"out", "pending"} => x[2] \in Handlers \ {h}
    BY NamesArePairs
  <2> QED
    BY <1>1, <1>3, <1>5, <2>1, PlaceSame
<1> HIDE DEF p, q
<1>17. Partition(At', Names, Requests) /\ Owners'
  <2>1. h # None /\ req'[r].output = h
    BY <1>1, <1>8, NoneIsNew
  <2> QED
    BY <1>1, <1>6, <1>7, <1>15, <1>16, <2>1, RequestMoves
<1>18. Queues'
  <2>1. outQueue' \in [Handlers -> Seq(Requests)]
    BY <1>1, <1>3, <1>4 DEF IInv, Queues
  <2>2. \A g \in Handlers : IsInjective(outQueue'[g])
    BY <1>3, <1>4 DEF IInv, Queues
  <2>3. pending' \in [Handlers -> Seq(Requests \cup {None})]
    BY <1>1, <1>5, <1>11 DEF IInv, Queues, n
  <2> QED
    BY <1>1, <2>1, <2>2, <2>3 DEF IInv, Queues
<1>19. Threads'
  <2>1. output' \in [Handlers -> OutputPlaces]
        /\ \A g \in Handlers : output'[g] \in WithRequest <=> output[g] \in WithRequest
    BY <1>1 DEF IInv, Threads
  <2> QED
    BY <1>1, <2>1 DEF IInv, Threads
<1>20. Fields' /\ \A g \in Handlers : Of(g)' = Of(g)
  BY <1>1 DEF IInv, Fields, Of
<1>21. ASSUME NEW g \in Handlers, g # h PROVE Backend(g)'
  BY <1>1, <1>5, <1>20, <1>21, BackendSame
<1>22. Backend(h)'
  <2>1. \A i \in 1 .. Len(pending[h]) :
          pending[h][i] # None => req[pending[h][i]].sequence = base[h] + i - 1
    BY DEF IInv, Backend
  <2>2. \A i \in 1 .. Len(n) : n[i] # None => req[n[i]].sequence = base[h] + i - 1
    <3>1. ASSUME NEW i \in 1 .. Len(n), i = at + 1, n[i] = r
          PROVE  req[n[i]].sequence = base[h] + i - 1
      BY <1>10, <3>1
    <3>2. ASSUME NEW i \in 1 .. Len(n), n[i] # None,
                 i \in 1 .. Len(pending[h]), n[i] = pending[h][i]
          PROVE  req[n[i]].sequence = base[h] + i - 1
      BY <2>1, <3>2
    <3> QED
      BY <1>13, <3>1, <3>2
  <2>3. n[Len(n)] # None
    <3>1. CASE at >= Len(pending[h])
      BY <1>7, <1>11, <3>1
    <3>2. CASE ~(at >= Len(pending[h]))
      <4>1. Len(n) = Len(pending[h]) /\ Len(n) \in 1 .. Len(n) /\ pending[h] # <<>>
        BY <1>10, <1>11, <3>2
      <4>2. pending[h][Len(pending[h])] # None
        BY <4>1 DEF IInv, Backend
      <4> QED
        BY <1>7, <1>10, <1>11, <4>1, <4>2
    <3> QED
      BY <3>1, <3>2
  <2>4. pending'[h] = n
    BY <1>5 DEF n
  <2> QED
    BY <1>1, <1>20, <2>2, <2>3, <2>4 DEF IInv, Backend
<1> QED
  BY <1>17, <1>18, <1>19, <1>20, <1>21, <1>22 DEF IInv

\* The next in order leaves what is held back; no other of the connection has
\* a number as low as its.
LEMMA WriteNBestKeeps == ASSUME IInv, NEW h \in Handlers, WriteNBest(h) PROVE IInv'
<1> DEFINE r == Head(pending[h])
<1>1. /\ output[h] = "loop" /\ pending[h] # <<>> /\ r # None
      /\ sending' = [sending EXCEPT ![h] = r]
      /\ pending' = [pending EXCEPT ![h] = Tail(@)] /\ base' = [base EXCEPT ![h] = @ + 1]
      /\ output' = [output EXCEPT ![h] = "write"]
      /\ UNCHANGED <<freeRequests, decodeQueue, decoder, decoding, current, outQueue, req,
                     sequence, counter, handler>>
  BY DEF WriteNBest, Ready, handlerVars, decoderVars
<1>2. pending[h] \in Seq(Requests \cup {None}) /\ Len(pending[h]) \in Nat
      /\ 1 \in 1 .. Len(pending[h]) /\ r = pending[h][1]
  <2>1. pending[h] \in Seq(Requests \cup {None})
    BY DEF IInv, Queues
  <2> QED
    BY <1>1, <2>1
<1>3. r \in Of(h) /\ r \in At[<<"pending", h>>] /\ r \in Requests /\ req[r].sequence = base[h]
  <2>1. r \in Of(h) /\ r \in At[<<"pending", h>>] /\ req[r].sequence = base[h] + 1 - 1
    BY <1>1, <1>2, PendingAreOf DEF IInv, Backend
  <2>2. base[h] \in Nat
    BY DEF IInv, Fields
  <2> QED
    BY <2>1, <2>2 DEF Of
<1> HIDE DEF r
<1>4. sending[h] = None
  BY <1>1 DEF IInv, Threads
<1>5. /\ sending'[h] = r /\ \A g \in Handlers \ {h} : sending'[g] = sending[g]
      /\ pending'[h] = Tail(pending[h]) /\ \A g \in Handlers \ {h} : pending'[g] = pending[g]
      /\ base'[h] = base[h] + 1 /\ \A g \in Handlers \ {h} : base'[g] = base[g]
      /\ output'[h] = "write" /\ \A g \in Handlers \ {h} : output'[g] = output[g]
  BY <1>1 DEF IInv, Queues, Fields, Threads
<1>6. base[h] \in Nat /\ sequence[h] \in Nat /\ counter[h] \in Nat
      /\ \A s \in Requests : req[s].sequence \in Nat
  BY DEF IInv, Fields, Records
<1>7. /\ pending'[h] \in Seq(Requests \cup {None}) /\ Len(pending'[h]) = Len(pending[h]) - 1
      /\ \A i \in 1 .. Len(pending'[h]) :
           i + 1 \in 1 .. Len(pending[h]) /\ pending'[h][i] = pending[h][i + 1]
  <2>1. PICK t \in Seq(Requests \cup {None}) : t = pending[h] /\ t # <<>>
    BY <1>1, <1>2
  <2>2. /\ Tail(t) \in Seq(Requests \cup {None}) /\ Len(Tail(t)) = Len(t) - 1 /\ Len(t) \in Nat
        /\ \A i \in 1 .. Len(Tail(t)) : i + 1 \in 1 .. Len(t) /\ Tail(t)[i] = t[i + 1]
    BY <2>1
  <2> QED
    BY <1>5, <2>1, <2>2
<1>8. \A i \in 1 .. Len(pending[h]) :
        pending[h][i] # None => /\ req[pending[h][i]].sequence = base[h] + i - 1
                                /\ pending[h][i] \in Requests
  BY <1>2 DEF IInv, Backend
<1>9. ToSet(pending'[h]) \ {None} = (ToSet(pending[h]) \ {None}) \ {r}
  <2>1. /\ ToSet(pending'[h]) = {pending'[h][i] : i \in 1 .. Len(pending'[h])}
        /\ ToSet(pending[h]) = {pending[h][i] : i \in 1 .. Len(pending[h])}
    BY <1>2, <1>7, Members
  <2>2. \A i \in 1 .. Len(pending[h]) : i # 1 => pending[h][i] # r
    <3>1. SUFFICES ASSUME NEW i \in 1 .. Len(pending[h]), pending[h][i] = r PROVE i = 1
      OBVIOUS
    <3>2. req[r].sequence = base[h] + i - 1
      BY <1>1, <1>8, <3>1
    <3> QED
      BY <1>2, <1>3, <1>6, <3>2
  <2>3. ASSUME NEW i \in 1 .. Len(pending[h]), pending[h][i] # r
        PROVE  pending[h][i] \in ToSet(pending'[h])
    <3>1. i - 1 \in 1 .. Len(pending'[h]) /\ (i - 1) + 1 = i
      BY <1>2, <1>7, <2>3
    <3>2. pending'[h][i - 1] = pending[h][i]
      BY <1>7, <3>1
    <3> QED
      BY <2>1, <3>1, <3>2
  <2>4. ASSUME NEW i \in 1 .. Len(pending'[h])
        PROVE  pending'[h][i] \in ToSet(pending[h]) /\ pending'[h][i] # r
    <3>1. i + 1 \in 1 .. Len(pending[h]) /\ i + 1 # 1 /\ pending'[h][i] = pending[h][i + 1]
      BY <1>7
    <3> QED
      BY <2>1, <2>2, <3>1
  <2> QED
    BY <2>1, <2>3, <2>4
<1> DEFINE p == <<"pending", h>>
           q == <<"sending", h>>
<1>10. /\ p \in Names /\ q \in Names /\ p # q /\ q[1] = "sending" /\ p[1] = "pending"
       /\ p[2] = h /\ q[2] = h
       /\ At[p] = ToSet(pending[h]) \ {None} /\ At[q] = {sending[h]} \ {None}
  BY NamesArePairs, AtNames
<1>11. At'[p] = At[p] \ {r} /\ At'[q] = At[q] \cup {r}
  <2>1. At'[p] = ToSet(pending'[h]) \ {None} /\ At'[q] = {sending'[h]} \ {None}
    BY <1>10 DEF At
  <2> QED
    BY <1>1, <1>4, <1>5, <1>9, <1>10, <2>1
<1>12. \A x \in Names \ {p, q} : At'[x] = At[x]
  <2>1. \A x \in Names \ {p, q} : x[1] \in {"pending", "sending"} => x[2] \in Handlers \ {h}
    BY NamesArePairs
  <2> QED
    BY <1>1, <1>5, <2>1, PlaceSame
<1>13. r \in At[p] /\ req[r].output = h /\ h # None
  BY <1>3, NoneIsNew DEF Of
<1> HIDE DEF p, q
<1>14. Partition(At', Names, Requests) /\ Owners'
  BY <1>1, <1>10, <1>11, <1>12, <1>13, RequestMoves
<1>15. Queues'
  <2>1. pending' \in [Handlers -> Seq(Requests \cup {None})]
    BY <1>1, <1>5, <1>7 DEF IInv, Queues
  <2> QED
    BY <1>1, <2>1 DEF IInv, Queues
<1>16. Threads'
  <2>1. sending' \in [Handlers -> Requests \cup {None}]
        /\ output' \in [Handlers -> OutputPlaces]
    BY <1>1, <1>3 DEF IInv, Threads
  <2>2. \A g \in Handlers : sending'[g] # None <=> output'[g] \in WithRequest
    BY <1>1, <1>5 DEF IInv, Threads
  <2> QED
    BY <1>1, <2>1, <2>2 DEF IInv, Threads
<1>17. Fields' /\ \A g \in Handlers : Of(g)' = Of(g)
  <2>1. base' \in [Handlers -> Nat]
    BY <1>1 DEF IInv, Fields
  <2> QED
    BY <1>1, <2>1 DEF IInv, Fields, Of
<1>18. ASSUME NEW g \in Handlers, g # h PROVE Backend(g)'
  BY <1>1, <1>5, <1>17, <1>18, BackendSame
<1>19. Backend(h)'
  <2>1. handler[h] # "consume" /\ base[h] <= sequence[h]
    BY <1>3, IdleHasNone DEF IInv, Backend
  <2>2. \A s \in Of(h) : /\ req[s].sequence < sequence[h] /\ base[h] <= req[s].sequence
                         /\ s \in Requests
    <3>1. \A s \in Of(h) : s \in Requests /\ s # sending[h]
      BY <1>4, NoneIsNew DEF Of
    <3> QED
      BY <3>1 DEF IInv, Backend
  <2>3. \A s \in Of(h) : req[s].sequence = base[h] => s = r
    BY <1>3 DEF IInv, Backend
  <2>4. base'[h] <= sequence'[h]
    BY <1>1, <1>3, <1>5, <1>6, <2>2
  <2>5. \A s \in Of(h)' : /\ req'[s].sequence < sequence'[h]
                          /\ s # sending'[h] => base'[h] <= req'[s].sequence
    BY <1>1, <1>5, <1>6, <1>17, <2>2, <2>3
  <2>6. \A i \in 1 .. Len(pending'[h]) :
          pending'[h][i] # None => req'[pending'[h][i]].sequence = base'[h] + i - 1
    BY <1>1, <1>5, <1>6, <1>7, <1>8
  <2>7. pending'[h] # <<>> => pending'[h][Len(pending'[h])] # None
    <3>1. SUFFICES ASSUME pending'[h] # <<>> PROVE pending'[h][Len(pending'[h])] # None
      OBVIOUS
    <3>2. Len(pending'[h]) \in 1 .. Len(pending'[h]) /\ Len(pending'[h]) + 1 = Len(pending[h])
      BY <1>2, <1>7, <3>1
    <3>3. pending[h][Len(pending[h])] # None
      BY <1>1 DEF IInv, Backend
    <3> QED
      BY <1>7, <3>2, <3>3
  <2>8. /\ Cardinality(Of(h)') + counter'[h] = sequence'[h]
        /\ \A s, t \in Of(h)' : req'[s].sequence = req'[t].sequence => s = t
    BY <1>1, <1>17 DEF IInv, Backend
  <2> QED
    BY <1>1, <2>1, <2>4, <2>5, <2>6, <2>7, <2>8 DEF Backend
<1> QED
  BY <1>14, <1>15, <1>16, <1>17, <1>18, <1>19 DEF IInv

\* A request that was written is free, and one more of its connection's counted.
LEMMA FreeSentKeeps == ASSUME IInv, NEW h \in Handlers, FreeSent(h) PROVE IInv'
<1> DEFINE r == sending[h]
<1>1. /\ output[h] = "free" /\ freeRequests' = Append(freeRequests, r)
      /\ req' = [req EXCEPT ![r] = NoRequest] /\ sending' = [sending EXCEPT ![h] = None]
      /\ counter' = [counter EXCEPT ![h] = @ + 1]
      /\ output' = [output EXCEPT ![h] = "loop"]
      /\ UNCHANGED <<decodeQueue, decoder, decoding, current, outQueue, pending, base,
                     sequence, handler>>
  BY DEF FreeSent, Free, Post, handlerVars, decoderVars
<1>2. /\ freeRequests \in Seq(Requests) /\ IsInjective(freeRequests)
      /\ r \in Requests /\ r # None
  BY <1>1 DEF IInv, Queues, Threads
<1> DEFINE p == <<"sending", h>>
           q == <<"free", None>>
<1>3. p \in Names /\ q \in Names /\ p # q /\ q[1] = "free" /\ p[1] = "sending" /\ p[2] = h
  BY NamesArePairs
<1>4. At[p] = {r} /\ At[q] = ToSet(freeRequests)
  <2>1. At[p] = {sending[h]} \ {None} /\ At[q] = ToSet(freeRequests)
    BY AtNames
  <2> QED
    BY <1>2, <2>1
<1>5. r \notin ToSet(freeRequests)
  BY <1>3, <1>4 DEF IInv, Partition
<1>6. /\ freeRequests' \in Seq(Requests) /\ IsInjective(freeRequests')
      /\ ToSet(freeRequests') = ToSet(freeRequests) \cup {r}
  BY <1>1, <1>2, <1>5, EndAdded
<1>7. r \in At[p] /\ r \in Of(h)
  <2>1. r \in At[p]
    BY <1>4
  <2>2. req[r].output = h
    BY <1>3, <2>1 DEF IInv, Owners
  <2> QED
    BY <1>2, <2>1, <2>2 DEF Of
<1>8. \A i \in 1 .. Len(pending[h]) : pending[h][i] # None => pending[h][i] \in Of(h) \ {r}
  <2>1. SUFFICES ASSUME NEW i \in 1 .. Len(pending[h]), pending[h][i] # None
                 PROVE  pending[h][i] \in Of(h) \ {r}
    OBVIOUS
  <2>2. pending[h][i] \in Of(h) /\ pending[h][i] \in At[<<"pending", h>>]
    BY <2>1, PendingAreOf
  <2>3. <<"pending", h>> \in Names /\ <<"pending", h>> # p
    BY NamesArePairs
  <2> QED
    BY <1>3, <1>7, <2>2, <2>3 DEF IInv, Partition
<1> HIDE DEF r
<1>9. /\ sending'[h] = None /\ \A g \in Handlers \ {h} : sending'[g] = sending[g]
      /\ output'[h] = "loop" /\ \A g \in Handlers \ {h} : output'[g] = output[g]
      /\ counter'[h] = counter[h] + 1 /\ \A g \in Handlers \ {h} : counter'[g] = counter[g]
  BY <1>1 DEF IInv, Threads, Fields
<1>10. At'[p] = At[p] \ {r} /\ At'[q] = At[q] \cup {r}
  <2>1. At'[p] = {sending'[h]} \ {None} /\ At'[q] = ToSet(freeRequests')
    BY <1>3 DEF At
  <2> QED
    BY <1>4, <1>6, <1>9, <2>1
<1>11. \A x \in Names \ {p, q} : At'[x] = At[x]
  <2>1. \A x \in Names \ {p, q} : /\ x[1] # "free"
                                  /\ x[1] = "sending" => x[2] \in Handlers \ {h}
    BY NamesArePairs
  <2> QED
    BY <1>1, <1>9, <2>1, PlaceSame
<1>12. PICK S : req \in [Requests -> Records(S)]
  BY DEF IInv, Fields
<1>13. req'[r] = NoRequest /\ \A s \in Requests \ {r} : req'[s] = req[s]
  BY <1>1, <1>2, <1>12
<1>14. NoRequest.output = None /\ None \notin Handlers
  BY NoneIsNew DEF NoRequest
<1> HIDE DEF p, q
<1>15. Partition(At', Names, Requests) /\ Owners'
  BY <1>3, <1>7, <1>10, <1>11, <1>13, <1>14, RequestMoves
<1>16. Queues'
  BY <1>1, <1>6 DEF IInv, Queues
<1>17. Threads'
  <2>1. sending' \in [Handlers -> Requests \cup {None}]
        /\ output' \in [Handlers -> OutputPlaces]
    BY <1>1 DEF IInv, Threads
  <2>2. \A g \in Handlers : sending'[g] # None <=> output'[g] \in WithRequest
    BY <1>9 DEF IInv, Threads
  <2> QED
    BY <1>1, <2>1, <2>2 DEF IInv, Threads
<1>18. Fields'
  <2> DEFINE T == S \cup {None}
  <2>1. NoRequest \in Records(T) /\ \A s \in Requests : req[s] \in Records(T)
    BY <1>12 DEF NoRequest, Records
  <2>2. req' \in [Requests -> Records(T)]
    BY <1>1, <1>2, <1>12, <2>1
  <2>3. \E U : req' \in [Requests -> Records(U)]
    BY <2>2
  <2>4. counter' \in [Handlers -> Nat]
    BY <1>1 DEF IInv, Fields
  <2> QED
    BY <1>1, <2>3, <2>4 DEF IInv, Fields
<1>19. ASSUME NEW g \in Handlers, g # h PROVE Backend(g)'
  <2>1. req[r].output = h
    BY <1>7 DEF Of
  <2>2. Of(g)' = Of(g) /\ \A s \in Of(g) : req'[s].sequence = req[s].sequence
    BY <1>13, <1>14, <1>19, <2>1 DEF Of
  <2> QED
    BY <1>1, <1>9, <1>19, <2>2, BackendSame
<1>20. Backend(h)'
  <2>1. Of(h)' = Of(h) \ {r} /\ \A s \in Of(h)' : s \in Of(h) /\ s # r /\ req'[s] = req[s]
    BY <1>13, <1>14 DEF Of
  <2>2. Cardinality(Of(h)') = Cardinality(Of(h)) - 1 /\ Cardinality(Of(h)) \in Nat
    BY <1>7, <2>1, OfFinite, FS_RemoveElement
  <2>3. counter[h] \in Nat /\ sequence[h] \in Nat
    BY DEF IInv, Fields
  <2>4. Cardinality(Of(h)') + counter'[h] = sequence'[h]
    <3>1. Cardinality(Of(h)) + counter[h] = sequence[h] /\ sequence'[h] = sequence[h]
      BY <1>1 DEF IInv, Backend
    <3> QED
      BY <1>9, <2>2, <2>3, <3>1
  <2>5. IF handler'[h] = "consume" THEN sequence'[h] = 0 ELSE base'[h] <= sequence'[h]
    BY <1>1 DEF IInv, Backend
  <2>6. \A s \in Of(h) : /\ req[s].sequence < sequence[h]
                         /\ s # r => base[h] <= req[s].sequence
    BY DEF IInv, Backend, r
  <2>7. \A s \in Of(h)' : /\ req'[s].sequence < sequence'[h]
                          /\ s # sending'[h] => base'[h] <= req'[s].sequence
    BY <1>1, <2>1, <2>6
  <2>8. \A s, t \in Of(h)' : req'[s].sequence = req'[t].sequence => s = t
    BY <2>1 DEF IInv, Backend
  <2>9. \A s \in Of(h) \ {r} : req'[s] = req[s]
    BY <2>1
  <2>10. \A i \in 1 .. Len(pending'[h]) :
           pending'[h][i] # None => req'[pending'[h][i]].sequence = base'[h] + i - 1
    <3>1. \A i \in 1 .. Len(pending[h]) :
            pending[h][i] # None => req[pending[h][i]].sequence = base[h] + i - 1
      BY DEF IInv, Backend
    <3>2. \A i \in 1 .. Len(pending[h]) :
            pending[h][i] # None => req'[pending[h][i]] = req[pending[h][i]]
      BY <1>8, <2>9
    <3> QED
      BY <1>1, <3>1, <3>2
  <2>11. pending'[h] # <<>> => pending'[h][Len(pending'[h])] # None
    BY <1>1 DEF IInv, Backend
  <2> QED
    BY <2>4, <2>5, <2>7, <2>8, <2>10, <2>11 DEF Backend
<1> QED
  BY <1>15, <1>16, <1>17, <1>18, <1>19, <1>20 DEF IInv
-----------------------------------------------------------------------------
LEMMA CommandKeeps ==
  ASSUME IInv, NEW h \in Handlers,
         Command(h) \/ FeatureInfoWritten(h) \/ WriteError(h) \/ ErrorWritten(h)
  PROVE  IInv'
<1>1. /\ handler[h] \in {"header", "info", "error", "tell"}
      /\ \/ handler' = handler
         \/ \E v \in {"header", "info", "free", "error", "tell", "drain"} :
              handler' = [handler EXCEPT ![h] = v]
      /\ UNCHANGED <<freeRequests, decodeQueue, decoder, decoding, current, outQueue, pending,
                     sending, req, sequence, base, counter, output>>
  BY DEF Command, Config, FeatureInfo, Matched, BadCommand, Bye, EndOfStream,
         FeatureInfoWritten, WriteError, ErrorWritten, handlerVars, outputVars, decoderVars
<1>2. /\ handler \in [Handlers -> HandlerPlaces]
      /\ output \in [Handlers -> OutputPlaces] /\ decoder \in [Decoders -> DecoderPlaces]
  BY DEF IInv, Threads
<1>3. /\ handler' \in [Handlers -> HandlerPlaces]
      /\ \A g \in Handlers : /\ handler'[g] = "aligned" <=> handler[g] = "aligned"
                             /\ handler'[g] = "consume" <=> handler[g] = "consume"
  BY <1>1, <1>2
<1> QED
  BY <1>1, <1>2, <1>3, QuietKeeps

\* The output thread moves on, with its request or without.
LEMMA OutputMovesKeeps ==
  ASSUME IInv, NEW h \in Handlers, LoopEnds(h) \/ NBestWritten(h) PROVE IInv'
<1>1. /\ \/ output[h] = "loop" /\ output' = [output EXCEPT ![h] = "consume"]
         \/ output[h] = "write" /\ output' = [output EXCEPT ![h] = "free"]
      /\ UNCHANGED <<freeRequests, decodeQueue, decoder, decoding, current, outQueue, pending,
                     sending, req, sequence, base, counter, handler>>
  BY DEF LoopEnds, NBestWritten, handlerVars, decoderVars
<1>2. /\ handler \in [Handlers -> HandlerPlaces]
      /\ output \in [Handlers -> OutputPlaces] /\ decoder \in [Decoders -> DecoderPlaces]
  BY DEF IInv, Threads
<1>3. /\ output' \in [Handlers -> OutputPlaces]
      /\ \A g \in Handlers : output'[g] \in WithRequest <=> output[g] \in WithRequest
  BY <1>1, <1>2
<1> QED
  BY <1>1, <1>2, <1>3, QuietKeeps

\* A decoder that aborts the process has touched nothing.
LEMMA DecodeThrowsKeeps == ASSUME IInv, NEW d \in Decoders, DecodeThrows(d) PROVE IInv'
<1>1. /\ decoder[d] = "consume" /\ decoder' = [decoder EXCEPT ![d] = "aborted"]
      /\ UNCHANGED <<freeRequests, decodeQueue, decoding, current, outQueue, pending,
                     sending, req, sequence, base, counter, handler, output>>
  BY DEF DecodeThrows, handlerVars, outputVars
<1>2. /\ handler \in [Handlers -> HandlerPlaces]
      /\ output \in [Handlers -> OutputPlaces] /\ decoder \in [Decoders -> DecoderPlaces]
  BY DEF IInv, Threads
<1>3. /\ decoder' \in [Decoders -> DecoderPlaces]
      /\ \A e \in Decoders : decoder'[e] = "decoded" <=> decoder[e] = "decoded"
  BY <1>1, <1>2
<1> QED
  BY <1>1, <1>2, <1>3, QuietKeeps

\* The acceptor, the clients, the streams and a step that changes nothing.
LEMMA OthersKeep ==
  ASSUME IInv,
         \/ AcceptFails \/ \E c \in Clients : Accept(c) \/ Read(c) \/ Disconnect(c)
         \/ \E h \in Handlers : Push(h)
         \/ UNCHANGED vars
  PROVE  IInv'
<1>1. UNCHANGED <<freeRequests, decodeQueue, decoder, decoding, current, outQueue, pending,
                  sending, req, sequence, base, counter, handler, output>>
  BY DEF AcceptFails, Accept, Read, Disconnect, Push, vars, handlerVars, outputVars, decoderVars
<1>2. /\ handler \in [Handlers -> HandlerPlaces]
      /\ output \in [Handlers -> OutputPlaces] /\ decoder \in [Decoders -> DecoderPlaces]
  BY DEF IInv, Threads
<1> QED
  BY <1>1, <1>2, QuietKeeps

LEMMA StepKeeps == IInv /\ [Next]_vars => IInv'
<1> SUFFICES ASSUME IInv, [Next]_vars PROVE IInv'
  OBVIOUS
<1>1. CASE \/ AcceptFails \/ \E c \in Clients : Accept(c) \/ Read(c) \/ Disconnect(c)
           \/ \E h \in Handlers : Push(h)
           \/ UNCHANGED vars
  BY <1>1, OthersKeep
<1>2. ASSUME NEW h \in Handlers, Handle(h) PROVE IInv'
  BY <1>2, OpenConnectionKeeps, CommandKeeps, GetFreeKeeps, AlignedKeeps, AlignedFailsKeeps,
     CloseConnectionKeeps DEF Handle
<1>3. ASSUME NEW h \in Handlers, OutputStep(h) PROVE IInv'
  BY <1>3, ReceiveKeeps, OutputMovesKeeps, WriteNBestKeeps, FreeSentKeeps DEF OutputStep
<1>4. ASSUME NEW d \in Decoders, DecoderStep(d) PROVE IInv'
  BY <1>4, DecodeKeeps, DecodeThrowsKeeps, DecodedKeeps DEF DecoderStep
<1> QED
  BY <1>1, <1>2, <1>3, <1>4 DEF Next

LEMMA Invariant == Spec => []IInv
<1>1. Init => IInv
  BY Starts
<1>2. IInv /\ [Next]_vars => IInv'
  BY StepKeeps
<1> QED
  BY <1>1, <1>2, PTL DEF Spec
-----------------------------------------------------------------------------
\* Places names a place by Label; Spots is where in it a request is.
Label(p) == IF p[1] \in {"out", "pending"} THEN p ELSE p[1]
Spots(p, r) == IF p[1] = "free" THEN Indices(freeRequests, r)
               ELSE IF p[1] = "decode" THEN Indices(decodeQueue, r)
               ELSE IF p[1] = "decoder" THEN Indices(decoding, r) \cap {p[2]}
               ELSE IF p[1] = "aligned" THEN Indices(current, r) \cap {p[2]}
               ELSE IF p[1] = "out" THEN Indices(outQueue[p[2]], r)
               ELSE IF p[1] = "pending" THEN Indices(pending[p[2]], r)
               ELSE Indices(sending, r) \cap {p[2]}

LEMMA SpotsAt ==
  ASSUME NEW r
  PROVE  /\ Spots(<<"free", None>>, r) = Indices(freeRequests, r)
         /\ Spots(<<"decode", None>>, r) = Indices(decodeQueue, r)
         /\ \A d : Spots(<<"decoder", d>>, r) = Indices(decoding, r) \cap {d}
         /\ \A h : /\ Spots(<<"aligned", h>>, r) = Indices(current, r) \cap {h}
                   /\ Spots(<<"sending", h>>, r) = Indices(sending, r) \cap {h}
                   /\ Spots(<<"out", h>>, r) = Indices(outQueue[h], r)
                   /\ Spots(<<"pending", h>>, r) = Indices(pending[h], r)
BY DEF Spots

LEMMA LabelAt ==
  /\ Label(<<"free", None>>) = "free" /\ Label(<<"decode", None>>) = "decode"
  /\ \A d : Label(<<"decoder", d>>) = "decoder"
  /\ \A h : /\ Label(<<"aligned", h>>) = "aligned" /\ Label(<<"sending", h>>) = "sending"
            /\ Label(<<"out", h>>) = <<"out", h>>
            /\ Label(<<"pending", h>>) = <<"pending", h>>
BY DEF Label

LEMMA SevenSets ==
  ASSUME NEW F, NEW A, NEW Q, NEW D, NEW S, NEW O, NEW P
  PROVE  UNION {F, A, Q, D, S, O, P} = F \cup A \cup Q \cup D \cup S \cup O \cup P
OBVIOUS

\* What is in Places, and where.
LEMMA InPlaces ==
  ASSUME NEW r, NEW x
  PROVE  x \in Places(r) <=>
           \/ x \in {"free"} \X Indices(freeRequests, r)
           \/ x \in {"aligned"} \X Indices(current, r)
           \/ x \in {"decode"} \X Indices(decodeQueue, r)
           \/ x \in {"decoder"} \X Indices(decoding, r)
           \/ x \in {"sending"} \X Indices(sending, r)
           \/ \E h \in Handlers : x \in {<<"out", h>>} \X Indices(outQueue[h], r)
           \/ \E h \in Handlers : x \in {<<"pending", h>>} \X Indices(pending[h], r)
<1> DEFINE F == {"free"} \X Indices(freeRequests, r)
           A == {"aligned"} \X Indices(current, r)
           Q == {"decode"} \X Indices(decodeQueue, r)
           D == {"decoder"} \X Indices(decoding, r)
           S == {"sending"} \X Indices(sending, r)
           O(h) == {<<"out", h>>} \X Indices(outQueue[h], r)
           P(h) == {<<"pending", h>>} \X Indices(pending[h], r)
           Os == UNION {O(h) : h \in Handlers}
           Ps == UNION {P(h) : h \in Handlers}
<1>1. Places(r) = UNION {F, A, Q, D, S, Os, Ps}
  BY DEF Places
<1>2. (x \in Os <=> \E h \in Handlers : x \in O(h)) /\ (x \in Ps <=> \E h \in Handlers : x \in P(h))
  <2> HIDE DEF O, P
  <2> QED
    OBVIOUS
<1> HIDE DEF F, A, Q, D, S, Os, Ps, O, P
<1>3. Places(r) = F \cup A \cup Q \cup D \cup S \cup Os \cup Ps
  BY <1>1, SevenSets
<1>4. x \in Places(r) <=>
        \/ x \in F \/ x \in A \/ x \in Q \/ x \in D \/ x \in S
        \/ \E h \in Handlers : x \in O(h)
        \/ \E h \in Handlers : x \in P(h)
  BY <1>2, <1>3
<1> QED
  BY <1>4 DEF F, A, Q, D, S, O, P

LEMMA PlacesAreSpots ==
  ASSUME IInv, NEW r, NEW x \in Places(r)
  PROVE  \E p \in Names : \E i \in Spots(p, r) : x = <<Label(p), i>>
<1>1. DOMAIN current = Handlers /\ DOMAIN sending = Handlers /\ DOMAIN decoding = Decoders
  BY DEF IInv, Threads
<1>2. CASE x \in {"free"} \X Indices(freeRequests, r)
  <2>1. PICK i \in Indices(freeRequests, r) : x = <<"free", i>>
    BY <1>2
  <2>2. i \in Spots(<<"free", None>>, r) /\ x = <<Label(<<"free", None>>), i>>
    BY <2>1, SpotsAt, LabelAt
  <2> QED
    BY <2>2, NamesArePairs
<1>3. CASE x \in {"decode"} \X Indices(decodeQueue, r)
  <2>1. PICK i \in Indices(decodeQueue, r) : x = <<"decode", i>>
    BY <1>3
  <2>2. i \in Spots(<<"decode", None>>, r) /\ x = <<Label(<<"decode", None>>), i>>
    BY <2>1, SpotsAt, LabelAt
  <2> QED
    BY <2>2, NamesArePairs
<1>4. CASE x \in {"aligned"} \X Indices(current, r)
  <2>1. PICK h \in Handlers : h \in Indices(current, r) /\ x = <<"aligned", h>>
    BY <1>1, <1>4 DEF Indices
  <2>2. h \in Spots(<<"aligned", h>>, r) /\ x = <<Label(<<"aligned", h>>), h>>
    BY <2>1, SpotsAt, LabelAt
  <2> QED
    BY <2>2, NamesArePairs
<1>5. CASE x \in {"decoder"} \X Indices(decoding, r)
  <2>1. PICK d \in Decoders : d \in Indices(decoding, r) /\ x = <<"decoder", d>>
    BY <1>1, <1>5 DEF Indices
  <2>2. d \in Spots(<<"decoder", d>>, r) /\ x = <<Label(<<"decoder", d>>), d>>
    BY <2>1, SpotsAt, LabelAt
  <2> QED
    BY <2>2, NamesArePairs
<1>6. CASE x \in {"sending"} \X Indices(sending, r)
  <2>1. PICK h \in Handlers : h \in Indices(sending, r) /\ x = <<"sending", h>>
    BY <1>1, <1>6 DEF Indices
  <2>2. h \in Spots(<<"sending", h>>, r) /\ x = <<Label(<<"sending", h>>), h>>
    BY <2>1, SpotsAt, LabelAt
  <2> QED
    BY <2>2, NamesArePairs
<1>7. ASSUME NEW h \in Handlers, x \in {<<"out", h>>} \X Indices(outQueue[h], r)
      PROVE  \E p \in Names : \E i \in Spots(p, r) : x = <<Label(p), i>>
  <2>1. PICK i \in Indices(outQueue[h], r) : x = <<<<"out", h>>, i>>
    BY <1>7
  <2>2. i \in Spots(<<"out", h>>, r) /\ x = <<Label(<<"out", h>>), i>>
    BY <2>1, SpotsAt, LabelAt
  <2> QED
    BY <2>2, NamesArePairs
<1>8. ASSUME NEW h \in Handlers, x \in {<<"pending", h>>} \X Indices(pending[h], r)
      PROVE  \E p \in Names : \E i \in Spots(p, r) : x = <<Label(p), i>>
  <2>1. PICK i \in Indices(pending[h], r) : x = <<<<"pending", h>>, i>>
    BY <1>8
  <2>2. i \in Spots(<<"pending", h>>, r) /\ x = <<Label(<<"pending", h>>), i>>
    BY <2>1, SpotsAt, LabelAt
  <2> QED
    BY <2>2, NamesArePairs
<1> QED
  BY <1>2, <1>3, <1>4, <1>5, <1>6, <1>7, <1>8, InPlaces

LEMMA SpotsArePlaces ==
  ASSUME NEW r, NEW p \in Names, NEW i \in Spots(p, r)
  PROVE  <<Label(p), i>> \in Places(r)
<1>1. CASE p = <<"free", None>> \/ p = <<"decode", None>>
  BY <1>1, SpotsAt, LabelAt, InPlaces
<1>2. ASSUME NEW d, p = <<"decoder", d>> PROVE <<Label(p), i>> \in Places(r)
  BY <1>2, SpotsAt, LabelAt, InPlaces
<1>3. ASSUME NEW h \in Handlers, p = <<"aligned", h>> \/ p = <<"sending", h>>
      PROVE  <<Label(p), i>> \in Places(r)
  <2>1. CASE p = <<"aligned", h>>
    <3>1. i \in Indices(current, r) /\ Label(p) = "aligned"
      BY <2>1, SpotsAt, LabelAt
    <3> QED
      BY <3>1, InPlaces
  <2>2. CASE p = <<"sending", h>>
    <3>1. i \in Indices(sending, r) /\ Label(p) = "sending"
      BY <2>2, SpotsAt, LabelAt
    <3> QED
      BY <3>1, InPlaces
  <2> QED
    BY <1>3, <2>1, <2>2
<1>4. ASSUME NEW h \in Handlers, p = <<"out", h>> PROVE <<Label(p), i>> \in Places(r)
  <2>1. i \in Indices(outQueue[h], r) /\ Label(p) = <<"out", h>>
    BY <1>4, SpotsAt, LabelAt
  <2>2. <<Label(p), i>> \in {<<"out", h>>} \X Indices(outQueue[h], r)
    BY <2>1
  <2> QED
    BY <2>2, InPlaces
<1>5. ASSUME NEW h \in Handlers, p = <<"pending", h>> PROVE <<Label(p), i>> \in Places(r)
  <2>1. i \in Indices(pending[h], r) /\ Label(p) = <<"pending", h>>
    BY <1>5, SpotsAt, LabelAt
  <2>2. <<Label(p), i>> \in {<<"pending", h>>} \X Indices(pending[h], r)
    BY <2>1
  <2> QED
    BY <2>2, InPlaces
<1> QED
  BY <1>1, <1>2, <1>3, <1>4, <1>5, NamesArePairs

\* A request is in a queue at one index, if at all.
LEMMA OneIndex ==
  ASSUME NEW S, NEW q \in Seq(S), IsInjective(q), NEW r
  PROVE  IF r \in ToSet(q) THEN \E i : Indices(q, r) = {i} ELSE Indices(q, r) = {}
<1>1. DOMAIN q = 1 .. Len(q) /\ ToSet(q) = {q[i] : i \in 1 .. Len(q)}
  <2>1. DOMAIN q = 1 .. Len(q)
    OBVIOUS
  <2> QED
    BY <2>1, Members
<1>2. CASE r \in ToSet(q)
  <2>1. PICK i \in DOMAIN q : q[i] = r
    BY <1>1, <1>2
  <2>2. Indices(q, r) = {i}
    BY <2>1 DEF Indices, IsInjective
  <2> QED
    BY <1>2, <2>2
<1>3. CASE r \notin ToSet(q)
  BY <1>1, <1>3 DEF Indices
<1> QED
  BY <1>2, <1>3

\* The numbers of the requests held back differ by their index.
LEMMA OneIndexPending ==
  ASSUME IInv, NEW h \in Handlers, NEW r \in Requests
  PROVE  IF r \in ToSet(pending[h]) THEN \E i : Indices(pending[h], r) = {i}
         ELSE Indices(pending[h], r) = {}
<1>1. pending[h] \in Seq(Requests \cup {None})
  BY DEF IInv, Queues
<1>2. DOMAIN pending[h] = 1 .. Len(pending[h]) /\ Len(pending[h]) \in Nat
      /\ ToSet(pending[h]) = {pending[h][i] : i \in 1 .. Len(pending[h])}
  BY <1>1 DEF ToSet
<1>3. ASSUME NEW i \in 1 .. Len(pending[h]), NEW j \in 1 .. Len(pending[h]),
             pending[h][i] = r, pending[h][j] = r
      PROVE  i = j
  <2>1. r # None /\ base[h] \in Nat
    BY NoneIsNew DEF IInv, Fields
  <2>2. req[r].sequence = base[h] + i - 1 /\ req[r].sequence = base[h] + j - 1
    BY <1>3, <2>1 DEF IInv, Backend
  <2> QED
    BY <1>2, <2>1, <2>2
<1>4. CASE r \in ToSet(pending[h])
  <2>1. PICK i \in 1 .. Len(pending[h]) : pending[h][i] = r
    BY <1>2, <1>4
  <2>2. Indices(pending[h], r) = {i}
    BY <1>2, <1>3, <2>1 DEF Indices
  <2> QED
    BY <1>4, <2>2
<1>5. CASE r \notin ToSet(pending[h])
  BY <1>2, <1>5 DEF Indices
<1> QED
  BY <1>4, <1>5

LEMMA OneSpot ==
  ASSUME IInv, NEW p \in Names, NEW r \in Requests
  PROVE  IF r \in At[p] THEN \E i : Spots(p, r) = {i} ELSE Spots(p, r) = {}
<1>1. r # None
  BY NoneIsNew
<1>2. CASE p = <<"free", None>>
  <2>1. Spots(p, r) = Indices(freeRequests, r) /\ At[p] = ToSet(freeRequests)
    BY <1>2, AtNames, SpotsAt
  <2>2. freeRequests \in Seq(Requests) /\ IsInjective(freeRequests)
    BY DEF IInv, Queues
  <2> QED
    BY <2>1, <2>2, OneIndex
<1>3. CASE p = <<"decode", None>>
  <2>1. Spots(p, r) = Indices(decodeQueue, r) /\ At[p] = ToSet(decodeQueue)
    BY <1>3, AtNames, SpotsAt
  <2>2. decodeQueue \in Seq(Requests) /\ IsInjective(decodeQueue)
    BY DEF IInv, Queues
  <2> QED
    BY <2>1, <2>2, OneIndex
<1>4. ASSUME NEW d \in Decoders, p = <<"decoder", d>>
      PROVE  IF r \in At[p] THEN \E i : Spots(p, r) = {i} ELSE Spots(p, r) = {}
  <2>1. Spots(p, r) = Indices(decoding, r) \cap {d} /\ At[p] = {decoding[d]} \ {None}
    BY <1>4, AtNames, SpotsAt
  <2>2. Indices(decoding, r) \cap {d} = IF decoding[d] = r THEN {d} ELSE {}
    BY DEF IInv, Threads, Indices
  <2> QED
    BY <1>1, <2>1, <2>2
<1>5. ASSUME NEW h \in Handlers, p = <<"aligned", h>>
      PROVE  IF r \in At[p] THEN \E i : Spots(p, r) = {i} ELSE Spots(p, r) = {}
  <2>1. Spots(p, r) = Indices(current, r) \cap {h} /\ At[p] = {current[h]} \ {None}
    BY <1>5, AtNames, SpotsAt
  <2>2. Indices(current, r) \cap {h} = IF current[h] = r THEN {h} ELSE {}
    BY DEF IInv, Threads, Indices
  <2> QED
    BY <1>1, <2>1, <2>2
<1>6. ASSUME NEW h \in Handlers, p = <<"sending", h>>
      PROVE  IF r \in At[p] THEN \E i : Spots(p, r) = {i} ELSE Spots(p, r) = {}
  <2>1. Spots(p, r) = Indices(sending, r) \cap {h} /\ At[p] = {sending[h]} \ {None}
    BY <1>6, AtNames, SpotsAt
  <2>2. Indices(sending, r) \cap {h} = IF sending[h] = r THEN {h} ELSE {}
    BY DEF IInv, Threads, Indices
  <2> QED
    BY <1>1, <2>1, <2>2
<1>7. ASSUME NEW h \in Handlers, p = <<"out", h>>
      PROVE  IF r \in At[p] THEN \E i : Spots(p, r) = {i} ELSE Spots(p, r) = {}
  <2>1. Spots(p, r) = Indices(outQueue[h], r) /\ At[p] = ToSet(outQueue[h])
    BY <1>7, AtNames, SpotsAt
  <2>2. outQueue[h] \in Seq(Requests) /\ IsInjective(outQueue[h])
    BY DEF IInv, Queues
  <2> QED
    BY <2>1, <2>2, OneIndex
<1>8. ASSUME NEW h \in Handlers, p = <<"pending", h>>
      PROVE  IF r \in At[p] THEN \E i : Spots(p, r) = {i} ELSE Spots(p, r) = {}
  <2>1. Spots(p, r) = Indices(pending[h], r) /\ At[p] = ToSet(pending[h]) \ {None}
    BY <1>8, AtNames, SpotsAt
  <2> QED
    BY <1>1, <2>1, OneIndexPending
<1>9. \/ p = <<"free", None>> \/ p = <<"decode", None>> \/ \E d \in Decoders : p = <<"decoder", d>>
      \/ \E h \in Handlers : \/ p = <<"aligned", h>> \/ p = <<"out", h>>
                             \/ p = <<"pending", h>> \/ p = <<"sending", h>>
  BY NamesArePairs
<1> QED
  BY <1>2, <1>3, <1>4, <1>5, <1>6, <1>7, <1>8, <1>9

LEMMA Conserved == IInv => RequestsConserved
<1> SUFFICES ASSUME IInv, NEW r \in Requests PROVE Cardinality(Places(r)) = 1
  BY DEF RequestsConserved
<1>1. PICK p \in Names : r \in At[p] /\ \A q \in Names \ {p} : r \notin At[q]
  BY DEF IInv, Partition
<1>2. PICK i : Spots(p, r) = {i}
  BY <1>1, OneSpot
<1>3. \A q \in Names \ {p} : Spots(q, r) = {}
  BY <1>1, OneSpot
<1>4. Places(r) = {<<Label(p), i>>}
  <2>1. <<Label(p), i>> \in Places(r)
    BY <1>2, SpotsArePlaces
  <2>2. \A x \in Places(r) : x = <<Label(p), i>>
    BY <1>2, <1>3, PlacesAreSpots
  <2> QED
    BY <2>1, <2>2
<1> QED
  BY <1>4, FS_Singleton

LEMMA Clean == IInv => BackendClean
<1> SUFFICES ASSUME IInv, NEW h \in Handlers, handler[h] = "consume"
             PROVE  /\ counter[h] = 0 /\ pending[h] = <<>> /\ outQueue[h] = <<>>
                    /\ sending[h] = None /\ output[h] \in {"consume", "loop"}
                    /\ \A r \in Requests : req[r].output # h
  BY DEF BackendClean
<1>1. Of(h) = {} /\ counter[h] = 0
  BY IdleHasNone
<1>2. pending[h] = <<>> /\ outQueue[h] = <<>> /\ sending[h] = None
  BY <1>1, NothingLeft
<1>3. output[h] \in {"consume", "loop"}
  BY <1>2 DEF IInv, Threads
<1> QED
  BY <1>1, <1>2, <1>3 DEF Of
-----------------------------------------------------------------------------
(* Who is answered what.  A ConnectionRequest, and through its socket a    *)
(* client, is with the acceptor, in the queue or with one handler.         *)
Connections ==
  /\ freeConns \in Seq(ConnRequests) /\ IsInjective(freeConns)
  /\ connQueue \in Seq(ConnRequests) /\ IsInjective(connQueue)
  /\ conn \in [Handlers -> ConnRequests \cup {None}]
  /\ socket \in [ConnRequests -> Clients \cup {None}]
  /\ client \in [Clients -> {"new", "open", "gone", "served"}]
  /\ \A h \in Handlers : conn[h] = None <=> handler[h] = "consume"
  /\ \A k \in ConnRequests : socket[k] = None <=> k \in ToSet(freeConns)
  /\ ToSet(connQueue) \cap ToSet(freeConns) = {}
  /\ \A h \in Handlers : conn[h] \notin ToSet(freeConns) \cup ToSet(connQueue)
  /\ \A g, h \in Handlers : conn[g] = conn[h] /\ conn[g] # None => g = h
  /\ \A k, l \in ConnRequests : socket[k] = socket[l] /\ socket[k] # None => k = l
  /\ \A k \in ConnRequests : socket[k] # None => client[socket[k]] \in {"open", "gone"}

\* What a client has sent and got before a handler serves it.
Histories ==
  /\ config \in [Handlers -> Configs]
  /\ sent \in [Clients -> Seq(Configs)]
  /\ \E S : replies \in [Clients -> Seq(S)]
  /\ delivered \in [Clients -> Nat]
  /\ \A c \in Clients : client[c] = "new" => sent[c] = <<>> /\ replies[c] = <<>>
  /\ \A k \in ToSet(connQueue) : sent[socket[k]] = <<>> /\ replies[socket[k]] = <<>>

\* sequence_ counts what the client sent, base_ what it got and counter_ what
\* has also been freed; a request on its way says which sentence it is.
Answers(h) ==
  LET c == ClientOf(h) IN
  /\ Len(sent[c]) = sequence[h]
  /\ client[c] # "gone" => Len(replies[c]) = base[h]
  /\ base[h] = counter[h] + (IF sending[h] = None THEN 0 ELSE 1)
  /\ \A r \in Of(h) :
       /\ req[r].text = <<c, req[r].sequence + 1>>
       /\ req[r].config = sent[c][req[r].sequence + 1]
       /\ r \notin ToSet(decodeQueue) => req[r].nbest = NBest(req[r].text, req[r].config)

Answering ==
  /\ Connections /\ Histories /\ RepliesInOrder /\ AnsweredBeforeClose
  /\ \A h \in Handlers : handler[h] # "consume" => Answers(h)

LEMMA NoneIsNoClient == None \notin Clients /\ None \notin ConnRequests /\ None \notin Configs
BY ServerAssumption

\* A handler's client is there or gone, and no other handler's.
LEMMA Serving ==
  ASSUME Connections, NEW h \in Handlers, handler[h] # "consume"
  PROVE  /\ conn[h] \in ConnRequests /\ ClientOf(h) \in Clients
         /\ client[ClientOf(h)] \in {"open", "gone"}
         /\ \A k \in ConnRequests : k # conn[h] => socket[k] # ClientOf(h)
         /\ \A g \in Handlers : g # h /\ handler[g] # "consume" =>
              conn[g] \in ConnRequests /\ conn[g] # conn[h] /\ ClientOf(g) # ClientOf(h)
<1>1. conn[h] \in ConnRequests /\ conn[h] # None
  BY DEF Connections
<1>2. socket[conn[h]] # None
  BY <1>1 DEF Connections
<1>3. socket[conn[h]] \in Clients /\ client[socket[conn[h]]] \in {"open", "gone"}
  BY <1>1, <1>2 DEF Connections
<1>4. \A k \in ConnRequests : k # conn[h] => socket[k] # socket[conn[h]]
  BY <1>1, <1>2 DEF Connections
<1>5. ASSUME NEW g \in Handlers, g # h, handler[g] # "consume"
      PROVE  conn[g] \in ConnRequests /\ conn[g] # conn[h]
  BY <1>1, <1>5 DEF Connections
<1> QED
  BY <1>1, <1>3, <1>4, <1>5 DEF ClientOf

\* A client whose connection is still in the queue.
LEMMA Waiting ==
  ASSUME Connections, NEW k \in ToSet(connQueue)
  PROVE  /\ k \in ConnRequests /\ socket[k] \in Clients
         /\ client[socket[k]] \in {"open", "gone"}
         /\ \A g \in Handlers : handler[g] # "consume" => conn[g] # k /\ ClientOf(g) # socket[k]
<1>1. k \in ConnRequests
  BY Members DEF Connections
<1>2. socket[k] # None /\ socket[k] \in Clients /\ client[socket[k]] \in {"open", "gone"}
  BY <1>1 DEF Connections
<1>3. ASSUME NEW g \in Handlers, handler[g] # "consume" PROVE conn[g] # k
  BY DEF Connections
<1>4. ASSUME NEW g \in Handlers, handler[g] # "consume" PROVE ClientOf(g) # socket[k]
  BY <1>1, <1>3, <1>4, Serving
<1> QED
  BY <1>1, <1>2, <1>3, <1>4

\* What another connection's step leaves alone, and a client that goes.
LEMMA AnswersSame ==
  ASSUME NEW h, Answers(h), ClientOf(h)' = ClientOf(h),
         sent'[ClientOf(h)] = sent[ClientOf(h)], replies'[ClientOf(h)] = replies[ClientOf(h)],
         client'[ClientOf(h)] \in {client[ClientOf(h)], "gone"},
         sequence'[h] = sequence[h], base'[h] = base[h], counter'[h] = counter[h],
         sending'[h] = sending[h], Of(h)' = Of(h), \A r \in Of(h) : req'[r] = req[r],
         \A r \in Of(h) : r \in ToSet(decodeQueue) => r \in ToSet(decodeQueue')
  PROVE  Answers(h)'
<1> DEFINE c == ClientOf(h)
<1>1. Len(sent'[c]) = sequence'[h]
  BY DEF Answers
<1>2. client'[c] # "gone" => Len(replies'[c]) = base'[h]
  BY DEF Answers
<1>3. base'[h] = counter'[h] + (IF sending'[h] = None THEN 0 ELSE 1)
  BY DEF Answers
<1>4. ASSUME NEW r \in Of(h)'
      PROVE  /\ req'[r].text = <<c, req'[r].sequence + 1>>
             /\ req'[r].config = sent'[c][req'[r].sequence + 1]
             /\ r \notin ToSet(decodeQueue') => req'[r].nbest = NBest(req'[r].text, req'[r].config)
  <2>1. r \in Of(h) /\ req'[r] = req[r]
    OBVIOUS
  <2> QED
    BY <2>1 DEF Answers
<1>5. ClientOf(h)' = c
  OBVIOUS
<1> HIDE DEF c
<1> QED
  BY <1>1, <1>2, <1>3, <1>4, <1>5 DEF Answers

\* A step that answers nobody, nor takes or gives back a connection.
LEMMA QuietAnswers ==
  ASSUME Answering,
         UNCHANGED <<connQueue, conn, socket, sent, replies, sequence, base, counter, sending,
                     req, decodeQueue>>,
         delivered' \in [Clients -> Nat],
         \A c \in Clients : client[c] = "served" => delivered'[c] = delivered[c],
         freeConns' \in Seq(ConnRequests), IsInjective(freeConns'),
         ToSet(freeConns') = ToSet(freeConns),
         client' \in [Clients -> {"new", "open", "gone", "served"}],
         \A c \in Clients : client'[c] = client[c] \/ (client[c] = "open" /\ client'[c] = "gone"),
         config' \in [Handlers -> Configs],
         \A h \in Handlers : handler'[h] = "consume" <=> handler[h] = "consume"
  PROVE  Answering'
<1>1. \A k \in ConnRequests : socket[k] # None => client'[socket[k]] \in {"open", "gone"}
  BY DEF Answering, Connections
<1>2. Connections'
  BY <1>1 DEF Answering, Connections
<1>3. \A c \in Clients : client'[c] = "new" => client[c] = "new"
  OBVIOUS
<1>4. Histories'
  BY <1>3 DEF Answering, Histories
<1>5. RepliesInOrder'
  BY DEF Answering, RepliesInOrder
<1>6. AnsweredBeforeClose'
  <2>1. \A c \in Clients : client'[c] = "served" => client[c] = "served"
    OBVIOUS
  <2> QED
    BY <2>1 DEF Answering, AnsweredBeforeClose
<1>7. ASSUME NEW h \in Handlers, handler'[h] # "consume" PROVE Answers(h)'
  <2>1. Answers(h) /\ ClientOf(h) \in Clients
    BY <1>7, Serving DEF Answering
  <2>2. ClientOf(h)' = ClientOf(h) /\ Of(h)' = Of(h)
    BY DEF ClientOf, Of
  <2>3. client'[ClientOf(h)] \in {client[ClientOf(h)], "gone"}
    BY <2>1
  <2> QED
    BY <2>1, <2>2, <2>3, AnswersSame
<1> QED
  BY <1>2, <1>4, <1>5, <1>6, <1>7 DEF Answering

\* The steps of that kind.
LEMMA AcceptFailsAnswers == ASSUME Answering, AcceptFails PROVE Answering'
<1> DEFINE k == Head(freeConns)
<1>1. freeConns # <<>> /\ freeConns' = Append(Tail(freeConns), k)
  BY DEF AcceptFails
<1>2. freeConns \in Seq(ConnRequests) /\ IsInjective(freeConns)
  BY DEF Answering, Connections
<1>3. /\ k \in ToSet(freeConns) /\ k \in ConnRequests
      /\ Tail(freeConns) \in Seq(ConnRequests) /\ IsInjective(Tail(freeConns))
      /\ ToSet(Tail(freeConns)) = ToSet(freeConns) \ {k}
  BY <1>1, <1>2, HeadTaken
<1> HIDE DEF k
<1>4. PICK t : t = Tail(freeConns)
  OBVIOUS
<1>5. /\ t \in Seq(ConnRequests) /\ IsInjective(t) /\ k \notin ToSet(t)
      /\ freeConns' = Append(t, k)
  BY <1>1, <1>3, <1>4
<1>6. /\ freeConns' \in Seq(ConnRequests) /\ IsInjective(freeConns')
      /\ ToSet(freeConns') = ToSet(t) \cup {k}
  BY <1>3, <1>5, EndAdded
<1>7. ToSet(freeConns') = ToSet(freeConns)
  BY <1>3, <1>4, <1>6
<1>8. client' = client /\ config' = config /\ handler' = handler
  BY DEF AcceptFails, handlerVars, clientVars
<1>9. /\ client' \in [Clients -> {"new", "open", "gone", "served"}]
      /\ config' \in [Handlers -> Configs] /\ delivered \in [Clients -> Nat]
  BY <1>8 DEF Answering, Connections, Histories
<1>10. /\ \A c \in Clients : client'[c] = client[c] \/ (client[c] = "open" /\ client'[c] = "gone")
       /\ \A h \in Handlers : handler'[h] = "consume" <=> handler[h] = "consume"
  BY <1>8
<1>11. UNCHANGED <<connQueue, conn, socket, sent, replies, delivered, sequence, base, counter,
                   sending, req, decodeQueue>>
  BY DEF AcceptFails, handlerVars, outputVars, decoderVars, clientVars
<1> QED
  BY <1>6, <1>7, <1>9, <1>10, <1>11, QuietAnswers

LEMMA QuietStepsAnswer ==
  ASSUME IInv, Answering,
         \/ \E c \in Clients : Read(c) \/ Disconnect(c)
         \/ \E h \in Handlers : \/ Command(h) \/ GetFree(h) \/ AlignedFails(h)
                                \/ FeatureInfoWritten(h) \/ WriteError(h) \/ ErrorWritten(h)
                                \/ LoopEnds(h) \/ Receive(h) \/ NBestWritten(h)
         \/ \E d \in Decoders : DecodeThrows(d) \/ Decoded(d)
         \/ UNCHANGED vars
  PROVE  Answering'
<1> DEFINE Same == UNCHANGED <<connQueue, conn, socket, sent, replies, delivered, sequence, base,
                               counter, sending, req, decodeQueue, freeConns>>
           Clienthood == \A c \in Clients : \/ client'[c] = client[c]
                                            \/ client[c] = "open" /\ client'[c] = "gone"
           Moves == /\ Same /\ UNCHANGED client
                    /\ \/ config' = config
                       \/ \E h \in Handlers, v \in Configs : config' = [config EXCEPT ![h] = v]
                    /\ \/ handler' = handler
                       \/ \E h \in Handlers, v \in HandlerPlaces \ {"consume"} :
                            handler[h] # "consume" /\ handler' = [handler EXCEPT ![h] = v]
<1>1. /\ client \in [Clients -> {"new", "open", "gone", "served"}]
      /\ config \in [Handlers -> Configs]
      /\ handler \in [Handlers -> HandlerPlaces]
      /\ freeConns \in Seq(ConnRequests) /\ IsInjective(freeConns)
      /\ delivered \in [Clients -> Nat]
  BY DEF Answering, Connections, Histories, IInv, Threads
<1>2. CASE \E c \in Clients : Read(c) \/ Disconnect(c)
  <2>1. Same /\ UNCHANGED <<handler, config>>
    BY <1>2 DEF Read, Disconnect, acceptorVars, handlerVars, outputVars, decoderVars
  <2>2. client' = client \/ \E c \in Clients : client[c] = "open"
                                               /\ client' = [client EXCEPT ![c] = "gone"]
    BY <1>2 DEF Read, Disconnect
  <2>3. client' \in [Clients -> {"new", "open", "gone", "served"}] /\ Clienthood
    BY <1>1, <2>2
  <2> QED
    BY <1>1, <2>1, <2>3, QuietAnswers
<1>3. ASSUME NEW h \in Handlers, Command(h) PROVE Moves
  BY <1>3 DEF Command, Config, FeatureInfo, Matched, BadCommand, Bye, EndOfStream, acceptorVars,
     handlerVars, outputVars, decoderVars, clientVars
<1>4. ASSUME NEW h \in Handlers, GetFree(h) \/ AlignedFails(h) \/ WriteError(h) PROVE Moves
  BY <1>4 DEF GetFree, AlignedFails, WriteError, acceptorVars, outputVars, decoderVars, clientVars
<1>5. ASSUME NEW h \in Handlers, FeatureInfoWritten(h) \/ ErrorWritten(h) PROVE Moves
  BY <1>5 DEF FeatureInfoWritten, ErrorWritten, acceptorVars, outputVars, decoderVars
<1>6. ASSUME \/ \E h \in Handlers : LoopEnds(h) \/ Receive(h) \/ NBestWritten(h)
             \/ \E d \in Decoders : DecodeThrows(d) \/ Decoded(d)
             \/ UNCHANGED vars
      PROVE  Moves
  BY <1>6 DEF LoopEnds, Receive, NBestWritten, DecodeThrows, Decoded, vars, acceptorVars,
     handlerVars, outputVars, decoderVars, clientVars
<1>7. ASSUME Moves PROVE Answering'
  <2>1. config' \in [Handlers -> Configs]
    BY <1>1, <1>7
  <2>2. \A h \in Handlers : handler'[h] = "consume" <=> handler[h] = "consume"
    BY <1>1, <1>7
  <2>3. client' \in [Clients -> {"new", "open", "gone", "served"}] /\ Clienthood
    BY <1>1, <1>7
  <2> QED
    BY <1>1, <1>7, <2>1, <2>2, <2>3, QuietAnswers
<1> HIDE DEF Moves
<1> QED
  BY <1>2, <1>3, <1>4, <1>5, <1>6, <1>7

\* Only what is written to a client that has not been served is pushed.
LEMMA PushAnswers == ASSUME IInv, Answering, NEW h \in Handlers, Push(h) PROVE Answering'
<1> DEFINE c == ClientOf(h)
<1>1. /\ Writing(h) \/ handler[h] = "drain"
      /\ delivered' = [delivered EXCEPT ![c] = @ + 1]
      /\ UNCHANGED <<freeConns, connQueue, conn, socket, handler, config, sent, replies, sequence,
                     base, counter, sending, req, decodeQueue, client>>
  BY DEF Push, acceptorVars, handlerVars, outputVars, decoderVars
<1>2. handler[h] # "consume"
  <2>1. CASE output[h] = "write"
    BY <2>1, IdleHasNone, NothingLeft DEF IInv, Threads
  <2> QED
    BY <1>1, <2>1 DEF Writing
<1>3. c \in Clients /\ client[c] \in {"open", "gone"}
  BY <1>2, Serving DEF Answering
<1>4. /\ delivered' \in [Clients -> Nat]
      /\ \A b \in Clients : client[b] = "served" => delivered'[b] = delivered[b]
  <2>1. delivered \in [Clients -> Nat]
    BY DEF Answering, Histories
  <2> QED
    BY <1>1, <1>3, <2>1
<1>5. /\ client \in [Clients -> {"new", "open", "gone", "served"}]
      /\ config \in [Handlers -> Configs]
      /\ freeConns \in Seq(ConnRequests) /\ IsInjective(freeConns)
  BY DEF Answering, Connections, Histories
<1> HIDE DEF c
<1> QED
  BY <1>1, <1>4, <1>5, QuietAnswers

\* A new client has sent nothing and got nothing.
LEMMA AcceptAnswers == ASSUME Answering, NEW c \in Clients, Accept(c) PROVE Answering'
<1> DEFINE k == Head(freeConns)
<1>1. /\ freeConns # <<>> /\ client[c] = "new" /\ freeConns' = Tail(freeConns)
      /\ connQueue' = Append(connQueue, k) /\ socket' = [socket EXCEPT ![k] = c]
      /\ client' = [client EXCEPT ![c] = "open"]
      /\ UNCHANGED <<conn, handler, config, sequence, base, counter, sending, req, decodeQueue,
                     sent, replies, delivered>>
  BY DEF Accept, handlerVars, outputVars, decoderVars
<1>2. /\ freeConns \in Seq(ConnRequests) /\ IsInjective(freeConns)
      /\ connQueue \in Seq(ConnRequests) /\ IsInjective(connQueue)
  BY DEF Answering, Connections
<1>3. /\ k \in ToSet(freeConns) /\ k \in ConnRequests
      /\ freeConns' \in Seq(ConnRequests) /\ IsInjective(freeConns')
      /\ ToSet(freeConns') = ToSet(freeConns) \ {k}
  BY <1>1, <1>2, HeadTaken
<1> HIDE DEF k
<1>4. k \notin ToSet(connQueue) /\ socket[k] = None /\ \A h \in Handlers : conn[h] # k
  BY <1>3 DEF Answering, Connections
<1>5. /\ connQueue' \in Seq(ConnRequests) /\ IsInjective(connQueue')
      /\ ToSet(connQueue') = ToSet(connQueue) \cup {k}
  BY <1>1, <1>2, <1>3, <1>4, EndAdded
<1>6. /\ socket' \in [ConnRequests -> Clients \cup {None}]
      /\ socket'[k] = c /\ \A l \in ConnRequests \ {k} : socket'[l] = socket[l]
      /\ client' \in [Clients -> {"new", "open", "gone", "served"}]
      /\ client'[c] = "open" /\ \A b \in Clients \ {c} : client'[b] = client[b]
  BY <1>1, <1>3 DEF Answering, Connections
<1>7. c # None /\ \A l \in ConnRequests : socket[l] # c
  BY <1>1, NoneIsNoClient DEF Answering, Connections
<1>8. Connections'
  <2>1. \A h \in Handlers : conn'[h] = None <=> handler'[h] = "consume"
    BY <1>1 DEF Answering, Connections
  <2>2. \A l \in ConnRequests : socket'[l] = None <=> l \in ToSet(freeConns')
    BY <1>3, <1>6, <1>7 DEF Answering, Connections
  <2>3. ToSet(connQueue') \cap ToSet(freeConns') = {}
    BY <1>3, <1>5 DEF Answering, Connections
  <2>4. \A h \in Handlers : conn'[h] \notin ToSet(freeConns') \cup ToSet(connQueue')
    BY <1>1, <1>3, <1>4, <1>5 DEF Answering, Connections
  <2>5. \A l, m \in ConnRequests : socket'[l] = socket'[m] /\ socket'[l] # None => l = m
    BY <1>6, <1>7 DEF Answering, Connections
  <2>6. \A l \in ConnRequests : socket'[l] # None => client'[socket'[l]] \in {"open", "gone"}
    BY <1>6, <1>7 DEF Answering, Connections
  <2>7. /\ conn' \in [Handlers -> ConnRequests \cup {None}]
        /\ \A g, h \in Handlers : conn'[g] = conn'[h] /\ conn'[g] # None => g = h
    BY <1>1 DEF Answering, Connections
  <2> QED
    BY <1>3, <1>5, <1>6, <2>1, <2>2, <2>3, <2>4, <2>5, <2>6, <2>7 DEF Connections
<1>9. Histories'
  <2>1. \A b \in Clients : client'[b] = "new" => client[b] = "new"
    BY <1>6
  <2>2. \A l \in ToSet(connQueue') : sent[socket'[l]] = <<>> /\ replies[socket'[l]] = <<>>
    <3>1. ASSUME NEW l \in ToSet(connQueue)
          PROVE  sent[socket'[l]] = <<>> /\ replies[socket'[l]] = <<>>
      <4>1. l \in ConnRequests \ {k}
        BY <1>4, <3>1, Waiting DEF Answering
      <4> QED
        BY <1>6, <3>1, <4>1 DEF Answering, Histories
    <3>2. sent[socket'[k]] = <<>> /\ replies[socket'[k]] = <<>>
      BY <1>1, <1>6 DEF Answering, Histories
    <3> QED
      BY <1>5, <3>1, <3>2
  <2> QED
    BY <1>1, <2>1, <2>2 DEF Answering, Histories
<1>10. RepliesInOrder'
  BY <1>1 DEF Answering, RepliesInOrder
<1>11. AnsweredBeforeClose'
  BY <1>1, <1>6 DEF Answering, AnsweredBeforeClose
<1>12. ASSUME NEW h \in Handlers, handler'[h] # "consume" PROVE Answers(h)'
  <2>1. Answers(h) /\ ClientOf(h) \in Clients /\ ClientOf(h) # c /\ conn[h] \in ConnRequests \ {k}
    BY <1>1, <1>4, <1>7, <1>12, Serving DEF Answering, ClientOf
  <2>2. ClientOf(h)' = ClientOf(h) /\ Of(h)' = Of(h)
    BY <1>1, <1>6, <2>1 DEF ClientOf, Of
  <2>3. client'[ClientOf(h)] \in {client[ClientOf(h)], "gone"}
    BY <1>6, <2>1
  <2> QED
    BY <1>1, <2>1, <2>2, <2>3, AnswersSame
<1> QED
  BY <1>8, <1>9, <1>10, <1>11, <1>12 DEF Answering

\* A handler that takes a connection has answered nothing of it yet.
LEMMA OpenConnectionAnswers ==
  ASSUME IInv, Answering, NEW h \in Handlers, OpenConnection(h) PROVE Answering'
<1> DEFINE k == Head(connQueue)
<1>1. /\ handler[h] = "consume" /\ connQueue # <<>> /\ connQueue' = Tail(connQueue)
      /\ conn' = [conn EXCEPT ![h] = k] /\ handler' = [handler EXCEPT ![h] = "header"]
      /\ base' = [base EXCEPT ![h] = 0]
      /\ UNCHANGED <<freeConns, socket, client, config, sequence, counter, sending, req,
                     decodeQueue, sent, replies, delivered>>
  BY DEF OpenConnection, Reset, decoderVars, clientVars
<1>2. connQueue \in Seq(ConnRequests) /\ IsInjective(connQueue)
  BY DEF Answering, Connections
<1>3. /\ k \in ToSet(connQueue) /\ k \in ConnRequests
      /\ connQueue' \in Seq(ConnRequests) /\ IsInjective(connQueue')
      /\ ToSet(connQueue') = ToSet(connQueue) \ {k}
  BY <1>1, <1>2, HeadTaken
<1> HIDE DEF k
<1>4. /\ conn' \in [Handlers -> ConnRequests \cup {None}]
      /\ conn'[h] = k /\ \A g \in Handlers \ {h} : conn'[g] = conn[g]
      /\ handler'[h] = "header" /\ \A g \in Handlers \ {h} : handler'[g] = handler[g]
      /\ base'[h] = 0 /\ \A g \in Handlers \ {h} : base'[g] = base[g]
  BY <1>1, <1>3 DEF Answering, Connections, IInv, Threads, Fields
<1>5. k # None /\ k \notin ToSet(freeConns) /\ \A g \in Handlers : conn[g] # k
  BY <1>3, NoneIsNoClient DEF Answering, Connections
<1>6. Connections'
  <2>1. \A g \in Handlers : conn'[g] = None <=> handler'[g] = "consume"
    BY <1>4, <1>5 DEF Answering, Connections
  <2>2. ToSet(connQueue') \cap ToSet(freeConns') = {}
    BY <1>1, <1>3 DEF Answering, Connections
  <2>3. \A g \in Handlers : conn'[g] \notin ToSet(freeConns') \cup ToSet(connQueue')
    BY <1>1, <1>3, <1>4, <1>5 DEF Answering, Connections
  <2>4. \A f, g \in Handlers : conn'[f] = conn'[g] /\ conn'[f] # None => f = g
    BY <1>4, <1>5 DEF Answering, Connections
  <2> QED
    BY <1>1, <1>3, <1>4, <2>1, <2>2, <2>3, <2>4 DEF Answering, Connections
<1>7. Histories'
  BY <1>1, <1>3 DEF Answering, Histories
<1>8. RepliesInOrder' /\ AnsweredBeforeClose'
  BY <1>1 DEF Answering, RepliesInOrder, AnsweredBeforeClose
<1>9. ASSUME NEW g \in Handlers, g # h, handler'[g] # "consume" PROVE Answers(g)'
  <2>1. Answers(g) /\ Of(g)' = Of(g) /\ ClientOf(g)' = ClientOf(g)
    BY <1>1, <1>4, <1>9 DEF Answering, Of, ClientOf
  <2> QED
    BY <1>1, <1>4, <1>9, <2>1, AnswersSame
<1>10. Answers(h)'
  <2>1. Of(h) = {} /\ counter[h] = 0 /\ sending[h] = None /\ sequence[h] = 0
    BY <1>1, IdleHasNone, NothingLeft DEF IInv, Backend
  <2>2. ClientOf(h)' = socket[k] /\ sent[socket[k]] = <<>> /\ replies[socket[k]] = <<>>
    BY <1>1, <1>3, <1>4 DEF ClientOf, Answering, Histories
  <2>3. Of(h)' = {}
    BY <1>1, <2>1 DEF Of
  <2>4. Len(sent[socket[k]]) = 0 /\ Len(replies[socket[k]]) = 0
    BY <2>2
  <2> QED
    BY <1>1, <1>4, <2>1, <2>2, <2>3, <2>4 DEF Answers
<1> QED
  BY <1>6, <1>7, <1>8, <1>9, <1>10 DEF Answering

\* A sentence gets the next number of its client, and its configuration.
LEMMA AlignedAnswers ==
  ASSUME IInv, Answering, NEW h \in Handlers, Aligned(h) PROVE Answering'
<1> DEFINE r == current[h]
           c == ClientOf(h)
<1>1. /\ handler[h] = "aligned" /\ handler' = [handler EXCEPT ![h] = "header"]
      /\ decodeQueue' = Append(decodeQueue, r) /\ req' = [req EXCEPT ![r] = Fill(h)]
      /\ sequence' = [sequence EXCEPT ![h] = @ + 1]
      /\ sent' = [sent EXCEPT ![c] = Append(@, config[h])]
      /\ UNCHANGED <<freeConns, connQueue, conn, socket, client, config, base, counter, sending,
                     replies, delivered>>
  BY DEF Aligned, CountUp, acceptorVars, outputVars
<1>2. /\ decodeQueue \in Seq(Requests) /\ IsInjective(decodeQueue)
      /\ r \in Requests /\ r # None
  BY <1>1 DEF IInv, Queues, Threads
<1>3. /\ c \in Clients /\ client[c] \in {"open", "gone"} /\ Answers(h)
      /\ \A k \in ToSet(connQueue) : socket[k] # c
      /\ \A g \in Handlers : g # h /\ handler[g] # "consume" => ClientOf(g) # c
  <2>1. handler[h] # "consume" /\ Connections
    BY <1>1 DEF Answering
  <2> QED
    BY <2>1, Serving, Waiting DEF Answering
<1>4. req[r].output = None
  <2>1. <<"aligned", h>> \in Names /\ At[<<"aligned", h>>] = {current[h]} \ {None}
    BY NamesArePairs, AtNames
  <2> QED
    BY <1>2, <2>1 DEF IInv, Owners
<1>5. ToSet(decodeQueue') = ToSet(decodeQueue) \cup {r}
  <2>1. <<"aligned", h>> \in Names /\ At[<<"aligned", h>>] = {current[h]} \ {None}
        /\ <<"decode", None>> \in Names /\ At[<<"decode", None>>] = ToSet(decodeQueue)
        /\ <<"aligned", h>> # <<"decode", None>>
    BY NamesArePairs, AtNames
  <2>2. r \notin ToSet(decodeQueue)
    BY <1>2, <2>1 DEF IInv, Partition
  <2> QED
    BY <1>1, <1>2, <2>2, EndAdded
<1>6. PICK S : req \in [Requests -> Records(S)]
  BY DEF IInv, Fields
<1>7. req'[r] = Fill(h) /\ \A s \in Requests \ {r} : req'[s] = req[s]
  BY <1>1, <1>2, <1>6
<1>8. /\ Fill(h).output = h /\ Fill(h).sequence = sequence[h] /\ Fill(h).config = config[h]
      /\ Fill(h).text = <<c, Len(sent[c]) + 1>>
  BY DEF Fill
<1>9. \A g \in Handlers : g # h => Of(g)' = Of(g) /\ \A s \in Of(g) : req'[s] = req[s]
  BY <1>2, <1>4, <1>7, <1>8, NoneIsNew DEF Of
<1>10. Of(h)' = Of(h) \cup {r} /\ r \notin Of(h)
       /\ \A s \in Of(h) : req'[s] = req[s] /\ s \in Requests
  BY <1>2, <1>4, <1>7, <1>8, NoneIsNew DEF Of
<1> HIDE DEF r, c
<1>11. sent \in [Clients -> Seq(Configs)] /\ config[h] \in Configs
  BY DEF Answering, Histories
<1>12. /\ sent'[c] = Append(sent[c], config[h]) /\ \A b \in Clients \ {c} : sent'[b] = sent[b]
       /\ sent' \in [Clients -> Seq(Configs)]
       /\ Len(sent[c]) \in Nat /\ Len(sent'[c]) = Len(sent[c]) + 1
       /\ sent'[c][Len(sent[c]) + 1] = config[h]
       /\ \A i \in 1 .. Len(sent[c]) : sent'[c][i] = sent[c][i]
  <2>1. sent'[c] = Append(sent[c], config[h]) /\ \A b \in Clients \ {c} : sent'[b] = sent[b]
    BY <1>1, <1>3, <1>11
  <2>2. sent[c] \in Seq(Configs)
    BY <1>3, <1>11
  <2>3. PICK t \in Seq(Configs) : t = sent[c]
    BY <2>2
  <2>4. /\ Append(t, config[h]) \in Seq(Configs)
        /\ Len(t) \in Nat /\ Len(Append(t, config[h])) = Len(t) + 1
        /\ Append(t, config[h])[Len(t) + 1] = config[h]
        /\ \A i \in 1 .. Len(t) : Append(t, config[h])[i] = t[i]
    BY <1>11
  <2>5. sent' \in [Clients -> Seq(Configs)]
    BY <1>1, <1>3, <1>11, <2>3, <2>4
  <2> QED
    BY <2>1, <2>3, <2>4, <2>5
<1>13. Connections'
  <2>1. \A g \in Handlers : handler'[g] = "consume" <=> handler[g] = "consume"
    BY <1>1 DEF IInv, Threads
  <2> QED
    BY <1>1, <2>1 DEF Answering, Connections
<1>14. Histories'
  <2>1. \A b \in Clients : client[b] = "new" => b # c
    BY <1>3
  <2>2. \A k \in ToSet(connQueue) : socket[k] \in Clients \ {c}
    BY <1>3, Waiting DEF Answering
  <2> QED
    BY <1>1, <1>12, <2>1, <2>2 DEF Answering, Histories
<1>15. RepliesInOrder'
  <2>1. SUFFICES ASSUME NEW b \in Clients
                 PROVE  /\ Len(replies[b]) <= Len(sent'[b])
                        /\ \A i \in 1 .. Len(replies[b]) : replies[b][i] = NBest(<<b, i>>, sent'[b][i])
    BY <1>1 DEF RepliesInOrder
  <2>2. /\ Len(replies[b]) <= Len(sent[b])
        /\ \A i \in 1 .. Len(replies[b]) : replies[b][i] = NBest(<<b, i>>, sent[b][i])
        /\ Len(replies[b]) \in Nat /\ Len(sent[b]) \in Nat
    <3>1. Len(replies[b]) \in Nat /\ Len(sent[b]) \in Nat
      BY DEF Answering, Histories
    <3> QED
      BY <3>1 DEF Answering, RepliesInOrder
  <2>3. CASE b # c
    BY <1>12, <2>2, <2>3
  <2>4. CASE b = c
    <3>1. Len(replies[b]) <= Len(sent'[b])
      BY <1>12, <2>2, <2>4
    <3>2. \A i \in 1 .. Len(replies[b]) : i \in 1 .. Len(sent[c])
      BY <2>2, <2>4
    <3> QED
      BY <1>12, <2>2, <2>4, <3>1, <3>2
  <2> QED
    BY <2>3, <2>4
<1>16. AnsweredBeforeClose'
  <2>1. \A b \in Clients : client[b] = "served" => b # c
    BY <1>3
  <2> QED
    BY <1>1, <1>12, <2>1 DEF Answering, AnsweredBeforeClose
<1>17. /\ sequence'[h] = sequence[h] + 1 /\ \A g \in Handlers \ {h} : sequence'[g] = sequence[g]
       /\ \A g \in Handlers \ {h} : handler'[g] = handler[g]
       /\ sequence[h] \in Nat
  BY <1>1 DEF IInv, Fields, Threads
<1>18. ASSUME NEW g \in Handlers, g # h, handler'[g] # "consume" PROVE Answers(g)'
  <2>1. Answers(g) /\ ClientOf(g) \in Clients \ {c} /\ ClientOf(g)' = ClientOf(g)
    BY <1>1, <1>3, <1>17, <1>18, Serving DEF Answering, ClientOf
  <2> QED
    BY <1>1, <1>5, <1>9, <1>12, <1>17, <1>18, <2>1, AnswersSame
<1>19. Answers(h)'
  <2>1. ClientOf(h)' = c
    BY <1>1 DEF ClientOf, c
  <2>2. /\ Len(sent[c]) = sequence[h]
        /\ client[c] # "gone" => Len(replies[c]) = base[h]
        /\ base[h] = counter[h] + (IF sending[h] = None THEN 0 ELSE 1)
    BY <1>3 DEF Answers, c
  <2>3. ASSUME NEW s \in Of(h)
        PROVE  /\ req'[s].text = <<c, req'[s].sequence + 1>>
               /\ req'[s].config = sent'[c][req'[s].sequence + 1]
               /\ s \notin ToSet(decodeQueue') => req'[s].nbest = NBest(req'[s].text, req'[s].config)
    <3>1. /\ req[s].text = <<c, req[s].sequence + 1>>
          /\ req[s].config = sent[c][req[s].sequence + 1]
          /\ s \notin ToSet(decodeQueue) => req[s].nbest = NBest(req[s].text, req[s].config)
      BY <1>3 DEF Answers, c
    <3>2. req[s].sequence \in Nat /\ req[s].sequence < sequence[h]
      BY <1>6, <1>10 DEF IInv, Backend, Records
    <3>3. req[s].sequence + 1 \in 1 .. Len(sent[c])
      BY <1>17, <2>2, <3>2
    <3> QED
      BY <1>5, <1>10, <1>12, <3>1, <3>3
  <2>4. /\ req'[r].text = <<c, req'[r].sequence + 1>>
        /\ req'[r].config = sent'[c][req'[r].sequence + 1]
        /\ r \in ToSet(decodeQueue')
    BY <1>5, <1>7, <1>8, <1>12, <2>2
  <2>5. Len(sent'[c]) = sequence'[h]
    BY <1>12, <1>17, <2>2
  <2> QED
    BY <1>1, <1>10, <2>1, <2>2, <2>3, <2>4, <2>5 DEF Answers
<1> QED
  BY <1>13, <1>14, <1>15, <1>16, <1>18, <1>19 DEF Answering

\* What a request says does not change until it is decoded, nor after.
LEMMA DecodeAnswers ==
  ASSUME IInv, Answering, NEW d \in Decoders, Decode(d) PROVE Answering'
<1> DEFINE r == Head(decodeQueue)
           v == NBest(req[r].text, req[r].config)
<1>1. /\ decodeQueue # <<>> /\ decodeQueue' = Tail(decodeQueue)
      /\ req' = [req EXCEPT ![r].nbest = v]
      /\ UNCHANGED <<freeConns, connQueue, conn, socket, client, config, handler, base, sequence,
                     counter, sending, sent, replies, delivered>>
  BY DEF Decode, RequestConfig, acceptorVars, handlerVars, outputVars, clientVars
<1>2. decodeQueue \in Seq(Requests) /\ IsInjective(decodeQueue)
  BY DEF IInv, Queues
<1>3. r \in Requests /\ ToSet(decodeQueue') = ToSet(decodeQueue) \ {r}
  BY <1>1, <1>2, HeadTaken
<1>4. PICK S : req \in [Requests -> Records(S)]
  BY DEF IInv, Fields
<1>5. \A s \in Requests :
        /\ req'[s].output = req[s].output /\ req'[s].sequence = req[s].sequence
        /\ req'[s].text = req[s].text /\ req'[s].config = req[s].config
        /\ req'[s].nbest = IF s = r THEN v ELSE req[s].nbest
  BY <1>1, <1>3, <1>4 DEF Records
<1>6. v = NBest(req[r].text, req[r].config)
  OBVIOUS
<1> HIDE DEF r, v
<1>7. Connections' /\ Histories'
  BY <1>1 DEF Answering, Connections, Histories
<1>8. RepliesInOrder' /\ AnsweredBeforeClose'
  BY <1>1 DEF Answering, RepliesInOrder, AnsweredBeforeClose
<1>9. ASSUME NEW g \in Handlers, handler'[g] # "consume" PROVE Answers(g)'
  <2> DEFINE c == ClientOf(g)
  <2>1. ClientOf(g)' = c /\ Answers(g)
    BY <1>1, <1>9 DEF Answering, ClientOf
  <2>2. Of(g)' = Of(g) /\ \A s \in Of(g) : s \in Requests
    BY <1>5 DEF Of
  <2>3. ASSUME NEW s \in Of(g)
        PROVE  /\ req'[s].text = <<c, req'[s].sequence + 1>>
               /\ req'[s].config = sent'[c][req'[s].sequence + 1]
               /\ s \notin ToSet(decodeQueue') => req'[s].nbest = NBest(req'[s].text, req'[s].config)
    <3>1. /\ req[s].text = <<c, req[s].sequence + 1>>
          /\ req[s].config = sent[c][req[s].sequence + 1]
          /\ s \notin ToSet(decodeQueue) => req[s].nbest = NBest(req[s].text, req[s].config)
      BY <2>1 DEF Answers
    <3>2. /\ req'[s].sequence = req[s].sequence /\ req'[s].text = req[s].text
          /\ req'[s].config = req[s].config
          /\ req'[s].nbest = IF s = r THEN v ELSE req[s].nbest
      BY <1>5, <2>2
    <3> QED
      BY <1>1, <1>3, <1>6, <3>1, <3>2
  <2>4. /\ Len(sent[c]) = sequence[g]
        /\ client[c] # "gone" => Len(replies[c]) = base[g]
        /\ base[g] = counter[g] + (IF sending[g] = None THEN 0 ELSE 1)
    BY <2>1 DEF Answers
  <2> HIDE DEF c
  <2> QED
    BY <1>1, <2>1, <2>2, <2>3, <2>4 DEF Answers
<1> QED
  BY <1>7, <1>8, <1>9 DEF Answering

\* The list that is written answers the client's next unanswered sentence.
LEMMA WriteNBestAnswers ==
  ASSUME IInv, Answering, NEW h \in Handlers, WriteNBest(h) PROVE Answering'
<1> DEFINE r == Head(pending[h])
           c == ClientOf(h)
<1>1. /\ output[h] = "loop" /\ pending[h] # <<>> /\ r # None
      /\ sending' = [sending EXCEPT ![h] = r] /\ base' = [base EXCEPT ![h] = @ + 1]
      /\ replies' = IF client[c] = "gone" THEN replies
                    ELSE [replies EXCEPT ![c] = Append(@, req[r].nbest)]
      /\ UNCHANGED <<freeConns, connQueue, conn, socket, client, config, handler, sequence,
                     delivered, counter, req, decodeQueue, sent>>
  BY DEF WriteNBest, Ready, acceptorVars, handlerVars, decoderVars
<1>2. /\ r \in Of(h) /\ r \in Requests /\ req[r].sequence = base[h] /\ r \notin ToSet(decodeQueue)
      /\ base[h] \in Nat /\ sequence[h] \in Nat /\ req[r].sequence < sequence[h]
  <2>1. pending[h] \in Seq(Requests \cup {None})
    BY DEF IInv, Queues
  <2>2. 1 \in 1 .. Len(pending[h]) /\ r = pending[h][1]
    BY <1>1, <2>1
  <2>3. r \in Of(h) /\ r \in At[<<"pending", h>>] /\ req[r].sequence = base[h] + 1 - 1
    BY <1>1, <2>2, PendingAreOf DEF IInv, Backend
  <2>4. /\ <<"pending", h>> \in Names /\ <<"decode", None>> \in Names
        /\ <<"pending", h>> # <<"decode", None>> /\ At[<<"decode", None>>] = ToSet(decodeQueue)
    BY NamesArePairs, AtNames
  <2>5. r \notin ToSet(decodeQueue)
    BY <2>3, <2>4 DEF IInv, Partition
  <2>6. base[h] \in Nat /\ sequence[h] \in Nat
    BY DEF IInv, Fields
  <2>7. req[r].sequence < sequence[h]
    BY <2>3 DEF IInv, Backend
  <2> QED
    BY <2>3, <2>5, <2>6, <2>7 DEF Of
<1> HIDE DEF r
<1>3. handler[h] # "consume"
  BY <1>2, IdleHasNone
<1>4. /\ c \in Clients /\ client[c] \in {"open", "gone"} /\ Answers(h)
      /\ \A k \in ToSet(connQueue) : socket[k] # c
      /\ \A g \in Handlers : g # h /\ handler[g] # "consume" => ClientOf(g) # c
  BY <1>3, Serving, Waiting DEF Answering
<1>5. /\ sending[h] = None /\ sending'[h] = r /\ \A g \in Handlers \ {h} : sending'[g] = sending[g]
      /\ base'[h] = base[h] + 1 /\ \A g \in Handlers \ {h} : base'[g] = base[g]
  BY <1>1 DEF IInv, Threads, Fields
<1>6. /\ Len(sent[c]) = sequence[h]
      /\ client[c] # "gone" => Len(replies[c]) = base[h]
      /\ base[h] = counter[h] + 0
      /\ req[r].text = <<c, base[h] + 1>> /\ req[r].config = sent[c][base[h] + 1]
      /\ req[r].nbest = NBest(req[r].text, req[r].config)
  BY <1>2, <1>4, <1>5 DEF Answers
<1>7. req[r].nbest = NBest(<<c, base[h] + 1>>, sent[c][base[h] + 1])
  BY <1>6
<1> HIDE DEF c
<1>8. PICK S : replies \in [Clients -> Seq(S)]
  BY DEF Answering, Histories
<1> DEFINE T == S \cup {req[r].nbest}
<1>9. replies \in [Clients -> Seq(T)]
  <2>1. \A b \in Clients : replies[b] \in Seq(T)
    BY <1>8
  <2> QED
    BY <1>8, <2>1
\* The lists of a client that is there.
<1>10. /\ replies' \in [Clients -> Seq(T)] /\ \A b \in Clients \ {c} : replies'[b] = replies[b]
       /\ client[c] = "gone" => replies'[c] = replies[c]
       /\ client[c] # "gone" =>
            /\ Len(replies'[c]) = base[h] + 1 /\ replies'[c][base[h] + 1] = req[r].nbest
            /\ \A i \in 1 .. base[h] : replies'[c][i] = replies[c][i]
  <2>1. CASE client[c] = "gone"
    BY <1>1, <1>9, <2>1
  <2>2. CASE client[c] # "gone"
    <3>1. replies' = [replies EXCEPT ![c] = Append(@, req[r].nbest)]
      BY <1>1, <2>2
    <3>2. PICK t \in Seq(T) : t = replies[c] /\ Len(t) = base[h]
      BY <1>4, <1>6, <1>9, <2>2
    <3>3. /\ Append(t, req[r].nbest) \in Seq(T) /\ Len(Append(t, req[r].nbest)) = base[h] + 1
          /\ Append(t, req[r].nbest)[base[h] + 1] = req[r].nbest
          /\ \A i \in 1 .. base[h] : Append(t, req[r].nbest)[i] = t[i]
      BY <1>2, <3>2
    <3>4. replies'[c] = Append(t, req[r].nbest) /\ \A b \in Clients \ {c} : replies'[b] = replies[b]
      BY <1>4, <1>9, <3>1, <3>2
    <3>5. replies' \in [Clients -> Seq(T)]
      BY <1>4, <1>9, <3>1, <3>2, <3>3
    <3> QED
      BY <2>2, <3>2, <3>3, <3>4, <3>5
  <2> QED
    BY <2>1, <2>2
<1> HIDE DEF T
<1>11. Connections'
  BY <1>1 DEF Answering, Connections
<1>12. Histories'
  <2>1. \A b \in Clients : client[b] = "new" => b # c
    BY <1>4
  <2>2. \A k \in ToSet(connQueue) : socket[k] \in Clients \ {c}
    BY <1>4, Waiting DEF Answering
  <2>3. \E U : replies' \in [Clients -> Seq(U)]
    BY <1>10
  <2>4. \A b \in Clients : client[b] = "new" => sent[b] = <<>> /\ replies'[b] = <<>>
    BY <1>10, <2>1 DEF Answering, Histories
  <2>5. \A k \in ToSet(connQueue) : sent[socket[k]] = <<>> /\ replies'[socket[k]] = <<>>
    BY <1>10, <2>2 DEF Answering, Histories
  <2>6. /\ config \in [Handlers -> Configs] /\ sent \in [Clients -> Seq(Configs)]
        /\ delivered \in [Clients -> Nat]
    BY DEF Answering, Histories
  <2> QED
    BY <1>1, <2>3, <2>4, <2>5, <2>6 DEF Histories
<1>13. RepliesInOrder'
  <2>1. SUFFICES ASSUME NEW b \in Clients
                 PROVE  /\ Len(replies'[b]) <= Len(sent[b])
                        /\ \A i \in 1 .. Len(replies'[b]) : replies'[b][i] = NBest(<<b, i>>, sent[b][i])
    BY <1>1 DEF RepliesInOrder
  <2>2. /\ Len(replies[b]) <= Len(sent[b])
        /\ \A i \in 1 .. Len(replies[b]) : replies[b][i] = NBest(<<b, i>>, sent[b][i])
    BY DEF Answering, RepliesInOrder
  <2>3. CASE b # c \/ client[c] = "gone"
    BY <1>10, <2>2, <2>3
  <2>4. CASE b = c /\ client[c] # "gone"
    <3>1. Len(replies'[c]) <= Len(sent[c])
      BY <1>2, <1>6, <1>10, <2>4
    <3>2. ASSUME NEW i \in 1 .. Len(replies'[c]) PROVE replies'[c][i] = NBest(<<c, i>>, sent[c][i])
      <4>1. i \in 1 .. base[h] \/ i = base[h] + 1
        BY <1>2, <1>10, <2>4
      <4>2. CASE i \in 1 .. base[h]
        BY <1>6, <1>10, <2>2, <2>4, <4>2
      <4>3. CASE i = base[h] + 1
        BY <1>7, <1>10, <2>4, <4>3
      <4> QED
        BY <4>1, <4>2, <4>3
    <3> QED
      BY <2>4, <3>1, <3>2
  <2> QED
    BY <2>3, <2>4
<1>14. AnsweredBeforeClose'
  <2>1. \A b \in Clients : client[b] = "served" => b # c
    BY <1>4
  <2> QED
    BY <1>1, <1>10, <2>1 DEF Answering, AnsweredBeforeClose
<1>15. ASSUME NEW g \in Handlers, g # h, handler'[g] # "consume" PROVE Answers(g)'
  <2>1. Answers(g) /\ ClientOf(g) \in Clients \ {c} /\ ClientOf(g)' = ClientOf(g) /\ Of(g)' = Of(g)
    BY <1>1, <1>4, <1>15, Serving DEF Answering, ClientOf, Of
  <2> QED
    BY <1>1, <1>5, <1>10, <1>15, <2>1, AnswersSame
<1>16. Answers(h)'
  <2>1. ClientOf(h)' = c /\ Of(h)' = Of(h)
    BY <1>1 DEF ClientOf, Of, c
  <2>2. \A s \in Of(h) :
          /\ req[s].text = <<c, req[s].sequence + 1>>
          /\ req[s].config = sent[c][req[s].sequence + 1]
          /\ s \notin ToSet(decodeQueue) => req[s].nbest = NBest(req[s].text, req[s].config)
    BY <1>4 DEF Answers, c
  <2>3. base'[h] = counter[h] + (IF sending'[h] = None THEN 0 ELSE 1)
    <3>1. counter[h] \in Nat
      BY DEF IInv, Fields
    <3> QED
      BY <1>1, <1>2, <1>5, <1>6, <3>1
  <2> QED
    BY <1>1, <1>5, <1>6, <1>10, <2>1, <2>2, <2>3 DEF Answers
<1> QED
  BY <1>11, <1>12, <1>13, <1>14, <1>15, <1>16 DEF Answering

\* A request that was written is freed and counted.
LEMMA FreeSentAnswers ==
  ASSUME IInv, Answering, NEW h \in Handlers, FreeSent(h) PROVE Answering'
<1> DEFINE r == sending[h]
<1>1. /\ output[h] = "free" /\ req' = [req EXCEPT ![r] = NoRequest]
      /\ sending' = [sending EXCEPT ![h] = None] /\ counter' = [counter EXCEPT ![h] = @ + 1]
      /\ UNCHANGED <<freeConns, connQueue, conn, socket, client, config, handler, base, sequence,
                     decodeQueue, sent, replies, delivered>>
  BY DEF FreeSent, Post, acceptorVars, handlerVars, decoderVars, clientVars
<1>2. r \in Requests /\ r # None /\ r \in Of(h)
  <2>1. r \in Requests /\ r # None
    BY <1>1 DEF IInv, Threads
  <2>2. <<"sending", h>> \in Names /\ At[<<"sending", h>>] = {sending[h]} \ {None}
        /\ <<"sending", h>>[1] = "sending" /\ <<"sending", h>>[2] = h
    BY NamesArePairs, AtNames
  <2>3. req[r].output = h
    BY <2>1, <2>2 DEF IInv, Owners
  <2> QED
    BY <2>1, <2>3 DEF Of
<1>3. handler[h] # "consume"
  BY <1>2, IdleHasNone
<1>4. /\ sending'[h] = None /\ \A g \in Handlers \ {h} : sending'[g] = sending[g]
      /\ counter'[h] = counter[h] + 1 /\ \A g \in Handlers \ {h} : counter'[g] = counter[g]
      /\ counter[h] \in Nat
  BY <1>1 DEF IInv, Threads, Fields
<1>5. /\ req'[r] = NoRequest /\ \A s \in Requests \ {r} : req'[s] = req[s]
      /\ NoRequest.output = None /\ None \notin Handlers
  <2>1. PICK S : req \in [Requests -> Records(S)]
    BY DEF IInv, Fields
  <2> QED
    BY <1>1, <1>2, <2>1, NoneIsNew DEF NoRequest
<1>6. \A g \in Handlers : g # h => Of(g)' = Of(g) /\ \A s \in Of(g) : req'[s] = req[s]
  BY <1>2, <1>5 DEF Of
<1>7. \A s \in Of(h)' : s \in Of(h) /\ req'[s] = req[s]
  BY <1>5 DEF Of
<1> HIDE DEF r
<1>8. Connections' /\ Histories'
  BY <1>1 DEF Answering, Connections, Histories
<1>9. RepliesInOrder' /\ AnsweredBeforeClose'
  BY <1>1 DEF Answering, RepliesInOrder, AnsweredBeforeClose
<1>10. ASSUME NEW g \in Handlers, g # h, handler'[g] # "consume" PROVE Answers(g)'
  <2>1. Answers(g) /\ ClientOf(g)' = ClientOf(g)
    BY <1>1, <1>10 DEF Answering, ClientOf
  <2> QED
    BY <1>1, <1>4, <1>6, <1>10, <2>1, AnswersSame
<1>11. Answers(h)'
  <2> DEFINE c == ClientOf(h)
  <2>1. Answers(h) /\ ClientOf(h)' = c
    BY <1>1, <1>3 DEF Answering, ClientOf
  <2>2. base'[h] = counter'[h] + 0
    BY <1>1, <1>2, <1>4, <2>1 DEF Answers, r
  <2>3. \A s \in Of(h)' :
          /\ req'[s].text = <<c, req'[s].sequence + 1>>
          /\ req'[s].config = sent[c][req'[s].sequence + 1]
          /\ s \notin ToSet(decodeQueue) => req'[s].nbest = NBest(req'[s].text, req'[s].config)
    BY <1>7, <2>1 DEF Answers
  <2>4. /\ Len(sent[c]) = sequence[h]
        /\ client[c] # "gone" => Len(replies[c]) = base[h]
    BY <2>1 DEF Answers
  <2> HIDE DEF c
  <2> QED
    BY <1>1, <1>4, <2>1, <2>2, <2>3, <2>4 DEF Answers
<1> QED
  BY <1>8, <1>9, <1>10, <1>11 DEF Answering

\* As many posts as sentences: each of them was written, and freed.
LEMMA CloseConnectionAnswers ==
  ASSUME IInv, Answering, NEW h \in Handlers, CloseConnection(h) PROVE Answering'
<1> DEFINE c == ClientOf(h)
           k == conn[h]
<1>1. /\ handler[h] = "drain" /\ handler' = [handler EXCEPT ![h] = "consume"]
      /\ counter[h] >= sequence[h] /\ Flushed(c)
      /\ client' = [client EXCEPT ![c] = IF @ = "open" THEN "served" ELSE @]
      /\ socket' = [socket EXCEPT ![k] = None] /\ freeConns' = Append(freeConns, k)
      /\ conn' = [conn EXCEPT ![h] = None] /\ sequence' = [sequence EXCEPT ![h] = 0]
      /\ config' = [config EXCEPT ![h] = DefaultConfig]
      /\ counter' = [counter EXCEPT ![h] = @ - sequence[h]]
      /\ UNCHANGED <<connQueue, base, sending, req, decodeQueue, sent, replies, delivered>>
  BY DEF CloseConnection, Drained, decoderVars
<1>2. /\ k \in ConnRequests /\ k # None /\ c = socket[k] /\ c \in Clients /\ Answers(h)
      /\ client[c] \in {"open", "gone"}
      /\ \A l \in ConnRequests : l # k => socket[l] # c
      /\ \A g \in Handlers : g # h /\ handler[g] # "consume" =>
           conn[g] \in ConnRequests /\ conn[g] # k /\ ClientOf(g) # c
  <2>1. Connections /\ handler[h] # "consume" /\ Answers(h)
    BY <1>1 DEF Answering
  <2>2. k \in ConnRequests /\ k # None /\ c = socket[k]
    BY <2>1, Serving, NoneIsNoClient DEF ClientOf
  <2> QED
    BY <2>1, <2>2, Serving
\* Each sentence is answered, and the answer is not in the buffer.
<1>3. client[c] = "open" => delivered[c] = Len(sent[c])
  <2>1. Cardinality(Of(h)) + counter[h] = sequence[h] /\ counter[h] \in Nat /\ sequence[h] \in Nat
    BY DEF IInv, Backend, Fields
  <2>2. Cardinality(Of(h)) = 0 /\ counter[h] = sequence[h]
    BY <1>1, <2>1, OfFinite
  <2>3. Of(h) = {}
    BY <2>2, OfFinite, FS_EmptySet
  <2>4. sending[h] = None
    BY <2>3, NothingLeft
  <2>5. /\ Len(sent[c]) = sequence[h]
        /\ client[c] # "gone" => Len(replies[c]) = base[h]
        /\ base[h] = counter[h] + 0
    BY <1>2, <2>4 DEF Answers
  <2>6. client[c] # "gone" => delivered[c] = Len(replies[c])
    BY <1>1 DEF Flushed
  <2> QED
    BY <2>1, <2>2, <2>5, <2>6
<1>4. freeConns \in Seq(ConnRequests) /\ IsInjective(freeConns) /\ k \notin ToSet(freeConns)
      /\ k \notin ToSet(connQueue)
  BY DEF Answering, Connections
<1> HIDE DEF c
<1>5. \A g \in Handlers \ {h} : conn[g] # k
  BY <1>2 DEF Answering, Connections, k
<1> HIDE DEF k
<1>6. /\ freeConns' \in Seq(ConnRequests) /\ IsInjective(freeConns')
      /\ ToSet(freeConns') = ToSet(freeConns) \cup {k}
  BY <1>1, <1>2, <1>4, EndAdded
<1>7. /\ conn' \in [Handlers -> ConnRequests \cup {None}]
      /\ conn'[h] = None /\ \A g \in Handlers \ {h} : conn'[g] = conn[g]
      /\ socket' \in [ConnRequests -> Clients \cup {None}]
      /\ socket'[k] = None /\ \A l \in ConnRequests \ {k} : socket'[l] = socket[l]
  BY <1>1, <1>2 DEF Answering, Connections
<1>8. /\ client' \in [Clients -> {"new", "open", "gone", "served"}]
      /\ client'[c] = (IF client[c] = "open" THEN "served" ELSE client[c])
      /\ \A b \in Clients \ {c} : client'[b] = client[b]
  BY <1>1, <1>2 DEF Answering, Connections
<1>9. /\ handler'[h] = "consume" /\ \A g \in Handlers \ {h} : handler'[g] = handler[g]
      /\ \A g \in Handlers \ {h} : sequence'[g] = sequence[g] /\ counter'[g] = counter[g]
      /\ config' \in [Handlers -> Configs]
  BY <1>1, ServerAssumption DEF IInv, Threads, Fields, Answering, Histories
<1>10. Connections'
  <2>1. \A g \in Handlers : conn'[g] = None <=> handler'[g] = "consume"
    BY <1>7, <1>9 DEF Answering, Connections
  <2>2. \A l \in ConnRequests : socket'[l] = None <=> l \in ToSet(freeConns')
    BY <1>6, <1>7 DEF Answering, Connections
  <2>3. ToSet(connQueue') \cap ToSet(freeConns') = {}
    BY <1>1, <1>4, <1>6 DEF Answering, Connections
  <2>4. \A g \in Handlers : conn'[g] \notin ToSet(freeConns') \cup ToSet(connQueue')
    <3>1. None \notin ToSet(freeConns') \cup ToSet(connQueue')
      <4>1. ToSet(freeConns) \subseteq ConnRequests /\ ToSet(connQueue) \subseteq ConnRequests
        <5>1. freeConns \in Seq(ConnRequests) /\ connQueue \in Seq(ConnRequests)
          BY DEF Answering, Connections
        <5>2. /\ ToSet(freeConns) = {freeConns[i] : i \in 1 .. Len(freeConns)}
              /\ ToSet(connQueue) = {connQueue[i] : i \in 1 .. Len(connQueue)}
          BY <5>1, Members
        <5> QED
          BY <5>1, <5>2
      <4> QED
        BY <1>1, <1>2, <1>6, <4>1, NoneIsNoClient
    <3> QED
      BY <1>1, <1>5, <1>6, <1>7, <3>1 DEF Answering, Connections
  <2>5. \A f, g \in Handlers : conn'[f] = conn'[g] /\ conn'[f] # None => f = g
    BY <1>7 DEF Answering, Connections
  <2>6. \A l, m \in ConnRequests : socket'[l] = socket'[m] /\ socket'[l] # None => l = m
    BY <1>7 DEF Answering, Connections
  <2>7. \A l \in ConnRequests : socket'[l] # None => client'[socket'[l]] \in {"open", "gone"}
    <3>1. SUFFICES ASSUME NEW l \in ConnRequests \ {k}, socket[l] # None
                   PROVE  client'[socket[l]] \in {"open", "gone"}
      BY <1>7
    <3>2. socket[l] \in Clients \ {c} /\ client[socket[l]] \in {"open", "gone"}
      BY <1>2, <3>1 DEF Answering, Connections
    <3> QED
      BY <1>8, <3>2
  <2>8. connQueue' \in Seq(ConnRequests) /\ IsInjective(connQueue')
    BY <1>1 DEF Answering, Connections
  <2> QED
    BY <1>6, <1>7, <1>8, <2>1, <2>2, <2>3, <2>4, <2>5, <2>6, <2>7, <2>8 DEF Connections
<1>11. Histories'
  <2>1. \A b \in Clients : client'[b] = "new" => client[b] = "new"
    BY <1>8
  <2>2. \A l \in ToSet(connQueue) : socket'[l] = socket[l]
    BY <1>4, <1>7, Waiting DEF Answering
  <2>3. \A b \in Clients : client'[b] = "new" => sent[b] = <<>> /\ replies[b] = <<>>
    BY <2>1 DEF Answering, Histories
  <2>4. \A l \in ToSet(connQueue) : sent[socket'[l]] = <<>> /\ replies[socket'[l]] = <<>>
    BY <2>2 DEF Answering, Histories
  <2>5. /\ sent \in [Clients -> Seq(Configs)] /\ \E S : replies \in [Clients -> Seq(S)]
        /\ delivered \in [Clients -> Nat]
    BY DEF Answering, Histories
  <2> QED
    BY <1>1, <1>9, <2>3, <2>4, <2>5 DEF Histories
<1>12. RepliesInOrder'
  BY <1>1 DEF Answering, RepliesInOrder
<1>13. AnsweredBeforeClose'
  <2>1. ASSUME NEW b \in Clients, client'[b] = "served" PROVE delivered[b] = Len(sent[b])
    BY <1>2, <1>3, <1>8, <2>1 DEF Answering, AnsweredBeforeClose
  <2> QED
    BY <1>1, <2>1 DEF AnsweredBeforeClose
<1>14. ASSUME NEW g \in Handlers, handler'[g] # "consume" PROVE Answers(g)'
  <2>1. g # h /\ handler[g] # "consume"
    BY <1>9, <1>14
  <2>2. Answers(g) /\ ClientOf(g) \in Clients \ {c} /\ conn[g] \in ConnRequests \ {k}
    BY <1>2, <2>1, Serving DEF Answering
  <2>3. ClientOf(g)' = ClientOf(g) /\ Of(g)' = Of(g)
    BY <1>1, <1>7, <2>1, <2>2 DEF ClientOf, Of
  <2> QED
    BY <1>1, <1>8, <1>9, <2>1, <2>2, <2>3, AnswersSame
<1> QED
  BY <1>10, <1>11, <1>12, <1>13, <1>14 DEF Answering

\* At first every client is new and every connection free.
LEMMA AnsweringStarts == Init => Answering
<1> SUFFICES ASSUME Init PROVE Answering
  OBVIOUS
<1>1. IsFiniteSet(ConnRequests)
  BY ServerAssumption
<1>2. freeConns \in Seq(ConnRequests) /\ IsInjective(freeConns) /\ ToSet(freeConns) = ConnRequests
  BY <1>1, SequenceOfAll DEF Init
<1>3. ToSet(<<>>) = {} /\ IsInjective(<<>>) /\ \A S : <<>> \in Seq(S)
  BY DEF ToSet, IsInjective
<1>4. Connections
  BY <1>2, <1>3, NoneIsNoClient DEF Init, Connections
<1>5. Histories
  <2>1. replies \in [Clients -> Seq({})]
    BY <1>3 DEF Init
  <2>2. \E S : replies \in [Clients -> Seq(S)]
    BY <2>1
  <2> QED
    BY <1>3, <2>2, ServerAssumption DEF Init, Histories
<1>6. RepliesInOrder /\ AnsweredBeforeClose
  <2>1. \A c \in Clients : Len(replies[c]) = 0 /\ Len(sent[c]) = 0 /\ delivered[c] = 0
    BY DEF Init
  <2>2. \A c \in Clients : 1 .. Len(replies[c]) = {}
    BY <2>1
  <2> QED
    BY <2>1, <2>2 DEF RepliesInOrder, AnsweredBeforeClose
<1>7. \A h \in Handlers : handler[h] = "consume"
  BY DEF Init
<1> QED
  BY <1>4, <1>5, <1>6, <1>7 DEF Answering

LEMMA AnsweringKeeps == IInv /\ Answering /\ [Next]_vars => Answering'
<1> SUFFICES ASSUME IInv, Answering, [Next]_vars PROVE Answering'
  OBVIOUS
<1>1. CASE AcceptFails \/ UNCHANGED vars
  BY <1>1, AcceptFailsAnswers, QuietStepsAnswer
<1>2. ASSUME NEW c \in Clients, Accept(c) \/ Read(c) \/ Disconnect(c) PROVE Answering'
  BY <1>2, AcceptAnswers, QuietStepsAnswer
<1>3. ASSUME NEW h \in Handlers, Handle(h) PROVE Answering'
  BY <1>3, OpenConnectionAnswers, AlignedAnswers, CloseConnectionAnswers, QuietStepsAnswer
     DEF Handle
<1>4. ASSUME NEW h \in Handlers, OutputStep(h) PROVE Answering'
  BY <1>4, WriteNBestAnswers, FreeSentAnswers, QuietStepsAnswer DEF OutputStep
<1>5. ASSUME NEW d \in Decoders, DecoderStep(d) PROVE Answering'
  BY <1>5, DecodeAnswers, QuietStepsAnswer DEF DecoderStep
<1>6. ASSUME NEW h \in Handlers, Push(h) PROVE Answering'
  BY <1>6, PushAnswers
<1> QED
  BY <1>1, <1>2, <1>3, <1>4, <1>5, <1>6 DEF Next

LEMMA AnsweringHolds == Spec => []Answering
<1>1. Init => Answering
  BY AnsweringStarts
<1>2. IInv /\ Answering /\ [Next]_vars => Answering'
  BY AnsweringKeeps
<1> QED
  BY <1>1, <1>2, Invariant, PTL DEF Spec
-----------------------------------------------------------------------------
(* Each SentenceRequest is free, held by one handler, waiting for or in one*)
(* decoder, or with one connection's output, and never lost: where reading *)
(* a sentence fails, in ~Connection and in the Reset of the next           *)
(* connection (Sentence.hh:105, OutputHandler.hh:26).                      *)
THEOREM RequestsConservedHolds == Spec => []RequestsConserved
BY Invariant, Conserved, PTL

(* A handler between connections has left no request and no post behind    *)
(* ("should assert(counter_ == 0)", OutputHandler.hh:26).                  *)
THEOREM BackendCleanHolds == Spec => []BackendClean
BY Invariant, Clean, PTL

(* A client gets the answers to its own sentences in the order it sent     *)
(* them, each under the configuration in force then, although decoders     *)
(* finish in any order and requests and handlers are reused.               *)
THEOREM RepliesInOrderHolds == Spec => []RepliesInOrder
<1>1. Answering => RepliesInOrder
  BY DEF Answering
<1> QED
  BY <1>1, AnsweringHolds, PTL

(* A client that is still there when its connection is closed has been     *)
(* answered every sentence, also after an error (~Connection), and none of *)
(* the answers has stayed in the buffer of its stream.                     *)
THEOREM AnsweredBeforeCloseHolds == Spec => []AnsweredBeforeClose
<1>1. Answering => AnsweredBeforeClose
  BY DEF Answering
<1> QED
  BY <1>1, AnsweringHolds, PTL
=============================================================================
