------------------------------- MODULE Server -------------------------------
(***************************************************************************)
(* The decoding server (MEMT/Controller): the acceptor loop, a pool of     *)
(* connection handlers, one OutputBackend with its single output thread    *)
(* per handler, and the decoder pool and SentenceRequest pool that all     *)
(* connections share.  Every queue is the bounded FIFO of PCQueue.         *)
(*                                                                         *)
(* A client connects once.  Its commands are read from the socket as they  *)
(* arrive.  What the server writes stays in the buffer of the connection's *)
(* WriteSocketStream until the buffer overflows or is flushed, and then in *)
(* a socket buffer of SocketSize replies until the client reads it.  Of the*)
(* replies only the n-best lists are remembered; an error or feature_info  *)
(* just takes room.  A client that is gone may have left commands behind   *)
(* that are still read.  A sentence is a pair <<client, number>>; decoding *)
(* maps it to the sentence and the configuration in the request when it was*)
(* decoded.                                                                *)
(***************************************************************************)
EXTENDS Naturals, FiniteSets, Sequences, SequencesExt

CONSTANTS
  Handlers,         \* the connection_ pool's workers ("connections" many)
  ConnRequests,     \* ConnectionRequest objects, as many as handlers
  Requests,         \* SentenceRequest objects ("requests" many)
  Decoders,         \* the decoder_ pool's workers
  OutputQueueSize,  \* output_queue_size
  Clients,          \* bound: the clients that ever connect
  Configs,          \* configurations a client may send
  DefaultConfig,    \* the one a connection starts with
  Flushing,         \* the configurations with flush_nbest
  MaxMatched,       \* bound: matched commands of each client
  MaxOther,         \* bound: config and feature_info commands of each client
  Fickle,           \* bound: the clients that may drop their connection
  SocketSize,       \* replies the socket to a client holds unread
  None              \* a null pointer, or no value yet

ASSUME ServerAssumption ==
  /\ IsFiniteSet(Handlers) /\ Handlers # {} /\ IsFiniteSet(ConnRequests)
  /\ Cardinality(Handlers) = Cardinality(ConnRequests)
  /\ IsFiniteSet(Requests) /\ Requests # {} /\ IsFiniteSet(Decoders)
  /\ OutputQueueSize \in Nat \ {0} /\ SocketSize \in Nat \ {0}
  /\ DefaultConfig \in Configs /\ Flushing \subseteq Configs \ {DefaultConfig}
  /\ MaxMatched \in [Clients -> Nat] /\ MaxOther \in [Clients -> Nat]
  /\ None \notin ConnRequests \cup Requests \cup Handlers \cup Clients \cup Configs

VARIABLES
  freeConns, connQueue,  \* ConnectionTransition: free_requests_, connection_.In()
  socket,                \* client on the socket of each ConnectionRequest
  handler,               \* place of each handler in its loop
  conn,                  \* the ConnectionRequest it serves
  sequence, config,      \* Connection::sequence_, config_
  current,               \* the SentenceRequest held by Aligned()
  outQueue, output,      \* output_pool_.In(), place of the output thread
  base, pending,         \* OutputBackend: base_, requests_
  counter,               \* OutputBackend: counter_
  sending,               \* the request the output thread writes
  freeRequests,          \* SentenceTransition: free_requests_
  decodeQueue,           \* decoder_.In()
  decoder, decoding,     \* place and request of each decoder
  req,                   \* the fields of each SentenceRequest
  client,                \* state of each client
  others,                \* config and feature_info commands sent
  sent,                  \* the configuration in force at each matched sent
  replies,               \* the n-best lists written to the stream of each client
  delivered,             \* how many of them the stream has given to the socket
  unread                 \* what is in the socket and the client has not read

acceptorVars == <<freeConns, connQueue, socket>>
handlerVars  == <<handler, conn, sequence, config, current>>
outputVars   == <<outQueue, output, base, pending, counter, sending>>
decoderVars  == <<decodeQueue, decoder, decoding>>
clientVars   == <<client, others, sent, replies, delivered, unread>>
vars == <<acceptorVars, handlerVars, outputVars, decoderVars, freeRequests,
          req, clientVars>>

Longest == Max({MaxMatched[c] : c \in Clients})
NoRequest == [config |-> None, sequence |-> 0, text |-> None, output |-> None,
              nbest |-> None]

Init ==
  /\ freeConns \in SetToSeqs(ConnRequests)
  /\ connQueue = <<>>
  /\ socket = [c \in ConnRequests |-> None]
  /\ handler = [h \in Handlers |-> "consume"]
  /\ conn = [h \in Handlers |-> None]
  /\ sequence = [h \in Handlers |-> 0]
  /\ config = [h \in Handlers |-> DefaultConfig]
  /\ current = [h \in Handlers |-> None]
  /\ outQueue = [h \in Handlers |-> <<>>]
  /\ output = [h \in Handlers |-> "consume"]
  /\ base = [h \in Handlers |-> 0]
  /\ pending = [h \in Handlers |-> <<>>]
  /\ counter = [h \in Handlers |-> 0]
  /\ sending = [h \in Handlers |-> None]
  /\ freeRequests \in SetToSeqs(Requests)
  /\ decodeQueue = <<>>
  /\ decoder = [d \in Decoders |-> "consume"]
  /\ decoding = [d \in Decoders |-> None]
  /\ req = [r \in Requests |-> NoRequest]
  /\ client = [c \in Clients |-> "new"]
  /\ others = [c \in Clients |-> 0]
  /\ sent = [c \in Clients |-> <<>>]
  /\ replies = [c \in Clients |-> <<>>]
  /\ delivered = [c \in Clients |-> 0]
  /\ unread = [c \in Clients |-> 0]

ClientOf(h) == socket[conn[h]]
-----------------------------------------------------------------------------
(* RunServer: one turn of the loop.  The acceptor's "req" is the oldest    *)
(* free ConnectionRequest.                                                 *)

\* GetFree, socket.close(), accept, ConnectionTransition::Opened.
Accept(c) ==
  /\ freeConns # <<>> /\ client[c] = "new"
  /\ Len(connQueue) < Cardinality(ConnRequests)
  /\ socket' = [socket EXCEPT ![Head(freeConns)] = c]
  /\ client' = [client EXCEPT ![c] = "open"]
  /\ freeConns' = Tail(freeConns)
  /\ connQueue' = Append(connQueue, Head(freeConns))
  /\ UNCHANGED <<handlerVars, outputVars, decoderVars, freeRequests, req,
                 others, sent, replies, delivered, unread>>

\* close or accept throws: ConnectionTransition::Failed.
AcceptFails ==
  /\ freeConns # <<>>
  /\ freeConns' = Append(Tail(freeConns), Head(freeConns))
  /\ UNCHANGED <<connQueue, socket, handlerVars, outputVars, decoderVars,
                 freeRequests, req, clientVars>>
-----------------------------------------------------------------------------
(* SentenceTransition *)

\* Mutant: a request whose turn is over is forgotten.
Forget(r) == UNCHANGED freeRequests
\* Output and Failed both give the request back to free_requests_.
Free(r) == freeRequests' = Append(freeRequests, r)

-----------------------------------------------------------------------------
(* Writing to a client: the CoordStream, the buffer of the WriteSocketStream*)
(* behind it, and the socket.  A write to a client that is gone fails at    *)
(* once and is not reported.                                                *)

\* A CoordWrite has the mutex of the connection's CoordStream.
Writing(h) == output[h] = "write" \/ handler[h] \in {"info", "tell"}

CanWrite(c) == client[c] = "gone" \/ unread[c] < SocketSize
Write(c) == unread' = IF client[c] = "gone" THEN unread
                      ELSE [unread EXCEPT ![c] = @ + 1]

\* The buffer has no reply any more.
Flushed(c) == client[c] = "gone" \/ delivered[c] = Len(replies[c])
\* What comes last goes to the socket too.
WriteThrough(c) == Flushed(c) /\ CanWrite(c) /\ Write(c)
-----------------------------------------------------------------------------
(* ConnectionHandler::operator() and Connection *)

\* Mutant: a reused OutputBackend keeps the sequence number it reached.
ResetKeepsBase(h) ==
  /\ pending' = [pending EXCEPT ![h] = <<>>]
  /\ UNCHANGED base
\* OutputBackend::Reset.  counter_ is left as it is.
Reset(h) ==
  /\ base' = [base EXCEPT ![h] = 0]
  /\ pending' = [pending EXCEPT ![h] = <<>>]

\* Take a connection and construct its Connection (sequence_ is 0, config_ the
\* default: CloseConnection left them so).
OpenConnection(h) ==
  /\ handler[h] = "consume" /\ connQueue # <<>>
  /\ conn' = [conn EXCEPT ![h] = Head(connQueue)]
  /\ connQueue' = Tail(connQueue)
  /\ Reset(h)
  /\ handler' = [handler EXCEPT ![h] = "header"]
  /\ UNCHANGED <<freeConns, socket, sequence, config,
                 current, outQueue, output, counter, sending,
                 decoderVars, freeRequests, req, clientVars>>

\* "config" with options that parse.
Config(h) ==
  /\ handler[h] = "header"
  /\ others[ClientOf(h)] < MaxOther[ClientOf(h)]
  /\ \E v \in Configs : config' = [config EXCEPT ![h] = v]
  /\ others' = [others EXCEPT ![ClientOf(h)] = @ + 1]
  /\ UNCHANGED <<acceptorVars, handler, conn, sequence, current,
                 outputVars, decoderVars, freeRequests, req, client, sent,
                 replies, delivered, unread>>

\* "feature_info", answered by the handler itself: it locks the stream,
FeatureInfo(h) ==
  /\ handler[h] = "header" /\ ~Writing(h)
  /\ others[ClientOf(h)] < MaxOther[ClientOf(h)]
  /\ others' = [others EXCEPT ![ClientOf(h)] = @ + 1]
  /\ handler' = [handler EXCEPT ![h] = "info"]
  /\ UNCHANGED <<acceptorVars, conn, sequence, config, current, outputVars,
                 decoderVars, freeRequests, req, client, sent, replies, delivered, unread>>

\* and std::endl flushes what it wrote behind what was in the buffer.
FeatureInfoWritten(h) ==
  /\ handler[h] = "info"
  /\ WriteThrough(ClientOf(h))
  /\ handler' = [handler EXCEPT ![h] = "header"]
  /\ UNCHANGED <<acceptorVars, conn, sequence, config, current, outputVars,
                 decoderVars, freeRequests, req, client, others, sent, replies, delivered>>

\* "matched": Aligned() first waits for a free request.
Matched(h) ==
  /\ handler[h] = "header"
  /\ Len(sent[ClientOf(h)]) < MaxMatched[ClientOf(h)]
  /\ handler' = [handler EXCEPT ![h] = "free"]
  /\ UNCHANGED <<acceptorVars, conn, sequence, config, current,
                 outputVars, decoderVars, freeRequests, req, clientVars>>

GetFree(h) ==
  /\ handler[h] = "free" /\ freeRequests # <<>>
  /\ current' = [current EXCEPT ![h] = Head(freeRequests)]
  /\ freeRequests' = Tail(freeRequests)
  /\ handler' = [handler EXCEPT ![h] = "aligned"]
  /\ UNCHANGED <<acceptorVars, conn, sequence, config, outputVars,
                 decoderVars, req, clientVars>>

\* The fields Reset and ReadDispatcher give the request.
Fill(h) == [config |-> config[h], sequence |-> sequence[h], output |-> h,
            text |-> <<ClientOf(h), Len(sent[ClientOf(h)]) + 1>>,
            nbest |-> None]
\* Mutant: sequence_ is not counted up.
CountNothing(h) == UNCHANGED sequence
CountUp(h) == sequence' = [sequence EXCEPT ![h] = @ + 1]

\* The client's data is complete and well formed: Reset, ReadDispatcher,
\* decoder_.Produce, ++sequence_.
Aligned(h) ==
  /\ handler[h] = "aligned"
  /\ Len(decodeQueue) < Cardinality(Requests)
  /\ req' = [req EXCEPT ![current[h]] = Fill(h)]
  /\ decodeQueue' = Append(decodeQueue, current[h])
  /\ CountUp(h)
  /\ current' = [current EXCEPT ![h] = None]
  /\ sent' = [sent EXCEPT ![ClientOf(h)] = Append(@, config[h])]
  /\ handler' = [handler EXCEPT ![h] = "header"]
  /\ UNCHANGED <<acceptorVars, conn, config, outputVars, decoder,
                 decoding, freeRequests, client, others, replies, delivered, unread>>

\* Malformed data, the wrong number of systems or a lost client:
\* SentenceTransition::Failed, and the exception ends the command loop.
AlignedFails(h) ==
  /\ handler[h] = "aligned"
  /\ Free(current[h])
  /\ current' = [current EXCEPT ![h] = None]
  /\ handler' = [handler EXCEPT ![h] = "error"]
  /\ UNCHANGED <<acceptorVars, conn, sequence, config, outputVars,
                 decoderVars, req, clientVars>>

\* A bad header or configuration: the exception ends the command loop.
BadCommand(h) ==
  /\ handler[h] = "header"
  /\ handler' = [handler EXCEPT ![h] = "error"]
  /\ UNCHANGED <<acceptorVars, conn, sequence, config, current,
                 outputVars, decoderVars, freeRequests, req, clientVars>>

\* "bye".
Bye(h) ==
  /\ handler[h] = "header"
  /\ handler' = [handler EXCEPT ![h] = "drain"]
  /\ UNCHANGED <<acceptorVars, conn, sequence, config, current,
                 outputVars, decoderVars, freeRequests, req, clientVars>>

\* The end of the stream: an ordinary end of the loop before the first matched,
\* an exception after it, because ReadFromJava turned on in.exceptions().
EndOfStream(h) ==
  /\ handler[h] = "header"
  /\ handler' = [handler EXCEPT ![h] = IF sequence[h] = 0 THEN "drain" ELSE "error"]
  /\ UNCHANGED <<acceptorVars, conn, sequence, config, current,
                 outputVars, decoderVars, freeRequests, req, clientVars>>

\* Tell the client, under the lock and with a flush.  Replies to earlier
\* sentences may still be on their way.
WriteError(h) ==
  /\ handler[h] = "error" /\ ~Writing(h)
  /\ handler' = [handler EXCEPT ![h] = "tell"]
  /\ UNCHANGED <<acceptorVars, conn, sequence, config, current, outputVars,
                 decoderVars, freeRequests, req, clientVars>>

ErrorWritten(h) ==
  /\ handler[h] = "tell"
  /\ WriteThrough(ClientOf(h))
  /\ handler' = [handler EXCEPT ![h] = "drain"]
  /\ UNCHANGED <<acceptorVars, conn, sequence, config, current, outputVars,
                 decoderVars, freeRequests, req, client, others, sent, replies, delivered>>

\* Mutant: ~Connection waits for all but the last request.
DrainedButOne(h) == counter[h] + 1 >= sequence[h]
\* ~Connection waits for one post of counter_ per request.
Drained(h) == counter[h] >= sequence[h]
\* The Connection object is gone, the stream behind it has written out its
\* buffer, the socket is closed and the ConnectionRequest freed
\* (ConnectionTransition::Closed).  What the client has yet to read waits for
\* nobody any more.
CloseConnection(h) ==
  /\ handler[h] = "drain" /\ Drained(h) /\ Flushed(ClientOf(h))
  /\ client' = [client EXCEPT ![ClientOf(h)] = IF @ = "open" THEN "served" ELSE @]
  /\ socket' = [socket EXCEPT ![conn[h]] = None]
  /\ freeConns' = Append(freeConns, conn[h])
  /\ conn' = [conn EXCEPT ![h] = None]
  /\ sequence' = [sequence EXCEPT ![h] = 0]
  /\ config' = [config EXCEPT ![h] = DefaultConfig]
  /\ counter' = [counter EXCEPT ![h] = @ - sequence[h]]
  /\ unread' = [unread EXCEPT ![ClientOf(h)] = 0]
  /\ handler' = [handler EXCEPT ![h] = "consume"]
  /\ UNCHANGED <<connQueue, current, outQueue, output, base, pending, sending,
                 decoderVars, freeRequests, req, others, sent, replies, delivered>>
-----------------------------------------------------------------------------
(* DecoderHandler *)

NBest(text, v) == [sentence |-> text, config |-> v]

\* Mutant: the decoder uses the configuration its connection has now.
LiveConfig(r) == config[req[r].output]
\* request->GetConfig(), the copy that Reset made.
RequestConfig(r) == req[r].config

\* Take a request and decode it: ProcessAligned, Strategy::Reset, DecoderImpl::Run.
Decode(d) ==
  LET r == Head(decodeQueue) IN
  /\ decoder[d] = "consume" /\ decodeQueue # <<>>
  /\ decodeQueue' = Tail(decodeQueue)
  /\ decoding' = [decoding EXCEPT ![d] = r]
  /\ req' = [req EXCEPT ![r].nbest = NBest(req[r].text, RequestConfig(r))]
  /\ decoder' = [decoder EXCEPT ![d] = "decoded"]
  /\ UNCHANGED <<acceptorVars, handlerVars, outputVars, freeRequests, clientVars>>

\* Any of them throws: the handler prints the exception and aborts the process.
\* What is left of the state is never used again.
DecodeThrows(d) ==
  /\ decoder[d] = "consume" /\ decodeQueue # <<>>
  /\ decoder' = [decoder EXCEPT ![d] = "aborted"]
  /\ UNCHANGED <<acceptorVars, handlerVars, outputVars, decodeQueue, decoding,
                 freeRequests, req, clientVars>>
Running == \A d \in Decoders : decoder[d] # "aborted"

\* SentenceTransition::Decoded: blocks while that connection's queue is full.
Decoded(d) ==
  LET h == req[decoding[d]].output IN
  /\ decoder[d] = "decoded" /\ Len(outQueue[h]) < OutputQueueSize
  /\ outQueue' = [outQueue EXCEPT ![h] = Append(@, decoding[d])]
  /\ decoding' = [decoding EXCEPT ![d] = None]
  /\ decoder' = [decoder EXCEPT ![d] = "consume"]
  /\ UNCHANGED <<acceptorVars, handlerVars, output, base, pending, counter,
                 sending, decodeQueue, freeRequests, req, clientVars>>
-----------------------------------------------------------------------------
(* OutputBackend::operator(), on the one output thread of each handler *)

Ready(queue) == queue # <<>> /\ Head(queue) # None

\* requests_[at] = &request, after requests_.resize(at + 1) where needed.
Place(queue, at, r) ==
  [i \in 1 .. (IF at >= Len(queue) THEN at + 1 ELSE Len(queue)) |->
     IF i = at + 1 THEN r ELSE IF i <= Len(queue) THEN queue[i] ELSE None]

Receive(h) ==
  /\ output[h] = "consume" /\ outQueue[h] # <<>>
  /\ outQueue' = [outQueue EXCEPT ![h] = Tail(@)]
  /\ pending' = [pending EXCEPT ![h] =
       Place(@, req[Head(outQueue[h])].sequence - base[h], Head(outQueue[h]))]
  /\ output' = [output EXCEPT ![h] = "loop"]
  /\ UNCHANGED <<acceptorVars, handlerVars, base, counter, sending, decoderVars,
                 freeRequests, req, clientVars>>

\* The loop's condition fails: back to the queue.
LoopEnds(h) ==
  /\ output[h] = "loop" /\ ~Ready(pending[h])
  /\ output' = [output EXCEPT ![h] = "consume"]
  /\ UNCHANGED <<acceptorVars, handlerVars, outQueue, base, pending, counter,
                 sending, decoderVars, freeRequests, req, clientVars>>

\* Pop the front, ++base_, lock the stream and write the n-best list to it.
WriteNBest(h) ==
  /\ output[h] = "loop" /\ Ready(pending[h]) /\ ~Writing(h)
  /\ sending' = [sending EXCEPT ![h] = Head(pending[h])]
  /\ pending' = [pending EXCEPT ![h] = Tail(@)]
  /\ base' = [base EXCEPT ![h] = @ + 1]
  /\ replies' = IF client[ClientOf(h)] = "gone" THEN replies
                ELSE [replies EXCEPT ![ClientOf(h)] = Append(@, req[Head(pending[h])].nbest)]
  /\ output' = [output EXCEPT ![h] = "write"]
  /\ UNCHANGED <<acceptorVars, handlerVars, outQueue, counter, decoderVars,
                 freeRequests, req, client, others, sent, delivered, unread>>

\* The stream's buffer gives its oldest reply to the socket and waits there
\* while the client does not read: when a write overflows the buffer (after any
\* number of replies, as long as they may be), in a flush, and when the stream
\* is destroyed, behind the Connection.
Push(h) ==
  /\ Writing(h) \/ (handler[h] = "drain" /\ Drained(h))
  /\ ~Flushed(ClientOf(h)) /\ CanWrite(ClientOf(h))
  /\ delivered' = [delivered EXCEPT ![ClientOf(h)] = @ + 1]
  /\ Write(ClientOf(h))
  /\ UNCHANGED <<acceptorVars, handlerVars, outputVars, decoderVars, freeRequests,
                 req, client, others, sent, replies>>

\* Mutant: the n-best list is never flushed.
FlushNever(r) == FALSE
\* output::NBest ends with a flush if the sentence's configuration says so.
MustFlush(r) == req[r].config \in Flushing
NBestWritten(h) ==
  /\ output[h] = "write"
  /\ MustFlush(sending[h]) => Flushed(ClientOf(h))
  /\ output' = [output EXCEPT ![h] = "free"]
  /\ UNCHANGED <<acceptorVars, handlerVars, outQueue, base, pending, counter,
                 sending, decoderVars, freeRequests, req, clientVars>>

\* Mutant: counter_ is never posted.
PostNever(h) == UNCHANGED counter
Post(h) == counter' = [counter EXCEPT ![h] = @ + 1]

\* transition_->Output (or Failed, when the write threw), then counter_.post().
\* The fields of a free request are dead: Aligned assigns each before its use.
FreeSent(h) ==
  /\ output[h] = "free"
  /\ Free(sending[h])
  /\ req' = [req EXCEPT ![sending[h]] = NoRequest]
  /\ sending' = [sending EXCEPT ![h] = None]
  /\ Post(h)
  /\ output' = [output EXCEPT ![h] = "loop"]
  /\ UNCHANGED <<acceptorVars, handlerVars, outQueue, base, pending, decoderVars,
                 clientVars>>
-----------------------------------------------------------------------------
(* The clients *)

Read(c) ==
  /\ client[c] = "open" /\ unread[c] > 0
  /\ unread' = [unread EXCEPT ![c] = @ - 1]
  /\ UNCHANGED <<acceptorVars, handlerVars, outputVars, decoderVars,
                 freeRequests, req, client, others, sent, replies, delivered>>

Disconnect(c) ==
  /\ client[c] = "open" /\ c \in Fickle
  /\ client' = [client EXCEPT ![c] = "gone"]
  /\ unread' = [unread EXCEPT ![c] = 0]
  /\ UNCHANGED <<acceptorVars, handlerVars, outputVars, decoderVars,
                 freeRequests, req, others, sent, replies, delivered>>
-----------------------------------------------------------------------------
Command(h) == \/ Config(h) \/ FeatureInfo(h) \/ Matched(h) \/ BadCommand(h)
              \/ Bye(h) \/ EndOfStream(h)
Handle(h)  == \/ OpenConnection(h) \/ Command(h) \/ FeatureInfoWritten(h)
              \/ GetFree(h) \/ Aligned(h) \/ AlignedFails(h)
              \/ WriteError(h) \/ ErrorWritten(h) \/ CloseConnection(h)
DecoderStep(d) == Decode(d) \/ DecodeThrows(d) \/ Decoded(d)
OutputStep(h)  == \/ Receive(h) \/ LoopEnds(h) \/ WriteNBest(h)
                  \/ NBestWritten(h) \/ FreeSent(h)

Next ==
  /\ Running
  /\ \/ AcceptFails
     \/ \E c \in Clients : Accept(c) \/ Read(c) \/ Disconnect(c)
     \/ \E h \in Handlers : Handle(h) \/ OutputStep(h) \/ Push(h)
     \/ \E d \in Decoders : DecoderStep(d)

Spec == Init /\ [][Next]_vars

(* While the process runs, every thread of it does, clients read what they*)
(* are sent, and a client that announced a sentence sends it or is lost.   *)
(* No client has to send another command, and no buffer has to overflow.   *)
Fairness ==
  /\ \A c \in Clients : WF_vars(Running /\ Read(c))
  /\ \A h \in Handlers :
       /\ WF_vars(Running /\ \/ OpenConnection(h) \/ FeatureInfoWritten(h)
                             \/ GetFree(h) \/ Aligned(h) \/ AlignedFails(h)
                             \/ WriteError(h) \/ ErrorWritten(h) \/ CloseConnection(h))
       /\ WF_vars(Running /\ OutputStep(h))
       /\ WF_vars(Running /\ Push(h))
  /\ \A d \in Decoders : WF_vars(Running /\ DecoderStep(d))

FairSpec == Spec /\ Fairness
-----------------------------------------------------------------------------
Indices(q, x) == {i \in DOMAIN q : q[i] = x}

TypeOK ==
  /\ freeConns \in Seq(ConnRequests) /\ connQueue \in Seq(ConnRequests)
  /\ socket \in [ConnRequests -> Clients \cup {None}]
  /\ handler \in [Handlers -> {"consume", "header", "info", "free", "aligned", "error",
                          "tell", "drain"}]
  /\ conn \in [Handlers -> ConnRequests \cup {None}]
  /\ sequence \in [Handlers -> 0 .. Longest]
  /\ config \in [Handlers -> Configs]
  /\ current \in [Handlers -> Requests \cup {None}]
  /\ outQueue \in [Handlers -> Seq(Requests)]
  /\ output \in [Handlers -> {"consume", "loop", "write", "free"}]
  /\ base \in [Handlers -> 0 .. Longest]
  /\ pending \in [Handlers -> Seq(Requests \cup {None})]
  /\ counter \in [Handlers -> 0 .. Longest]
  /\ sending \in [Handlers -> Requests \cup {None}]
  /\ freeRequests \in Seq(Requests) /\ decodeQueue \in Seq(Requests)
  /\ decoder \in [Decoders -> {"consume", "decoded", "aborted"}]
  /\ decoding \in [Decoders -> Requests \cup {None}]
  /\ client \in [Clients -> {"new", "open", "gone", "served"}]
  /\ \A c \in Clients : others[c] \in 0 .. MaxOther[c]
  /\ sent \in [Clients -> Seq(Configs)]
  /\ \A c \in Clients : delivered[c] \in 0 .. Len(replies[c])
  /\ unread \in [Clients -> 0 .. SocketSize]

(* Each SentenceRequest is in exactly one place: free, held by a handler,  *)
(* waiting for or in a decoder, or with one connection's output.  None is  *)
(* lost when reading fails and none is freed twice (Sentence.hh:105 frees  *)
(* on failure without telling the output queue), for either starves or     *)
(* corrupts every connection that shares the pool.                         *)
Places(r) ==
  UNION {
    {"free"} \X Indices(freeRequests, r),
    {"aligned"} \X Indices(current, r),
    {"decode"} \X Indices(decodeQueue, r),
    {"decoder"} \X Indices(decoding, r),
    {"sending"} \X Indices(sending, r),
    UNION {{<<"out", h>>} \X Indices(outQueue[h], r) : h \in Handlers},
    UNION {{<<"pending", h>>} \X Indices(pending[h], r) : h \in Handlers}}
RequestsConserved == \A r \in Requests : Cardinality(Places(r)) = 1

(* The n-best lists a client gets are those of its own sentences, in the   *)
(* order it sent them, each decoded under the configuration in force when  *)
(* that sentence was sent: decoders finish in any order, requests are      *)
(* reused, and config may change while sentences are in flight.            *)
RepliesInOrder ==
  \A c \in Clients :
    /\ Len(replies[c]) <= Len(sent[c])
    /\ \A i \in 1 .. Len(replies[c]) : replies[c][i] = NBest(<<c, i>>, sent[c][i])

(* When the server closes a connection on a client that is still there, it *)
(* has answered each sentence, also after an error ended the commands, and *)
(* no answer has stayed in the buffer of its stream.                       *)
AnsweredBeforeClose ==
  \A c \in Clients : client[c] = "served" => delivered[c] = Len(sent[c])

(* "should assert(counter_ == 0) but I can't do that with a semaphore"     *)
(* (OutputHandler.hh:26): a handler between connections has left nothing  *)
(* behind that its next connection could receive or count as its own.      *)
BackendClean ==
  \A h \in Handlers : handler[h] = "consume" =>
    /\ counter[h] = 0 /\ pending[h] = <<>> /\ outQueue[h] = <<>>
    /\ sending[h] = None /\ output[h] \in {"consume", "loop"}
    /\ \A r \in Requests :
         req[r].output = h => Indices(decodeQueue, r) = {} /\ Indices(decoding, r) = {}

(* "This should be threadsafe" (ConnectionHandler.hh:57, of Reset): Reset  *)
(* never touches requests_ and base_ while the output thread is inside     *)
(* operator().                                                             *)
ResetIsThreadsafe == [][\A h \in Handlers : OpenConnection(h) => output[h] = "consume"]_vars

(* Each sentence is answered while its client is there, whatever the other *)
(* connections that share decoders and requests do.  Only an answer under a*)
(* configuration without flush_nbest may stay in the buffer of the stream  *)
(* (NBest.cc:54), where it waits for what is written next or for the close.*)
EverySentenceAnswered ==
  \A c \in Clients : \A i \in 1 .. MaxMatched[c] :
    Len(sent[c]) >= i ~>
      \/ delivered[c] >= i \/ client[c] = "gone" \/ ~Running
      \/ Len(replies[c]) >= i /\ sent[c][i] \notin Flushing

(* A handler that stops reading commands gets back to its queue, so the    *)
(* acceptor always gets its ConnectionRequest back.                        *)
HandlerReturns ==
  \A h \in Handlers :
    handler[h] \in {"error", "tell", "drain"} ~> handler[h] = "consume" \/ ~Running
=============================================================================
