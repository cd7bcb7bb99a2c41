------------------------------- MODULE Chain -------------------------------
(***************************************************************************)
(* A chain of workers (util/stream): block_count blocks of memory circulate*)
(* through one bounded queue per worker, the last worker giving them back  *)
(* to the first, until a block without memory, the poison, has gone all    *)
(* round and Chain::Wait takes it out of the front queue.                  *)
(*                                                                         *)
(* The queues are the bounded FIFOs that PCQueue implements.  A round is   *)
(* one use of the chain, from Start to Wait; the source reads a file or    *)
(* writes records through a Stream, the others drop the records that are   *)
(* not in Keep, copy the blocks to a file, or hand them to a Stream of the *)
(* main thread.                                                            *)
(***************************************************************************)
EXTENDS Integers, FiniteSets, Sequences

CONSTANTS BlockCount,  \* config.block_count
          BlockSize,   \* records in a block
          Records,
          Keep,        \* the records a Filter leaves in its block
          Inputs,      \* bound: the records a source may have to deliver
          Rounds,      \* bound: how often the chain is used
          Layouts,     \* the sequences of workers the main thread may add
          MaxWorkers,  \* bound: workers in a layout
          StreamOutlivesChain  \* is the main thread's Stream destroyed after Wait?

Sources == {"Read", "PRead", "Stream"}
Kinds == Sources \cup {"Filter", "Write", "WriteAndRecycle", "PWriteAndRecycle",
                       "MainStream", "Recycler"}
\* Workers that deliver the records, one in each chain.
Outputs == {"Write", "WriteAndRecycle", "PWriteAndRecycle", "MainStream"}
\* Workers whose positions close the loop (Complete).
Closing == {"WriteAndRecycle", "PWriteAndRecycle", "Recycler"}

ASSUME ChainAssumption ==
  /\ BlockCount \in Nat \ {0} /\ BlockSize \in Nat \ {0}
  /\ Keep \subseteq Records
  /\ Inputs \subseteq Seq(Records) /\ <<>> \in Inputs /\ Rounds \in Nat
  /\ MaxWorkers \in Nat
  /\ StreamOutlivesChain \in BOOLEAN
  /\ \A l \in Layouts :
       /\ l \in Seq(Kinds) /\ Len(l) \in 2 .. MaxWorkers
       /\ l[1] \in Sources /\ l[Len(l)] \in Closing
       /\ \A w \in 2 .. Len(l) - 1 : l[w] \in {"Filter", "Write", "MainStream"}
       /\ Cardinality({w \in 1 .. Len(l) : l[w] \in Outputs}) = 1

\* The address NULL and the blocks' memory.
NULL == 0
Memory == 1 .. BlockCount
Block == [mem : Memory \cup {NULL}, size : 0 .. BlockSize]

VARIABLES
  layout,    \* the workers of this round
  input,     \* what the source has to deliver in this round
  torn,      \* the source file ends within a record
  taken,     \* records the source has put into blocks
  memory,    \* what the memory of each block holds
  queue,     \* queues_: worker w takes from queue w - 1
  pc,        \* where the Link of each worker is
  current,   \* current_ of each Link
  poisoned,  \* the workers whose Link sent the poison on
  file,      \* the output file, or what the main thread's Stream delivered
  offset,    \* where the next write goes
  main,      \* where the main thread is
  drained,   \* i in Wait
  round

chainVars == <<layout, input, torn>>
linkVars == <<pc, current, poisoned>>
dataVars == <<taken, memory, file, offset>>
mainVars == <<main, drained, round>>
vars == <<chainVars, linkVars, dataVars, mainVars, queue>>

Last == Len(layout)
Workers == 1 .. Last
In(w) == w - 1
Out(w) == IF w = Last THEN 0 ELSE w
Added == {w \in Workers : pc[w] # "none"}

\* The records of the block that worker w holds.
Held(w) == SubSeq(memory[current[w].mem], 1, current[w].size)
KeepOnly(s) ==
  LET kept[n \in 0 .. Len(s)] ==
        IF n = 0 THEN <<>>
        ELSE IF s[n] \in Keep THEN Append(kept[n - 1], s[n]) ELSE kept[n - 1]
  IN  kept[Len(s)]
\* What of the input comes to the worker that delivers it.
KeptInput ==
  IF \E v, w \in Workers : v < w /\ layout[v] = "Filter" /\ layout[w] \in Outputs
    THEN KeepOnly(input) ELSE input
\* s with t written over it from position n + 1 on.
Overwritten(s, n, t) ==
  [i \in 1 .. (IF n + Len(t) > Len(s) THEN n + Len(t) ELSE Len(s)) |->
     IF i \in n + 1 .. n + Len(t) THEN t[i - n] ELSE s[i]]
Smaller(m, n) == IF m < n THEN m ELSE n

Init ==
  /\ layout = <<>> /\ input = <<>> /\ torn = FALSE /\ taken = 0
  /\ memory = [m \in Memory |-> <<>>]
  /\ queue = <<>> /\ pc = <<>> /\ current = <<>> /\ poisoned = {}
  /\ file = <<>> /\ offset = 0
  /\ main = "idle" /\ drained = 0 /\ round = 0
-----------------------------------------------------------------------------
(* Link.  Produce waits for room in the queue, Consume for a block.        *)

Poison == [mem |-> NULL, size |-> 0]

Produce(w, block) ==
  /\ Len(queue[Out(w)]) < BlockCount
  /\ queue' = [queue EXCEPT ![Out(w)] = Append(@, block)]

Consume(w) ==
  /\ queue[In(w)] # <<>>
  /\ current' = [current EXCEPT ![w] = Head(queue[In(w)])]
  /\ queue' = [queue EXCEPT ![In(w)] = Tail(@)]

\* The worker moves on to "next", its data and all else unchanged.
Goto(w, next) == pc' = [pc EXCEPT ![w] = next]

\* Stream::Init has returned: StartBlock, which passes empty blocks on, has come
\* to a block with records or to the poison.
Started(w) == \/ pc[w] = "body" /\ (current[w].mem = NULL \/ current[w].size > 0)
              \/ pc[w] \in {"final", "done"}
\* The main thread runs the Stream it added: Init within operator>>, the loop
\* once it has added all workers.
MayRun(w) == layout[w] = "MainStream" => (~Started(w) \/ Added = Workers)
At(w, place) == pc[w] = place /\ MayRun(w) /\ main # "aborted"

\* Link::Init.  PRead looks at the size of its file first.
LinkInit(w) ==
  /\ At(w, "init") /\ ~(layout[w] = "PRead" /\ torn)
  /\ Consume(w)
  /\ Goto(w, "body")
  /\ UNCHANGED <<chainVars, poisoned, dataVars, mainVars>>

\* operator++, after Produce(current_).
LinkNext(w) ==
  /\ At(w, "next")
  /\ Consume(w)
  /\ Goto(w, IF current'[w].mem = NULL THEN "repoison" ELSE "body")
  /\ UNCHANGED <<chainVars, poisoned, dataVars, mainVars>>

\* operator++, the poison it received is sent on.
LinkRepoison(w) ==
  /\ At(w, "repoison")
  /\ Produce(w, current[w])
  /\ poisoned' = poisoned \cup {w}
  /\ Goto(w, "final")
  /\ UNCHANGED <<chainVars, current, dataVars, mainVars>>

\* operator++ before Link::Poison at the end of PRead and of Stream::Poison:
\* nobody looks whether the block that comes is poison.
LinkLast(w) ==
  /\ At(w, "last")
  /\ Consume(w)
  /\ Goto(w, "poison")
  /\ UNCHANGED <<chainVars, poisoned, dataVars, mainVars>>

\* Link::Poison: SetToPoison leaves the valid size alone.
LinkPoison(w) ==
  /\ At(w, "poison")
  /\ current' = [current EXCEPT ![w] = [mem |-> NULL, size |-> @.size]]
  /\ Produce(w, current'[w])
  /\ poisoned' = poisoned \cup {w}
  /\ Goto(w, "final")
  /\ UNCHANGED <<chainVars, dataVars, mainVars>>

\* The loop over the blocks has ended, or the first block was poison.
LoopOver(w) == At(w, "final") \/ (At(w, "body") /\ current[w].mem = NULL)

\* Mutant: PWriteAndRecycle does not trim the file.
LinkEndUntrimmed(w) ==
  /\ LoopOver(w)
  /\ IF current[w].mem = NULL /\ w \notin poisoned
       THEN Produce(w, current[w]) ELSE UNCHANGED queue
  /\ Goto(w, "done")
  /\ UNCHANGED <<chainVars, current, poisoned, dataVars, mainVars>>
\* ~Link, and what Run does after its loop: ResizeOrThrow.
LinkEnd(w) ==
  /\ LoopOver(w)
  /\ layout[w] = "MainStream" => ~StreamOutlivesChain
  /\ IF current[w].mem = NULL /\ w \notin poisoned
       THEN Produce(w, current[w]) ELSE UNCHANGED queue
  /\ file' = IF layout[w] = "PWriteAndRecycle" THEN SubSeq(file, 1, offset) ELSE file
  /\ Goto(w, "done")
  /\ UNCHANGED <<chainVars, current, poisoned, taken, memory, offset, mainVars>>
-----------------------------------------------------------------------------
(* The bodies of the workers' loops, up to the Produce of operator++.      *)

\* Worker w has a block to work on.
Working(w) == At(w, "body") /\ current[w].mem # NULL

\* Worker w passes its block on with n valid records.
PassOn(w, n) ==
  /\ current' = [current EXCEPT ![w] = [mem |-> @.mem, size |-> n]]
  /\ Produce(w, current'[w])

\* The records that the source has left, and the next n of them.
Left == Len(input) - taken
Taking(w, n) ==
  /\ memory' = [memory EXCEPT ![current[w].mem] =
                  Overwritten(@, 0, SubSeq(input, taken + 1, taken + n))]
  /\ taken' = taken + n

\* Read and PRead: a block from the file.
ReadBlock(w) ==
  /\ layout[w] \in {"Read", "PRead"} /\ Working(w)
  /\ Left > 0 /\ ~(torn /\ Left < BlockSize)
  /\ Taking(w, Smaller(Left, BlockSize))
  /\ PassOn(w, Smaller(Left, BlockSize))
  /\ Goto(w, IF layout[w] = "PRead" /\ Left <= BlockSize THEN "last" ELSE "next")
  /\ UNCHANGED <<chainVars, poisoned, file, offset, mainVars>>

\* Read finds the end of the file, PRead an empty one.
ReadEnd(w) ==
  /\ layout[w] \in {"Read", "PRead"} /\ Working(w)
  /\ Left = 0 /\ ~torn
  /\ Goto(w, "poison")
  /\ UNCHANGED <<chainVars, current, poisoned, dataVars, mainVars, queue>>

\* ReadSizeException leaves Run; UnhandledException aborts the program.
ReadTorn(w) ==
  /\ torn
  /\ \/ layout[w] = "PRead" /\ At(w, "init")
     \/ layout[w] = "Read" /\ Working(w) /\ Left < BlockSize
  /\ main' = "aborted"
  /\ UNCHANGED <<chainVars, linkVars, dataVars, drained, round, queue>>

\* A source that writes records through a Stream.  A block that is full goes
\* on when the record after it is asked for, with the size it came with.
StreamBlock(w) ==
  /\ layout[w] = "Stream" /\ Working(w)
  /\ Left >= current[w].size
  /\ Taking(w, current[w].size)
  /\ PassOn(w, current[w].size)
  /\ Goto(w, "next")
  /\ UNCHANGED <<chainVars, poisoned, file, offset, mainVars>>

\* Mutant: Stream::Poison poisons the block it has just passed on.
StreamEndNoNext(w) ==
  /\ layout[w] = "Stream" /\ Working(w)
  /\ Left < current[w].size
  /\ Taking(w, Left)
  /\ PassOn(w, Left)
  /\ Goto(w, "poison")
  /\ UNCHANGED <<chainVars, poisoned, file, offset, mainVars>>
\* The last records, then Stream::Poison sends the block on, empty or not.
StreamEnd(w) ==
  /\ layout[w] = "Stream" /\ Working(w)
  /\ Left < current[w].size
  /\ Taking(w, Left)
  /\ PassOn(w, Left)
  /\ Goto(w, "last")
  /\ UNCHANGED <<chainVars, poisoned, file, offset, mainVars>>

\* A worker that removes records from its block in place (PruneNGramStream).
Filter(w) ==
  /\ layout[w] = "Filter" /\ Working(w)
  /\ memory' = [memory EXCEPT ![current[w].mem] = Overwritten(@, 0, KeepOnly(Held(w)))]
  /\ PassOn(w, Len(KeepOnly(Held(w))))
  /\ Goto(w, "next")
  /\ UNCHANGED <<chainVars, poisoned, taken, file, offset, mainVars>>

\* Mutant: the block goes back with the size it came with.
OutputKeepsSize(w) ==
  /\ layout[w] \in Outputs /\ Working(w)
  /\ file' = Overwritten(file, offset, Held(w))
  /\ offset' = offset + current[w].size
  /\ PassOn(w, current[w].size)
  /\ Goto(w, "next")
  /\ UNCHANGED <<chainVars, poisoned, taken, memory, mainVars>>
\* Write, WriteAndRecycle, PWriteAndRecycle, and the loop over a Stream, which
\* skips empty blocks.
Output(w) ==
  /\ layout[w] \in Outputs /\ Working(w)
  /\ file' = Overwritten(file, offset, Held(w))
  /\ offset' = offset + current[w].size
  /\ PassOn(w, IF layout[w] \in Closing THEN BlockSize ELSE current[w].size)
  /\ Goto(w, "next")
  /\ UNCHANGED <<chainVars, poisoned, taken, memory, mainVars>>

Recycle(w) ==
  /\ layout[w] = "Recycler" /\ Working(w)
  /\ PassOn(w, BlockSize)
  /\ Goto(w, "next")
  /\ UNCHANGED <<chainVars, poisoned, dataVars, mainVars>>

Worker(w) ==
  \/ LinkInit(w) \/ LinkNext(w) \/ LinkRepoison(w) \/ LinkLast(w)
  \/ LinkPoison(w) \/ LinkEnd(w)
  \/ ReadBlock(w) \/ ReadEnd(w) \/ ReadTorn(w) \/ StreamBlock(w) \/ StreamEnd(w)
  \/ Filter(w) \/ Output(w) \/ Recycle(w)
-----------------------------------------------------------------------------
(* The main thread.                                                        *)

\* Mutant: base is not advanced.
PopulatedSame == [m \in Memory |-> [mem |-> 1, size |-> BlockSize]]
\* The lead queue is populated with all blocks.
Populated == [m \in Memory |-> [mem |-> m, size |-> BlockSize]]

\* Start: the lead queue is given all blocks.  A PWriteAndRecycle writes over
\* the file of the last round, everything else to an empty file.
Start(l, i, t) ==
  /\ main = "idle" /\ round < Rounds
  /\ t => l[1] # "Stream"
  /\ layout' = l /\ input' = i /\ torn' = t /\ taken' = 0
  /\ queue' = [q \in 0 .. Len(l) - 1 |->
                 IF q = 0 THEN Populated ELSE <<>>]
  /\ pc' = [w \in 1 .. Len(l) |-> "none"]
  /\ current' = [w \in 1 .. Len(l) |-> Poison]
  /\ poisoned' = {}
  /\ file' = IF l[Len(l)] = "PWriteAndRecycle" THEN file ELSE <<>>
  /\ offset' = 0
  /\ main' = "adding"
  /\ UNCHANGED <<memory, drained, round>>

\* Add or Complete, and the Thread.  operator>>(Chain &, Stream &) returns when
\* its Init does: until then the main thread adds no other worker.
AddWorker(w) ==
  /\ main = "adding" /\ pc[w] = "none"
  /\ \A v \in 1 .. w - 1 : pc[v] # "none" /\ (layout[v] = "MainStream" => Started(v))
  /\ Goto(w, "init")
  /\ UNCHANGED <<chainVars, current, poisoned, dataVars, mainVars, queue>>

\* The worker has no more steps before Wait returns.
Over(w) ==
  IF layout[w] = "MainStream" /\ StreamOutlivesChain THEN LoopOver(w) ELSE pc[w] = "done"

\* Wait, once the main thread is through with its Stream, joins the threads.
Wait ==
  /\ main = "adding" /\ Added = Workers
  /\ \A w \in Workers : Over(w)
  /\ main' = "draining" /\ drained' = 0
  /\ UNCHANGED <<chainVars, linkVars, dataVars, round, queue>>

\* Wait takes the blocks out of the front queue.
Drain ==
  /\ main = "draining" /\ queue[0] # <<>>
  /\ Head(queue[0]).mem # NULL
  /\ queue' = [queue EXCEPT ![0] = Tail(@)]
  /\ main' = IF drained = BlockCount THEN "aborted" ELSE main
  /\ drained' = drained + 1
  /\ UNCHANGED <<chainVars, linkVars, dataVars, round>>

\* The poison has come round: the chain can be used again.
WaitReturns ==
  /\ main = "draining" /\ queue[0] # <<>>
  /\ Head(queue[0]).mem = NULL
  /\ main' = "idle" /\ round' = round + 1 /\ drained' = 0
  /\ layout' = <<>> /\ input' = <<>> /\ torn' = FALSE /\ taken' = 0
  /\ queue' = <<>> /\ pc' = <<>> /\ current' = <<>> /\ poisoned' = {}
  /\ UNCHANGED <<memory, file, offset>>

Finished == main = "aborted" \/ (main = "idle" /\ round = Rounds)
Done == Finished /\ UNCHANGED vars

Next ==
  \/ \E l \in Layouts, i \in Inputs, t \in BOOLEAN : Start(l, i, t)
  \/ \E w \in Workers : AddWorker(w) \/ Worker(w)
  \/ Wait \/ Drain \/ WaitReturns \/ Done

Spec == Init /\ [][Next]_vars

\* Each worker has a thread of its own, the main thread runs MainStream, and
\* PCQueue lets a Produce with room and a Consume with a block through.
FairSpec ==
  /\ Spec
  /\ \A w \in 1 .. MaxWorkers : WF_vars(w \in Workers /\ Worker(w))
  /\ WF_vars(\E w \in Workers : AddWorker(w))
  /\ WF_vars(Wait) /\ WF_vars(Drain) /\ WF_vars(WaitReturns)
-----------------------------------------------------------------------------
TypeOK ==
  /\ layout \in Layouts \cup {<<>>} /\ input \in Inputs /\ torn \in BOOLEAN
  /\ taken \in 0 .. Len(input)
  /\ \A m \in Memory : memory[m] \in Seq(Records) /\ Len(memory[m]) <= BlockSize
  /\ \A q \in DOMAIN queue : queue[q] \in Seq(Block) /\ Len(queue[q]) <= BlockCount
  /\ pc \in [Workers -> {"none", "init", "body", "next", "last", "poison",
                         "repoison", "final", "done"}]
  /\ current \in [Workers -> Block] /\ poisoned \subseteq Workers
  /\ file \in Seq(Records) /\ offset \in 0 .. Len(file)
  /\ main \in {"idle", "adding", "draining", "aborted"}
  /\ drained \in 0 .. BlockCount + 1 /\ round \in 0 .. Rounds

\* The worker has a block or a poison that it has not passed on.
Holds(w) == pc[w] \in {"body", "poison", "repoison"}

\* No memory is in the hands of two workers, or of a worker and a queue, at
\* once, nor twice in the queues: workers write into their blocks without a
\* lock.
BlockOwnedOnce ==
  /\ \A v, w \in Workers :
       Holds(v) /\ Holds(w) /\ current[v].mem = current[w].mem /\ current[v].mem # NULL => v = w
  /\ \A w \in Workers, q \in DOMAIN queue : \A k \in 1 .. Len(queue[q]) :
       Holds(w) /\ current[w].mem # NULL => queue[q][k].mem # current[w].mem
  /\ \A p, q \in DOMAIN queue : \A j \in 1 .. Len(queue[p]), k \in 1 .. Len(queue[q]) :
       queue[p][j].mem = queue[q][k].mem /\ queue[p][j].mem # NULL => p = q /\ j = k

\* "This queue can accomodate all blocks" (chain.cc:94): no worker ever waits
\* in Produce, so only waiting for input can stop the chain.  For that a round
\* has one poison: never two in the queues, none while the source has records
\* left, and Wait finds it behind all blocks ("Chain ending without poison" is
\* never reached; only a torn source file aborts the program).
OnlyInputIsAwaited ==
  /\ \A w \in Workers : Holds(w) => Len(queue[Out(w)]) < BlockCount
  /\ \A p, q \in DOMAIN queue : \A j \in 1 .. Len(queue[p]), k \in 1 .. Len(queue[q]) :
       queue[p][j].mem = NULL /\ queue[q][k].mem = NULL
         => <<p, j>> = <<q, k>> /\ taken = Len(input)
  /\ main = "aborted" => torn

\* What the caller of a chain relies on: the records of the source that the
\* workers keep come out in order, each once, and when Wait returns they are
\* all there and nothing else is.
Copy == INSTANCE RecordCopy WITH
  Inputs <- {KeepOnly(i) : i \in Inputs} \cup Inputs,
  given <- KeptInput,
  out <- IF main = "idle" THEN file ELSE SubSeq(file, 1, offset),
  running <- main # "idle"
ImplementsCopy == Copy!Spec

\* The first BlockCount blocks of the source come to the main thread's Stream
\* without a record.  Stream::Init passes them all on, to a queue whose worker
\* is not added yet, and waits for one more, which nobody gives back: the round
\* hangs in operator>>.
AllSkipped(w) ==
  LET first == SubSeq(input, 1, Smaller(Len(input), BlockCount * BlockSize))
  IN  /\ layout[w] = "MainStream"
      /\ \/ Len(input) > (BlockCount - 1) * BlockSize
         \/ layout[1] = "Stream" /\ Len(input) = (BlockCount - 1) * BlockSize
      /\ (IF \E v \in 1 .. w - 1 : layout[v] = "Filter" THEN KeepOnly(first) ELSE first) = <<>>

\* Every round but those comes to an end: Wait returns, whatever the source
\* delivers and however the threads are scheduled.
WaitComesBack ==
  main = "adding" /\ ~(\E w \in Workers : AllSkipped(w)) ~> main \in {"idle", "aborted"}
=============================================================================
