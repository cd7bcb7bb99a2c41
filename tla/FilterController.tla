-------------------------- MODULE FilterController --------------------------
(***************************************************************************)
(* The multithreaded n-gram filter of lm/filter: Controller, FilterWorker  *)
(* and OutputWorker (thread.hh), driven by ReadARPA or ReadCount through   *)
(* the dispatchers of format.hh, writing to one ARPAOutput (single and     *)
(* union mode, BinaryOutputBuffer) or to one for each sentence (multiple   *)
(* mode, MultipleOutputBuffer).                                            *)
(*                                                                         *)
(* QueueSize batches circulate: the reader fills one and sends it to the   *)
(* filter threads, they send it to the one output thread, which puts the   *)
(* batches back in order, writes them and returns them to the reader.      *)
(* The queues are the bounded FIFOs that PCQueue implements, and destroying*)
(* a pool handles all of its queue first (DestroyedMeansHandled of         *)
(* ThreadPool).  An input line is its number.                              *)
(***************************************************************************)
EXTENDS Naturals, FiniteSets, Sequences, SequencesExt

CONSTANTS Threads,    \* config.threads
          BatchSize,  \* config.batch_size
          Files,      \* what is filtered: [format, number, outputs, to, length],
                      \* number[k] lines in section k (raw files have one), and
                      \* for line n the outputs it passes to and its length
          All,        \* AddNGram: the line passes to every output
          NoBatch

\* Lines up to the end of section k of file f.
Through(f, k) ==
  LET through[i \in 0 .. Len(f.number)] == IF i = 0 THEN 0 ELSE through[i - 1] + f.number[i]
  IN through[k]
Total(f) == Through(f, Len(f.number))

\* One thread does not use the Controller (filter_main.cc:87).
ASSUME FilterAssumption ==
  /\ Threads \in Nat /\ Threads >= 2
  /\ BatchSize \in Nat \ {0}
  /\ NoBatch \notin 1 .. 2 * Threads
  /\ \A f \in Files : /\ f.format \in {"arpa", "raw"}
                      /\ f.number \in Seq(Nat) /\ f.number # <<>>
                      /\ f.format = "raw" => Len(f.number) = 1
                      /\ f.outputs \in Nat \ {0}
                      /\ f.to \in Seq({All} \cup SUBSET (1 .. f.outputs))
                      /\ f.length \in Seq(Nat)
                      /\ Len(f.to) = Total(f) /\ Len(f.length) = Total(f)

QueueSize == 2 * Threads
Batches == 1 .. QueueSize
FilterThreads == 1 .. Threads

VARIABLES
  file,           \* the file being read
  reader,         \* where the reading thread is
  section, line,  \* n-gram length being read, lines read so far in all
  left,           \* lines left in this section
  local_read,     \* stack of free batches, the top first
  input,          \* the batch that input_ points into
  sequence,       \* sequence_
  batch,          \* the batches: [sequence, input, output]
  filter_in,      \* queue of the filter pool
  filtering,      \* batch in the hands of each filter thread
  filtered,       \* filter threads whose CallFilter returned
  output_in,      \* queue of the output pool
  writing,        \* the output thread is inside its while loop
  ordering,       \* deque of the output thread; NoBatch is NULL
  base_sequence,
  to_read,        \* queue of batches given back to the reader
  written,        \* n-grams in each output file
  fast_counter, counts   \* of each ARPAOutput

readerVars == <<file, reader, section, line, left, local_read, input, sequence>>
queueVars  == <<filter_in, output_in, to_read>>
filterVars == <<filtering, filtered>>
outputVars == <<writing, ordering, base_sequence>>
fileVars   == <<written, fast_counter, counts>>
vars == <<readerVars, batch, queueVars, filterVars, outputVars, fileVars>>

Outputs == 1 .. file.outputs
\* An output buffer: [line, systems] in order, no systems for AddNGram; and the
\* line SingleAddNGram annotated last, [address, length].
EmptyBuffer == [annotated |-> <<>>, last |-> [address |-> 0, length |-> 0]]

\* Batch b emptied and numbered, as Fill leaves it.
Filled(b) == [batch EXCEPT ![b].sequence = sequence, ![b].input = <<>>]

Init ==
  /\ file \in Files
  /\ reader = IF file.format = "arpa" THEN "begin" ELSE "read"
  /\ section = 1 /\ line = 0 /\ left = file.number[1]
  /\ local_read = [i \in Batches |-> QueueSize + 1 - i]
  /\ input = QueueSize /\ sequence = 1
  /\ batch = [b \in Batches |-> [sequence |-> 0, input |-> <<>>, output |-> EmptyBuffer]]
  /\ filter_in = <<>> /\ output_in = <<>> /\ to_read = <<>>
  /\ filtering = [w \in FilterThreads |-> NoBatch] /\ filtered = {}
  /\ writing = FALSE /\ ordering = <<>> /\ base_sequence = 0
  /\ written = [o \in Outputs |-> <<>>]
  /\ fast_counter = [o \in Outputs |-> 0] /\ counts = [o \in Outputs |-> <<>>]
-----------------------------------------------------------------------------
(* The reading thread.                                                     *)

\* DispatchARPAInput::BeginLength goes straight to the output.
BeginLength ==
  /\ reader = "begin"
  /\ reader' = "read"
  /\ fast_counter' = [o \in Outputs |-> 0]
  /\ UNCHANGED <<file, section, line, left, local_read, input, sequence, batch,
                 queueVars, filterVars, outputVars, written, counts>>

\* Controller::AddNGram, up to the comparison with batch_size_.
AddNGram ==
  /\ reader = "read" /\ left > 0
  /\ line' = line + 1 /\ left' = left - 1
  /\ batch' = [batch EXCEPT ![input].input = Append(@, line')]
  /\ reader' = IF Len(batch'[input].input) = BatchSize THEN "full" ELSE "read"
  /\ UNCHANGED <<file, section, local_read, input, sequence, queueVars,
                 filterVars, outputVars, fileVars>>

\* The section has no more lines.  ARPA: EndLength, which calls Flush.  Raw:
\* DispatchInput has no EndLength; the Controller goes out of scope.
EndOfSection ==
  /\ reader = "read" /\ left = 0
  /\ reader' = IF file.format = "arpa" THEN "flush" ELSE "destroy"
  /\ UNCHANGED <<file, section, line, left, local_read, input, sequence, batch,
                 queueVars, filterVars, outputVars, fileVars>>

\* Mutant: the batch is not taken off the stack.
FlushInputNoPop ==
  /\ reader \in {"full", "flush"}
  /\ batch[input].input # <<>> /\ Len(filter_in) < QueueSize
  /\ filter_in' = Append(filter_in, Head(local_read))
  /\ reader' = IF reader = "full" THEN "new" ELSE "drain"
  /\ UNCHANGED <<file, section, line, left, local_read, input, sequence, batch,
                 output_in, to_read, filterVars, outputVars, fileVars>>
\* FlushInput with something in input_: Produce(top), pop.  Its closing
\* "if (local_read_.empty()) MoveRead()" is the MoveRead below.
FlushInput ==
  /\ reader \in {"full", "flush"}
  /\ batch[input].input # <<>> /\ Len(filter_in) < QueueSize
  /\ filter_in' = Append(filter_in, Head(local_read))
  /\ local_read' = Tail(local_read)
  /\ reader' = IF reader = "full" THEN "new" ELSE "drain"
  /\ UNCHANGED <<file, section, line, left, input, sequence, batch,
                 output_in, to_read, filterVars, outputVars, fileVars>>

\* FlushInput with an empty input_ returns at once.
FlushNothing ==
  /\ reader = "flush" /\ batch[input].input = <<>>
  /\ reader' = "drain"
  /\ UNCHANGED <<file, section, line, left, local_read, input, sequence, batch,
                 queueVars, filterVars, outputVars, fileVars>>

\* Mutant: Flush waits for all batches but one.
NeedsBatchLess ==
  \/ reader = "new" /\ local_read = <<>>
  \/ reader = "drain" /\ Len(local_read) < QueueSize - 1
\* Does the reader wait for a batch?  AddNGram needs one, Flush all of them.
NeedsBatch ==
  \/ reader = "new" /\ local_read = <<>>
  \/ reader = "drain" /\ Len(local_read) < QueueSize

MoveRead ==
  /\ NeedsBatch
  /\ to_read # <<>>
  /\ local_read' = <<Head(to_read)>> \o local_read
  /\ to_read' = Tail(to_read)
  /\ UNCHANGED <<file, reader, section, line, left, input, sequence, batch,
                 filter_in, output_in, filterVars, outputVars, fileVars>>

\* NewInput: each call takes a sequence number, used by FlushInput or not.
NewInput ==
  /\ reader \in {"new", "drain"} /\ ~NeedsBatch
  /\ input' = Head(local_read)
  /\ batch' = Filled(input')
  /\ sequence' = sequence + 1
  /\ reader' = IF reader = "new" THEN "read" ELSE "end"
  /\ UNCHANGED <<file, section, line, left, local_read, queueVars, filterVars,
                 outputVars, fileVars>>

\* ARPAOutput::EndLength, after Flush returned; then the next section or Finish.
EndLength ==
  /\ reader = "end"
  /\ counts' = [o \in Outputs |-> Append(counts[o], fast_counter[o])]
  /\ IF section < Len(file.number)
       THEN /\ section' = section + 1
            /\ left' = file.number[section']
            /\ reader' = "begin"
       ELSE reader' = "destroy" /\ UNCHANGED <<section, left>>
  /\ UNCHANGED <<file, line, local_read, input, sequence, batch, queueVars,
                 filterVars, outputVars, written, fast_counter>>

\* ~Controller: members go in reverse order, the filter pool before the output
\* pool it produces to.
DestroyFilter ==
  /\ reader = "destroy"
  /\ filter_in = <<>> /\ \A w \in FilterThreads : filtering[w] = NoBatch
  /\ reader' = "destroy output"
  /\ UNCHANGED <<file, section, line, left, local_read, input, sequence, batch,
                 queueVars, filterVars, outputVars, fileVars>>

DestroyOutput ==
  /\ reader = "destroy output"
  /\ output_in = <<>> /\ ~writing
  /\ reader' = "destroyed"
  /\ UNCHANGED <<file, section, line, left, local_read, input, sequence, batch,
                 queueVars, filterVars, outputVars, fileVars>>
-----------------------------------------------------------------------------
(* A filter thread: FilterWorker::operator().                              *)

AddNGramTo(out, n) ==
  [out EXCEPT !.annotated = Append(@, [line |-> n, systems |-> <<>>])]

\* MultipleOutputBuffer tells a second system for the same line from a new line
\* by the address of the line, which is its place in the batch (its string
\* keeps its memory), and its length.  last_ outlives Flush: when the line is
\* taken for the one annotated last and nothing is annotated, back() is
\* undefined and the line is lost (or the process ends, after a behaviour that
\* is already one of the model's).
SingleAddNGram(out, system, n, at) ==
  LET here == [address |-> at, length |-> file.length[n]]
      back == Len(out.annotated)
  IN IF out.last # here
       THEN [annotated |-> Append(out.annotated, [line |-> n, systems |-> <<system>>]),
             last |-> here]
     ELSE IF back = 0 THEN out
     ELSE [out EXCEPT !.annotated[back].systems = Append(@, system)]

\* Mutant: the systems of a line are taken without their order or number.
OneSystem(n) == IF file.to[n] = {} THEN <<>> ELSE <<CHOOSE o \in file.to[n] : TRUE>>
\* The systems that the filter reports for a line, in increasing order.
Systems(n) == CHOOSE s \in [1 .. Cardinality(file.to[n]) -> file.to[n]] :
                \A i, j \in DOMAIN s : i < j => s[i] < s[j]

\* Filter::AddNGram for line n, at that place in the input buffer.
FilterLine(out, n, at) ==
  LET told[i \in 0 .. Len(Systems(n))] ==
        IF i = 0 THEN out ELSE SingleAddNGram(told[i - 1], Systems(n)[i], n, at)
  IN IF file.to[n] = All THEN AddNGramTo(out, n) ELSE told[Len(Systems(n))]

\* InputBuffer::CallFilter
Annotate(lines, out) ==
  LET passed[at \in 0 .. Len(lines)] ==
        IF at = 0 THEN out ELSE FilterLine(passed[at - 1], lines[at], at)
  IN passed[Len(lines)]

TakeBatch(w) ==
  /\ filtering[w] = NoBatch /\ filter_in # <<>>
  /\ filtering' = [filtering EXCEPT ![w] = Head(filter_in)]
  /\ filter_in' = Tail(filter_in)
  /\ UNCHANGED <<readerVars, batch, output_in, to_read, filtered, outputVars,
                 fileVars>>

CallFilter(w) ==
  /\ filtering[w] # NoBatch /\ w \notin filtered
  /\ batch' = [batch EXCEPT ![filtering[w]].output =
                 Annotate(batch[filtering[w]].input, @)]
  /\ filtered' = filtered \cup {w}
  /\ UNCHANGED <<readerVars, queueVars, filtering, outputVars, fileVars>>

SendFiltered(w) ==
  /\ w \in filtered /\ Len(output_in) < QueueSize
  /\ output_in' = Append(output_in, filtering[w])
  /\ filtering' = [filtering EXCEPT ![w] = NoBatch]
  /\ filtered' = filtered \ {w}
  /\ UNCHANGED <<readerVars, batch, filter_in, to_read, outputVars, fileVars>>
-----------------------------------------------------------------------------
(* The output thread: OutputWorker::operator().                            *)

\* The deque grown to n elements (never shrunk).
Resized(n) == ordering \o [i \in 1 .. (IF n > Len(ordering) THEN n - Len(ordering) ELSE 0)
                             |-> NoBatch]

\* Put the batch at its position after base_sequence_.
Receive ==
  /\ ~writing /\ output_in # <<>>
  /\ LET b == Head(output_in)
         pos == batch[b].sequence - base_sequence
     IN ordering' = [Resized(pos + 1) EXCEPT ![pos + 1] = b]
  /\ output_in' = Tail(output_in)
  /\ writing' = TRUE
  /\ UNCHANGED <<readerVars, batch, filter_in, to_read, filterVars,
                 base_sequence, fileVars>>

\* What Flush writes to output o: a line is written once for each of its systems.
LinesIn(annotated, o) ==
  LET times(a) == IF a.systems = <<>> THEN 1
                  ELSE Cardinality({i \in DOMAIN a.systems : a.systems[i] = o})
      flushed[i \in 0 .. Len(annotated)] ==
        IF i = 0 THEN <<>>
        ELSE flushed[i - 1] \o [j \in 1 .. times(annotated[i]) |-> annotated[i].line]
  IN flushed[Len(annotated)]
Lines(b, o) == LinesIn(batch[b].output.annotated, o)

FrontReady == ordering # <<>> /\ Head(ordering) # NoBatch

\* Mutant: the base does not move with the front of the deque.
WriteFrontKeepBase ==
  /\ writing /\ FrontReady /\ Len(to_read) < QueueSize
  /\ written' = [o \in Outputs |-> written[o] \o Lines(Head(ordering), o)]
  /\ fast_counter' = [o \in Outputs |-> fast_counter[o] + Len(Lines(Head(ordering), o))]
  /\ batch' = [batch EXCEPT ![Head(ordering)].output.annotated = <<>>]
  /\ to_read' = Append(to_read, Head(ordering))
  /\ ordering' = Tail(ordering)
  /\ UNCHANGED <<readerVars, filter_in, output_in, filterVars, writing, counts,
                 base_sequence>>
\* One round of the loop: Flush the front batch to the file, give it back,
\* pop_front.  Nobody else sees the file, the deque or the batch in between.
WriteFront ==
  /\ writing /\ FrontReady /\ Len(to_read) < QueueSize
  /\ written' = [o \in Outputs |-> written[o] \o Lines(Head(ordering), o)]
  /\ fast_counter' = [o \in Outputs |-> fast_counter[o] + Len(Lines(Head(ordering), o))]
  /\ batch' = [batch EXCEPT ![Head(ordering)].output.annotated = <<>>]
  /\ to_read' = Append(to_read, Head(ordering))
  /\ ordering' = Tail(ordering)
  /\ base_sequence' = base_sequence + 1
  /\ UNCHANGED <<readerVars, filter_in, output_in, filterVars, writing, counts>>

LoopEnds ==
  /\ writing /\ ~FrontReady
  /\ writing' = FALSE
  /\ UNCHANGED <<readerVars, batch, queueVars, filterVars, ordering,
                 base_sequence, fileVars>>
-----------------------------------------------------------------------------
Reader == \/ BeginLength \/ AddNGram \/ EndOfSection \/ FlushInput \/ FlushNothing
          \/ MoveRead \/ NewInput \/ EndLength \/ DestroyFilter \/ DestroyOutput
Filter(w) == TakeBatch(w) \/ CallFilter(w) \/ SendFiltered(w)
Output == Receive \/ WriteFront \/ LoopEnds

Next == Reader \/ Output \/ \E w \in FilterThreads : Filter(w)

Spec == Init /\ [][Next]_vars

(* Threads run: one reader, one output thread, and each filter thread.     *)
FairSpec == Spec /\ WF_vars(Reader) /\ WF_vars(Output)
                 /\ \A w \in FilterThreads : WF_vars(Filter(w))
-----------------------------------------------------------------------------
\* Lines up to the end of section k.
LinesThrough(k) == Through(file, k)

\* The lines among 1 .. n that the filter passes to output o, in order.
Passes(n, o) == file.to[n] = All \/ o \in file.to[n]
KeptThrough(n, o) ==
  LET kept[m \in 0 .. Len(file.to)] ==
        IF m = 0 THEN <<>> ELSE IF Passes(m, o) THEN Append(kept[m - 1], m) ELSE kept[m - 1]
  IN kept[n]

\* The files of which nothing is lost: a raw file fills its last batch, as
\* CountFormat::RunFilter does not flush, and lines that are for some sentences
\* have different lengths, as SingleAddNGram compares them across batches.
Harmless(f) ==
  /\ f.format = "raw" => \E k \in 0 .. Total(f) : Total(f) = k * BatchSize
  /\ \A m, n \in 1 .. Total(f) :
       m # n /\ f.to[m] \notin {All, {}} /\ f.to[n] \notin {All, {}} => f.length[m] # f.length[n]

TypeOK ==
  /\ file \in Files
  /\ reader \in {"begin", "read", "full", "new", "flush", "drain", "end",
                 "destroy", "destroy output", "destroyed"}
  /\ section \in 1 .. Len(file.number)
  /\ left \in 0 .. file.number[section]
  /\ line + left = LinesThrough(section)
  /\ input \in Batches /\ sequence \in Nat \ {0}
  /\ \A b \in Batches : /\ batch[b].sequence \in 0 .. sequence - 1
                        /\ Len(batch[b].input) <= BatchSize
                        /\ Len(batch[b].output.annotated) <= BatchSize
  /\ filtering \in [FilterThreads -> Batches \cup {NoBatch}]
  /\ \A w \in filtered : filtering[w] # NoBatch
  /\ writing \in BOOLEAN
  /\ base_sequence \in 0 .. sequence
  /\ \A o \in Outputs : fast_counter[o] <= Len(written[o])

(* A batch belongs to exactly one thread or queue, so its buffers are      *)
(* never touched by two threads, and the one that input_ points into is    *)
(* with the reader whenever lines are added.                               *)
BatchOwnedOnce ==
  /\ LET Places == <<ToSet(local_read), ToSet(filter_in), ToSet(output_in),
                     ToSet(to_read), ToSet(ordering) \ {NoBatch},
                     {filtering[w] : w \in FilterThreads} \ {NoBatch}>>
     IN /\ UNION ToSet(Places) = Batches
        /\ \A i, j \in DOMAIN Places : i # j => Places[i] \cap Places[j] = {}
  /\ \A w, v \in FilterThreads :
       filtering[w] = filtering[v] /\ filtering[w] # NoBatch => w = v
  /\ reader \in {"read", "full"} => input = Head(local_read)

(* When a section is ended, and its count recorded, all of its passing     *)
(* lines have been written and none of the next section's: no late batch   *)
(* ends up under another \N-grams header or out of the counts.             *)
SectionsComplete ==
  \A o \in Outputs :
    /\ reader \in {"begin", "end"} => written[o] = KeptThrough(line, o)
    /\ \A k \in DOMAIN counts[o] :
         counts[o][k] = Len(KeptThrough(LinesThrough(k), o))
                          - Len(KeptThrough(LinesThrough(k - 1), o))

(* "Assemble the output in order" (thread.hh:76), "A separate file is      *)
(* created for each sentence" (filter_main.cc:29): whatever the filter     *)
(* threads do, each output file holds passing lines of the input so far in *)
(* their order, each once, and that of a finished run all of them.         *)
EntireInputFiltered ==
  \A o \in Outputs :
    /\ IsPrefix(written[o], KeptThrough(line, o))
    /\ reader = "destroyed" => Len(written[o]) = Len(KeptThrough(line, o))

(* A batch sent to the filter threads comes back to the reader: no batch   *)
(* is stuck in the deque behind a sequence number that nobody will send.   *)
BatchesComeBack ==
  \A b \in Batches :
    b \in ToSet(filter_in) ~> b \in ToSet(to_read) \cup ToSet(local_read)
=============================================================================
