# Verification of MEMT

MEMT combines the outputs of several machine translation engines: a matcher
aligns their sentences word by word, and a decoder server builds the best
combined sentence. This directory holds TLA+ models of its core, TLC
configurations that check them on small instances, and TLAPS proofs of what
matters most for every instance. Every definition is translated from the code
under `src/`; `PROJECT.json` maps each one to its lines.

Contents: 1 inventory, 2 modules and how they correspond to the code, 3 what is
checked, 4 what is proved, 5 what the runs found, 6 what is not modelled, 7 plan.

## 1. Inventory

| Part | State | Operations | Hard behaviour | What makes it correct |
|---|---|---|---|---|
| `util/pcqueue.hh`, `PCQueue` | a ring of slots, two cursors, one mutex for each end, semaphores `empty_`, `used_` | `Produce`, `Consume` (both may throw in the assignment) | the ends share no lock; exceptions between semaphore and slot; wraparound | FIFO, no slot shared or lost, no lost wakeup |
| `util/thread_pool.hh`, `Worker`, `ThreadPool` | an input queue, threads | `Produce`, worker loop, destructor (poison and join) | shutdown behind pending work, full queue, a handler that throws ends the process | everything produced is handled before destruction returns |
| `MEMT/Controller`, the server | pools of connection and sentence requests, connection handlers, one output thread and one stream with a buffer per connection, decoders, clients | accept, commands (config, feature_info, sentences), decode, ordered output, drain, close | four kinds of threads over shared pools; out-of-order decoding; errors in the middle; answers that stay in the buffer unless flushed; reuse of a handler's output state by its next connection; clients that vanish; an exception while decoding ends the process | each sentence answered once, in order, under the right configuration; requests conserved; a reused handler starts clean |
| `lm/filter`, threaded driver | batches with their buffers, four queues, a deque of finished batches, sequence numbers | read lines, send batch, flush at sections, filter, assemble output | filter threads finish out of order; sequence numbers with holes; buffers reused with what they remember; order of destruction | each output file is the filtered input, section by section |
| `lm/filter`, vocabulary and phrase filters | words or hashes of phrases, each with the sentences that have it; a lattice over an n-gram, with lower bounds on its arcs and vertices | read the texts, `PassNGram` and `AddNGram` in single, union and multiple mode | bounds that stay from one sentence to the next; ranges that are cut down while they are intersected | an n-gram passes to just the sentences that can say it |
| `MEMT/Input` | sentences and word alignments | read the matcher's output, boundary alignments, transitive closure | conflicts in the closure | symmetric alignments |
| `MEMT/Strategy/Horizon` | per hypothesis and engine a `Coverage`: frontier and bit vector | `Use`, `UseFrontier`, `UseTo`, `ConsumeWord` with two horizon methods | off-by-one representation compared by `==` and hash; iteration to a fixed point; incremental votes | used words only grow; equal hypotheses have equal representations; no engine lags |
| `MEMT/Strategy/Phrase` | phrases per word; the phrase a hypothesis is locked into | detect phrases, blocks, `Advance` | the horizon pushes the locked engine; words of a phrase used by alignment | a lock always leads to a word that exists; no broken phrase is entered |
| `MEMT/Strategy/Legacy` | composes the three above | `Begin`, `GetExtensions`, `ExtendNonScore` | termination of the decoder; extension by aligned or recent words | no word or meaning said twice |
| `util/n_best.hh`, `NBest` | slots, one of them available, a hash table and a heap of pointers into the slots | `Reset`, `MayMakeIt`, `InsertAvailable`, destructive order | the slot of a dropped value is written to next; a merge changes a value's place in the heap | the best values are kept, of each class one, with its best score |
| `MEMT/Decoder` | two beams, an end beam, a lattice of packed histories, a queue of paths not taken | extend a layer, merge, rank, lazily enumerate the n-best list | recombination packs histories under one score; sentences of different length compared; the list is pushed to while it is read | the best sentence is found; the list falls and has no path twice |
| `util/stream`, chains | blocks of memory, a queue before each worker, where each `Link` is | start, pass a block, poison, recycle, wait | workers write into blocks without a lock; exactly one poison; a stream of the main thread that skips blocks before all workers are there; a second use of the chain | the records come out in order, each once; `Wait` returns |
| `util/stream/sort.hh` | a file of sorted runs, a log of their lengths | sort blocks, merge passes between two files, lazy merge | positions and sizes left from the pass before; rounding of memory into numbers of runs; two aborts for what "shouldn't happen" | every entry once, in order, equal ones combined |
| `lm/builder`, counting and adjusting | n-grams in blocks, one pending n-gram for each order, statistics | count, sort, `AdjustCounts` | one pass that makes all lower orders; n-grams moved into gaps; the end of the input handled apart | adjusted counts, marks and totals are those of the corpus |
| `lm`, queries | tables of n-grams with marks for extension | load, `FullScore`, `ResumeScore`, `ExtendLeft`, `RuleScore`, `Subsume` | contexts that are left out of the file; states minimised at both ends; scores revised when fragments are joined | scores of a backoff model, whatever way the sentence was put together |
| features, output, matcher, scripts, utilities, the rest of `lm` and `lm/builder` | | sequential numeric code, formatting, I/O | | |

How they interact. The acceptor of the server takes a free connection request
and passes it through a `PCQueue` to a connection handler. The handler reads
commands from the client, takes a sentence request from the shared pool, fills
it (`ReadFromJava`), announces it to its own output thread and passes it to the
shared decoders. A decoder runs the decoder on the request with `Legacy` as its
strategy and passes the result to the output thread of the request's
connection, which writes results in order, frees the request and counts it. The
filter is a separate program that uses the same queues and pools; its filter
says to which outputs a line goes. Estimation is another one, a sequence of
chains built on `PCQueue`, and makes the language models that the decoder's
features query while it extends and merges hypotheses.

The places where a test would hardly find an error are listed, each at its
line, under `hazards` in `PROJECT.json` with the properties that cover it.

## 2. Modules

    BoundedQueue  <== refinement ==  PCQueue -- PCQueueProofs
    UsedWords     <== refinement ==  CoverageCalls
                                       |        `----------.
    Input -- Phrase -- Horizon -- Legacy ------------- LegacyProofs
            (Phrase EXTENDS Coverage too)
    NBest -- NBestCalls ----------------- NBestProofs
    NBest == three instances ==> Decoder -----'
    RecordCopy    <== refinement ==  Chain -- ChainProofs
    NGrams -- CorpusCount, Sort, AdjustCounts -- Estimation
    LanguageModel -- Chart
    VocabFilter -- PhraseFilter -- NGramFilter
    ThreadPool -- ThreadPoolProofs
    Server -- ServerProofs
    FilterController -- FilterControllerProofs
    Facts == lemmas for ==> LegacyProofs, NBestProofs, ChainProofs, ServerProofs,
                            FilterControllerProofs

`PCQueue` stands for the real ring. The modules that use queues model them as
bounded sequences, which is what `BoundedQueue` describes and `PCQueue` is
proved to implement. Likewise `Estimation` runs its chains as `RecordCopy`
describes them, which `Chain` is proved to implement.

- **PCQueue**: one action per step at which another thread can interleave:
  call, `WaitSemaphore`, lock, assign, throw, post. A slot under assignment is
  `Torn`: copying a value is not atomic, and an assignment that throws may leave
  anything. `Advance` is the increment with the wrap at `end_`.
- **ThreadPool**: one destroying owner and its workers. `HandlerThrows` is the
  `abort()` of `Worker::operator()`; after it nothing moves.
- **Server**: acceptor, handlers, output threads, decoders, clients. What is a
  critical section, or is touched by one thread only between two queue
  operations, is one action. A configuration is one model value, a sentence is
  a pair of client and number; decoding is a function of both, so that a reply
  shows which configuration it was decoded under. `replies` has the n-best lists
  written to the stream of a client, `delivered` says how many of them have left
  its buffer for the socket. `WriteNBest` locks the stream and writes; `Push` gives
  the oldest reply in the buffer to the socket and waits while the client does not
  read. It may happen during a write, where the buffer overflows after any
  number of replies, and it must before `NBestWritten` if the sentence's
  configuration is in `Flushing` (`MustFlush`, the `flush_nbest` of `NBest.cc:54`, which
  `Output/Options.cc:45` sets to false), before the end of an error or of
  feature_info, which are flushed, and before `CloseConnection`. Each connection
  starts with `DefaultConfig`, which does not flush. `DecodeThrows` is the `abort()` of
  `DecoderHandler.hh:61`, after which nothing moves (`Running`). A client may be gone before
  its commands are read, and writes to it then succeed without effect.
- **FilterController**: the reader drives `Controller` as
  `ReadNGrams`/`DispatchARPAInput` and `RunFilter` do; batches travel over
  `filter_in`, `output_in` and `to_read`. The module keeps the sequence numbers,
  and the deque `ordering` with its `base_sequence`. A line is its number with a
  length; the outputs it goes to are given with the file, for one output or one
  per sentence. `Harmless` says for which files nothing is lost (section 5). An output buffer is what it has annotated and the line it
  remembers, known by address and length. Destruction takes the members in
  reverse order.
- **VocabFilter**, **PhraseFilter**: pure operators. A hash is what was hashed. A
  range that `AllIntersection` cuts down is its first index and its end; what it
  reports is a sequence. Arcs and vertices of the lattice keep their lower
  bounds in a record `graph`, and `ArcLowerBound`, `VertexLowerBound` call each
  other as the code's do, as recursive functions. **NGramFilter** asks a filter
  about an n-gram, in a phrase filter one round of `Evaluate` a step.
- **Coverage**: pure operators. `used` counts from 1 where `used_` counts from
  0, so `used[i]` is the word at `frontier + i`. **CoverageCalls** lets several
  hypotheses call them in any order. **UsedWords** is the promise: a set.
- **Input**, **Phrase**, **Horizon**: pure operators over a record `t` for the
  input and a record for the configuration. Loops of the code that run to a
  fixed point are recursive functions (`CloseAlignment`, `SkipPunctuation`,
  both `Enforce...Constraints`). `EnforceNewConstraints` keeps the incremental
  tally as the code does, with `Recount` for one round.
- **Legacy**: a behaviour is one path of the decoder through the lattice of
  hypotheses, from `<BOS>` to an `<EOS>` or until the hypothesis is dropped. The
  beam's pruning only removes paths, so what holds on all paths holds for
  whatever the decoder keeps.
- **NBest**: pure operators on a beam: `value` holds the slots in use, `dupe` and
  `dropper` are the slots that hash table and heap point to. Where the heap may
  take any of several lowest values, or a list may have ties in any order, an
  operator gives the set of outcomes. What is merged is the constant `Merges`.
  **NBestCalls** is a caller that offers values in any order.
- **Decoder**: `DecoderImpl::Run` and `EndBeam.cc`, with three instances of NBest
  for the internal beam, the packed histories of a hypothesis, and the end beam.
  What strategy and features say is the constant `Models`: from a payload there
  are arcs, each with a word, the payload it leads to, and what it adds to the
  score. `agenda` is what `ExtendBeam` has yet to do of the current layer, so
  that each `ExtendHypothesisByLocation` is a step. A history is a record with its
  hash as `key`; hashes are structural and so do not collide, which the comments
  in `History.hh` and `EndBeam.hh` assume too. A score is the logarithm of the
  code's, `NormalizeByLength` a division. In `Complete`, the loop that walks back
  to the beginning of the sentence is the recursive function `Followed`; `Agendas` is
  another, over the hypotheses of a layer.

- **Chain**: blocks circulate through one bounded queue per worker. `layout` is
  what the main thread adds in this round: a source, workers that drop records
  or copy them, and one that closes the loop. Each `Produce` and `Consume` is a
  step of its own, and what a worker does to its block between them another.
  `AddWorker` is the main thread adding a worker; after a `MainStream` it goes on only
  when `Stream::Init`, which `operator>>` runs on the main thread and which skips
  empty blocks, has returned (`Started`).
  `torn` is a file that ends within a record. **RecordCopy** is the promise:
  what the source delivers comes out in order, and is all there when `Wait`
  returns. What a chain is `given` there is what a Filter before the output leaves of the
  input (`KeptInput`); one behind it changes blocks that have been written already.
- **NGrams**, **CorpusCount**, **Sort**, **AdjustCounts**: an n-gram is a sequence of
  words with a count and a mark. `CorpusCount` fills blocks of distinct n-grams.
  `Sort` has the two files with their positions, the log of `Offsets`, and the
  merging reader, one entry a step; what equal entries do is to add their counts. `AdjustCounts`
  has the block of the highest order in place, with `copy_from_`, and the pending
  n-gram of each lower order. **Estimation** composes them as `Pipeline` does.
- **LanguageModel**: a table from n-grams (first the word, then its context,
  nearest first) to probability, backoff and the two marks, built as
  `ReadNGrams` does, with entries made up for what the file lacks; then the
  queries as pure operators. Probabilities are integers. **Chart** applies the
  calls of `RuleScore` and `Subsume` to fragments in any order.

`MC*` modules give the instances for TLC. `MCFilter` and `MCStructures` each hold
components of one program that share no state. Their behaviours exercise one
component while the others stay as they began, so that the run's states are the
sum of the components' and not the product, and each property still ranges over
all behaviours of its component. Definitions marked *Mutant* are
variations of the definition after them, as a plausible slip would make them;
`PROJECT.json` says which property each of them breaks.

## 3. What is checked

| Run | Distinct states | Instance | Shows |
|---|---|---|---|
| `pcqueue` | 93 060 | 2 producers, 2 consumers, 2 slots, 2 values | no slot is raced for, refinement of the FIFO (so that none is lost), blocked producers go on |
| `server` | 1 343 229 | 2 clients (2 sentences and 1; each may change its configuration or ask for feature_info once), 2 handlers, 2 requests, 2 decoders, two configurations, one of them flushes | order, configuration, conservation, clean reuse |
| `server_live` | 166 560 | the same with one sentence each, 1 request and 1 decoder; one client may change its configuration, the other may vanish | each sentence answered, each handler returns |
| `server_reset` | – | 1 handler, 2 clients | violation, section 5 |
| `filter` | 51 592 | driver: 2 filter threads, 4 batches of 2 lines, five files for one output and two for two; pool: 3 workers, 4 requests, queue of 2; filters: 80 texts of up to three lines over two words, 17 n-grams, six kinds of filter | order, ownership, sections, completeness, liveness; destruction handles everything and ends; the right sentences |
| `filter_full` | – | one file | violation, section 5 |
| `filter_same` | – | lines of one length for two sentences | violation, section 5 |
| `structures` | 239 807 | coverage: 2 hypotheses, words 0 to 5; beam: 4 classes with 3 scores, size 2; paths: all one-to-one matchings of two three-word sentences, with and without punctuation, of sentences of 4 and 2 words, and of three of 2 words, both methods, radius 0 and 1, extensions on and off; search: spaces of 7 payloads, sentences of 2 to 5 words, 32 assignments of scores, internal beam 2 and 8, n-best list of 1, 2 and 4, normalized and not | below |
| `chain` | 60 254 | 3 blocks of 2 records, six layouts of 2 to 4 workers, nine inputs of up to 7 records, used twice | below |
| `estimation` | 32 984 | orders 1 to 3, corpora of up to two sentences of two words and three longer ones, blocks of 2 and 3 entries, buffers of one and two entries, three amounts of memory, thresholds 0, 1, 1 and a word to prune | below |
| `estimation_stats` | – | the same | violation, section 5 |
| `chart` | 381 910 | order 4, words `<s>` and two more, files with none, one or two long n-grams, with and without their contexts; up to 4 words in 3 fragments | below |

The properties of `structures`. Coverage: equal representations mean equal sets of
words (`EqualIffSameWords`), and the calls implement `UsedWords`. Beam: heap, hash
table and slots agree (`SlotsConsistent`), and the best are kept (`KeepsTheBest`).
Paths: an open hypothesis always has extensions, all of
them words that exist (`NeverStuck`); no word twice (`NoWordTwice`); with
transitive alignments no meaning twice, except where the closure is in conflict
(`NoMeaningTwice`); each word uses up an unused one and none becomes unused
(`EachWordUsesWords`), from which termination of the decoder follows, as
hypotheses are at most as long as there are words; no engine more than the
radius behind (`HorizonHeld`). Search, compared with all sentences that the arcs
spell (`Sentences`): with a beam wide enough for every payload, the first score
is that of the best sentence (`BestScoreFound`); the list falls though it is
built lazily, and every listed path leads through the lattice and
none is listed twice (`PathsListedInOrder`); and if a payload says which word was
last and what it added, the list has the best sentences with their scores
(`ListHasTheBest`). That a narrow beam may lose the best is what a beam is for,
hence `Wide`; the other premise, `Even`, is what the code needs and does not
have in general, see section 5.

The properties of `chain`: no memory is in two hands or queues (`BlockOwnedOnce`);
nobody waits for room, and a round has one poison, behind all blocks
(`OnlyInputIsAwaited`); what comes out is a copy of the kept records, over two
uses of the same chain (`ImplementsCopy`); `Wait` returns, except in the rounds where the
program hangs because the main thread's stream skips all blocks before a worker
is there that gives them back (`WaitComesBack`, `AllSkipped`, section 5).

The properties of `estimation` compare with the definitions over the corpus:
sorting gives each n-gram once, in order, with its occurrences (`SortedEachOnce`);
all orders have the right counts and marks and the header the right totals
(`AdjustedRight`); estimation ends (`EstimationEnds`, and as deadlock is checked,
without either of the sorter's aborts).

The properties of `chart` compare with the definition of a backoff model over the
file: charged scores and the backoffs still due (`ScoreRight`); states have the
words that matter and no others that do not (`RightStateRight`, `LeftStateRight`);
the queries without a state agree with those that have one (`ForgottenStateFound`).

The modules with threads or calls also have a type invariant (`TypeOK`, or `PoolOK`,
`CoverageOK`, `BeamOK`, `DecoderOK` where modules are composed). It holds in the same
instances and is left out of the configurations, whose properties would be
violated soon after it; the proofs establish those of `PCQueue`, `CoverageCalls`,
`Legacy`, `NBestCalls` and `ThreadPool`.

The property `EverySentenceAnswered` says of a sentence whose configuration flushes
that its answer reaches the client, and of one whose configuration does not that it gets as
far as the buffer of the stream: more the code does not promise (section 5).

*Why the bounds are enough.* Two producers and two consumers can meet at either
end, and a ring of two slots wraps, fills and empties. With two handlers, two
requests and the three sentences of `server` a request is reused across connections, the pool
runs dry, decoders finish out of order and a handler serves a second connection
when a client is served first. Two answers to one client can both be in the
buffer, one under either configuration, with a socket that holds one reply. One
request and one decoder for two connections
is the tightest case for liveness, with and without a flush. The filter's thirteen-line section needs
seven batches of the four there are, so that batches are reused and the deque grows; the
files cover sections that end within a batch, empty sections, and full batches
at the end of a file, and for two sentences ten lines for both, either and none
of them, again more than there are batches. Phrases of one to three words that
overlap, contain and repeat each other, in three sentences, make every arc of
the lattice fall behind and catch up. Two hypotheses are all that equality compares; six words
give every pattern of gaps up to four bits. Three engines are the fewest with a
closure through a third one, with conflicts and with votes that are not
unanimous; two engines with sentences of different length run off at different
times. Four classes in a beam of two leave two outside, so that a class can be
dropped, offered again, and merged in a full beam, with ties. Three workers and four requests for
two places make the destructor wait for room. The search spaces
have payloads reached from up to four others and at two lengths, so that
histories are packed, a list of two or four overflows, and sentences of
different length compete; a beam of 2 overflows, one of 8 never does. What arcs
add is a multiple of 60, so that dividing by 2 to 5 is exact. Inputs of a chain
are empty, end within a block or with one, are emptied by a filter (once all
blocks of the chain), or need
more blocks than there are, so that blocks circulate; the layouts have every
source, every way to close the loop and each worker between. Corpora of three sentences
fill several blocks, so that with the least memory sorting takes several
passes and both files are read and written. Order 4 is the first with a middle order whose
context is a middle order too, and with three fragments there is one to join on
either side of another. Rings, queues and sockets are bounded by the code; the number of
requests, commands, lines and clients is bounded by constants marked `bound`.

*Fairness.* `pcqueue`: threads inside the queue run, some waiter of a semaphore
or mutex is woken (weak fairness of the disjunction over the threads, as neither
promises an order), consumers call again as worker loops do, and assignments do
not throw for ever (strong fairness, as mutexes may be taken between). Nobody is obliged
to produce. `server_live`: all server threads run as long as the process does, a
stream that is to write something pushes it, clients read what they are sent, and a
client that announced a sentence sends it or is lost: without the last two the
code indeed waits for ever, since it sets no timeouts. Nobody has to send
another command or to close, and no buffer has to overflow before it is flushed. `filter`: one fair process per thread of the driver, and of the
pool the destructor and the workers; a handler returns or throws. `chain`: each
worker's thread and the main thread. `estimation`: some worker goes on, as its
threads share nothing that they could keep from each other. `structures` and
`chart` are sequential and claim no liveness. Each weakly fair action
is one loop body of one thread.

`CHECK_DEADLOCK FALSE` is set where the system ends: a destroyed pool or an
aborted process, clients all served, a program that is done, a chain whose main
thread hangs in `operator>>`, a hypothesis or a
search that has ended, a sentence that is long enough. `pcqueue` and
`estimation` check for deadlock; the latter has a step `Done` for its end. That a
chain stops nowhere else is what `WaitComesBack` says.

## 4. What is proved

**PCQueueProofs**, for any finite sets of threads, any values and any capacity
of at least 1 (`PCQueueAssumption`):

- `Invariance`: `IInv` holds always.
- `SlotsNeverRace`, `SlotsNeverLost`, `TypeCorrect`: what follows from it.
- `Refinement`: `Spec => ImplementsFIFO`, i.e. the ring is a `BoundedQueue`.

`TypeOK` is not inductive, since `empty + 1` may leave its range unless it is
known where all the slots are. `IInv` adds `SlotsAccounted` (each slot is
counted by one semaphore or claimed by one thread, the cursors are as far apart
as that says, and the slots between them hold values) and `MutexesHeld` (who is
inside the assignment owns the mutex of its end). There is one lemma per action;
those that move a thread between claims use `CountMoves` and its two
specialisations to `Writing`/`Published` and `Reading`/`Released`.
`NoSlotRace` follows because a writer's slot is `Ahead(Stored)`, a reader's is
`Ahead(0)`, and `Ahead` is one-to-one below the capacity. For the refinement,
only `ProduceAssign` and `ConsumeAssign` change the abstract queue.

**LegacyProofs**, first about `Coverage`, for any number of hypotheses and any length:

- `CoverageTypeCorrect`: `Canonical` is kept by each call, nothing is stored beyond
  the last used word.
- `EqualityIsSameWords`: coverages are equal exactly when their used words are.
- `CoverageRefinement`: the calls implement `UsedWords`.

The argument: `FirstFalseProperties` says what `std::find` returns, from it
`MoveToFirst` says which words a moved frontier stands for, and `UseWords`,
`UseFrontierWords` and `UseToWords` give the used words after each call.
`Unique` shows that canonical coverages with the same words are the same: the
frontier is the least unused word, and the last stored entry the greatest used
one. Assumption: `LastWordAssumption`, that the bound is a natural number.

Then about a hypothesis of the decoder, for any number of engines, sentences of any
length with any punctuation and any one-to-one matches, and any configuration:

- `NeverStuckHolds`, `NoWordTwiceHolds`, `NoMeaningTwiceHolds`, `HorizonHeldHolds`,
  `EachWordUsesWordsHolds`: all properties of `Legacy` that `structures` checks.
- `LegacyTypeCorrect`: its type invariant.
- `InductiveHolds`: `Inductive`, from which they follow.

The assumption is `InputsAssumption`: `MatcherOutput`, which is what `ReadFromJava` parses
from a matcher that matches one-to-one, and the types of the options. Weights of
votes are integers, their sums are not bounded by anything.

The properties need one another. That a word is never said twice cannot be seen
from the word: `AlignedWords` does not ask whether a word is used, nor does a phrase.
`Open` says instead that everything aligned with a word of the history is used, and
`ExtensionIs` that an extension is aligned with a word that is unused
(itself or, for `extend_aligned`, a frontier word). So it differs from every word
before it, and with transitive alignments it is not aligned with one either:
its partner would be, too. The same partner is what `EachWordUsesWords` counts.
`Open` also has that a live engine is left, and that the phrase's engine is not past
the phrase, which keeps `GetExtensions` within the sentences.

Three layers below say what the operators do.

- Alignment: `ReadIsSound` (after `ReadFromJava`, words are aligned with words that
  exist, both ways, markers only with their like), `ClosureIs` (`CloseAlignment` is the
  least closed set), `ClosureSame` (its members all have the same one) and
  `TransitiveIsSound` (`MakeAlignmentsTransitive` keeps that, and makes alignment
  transitive but for closures in conflict).
- Coverages: `Fine` is a coverage that stays within its sentence and `Grows` relates two
  of which the second has lost no word. `Use`, `UseAll`, `SkipPunctuation` and the block of a
  phrase keep both.
- The horizon: `EnforceOldIs` and `EnforceNewIs` say that the loops only move engines on, the
  former until no live engine is more than the radius behind, and `ConsumeWordIs` puts it
  together.

The recursive functions of `Input` and `Horizon` are loops and folds, and as induction
over data is not available, `Facts` has what stands in for it. `TailRecursion` and
`FoldExists` show that there is a function that satisfies the equation (built from the
least set of pairs that the equation allows), without which nothing would
be known of what `CHOOSE` returns. `LoopRule` and `FoldRule` say that it returns what
an invariant promises, by the least measure of a counterexample. Steps, measures and
invariants are functions and sets there in place of operators, as the provers cannot instantiate
operators. What falls is the number of words left: to the engine in
`SkipPunctuation`, to all engines in both `Enforce...Constraints` (with the
engines in the queue for the old one), outside the closure in `CloseAlignment`.

**NBestProofs**, for any values with integer scores, any size, and any merge that
keeps the class and the better score (`NBestAssumption`; `OneBestMerge` is one,
and so is `InternalHypothesis::Merge` as far as key and score go):

- `Invariance`: `IInv`, the conjunction of the three properties, is inductive.
- `TypeCorrect`, `SlotsStayConsistent`, `BestAreKept`: its parts.

`KeepsTheBest` alone is not inductive: that what the heap pops is lowest among
what is kept needs the heap to hold exactly the slots in use, and that a class
is in one slot needs the hash table to. There is a lemma for each outcome of
`InsertAvailable` (`MergeKeeps`, `UseKeeps`, `ReplaceKeeps`) and one for a refusal by
`MayMakeIt` (`RejectKeeps`). `BottomExists` says that a heap that is not empty has
a lowest value; it takes the least `k` such that the slots up to `k` have none,
since induction is not available (`LeastElement`).

- `PathsInOrder`: what `Completed` lists, for any search space, beam sizes and ties.
  The scores fall, each path leads from the beginning through packed predecessors to
  an end of sentence, and none is listed twice.

`DecoderAssumption` is all it needs: the root and what arcs lead to are payloads, and what
they add is an integer. A beam need not keep the best here, but what it holds was
offered to it, and its `size` and slots agree (`BeamFine`; the lemmas that end in `Insert`
say so for the three beams, whose merges differ). The layers that the histories form are
in no variable, as only the beams, the agenda and the partial histories hold histories. So
`DecoderIInv` says that there are layers (`Lattice`): the first is the root, and the
predecessors of a history are in the layer before, best first and each once; the agenda
is about the last layer; the end beam holds sentences whose last word follows a
layer of their length.

`Listed` is about the queue of `Completed`. A partial history stands for all paths that
end as it does and go through the predecessor that `packed` names, or one behind
it (`Covers`). No path is covered by two queued partial histories, and none of them
covers a listed path (`Apart`): that is why the set of sentences in `Completed` never
refuses one. When `top` is taken out, the path that goes through the best predecessors
from there on is listed, and what is pushed covers paths that leave it at a
node each, at different ones (`Leaves`, `PushedFine`): `NextBest` at the first, the
`SecondBest` of step `i` at the one after. A score of a partial history is that of
its `packed` choice, and choices come best first, so nothing pushed is above `top`,
also after `Normalize`, whose division keeps the order (`NormalizeOrder`). Nor is
what is left in the queue, by `Below`, and nothing listed before is under it.

**ChainProofs**, for any number of blocks, workers and rounds, any layouts and
inputs (`ChainAssumption`):

- `BlockOwnedOnceHolds`: no memory is in two hands, two queues, or both.
- `OnlyInputIsAwaitedHolds`: nobody waits for room; a round has one poison, behind
  all blocks.

`BlockOwnedOnce` is inductive once it is known which queues and links there are,
which is `Shape`; `Inv` is both. Each step of a worker puts the block it has, or a
poison, into a queue and lets go of it (`ProduceKeeps`), takes the first of a queue
with empty hands (`ConsumeKeeps`), or does neither (`QuietKeeps`); `ShapeKept` is the
other half. `WorkerInv` names the kind of each action; starting a round, draining
and the return of `Wait` have lemmas of their own.

`OnlyInputIsAwaited` is about numbers, and a second layer, `Awaiting`, adds what they
need. `Counted`: the positions of queues that hold something, the hands that hold
something and what `Wait` has drained are `BlockCount` together, the poison
included, as the source gives up its block for it; so a worker with something in
its hands leaves less than `BlockCount` for the queues. `OnePoison`: the workers that
passed the poison are the first ones of the chain, and it is the last thing in
the queue behind them or in the next worker's hands. `SourceEnds`: a source that
ends has delivered everything, for which blocks must come back to it with their full
size. `SlotMoves` and `SlotsBoth` count the slots when a block moves; then each of the three kinds of step has a
lemma for each of the three parts (`ProduceCounts`, `ConsumeOnePoison`, ...).

- `ImplementsCopyHolds`: `Spec => ImplementsCopy`, i.e. a chain of any layout copies
  the records of its source, each once and in order, and all of them by the
  time `Wait` returns.

For that a third layer, `Copying`, adds what is in the blocks. They are numbered as the
source fills them: `cut[n]` records of the input are in the first `n`, and worker `w` has passed on
`got[w]`. `Fed(w, got, cut)` says that the block `w` holds is the next one and those
in its queue are the ones after that, up to the last that `w - 1` has passed on,
and that each has the records between its two cuts, filtered once a Filter was
passed (`Filled`, `Through`). `Flow` is this for all workers up to the output, and that the file has the
records up to `cut[got[o]]`; what is done to blocks behind the output `o` does not
matter. Nor does how the source fills its blocks, or that a Filter leaves some of them empty. `Sizes` says that the valid records of a block are in its
memory; the last worker breaks that when it gives the block back with its full
size, but only the source gets such a block, and writes over it. `BlockOwnedOnce` is what
the argument rests on: a worker that writes into its block changes no other that
`Fed` speaks of (`OwnMemory`). `Trimmed` is for
`PWriteAndRecycle`, which writes over the file of the last round: the file may
be longer than what has been written only until that worker ends, which `Wait`
waits for. Each kind of step has a lemma for one worker's queue (`FedConsume`,
`FedMore`, `FedPoison`, `FedOther`, ...) and one for `Flow` (`FlowConsume`, `FlowPass`, `FlowPoison`,
`FlowQuiet`), and from these each action (`SourceCopies`, `FilterCopies`, `OutputCopies`, ...).
Then only `Start`, `Output` and `WaitReturns` are steps of `RecordCopy`. When `Wait`
returns, all workers have passed the poison, so they have all passed on the same blocks
(`AllDelivered`). What `KeepOnly` does to joined sequences (`KeepConcat`) is again
`UpTo` and `RecursionExists` of `Facts`.

The proof found a mistake in the model: `KeptInput` was filtered if there was a
Filter anywhere. With one behind the output, which `ChainAssumption` allows
and no layout of the run had, the output is the whole input. The run now has such a layout.

**ThreadPoolProofs**, for any finite set of workers and any numbers of requests and slots:

- `RequestsConservedHolds`: each request is in one place until it was handled,
  and handled once.
- `DestroyedMeansHandledHolds`: when the destructor returns, everything produced
  was handled, and each worker has ended.

`RequestsConserved` alone is not inductive: it does not know the order of the queue
nor the poison in it. `IInv` is the type invariant, `Stages` (how much poison the
destructor has produced at each stage) and, for the number `t` of requests
taken so far, `InQueue(t)` (the queue holds the others in order and behind them
the poison that no worker has) and `TakenOnce(t)` (each of the `t` is in one
worker's hands or was handled, once). Five lemmas show that the kinds of steps
keep it (`ProduceKeeps`, `DestructorKeeps`, `ConsumeKeeps`, `HandleKeeps`, `SameKeeps`).

**FilterControllerProofs**, for any numbers of threads and outputs, any batch size
and, where nothing else is said, any file:

- `BatchOwnedOnceHolds`: each batch is in one place, never lost and never given to two.
- `EntireInputFilteredHolds`, for a harmless file: each output file holds passing lines
  in input order, each once, and in the end all of them.
- `SectionsCompleteHolds`, for a harmless file: when a section ends, its passing
  lines and no others have been written and counted.

Every step but one moves a batch from one queue or hand to another, for which
`Facts` has what there is to say about queues (`HeadTaken`, `EndAdded`, `TopAdded`) and about
a batch that moves (`OneMoves`). The exception is `Receive`, which writes into a
position of the deque and would lose what is there. So `IInv` also has `Numbers`
(batches under way have different sequence numbers, between `base_sequence` and
`sequence`, and a batch in the deque stands where its number says) and
`InputIsFresh` (the batch `input_` points into has a number above all of these).
What the filter does to a batch's lines plays no part.

The order is a second layer, `OrderInv`. The sequence numbers cut the lines read so
far: there is a function `cut` such that `cut[q]` lines come before the batch with
number `q`. `Cuts` says that the batch `b` holds the lines from `cut[Number(b)]` to the next cut,
that a number without a batch cuts nothing off (`Flush` gives an empty `input_`
a number it will not send), and that what is written are the passing
lines up to `cut[base_sequence]`. `Contents` says that what a batch has
annotated are the passing lines among its own, and that the line its buffer
remembers is not ahead of them, so that `SingleAddNGram` takes two lines for one only
if they have equal lengths. `AtRest`: while a section begins and ends, and when an ARPA
file's pools are destroyed, nothing is under way. `RawReading`: a raw file, which is not
flushed, has full batches but for the last, and no number without a batch.
`Counting` ties `fast_counter_` and the counts to the sections. Then all lines are
written when no batch holds any (`AllWritten`), which gives both properties.

`Harmless` is what excludes two of the findings of section 5: a raw file fills its last batch, and
lines that are for some of the sentences differ in length. The file of
`filter_full` need not be excluded: there the program waits for ever, but what it has
written is right, and so are the ends of its sections. `HarmlessFilesAre` has TLC evaluate that the files of `filter` are harmless. The
operators on lines (`Through`, `KeptThrough`, `FilterLine`, `Annotate`, `LinesIn`) are
recursive functions on `0 .. n`, about which `UpTo` and `RecursionExists` of `Facts` allow to
reason step by step (`ThroughIs`, `KeptIs`, `LinesInIs`, `AnnotateIs`).

**ServerProofs**, for any finite numbers of handlers, requests and decoders, any
queue sizes and clients (`ServerAssumption`):

- `RequestsConservedHolds`: each `SentenceRequest` is in one place and none is lost.
- `BackendCleanHolds`: a handler between connections has left nothing behind.
- `RepliesInOrderHolds`: what has been written to a client's stream are the answers
  to its sentences, in order, each under the configuration in force when the sentence was sent.
- `AnsweredBeforeCloseHolds`: when the connection of a client that is still there is
  closed, all its answers have been written and none is left in the buffer.

The first two need each other. `Reset` clears what an output thread holds back, so
requests are conserved only because nothing is held back then; and that follows
from counting: the requests of a connection that are not freed (`Of(h)`) and
`counter_` add up to `sequence_`, so `~Connection`, which waits until `counter_` has
reached `sequence_`, waits until `Of(h)` is empty. Only behind that is the stream
destroyed, which pushes what its buffer has. `IInv` is the partition of the
requests over their places, the states of the threads, `Owners` (from `Reset` by
`Aligned` until it is freed, a request names the handler whose output it goes
to) and `Backend(h)`: the sum above, numbers of one connection that differ and lie
between `base_` and `sequence_` (but for the one being written), and held back
requests at the position of their number. That makes the position `Receive`
writes to free. There is one lemma for each step that moves a request; all other
steps are `QuietKeeps`. A finite sequence that lists a finite set
(`SequenceOfAll`) and the one entry of `Places` (`OneSpot`) are the lemmas at both ends.

The last two are a second layer over this one, `Answering`. A connection is with the acceptor, in the
queue or with one handler, and so is its client (`Connections`); `Histories` says
that a client in the queue has sent and got nothing. While handler `h` serves a client, `Answers(h)` ties the handler's
counters to that client: `sequence_` is the number of sentences sent, `base_` the number of
replies, and each request under way carries the sentence at its own position,
the configuration of that time and, once decoded, that sentence's list. The
deque holds a request at the position of its number, so what is written next is the
answer to the next sentence. Serving ends when nothing is under way, hence
`counter_`, `base_` and `sequence_` agree then; and `CloseConnection` is possible only when
the buffer has been pushed, so that `delivered` is that number too.

TLC alone checks all liveness (fairness and `ENABLED` are beyond the prover); the
whole of the vocabulary and phrase filters, `Estimation` and `Chart`; of `Decoder`, how good the
listed sentences are (`BestScoreFound` and `ListHasTheBest`, which compare them with
all beginnings of sentences that a recursive function collects); and what the recursive functions of
`PhraseFilter`, `Sort` and `LanguageModel` compute. That the decoder's loop ends
is not a theorem itself: `EachWordUsesWordsHolds` is the step, from which it
follows as the words are finitely many.

## 5. What the runs found

Four runs state what a comment or a help text says and end in a violation:

- `server_reset`: `Reset` of an `OutputBackend` "should be threadsafe", but the
  output thread posts `counter_` before it evaluates its loop condition once
  more, and the post lets the next connection call `Reset`
  (`OutputHandler.hh:37`, `:56`).
- `filter_full`: a section that exactly fills its last batch, followed by
  another section, makes `Flush` skip a sequence number; the output thread waits
  for it for ever, and so in the end does the reader (`thread.hh:137`).
- `filter_same`: in multiple mode "a separate file is created for each sentence"
  (`filter_main.cc:29`). `MultipleOutputBuffer` takes two calls for calls about one line
  if the address and the length are equal (`format.hh:212`). Batches are reused,
  with their strings, and `last_` is not reset; so a line can be taken for the one
  that the batch annotated last an earlier time round, and is lost (or, where
  it is the first of its batch, the back of an empty vector is written to).
- `estimation_stats`: counts of counts are about adjusted counts ("`n_1` in
  equation 26 of Chen and Goodman", `adjust_counts.cc:93`), but n-grams still
  pending at the end of the input are counted by their plain count (`:340`), and
  discounts are computed from that.

The passing runs use the same models: `filter` takes files that avoid the cases of
the two filter runs, and `AdjustedRight` leaves the counts of counts out.

Also met, without a run:

- A partial history's score is that "of best sentence subject to
  ending with `*packed_` and `node_` followed by `path_`" (`EndBeam.cc:171`), but
  predecessors are ordered by their own scores, and what an arc adds can depend
  on the predecessor (the language model forgets words when states merge). The
  path followed then need not be the one the score came from, and a sentence is
  listed with the score of another, the one-best included. The properties of
  the search say what holds in spite of it: `BestScoreFound` is about the score,
  and `ListHasTheBest` has the premise `Even`.
- Unless a client asks for `flush_nbest`, the server leaves an n-best list in the buffer of the
  connection's stream (`MEMT/Output/NBest.cc:54`, `Output/Options.cc:45`) until more is
  written than it holds, an error or feature_info is flushed, or the connection
  is closed. A client that waits for its answer before it sends more or closes
  may wait for ever, and the server with it. `decode.rb` does not: it sends all
  its sentences and "bye" while another thread reads. `EverySentenceAnswered` promises
  no more than that.
- `operator>>(Chain &, Stream &)` runs `Stream::Init` on the caller's thread, which passes
  empty blocks on until there is one with a record (`stream.hh:18`, `:53`, `:70`). If a
  worker before it empties the first `block_count` blocks, all blocks are behind it,
  the recycler that would give them back is yet to be added, and the program
  hangs. `AllSkipped` are those rounds, with them the one where a `Stream` source ends just
  there with an empty block; `WaitComesBack` is about all others.
- A `Stream` that is destroyed after its chain's `Wait`, the way `stream_test.cc` uses
  one, hangs `Wait` if the source delivers nothing: its `Link` passes the poison on
  in its destructor only. `Chain` has the case as `StreamOutlivesChain`; the run sets it to
  FALSE, which is how the other callers do it.
- `CollapseStream::operator++` looks at, and may mark, the place after the last n-gram
  when the input has ended (`adjust_counts.cc:158`), which lies in another block or
  behind the chain's memory. `AdjustCounts` leaves that place alone.
- A backoff that no longer n-gram goes on from is charged by `NonTerminal` as soon
  as fragments are joined, not with the next word; `ScoreRight` therefore adds what
  is due.
- `ReadMultiple` of both filters passes over empty lines when it numbers sentences,
  while the help speaks of the "0-indexed line number" (`phrase.cc:17`, `vocab.cc:34`).
- `CountFormat::RunFilter` never flushes: with several threads the lines of the
  last batch are missing from the output when that batch is not full
  (`format.hh:129`). `FilterController` behaves so too, and the raw file of `filter`
  fills its last batch.
- `MaxClear` looks for the first unused word instead of the first used one, so a
  phrase that is already broken can be entered, against the comment in
  `Phrase/Hypothesis.hh:51`, and an unbroken one that ends further than the word
  after the frontier cannot be (`Horizon/Hypothesis.hh:66`). `Coverage` and
  `Phrase` follow the code.
- `EnforceNewConstraints` withdraws votes by comparing with its own frontier
  though they were cast by comparing with the other engine's; the tallies drift
  from the votes, and an engine can stay without the votes that
  `Horizon/Options.cc:36` requires (`Horizon/Hypothesis.cc:159`).
- `EnforceNewConstraints` compares sums of doubles with the threshold, which with
  uniform weights falls short for 6 and 7 engines always, and for 3 and 5 once
  some have run off. `Horizon` has exact integer weights, and therefore claims
  nothing about hypotheses being dropped by the alignment method.
- `sentences`, the "set of sentences for duplicate removal" (`EndBeam.cc:191`), holds
  pointers to crumbs that were just made, so no sentence is ever removed;
  `HashCrumbByWord` and `EqualCrumbByWord`, which would compare words, are not used
  (and the loop of the latter does not advance). `Complete` removes none either.
- A full beam rejects by score before it looks for a duplicate, where `n_best.hh:583`
  says that the hypothesis "will still be merged". `KeepsTheBest` shows that no
  class has a worse score for it, but the histories of the rejected are lost.
- `kLocationRelevant` is false, so hypotheses that differ only in the word appended
  last are merged, although `continue_recent` extends from that word.
- `MakeAlignmentsTransitive` always returns true though `Transitive.hh:8` promises
  false for a conflict (nobody reads the result).

## 6. What is not modelled

- How features score. `Decoder` takes what an arc adds as given, with the length
  feature in it, and keeps the overall score only. `Legacy` follows every path
  and does not recombine, so that `continue_recent`, off by default, is checked
  without merging.
- `NullDupe` and `SortedNBest` of `n_best.hh`, which the decoder does not use; hash
  collisions; the dumper of beams.
- Clients that stall: the server has no timeouts, so one that never reads, or
  announces a sentence and sends no data, keeps its handler, and a request or a
  decoder with it. `server_live` assumes that there are none. A client that stops
  reading at "error" is not observed; answers written after it count like others.
- What a full internal beam drops: `BestScoreFound` and `ListHasTheBest` are about
  beams wide enough (`Wide`). That a narrow one drops the worst is said of `NBest` alone
  (`KeepsTheBest`).
- Parsing and formatting: commands, options, matcher lines, n-best lists, ARPA
  headers. Where they can fail, the failure is an action (`AlignedFails`,
  `BadCommand`).
- Rounding of stay weights; the right bound of the horizon, which is computed
  but never read; `PHRASE_SOURCE_CHUNK`, which nothing detects; `MEMT/Strategy/Graph`,
  which is unfinished and not built.
- Matchings that are not one-to-one: the matcher produces none (`OneToOne`, an
  external assumption, the part of `MatcherOutput` that the reader does not check). Lines that break it overwrite each other, as the assert
  in `Alignment.cc:14` is compiled out.
- In the filter: copy mode, I/O errors, what ARPA headers look like,
  `phrase_table_vocab_main.cc`. Hashes of words and phrases do not collide.
- In `util/stream`: how much memory a block gets, progress output, `line_input`,
  chains in groups. In `Estimation` a chain is a queue of blocks that never fills,
  which `OnlyInputIsAwaited` shows it may be.
- In `lm`: collisions of hashes, the trie and the quantised models, `LowerRestBuild`,
  the binary format, `RevealBefore` and `RevealAfter`. In `lm/builder`: initial probabilities (except the
  stream that prunes, a worker of `Chain`), discounts, interpolation and
  printing: floating point over sorted streams.
- Failures of memory, threads and of constructing streams; scripts, except for
  the protocol `decode.rb` speaks.

The modules cover a small share of the lines under `src/`, and could not cover most of
them: nearly half of the implementation is the sources of a build tool
(`jam-files/engine`, 30 000 lines), and `util/double-conversion` is another 6 000, both
third-party code. Of MEMT's own code and KenLM's, what has state that can go wrong
over several steps is modelled; what is left is arithmetic on floating point
numbers, parsing and formatting, memory mapping and bit packing, where a model
would say the code over again.

## 7. Plan

Done: PCQueue, ThreadPool, Coverage, Input, Phrase, Horizon and Legacy, NBest, Chain,
Server and FilterController (with both kinds of output), each with proofs; the
vocabulary and phrase filters; Decoder, its list with a proof; Sort and estimation up to the adjusted
counts; the language model and its chart. In order, what would add most:

1. **Votes with rounding**: binary rounding to a few bits in place of integers.
2. **Decoder over Legacy**: arcs from the extensions of `Legacy` instead of a
   constant, so that recombination meets `continue_recent`.
3. **Interpolation** (`lm/builder/interpolate.cc`): the merge of streams of all orders by prefix.
4. **Proofs**: of the search, that the first score is the best (`BestScoreFound`), from the
   layers that `PathsInOrder` rests on.
