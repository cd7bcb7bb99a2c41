-------------------------------- MODULE Sort --------------------------------
(***************************************************************************)
(* External sorting (util/stream/sort.hh), here of n-grams by SuffixOrder  *)
(* with AddCombiner: blocks are sorted as they pass and written to a file, *)
(* the lengths of the sorted runs to a log; passes merge as many runs as   *)
(* memory allows until what is left can be merged while it is read.        *)
(*                                                                         *)
(* Lengths and memory are in bytes, an n-gram has EntrySize of them.  A    *)
(* file is what it holds and where its next write goes, the latter as      *)
(* pread leaves it alone.                                                  *)
(***************************************************************************)
EXTENDS NGrams, SequencesExt

CONSTANTS EntrySize,
          Memories   \* [buffer, total, lazy]: SortConfig and what Merge is given

ASSUME SortAssumption ==
  /\ EntrySize \in Nat \ {0}
  \* What the constructor demands, with buffer_size rounded down already.
  /\ \A m \in Memories : /\ m.buffer \in Nat \ {0} /\ m.buffer % EntrySize = 0
                         /\ m.total \in Nat /\ m.total >= 4 * m.buffer
                         /\ m.lazy \in Nat

VARIABLES
  memory,        \* config_ and lazy_memory
  data, spare,   \* the files fd_in and fd_out: [grams, position]
  offsets, offsets_out,  \* their Offsets
  sorting,       \* where Sort is
  buffered,      \* bytes of the reading memory given to runs
  per_buffer,
  merging,       \* MergeQueue: the runs, as their records from Current() on
  top,           \* the n-gram str points to, <<>> or <<gram>>
  group,         \* records the merge group has put out
  sorted         \* what Output put into the chain of the next worker

sortFiles == <<data, spare, offsets, offsets_out>>
mergeVars == <<buffered, per_buffer, merging, top, group>>
sortVars == <<memory, sortFiles, sorting, mergeVars, sorted>>

EmptyFile == [grams |-> <<>>, position |-> 0]
Size(f) == Len(f.grams) * EntrySize
Hole == [words |-> <<>>, count |-> 0, marked |-> FALSE]
\* WriteOrThrow: after a hole, if the position is behind the end.
Write(f, s) ==
  LET n == f.position
      length == IF n + Len(s) > Len(f.grams) THEN n + Len(s) ELSE Len(f.grams)
  IN [grams |-> [i \in 1 .. length |-> CASE i \in n + 1 .. n + Len(s) -> s[i - n]
                                         [] i \in 1 .. n /\ i <= Len(f.grams) -> f.grams[i]
                                         [] OTHER -> Hole],
      position |-> n + Len(s)]
Least(m, n) == IF m < n THEN m ELSE n
Greatest(m, n) == IF m > n THEN m ELSE n
-----------------------------------------------------------------------------
(* Offsets: a log of [length, run], run blocks of that length in a row.    *)

NoEntry == [length |-> 0, run |-> 0]
NoOffsets == [log |-> <<>>, cur |-> NoEntry, block_count |-> 0, output_sum |-> 0]

LogAppend(o, length) ==
  IF length = 0 THEN o
  ELSE IF length = o.cur.length
    THEN [o EXCEPT !.block_count = @ + 1, !.cur.run = @ + 1]
    ELSE [o EXCEPT !.block_count = @ + 1, !.log = Append(@, o.cur),
                   !.cur = [length |-> length, run |-> 1]]

\* The log is now read: the entry of length 0 at its beginning is passed over.
FinishedAppending(o) ==
  LET log == Append(o.log, o.cur) IN
  IF o.block_count = 0 THEN [o EXCEPT !.log = <<>>, !.cur.run = 0]
                       ELSE [o EXCEPT !.log = Tail(Tail(log)), !.cur = log[2]]

\* NextSize, which returns cur.length.
NextSize(o) ==
  LET last == o.cur.run = 1 /\ o.block_count > 1 IN
  [log |-> IF last THEN Tail(o.log) ELSE o.log,
   cur |-> IF last THEN Head(o.log) ELSE [o.cur EXCEPT !.run = @ - 1],
   block_count |-> o.block_count - 1,
   output_sum |-> o.output_sum + o.cur.length]

\* The records of the next run in the file.
NextRun(f, o) == SubSeq(f.grams, o.output_sum \div EntrySize + 1,
                        (o.output_sum + o.cur.length) \div EntrySize)
-----------------------------------------------------------------------------
SortInit ==
  /\ memory \in Memories
  /\ data = EmptyFile /\ spare = EmptyFile
  /\ offsets = NoOffsets /\ offsets_out = NoOffsets
  /\ sorting = "unsorted"
  /\ buffered = 0 /\ per_buffer = 0 /\ merging = <<>> /\ top = <<>> /\ group = 0
  /\ sorted = <<>>

InOrder(g, h) == SuffixOrder(g.words, h.words)

\* BlockSorter and WriteAndRecycle.
SortBlock(block) ==
  /\ sorting = "unsorted"
  /\ offsets' = LogAppend(offsets, Len(block) * EntrySize)
  /\ data' = Write(data, SortSeq(block, InOrder))
  /\ UNCHANGED <<memory, spare, offsets_out, sorting, mergeVars, sorted>>

\* The poison has come to BlockSorter.
SortedBlocks ==
  /\ sorting = "unsorted"
  /\ offsets' = FinishedAppending(offsets)
  /\ sorting' = "merge"
  /\ UNCHANGED <<memory, data, spare, offsets_out, mergeVars, sorted>>

\* Mutant: one pass too many, and another, and another.
PassNeededAtLeast ==
  /\ offsets.block_count >= Greatest(1, memory.lazy \div memory.buffer)
  /\ Size(data) > memory.lazy
\* Is a pass needed before what is left can be merged in memory.lazy?
PassNeeded ==
  /\ offsets.block_count > 1
  /\ offsets.block_count > Greatest(1, memory.lazy \div memory.buffer)
  /\ Size(data) > memory.lazy

\* Merge returns the memory that Output will use; Output calls Merge again
\* with that.
MergeReturns ==
  /\ sorting = "merge" /\ ~PassNeeded
  /\ memory' = [memory EXCEPT !.lazy =
       IF offsets.block_count <= 1 THEN 0
       ELSE Least(Size(data), offsets.block_count * memory.buffer)]
  /\ sorting' = "output"
  /\ UNCHANGED <<sortFiles, mergeVars, sorted>>

\* Mutant: fd_in is not rewound, so the next pass but one writes behind a hole.
StartPassNoSeek ==
  /\ sorting \in {"merge", "output"} /\ PassNeeded
  /\ buffered' = 0
  /\ sorting' = IF sorting = "merge" THEN "pass" ELSE "output pass"
  /\ UNCHANGED <<memory, data, spare, offsets, offsets_out, per_buffer, merging, top, group, sorted>>
\* SeekOrThrow(fd_in, 0), and the MergingReader starts.
StartPass ==
  /\ sorting \in {"merge", "output"} /\ PassNeeded
  /\ data' = [data EXCEPT !.position = 0]
  /\ buffered' = 0
  /\ sorting' = IF sorting = "merge" THEN "pass" ELSE "output pass"
  /\ UNCHANGED <<memory, spare, offsets, offsets_out, per_buffer, merging, top, group, sorted>>

Passing == sorting \in {"pass", "output pass"}
\* The memory to read into: total_memory_ of the MergingReader.
ReadingMemory == IF sorting = "lazy" THEN memory.lazy
                 ELSE Least(memory.total - 2 * memory.buffer, Size(data))
\* per_buffer of a new merge group.
PerBuffer(remaining) ==
  LET b == Greatest(memory.buffer, ReadingMemory \div remaining)
  IN b - (b % EntrySize)

\* One turn of the loop that fills the queue; the first of a group computes
\* per_buffer.
PushRun ==
  /\ Passing \/ sorting = "lazy"
  /\ top = <<>> /\ offsets.block_count > 0
  /\ per_buffer' = IF merging = <<>> THEN PerBuffer(offsets.block_count) ELSE per_buffer
  /\ buffered + Least(per_buffer', offsets.cur.length) <= ReadingMemory
  /\ merging' = Append(merging, NextRun(data, offsets))
  /\ buffered' = buffered + Least(per_buffer', offsets.cur.length)
  /\ offsets' = NextSize(offsets)
  /\ UNCHANGED <<memory, data, spare, offsets_out, sorting, top, group, sorted>>

\* The queue takes no more.
Filled ==
  /\ merging # <<>> /\ top = <<>>
  /\ offsets.block_count > 0 =>
       buffered + Least(per_buffer, offsets.cur.length) > ReadingMemory

\* "Bug in sort implementation": MergingReader::Run aborts.
SortBug == offsets.block_count > 0 /\ (Len(merging) < 2 \/ sorting = "lazy")

\* MergeQueue::Top and Pop.
TopRun == CHOOSE k \in DOMAIN merging :
            \A j \in DOMAIN merging : ~InOrder(Head(merging[j]), Head(merging[k]))
Top == Head(merging[TopRun])
Pop == merging' = IF Len(merging[TopRun]) = 1 THEN RemoveAt(merging, TopRun)
                                            ELSE [merging EXCEPT ![TopRun] = Tail(@)]

\* Records go to the file of the pass, or to the next worker.
Emit(s) ==
  IF Passing THEN spare' = Write(spare, s) /\ UNCHANGED sorted
             ELSE sorted' = sorted \o s /\ UNCHANGED spare

\* The model stops where the code would abort.
StartGroup ==
  /\ Filled /\ ~SortBug
  /\ top' = <<Top>> /\ Pop /\ group' = 0
  /\ UNCHANGED <<memory, sortFiles, sorting, buffered, per_buffer, sorted>>

\* combine_ adds the count of a record like the last one to it; any other
\* record is the next that str points to.
MergeTop ==
  /\ top # <<>> /\ merging # <<>> /\ Pop
  /\ IF Top.words = top[1].words
       THEN /\ top' = <<[top[1] EXCEPT !.count = @ + Top.count]>>
            /\ UNCHANGED <<group, spare, sorted>>
       ELSE top' = <<Top>> /\ Emit(top) /\ group' = group + 1
  /\ UNCHANGED <<memory, data, offsets, offsets_out, sorting, buffered, per_buffer>>

EndGroup ==
  /\ top # <<>> /\ merging = <<>>
  /\ Emit(top) /\ top' = <<>> /\ group' = 0
  /\ offsets_out' = IF Passing THEN LogAppend(offsets_out, (group + 1) * EntrySize)
                               ELSE offsets_out
  /\ buffered' = 0
  /\ UNCHANGED <<memory, data, offsets, sorting, per_buffer, merging>>

\* chain.Wait returns: what was merged is truncated and written to in the next
\* pass.
EndPass ==
  /\ Passing /\ top = <<>> /\ merging = <<>> /\ offsets.block_count = 0
  /\ data' = spare
  /\ spare' = [data EXCEPT !.grams = <<>>]
  /\ offsets' = FinishedAppending(offsets_out)
  /\ offsets_out' = NoOffsets
  /\ sorting' = IF sorting = "pass" THEN "merge" ELSE "output"
  /\ UNCHANGED <<memory, mergeVars, sorted>>

\* Output: a single run is just read, more are merged as the next worker reads.
StartOutput ==
  /\ sorting = "output" /\ ~PassNeeded
  /\ IF offsets.block_count <= 1
       THEN /\ sorted' = (IF offsets.block_count = 0 THEN <<>> ELSE NextRun(data, offsets))
            /\ sorting' = "done"
       ELSE sorting' = "lazy" /\ UNCHANGED sorted
  /\ buffered' = 0
  /\ UNCHANGED <<memory, sortFiles, per_buffer, merging, top, group>>

EndOutput ==
  /\ sorting = "lazy" /\ top = <<>> /\ merging = <<>> /\ offsets.block_count = 0
  /\ sorting' = "done"
  /\ UNCHANGED <<memory, sortFiles, mergeVars, sorted>>

\* All but the blocks' coming in.
SortNext ==
  \/ MergeReturns \/ StartPass \/ PushRun \/ StartGroup \/ MergeTop \/ EndGroup
  \/ EndPass \/ StartOutput \/ EndOutput
=============================================================================
