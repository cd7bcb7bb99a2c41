----------------------- MODULE FilterControllerProofs -----------------------
(***************************************************************************)
(* Each batch of the filter is in one place, and what is written is what   *)
(* passes, in order and counted in its section, for every number of        *)
(* threads, every batch size and every file; the order for harmless files. *)
(*                                                                         *)
(* Places.  Most steps move one batch from one place to another.  The step *)
(* that could lose one is Receive, which writes over a position of the     *)
(* deque: it needs that two batches under way never have one sequence      *)
(* number, hence that the batch input_ points into has a number above all  *)
(* of them (IInv).  What the filter does to the contents plays no part.    *)
(*                                                                         *)
(* Order.  The sequence numbers cut the lines read so far: cut[q] of them  *)
(* come before the batch with number q.  A batch holds the lines between   *)
(* its cut and the next, then what passes of them; what is written are the *)
(* passing lines up to the cut of base_sequence_.  A number given to an    *)
(* empty batch cuts nothing off.  So lines are written up to the last cut  *)
(* when no batch that holds lines is under way, which is what Flush waits  *)
(* for, and the joins and the full batches of a raw file (OrderInv).       *)
(* SingleAddNGram takes a line for the one annotated last only if it is,   *)
(* as the line annotated last by a batch is never ahead of its own lines.  *)
(***************************************************************************)
EXTENDS FilterController, Facts, SequenceTheorems, TLAPS

Names == {"reader", "filter", "threads", "output", "deque", "back"}
\* The batches in each place.
At == [p \in Names |->
         IF p = "reader" THEN ToSet(local_read)
         ELSE IF p = "filter" THEN ToSet(filter_in)
         ELSE IF p = "threads" THEN {filtering[w] : w \in FilterThreads} \ {NoBatch}
         ELSE IF p = "output" THEN ToSet(output_in)
         ELSE IF p = "deque" THEN ToSet(ordering) \ {NoBatch}
         ELSE ToSet(to_read)]

\* No batch is twice in a queue or in two threads' hands.
Queues ==
  /\ local_read \in Seq(Batches) /\ IsInjective(local_read)
  /\ filter_in \in Seq(Batches) /\ IsInjective(filter_in)
  /\ output_in \in Seq(Batches) /\ IsInjective(output_in)
  /\ to_read \in Seq(Batches) /\ IsInjective(to_read)
  /\ ordering \in Seq(Batches \cup {NoBatch})
  /\ filtering \in [FilterThreads -> Batches \cup {NoBatch}]
  /\ \A v, w \in FilterThreads : filtering[v] = filtering[w] /\ filtering[v] # NoBatch => v = w
  /\ filtered \subseteq FilterThreads /\ \A w \in filtered : filtering[w] # NoBatch

\* Sent to the filter threads and not yet written.
UnderWay == At["filter"] \cup At["threads"] \cup At["output"] \cup At["deque"]
\* Those whose CallFilter returned.
Filtered == {filtering[w] : w \in filtered} \cup At["output"] \cup At["deque"]
Number(b) == batch[b].sequence

Numbers ==
  /\ sequence \in Nat /\ base_sequence \in Nat /\ base_sequence <= sequence
  /\ \E S : batch \in [Batches -> [sequence : Nat, input : S, output : S]]
  /\ \A b \in UnderWay : base_sequence <= Number(b) /\ Number(b) < sequence
  /\ \A b, c \in UnderWay : Number(b) = Number(c) => b = c
  /\ \A i \in 1 .. Len(ordering) :
       ordering[i] # NoBatch => Number(ordering[i]) = base_sequence + i - 1

\* Except while the reader waits for batches, input_ points into its top batch,
\* which has the number that was given out last.
InputIsFresh ==
  reader \notin {"new", "drain"} =>
    /\ local_read # <<>> /\ input = local_read[1]
    /\ Number(input) + 1 = sequence /\ base_sequence < sequence
    /\ \A b \in UnderWay : Number(b) + 1 < sequence

IInv == Partition(At, Names, Batches) /\ Queues /\ Numbers /\ InputIsFresh
-----------------------------------------------------------------------------
\* At at each of its names.
LEMMA AtNames ==
  /\ At["reader"] = ToSet(local_read) /\ At["filter"] = ToSet(filter_in)
  /\ At["threads"] = {filtering[w] : w \in FilterThreads} \ {NoBatch}
  /\ At["output"] = ToSet(output_in) /\ At["deque"] = ToSet(ordering) \ {NoBatch}
  /\ At["back"] = ToSet(to_read)
BY DEF At, Names

\* The property, from the partition.
LEMMA OwnedOnce == IInv => BatchOwnedOnce
<1> SUFFICES ASSUME IInv PROVE BatchOwnedOnce
  OBVIOUS
<1> DEFINE Places == <<ToSet(local_read), ToSet(filter_in), ToSet(output_in),
                       ToSet(to_read), ToSet(ordering) \ {NoBatch},
                       {filtering[w] : w \in FilterThreads} \ {NoBatch}>>
           NameOf == <<"reader", "filter", "output", "back", "deque", "threads">>
<1>1. DOMAIN Places = 1 .. 6 /\ ToSet(Places) = {Places[i] : i \in 1 .. 6}
  BY DEF ToSet
<1>2. \A i \in 1 .. 6 : NameOf[i] \in Names /\ Places[i] = At[NameOf[i]]
  <2>1. /\ Places[1] = At["reader"] /\ Places[2] = At["filter"] /\ Places[3] = At["output"]
        /\ Places[4] = At["back"] /\ Places[5] = At["deque"] /\ Places[6] = At["threads"]
    BY AtNames
  <2>2. /\ NameOf[1] = "reader" /\ NameOf[2] = "filter" /\ NameOf[3] = "output"
        /\ NameOf[4] = "back" /\ NameOf[5] = "deque" /\ NameOf[6] = "threads"
    OBVIOUS
  <2> HIDE DEF Places, NameOf
  <2>3. \A i \in 1 .. 6 : i = 1 \/ i = 2 \/ i = 3 \/ i = 4 \/ i = 5 \/ i = 6
    OBVIOUS
  <2> QED
    BY <2>1, <2>2, <2>3 DEF Names
<1>3. \A i, j \in 1 .. 6 : i # j => NameOf[i] # NameOf[j]
  OBVIOUS
<1>4. \A n \in Names : \E i \in 1 .. 6 : n = NameOf[i]
  <2>1. /\ NameOf[1] = "reader" /\ NameOf[2] = "filter" /\ NameOf[3] = "output"
        /\ NameOf[4] = "back" /\ NameOf[5] = "deque" /\ NameOf[6] = "threads"
    OBVIOUS
  <2> HIDE DEF NameOf
  <2> QED
    BY <2>1 DEF Names
<1> HIDE DEF Places, NameOf
<1>5. \A i, j \in 1 .. 6 : i # j => Places[i] \cap Places[j] = {}
  BY <1>2, <1>3 DEF IInv, Partition
<1>6. UNION ToSet(Places) = Batches
  <2>1. UNION ToSet(Places) \subseteq Batches
    BY <1>1, <1>2 DEF IInv, Partition
  <2>2. \A b \in Batches : \E i \in 1 .. 6 : b \in Places[i]
    BY <1>2, <1>4 DEF IInv, Partition
  <2> QED
    BY <1>1, <2>1, <2>2
<1>7. reader \in {"read", "full"} => input = Head(local_read)
  BY DEF IInv, InputIsFresh, Queues
<1>8. \A w, v \in FilterThreads : filtering[w] = filtering[v] /\ filtering[w] # NoBatch => w = v
  BY DEF IInv, Queues
<1>9. \A i, j \in DOMAIN Places : i # j => Places[i] \cap Places[j] = {}
  BY <1>1, <1>5
<1> QED
  <2>1. BatchOwnedOnce <=> /\ UNION ToSet(Places) = Batches
                           /\ \A i, j \in DOMAIN Places : i # j => Places[i] \cap Places[j] = {}
                           /\ \A w, v \in FilterThreads :
                                filtering[w] = filtering[v] /\ filtering[w] # NoBatch => w = v
                           /\ reader \in {"read", "full"} => input = Head(local_read)
    BY ZenonT(30) DEF BatchOwnedOnce, Places
  <2> QED
    BY <1>6, <1>7, <1>8, <1>9, <2>1
-----------------------------------------------------------------------------
\* What is read into a batch or annotated does not change its number.
LEMMA ContentsChange ==
  ASSUME NEW S, batch \in [Batches -> [sequence : Nat, input : S, output : S]],
         NEW b \in Batches, NEW x,
         \/ batch' = [batch EXCEPT ![b].input = x]
         \/ batch' = [batch EXCEPT ![b].output = x]
  PROVE  /\ \E T : batch' \in [Batches -> [sequence : Nat, input : T, output : T]]
         /\ \A c \in Batches : Number(c)' = Number(c)
<1> DEFINE T == S \cup {x}
<1>1. \A c \in Batches : batch[c] \in [sequence : Nat, input : T, output : T]
  OBVIOUS
<1>2. \A c \in Batches : /\ batch'[c] \in [sequence : Nat, input : T, output : T]
                         /\ batch'[c].sequence = batch[c].sequence
  <2>1. CASE batch' = [batch EXCEPT ![b].input = x]
    BY <1>1, <2>1
  <2>2. CASE batch' = [batch EXCEPT ![b].output = x]
    BY <1>1, <2>2
  <2> QED
    BY <2>1, <2>2
<1>3. batch' \in [Batches -> [sequence : Nat, input : T, output : T]]
  BY <1>2
<1> QED
  BY <1>2, <1>3 DEF Number

\* The batches under way are batches.
LEMMA UnderWayAreBatches ==
  ASSUME Partition(At, Names, Batches)
  PROVE  UnderWay \subseteq Batches /\ \A b \in At["reader"] \cup At["back"] : b \notin UnderWay
BY DEF Partition, UnderWay, Names

\* Numbers that nobody changes, of the same batches under way or fewer.
LEMMA NumbersKept ==
  ASSUME IInv, UNCHANGED <<sequence, base_sequence, ordering>>,
         \E T : batch' \in [Batches -> [sequence : Nat, input : T, output : T]],
         \A b \in Batches : Number(b)' = Number(b),
         UnderWay' \subseteq UnderWay
  PROVE  Numbers'
<1>1. UnderWay \subseteq Batches
  BY UnderWayAreBatches DEF IInv
<1>2. \A i \in 1 .. Len(ordering) : ordering[i] # NoBatch => ordering[i] \in Batches
  BY DEF IInv, Queues
<1>3. \A i \in 1 .. Len(ordering') :
         ordering'[i] # NoBatch => batch'[ordering'[i]].sequence = base_sequence' + i - 1
  BY <1>2 DEF IInv, Numbers, Number
<1>4. \A b \in UnderWay' : base_sequence' <= batch'[b].sequence /\ batch'[b].sequence < sequence'
  BY <1>1 DEF IInv, Numbers, Number
<1>5. \A b, c \in UnderWay' : batch'[b].sequence = batch'[c].sequence => b = c
  BY <1>1 DEF IInv, Numbers, Number
<1>6. sequence' \in Nat /\ base_sequence' \in Nat /\ base_sequence' <= sequence'
  BY DEF IInv, Numbers
<1> QED
  BY <1>3, <1>4, <1>5, <1>6 DEF Numbers, Number

LEMMA FreshKept ==
  ASSUME IInv, UNCHANGED <<local_read, input, sequence>>,
         base_sequence' = base_sequence,
         \A b \in Batches : Number(b)' = Number(b),
         UnderWay' \subseteq UnderWay,
         reader' \in {"new", "drain"} \/ reader \notin {"new", "drain"}
  PROVE  InputIsFresh'
<1>1. UnderWay \subseteq Batches
  BY UnderWayAreBatches DEF IInv
<1>2. SUFFICES ASSUME reader \notin {"new", "drain"} PROVE InputIsFresh'
  BY DEF InputIsFresh
<1>3. local_read[1] \in Batches
  BY <1>2 DEF IInv, InputIsFresh, Queues
<1> QED
  BY <1>1, <1>2, <1>3 DEF IInv, InputIsFresh

\* A step that moves no batch and gives none a number.
LEMMA QuietKeeps ==
  ASSUME IInv,
         UNCHANGED <<local_read, input, sequence, filter_in, output_in, to_read,
                     filtering, ordering, base_sequence>>,
         filtered' \subseteq FilterThreads, \A w \in filtered' : filtering[w] # NoBatch,
         \E T : batch' \in [Batches -> [sequence : Nat, input : T, output : T]],
         \A b \in Batches : Number(b)' = Number(b),
         reader' \in {"new", "drain"} \/ reader \notin {"new", "drain"}
  PROVE  IInv'
<1>1. At' = At
  BY DEF At
<1>2. UnderWay' = UnderWay
  BY <1>1 DEF UnderWay
<1>3. Partition(At, Names, Batches)'
  BY <1>1 DEF IInv, Partition
<1>4. Queues'
  BY DEF IInv, Queues
<1> QED
  BY <1>2, <1>3, <1>4, NumbersKept, FreshKept DEF IInv
-----------------------------------------------------------------------------
\* At first the reader has all batches.
LEMMA Starts == Init => IInv
<1> SUFFICES ASSUME Init PROVE IInv
  OBVIOUS
<1>1. QueueSize \in Nat /\ QueueSize >= 4 /\ NoBatch \notin Batches
  BY FilterAssumption DEF QueueSize, Batches
<1>2. /\ local_read \in Seq(Batches) /\ Len(local_read) = QueueSize
      /\ \A i \in 1 .. QueueSize : local_read[i] = QueueSize + 1 - i
  <2>1. local_read \in [1 .. QueueSize -> Batches]
    BY <1>1 DEF Init, Batches
  <2> QED
    BY <1>1, <2>1 DEF Init, Batches
<1>3. IsInjective(local_read)
  BY <1>1, <1>2 DEF IsInjective
<1>4. ToSet(local_read) = Batches
  <2>1. DOMAIN local_read = 1 .. QueueSize
    BY <1>2
  <2>2. \A b \in Batches : QueueSize + 1 - b \in 1 .. QueueSize /\ local_read[QueueSize + 1 - b] = b
    BY <1>1, <1>2 DEF Batches
  <2> QED
    BY <1>2, <2>1, <2>2 DEF ToSet
<1>5. ToSet(<<>>) = {}
  BY DEF ToSet
<1>6. {filtering[w] : w \in FilterThreads} \ {NoBatch} = {}
  BY DEF Init
<1>7. /\ At["reader"] = Batches
      /\ \A p \in Names \ {"reader"} : At[p] = {}
  BY <1>4, <1>5, <1>6, AtNames DEF Names, Init
<1>8. Partition(At, Names, Batches)
  BY <1>7 DEF Partition, Names
<1>9. UnderWay = {}
  BY <1>7 DEF UnderWay, Names
<1>10. Queues
  <2>1. \A S : <<>> \in Seq(S) /\ IsInjective(<<>>)
    BY DEF IsInjective
  <2>2. filtering \in [FilterThreads -> Batches \cup {NoBatch}]
        /\ \A w \in FilterThreads : filtering[w] = NoBatch
    BY DEF Init
  <2> QED
    BY <1>2, <1>3, <2>1, <2>2 DEF Queues, Init
<1>11. Numbers
  <2>1. batch \in [Batches -> [sequence : Nat, input : {<<>>, EmptyBuffer},
                                output : {<<>>, EmptyBuffer}]]
    BY DEF Init
  <2>2. ordering = <<>> /\ sequence = 1 /\ base_sequence = 0
    BY DEF Init
  <2>3. \E S : batch \in [Batches -> [sequence : Nat, input : S, output : S]]
    BY <2>1
  <2>4. \A b \in UnderWay : FALSE
    BY <1>9
  <2>5. 1 .. Len(ordering) = {}
    BY <2>2
  <2>6. sequence \in Nat /\ base_sequence \in Nat /\ base_sequence <= sequence
    BY <2>2
  <2> QED
    BY <2>3, <2>4, <2>5, <2>6 DEF Numbers
<1>12. InputIsFresh
  <2>1. input = QueueSize /\ local_read[1] = QueueSize /\ QueueSize \in Batches
    BY <1>1, <1>2 DEF Init, Batches
  <2>2. batch[input].sequence = 0 /\ sequence = 1 /\ base_sequence = 0
    BY <2>1 DEF Init
  <2> QED
    BY <1>1, <1>2, <1>9, <2>1, <2>2 DEF InputIsFresh, Number
<1> QED
  BY <1>8, <1>10, <1>11, <1>12 DEF IInv

\* The batch sent to the filter threads has the highest number of all.
LEMMA FlushInputKeeps ==
  ASSUME IInv, FlushInput
  PROVE  IInv' /\ UnderWay' = UnderWay \cup {input} /\ Filtered' = Filtered
<1> DEFINE b == Head(local_read)
<1>1. /\ reader \in {"full", "flush"} /\ reader' \in {"new", "drain"}
      /\ filter_in' = Append(filter_in, b) /\ local_read' = Tail(local_read)
      /\ UNCHANGED <<input, sequence, batch, output_in, to_read, filtering, filtered,
                     ordering, base_sequence>>
  BY DEF FlushInput, filterVars, outputVars
<1>2. /\ local_read \in Seq(Batches) /\ local_read # <<>> /\ IsInjective(local_read)
      /\ filter_in \in Seq(Batches) /\ IsInjective(filter_in)
      /\ Number(local_read[1]) + 1 = sequence /\ base_sequence < sequence
      /\ \A c \in UnderWay : Number(c) + 1 < sequence
  BY <1>1 DEF IInv, Queues, InputIsFresh
<1>3. /\ b = local_read[1] /\ b \in At["reader"] /\ b \in Batches
      /\ local_read' \in Seq(Batches) /\ IsInjective(local_read')
      /\ ToSet(local_read') = ToSet(local_read) \ {b}
  BY <1>1, <1>2, HeadTaken, AtNames
<1> HIDE DEF b
<1>4. b \notin ToSet(filter_in)
  BY <1>3, AtNames DEF IInv, Partition, Names
<1>5. /\ filter_in' \in Seq(Batches) /\ IsInjective(filter_in')
      /\ ToSet(filter_in') = ToSet(filter_in) \cup {b}
  BY <1>1, <1>2, <1>3, <1>4, EndAdded
<1>6. /\ At'["reader"] = At["reader"] \ {b} /\ At'["filter"] = At["filter"] \cup {b}
      /\ \A p \in Names \ {"reader", "filter"} : At'[p] = At[p]
  BY <1>1, <1>3, <1>5 DEF At, Names
<1>7. Partition(At', Names, Batches)
  <2>1. "reader" \in Names /\ "filter" \in Names /\ Partition(At, Names, Batches)
    BY DEF Names, IInv
  <2> QED
    BY <1>3, <1>6, <2>1, OneMoves
<1>8. Queues'
  BY <1>1, <1>3, <1>5 DEF IInv, Queues
<1>9. UnderWay' = UnderWay \cup {b}
  BY <1>6 DEF UnderWay, Names
<1>11. Filtered' = Filtered
  BY <1>1, <1>6 DEF Filtered, Names
<1>12. b = input
  BY <1>1, <1>3 DEF IInv, InputIsFresh
<1>10. Numbers'
  <2>1. Number(b) \in Nat /\ sequence \in Nat /\ base_sequence \in Nat
    BY <1>3 DEF IInv, Numbers, Number
  <2>2. UnderWay \subseteq Batches /\ \A c \in Batches : Number(c) \in Nat
    BY UnderWayAreBatches DEF IInv, Numbers, Number
  <2>3. \A c \in UnderWay : Number(c) < Number(b)
    BY <1>2, <1>3, <2>1, <2>2
  <2>4. \A c \in UnderWay \cup {b} : base_sequence <= Number(c) /\ Number(c) < sequence
    BY <1>2, <1>3, <2>1 DEF IInv, Numbers
  <2>5. \A c, d \in UnderWay \cup {b} : Number(c) = Number(d) => c = d
    BY <2>1, <2>2, <2>3 DEF IInv, Numbers
  <2> QED
    BY <1>1, <1>9, <2>4, <2>5 DEF IInv, Numbers, Number
<1> QED
  BY <1>1, <1>7, <1>8, <1>9, <1>10, <1>11, <1>12 DEF IInv, InputIsFresh

\* A batch given back goes on top of the reader's.
LEMMA MoveReadKeeps ==
  ASSUME IInv, MoveRead
  PROVE  IInv' /\ UnderWay' = UnderWay /\ Filtered' = Filtered
<1> DEFINE b == Head(to_read)
<1>1. /\ reader \in {"new", "drain"} /\ reader' = reader /\ to_read # <<>>
      /\ local_read' = <<b>> \o local_read /\ to_read' = Tail(to_read)
      /\ UNCHANGED <<input, sequence, batch, filter_in, output_in, filtering, filtered,
                     ordering, base_sequence>>
  BY DEF MoveRead, NeedsBatch, filterVars, outputVars
<1>2. /\ local_read \in Seq(Batches) /\ IsInjective(local_read)
      /\ to_read \in Seq(Batches) /\ IsInjective(to_read)
  BY DEF IInv, Queues
<1>3. /\ b \in At["back"] /\ b \in Batches
      /\ to_read' \in Seq(Batches) /\ IsInjective(to_read')
      /\ ToSet(to_read') = ToSet(to_read) \ {b}
  BY <1>1, <1>2, HeadTaken, AtNames
<1> HIDE DEF b
<1>4. b \notin ToSet(local_read)
  BY <1>3, AtNames DEF IInv, Partition, Names
<1>5. /\ local_read' \in Seq(Batches) /\ IsInjective(local_read')
      /\ ToSet(local_read') = ToSet(local_read) \cup {b}
  BY <1>1, <1>2, <1>3, <1>4, TopAdded
<1>6. /\ At'["back"] = At["back"] \ {b} /\ At'["reader"] = At["reader"] \cup {b}
      /\ \A p \in Names \ {"back", "reader"} : At'[p] = At[p]
  BY <1>1, <1>3, <1>5 DEF At, Names
<1>7. Partition(At', Names, Batches)
  <2>1. "reader" \in Names /\ "back" \in Names /\ Partition(At, Names, Batches)
    BY DEF Names, IInv
  <2> QED
    BY <1>3, <1>6, <2>1, OneMoves
<1>8. Queues'
  BY <1>1, <1>3, <1>5 DEF IInv, Queues
<1>9. UnderWay' = UnderWay
  BY <1>6 DEF UnderWay, Names
<1>11. Filtered' = Filtered
  BY <1>1, <1>6 DEF Filtered, Names
<1>10. Numbers'
  BY <1>1, <1>9, NumbersKept DEF IInv, Numbers, Number
<1> QED
  BY <1>1, <1>7, <1>8, <1>9, <1>10, <1>11 DEF IInv, InputIsFresh

\* The number given out by NewInput is above all others.
LEMMA NewInputKeeps ==
  ASSUME IInv, NewInput
  PROVE  IInv' /\ UnderWay' = UnderWay /\ Filtered' = Filtered /\ input' \in Batches \ UnderWay
<1> DEFINE b == Head(local_read)
<1>1. /\ reader \in {"new", "drain"} /\ ~NeedsBatch
      /\ input' = b /\ sequence' = sequence + 1
      /\ batch' = [batch EXCEPT ![b].sequence = sequence, ![b].input = <<>>]
      /\ UNCHANGED <<local_read, filter_in, output_in, to_read, filtering, filtered,
                     ordering, base_sequence>>
  BY DEF NewInput, Filled, queueVars, filterVars, outputVars
<1>2. local_read \in Seq(Batches) /\ local_read # <<>> /\ IsInjective(local_read)
  <2>1. QueueSize \in Nat /\ QueueSize >= 4
    BY FilterAssumption DEF QueueSize
  <2>2. local_read \in Seq(Batches) /\ IsInjective(local_read)
    BY DEF IInv, Queues
  <2>3. local_read # <<>>
    BY <1>1, <2>1, <2>2 DEF NeedsBatch
  <2> QED
    BY <2>2, <2>3
<1>3. b = local_read[1] /\ b \in At["reader"] /\ b \in Batches
  BY <1>2, HeadTaken, AtNames
<1> HIDE DEF b
<1>4. PICK S : batch \in [Batches -> [sequence : Nat, input : S, output : S]]
  BY DEF IInv, Numbers
<1>5. sequence \in Nat /\ base_sequence \in Nat /\ base_sequence <= sequence
  BY DEF IInv, Numbers
<1> DEFINE T == S \cup {<<>>}
<1>6. \A c \in Batches : /\ batch'[c] \in [sequence : Nat, input : T, output : T]
                         /\ batch'[c].sequence = IF c = b THEN sequence ELSE batch[c].sequence
  BY <1>1, <1>3, <1>4, <1>5
<1>7. batch' \in [Batches -> [sequence : Nat, input : T, output : T]]
  BY <1>1, <1>4, <1>6
<1> HIDE DEF T
<1>8. At' = At /\ UnderWay' = UnderWay
  BY <1>1 DEF At, UnderWay
<1>14. Filtered' = Filtered
  BY <1>1, <1>8 DEF Filtered
<1>9. Partition(At, Names, Batches)' /\ Queues'
  BY <1>1, <1>8 DEF IInv, Partition, Queues
<1>10. UnderWay \subseteq Batches \ {b}
  BY <1>3, UnderWayAreBatches DEF IInv
<1>11. \A c \in UnderWay : Number(c)' = Number(c) /\ Number(c) \in Nat /\ Number(c) < sequence
  BY <1>4, <1>6, <1>10 DEF IInv, Numbers, Number
<1>12. Numbers'
  <2>1. \A i \in 1 .. Len(ordering) : ordering[i] # NoBatch => ordering[i] \in UnderWay
    <3>1. ordering \in Seq(Batches \cup {NoBatch})
      BY DEF IInv, Queues
    <3>2. \A i \in 1 .. Len(ordering) : ordering[i] \in ToSet(ordering)
      BY <3>1 DEF ToSet
    <3> QED
      BY <3>2, AtNames DEF UnderWay
  <2>2. \A i \in 1 .. Len(ordering') :
           ordering'[i] # NoBatch => batch'[ordering'[i]].sequence = base_sequence' + i - 1
    BY <1>1, <1>11, <2>1 DEF IInv, Numbers, Number
  <2>3. \A c \in UnderWay' : base_sequence' <= batch'[c].sequence /\ batch'[c].sequence < sequence'
    <3>1. \A c \in UnderWay : base_sequence <= batch[c].sequence
      BY DEF IInv, Numbers, Number
    <3>2. \A c \in UnderWay : /\ batch'[c].sequence = batch[c].sequence
                              /\ batch[c].sequence \in Nat /\ batch[c].sequence < sequence
      BY <1>11 DEF Number
    <3>3. base_sequence' = base_sequence /\ sequence' = sequence + 1
      BY <1>1
    <3>4. \A c \in UnderWay : batch'[c].sequence < sequence + 1
      BY <1>5, <3>2
    <3> QED
      BY <1>8, <3>1, <3>2, <3>3, <3>4
  <2>4. \A c, d \in UnderWay' : batch'[c].sequence = batch'[d].sequence => c = d
    BY <1>8, <1>11 DEF IInv, Numbers, Number
  <2>5. sequence' \in Nat /\ base_sequence' \in Nat /\ base_sequence' <= sequence'
    BY <1>1, <1>5
  <2> QED
    BY <1>7, <2>2, <2>3, <2>4, <2>5 DEF Numbers, Number
<1>13. InputIsFresh'
  <2>1. Number(input)' = sequence
    BY <1>1, <1>3, <1>6 DEF Number
  <2>2. \A c \in UnderWay' : Number(c)' + 1 < sequence'
    BY <1>1, <1>5, <1>8, <1>11
  <2> QED
    BY <1>1, <1>2, <1>3, <1>5, <2>1, <2>2 DEF InputIsFresh
<1> QED
  BY <1>1, <1>3, <1>8, <1>9, <1>10, <1>12, <1>13, <1>14 DEF IInv

\* A filter thread takes a batch, and sends it to the output thread.
LEMMA TakeBatchKeeps ==
  ASSUME IInv, NEW w \in FilterThreads, TakeBatch(w)
  PROVE  IInv' /\ UnderWay' = UnderWay /\ Filtered' = Filtered
<1> DEFINE b == Head(filter_in)
<1>1. /\ filtering[w] = NoBatch /\ filter_in # <<>>
      /\ filtering' = [filtering EXCEPT ![w] = b] /\ filter_in' = Tail(filter_in)
      /\ UNCHANGED <<reader, local_read, input, sequence, batch, output_in, to_read, filtered,
                     ordering, base_sequence>>
  BY DEF TakeBatch, readerVars, outputVars
<1>2. /\ filter_in \in Seq(Batches) /\ IsInjective(filter_in)
      /\ filtering \in [FilterThreads -> Batches \cup {NoBatch}]
  BY DEF IInv, Queues
<1>3. /\ b \in At["filter"] /\ b \in Batches
      /\ filter_in' \in Seq(Batches) /\ IsInjective(filter_in')
      /\ ToSet(filter_in') = ToSet(filter_in) \ {b}
  BY <1>1, <1>2, HeadTaken, AtNames
<1> HIDE DEF b
<1>4. b # NoBatch /\ b \notin At["threads"]
  BY <1>3, FilterAssumption DEF IInv, Partition, Names, Batches, QueueSize
<1>5. filtering'[w] = b /\ \A v \in FilterThreads \ {w} : filtering'[v] = filtering[v]
  BY <1>1, <1>2
<1>6. At'["threads"] = At["threads"] \cup {b}
  <2>1. At'["threads"] = {filtering'[v] : v \in FilterThreads} \ {NoBatch}
    BY DEF At, Names
  <2> QED
    BY <1>1, <1>4, <1>5, <2>1, AtNames
<1>7. /\ At'["filter"] = At["filter"] \ {b}
      /\ \A p \in Names \ {"filter", "threads"} : At'[p] = At[p]
  BY <1>1, <1>3 DEF At, Names
<1>8. Partition(At', Names, Batches)
  <2>1. "filter" \in Names /\ "threads" \in Names /\ Partition(At, Names, Batches)
    BY DEF Names, IInv
  <2> QED
    BY <1>3, <1>6, <1>7, <2>1, OneMoves
<1>9. Queues'
  <2>1. \A v \in FilterThreads \ {w} : filtering[v] # b
    BY <1>4, AtNames
  <2>2. filtering' \in [FilterThreads -> Batches \cup {NoBatch}]
    BY <1>1, <1>2, <1>3
  <2>3. \A u, v \in FilterThreads : filtering'[u] = filtering'[v] /\ filtering'[u] # NoBatch => u = v
    BY <1>5, <2>1 DEF IInv, Queues
  <2>4. \A v \in filtered : filtering'[v] # NoBatch
    BY <1>4, <1>5 DEF IInv, Queues
  <2> QED
    BY <1>1, <1>3, <2>2, <2>3, <2>4 DEF IInv, Queues
<1>10. UnderWay' = UnderWay
  BY <1>3, <1>6, <1>7 DEF UnderWay, Names
<1>12. Filtered' = Filtered
  <2>1. \A v \in filtered : v \in FilterThreads \ {w}
    BY <1>1 DEF IInv, Queues
  <2>2. {filtering'[v] : v \in filtered} = {filtering[v] : v \in filtered}
    BY <1>5, <2>1
  <2> QED
    BY <1>1, <1>7, <2>2 DEF Filtered, Names
<1>11. Numbers' /\ InputIsFresh'
  BY <1>1, <1>10, NumbersKept, FreshKept DEF IInv, Numbers, Number
<1> QED
  BY <1>8, <1>9, <1>10, <1>11, <1>12 DEF IInv

LEMMA SendFilteredKeeps ==
  ASSUME IInv, NEW w \in FilterThreads, SendFiltered(w)
  PROVE  IInv' /\ UnderWay' = UnderWay /\ Filtered' = Filtered
<1> DEFINE b == filtering[w]
<1>1. /\ w \in filtered /\ output_in' = Append(output_in, b)
      /\ filtering' = [filtering EXCEPT ![w] = NoBatch] /\ filtered' = filtered \ {w}
      /\ UNCHANGED <<reader, local_read, input, sequence, batch, filter_in, to_read,
                     ordering, base_sequence>>
  BY DEF SendFiltered, readerVars, outputVars
<1>2. /\ output_in \in Seq(Batches) /\ IsInjective(output_in)
      /\ filtering \in [FilterThreads -> Batches \cup {NoBatch}]
  BY DEF IInv, Queues
<1>3. b # NoBatch /\ b \in Batches /\ b \in At["threads"]
  BY <1>1, <1>2, AtNames DEF IInv, Queues
<1>4. \A v \in FilterThreads \ {w} : filtering[v] # b
  BY <1>3 DEF IInv, Queues
<1> HIDE DEF b
<1>5. b \notin ToSet(output_in)
  BY <1>3, AtNames DEF IInv, Partition, Names
<1>6. /\ output_in' \in Seq(Batches) /\ IsInjective(output_in')
      /\ ToSet(output_in') = ToSet(output_in) \cup {b}
  BY <1>1, <1>2, <1>3, <1>5, EndAdded
<1>7. filtering'[w] = NoBatch /\ \A v \in FilterThreads \ {w} : filtering'[v] = filtering[v]
  BY <1>1, <1>2
<1>8. At'["threads"] = At["threads"] \ {b}
  <2>1. At'["threads"] = {filtering'[v] : v \in FilterThreads} \ {NoBatch}
    BY DEF At, Names
  <2>2. filtering[w] = b
    BY DEF b
  <2> QED
    BY <1>4, <1>7, <2>1, <2>2, AtNames
<1>9. /\ At'["output"] = At["output"] \cup {b}
      /\ \A p \in Names \ {"threads", "output"} : At'[p] = At[p]
  BY <1>1, <1>6 DEF At, Names
<1>10. Partition(At', Names, Batches)
  <2>1. "output" \in Names /\ "threads" \in Names /\ Partition(At, Names, Batches)
    BY DEF Names, IInv
  <2> QED
    BY <1>3, <1>8, <1>9, <2>1, OneMoves
<1>11. Queues'
  <2>1. filtering' \in [FilterThreads -> Batches \cup {NoBatch}]
    BY <1>1, <1>2
  <2>2. \A u, v \in FilterThreads : filtering'[u] = filtering'[v] /\ filtering'[u] # NoBatch => u = v
    BY <1>7 DEF IInv, Queues
  <2> QED
    BY <1>1, <1>6, <1>7, <2>1, <2>2 DEF IInv, Queues
<1>14. Filtered' = Filtered
  <2>1. filtered \subseteq FilterThreads /\ filtering[w] = b
    BY DEF IInv, Queues, b
  <2>2. {filtering'[v] : v \in filtered'} = {filtering[v] : v \in filtered} \ {b}
    BY <1>1, <1>4, <1>7, <2>1
  <2>3. b \in {filtering[v] : v \in filtered}
    BY <1>1, <2>1
  <2> QED
    BY <1>9, <2>2, <2>3 DEF Filtered, Names
<1>12. UnderWay' = UnderWay
  BY <1>3, <1>8, <1>9 DEF UnderWay, Names
<1>13. Numbers' /\ InputIsFresh'
  BY <1>1, <1>12, NumbersKept, FreshKept DEF IInv, Numbers, Number
<1> QED
  BY <1>10, <1>11, <1>12, <1>13, <1>14 DEF IInv

\* The deque grown to n positions.
LEMMA DequeGrows ==
  ASSUME ordering \in Seq(Batches \cup {NoBatch}), NEW n \in Nat
  PROVE  /\ Resized(n) \in Seq(Batches \cup {NoBatch}) /\ Len(Resized(n)) >= n
         /\ \A i \in 1 .. Len(Resized(n)) :
              Resized(n)[i] = IF i <= Len(ordering) THEN ordering[i] ELSE NoBatch
         /\ Len(Resized(n)) >= Len(ordering)
<1> DEFINE more == IF n > Len(ordering) THEN n - Len(ordering) ELSE 0
           nulls == [i \in 1 .. more |-> NoBatch]
<1>1. Len(ordering) \in Nat /\ more \in Nat /\ Len(ordering) + more >= n
  OBVIOUS
<1>2. Resized(n) = ordering \o nulls
  BY DEF Resized
<1> HIDE DEF more
<1>3. nulls \in Seq(Batches \cup {NoBatch}) /\ Len(nulls) = more
      /\ \A i \in 1 .. more : nulls[i] = NoBatch
  BY <1>1
<1> HIDE DEF nulls
<1>4. /\ ordering \o nulls \in Seq(Batches \cup {NoBatch})
      /\ Len(ordering \o nulls) = Len(ordering) + more
      /\ \A i \in 1 .. Len(ordering) + more :
           (ordering \o nulls)[i] = IF i <= Len(ordering) THEN ordering[i]
                                    ELSE nulls[i - Len(ordering)]
  BY <1>1, <1>3
<1>5. \A i \in 1 .. Len(ordering) + more :
        i <= Len(ordering) \/ i - Len(ordering) \in 1 .. more
  BY <1>1
<1> QED
  BY <1>1, <1>2, <1>3, <1>4, <1>5

\* The position of a batch in the deque is still free: nobody else has its number.
LEMMA ReceiveKeeps ==
  ASSUME IInv, Receive
  PROVE  IInv' /\ UnderWay' = UnderWay /\ Filtered' = Filtered
<1> DEFINE b == Head(output_in)
           pos == batch[b].sequence - base_sequence
           grown == Resized(pos + 1)
<1>1. /\ output_in # <<>> /\ output_in' = Tail(output_in)
      /\ ordering' = [grown EXCEPT ![pos + 1] = b]
      /\ UNCHANGED <<reader, local_read, input, sequence, batch, filter_in, to_read,
                     filtering, filtered, base_sequence>>
  BY DEF Receive, readerVars, filterVars
<1>2. /\ output_in \in Seq(Batches) /\ IsInjective(output_in)
      /\ ordering \in Seq(Batches \cup {NoBatch})
  BY DEF IInv, Queues
<1>3. /\ b \in At["output"] /\ b \in Batches
      /\ output_in' \in Seq(Batches) /\ IsInjective(output_in')
      /\ ToSet(output_in') = ToSet(output_in) \ {b}
  BY <1>1, <1>2, HeadTaken, AtNames
<1> HIDE DEF b
<1>4. b # NoBatch /\ b \notin At["deque"] /\ b \in UnderWay
  BY <1>3, FilterAssumption DEF IInv, Partition, Names, Batches, QueueSize, UnderWay
<1>5. /\ pos \in Nat /\ base_sequence \in Nat /\ Number(b) = base_sequence + pos
      /\ Len(ordering) \in Nat
  BY <1>2, <1>3, <1>4 DEF IInv, Numbers, Number
<1> HIDE DEF pos
<1>6. /\ grown \in Seq(Batches \cup {NoBatch}) /\ Len(grown) >= pos + 1
      /\ Len(grown) >= Len(ordering)
      /\ \A i \in 1 .. Len(grown) : grown[i] = IF i <= Len(ordering) THEN ordering[i] ELSE NoBatch
  <2>1. pos + 1 \in Nat
    BY <1>5
  <2> QED
    BY <1>2, <2>1, DequeGrows
<1> HIDE DEF grown
<1>7. /\ ordering' \in Seq(Batches \cup {NoBatch}) /\ Len(ordering') = Len(grown)
      /\ pos + 1 \in 1 .. Len(grown) /\ ordering'[pos + 1] = b
      /\ \A i \in 1 .. Len(grown) : i # pos + 1 => ordering'[i] = grown[i]
  BY <1>1, <1>3, <1>5, <1>6
<1>8. \A i \in 1 .. Len(ordering) : ordering[i] \in ToSet(ordering)
  BY <1>2 DEF ToSet
<1>9. ToSet(ordering) = {ordering[i] : i \in 1 .. Len(ordering)}
      /\ ToSet(ordering') = {ordering'[i] : i \in 1 .. Len(ordering')}
  BY <1>2, <1>7 DEF ToSet
\* What was there is no batch.
<1>10. pos + 1 <= Len(ordering) => ordering[pos + 1] = NoBatch
  <2>1. SUFFICES ASSUME pos + 1 <= Len(ordering), ordering[pos + 1] # NoBatch PROVE FALSE
    OBVIOUS
  <2>2. pos + 1 \in 1 .. Len(ordering)
    BY <1>5, <2>1
  <2>3. Number(ordering[pos + 1]) = base_sequence + (pos + 1) - 1
    BY <2>1, <2>2 DEF IInv, Numbers
  <2>4. Number(ordering[pos + 1]) = Number(b)
    BY <1>5, <2>3
  <2>5. ordering[pos + 1] \in At["deque"]
    BY <1>8, <2>1, <2>2, AtNames
  <2>6. ordering[pos + 1] = b
    BY <1>4, <2>4, <2>5 DEF IInv, Numbers, UnderWay
  <2> QED
    BY <1>4, <2>5, <2>6
<1>11. \A i \in 1 .. Len(ordering') :
         \/ i = pos + 1 /\ ordering'[i] = b
         \/ i # pos + 1 /\ i \in 1 .. Len(ordering) /\ ordering'[i] = ordering[i]
         \/ i # pos + 1 /\ ordering'[i] = NoBatch
  BY <1>5, <1>6, <1>7
<1>12. At'["deque"] = At["deque"] \cup {b}
  <2>1. At'["deque"] = ToSet(ordering') \ {NoBatch} /\ At["deque"] = ToSet(ordering) \ {NoBatch}
    BY DEF At, Names
  <2>2. ToSet(ordering') \ {NoBatch} \subseteq ToSet(ordering) \cup {b}
    BY <1>8, <1>9, <1>11
  <2>3. b \in ToSet(ordering')
    BY <1>7, <1>9
  <2>4. ToSet(ordering) \ {NoBatch} \subseteq ToSet(ordering')
    <3>1. SUFFICES ASSUME NEW i \in 1 .. Len(ordering), ordering[i] # NoBatch
                   PROVE  ordering[i] \in ToSet(ordering')
      BY <1>9
    <3>2. i # pos + 1 /\ i \in 1 .. Len(ordering') /\ ordering'[i] = ordering[i]
      BY <1>5, <1>6, <1>7, <1>10, <3>1
    <3> QED
      BY <1>9, <3>2
  <2> QED
    BY <1>4, <2>1, <2>2, <2>3, <2>4
<1>13. /\ At'["output"] = At["output"] \ {b}
       /\ \A p \in Names \ {"output", "deque"} : At'[p] = At[p]
  BY <1>1, <1>3 DEF At, Names
<1>14. Partition(At', Names, Batches)
  <2>1. "output" \in Names /\ "deque" \in Names /\ Partition(At, Names, Batches)
    BY DEF Names, IInv
  <2> QED
    BY <1>3, <1>12, <1>13, <2>1, OneMoves
<1>15. Queues'
  BY <1>1, <1>3, <1>7 DEF IInv, Queues
<1>16. UnderWay' = UnderWay
  BY <1>3, <1>12, <1>13 DEF UnderWay, Names
<1>20. Filtered' = Filtered
  BY <1>1, <1>3, <1>12, <1>13 DEF Filtered, Names
<1>17. \A i \in 1 .. Len(ordering') :
         ordering'[i] # NoBatch => Number(ordering'[i]) = base_sequence + i - 1
  BY <1>5, <1>11 DEF IInv, Numbers
<1>18. Numbers'
  BY <1>1, <1>16, <1>17 DEF IInv, Numbers, Number
<1>19. InputIsFresh'
  BY <1>1, <1>16, FreshKept DEF Number
<1> QED
  BY <1>14, <1>15, <1>16, <1>18, <1>19, <1>20 DEF IInv

\* The front of the deque has the lowest number of all.
LEMMA WriteFrontKeeps ==
  ASSUME IInv, WriteFront
  PROVE  /\ IInv' /\ Head(ordering) \in Filtered /\ Number(Head(ordering)) = base_sequence
         /\ UnderWay' = UnderWay \ {Head(ordering)} /\ Filtered' = Filtered \ {Head(ordering)}
<1> DEFINE b == Head(ordering)
<1>1. /\ ordering # <<>> /\ b # NoBatch /\ ordering' = Tail(ordering)
      /\ to_read' = Append(to_read, b) /\ base_sequence' = base_sequence + 1
      /\ batch' = [batch EXCEPT ![b].output = [@ EXCEPT !.annotated = <<>>]]
      /\ UNCHANGED <<reader, local_read, input, sequence, filter_in, output_in,
                     filtering, filtered>>
  BY DEF WriteFront, FrontReady, readerVars, filterVars
<1>2. /\ ordering \in Seq(Batches \cup {NoBatch})
      /\ to_read \in Seq(Batches) /\ IsInjective(to_read)
  BY DEF IInv, Queues
<1>3. /\ b = ordering[1] /\ Len(ordering) \in Nat \ {0}
      /\ ordering' \in Seq(Batches \cup {NoBatch}) /\ Len(ordering') = Len(ordering) - 1
      /\ \A i \in 1 .. Len(ordering') : ordering'[i] = ordering[i + 1]
      /\ b \in Batches
  BY <1>1, <1>2
<1> HIDE DEF b
<1>4. /\ ToSet(ordering) = {ordering[i] : i \in 1 .. Len(ordering)}
      /\ ToSet(ordering') = {ordering'[i] : i \in 1 .. Len(ordering')}
  <2>1. ordering \in Seq(Batches \cup {NoBatch}) /\ ordering' \in Seq(Batches \cup {NoBatch})
    BY <1>2, <1>3
  <2>2. DOMAIN ordering = 1 .. Len(ordering) /\ DOMAIN ordering' = 1 .. Len(ordering')
    BY <2>1
  <2> QED
    BY <2>2 DEF ToSet
<1>5. b \in At["deque"] /\ b \in UnderWay
  <2>1. b \in ToSet(ordering)
    BY <1>3, <1>4
  <2> QED
    BY <1>1, <2>1, AtNames DEF UnderWay
<1>6. Number(b) = base_sequence /\ base_sequence \in Nat /\ sequence \in Nat
  <2>1. 1 \in 1 .. Len(ordering) /\ ordering[1] # NoBatch
    BY <1>1, <1>3
  <2>2. base_sequence \in Nat /\ sequence \in Nat
    BY DEF IInv, Numbers
  <2>3. Number(ordering[1]) = base_sequence + 1 - 1
    BY <2>1 DEF IInv, Numbers
  <2> QED
    BY <1>3, <2>2, <2>3
<1>7. /\ \E T : batch' \in [Batches -> [sequence : Nat, input : T, output : T]]
      /\ \A c \in Batches : Number(c)' = Number(c)
  <2>1. PICK S : batch \in [Batches -> [sequence : Nat, input : S, output : S]]
    BY DEF IInv, Numbers
  <2>2. \E x : batch' = [batch EXCEPT ![b].output = x]
    BY <1>1
  <2> QED
    BY <1>3, <2>1, <2>2, ContentsChange
<1>8. \A i \in 1 .. Len(ordering') :
         /\ i + 1 \in 1 .. Len(ordering)
         /\ ordering'[i] # NoBatch => ordering'[i] # b /\ Number(ordering'[i]) = base_sequence + i
  <2>1. SUFFICES ASSUME NEW i \in 1 .. Len(ordering')
                 PROVE  /\ i + 1 \in 1 .. Len(ordering)
                        /\ ordering'[i] # NoBatch =>
                             ordering'[i] # b /\ Number(ordering'[i]) = base_sequence + i
    OBVIOUS
  <2>2. i + 1 \in 1 .. Len(ordering) /\ ordering'[i] = ordering[i + 1] /\ i \in Nat \ {0}
    BY <1>3
  <2>3. ordering'[i] # NoBatch => Number(ordering'[i]) = base_sequence + (i + 1) - 1
    BY <2>2 DEF IInv, Numbers
  <2> QED
    BY <1>6, <2>2, <2>3
<1>9. At'["deque"] = At["deque"] \ {b}
  <2>1. At'["deque"] = ToSet(ordering') \ {NoBatch} /\ At["deque"] = ToSet(ordering) \ {NoBatch}
    BY DEF At, Names
  <2>2. \A i \in 1 .. Len(ordering') : ordering'[i] \in ToSet(ordering)
    BY <1>3, <1>4, <1>8
  <2>3. ToSet(ordering') \ {NoBatch} \subseteq ToSet(ordering) \ {b}
    BY <1>4, <1>8, <2>2
  <2>4. \A i \in 1 .. Len(ordering) : i # 1 => ordering[i] \in ToSet(ordering')
    <3>1. SUFFICES ASSUME NEW i \in 1 .. Len(ordering), i # 1 PROVE ordering[i] \in ToSet(ordering')
      OBVIOUS
    <3>2. i - 1 \in 1 .. Len(ordering') /\ ordering'[i - 1] = ordering[i]
      BY <1>3, <3>1
    <3> QED
      BY <1>4, <3>2
  <2>5. \A x \in ToSet(ordering) : x # b => x \in ToSet(ordering')
    BY <1>3, <1>4, <2>4
  <2> QED
    BY <2>1, <2>3, <2>5
<1>10. b \notin ToSet(to_read)
  BY <1>5, AtNames DEF IInv, Partition, Names
<1>11. /\ to_read' \in Seq(Batches) /\ IsInjective(to_read')
       /\ ToSet(to_read') = ToSet(to_read) \cup {b}
  BY <1>1, <1>2, <1>3, <1>10, EndAdded
<1>12. /\ At'["back"] = At["back"] \cup {b}
       /\ \A p \in Names \ {"deque", "back"} : At'[p] = At[p]
  BY <1>1, <1>11 DEF At, Names
<1>13. Partition(At', Names, Batches)
  <2>1. "back" \in Names /\ "deque" \in Names /\ Partition(At, Names, Batches)
    BY DEF Names, IInv
  <2> QED
    BY <1>5, <1>9, <1>12, <2>1, OneMoves
<1>14. Queues'
  BY <1>1, <1>3, <1>11 DEF IInv, Queues
<1>15. UnderWay' = UnderWay \ {b} /\ UnderWay \subseteq Batches
  <2>1. \A p \in Names \ {"deque"} : b \notin At[p]
    BY <1>5 DEF IInv, Partition, Names
  <2> QED
    BY <1>9, <1>12, <2>1, UnderWayAreBatches DEF UnderWay, Names, IInv
<1>19. b \in Filtered /\ Filtered' = Filtered \ {b}
  <2>1. b \notin At["threads"] /\ b \notin At["output"] /\ b # NoBatch
    BY <1>1, <1>5 DEF IInv, Partition, Names
  <2>2. b \notin {filtering[w] : w \in filtered}
    BY <2>1, AtNames DEF IInv, Queues
  <2> QED
    BY <1>1, <1>5, <1>9, <1>12, <2>1, <2>2 DEF Filtered, Names
<1>16. \A c \in UnderWay' : /\ batch'[c].sequence = batch[c].sequence
                            /\ batch[c].sequence \in Nat
                            /\ base_sequence + 1 <= batch[c].sequence
                            /\ batch[c].sequence < sequence
  <2>1. SUFFICES ASSUME NEW c \in UnderWay'
                 PROVE  /\ batch'[c].sequence = batch[c].sequence
                        /\ batch[c].sequence \in Nat
                        /\ base_sequence + 1 <= batch[c].sequence
                        /\ batch[c].sequence < sequence
    OBVIOUS
  <2>2. c \in UnderWay /\ c # b /\ c \in Batches
    BY <1>15
  <2>3. Number(c) # Number(b)
    BY <1>5, <2>2 DEF IInv, Numbers
  <2>4. Number(c) \in Nat /\ base_sequence <= Number(c) /\ Number(c) < sequence
    BY <2>2 DEF IInv, Numbers, Number
  <2>5. Number(c)' = Number(c)
    BY <1>7, <2>2
  <2> QED
    BY <1>6, <2>3, <2>4, <2>5 DEF Number
<1>17. Numbers'
  <2>1. \A i \in 1 .. Len(ordering') : ordering'[i] # NoBatch => ordering'[i] \in Batches
    BY <1>3
  <2>2. \A i \in 1 .. Len(ordering') :
          ordering'[i] # NoBatch => batch'[ordering'[i]].sequence = base_sequence' + i - 1
    BY <1>1, <1>6, <1>7, <1>8, <2>1 DEF Number
  <2>3. \A c, d \in UnderWay' : batch'[c].sequence = batch'[d].sequence => c = d
    BY <1>15, <1>16 DEF IInv, Numbers, Number
  <2>4. sequence' \in Nat /\ base_sequence' \in Nat /\ base_sequence' <= sequence'
    <3>1. base_sequence < sequence
      BY <1>5, <1>6 DEF IInv, Numbers
    <3> QED
      BY <1>1, <1>6, <3>1
  <2>5. \A c \in UnderWay' : base_sequence' <= batch'[c].sequence /\ batch'[c].sequence < sequence'
    BY <1>1, <1>16
  <2> QED
    BY <1>7, <2>2, <2>3, <2>4, <2>5 DEF Numbers, Number
<1>18. InputIsFresh'
  <2>1. SUFFICES ASSUME reader \notin {"new", "drain"} PROVE InputIsFresh'
    BY <1>1 DEF InputIsFresh
  <2>2. /\ local_read # <<>> /\ input = local_read[1] /\ Number(input) + 1 = sequence
        /\ \A c \in UnderWay : Number(c) + 1 < sequence
    BY <2>1 DEF IInv, InputIsFresh
  <2>3. input \in Batches
    BY <2>2 DEF IInv, Queues
  <2>4. Number(input)' = Number(input)
    BY <1>1, <1>7, <2>3 DEF Number
  <2>5. \A c \in UnderWay' : Number(c)' + 1 < sequence
    BY <1>7, <1>15, <2>2
  <2>6. base_sequence + 1 < sequence
    BY <1>5, <1>6, <2>2
  <2> QED
    BY <1>1, <2>2, <2>4, <2>5, <2>6 DEF InputIsFresh
<1> QED
  BY <1>6, <1>13, <1>14, <1>15, <1>17, <1>18, <1>19 DEF IInv, b

\* Every step of the reader, of a filter thread and of the output thread.
LEMMA StepKeeps == IInv /\ [Next]_vars => IInv'
<1> SUFFICES ASSUME IInv, [Next]_vars PROVE IInv'
  OBVIOUS
<1>1. /\ \E S : batch \in [Batches -> [sequence : Nat, input : S, output : S]]
      /\ filtered \subseteq FilterThreads /\ \A w \in filtered : filtering[w] # NoBatch
  BY DEF IInv, Numbers, Queues
<1>2. CASE BeginLength \/ EndOfSection \/ FlushNothing \/ EndLength \/ DestroyFilter
           \/ DestroyOutput \/ LoopEnds \/ UNCHANGED vars
  <2>1. /\ UNCHANGED <<local_read, input, sequence, filter_in, output_in, to_read,
                       filtering, filtered, ordering, base_sequence, batch>>
        /\ reader' \in {"new", "drain"} \/ reader \notin {"new", "drain"} \/ reader' = reader
    BY <1>2 DEF BeginLength, EndOfSection, FlushNothing, EndLength, DestroyFilter,
                DestroyOutput, LoopEnds, vars, readerVars, queueVars, filterVars, outputVars
  <2>2. \A b \in Batches : Number(b)' = Number(b)
    BY <2>1 DEF Number
  <2> QED
    BY <1>1, <2>1, <2>2, QuietKeeps
<1>3. CASE AddNGram
  <2>1. /\ UNCHANGED <<local_read, input, sequence, filter_in, output_in, to_read,
                       filtering, filtered, ordering, base_sequence>>
        /\ reader = "read"
        /\ \E x : batch' = [batch EXCEPT ![input].input = x]
    BY <1>3 DEF AddNGram, queueVars, filterVars, outputVars
  <2>2. input \in Batches
    BY <2>1 DEF IInv, InputIsFresh, Queues
  <2>3. /\ \E T : batch' \in [Batches -> [sequence : Nat, input : T, output : T]]
        /\ \A b \in Batches : Number(b)' = Number(b)
    BY <1>1, <2>1, <2>2, ContentsChange
  <2> QED
    BY <1>1, <2>1, <2>3, QuietKeeps
<1>4. ASSUME NEW w \in FilterThreads, CallFilter(w) PROVE IInv'
  <2>1. /\ UNCHANGED <<local_read, input, sequence, filter_in, output_in, to_read,
                       filtering, ordering, base_sequence, reader>>
        /\ filtering[w] # NoBatch /\ filtered' = filtered \cup {w}
        /\ \E x : batch' = [batch EXCEPT ![filtering[w]].output = x]
    BY <1>4 DEF CallFilter, readerVars, queueVars, outputVars
  <2>2. filtering[w] \in Batches
    BY <2>1 DEF IInv, Queues
  <2>3. /\ \E T : batch' \in [Batches -> [sequence : Nat, input : T, output : T]]
        /\ \A b \in Batches : Number(b)' = Number(b)
    BY <1>1, <2>1, <2>2, ContentsChange
  <2>4. filtered' \subseteq FilterThreads /\ \A v \in filtered' : filtering[v] # NoBatch
    BY <1>1, <2>1
  <2> QED
    BY <2>1, <2>3, <2>4, QuietKeeps
<1> QED
  BY <1>2, <1>3, <1>4, FlushInputKeeps, MoveReadKeeps, NewInputKeeps, TakeBatchKeeps,
     SendFilteredKeeps, ReceiveKeeps, WriteFrontKeeps
     DEF Next, Reader, Filter, Output

\* Each batch is with one thread or in one queue, once, whatever the number of
\* threads: nobody writes into a batch that another one reads.
THEOREM BatchOwnedOnceHolds == Spec => []BatchOwnedOnce
BY Starts, StepKeeps, OwnedOnce, PTL DEF Spec
-----------------------------------------------------------------------------
(* The operators on the file.                                              *)

\* How many lines there are up to the end of each section.
LEMMA ThroughIs ==
  ASSUME NEW f \in Files
  PROVE  /\ Len(f.number) \in Nat \ {0} /\ \A i \in 1 .. Len(f.number) : f.number[i] \in Nat
         /\ Through(f, 0) = 0
         /\ \A i \in 1 .. Len(f.number) : Through(f, i) = Through(f, i - 1) + f.number[i]
         /\ \A i \in 0 .. Len(f.number) : Through(f, i) \in Nat
<1> DEFINE n == Len(f.number)
           op == [p \in (1 .. n) \X Nat |-> p[2] + f.number[p[1]]]
           h == CHOOSE g : g = [i \in 0 .. Len(f.number) |-> IF i = 0 THEN 0 ELSE g[i - 1] + f.number[i]]
<1>1. n \in Nat \ {0} /\ \A i \in 1 .. n : f.number[i] \in Nat
  <2>1. f.number \in Seq(Nat) /\ f.number # <<>>
    BY FilterAssumption
  <2> QED
    BY <2>1
<1>2. op \in [(1 .. n) \X Nat -> Nat] /\ \A i \in 1 .. n, v \in Nat : op[<<i, v>>] = v + f.number[i]
  BY <1>1
<1>3. \A i : Through(f, i) = h[i]
  BY DEF Through
<1>4. PICK g \in [0 .. n -> Nat] : Recursion(n, 0, op, g)
  <2> HIDE DEF op, n
  <2> QED
    BY <1>1, <1>2, RecursionExists
<1>5. g = [i \in 0 .. n |-> IF i = 0 THEN 0 ELSE g[i - 1] + f.number[i]]
  <2> HIDE DEF op, n
  <2>1. \A i \in 1 .. n : i - 1 \in 0 .. n /\ g[i - 1] \in Nat
    <3>1. \A i \in 1 .. n : i - 1 \in 0 .. n
      BY <1>1
    <3> QED
      BY <1>4, <3>1
  <2>2. g[0] = 0 /\ \A i \in 1 .. n : g[i] = g[i - 1] + f.number[i]
    BY <1>2, <1>4, <2>1 DEF Recursion
  <2>3. \A i \in 0 .. n : g[i] = IF i = 0 THEN 0 ELSE g[i - 1] + f.number[i]
    BY <1>1, <2>2
  <2> QED
    BY <1>4, <2>3
<1>6. h = [i \in 0 .. n |-> IF i = 0 THEN 0 ELSE h[i - 1] + f.number[i]]
  BY <1>5
<1> HIDE DEF h, op
<1>7. \A i \in 0 .. n : h[i] = IF i = 0 THEN 0 ELSE h[i - 1] + f.number[i]
  <2> HIDE DEF n
  <2> QED
    BY <1>6
<1> DEFINE P == {i \in 0 .. n : h[i] \in Nat}
<1>8. 0 .. n \subseteq P
  <2>1. 0 \in P
    BY <1>1, <1>7
  <2>2. ASSUME NEW i \in 0 .. n - 1, i \in P PROVE i + 1 \in P
    <3>1. i + 1 \in 1 .. n /\ h[i + 1] = h[(i + 1) - 1] + f.number[i + 1]
      BY <1>1, <1>7
    <3> QED
      BY <1>1, <2>2, <3>1
  <2> HIDE DEF P
  <2> QED
    BY <1>1, <2>1, <2>2, UpTo
<1>9. Through(f, 0) = 0
  BY <1>1, <1>3, <1>7
<1>10. \A i \in 1 .. n : Through(f, i) = Through(f, i - 1) + f.number[i]
  BY <1>1, <1>3, <1>7
<1>11. \A i \in 0 .. n : Through(f, i) \in Nat
  BY <1>3, <1>8
<1> QED
  BY <1>1, <1>9, <1>10, <1>11

\* No section ends behind the end of the file.
LEMMA ThroughGrows ==
  ASSUME NEW f \in Files, NEW k \in 0 .. Len(f.number)
  PROVE  Through(f, k) \in 0 .. Total(f)
<1> DEFINE n == Len(f.number)
           P == {i \in 0 .. n : i >= k => Through(f, k) <= Through(f, i)}
<1>1. /\ n \in Nat /\ \A i \in 1 .. n : f.number[i] \in Nat
      /\ \A i \in 1 .. n : Through(f, i) = Through(f, i - 1) + f.number[i]
      /\ \A i \in 0 .. n : Through(f, i) \in Nat
  BY ThroughIs
<1>2. 0 \in P
  <2>1. 0 >= k => k = 0
    BY <1>1
  <2> QED
    BY <1>1, <2>1
<1>3. ASSUME NEW i \in 0 .. n - 1, i \in P PROVE i + 1 \in P
  <2>1. i + 1 \in 1 .. n /\ Through(f, i + 1) = Through(f, (i + 1) - 1) + f.number[i + 1]
    BY <1>1
  <2>2. CASE i >= k
    BY <1>1, <1>3, <2>1, <2>2
  <2>3. CASE ~(i >= k)
    <3>1. i + 1 >= k => k = i + 1
      BY <1>1, <2>3
    <3> QED
      BY <1>1, <2>1, <3>1
  <2> QED
    BY <2>2, <2>3
<1> HIDE DEF P
<1>4. 0 .. n \subseteq P
  BY <1>1, <1>2, <1>3, UpTo
<1>5. Through(f, k) <= Through(f, n)
  BY <1>1, <1>4 DEF P
<1> QED
  BY <1>1, <1>5 DEF Total

\* What is given with a file.
LEMMA FileIs ==
  ASSUME file \in Files
  PROVE  /\ Total(file) \in Nat /\ Len(file.to) = Total(file) /\ Len(file.length) = Total(file)
         /\ file.outputs \in Nat \ {0}
         /\ \A n \in 1 .. Total(file) : /\ file.to[n] # All => file.to[n] \in SUBSET (1 .. file.outputs)
                                        /\ file.length[n] \in Nat
<1>1. Total(file) \in Nat
  BY ThroughIs DEF Total
<1> HIDE DEF Total
<1>2. /\ file.to \in Seq({All} \cup SUBSET (1 .. file.outputs)) /\ file.length \in Seq(Nat)
      /\ Len(file.to) = Total(file) /\ Len(file.length) = Total(file) /\ file.outputs \in Nat \ {0}
  BY FilterAssumption
<1>3. /\ \A n \in 1 .. Len(file.to) : file.to[n] \in {All} \cup SUBSET (1 .. file.outputs)
      /\ \A n \in 1 .. Len(file.length) : file.length[n] \in Nat
  BY <1>2
<1> QED
  BY <1>1, <1>2, <1>3

\* The lines that pass, one line at a time.
LEMMA KeptIs ==
  ASSUME file \in Files, NEW o
  PROVE  /\ KeptThrough(0, o) = <<>>
         /\ \A n \in 1 .. Total(file) :
              KeptThrough(n, o) = IF Passes(n, o) THEN Append(KeptThrough(n - 1, o), n)
                                  ELSE KeptThrough(n - 1, o)
         /\ \A n \in 0 .. Total(file) : KeptThrough(n, o) \in Seq(Nat)
<1> DEFINE n == Len(file.to)
           op == [p \in (1 .. n) \X Seq(Nat) |-> IF Passes(p[1], o) THEN Append(p[2], p[1]) ELSE p[2]]
           h == CHOOSE g : g = [m \in 0 .. Len(file.to) |->
                  IF m = 0 THEN <<>> ELSE IF Passes(m, o) THEN Append(g[m - 1], m) ELSE g[m - 1]]
<1>1. n \in Nat /\ n = Total(file) /\ <<>> \in Seq(Nat)
  BY FileIs
<1>0. n \in Nat
  BY <1>1
<1>2. /\ op \in [(1 .. n) \X Seq(Nat) -> Seq(Nat)]
      /\ \A i \in 1 .. n, v \in Seq(Nat) : op[<<i, v>>] = IF Passes(i, o) THEN Append(v, i) ELSE v
  <2> HIDE DEF n
  <2> QED
    BY <1>1
<1>3. \A i : KeptThrough(i, o) = h[i]
  BY DEF KeptThrough
<1> HIDE DEF n, op
<1>4. PICK g \in [0 .. n -> Seq(Nat)] : Recursion(n, <<>>, op, g)
  BY <1>1, <1>2, RecursionExists
<1>5. g = [m \in 0 .. n |-> IF m = 0 THEN <<>> ELSE IF Passes(m, o) THEN Append(g[m - 1], m) ELSE g[m - 1]]
  <2>1. \A i \in 1 .. n : i - 1 \in 0 .. n /\ g[i - 1] \in Seq(Nat)
    BY <1>1, <1>4
  <2>2. g[0] = <<>> /\ \A i \in 1 .. n : g[i] = IF Passes(i, o) THEN Append(g[i - 1], i) ELSE g[i - 1]
    BY <1>2, <1>4, <2>1 DEF Recursion
  <2>3. \A i \in 0 .. n : g[i] = IF i = 0 THEN <<>> ELSE IF Passes(i, o) THEN Append(g[i - 1], i) ELSE g[i - 1]
    <3> TAKE i \in 0 .. n
    <3>1. i = 0 \/ (i \in 1 .. n /\ i # 0)
      BY <1>0
    <3> QED
      BY <2>2, <3>1
  <2> QED
    BY <1>4, <2>3
<1>6. h = [m \in 0 .. n |-> IF m = 0 THEN <<>> ELSE IF Passes(m, o) THEN Append(h[m - 1], m) ELSE h[m - 1]]
  BY <1>5 DEF n
<1> HIDE DEF h
<1>7. \A i \in 0 .. n : h[i] = IF i = 0 THEN <<>> ELSE IF Passes(i, o) THEN Append(h[i - 1], i) ELSE h[i - 1]
  BY <1>6
<1> DEFINE P == {i \in 0 .. n : h[i] \in Seq(Nat)}
<1>8. 0 .. n \subseteq P
  <2>1. 0 \in P
    <3>1. 0 \in 0 .. n
      BY <1>0
    <3>2. h[0] = <<>>
      BY <1>7, <3>1
    <3> QED
      BY <1>1, <3>1, <3>2
  <2>2. ASSUME NEW i \in 0 .. n - 1, i \in P PROVE i + 1 \in P
    <3>0. i + 1 \in 1 .. n /\ i + 1 \in 0 .. n /\ i + 1 # 0
      BY <1>0
    <3>1. h[i + 1] = IF Passes(i + 1, o) THEN Append(h[(i + 1) - 1], i + 1) ELSE h[(i + 1) - 1]
      BY <1>7, <3>0
    <3>2. (i + 1) - 1 = i /\ h[i] \in Seq(Nat) /\ i + 1 \in Nat
      BY <1>1, <2>2
    <3>3. h[i + 1] \in Seq(Nat)
      BY <3>1, <3>2
    <3> QED
      BY <3>0, <3>3
  <2> HIDE DEF P
  <2> QED
    BY <1>0, <2>1, <2>2, UpTo
<1>9. h[0] = <<>>
  BY <1>0, <1>7
<1>10. \A i \in 1 .. n : h[i] = IF Passes(i, o) THEN Append(h[i - 1], i) ELSE h[i - 1]
  <2>1. \A i \in 1 .. n : i \in 0 .. n /\ i # 0
    BY <1>0
  <2> QED
    BY <1>7, <2>1
<1>11. \A i \in 0 .. n : h[i] \in Seq(Nat)
  BY <1>8
<1> QED
  BY <1>1, <1>3, <1>9, <1>10, <1>11

\* More lines pass only behind those that pass already.
LEMMA KeptGrows ==
  ASSUME file \in Files, NEW o, NEW m \in 0 .. Total(file), NEW n \in m .. Total(file)
  PROVE  IsPrefix(KeptThrough(m, o), KeptThrough(n, o))
<1> DEFINE N == Total(file)
           k(i) == KeptThrough(i, o)
           P == {i \in 0 .. N : i >= m => /\ Len(k(m)) <= Len(k(i))
                                          /\ \A j \in 1 .. Len(k(m)) : k(m)[j] = k(i)[j]}
<1>1. N \in Nat /\ \A i \in 0 .. N : k(i) \in Seq(Nat) /\ Len(k(i)) \in Nat
  <2>1. \A i \in 0 .. N : k(i) \in Seq(Nat)
    BY KeptIs
  <2>2. N \in Nat
    BY FileIs
  <2> HIDE DEF N, k
  <2> QED
    BY <2>1, <2>2
<1>2. \A i \in 1 .. N : k(i) = k(i - 1) \/ k(i) = Append(k(i - 1), i)
  BY KeptIs
<1> HIDE DEF k, N
<1>3. 0 \in P
  <2>1. 0 >= m => m = 0
    OBVIOUS
  <2> QED
    BY <1>1, <2>1
<1>4. ASSUME NEW i \in 0 .. N - 1, i \in P PROVE i + 1 \in P
  <2>1. i + 1 \in 1 .. N /\ i + 1 \in 0 .. N /\ (i + 1) - 1 = i /\ i \in 0 .. N /\ m \in 0 .. N
    BY <1>1 DEF N
  <2>2. k(i + 1) = k(i) \/ k(i + 1) = Append(k(i), i + 1)
    BY <1>2, <2>1
  <2>3. /\ Len(k(i)) <= Len(k(i + 1))
        /\ \A j \in 1 .. Len(k(i)) : k(i)[j] = k(i + 1)[j]
    <3>1. k(i) \in Seq(Nat) /\ Len(k(i)) \in Nat /\ i + 1 \in Nat
      BY <1>1, <2>1
    <3>2. CASE k(i + 1) = k(i)
      BY <3>1, <3>2
    <3>3. CASE k(i + 1) = Append(k(i), i + 1)
      BY <3>1, <3>3, AppendProperties
    <3> QED
      BY <2>2, <3>2, <3>3
  <2>4. CASE i >= m
    <3>1. /\ Len(k(m)) <= Len(k(i)) /\ \A j \in 1 .. Len(k(m)) : k(m)[j] = k(i)[j]
      BY <1>4, <2>4
    <3>2. Len(k(m)) \in Nat /\ Len(k(i)) \in Nat /\ Len(k(i + 1)) \in Nat
      BY <1>1, <2>1
    <3> QED
      BY <2>1, <2>3, <3>1, <3>2
  <2>5. CASE ~(i >= m)
    <3>1. i + 1 >= m => m = i + 1
      BY <1>1, <2>1, <2>5
    <3>2. Len(k(m)) \in Nat
      BY <1>1, <2>1
    <3> QED
      BY <2>1, <3>1, <3>2
  <2> QED
    BY <2>4, <2>5
<1> HIDE DEF P
<1>5. 0 .. N \subseteq P
  BY <1>1, <1>3, <1>4, UpTo
<1>6. m \in 0 .. N /\ n \in 0 .. N /\ n >= m
  BY <1>1 DEF N
<1>7. Len(k(m)) <= Len(k(n)) /\ \A j \in 1 .. Len(k(m)) : k(m)[j] = k(n)[j]
  BY <1>5, <1>6 DEF P
<1>8. SubSeq(k(m), 1, Len(k(m))) = SubSeq(k(n), 1, Len(k(m)))
  <2>1. k(m) \in Seq(Nat) /\ k(n) \in Seq(Nat) /\ Len(k(m)) \in Nat /\ Len(k(n)) \in Nat
    BY <1>1, <1>6
  <2>2. /\ SubSeq(k(m), 1, Len(k(m))) = [i \in 1 .. Len(k(m)) |-> k(m)[1 + i - 1]]
        /\ SubSeq(k(n), 1, Len(k(m))) = [i \in 1 .. Len(k(m)) |-> k(n)[1 + i - 1]]
    BY <1>7, <2>1
  <2>3. \A i \in 1 .. Len(k(m)) : 1 + i - 1 = i
    BY <2>1
  <2> QED
    BY <1>7, <2>2, <2>3
<1> QED
  BY <1>7, <1>8 DEF IsPrefix, k

Notes == [line : Nat, systems : Seq(Nat)]
Buffers == [annotated : Seq(Notes), last : [address : Nat, length : Nat]]
Times(a, o) == IF a.systems = <<>> THEN 1
               ELSE Cardinality({i \in DOMAIN a.systems : a.systems[i] = o})

\* The systems of a line are all of them, each once.
LEMMA SystemsIs ==
  ASSUME file \in Files, NEW n \in 1 .. Total(file), file.to[n] # All
  PROVE  /\ Systems(n) \in Seq(Nat)
         /\ Systems(n) = <<>> <=> file.to[n] = {}
         /\ \A o : Cardinality({i \in DOMAIN Systems(n) : Systems(n)[i] = o}) = IF o \in file.to[n] THEN 1 ELSE 0
<1> DEFINE S == file.to[n]
           q == Systems(n)
           k == Cardinality(S)
<1>1. S \subseteq 1 .. file.outputs /\ file.outputs \in Nat
  BY FileIs
<1>2. IsFiniteSet(S) /\ S \subseteq Nat /\ S \subseteq Int
  <2>1. IsFiniteSet(1 .. file.outputs)
    BY <1>1, FS_Interval
  <2> HIDE DEF S
  <2>2. IsFiniteSet(S)
    BY <1>1, <2>1, FS_Subset
  <2>3. S \subseteq Nat /\ S \subseteq Int
    BY <1>1
  <2> QED
    BY <2>2, <2>3
<1>3. k \in Nat /\ q \in [1 .. k -> S] /\ \A i, j \in DOMAIN q : i < j => q[i] < q[j]
  <2>1. k \in Nat /\ \E s \in [1 .. k -> S] : \A i, j \in DOMAIN s : i < j => s[i] < s[j]
    BY <1>2, IncreasingExists
  <2> QED
    BY <2>1 DEF Systems
<1> HIDE DEF S, q
<1>4. q \in Injection(1 .. k, S)
  <2>1. \A i, j \in 1 .. k : q[i] = q[j] => i = j
    <3> SUFFICES ASSUME NEW i \in 1 .. k, NEW j \in 1 .. k, i < j PROVE q[i] # q[j]
      BY <1>3
    <3>1. q[i] < q[j] /\ q[i] \in Nat /\ q[j] \in Nat
      BY <1>2, <1>3
    <3> QED
      BY <3>1
  <2> QED
    BY <1>3, <2>1 DEF Injection, IsInjective
<1>5. q \in Surjection(1 .. k, S)
  <2>1. Cardinality(1 .. k) = k /\ IsFiniteSet(1 .. k)
    BY <1>3, FS_Interval
  <2> HIDE DEF k
  <2>2. Cardinality(1 .. k) = Cardinality(S)
    BY <2>1 DEF k
  <2> QED
    BY <1>2, <1>4, <2>2, FS_Injection
<1> HIDE DEF k
<1>6. /\ \A x \in S : \E i \in 1 .. k : q[i] = x
      /\ \A i, j \in 1 .. k : q[i] = q[j] => i = j
  BY <1>4, <1>5 DEF Surjection, Injection, IsInjective
<1>7. q \in Seq(Nat) /\ DOMAIN q = 1 .. k
  <2>1. q \in [1 .. k -> Nat]
    BY <1>2, <1>3
  <2> QED
    BY <1>3, <2>1
<1>8. q = <<>> <=> S = {}
  <2>1. q = <<>> <=> 1 .. k = {}
    BY <1>3, <1>7
  <2> QED
    BY <1>3, <1>6, <2>1
<1>9. ASSUME NEW o PROVE Cardinality({i \in DOMAIN q : q[i] = o}) = IF o \in S THEN 1 ELSE 0
  <2>1. CASE o \in S
    <3>1. PICK i \in 1 .. k : q[i] = o
      BY <1>6, <2>1
    <3>2. {j \in DOMAIN q : q[j] = o} = {i}
      BY <1>6, <1>7, <3>1
    <3> QED
      BY <2>1, <3>2, FS_Singleton
  <2>2. CASE o \notin S
    <3>1. {j \in DOMAIN q : q[j] = o} = {}
      BY <1>3, <1>7, <2>2
    <3> QED
      BY <2>2, <3>1, FS_EmptySet
  <2> QED
    BY <2>1, <2>2
<1> QED
  BY <1>7, <1>8, <1>9 DEF q, S
-----------------------------------------------------------------------------
(* What Flush writes of what CallFilter annotated.                         *)

\* What one more annotated line adds to what Flush writes.
LEMMA LinesInIs ==
  ASSUME NEW a \in Seq(Notes), NEW o
  PROVE  /\ LinesIn(<<>>, o) = <<>>
         /\ LinesIn(a, o) \in Seq(Nat)
         /\ \A r \in Notes : LinesIn(Append(a, r), o) = LinesIn(a, o) \o [j \in 1 .. Times(r, o) |-> r.line]
<1> DEFINE F(s, g) == [i \in 0 .. Len(s) |-> IF i = 0 THEN <<>>
                                             ELSE g[i - 1] \o [j \in 1 .. Times(s[i], o) |-> s[i].line]]
           h(s) == CHOOSE g : g = F(s, g)
           V == Seq(Nat)
<1>1. \A s : LinesIn(s, o) = h(s)[Len(s)]
  BY DEF LinesIn, Times
<1>2. ASSUME NEW r \in Notes PROVE Times(r, o) \in Nat /\ [j \in 1 .. Times(r, o) |-> r.line] \in V
  <2>1. Times(r, o) \in Nat
    <3>1. DOMAIN r.systems = 1 .. Len(r.systems) /\ Len(r.systems) \in Nat
      BY DEF Notes
    <3>2. IsFiniteSet(1 .. Len(r.systems))
      BY <3>1, FS_Interval
    <3>3. IsFiniteSet({i \in DOMAIN r.systems : r.systems[i] = o})
      BY <3>1, <3>2, FS_Subset
    <3> QED
      BY <3>3, FS_CardinalityType DEF Times
  <2>2. r.line \in Nat
    BY DEF Notes
  <2> QED
    BY <2>1, <2>2
<1>3. ASSUME NEW s \in Seq(Notes)
      PROVE  /\ Len(s) \in Nat /\ \A i \in 0 .. Len(s) : h(s)[i] \in V
             /\ h(s)[0] = <<>>
             /\ \A i \in 1 .. Len(s) : h(s)[i] = h(s)[i - 1] \o [j \in 1 .. Times(s[i], o) |-> s[i].line]
  <2> DEFINE n == Len(s)
             w == [i \in 1 .. n |-> [j \in 1 .. Times(s[i], o) |-> s[i].line]]
             op == [p \in (1 .. n) \X V |-> p[2] \o w[p[1]]]
  <2>1. n \in Nat /\ <<>> \in V
    OBVIOUS
  <2>2. \A i \in 1 .. n : w[i] \in V
    <3>1. \A i \in 1 .. n : s[i] \in Notes
      OBVIOUS
    <3> HIDE DEF V
    <3> QED
      BY <1>2, <3>1
  <2>3. op \in [(1 .. n) \X V -> V] /\ \A i \in 1 .. n, v \in V : op[<<i, v>>] = v \o w[i]
    <3>1. \A u, v \in V : v \o u \in V
      OBVIOUS
    <3> HIDE DEF w, n, V
    <3> QED
      BY <2>2, <3>1
  <2>4. \A i \in 1 .. n : w[i] = [j \in 1 .. Times(s[i], o) |-> s[i].line]
    OBVIOUS
  <2> HIDE DEF op, w, n
  <2>5. PICK g \in [0 .. n -> V] : Recursion(n, <<>>, op, g)
    BY <2>1, <2>3, RecursionExists
  <2>6. g = F(s, g)
    <3>1. \A i \in 1 .. n : i - 1 \in 0 .. n /\ g[i - 1] \in V
      BY <2>1, <2>5
    <3>2. g[0] = <<>> /\ \A i \in 1 .. n : g[i] = g[i - 1] \o [j \in 1 .. Times(s[i], o) |-> s[i].line]
      BY <2>3, <2>4, <2>5, <3>1 DEF Recursion
    <3>3. \A i \in 0 .. n : g[i] = IF i = 0 THEN <<>> ELSE g[i - 1] \o [j \in 1 .. Times(s[i], o) |-> s[i].line]
      <4> TAKE i \in 0 .. n
      <4>1. i = 0 \/ (i \in 1 .. n /\ i # 0)
        BY <2>1
      <4> QED
        BY <3>2, <4>1
    <3> QED
      BY <2>5, <3>3 DEF n
  <2>7. h(s) = F(s, h(s))
    BY <2>6
  <2> HIDE DEF h
  <2>8. \A i \in 0 .. n : h(s)[i] = IF i = 0 THEN <<>> ELSE h(s)[i - 1] \o [j \in 1 .. Times(s[i], o) |-> s[i].line]
    BY <2>7 DEF n
  <2>9. h(s)[0] = <<>>
    <3>1. 0 \in 0 .. n
      BY <2>1
    <3> QED
      BY <2>8, <3>1
  <2>10. \A i \in 1 .. n : h(s)[i] = h(s)[i - 1] \o [j \in 1 .. Times(s[i], o) |-> s[i].line]
    <3> TAKE i \in 1 .. n
    <3>1. i \in 0 .. n /\ i # 0
      BY <2>1
    <3> QED
      BY <2>8, <3>1
  <2> DEFINE P == {i \in 0 .. n : h(s)[i] \in V}
  <2>11. 0 \in P
    <3>1. 0 \in 0 .. n
      BY <2>1
    <3> QED
      BY <2>1, <2>9, <3>1
  <2>12. ASSUME NEW i \in 0 .. n - 1, i \in P PROVE i + 1 \in P
    <3>1. i + 1 \in 1 .. n /\ i + 1 \in 0 .. n /\ (i + 1) - 1 = i
      BY <2>1
    <3>2. h(s)[i + 1] = h(s)[i] \o w[i + 1]
      BY <2>4, <2>10, <3>1
    <3>3. h(s)[i] \in V /\ w[i + 1] \in V
      BY <2>2, <2>12, <3>1
    <3>4. h(s)[i] \o w[i + 1] \in V
      BY <3>3
    <3> QED
      BY <3>1, <3>2, <3>4
  <2> HIDE DEF P
  <2>13. 0 .. n \subseteq P
    BY <2>1, <2>11, <2>12, UpTo
  <2> QED
    BY <2>1, <2>9, <2>10, <2>13 DEF P, n
<1> HIDE DEF h, F
<1>4. LinesIn(<<>>, o) = <<>>
  <2>1. <<>> \in Seq(Notes) /\ Len(<<>>) = 0
    OBVIOUS
  <2> QED
    BY <1>1, <1>3, <2>1
<1>5. LinesIn(a, o) \in Seq(Nat)
  <2>1. Len(a) \in 0 .. Len(a)
    OBVIOUS
  <2> QED
    BY <1>1, <1>3, <2>1
<1>6. ASSUME NEW r \in Notes
      PROVE  LinesIn(Append(a, r), o) = LinesIn(a, o) \o [j \in 1 .. Times(r, o) |-> r.line]
  <2> DEFINE s == Append(a, r)
             n == Len(a)
             P == {i \in 0 .. n : h(s)[i] = h(a)[i]}
  <2>1. /\ s \in Seq(Notes) /\ Len(s) = n + 1 /\ n \in Nat /\ s[n + 1] = r
        /\ \A i \in 1 .. n : s[i] = a[i]
    BY AppendProperties
  <2> HIDE DEF s
  <2>2. h(s)[0] = h(a)[0]
    BY <1>3, <2>1
  <2>3. ASSUME NEW i \in 0 .. n - 1, i \in P PROVE i + 1 \in P
    <3>1. i + 1 \in 1 .. n /\ i + 1 \in 1 .. Len(s) /\ (i + 1) - 1 = i /\ i + 1 \in 0 .. n
      BY <2>1
    <3>2. h(s)[i + 1] = h(s)[i] \o [j \in 1 .. Times(s[i + 1], o) |-> s[i + 1].line]
      BY <1>3, <2>1, <3>1
    <3>3. h(a)[i + 1] = h(a)[i] \o [j \in 1 .. Times(a[i + 1], o) |-> a[i + 1].line]
      BY <1>3, <3>1
    <3>4. s[i + 1] = a[i + 1] /\ h(s)[i] = h(a)[i]
      BY <2>1, <2>3, <3>1
    <3> QED
      BY <3>1, <3>2, <3>3, <3>4
  <2>4. 0 \in P
    BY <2>1, <2>2
  <2> HIDE DEF P
  <2>5. 0 .. n \subseteq P
    BY <2>1, <2>3, <2>4, UpTo
  <2>6. h(s)[n] = h(a)[n]
    BY <2>1, <2>5 DEF P
  <2>7. h(s)[n + 1] = h(s)[n] \o [j \in 1 .. Times(r, o) |-> r.line]
    <3>1. n + 1 \in 1 .. Len(s) /\ (n + 1) - 1 = n
      BY <2>1
    <3> QED
      BY <1>3, <2>1, <3>1
  <2> QED
    BY <1>1, <2>1, <2>6, <2>7 DEF s
<1> QED
  BY <1>4, <1>5, <1>6

\* The line annotated last, if any, is one of the first n.
LastBefore(out, n) ==
  out.last.address # 0 =>
    \E m \in 1 .. n : file.to[m] \notin {All, {}} /\ out.last.length = file.length[m]

\* What SingleAddNGram does to the line at the back.
LEMMA BackTold ==
  ASSUME NEW a, NEW b, NEW x, NEW l, NEW out, out = [annotated |-> a, last |-> l]
  PROVE  [out EXCEPT !.annotated[b].systems = Append(@, x)]
           = [annotated |-> [a EXCEPT ![b] = [a[b] EXCEPT !.systems = Append(a[b].systems, x)]],
              last |-> l]
OBVIOUS

\* A line that is for all, for none or for some sentences.
LEMMA FilterLineAdds ==
  ASSUME file \in Files, Harmless(file), NEW n \in 1 .. Total(file), NEW at \in Nat \ {0},
         NEW out \in Buffers, LastBefore(out, n - 1)
  PROVE  /\ file.to[n] = All =>
              FilterLine(out, n, at) =
                [out EXCEPT !.annotated = Append(@, [line |-> n, systems |-> <<>>])]
         /\ file.to[n] = {} /\ file.to[n] # All => FilterLine(out, n, at) = out
         /\ file.to[n] \notin {All, {}} =>
              FilterLine(out, n, at) =
                [annotated |-> Append(out.annotated, [line |-> n, systems |-> Systems(n)]),
                 last |-> [address |-> at, length |-> file.length[n]]]
<1> DEFINE q == Systems(n)
           k == Len(q)
           h == CHOOSE g : g = [i \in 0 .. Len(q) |->
                  IF i = 0 THEN out ELSE SingleAddNGram(g[i - 1], q[i], n, at)]
           here == [address |-> at, length |-> file.length[n]]
           note(i) == [line |-> n, systems |-> SubSeq(q, 1, i)]
           f == [i \in 0 .. k |-> IF i = 0 THEN out
                                  ELSE [annotated |-> Append(out.annotated, note(i)), last |-> here]]
<1>1. FilterLine(out, n, at) = IF file.to[n] = All THEN AddNGramTo(out, n) ELSE h[k]
  BY DEF FilterLine
<1>2. CASE file.to[n] = All
  BY <1>1, <1>2 DEF AddNGramTo
<1>3. CASE file.to[n] # All
  <2>1. q \in Seq(Nat) /\ k \in Nat /\ (q = <<>> <=> file.to[n] = {})
    BY <1>3, SystemsIs
  <2> HIDE DEF q
  <2>2. out.annotated \in Seq(Notes) /\ out = [annotated |-> out.annotated, last |-> out.last]
        /\ Len(out.annotated) \in Nat
    BY DEF Buffers
  <2>3. file.to[n] # {} => out.last # here
    <3>1. SUFFICES ASSUME file.to[n] # {}, out.last = here PROVE FALSE
      OBVIOUS
    <3>2. out.last.address = at /\ out.last.length = file.length[n]
      BY <3>1
    <3>3. PICK m \in 1 .. n - 1 : file.to[m] \notin {All, {}} /\ out.last.length = file.length[m]
      BY <3>2 DEF LastBefore
    <3>4. Total(file) \in Nat
      BY FileIs
    <3>5. m # n /\ m \in 1 .. Total(file)
      BY <3>3, <3>4
    <3> QED
      BY <1>3, <3>1, <3>2, <3>3, <3>5 DEF Harmless
  <2>4. \A i \in 1 .. k : /\ note(i) \in [line : {n}, systems : Seq(Nat)]
                          /\ i > 1 => note(i).systems = Append(note(i - 1).systems, q[i])
                          /\ i = 1 => note(i).systems = <<q[1]>>
    <3> TAKE i \in 1 .. k
    <3>1. SubSeq(q, 1, i) \in Seq(Nat) /\ Len(SubSeq(q, 1, i)) = i
          /\ \A j \in 1 .. i : SubSeq(q, 1, i)[j] = q[j]
      BY <2>1
    <3>2. i > 1 => SubSeq(q, 1, i) = Append(SubSeq(q, 1, i - 1), q[i])
      BY <2>1
    <3>3. i = 1 => SubSeq(q, 1, i) = <<q[1]>>
      <4>1. SUFFICES ASSUME i = 1 PROVE SubSeq(q, 1, i) = <<q[1]>>
        OBVIOUS
      <4> DEFINE s == SubSeq(q, 1, i)
      <4>2. s \in Seq(Nat) /\ Len(s) = 1 /\ s[1] = q[1] /\ q[1] \in Nat
        BY <2>1, <3>1, <4>1
      <4> HIDE DEF s
      <4>3. s = <<q[1]>>
        BY <4>2
      <4> QED
        BY <4>3 DEF s
    <3> QED
      BY <3>1, <3>2, <3>3
  <2> HIDE DEF k, here
  <2>5. ASSUME NEW i \in 1 .. k PROVE f[i] = SingleAddNGram(f[i - 1], q[i], n, at)
    <3> DEFINE before == f[i - 1]
               back == Len(before.annotated)
    <3>1. /\ i - 1 \in 0 .. k /\ i \in 0 .. k /\ i # 0
          /\ f[i] = [annotated |-> Append(out.annotated, note(i)), last |-> here]
      BY <2>1
    <3>2. SingleAddNGram(before, q[i], n, at) =
            IF before.last # here
              THEN [annotated |-> Append(before.annotated, [line |-> n, systems |-> <<q[i]>>]),
                    last |-> here]
            ELSE IF back = 0 THEN before
            ELSE [before EXCEPT !.annotated[back].systems = Append(@, q[i])]
      BY DEF SingleAddNGram, here
    <3>3. CASE i = 1
      <4>1. before = out
        BY <2>1, <3>3
      <4>2. file.to[n] # {}
        BY <2>1, <3>3 DEF k
      <4>3. note(i) = [line |-> n, systems |-> <<q[i]>>]
        BY <2>4, <3>3
      <4> HIDE DEF note, f, back
      <4> QED
        BY <2>3, <3>1, <3>2, <4>1, <4>2, <4>3
    <3>4. CASE i # 1
      <4>0. i - 1 \in 1 .. k /\ i > 1 /\ i - 1 # 0
        BY <2>1, <3>4
      <4>1. before = [annotated |-> Append(out.annotated, note(i - 1)), last |-> here]
        BY <4>0, <3>1
      <4>2. note(i - 1) \in [line : {n}, systems : Seq(Nat)] /\ note(i) \in [line : {n}, systems : Seq(Nat)]
            /\ note(i).systems = Append(note(i - 1).systems, q[i])
        BY <2>4, <4>0
      <4> HIDE DEF note, f
      <4>3. note(i) = [note(i - 1) EXCEPT !.systems = Append(@, q[i])]
        BY <4>2
      <4>4. note(i - 1) \in Notes /\ note(i) \in Notes
        BY <4>2 DEF Notes
      <4>5. back = Len(out.annotated) + 1 /\ back # 0
        BY <2>2, <4>1, <4>4
      <4>6. [before EXCEPT !.annotated[back].systems = Append(@, q[i])]
              = [annotated |-> [Append(out.annotated, note(i - 1)) EXCEPT ![back] = note(i)],
                 last |-> here]
        <5> DEFINE a == Append(out.annotated, note(i - 1))
        <5>1. a[back] = note(i - 1)
          BY <2>2, <4>4, <4>5, AppendProperties
        <5> HIDE DEF back, a, before
        <5>2. before = [annotated |-> a, last |-> here]
          BY <4>1 DEF a
        <5>3. [before EXCEPT !.annotated[back].systems = Append(@, q[i])]
                = [annotated |-> [a EXCEPT ![back] = [a[back] EXCEPT !.systems = Append(a[back].systems, q[i])]],
                   last |-> here]
          BY <5>2, BackTold
        <5>4. [a[back] EXCEPT !.systems = Append(a[back].systems, q[i])] = note(i)
          BY <4>3, <5>1
        <5> QED
          BY <5>3, <5>4 DEF a
      <4>8. [Append(out.annotated, note(i - 1)) EXCEPT ![back] = note(i)] = Append(out.annotated, note(i))
        <5> DEFINE a == out.annotated
        <5>1. a \in Seq(Notes) /\ back = Len(a) + 1
          BY <2>2, <4>5
        <5> DEFINE x == note(i - 1)
                   y == note(i)
                   s == Append(a, x)
                   t == Append(a, y)
        <5>2. x \in Notes /\ y \in Notes
          BY <4>4
        <5> HIDE DEF a, back, x, y
        <5>3. /\ s \in Seq(Notes) /\ Len(s) = Len(a) + 1 /\ t \in Seq(Notes) /\ Len(t) = Len(a) + 1
              /\ \A j \in 1 .. Len(a) : s[j] = a[j] /\ t[j] = a[j]
              /\ t[back] = y /\ Len(a) \in Nat
          BY <5>1, <5>2, AppendProperties
        <5> HIDE DEF s, t
        <5>4. DOMAIN s = 1 .. back /\ DOMAIN t = 1 .. back
          BY <5>1, <5>3
        <5>0. [s EXCEPT ![back] = y] = [j \in 1 .. back |-> IF j = back THEN y ELSE s[j]]
          BY <5>4
        <5>5. \A j \in 1 .. back : [s EXCEPT ![back] = y][j] = t[j]
          <6> TAKE j \in 1 .. back
          <6>1. j = back \/ (j \in 1 .. Len(a) /\ j # back)
            BY <5>1, <5>3
          <6> QED
            BY <5>3, <5>4, <6>1
        <5>6. t = [j \in 1 .. back |-> t[j]]
          <6>1. t \in [1 .. Len(t) -> Notes] /\ Len(t) = back
            BY <5>1, <5>3
          <6> QED
            BY <6>1
        <5>7. [s EXCEPT ![back] = y] = t
          <6>1. \A j \in 1 .. back : t[j] = IF j = back THEN y ELSE s[j]
            BY <5>0, <5>5
          <6> QED
            BY <5>0, <5>6, <6>1
        <5> QED
          BY <5>7 DEF a, s, t, x, y
      <4> HIDE DEF back
      <4> QED
        BY <3>1, <3>2, <4>1, <4>5, <4>6, <4>8
    <3> QED
      BY <3>3, <3>4
  <2>6. f[0] = out
    BY <2>1
  <2>7. DOMAIN f = 0 .. k /\ f = [i \in 0 .. k |-> f[i]]
    OBVIOUS
  <2>8. f[k] = IF k = 0 THEN out ELSE [annotated |-> Append(out.annotated, [line |-> n, systems |-> q]), last |-> here]
    <3>1. k # 0 => SubSeq(q, 1, k) = q
      BY <2>1 DEF k
    <3>2. k \in 0 .. k
      BY <2>1
    <3> QED
      BY <3>1, <3>2
  <2> HIDE DEF f, note
  <2>9. f = [i \in 0 .. k |-> IF i = 0 THEN out ELSE SingleAddNGram(f[i - 1], q[i], n, at)]
    <3>1. \A i \in 0 .. k : f[i] = IF i = 0 THEN out ELSE SingleAddNGram(f[i - 1], q[i], n, at)
      <4> TAKE i \in 0 .. k
      <4>1. i = 0 \/ (i \in 1 .. k /\ i # 0)
        BY <2>1
      <4> QED
        BY <2>5, <2>6, <4>1
    <3> QED
      BY <2>7, <3>1
  <2>10. h = [i \in 0 .. k |-> IF i = 0 THEN out ELSE SingleAddNGram(h[i - 1], q[i], n, at)]
    BY <2>9 DEF k
  <2> HIDE DEF h
  <2>11. \A i \in 0 .. k : h[i] = IF i = 0 THEN out ELSE SingleAddNGram(h[i - 1], q[i], n, at)
    BY <2>10
  <2> DEFINE P == {i \in 0 .. k : h[i] = f[i]}
  <2>12. 0 \in P
    <3>1. 0 \in 0 .. k
      BY <2>1
    <3> QED
      BY <2>6, <2>11, <3>1
  <2>13. ASSUME NEW i \in 0 .. k - 1, i \in P PROVE i + 1 \in P
    <3>1. i + 1 \in 1 .. k /\ i + 1 \in 0 .. k /\ (i + 1) - 1 = i /\ i + 1 # 0
      BY <2>1
    <3>2. h[i + 1] = SingleAddNGram(h[i], q[i + 1], n, at)
      BY <2>11, <3>1
    <3>3. f[i + 1] = SingleAddNGram(f[i], q[i + 1], n, at)
      BY <2>5, <3>1
    <3> QED
      BY <2>13, <3>1, <3>2, <3>3
  <2> HIDE DEF P
  <2>14. 0 .. k \subseteq P
    BY <2>1, <2>12, <2>13, UpTo
  <2>15. h[k] = f[k]
    BY <2>1, <2>14 DEF P
  <2>16. k = 0 <=> file.to[n] = {}
    BY <2>1 DEF k
  <2> QED
    BY <1>1, <1>3, <2>8, <2>15, <2>16 DEF here, q
<1> QED
  BY <1>2, <1>3

\* A step of a concatenation.
LEMMA ConcatAppend ==
  ASSUME NEW c \in Seq(Nat), NEW s \in Seq(Nat), NEW n \in Nat
  PROVE  /\ c \o (s \o [j \in 1 .. 1 |-> n]) = Append(c \o s, n)
         /\ c \o (s \o [j \in 1 .. 0 |-> n]) = c \o s
<1> DEFINE one == [j \in 1 .. 1 |-> n]
           none == [j \in 1 .. 0 |-> n]
<1>1. one = <<n>> /\ <<n>> \in Seq(Nat)
  OBVIOUS
<1>2. none = <<>>
  <2>1. DOMAIN none = {} /\ none \in Seq(Nat)
    OBVIOUS
  <2> HIDE DEF none
  <2> QED
    BY <2>1
<1> HIDE DEF one, none
<1>3. c \o s \in Seq(Nat)
  BY ConcatProperties
<1>4. c \o (s \o <<n>>) = Append(c \o s, n)
  BY <1>1, <1>3, ConcatAssociative, AppendIsConcat
<1>5. s \o <<>> = s
  BY ConcatEmptySeq
<1> QED
  BY <1>1, <1>2, <1>4, <1>5 DEF one, none

\* If a buffer held what passes of the lines before line n, it then holds what
\* passes of the lines up to n.
LEMMA FilterLineIs ==
  ASSUME file \in Files, Harmless(file), NEW n \in 1 .. Total(file), NEW at \in Nat \ {0},
         NEW out \in Buffers, LastBefore(out, n - 1)
  PROVE  /\ FilterLine(out, n, at) \in Buffers
         /\ LastBefore(FilterLine(out, n, at), n)
         /\ \A o, c : c \in Seq(Nat) /\ c \o LinesIn(out.annotated, o) = KeptThrough(n - 1, o)
                        => c \o LinesIn(FilterLine(out, n, at).annotated, o) = KeptThrough(n, o)
<1> DEFINE r == FilterLine(out, n, at)
           Goal(b) == /\ b \in Buffers /\ LastBefore(b, n)
                      /\ \A o, c : c \in Seq(Nat) /\ c \o LinesIn(out.annotated, o) = KeptThrough(n - 1, o)
                                     => c \o LinesIn(b.annotated, o) = KeptThrough(n, o)
<1>1. /\ n \in Nat /\ n \in 1 .. Len(file.to) /\ Total(file) \in Nat /\ file.length[n] \in Nat
      /\ out.annotated \in Seq(Notes) /\ out.last \in [address : Nat, length : Nat]
      /\ out = [annotated |-> out.annotated, last |-> out.last]
  BY FileIs DEF Buffers
<1>2. out.last.address # 0 =>
        \E m \in 1 .. n : file.to[m] \notin {All, {}} /\ out.last.length = file.length[m]
  <2>1. 1 .. n - 1 \subseteq 1 .. n
    BY <1>1
  <2> QED
    BY <2>1 DEF LastBefore
<1>3. \A o : /\ KeptThrough(n, o) = IF Passes(n, o) THEN Append(KeptThrough(n - 1, o), n) ELSE KeptThrough(n - 1, o)
             /\ LinesIn(out.annotated, o) \in Seq(Nat)
             /\ \A x \in Notes : LinesIn(Append(out.annotated, x), o)
                                   = LinesIn(out.annotated, o) \o [j \in 1 .. Times(x, o) |-> x.line]
  BY <1>1, KeptIs, LinesInIs
<1>4. \A c, s \in Seq(Nat) : /\ c \o (s \o [j \in 1 .. 1 |-> n]) = Append(c \o s, n)
                             /\ c \o (s \o [j \in 1 .. 0 |-> n]) = c \o s
  BY <1>1, ConcatAppend
<1>5. CASE file.to[n] = All
  <2> DEFINE x == [line |-> n, systems |-> <<>>]
             b == [annotated |-> Append(out.annotated, x), last |-> out.last]
  <2>1. r = b
    <3>1. r = [out EXCEPT !.annotated = Append(@, x)]
      BY <1>5, FilterLineAdds
    <3> HIDE DEF x, r
    <3> QED
      BY <1>1, <3>1
  <2>2. x \in Notes /\ x.line = n /\ \A o : Times(x, o) = 1
    BY <1>1 DEF Notes, Times
  <2> HIDE DEF x
  <2>3. Append(out.annotated, x) \in Seq(Notes)
    BY <1>1, <2>2
  <2>4. b \in Buffers
    BY <1>1, <2>3 DEF Buffers
  <2>5. LastBefore(b, n)
    BY <1>2 DEF LastBefore
  <2>6. ASSUME NEW o, NEW c, c \in Seq(Nat) /\ c \o LinesIn(out.annotated, o) = KeptThrough(n - 1, o)
        PROVE  c \o LinesIn(b.annotated, o) = KeptThrough(n, o)
    <3>1. KeptThrough(n, o) = Append(KeptThrough(n - 1, o), n)
      BY <1>3, <1>5 DEF Passes
    <3>2. LinesIn(b.annotated, o) = LinesIn(out.annotated, o) \o [j \in 1 .. 1 |-> n]
      <4>1. LinesIn(Append(out.annotated, x), o) = LinesIn(out.annotated, o) \o [j \in 1 .. Times(x, o) |-> x.line]
        BY <1>3, <2>2
      <4>2. Times(x, o) = 1 /\ x.line = n
        BY <2>2
      <4> QED
        BY <4>1, <4>2
    <3> QED
      BY <1>3, <1>4, <2>6, <3>1, <3>2
  <2> HIDE DEF b
  <2> QED
    BY <2>1, <2>4, <2>5, <2>6
<1>6. CASE file.to[n] = {} /\ file.to[n] # All
  <2>1. r = out
    <3>1. file.to[n] = {} /\ file.to[n] # All => FilterLine(out, n, at) = out
      BY FilterLineAdds
    <3> QED
      BY <1>6, <3>1
  <2>2. \A o : KeptThrough(n, o) = KeptThrough(n - 1, o)
    BY <1>3, <1>6 DEF Passes
  <2>3. LastBefore(out, n)
    BY <1>2 DEF LastBefore
  <2> QED
    BY <2>1, <2>2, <2>3
<1>7. CASE file.to[n] \notin {All, {}}
  <2> DEFINE x == [line |-> n, systems |-> Systems(n)]
             last == [address |-> at, length |-> file.length[n]]
             b == [annotated |-> Append(out.annotated, x), last |-> last]
  <2>1. r = b
    BY <1>7, FilterLineAdds
  <2>2. Systems(n) \in Seq(Nat) /\ Systems(n) # <<>>
        /\ \A o : Cardinality({i \in DOMAIN Systems(n) : Systems(n)[i] = o}) = IF o \in file.to[n] THEN 1 ELSE 0
    BY <1>7, SystemsIs
  <2>3. x \in Notes /\ x.line = n /\ \A o : Times(x, o) = IF o \in file.to[n] THEN 1 ELSE 0
    BY <1>1, <2>2 DEF Notes, Times
  <2> HIDE DEF x
  <2>4. Append(out.annotated, x) \in Seq(Notes)
    BY <1>1, <2>3
  <2>5. b \in Buffers
    BY <1>1, <2>4 DEF Buffers
  <2>6. LastBefore(b, n)
    <3>1. b.last.length = file.length[n] /\ n \in 1 .. n
      BY <1>1
    <3> QED
      BY <1>7, <3>1 DEF LastBefore
  <2>7. ASSUME NEW o, NEW c, c \in Seq(Nat) /\ c \o LinesIn(out.annotated, o) = KeptThrough(n - 1, o)
        PROVE  c \o LinesIn(b.annotated, o) = KeptThrough(n, o)
    <3>1. LinesIn(b.annotated, o) = LinesIn(out.annotated, o) \o [j \in 1 .. Times(x, o) |-> n]
      BY <1>3, <2>3
    <3>2. CASE o \in file.to[n]
      <4>1. KeptThrough(n, o) = Append(KeptThrough(n - 1, o), n) /\ Times(x, o) = 1
        BY <1>3, <2>3, <3>2 DEF Passes
      <4>2. LinesIn(b.annotated, o) = LinesIn(out.annotated, o) \o [j \in 1 .. 1 |-> n]
        BY <3>1, <4>1
      <4> QED
        BY <1>3, <1>4, <2>7, <4>1, <4>2
    <3>3. CASE o \notin file.to[n]
      <4>1. KeptThrough(n, o) = KeptThrough(n - 1, o) /\ Times(x, o) = 0
        BY <1>3, <1>7, <2>3, <3>3 DEF Passes
      <4>2. LinesIn(b.annotated, o) = LinesIn(out.annotated, o) \o [j \in 1 .. 0 |-> n]
        BY <3>1, <4>1
      <4>3. c \o (LinesIn(out.annotated, o) \o [j \in 1 .. 0 |-> n]) = c \o LinesIn(out.annotated, o)
        BY <1>3, <1>4, <2>7
      <4> QED
        BY <2>7, <4>1, <4>2, <4>3
    <3> QED
      BY <3>2, <3>3
  <2> HIDE DEF b
  <2> QED
    BY <2>1, <2>5, <2>6, <2>7
<1> HIDE DEF r
<1> QED
  BY <1>5, <1>6, <1>7 DEF r

\* A buffer filled from a batch that holds the lines behind line c.
LEMMA AnnotateIs ==
  ASSUME file \in Files, Harmless(file), NEW c \in Nat, NEW lines \in Seq(Nat),
         c + Len(lines) <= Total(file), \A i \in 1 .. Len(lines) : lines[i] = c + i,
         NEW out \in Buffers, out.annotated = <<>>, LastBefore(out, c)
  PROVE  /\ Annotate(lines, out) \in Buffers
         /\ LastBefore(Annotate(lines, out), c + Len(lines))
         /\ \A o : KeptThrough(c, o) \o LinesIn(Annotate(lines, out).annotated, o)
                     = KeptThrough(c + Len(lines), o)
<1> DEFINE n == Len(lines)
           h == CHOOSE g : g = [at \in 0 .. Len(lines) |->
                  IF at = 0 THEN out ELSE FilterLine(g[at - 1], lines[at], at)]
           Fits(b, i) == b \in Buffers /\ LastBefore(b, c + i)
           op == [p \in (1 .. n) \X Buffers |->
                    IF Fits(p[2], p[1] - 1) THEN FilterLine(p[2], lines[p[1]], p[1]) ELSE p[2]]
<1>1. n \in Nat /\ Total(file) \in Nat
  BY FileIs
<1>2. \A i \in 1 .. n : /\ lines[i] = c + i /\ c + i \in 1 .. Total(file) /\ i \in Nat \ {0}
                        /\ c + (i - 1) = (c + i) - 1
  BY <1>1
<1>3. Annotate(lines, out) = h[n]
  BY DEF Annotate
<1>4. ASSUME NEW i \in 1 .. n, NEW b, Fits(b, i - 1)
      PROVE  /\ Fits(FilterLine(b, lines[i], i), i)
             /\ \A o, s : s \in Seq(Nat) /\ s \o LinesIn(b.annotated, o) = KeptThrough(c + (i - 1), o)
                            => s \o LinesIn(FilterLine(b, lines[i], i).annotated, o) = KeptThrough(c + i, o)
  <2>1. b \in Buffers /\ LastBefore(b, (c + i) - 1)
    BY <1>2, <1>4
  <2>2. lines[i] = c + i /\ c + i \in 1 .. Total(file) /\ i \in Nat \ {0} /\ c + (i - 1) = (c + i) - 1
    BY <1>2
  <2> HIDE DEF n
  <2>3. /\ FilterLine(b, c + i, i) \in Buffers /\ LastBefore(FilterLine(b, c + i, i), c + i)
        /\ \A o, s : s \in Seq(Nat) /\ s \o LinesIn(b.annotated, o) = KeptThrough((c + i) - 1, o)
                       => s \o LinesIn(FilterLine(b, c + i, i).annotated, o) = KeptThrough(c + i, o)
    BY <2>1, <2>2, FilterLineIs
  <2> QED
    BY <2>2, <2>3
<1>5. op \in [(1 .. n) \X Buffers -> Buffers]
      /\ \A i \in 1 .. n, b \in Buffers :
           Fits(b, i - 1) => op[<<i, b>>] = FilterLine(b, lines[i], i)
  <2>1. \A i \in 1 .. n, b \in Buffers : Fits(b, i - 1) => FilterLine(b, lines[i], i) \in Buffers
    BY <1>4
  <2> HIDE DEF Fits, n
  <2> QED
    BY <2>1
<1> HIDE DEF op, n
<1>6. PICK g \in [0 .. n -> Buffers] : Recursion(n, out, op, g)
  BY <1>1, <1>5, RecursionExists
<1> DEFINE P == {i \in 0 .. n : Fits(g[i], i)}
<1>7. g[0] = out /\ Fits(g[0], 0)
  BY <1>6 DEF Recursion
<1>8. ASSUME NEW i \in 1 .. n, Fits(g[i - 1], i - 1)
      PROVE  g[i] = FilterLine(g[i - 1], lines[i], i) /\ Fits(g[i], i)
  <2>1. i - 1 \in 0 .. n /\ g[i - 1] \in Buffers
    BY <1>1, <1>6
  <2>2. g[i] = op[<<i, g[i - 1]>>]
    BY <1>6 DEF Recursion
  <2>3. g[i] = FilterLine(g[i - 1], lines[i], i)
    <3> HIDE DEF Fits
    <3> QED
      BY <1>5, <1>8, <2>1, <2>2
  <2>4. Fits(FilterLine(g[i - 1], lines[i], i), i)
    <3> HIDE DEF Fits
    <3> QED
      BY <1>4, <1>8
  <2> QED
    BY <2>3, <2>4
<1> HIDE DEF Fits
<1>9. 0 .. n \subseteq P
  <2>1. 0 \in P
    BY <1>1, <1>7
  <2>2. ASSUME NEW i \in 0 .. n - 1, i \in P PROVE i + 1 \in P
    <3>1. i + 1 \in 1 .. n /\ i + 1 \in 0 .. n /\ (i + 1) - 1 = i
      BY <1>1
    <3>2. Fits(g[i + 1], i + 1)
      BY <1>8, <2>2, <3>1
    <3> QED
      BY <3>1, <3>2
  <2> HIDE DEF P
  <2> QED
    BY <1>1, <2>1, <2>2, UpTo
<1>10. \A i \in 1 .. n : Fits(g[i - 1], i - 1) /\ g[i] = FilterLine(g[i - 1], lines[i], i)
  <2> TAKE i \in 1 .. n
  <2>1. i - 1 \in P
    BY <1>1, <1>9
  <2> QED
    BY <1>8, <2>1
<1>11. h = [i \in 0 .. n |-> IF i = 0 THEN out ELSE FilterLine(h[i - 1], lines[i], i)]
  <2>1. \A i \in 0 .. n : g[i] = IF i = 0 THEN out ELSE FilterLine(g[i - 1], lines[i], i)
    <3> TAKE i \in 0 .. n
    <3>1. i = 0 \/ (i \in 1 .. n /\ i # 0)
      BY <1>1
    <3> QED
      BY <1>7, <1>10, <3>1
  <2>2. g = [i \in 0 .. n |-> IF i = 0 THEN out ELSE FilterLine(g[i - 1], lines[i], i)]
    BY <1>6, <2>1
  <2> QED
    BY <2>2 DEF n
<1> HIDE DEF h
<1> DEFINE Q == {i \in 0 .. n : /\ h[i] = g[i]
                                /\ \A o : KeptThrough(c, o) \o LinesIn(g[i].annotated, o)
                                            = KeptThrough(c + i, o)}
<1>12. \A o : KeptThrough(c, o) \in Seq(Nat)
  <2>1. c \in 0 .. Total(file)
    BY <1>1 DEF n
  <2> QED
    BY <2>1, KeptIs
<1>13. 0 \in Q
  <2>1. 0 \in 0 .. n /\ h[0] = out
    <3>1. 0 \in 0 .. n
      BY <1>1
    <3> QED
      BY <1>11, <3>1
  <2>2. \A o : KeptThrough(c, o) \o LinesIn(out.annotated, o) = KeptThrough(c + 0, o)
    <3> TAKE o
    <3>1. LinesIn(<<>>, o) = <<>>
      <4>1. <<>> \in Seq(Notes)
        OBVIOUS
      <4> QED
        BY <4>1, LinesInIs
    <3>2. KeptThrough(c, o) \o <<>> = KeptThrough(c, o)
      BY <1>12, ConcatEmptySeq
    <3>3. c + 0 = c
      OBVIOUS
    <3> QED
      BY <3>1, <3>2, <3>3
  <2> QED
    BY <1>7, <2>1, <2>2
<1>14. ASSUME NEW i \in 0 .. n - 1, i \in Q PROVE i + 1 \in Q
  <2>1. i + 1 \in 1 .. n /\ i + 1 \in 0 .. n /\ (i + 1) - 1 = i /\ i + 1 # 0
    BY <1>1
  <2>2. h[i + 1] = FilterLine(h[i], lines[i + 1], i + 1)
    BY <1>11, <2>1
  <2>3. g[i + 1] = FilterLine(g[i], lines[i + 1], i + 1) /\ Fits(g[i], i)
    BY <1>10, <2>1
  <2>4. h[i] = g[i] /\ \A o : KeptThrough(c, o) \o LinesIn(g[i].annotated, o) = KeptThrough(c + i, o)
    BY <1>14
  <2>5. \A o : KeptThrough(c, o) \o LinesIn(g[i + 1].annotated, o) = KeptThrough(c + (i + 1), o)
    <3> TAKE o
    <3>1. \A s : s \in Seq(Nat) /\ s \o LinesIn(g[i].annotated, o) = KeptThrough(c + i, o)
                    => s \o LinesIn(g[i + 1].annotated, o) = KeptThrough(c + (i + 1), o)
      <4> DEFINE j == i + 1
      <4>1. j \in 1 .. n /\ j - 1 = i
        BY <2>1
      <4>2. Fits(g[i], j - 1)
        BY <2>3, <4>1
      <4> HIDE DEF j
      <4>3. \A s : s \in Seq(Nat) /\ s \o LinesIn(g[i].annotated, o) = KeptThrough(c + (j - 1), o)
                     => s \o LinesIn(FilterLine(g[i], lines[j], j).annotated, o) = KeptThrough(c + j, o)
        BY <1>4, <4>1, <4>2
      <4>4. \A s : s \in Seq(Nat) /\ s \o LinesIn(g[i].annotated, o) = KeptThrough(c + i, o)
                     => s \o LinesIn(FilterLine(g[i], lines[j], j).annotated, o) = KeptThrough(c + j, o)
        BY <4>1, <4>3
      <4> QED
        BY <2>3, <4>4 DEF j
    <3> QED
      BY <1>12, <2>4, <3>1
  <2> HIDE DEF Q
  <2>6. h[i + 1] = g[i + 1]
    BY <2>2, <2>3, <2>4
  <2> QED
    BY <2>1, <2>5, <2>6 DEF Q
<1> HIDE DEF Q
<1>15. 0 .. n \subseteq Q
  BY <1>1, <1>13, <1>14, UpTo
<1>16. n \in 0 .. n
  BY <1>1
<1>17. h[n] = g[n] /\ \A o : KeptThrough(c, o) \o LinesIn(g[n].annotated, o) = KeptThrough(c + n, o)
  BY <1>15, <1>16 DEF Q
<1>18. Fits(g[n], n)
  BY <1>9, <1>16 DEF P
<1> QED
  BY <1>3, <1>17, <1>18 DEF n, Fits
-----------------------------------------------------------------------------
(* The lines in the batches.                                               *)

\* The batches that hold lines not yet written.
Held == UnderWay \cup (IF reader \in {"new", "drain"} THEN {} ELSE {input})
Destroying == {"destroy", "destroy output", "destroyed"}

Typed == batch \in [Batches -> [sequence : Nat, input : Seq(Nat), output : Buffers]]

\* cut[q] lines come before the batch with number q.  A number that was given to
\* an empty batch, which was not sent, has no lines.
Cuts(cut) ==
  /\ cut \in [Nat -> Nat]
  /\ \A p, q \in Nat : base_sequence <= p /\ p <= q /\ q <= sequence => cut[p] <= cut[q]
  /\ cut[sequence] = line
  /\ \A q \in Nat : base_sequence <= q /\ q < sequence =>
       cut[q] = cut[q + 1] \/ \E b \in Held : Number(b) = q
  /\ \A b \in Held :
       /\ Len(batch[b].input) = cut[Number(b) + 1] - cut[Number(b)]
       /\ \A i \in 1 .. Len(batch[b].input) : batch[b].input[i] = cut[Number(b)] + i
  /\ \A o \in Outputs : written[o] = KeptThrough(cut[base_sequence], o)

\* A batch is annotated with what passes of its lines; what it last annotated,
\* now or before it was emptied, is not ahead of its own lines.
Contents(cut) ==
  /\ \A b \in Batches \ Filtered : batch[b].output.annotated = <<>>
  /\ \A b \in Filtered, o \in Outputs :
       KeptThrough(cut[Number(b)], o) \o Lines(b, o) = KeptThrough(cut[Number(b) + 1], o)
  /\ \A b \in Batches : LastBefore(batch[b].output, line)
  /\ \A b \in Held \ Filtered : LastBefore(batch[b].output, cut[Number(b)])

\* Where the reader is in the file.
Reading ==
  /\ file \in Files
  /\ section \in 1 .. Len(file.number) /\ left \in Nat /\ line \in Nat
  /\ line + left = LinesThrough(section)
  /\ reader = "begin" => line = LinesThrough(section - 1)
  /\ reader \notin {"begin", "read", "full", "new"} => left = 0
  /\ reader \in {"begin", "flush", "drain", "end"} => file.format = "arpa"

\* Nothing is under way while a section ends and when threads are joined.
AtRest ==
  /\ reader \in {"begin", "end"} \/ (reader \in Destroying /\ file.format = "arpa")
       => UnderWay = {} /\ batch[input].input = <<>>
  /\ reader \in {"destroy output", "destroyed"} =>
       filter_in = <<>> /\ \A w \in FilterThreads : filtering[w] = NoBatch
  /\ reader = "destroyed" => output_in = <<>> /\ ~writing
  /\ ~writing => ~FrontReady

\* n-grams counted in the sections before this one and in it.
Counting ==
  \A o \in Outputs :
    /\ fast_counter[o] \in Nat /\ counts[o] \in Seq(Int)
    /\ reader # "begin" =>
         fast_counter[o] + Len(KeptThrough(LinesThrough(section - 1), o)) = Len(written[o])
    /\ Len(counts[o]) = IF reader \in Destroying /\ file.format = "arpa" THEN section ELSE section - 1
    /\ \A k \in DOMAIN counts[o] :
         counts[o][k] = Len(KeptThrough(LinesThrough(k), o)) - Len(KeptThrough(LinesThrough(k - 1), o))

\* A raw file is not flushed: its batches are full but for the last.
Rest == IF reader = "new" THEN 0 ELSE Len(batch[input].input)
RawReading ==
  file.format = "raw" =>
    /\ reader \in {"read", "full", "new"} \cup Destroying
    /\ \A q \in Nat : base_sequence <= q /\ q < sequence => \E b \in Held : Number(b) = q
    /\ Rest <= BatchSize /\ (reader = "full" <=> Rest = BatchSize)
    /\ \E k \in Nat : line = k * BatchSize + Rest

InOrder == Typed /\ (\E cut : Cuts(cut) /\ Contents(cut)) /\ Counting /\ RawReading
OrderInv == IInv /\ Reading /\ AtRest /\ (Harmless(file) => InOrder)
-----------------------------------------------------------------------------
\* Of the batches that hold lines each has a number of its own.
LEMMA HeldIs ==
  ASSUME IInv
  PROVE  /\ Held \subseteq Batches /\ Filtered \subseteq UnderWay /\ UnderWay \subseteq Held
         /\ sequence \in Nat /\ base_sequence \in Nat /\ base_sequence <= sequence
         /\ \A b \in Batches : Number(b) \in Nat
         /\ \A b \in Held : base_sequence <= Number(b) /\ Number(b) < sequence
         /\ \A b, c \in Held : Number(b) = Number(c) => b = c
         /\ reader \notin {"new", "drain"} =>
              /\ input \in Held /\ input \notin UnderWay /\ Held = UnderWay \cup {input}
              /\ Number(input) + 1 = sequence
              /\ \A b \in UnderWay : Number(b) + 1 < sequence
         /\ reader \in {"new", "drain"} => Held = UnderWay
<1>1. /\ sequence \in Nat /\ base_sequence \in Nat /\ base_sequence <= sequence
      /\ \A b \in Batches : Number(b) \in Nat
      /\ \A b \in UnderWay : base_sequence <= Number(b) /\ Number(b) < sequence
      /\ \A b, c \in UnderWay : Number(b) = Number(c) => b = c
  BY DEF IInv, Numbers, Number
<1>2. UnderWay \subseteq Batches /\ \A b \in At["reader"] : b \notin UnderWay
  BY UnderWayAreBatches DEF IInv
<1>3. Filtered \subseteq UnderWay
  <2>1. \A w \in filtered : filtering[w] \in At["threads"]
    BY AtNames DEF IInv, Queues
  <2> QED
    BY <2>1 DEF Filtered, UnderWay
<1>4. ASSUME reader \notin {"new", "drain"}
      PROVE  /\ input \in Batches /\ input \notin UnderWay /\ Number(input) + 1 = sequence
             /\ base_sequence <= Number(input)
             /\ \A b \in UnderWay : Number(b) + 1 < sequence
  <2>1. /\ local_read \in Seq(Batches) /\ local_read # <<>> /\ input = local_read[1]
        /\ Number(input) + 1 = sequence /\ base_sequence < sequence
        /\ \A b \in UnderWay : Number(b) + 1 < sequence
    BY <1>4 DEF IInv, Queues, InputIsFresh
  <2>2. input \in Batches /\ input \in At["reader"]
    BY <2>1, AtNames DEF ToSet
  <2>3. input \notin UnderWay
    BY <1>2, <2>2
  <2> QED
    BY <1>1, <2>1, <2>2, <2>3
<1>5. CASE reader \in {"new", "drain"}
  <2>1. Held = UnderWay
    BY <1>5 DEF Held
  <2> QED
    BY <1>1, <1>2, <1>3, <1>5, <2>1
<1>6. CASE reader \notin {"new", "drain"}
  <2>1. Held = UnderWay \cup {input}
    BY <1>6 DEF Held
  <2>2. \A b \in UnderWay : Number(b) # Number(input)
    BY <1>1, <1>2, <1>4, <1>6
  <2>3. Number(input) \in Nat /\ Number(input) < sequence
    BY <1>1, <1>4, <1>6
  <2>4. \A b, c \in Held : Number(b) = Number(c) => b = c
    BY <1>1, <2>1, <2>2
  <2>5. \A b \in Held : base_sequence <= Number(b) /\ Number(b) < sequence
    BY <1>1, <1>4, <1>6, <2>1, <2>3
  <2> QED
    BY <1>1, <1>2, <1>3, <1>4, <1>6, <2>1, <2>4, <2>5
<1> QED
  BY <1>5, <1>6

\* The operators on the file, while it is the same.
LEMMA SameFile ==
  ASSUME file' = file
  PROVE  /\ \A n, o : KeptThrough(n, o)' = KeptThrough(n, o)
         /\ \A k : LinesThrough(k)' = LinesThrough(k)
         /\ \A out, n : LastBefore(out, n)' = LastBefore(out, n)
         /\ Outputs' = Outputs /\ Harmless(file)' = Harmless(file)
<1>1. \A n, o : KeptThrough(n, o)' = KeptThrough(n, o)
  BY DEF KeptThrough, Passes
<1> QED
  BY <1>1 DEF LinesThrough, LastBefore, Outputs

\* No step but AddNGram, FlushNothing, NewInput, CallFilter and WriteFront
\* changes what is held.
LEMMA SameContents ==
  ASSUME UNCHANGED <<file, line, sequence, batch, base_sequence, written>>,
         Held' = Held, Filtered' = Filtered, NEW cut, Cuts(cut), Contents(cut)
  PROVE  Cuts(cut)' /\ Contents(cut)'
<1>1. /\ \A n, o : KeptThrough(n, o)' = KeptThrough(n, o)
      /\ Outputs' = Outputs
  BY SameFile
<1>2. \A b : Number(b)' = Number(b)
  BY DEF Number
<1>3. \A b, o : Lines(b, o)' = Lines(b, o)
  BY DEF Lines
<1>4. Cuts(cut)'
  BY <1>1, <1>2 DEF Cuts
<1>5. Contents(cut)'
  BY <1>1, <1>2, <1>3 DEF Contents, LastBefore
<1> QED
  BY <1>4, <1>5
-----------------------------------------------------------------------------
(* Where the reader is, and who rests.                                     *)

\* The reader is within the file.
LEMMA LineIs ==
  ASSUME Reading
  PROVE  /\ line \in Nat /\ line <= Total(file) /\ Total(file) \in Nat
         /\ left > 0 => line + 1 \in 1 .. Total(file)
         /\ left = 0 => line = LinesThrough(section)
         /\ LinesThrough(section) \in Nat /\ LinesThrough(section - 1) \in Nat
         /\ section \in Nat \ {0}
         /\ section = Len(file.number) => LinesThrough(section) = Total(file)
<1>1. /\ file \in Files /\ section \in 1 .. Len(file.number) /\ left \in Nat /\ line \in Nat
      /\ line + left = Through(file, section)
  BY DEF Reading, LinesThrough
<1>2. Len(file.number) \in Nat
  BY <1>1, ThroughIs
<1>3. section \in 0 .. Len(file.number) /\ section - 1 \in 0 .. Len(file.number) /\ section \in Nat \ {0}
  BY <1>1, <1>2
<1>4. Through(file, section) \in 0 .. Total(file) /\ Through(file, section - 1) \in 0 .. Total(file)
  BY <1>1, <1>3, ThroughGrows
<1>5. Total(file) \in Nat
  BY <1>1, FileIs
<1>6. section = Len(file.number) => Through(file, section) = Total(file)
  BY DEF Total
<1> QED
  BY <1>1, <1>3, <1>4, <1>5, <1>6 DEF LinesThrough

\* Each step of the reader keeps its place in the file.
LEMMA ReadingKept == Reading /\ [Next]_vars => Reading'
<1> SUFFICES ASSUME Reading, [Next]_vars PROVE Reading'
  OBVIOUS
<1>1. /\ file \in Files /\ section \in 1 .. Len(file.number) /\ left \in Nat /\ line \in Nat
      /\ line + left = Through(file, section)
      /\ reader = "begin" => line = Through(file, section - 1)
      /\ reader \notin {"begin", "read", "full", "new"} => left = 0
      /\ reader \in {"begin", "flush", "drain", "end"} => file.format = "arpa"
  BY DEF Reading, LinesThrough
<1>2. CASE BeginLength \/ EndOfSection \/ FlushInput \/ FlushNothing \/ MoveRead \/ NewInput
           \/ DestroyFilter \/ DestroyOutput
  <2>1. UNCHANGED <<file, section, line, left>>
    BY <1>2 DEF BeginLength, EndOfSection, FlushInput, FlushNothing, MoveRead, NewInput,
                DestroyFilter, DestroyOutput
  <2>2. /\ reader' = "begin" => reader = "begin"
        /\ reader' \notin {"begin", "read", "full", "new"} => left = 0
        /\ reader' \in {"begin", "flush", "drain", "end"} => file.format = "arpa"
    BY <1>1, <1>2 DEF BeginLength, EndOfSection, FlushInput, FlushNothing, MoveRead, NewInput,
                      NeedsBatch, DestroyFilter, DestroyOutput
  <2> QED
    BY <1>1, <2>1, <2>2 DEF Reading, LinesThrough
<1>3. CASE AddNGram
  <2>1. /\ line' = line + 1 /\ left' = left - 1 /\ left > 0 /\ reader' \in {"read", "full"}
        /\ UNCHANGED <<file, section>>
    BY <1>3 DEF AddNGram
  <2> QED
    BY <1>1, <2>1 DEF Reading, LinesThrough
<1>4. CASE EndLength
  <2>1. Len(file.number) \in Nat /\ \A i \in 1 .. Len(file.number) :
          /\ file.number[i] \in Nat /\ Through(file, i) = Through(file, i - 1) + file.number[i]
    BY <1>1, ThroughIs
  <2>2. left = 0 /\ file.format = "arpa" /\ line' = line /\ file' = file
    BY <1>1, <1>4 DEF EndLength
  <2>3. CASE section < Len(file.number)
    <3>1. section' = section + 1 /\ left' = file.number[section + 1] /\ reader' = "begin"
      BY <1>4, <2>3 DEF EndLength
    <3>2. section + 1 \in 1 .. Len(file.number) /\ (section + 1) - 1 = section
      BY <1>1, <2>1, <2>3
    <3>3. /\ line + left' = Through(file, section + 1) /\ line = Through(file, (section + 1) - 1)
          /\ left' \in Nat
      BY <1>1, <2>1, <2>2, <3>1, <3>2
    <3> QED
      BY <1>1, <2>2, <3>1, <3>2, <3>3 DEF Reading, LinesThrough
  <2>4. CASE ~(section < Len(file.number))
    <3>1. section' = section /\ left' = left /\ reader' = "destroy"
      BY <1>4, <2>4 DEF EndLength
    <3> QED
      BY <1>1, <2>2, <3>1 DEF Reading, LinesThrough
  <2> QED
    BY <2>3, <2>4
<1>5. CASE Output \/ (\E w \in FilterThreads : Filter(w)) \/ UNCHANGED vars
  <2>1. UNCHANGED <<file, section, line, left, reader>>
    BY <1>5 DEF Output, Receive, WriteFront, LoopEnds, Filter, TakeBatch, CallFilter,
                SendFiltered, vars, readerVars
  <2> QED
    BY <1>1, <2>1 DEF Reading, LinesThrough
<1> QED
  BY <1>2, <1>3, <1>4, <1>5 DEF Next, Reader

\* The reader that has all batches has them from everybody.
LEMMA AllBatchesBack ==
  ASSUME IInv, Len(local_read) >= QueueSize
  PROVE  UnderWay = {}
<1>1. QueueSize \in Nat
  BY FilterAssumption DEF QueueSize
<1>2. /\ local_read \in Seq(Batches) /\ IsInjective(local_read) /\ Len(local_read) \in Nat
      /\ DOMAIN local_read = 1 .. Len(local_read)
  BY DEF IInv, Queues
<1>3. IsFiniteSet(Batches) /\ Cardinality(Batches) = QueueSize
  BY <1>1, FS_Interval DEF Batches
<1>4. local_read \in Injection(1 .. Len(local_read), Batches)
  BY <1>2 DEF Injection, IsInjective
<1>5. Cardinality(1 .. Len(local_read)) = Len(local_read)
  BY <1>2, FS_Interval
<1>6. Len(local_read) = QueueSize
  <2>1. Cardinality(1 .. Len(local_read)) <= Cardinality(Batches)
    BY <1>3, <1>4, FS_Injection
  <2>2. Len(local_read) <= QueueSize
    BY <1>3, <1>5, <2>1
  <2> QED
    <3>1. Len(local_read) \in Nat /\ Len(local_read) >= QueueSize
      BY <1>2
    <3> DEFINE n == Len(local_read)
    <3> HIDE DEF n
    <3> QED
      BY <1>1, <2>2, <3>1 DEF n
<1>7. local_read \in Surjection(1 .. Len(local_read), Batches)
  BY <1>3, <1>4, <1>5, <1>6, FS_Injection
<1>8. At["reader"] = Batches
  BY <1>2, <1>7, AtNames DEF Surjection, ToSet
<1> QED
  BY <1>8, UnderWayAreBatches DEF IInv

\* Output is not input.
LEMMA InputKeepsLines ==
  ASSUME IInv, reader \notin {"new", "drain"}, NEW b, NEW x,
         batch' = [batch EXCEPT ![b].output = x]
  PROVE  batch'[input].input = batch[input].input
<1>1. input \in Batches
  BY HeldIs
<1>2. PICK S : batch \in [Batches -> [sequence : Nat, input : S, output : S]]
  BY DEF IInv, Numbers
<1>3. batch[input] \in [sequence : Nat, input : S, output : S]
  BY <1>1, <1>2
<1> QED
  BY <1>1, <1>2, <1>3

\* A section ends, and a thread is joined, only when nothing is left to do.
LEMMA AtRestKept == IInv /\ Reading /\ AtRest /\ [Next]_vars => AtRest'
<1> SUFFICES ASSUME IInv, Reading, AtRest, [Next]_vars PROVE AtRest'
  OBVIOUS
<1> DEFINE Ended == reader \in {"begin", "end"} \/ (reader \in Destroying /\ file.format = "arpa")
<1>1. /\ Ended => UnderWay = {} /\ batch[input].input = <<>>
      /\ reader \in {"destroy output", "destroyed"} =>
           filter_in = <<>> /\ \A w \in FilterThreads : filtering[w] = NoBatch
      /\ reader = "destroyed" => output_in = <<>> /\ ~writing
      /\ ~writing => ~FrontReady
  BY DEF AtRest
<1>2. CASE BeginLength \/ EndOfSection \/ FlushInput \/ FlushNothing \/ AddNGram \/ MoveRead
  <2>1. ~Ended' /\ reader' \notin {"destroy output", "destroyed"}
    BY <1>2 DEF BeginLength, EndOfSection, FlushInput, FlushNothing, AddNGram, MoveRead, NeedsBatch,
                Destroying
  <2>2. UNCHANGED <<writing, ordering>>
    BY <1>2 DEF BeginLength, EndOfSection, FlushInput, FlushNothing, AddNGram, MoveRead, outputVars
  <2> QED
    BY <1>1, <2>1, <2>2 DEF AtRest, FrontReady
<1>3. CASE NewInput
  <2>1. /\ UNCHANGED <<writing, ordering>> /\ reader' \in {"read", "end"}
        /\ reader' = "end" => reader = "drain" /\ ~(Len(local_read) < QueueSize)
        /\ batch' = [batch EXCEPT ![input'].sequence = sequence, ![input'].input = <<>>]
    BY <1>3 DEF NewInput, NeedsBatch, outputVars, Filled
  <2>2. UnderWay' = UnderWay /\ input' \in Batches
    BY <1>3, NewInputKeeps
  <2>3. batch'[input'].input = <<>>
    <3>1. PICK S : batch \in [Batches -> [sequence : Nat, input : S, output : S]]
      BY DEF IInv, Numbers
    <3> QED
      BY <2>1, <2>2, <3>1
  <2>4. reader' = "end" => UnderWay' = {}
    <3>1. QueueSize \in Nat /\ Len(local_read) \in Nat
      BY FilterAssumption DEF QueueSize, IInv, Queues
    <3> QED
      BY <2>1, <2>2, <3>1, AllBatchesBack
  <2> QED
    BY <1>1, <2>1, <2>3, <2>4 DEF AtRest, FrontReady, Destroying
<1>4. CASE EndLength \/ DestroyFilter \/ DestroyOutput \/ LoopEnds \/ UNCHANGED vars
  <2>1. UNCHANGED <<file, input, sequence, filter_in, output_in, filtering, ordering, batch, local_read>>
    BY <1>4 DEF EndLength, DestroyFilter, DestroyOutput, LoopEnds, vars, readerVars, queueVars,
                filterVars, outputVars
  <2>2. UnderWay' = UnderWay
    BY <2>1 DEF UnderWay, At, Names
  <2>3. Ended' => Ended
    BY <1>4, <2>1 DEF EndLength, DestroyFilter, DestroyOutput, LoopEnds, vars, readerVars, Destroying
  <2>4. /\ reader' \in {"destroy output", "destroyed"} =>
             filter_in = <<>> /\ \A w \in FilterThreads : filtering[w] = NoBatch
        /\ reader' = "destroyed" => output_in = <<>> /\ ~writing'
        /\ ~writing' => ~FrontReady
    <3>1. CASE EndLength
      BY <1>1, <3>1 DEF EndLength, outputVars
    <3>2. CASE DestroyFilter
      BY <1>1, <3>2 DEF DestroyFilter, outputVars
    <3>3. CASE DestroyOutput
      BY <1>1, <3>3 DEF DestroyOutput, outputVars
    <3>4. CASE LoopEnds
      BY <1>1, <3>4 DEF LoopEnds, readerVars
    <3>5. CASE UNCHANGED vars
      BY <1>1, <3>5 DEF vars, readerVars, outputVars
    <3> QED
      BY <1>4, <3>1, <3>2, <3>3, <3>4, <3>5
  <2> QED
    BY <1>1, <2>1, <2>2, <2>3, <2>4 DEF AtRest, FrontReady
<1>5. ASSUME NEW w \in FilterThreads, TakeBatch(w) PROVE AtRest'
  <2>1. /\ UNCHANGED <<file, reader, input, batch, output_in, ordering, writing>> /\ filter_in # <<>>
    BY <1>5 DEF TakeBatch, readerVars, outputVars
  <2>2. UnderWay' = UnderWay
    BY <1>5, TakeBatchKeeps
  <2> QED
    BY <1>1, <2>1, <2>2 DEF AtRest, FrontReady
<1>6. ASSUME NEW w \in FilterThreads, CallFilter(w) PROVE AtRest'
  <2>1. /\ UNCHANGED <<file, reader, input, filter_in, filtering, output_in, ordering, writing>>
        /\ \E x : batch' = [batch EXCEPT ![filtering[w]].output = x]
    BY <1>6 DEF CallFilter, readerVars, queueVars, outputVars
  <2>2. UnderWay' = UnderWay
    BY <2>1 DEF UnderWay, At, Names
  <2>3. Ended => batch'[input].input = batch[input].input
    BY <2>1, InputKeepsLines DEF Destroying
  <2> QED
    BY <1>1, <2>1, <2>2, <2>3 DEF AtRest, FrontReady
<1>7. ASSUME NEW w \in FilterThreads, SendFiltered(w) PROVE AtRest'
  <2>1. /\ UNCHANGED <<file, reader, input, batch, filter_in, ordering, writing>> /\ w \in filtered
    BY <1>7 DEF SendFiltered, readerVars, outputVars
  <2>2. UnderWay' = UnderWay /\ filtering[w] # NoBatch
    BY <1>7, <2>1, SendFilteredKeeps DEF IInv, Queues
  <2> QED
    BY <1>1, <2>1, <2>2 DEF AtRest, FrontReady
<1>8. CASE Receive
  <2>1. /\ UNCHANGED <<file, reader, input, batch, filter_in, filtering>> /\ output_in # <<>> /\ writing'
    BY <1>8 DEF Receive, readerVars, filterVars
  <2>2. UnderWay' = UnderWay
    BY <1>8, ReceiveKeeps
  <2> QED
    BY <1>1, <2>1, <2>2 DEF AtRest
<1>9. CASE WriteFront
  <2>1. /\ UNCHANGED <<file, reader, input, filter_in, filtering, writing>> /\ writing
        /\ \E x : batch' = [batch EXCEPT ![Head(ordering)].output = x]
    <3>1. batch' = [batch EXCEPT ![Head(ordering)].output = [@ EXCEPT !.annotated = <<>>]]
      BY <1>9 DEF WriteFront
    <3> QED
      BY <1>9, <3>1 DEF WriteFront, readerVars, filterVars
  <2>2. UnderWay' \subseteq UnderWay
    BY <1>9, WriteFrontKeeps
  <2>3. Ended => batch'[input].input = batch[input].input
    BY <2>1, InputKeepsLines DEF Destroying
  <2> QED
    BY <1>1, <2>1, <2>2, <2>3 DEF AtRest
<1> QED
  BY <1>2, <1>3, <1>4, <1>5, <1>6, <1>7, <1>8, <1>9 DEF Next, Reader, Output, Filter
-----------------------------------------------------------------------------
(* The steps that change what is held.                                     *)

\* What is not ahead of a line is not ahead of a later one.
LEMMA LastBeforeGrows ==
  ASSUME NEW out, NEW m \in Nat, NEW n \in Nat, m <= n, LastBefore(out, m)
  PROVE  LastBefore(out, n)
<1>1. 1 .. m \subseteq 1 .. n
  OBVIOUS
<1> QED
  BY <1>1 DEF LastBefore

\* One record of a batch changes and not its number.
LEMMA OneBatchChanges ==
  ASSUME Typed, NEW b \in Batches
  PROVE  /\ \A x \in Seq(Nat) : batch' = [batch EXCEPT ![b].input = x] =>
              /\ Typed' /\ batch'[b].input = x
              /\ \A c \in Batches : /\ Number(c)' = Number(c) /\ batch'[c].output = batch[c].output
                                    /\ c # b => batch'[c].input = batch[c].input
         /\ \A x \in Buffers : batch' = [batch EXCEPT ![b].output = x] =>
              /\ Typed' /\ batch'[b].output = x
              /\ \A c \in Batches : /\ Number(c)' = Number(c) /\ batch'[c].input = batch[c].input
                                    /\ c # b => batch'[c].output = batch[c].output
<1> DEFINE R == [sequence : Nat, input : Seq(Nat), output : Buffers]
<1>1. batch \in [Batches -> R]
  BY DEF Typed
<1>2. ASSUME NEW x \in Seq(Nat), batch' = [batch EXCEPT ![b].input = x]
      PROVE  /\ Typed' /\ batch'[b].input = x
             /\ \A c \in Batches : /\ Number(c)' = Number(c) /\ batch'[c].output = batch[c].output
                                   /\ c # b => batch'[c].input = batch[c].input
  <2>1. batch[b] \in R
    BY <1>1
  <2>2. batch'[b] = [batch[b] EXCEPT !.input = x] /\ \A c \in Batches \ {b} : batch'[c] = batch[c]
    BY <1>1, <1>2
  <2>3. /\ batch'[b] \in R /\ batch'[b].input = x /\ batch'[b].output = batch[b].output
        /\ batch'[b].sequence = batch[b].sequence
    BY <2>1, <2>2
  <2>4. batch' \in [Batches -> R]
    BY <1>1, <1>2, <2>2, <2>3
  <2> HIDE DEF R
  <2> QED
    BY <2>2, <2>3, <2>4 DEF Typed, Number, R
<1>3. ASSUME NEW x \in Buffers, batch' = [batch EXCEPT ![b].output = x]
      PROVE  /\ Typed' /\ batch'[b].output = x
             /\ \A c \in Batches : /\ Number(c)' = Number(c) /\ batch'[c].input = batch[c].input
                                   /\ c # b => batch'[c].output = batch[c].output
  <2>1. batch[b] \in R
    BY <1>1
  <2>2. batch'[b] = [batch[b] EXCEPT !.output = x] /\ \A c \in Batches \ {b} : batch'[c] = batch[c]
    BY <1>1, <1>3
  <2>3. /\ batch'[b] \in R /\ batch'[b].output = x /\ batch'[b].input = batch[b].input
        /\ batch'[b].sequence = batch[b].sequence
    BY <2>1, <2>2
  <2>4. batch' \in [Batches -> R]
    BY <1>1, <1>3, <2>2, <2>3
  <2> HIDE DEF R
  <2> QED
    BY <2>2, <2>3, <2>4 DEF Typed, Number, R
<1> QED
  BY <1>2, <1>3

\* The line read goes behind those of the batch that is filled.
LEMMA AddNGramInOrder ==
  ASSUME IInv, Reading, Typed, NEW cut, Cuts(cut), Contents(cut), AddNGram
  PROVE  Typed' /\ \E d : Cuts(d)' /\ Contents(d)'
<1> DEFINE x == Append(batch[input].input, line + 1)
<1>1. /\ reader = "read" /\ reader' \in {"read", "full"} /\ line' = line + 1
      /\ batch' = [batch EXCEPT ![input].input = x]
      /\ UNCHANGED <<file, input, sequence, filter_in, output_in, filtering, filtered, ordering,
                     base_sequence, written>>
  BY DEF AddNGram, queueVars, filterVars, outputVars, fileVars
<1>2. /\ Held \subseteq Batches /\ Filtered \subseteq UnderWay /\ UnderWay \subseteq Held
      /\ sequence \in Nat /\ base_sequence \in Nat /\ base_sequence <= sequence
      /\ \A b \in Batches : Number(b) \in Nat
      /\ \A b \in Held : base_sequence <= Number(b) /\ Number(b) < sequence
      /\ input \in Held /\ input \notin UnderWay /\ Held = UnderWay \cup {input}
      /\ Number(input) + 1 = sequence /\ \A b \in UnderWay : Number(b) + 1 < sequence
  BY <1>1, HeldIs
<1>3. line \in Nat
  BY LineIs
<1>4. batch[input].input \in Seq(Nat) /\ input \in Batches
  BY <1>2 DEF Typed
<1>5. /\ x \in Seq(Nat) /\ Len(x) = Len(batch[input].input) + 1 /\ Len(batch[input].input) \in Nat
      /\ \A i \in 1 .. Len(batch[input].input) : x[i] = batch[input].input[i]
      /\ x[Len(batch[input].input) + 1] = line + 1
  <2>1. line + 1 \in Nat
    BY <1>3
  <2> QED
    BY <1>4, <2>1, AppendProperties
<1> HIDE DEF x
<1>6. /\ Typed' /\ batch'[input].input = x
      /\ \A c \in Batches : /\ Number(c)' = Number(c) /\ batch'[c].output = batch[c].output
                            /\ c # input => batch'[c].input = batch[c].input
  BY <1>1, <1>4, <1>5, OneBatchChanges
<1>7. UnderWay' = UnderWay /\ Filtered' = Filtered
  BY <1>1 DEF UnderWay, Filtered, At, Names
<1>8. Held' = Held
  BY <1>1, <1>7 DEF Held
<1>9. /\ cut \in [Nat -> Nat]
      /\ \A p, q \in Nat : base_sequence <= p /\ p <= q /\ q <= sequence => cut[p] <= cut[q]
      /\ cut[sequence] = line
      /\ \A q \in Nat : base_sequence <= q /\ q < sequence =>
           cut[q] = cut[q + 1] \/ \E b \in Held : Number(b) = q
      /\ \A b \in Held :
           /\ Len(batch[b].input) = cut[Number(b) + 1] - cut[Number(b)]
           /\ \A i \in 1 .. Len(batch[b].input) : batch[b].input[i] = cut[Number(b)] + i
      /\ \A o \in Outputs : written[o] = KeptThrough(cut[base_sequence], o)
  BY DEF Cuts
<1>10. PICK d \in [Nat -> Nat] : /\ d[sequence] = line + 1
                                 /\ \A q \in Nat : q # sequence => d[q] = cut[q]
  <2> DEFINE e == [cut EXCEPT ![sequence] = line + 1]
  <2>1. cut \in [Nat -> Nat]
    BY <1>9
  <2>2. sequence \in Nat /\ line + 1 \in Nat
    BY <1>2, <1>3
  <2>3. e \in [Nat -> Nat] /\ e[sequence] = line + 1 /\ \A q \in Nat : q # sequence => e[q] = cut[q]
    BY <2>1, <2>2
  <2> HIDE DEF e
  <2> QED
    BY <2>3
<1>11. /\ \A n, o : KeptThrough(n, o)' = KeptThrough(n, o)
       /\ Outputs' = Outputs
  BY <1>1, SameFile
<1>12. Cuts(d)'
  <2>1. \A p, q \in Nat : base_sequence <= p /\ p <= q /\ q <= sequence => d[p] <= d[q]
    <3> TAKE p \in Nat, q \in Nat
    <3> HAVE base_sequence <= p /\ p <= q /\ q <= sequence
    <3>1. CASE q # sequence
      <4>1. p # sequence /\ cut[p] <= cut[q]
        BY <1>2, <1>9, <3>1
      <4> QED
        BY <1>10, <3>1, <4>1
    <3>2. CASE q = sequence /\ p # sequence
      <4>1. cut[p] <= line /\ cut[p] \in Nat
        BY <1>2, <1>9, <3>2
      <4> QED
        BY <1>3, <1>10, <3>2, <4>1
    <3>3. CASE q = sequence /\ p = sequence
      BY <1>3, <1>10, <3>3
    <3> QED
      BY <3>1, <3>2, <3>3
  <2>2. \A q \in Nat : base_sequence <= q /\ q < sequence =>
           d[q] = d[q + 1] \/ \E b \in Held : Number(b) = q
    <3> TAKE q \in Nat
    <3> HAVE base_sequence <= q /\ q < sequence
    <3>1. CASE q + 1 = sequence
      <4>1. Number(input) \in Nat /\ Number(input) + 1 = q + 1
        BY <1>2, <1>4, <3>1
      <4>2. Number(input) = q
        BY <4>1
      <4> QED
        BY <1>2, <4>2
    <3>2. CASE q + 1 # sequence
      <4>1. d[q] = cut[q] /\ d[q + 1] = cut[q + 1]
        BY <1>2, <1>10, <3>2
      <4> QED
        BY <1>9, <4>1
    <3> QED
      BY <3>1, <3>2
  <2>3. ASSUME NEW b \in Held
        PROVE  /\ Len(batch'[b].input) = d[Number(b) + 1] - d[Number(b)]
               /\ \A i \in 1 .. Len(batch'[b].input) : batch'[b].input[i] = d[Number(b)] + i
    <3>1. CASE b = input
      <4> DEFINE m == Len(batch[input].input)
                 k == Number(input)
                 c == cut[k]
      <4>0. k \in Nat /\ k + 1 = sequence /\ k # sequence
        <5>1. k \in Nat /\ k + 1 = sequence
          BY <1>2, <1>4
        <5> QED
          BY <5>1
      <4>1. m \in Nat /\ c \in Nat /\ d[k + 1] = line + 1 /\ d[k] = c /\ cut[k + 1] = line
        <5> HIDE DEF k
        <5> QED
          BY <1>5, <1>9, <1>10, <4>0
      <4>2. m = cut[k + 1] - c /\ \A i \in 1 .. m : batch[input].input[i] = c + i
        BY <1>2, <1>9
      <4>3. /\ Len(x) = m + 1 /\ x[m + 1] = line + 1
            /\ \A i \in 1 .. m : x[i] = batch[input].input[i]
        BY <1>5
      <4>4. batch'[b].input = x
        BY <1>6, <3>1
      <4> HIDE DEF m, c
      <4>5. line + 1 = c + (m + 1)
        BY <1>3, <4>1, <4>2
      <4>6. \A i \in 1 .. m + 1 : x[i] = c + i
        <5> TAKE i \in 1 .. m + 1
        <5>1. i = m + 1 \/ i \in 1 .. m
          BY <4>1
        <5> QED
          BY <4>2, <4>3, <4>5, <5>1
      <4>7. Len(x) = d[k + 1] - d[k]
        <5>1. m + 1 = (line + 1) - c
          BY <1>3, <4>1, <4>5
        <5> QED
          BY <4>1, <4>3, <5>1
      <4>8. \A i \in 1 .. Len(x) : x[i] = d[k] + i
        BY <4>1, <4>3, <4>6
      <4> QED
        BY <3>1, <4>4, <4>7, <4>8
    <3>2. CASE b # input
      <4>1. Number(b) \in Nat /\ Number(b) + 1 < sequence /\ b \in Batches
        BY <1>2, <3>2
      <4>2. d[Number(b) + 1] = cut[Number(b) + 1] /\ d[Number(b)] = cut[Number(b)]
        BY <1>2, <1>10, <4>1
      <4> QED
        BY <1>6, <1>9, <3>2, <4>1, <4>2
    <3> QED
      BY <3>1, <3>2
  <2>4. \A o \in Outputs : written[o] = KeptThrough(d[base_sequence], o)
    <3>1. base_sequence # sequence
      BY <1>2
    <3> QED
      BY <1>2, <1>9, <1>10, <3>1
  <2>5. \A b \in Held : Number(b)' = Number(b)
    BY <1>2, <1>6
  <2>6. /\ d \in [Nat -> Nat]
        /\ (\A p, q \in Nat : base_sequence <= p /\ p <= q /\ q <= sequence => d[p] <= d[q])'
        /\ (d[sequence] = line)'
    BY <1>1, <1>10, <2>1
  <2>7. (\A q \in Nat : base_sequence <= q /\ q < sequence =>
           d[q] = d[q + 1] \/ \E b \in Held : Number(b) = q)'
    BY <1>1, <1>8, <2>2, <2>5
  <2>8. (\A b \in Held :
           /\ Len(batch[b].input) = d[Number(b) + 1] - d[Number(b)]
           /\ \A i \in 1 .. Len(batch[b].input) : batch[b].input[i] = d[Number(b)] + i)'
    BY <1>8, <2>3, <2>5
  <2>9. (\A o \in Outputs : written[o] = KeptThrough(d[base_sequence], o))'
    BY <1>1, <1>11, <2>4
  <2> QED
    BY <2>6, <2>7, <2>8, <2>9 DEF Cuts
<1>13. Contents(d)'
  <2>1. /\ \A b \in Batches \ Filtered : batch[b].output.annotated = <<>>
        /\ \A b \in Filtered, o \in Outputs :
             KeptThrough(cut[Number(b)], o) \o Lines(b, o) = KeptThrough(cut[Number(b) + 1], o)
        /\ \A b \in Batches : LastBefore(batch[b].output, line)
        /\ \A b \in Held \ Filtered : LastBefore(batch[b].output, cut[Number(b)])
    BY DEF Contents
  <2>2. \A b \in Batches \ Filtered : batch'[b].output.annotated = <<>>
    BY <1>6, <2>1
  <2>3. \A b \in Filtered, o \in Outputs :
          KeptThrough(d[Number(b)], o) \o Lines(b, o)' = KeptThrough(d[Number(b) + 1], o)
    <3> TAKE b \in Filtered, o \in Outputs
    <3>1. Number(b) \in Nat /\ Number(b) + 1 < sequence /\ b \in Batches
      BY <1>2
    <3>2. d[Number(b) + 1] = cut[Number(b) + 1] /\ d[Number(b)] = cut[Number(b)]
      BY <1>2, <1>10, <3>1
    <3>3. Lines(b, o)' = Lines(b, o)
      BY <1>6, <3>1 DEF Lines
    <3> QED
      BY <2>1, <3>2, <3>3
  <2>4. \A b \in Batches : LastBefore(batch'[b].output, line + 1)
    BY <1>3, <1>6, <2>1, LastBeforeGrows
  <2>5. \A b \in Held \ Filtered : LastBefore(batch'[b].output, d[Number(b)])
    <3> TAKE b \in Held \ Filtered
    <3>1. Number(b) \in Nat /\ Number(b) # sequence /\ b \in Batches
      BY <1>2
    <3> QED
      BY <1>6, <1>10, <2>1, <3>1
  <2>6. \A b \in Held : Number(b)' = Number(b)
    BY <1>2, <1>6
  <2>7. \A out, n : LastBefore(out, n)' = LastBefore(out, n)
    BY <1>1, SameFile
  <2>8. Filtered \subseteq Held
    BY <1>2
  <2>9. (\A b \in Batches \ Filtered : batch[b].output.annotated = <<>>)'
    BY <1>7, <2>2
  <2>10. (\A b \in Filtered, o \in Outputs :
            KeptThrough(d[Number(b)], o) \o Lines(b, o) = KeptThrough(d[Number(b) + 1], o))'
    BY <1>7, <1>11, <2>3, <2>6, <2>8
  <2>11. (\A b \in Batches : LastBefore(batch[b].output, line))'
    BY <1>1, <2>4, <2>7
  <2>12. (\A b \in Held \ Filtered : LastBefore(batch[b].output, d[Number(b)]))'
    BY <1>7, <1>8, <2>5, <2>6, <2>7
  <2> QED
    BY <2>9, <2>10, <2>11, <2>12 DEF Contents
<1> QED
  BY <1>6, <1>12, <1>13
-----------------------------------------------------------------------------
\* The parts of Cuts and Contents.
LEMMA CutsIs ==
  ASSUME NEW cut, Cuts(cut), Contents(cut)
  PROVE  /\ cut \in [Nat -> Nat]
         /\ \A p, q \in Nat : base_sequence <= p /\ p <= q /\ q <= sequence => cut[p] <= cut[q]
         /\ cut[sequence] = line
         /\ \A q \in Nat : base_sequence <= q /\ q < sequence =>
              cut[q] = cut[q + 1] \/ \E b \in Held : Number(b) = q
         /\ \A b \in Held :
              /\ Len(batch[b].input) = cut[Number(b) + 1] - cut[Number(b)]
              /\ \A i \in 1 .. Len(batch[b].input) : batch[b].input[i] = cut[Number(b)] + i
         /\ \A o \in Outputs : written[o] = KeptThrough(cut[base_sequence], o)
         /\ \A b \in Batches \ Filtered : batch[b].output.annotated = <<>>
         /\ \A b \in Filtered, o \in Outputs :
              KeptThrough(cut[Number(b)], o) \o Lines(b, o) = KeptThrough(cut[Number(b) + 1], o)
         /\ \A b \in Batches : LastBefore(batch[b].output, line)
         /\ \A b \in Held \ Filtered : LastBefore(batch[b].output, cut[Number(b)])
BY DEF Cuts, Contents

\* Where the lines of a batch are.
LEMMA CutOfHeld ==
  ASSUME IInv, Reading, NEW cut, Cuts(cut), Contents(cut), NEW b \in Held
  PROVE  /\ Number(b) \in Nat /\ cut[Number(b)] \in Nat /\ cut[Number(b) + 1] \in Nat
         /\ cut[Number(b)] <= cut[Number(b) + 1] /\ cut[Number(b) + 1] <= line
         /\ line <= Total(file) /\ Total(file) \in Nat /\ line \in Nat
<1> DEFINE k == Number(b)
<1>1. k \in Nat /\ base_sequence <= k /\ k < sequence /\ sequence \in Nat /\ base_sequence \in Nat
  BY HeldIs
<1> HIDE DEF k
<1>2. /\ cut \in [Nat -> Nat] /\ cut[sequence] = line
      /\ \A p, q \in Nat : base_sequence <= p /\ p <= q /\ q <= sequence => cut[p] <= cut[q]
  BY CutsIs
<1>3. k + 1 \in Nat /\ base_sequence <= k + 1 /\ k + 1 <= sequence /\ k <= k + 1 /\ k <= sequence
  BY <1>1
<1>4. cut[k] <= cut[k + 1] /\ cut[k + 1] <= cut[sequence]
  BY <1>1, <1>2, <1>3
<1>5. line <= Total(file) /\ Total(file) \in Nat /\ line \in Nat
  BY LineIs
<1>6. cut[k] \in Nat /\ cut[k + 1] \in Nat
  BY <1>1, <1>2, <1>3
<1> QED
  BY <1>1, <1>2, <1>4, <1>5, <1>6 DEF k

\* An empty batch was given a number that no batch will have.
LEMMA FlushNothingInOrder ==
  ASSUME IInv, Reading, Typed, NEW cut, Cuts(cut), Contents(cut), FlushNothing
  PROVE  Typed' /\ Cuts(cut)' /\ Contents(cut)'
<1>1. /\ reader = "flush" /\ reader' = "drain" /\ batch[input].input = <<>>
      /\ UNCHANGED <<file, line, input, sequence, batch, filter_in, output_in, filtering, filtered,
                     ordering, base_sequence, written>>
  BY DEF FlushNothing, queueVars, filterVars, outputVars, fileVars
<1>2. UnderWay' = UnderWay /\ Filtered' = Filtered
  BY <1>1 DEF UnderWay, Filtered, At, Names
<1>3. Held' = UnderWay /\ Held = UnderWay \cup {input}
  BY <1>1, <1>2 DEF Held
<1>4. /\ \A n, o : KeptThrough(n, o)' = KeptThrough(n, o)
      /\ Outputs' = Outputs
      /\ \A out, n : LastBefore(out, n)' = LastBefore(out, n)
  BY <1>1, SameFile
<1>5. (\A b : Number(b)' = Number(b)) /\ \A b, o : Lines(b, o)' = Lines(b, o)
  BY <1>1 DEF Number, Lines
<1>6. cut[Number(input)] = cut[Number(input) + 1]
  <2> DEFINE c == cut[Number(input)]
             e == cut[Number(input) + 1]
  <2>1. input \in Held
    BY <1>3
  <2>2. c \in Nat /\ e \in Nat
    BY <2>1, CutOfHeld
  <2>3. Len(batch[input].input) = e - c
    BY <2>1, CutsIs
  <2> HIDE DEF c, e
  <2>4. e - c = 0
    BY <1>1, <2>3
  <2>5. c = e
    BY <2>2, <2>4
  <2> QED
    BY <2>5 DEF c, e
<1>7. \A q \in Nat : base_sequence <= q /\ q < sequence =>
        cut[q] = cut[q + 1] \/ \E b \in UnderWay : Number(b) = q
  BY <1>3, <1>6, CutsIs
<1>8. Cuts(cut)'
  <2>1. (\A q \in Nat : base_sequence <= q /\ q < sequence =>
           cut[q] = cut[q + 1] \/ \E b \in Held : Number(b) = q)'
    BY <1>1, <1>3, <1>5, <1>7
  <2>2. (\A b \in Held :
           /\ Len(batch[b].input) = cut[Number(b) + 1] - cut[Number(b)]
           /\ \A i \in 1 .. Len(batch[b].input) : batch[b].input[i] = cut[Number(b)] + i)'
    BY <1>1, <1>3, <1>5, CutsIs
  <2>3. (\A o \in Outputs : written[o] = KeptThrough(cut[base_sequence], o))'
    BY <1>1, <1>4, CutsIs
  <2> QED
    BY <1>1, <2>1, <2>2, <2>3 DEF Cuts
<1>9. Contents(cut)'
  BY <1>1, <1>2, <1>3, <1>4, <1>5 DEF Contents
<1> QED
  BY <1>1, <1>8, <1>9 DEF Typed

\* A batch with a new number and no lines is a batch.
LEMMA RecordFilled ==
  ASSUME NEW I, NEW O, NEW r \in [sequence : Nat, input : I, output : O], NEW n \in Nat, NEW e \in I
  PROVE  [r EXCEPT !.sequence = n, !.input = e] \in [sequence : Nat, input : I, output : O]
OBVIOUS

\* A fresh batch begins behind all lines so far.
LEMMA NewInputInOrder ==
  ASSUME IInv, Reading, Typed, NEW cut, Cuts(cut), Contents(cut), NewInput
  PROVE  /\ Typed' /\ (\E d : Cuts(d)' /\ Contents(d)')
         /\ batch'[input'].input = <<>> /\ Number(input)' = sequence /\ Held' = Held \cup {input'}
         /\ \A b \in Held : Number(b)' = Number(b)
<1>0. PICK b0 : b0 = Head(local_read)
  OBVIOUS
<1>1. /\ reader \in {"new", "drain"} /\ reader' \in {"read", "end"}
      /\ input' = b0 /\ sequence' = sequence + 1
      /\ batch' = [batch EXCEPT ![b0].sequence = sequence, ![b0].input = <<>>]
      /\ UNCHANGED <<file, line, base_sequence, written>>
  BY <1>0 DEF NewInput, Filled, outputVars, fileVars
<1>2. UnderWay' = UnderWay /\ Filtered' = Filtered /\ b0 \in Batches \ UnderWay
  BY <1>1, NewInputKeeps
<1>3. Held = UnderWay /\ Held' = UnderWay \cup {b0}
  BY <1>1, <1>2 DEF Held
<1>4. /\ Held \subseteq Batches /\ Filtered \subseteq Held
      /\ sequence \in Nat /\ base_sequence \in Nat /\ base_sequence <= sequence
      /\ \A b \in Batches : Number(b) \in Nat
      /\ \A b \in Held : base_sequence <= Number(b) /\ Number(b) < sequence
  BY <1>3, HeldIs
<1>5. /\ Typed' /\ batch'[b0].input = <<>> /\ batch'[b0].sequence = sequence
      /\ \A c \in Batches : batch'[c].output = batch[c].output
      /\ \A c \in Batches \ {b0} : batch'[c] = batch[c]
  <2> DEFINE R == [sequence : Nat, input : Seq(Nat), output : Buffers]
  <2>1. batch \in [Batches -> R] /\ batch[b0] \in R
    BY <1>2 DEF Typed
  <2>2. /\ batch'[b0] = [batch[b0] EXCEPT !.sequence = sequence, !.input = <<>>]
        /\ \A c \in Batches \ {b0} : batch'[c] = batch[c]
    BY <1>1, <1>2, <2>1
  <2>3. /\ batch'[b0] \in R /\ batch'[b0].input = <<>> /\ batch'[b0].sequence = sequence
        /\ batch'[b0].output = batch[b0].output
    <3>1. PICK r \in R : r = batch[b0]
      BY <2>1
    <3>2. [r EXCEPT !.sequence = sequence, !.input = <<>>] \in R
      <4>1. <<>> \in Seq(Nat)
        OBVIOUS
      <4> QED
        BY <1>4, <4>1, RecordFilled
    <3> HIDE DEF R
    <3> QED
      BY <2>2, <3>1, <3>2
  <2>4. batch' \in [Batches -> R]
    BY <1>1, <2>1, <2>2, <2>3
  <2> HIDE DEF R
  <2> QED
    BY <2>2, <2>3, <2>4 DEF Typed, R
<1>6. /\ Number(b0)' = sequence
      /\ \A b \in Held : Number(b)' = Number(b) /\ batch'[b] = batch[b] /\ b # b0
  BY <1>2, <1>3, <1>4, <1>5 DEF Number
<1>7. /\ cut \in [Nat -> Nat] /\ cut[sequence] = line /\ line \in Nat
      /\ \A p, q \in Nat : base_sequence <= p /\ p <= q /\ q <= sequence => cut[p] <= cut[q]
  BY CutsIs, LineIs
<1>8. PICK d \in [Nat -> Nat] : /\ d[sequence + 1] = line
                                /\ \A q \in Nat : q # sequence + 1 => d[q] = cut[q]
  <2> DEFINE e == [cut EXCEPT ![sequence + 1] = line]
  <2>1. sequence + 1 \in Nat
    BY <1>4
  <2>2. e \in [Nat -> Nat] /\ e[sequence + 1] = line /\ \A q \in Nat : q # sequence + 1 => e[q] = cut[q]
    BY <1>7, <2>1
  <2> HIDE DEF e
  <2> QED
    BY <2>2
<1>9. \A q \in Nat : q <= sequence => d[q] = cut[q]
  BY <1>4, <1>8
<1>10. \A b \in Held : d[Number(b)] = cut[Number(b)] /\ d[Number(b) + 1] = cut[Number(b) + 1]
  <2> TAKE b \in Held
  <2> DEFINE k == Number(b)
  <2>1. k \in Nat /\ k < sequence
    BY <1>4
  <2> HIDE DEF k
  <2>2. k + 1 \in Nat /\ k <= sequence /\ k + 1 <= sequence
    BY <1>4, <2>1
  <2> QED
    BY <1>9, <2>1, <2>2 DEF k
<1>11. /\ \A n, o : KeptThrough(n, o)' = KeptThrough(n, o)
       /\ Outputs' = Outputs
       /\ \A out, n : LastBefore(out, n)' = LastBefore(out, n)
  BY <1>1, SameFile
<1>12. Cuts(d)'
  <2>1. \A p, q \in Nat : base_sequence <= p /\ p <= q /\ q <= sequence + 1 => d[p] <= d[q]
    <3> TAKE p \in Nat, q \in Nat
    <3> HAVE base_sequence <= p /\ p <= q /\ q <= sequence + 1
    <3>1. CASE q <= sequence
      <4>1. p <= sequence /\ cut[p] <= cut[q]
        BY <1>4, <1>7, <3>1
      <4> QED
        BY <1>9, <3>1, <4>1
    <3>2. CASE q = sequence + 1 /\ p <= sequence
      <4>1. cut[p] <= line
        BY <1>4, <1>7, <3>2
      <4> QED
        BY <1>8, <1>9, <3>2, <4>1
    <3>3. CASE q = sequence + 1 /\ p = sequence + 1
      BY <1>7, <1>8, <3>3
    <3>4. q <= sequence \/ (q = sequence + 1 /\ (p <= sequence \/ p = sequence + 1))
      BY <1>4
    <3> QED
      BY <3>1, <3>2, <3>3, <3>4
  <2>2. \A q \in Nat : base_sequence <= q /\ q < sequence + 1 =>
           d[q] = d[q + 1] \/ \E b \in Held' : Number(b)' = q
    <3> TAKE q \in Nat
    <3> HAVE base_sequence <= q /\ q < sequence + 1
    <3>1. CASE q = sequence
      BY <1>3, <1>6, <3>1
    <3>2. CASE q < sequence
      <4>1. q + 1 \in Nat /\ q <= sequence /\ q + 1 <= sequence
        BY <1>4, <3>2
      <4>2. d[q] = cut[q] /\ d[q + 1] = cut[q + 1]
        BY <1>9, <4>1
      <4>3. cut[q] = cut[q + 1] \/ \E b \in Held : Number(b) = q
        BY <3>2, CutsIs
      <4> QED
        BY <1>3, <1>6, <4>2, <4>3
    <3>3. q = sequence \/ q < sequence
      BY <1>4
    <3> QED
      BY <3>1, <3>2, <3>3
  <2>3. ASSUME NEW b \in Held'
        PROVE  /\ Len(batch'[b].input) = d[Number(b)' + 1] - d[Number(b)']
               /\ \A i \in 1 .. Len(batch'[b].input) : batch'[b].input[i] = d[Number(b)'] + i
    <3>1. CASE b = b0
      <4>1. batch'[b].input = <<>> /\ Number(b)' = sequence
        BY <1>5, <1>6, <3>1
      <4>2. d[sequence] = line /\ d[sequence + 1] = line
        BY <1>4, <1>7, <1>8, <1>9
      <4>3. Len(<<>>) = 0 /\ line - line = 0 /\ 1 .. 0 = {}
        BY <1>7
      <4> QED
        BY <4>1, <4>2, <4>3
    <3>2. CASE b # b0
      <4>1. b \in Held
        BY <1>3, <3>2
      <4>2. Number(b)' = Number(b) /\ batch'[b] = batch[b]
        BY <1>6, <4>1
      <4>3. d[Number(b)] = cut[Number(b)] /\ d[Number(b) + 1] = cut[Number(b) + 1]
        BY <1>10, <4>1
      <4>4. /\ Len(batch[b].input) = cut[Number(b) + 1] - cut[Number(b)]
            /\ \A i \in 1 .. Len(batch[b].input) : batch[b].input[i] = cut[Number(b)] + i
        BY <4>1, CutsIs
      <4> QED
        BY <4>2, <4>3, <4>4
    <3> QED
      BY <3>1, <3>2
  <2>4. \A o \in Outputs : written[o] = KeptThrough(d[base_sequence], o)
    BY <1>4, <1>9, CutsIs
  <2>6. /\ d \in [Nat -> Nat]
        /\ (\A p, q \in Nat : base_sequence <= p /\ p <= q /\ q <= sequence => d[p] <= d[q])'
        /\ (d[sequence] = line)'
    BY <1>1, <1>8, <2>1
  <2>7. (\A q \in Nat : base_sequence <= q /\ q < sequence =>
           d[q] = d[q + 1] \/ \E b \in Held : Number(b) = q)'
    BY <1>1, <2>2
  <2>8. (\A b \in Held :
           /\ Len(batch[b].input) = d[Number(b) + 1] - d[Number(b)]
           /\ \A i \in 1 .. Len(batch[b].input) : batch[b].input[i] = d[Number(b)] + i)'
    BY <2>3
  <2>9. (\A o \in Outputs : written[o] = KeptThrough(d[base_sequence], o))'
    BY <1>1, <1>11, <2>4
  <2> QED
    BY <2>6, <2>7, <2>8, <2>9 DEF Cuts
<1>13. Contents(d)'
  <2>1. (\A b \in Batches \ Filtered : batch[b].output.annotated = <<>>)'
    BY <1>2, <1>5, CutsIs
  <2>2. (\A b \in Filtered, o \in Outputs :
            KeptThrough(d[Number(b)], o) \o Lines(b, o) = KeptThrough(d[Number(b) + 1], o))'
    <3>1. \A b \in Filtered, o \in Outputs :
            KeptThrough(d[Number(b)], o) \o Lines(b, o) = KeptThrough(d[Number(b) + 1], o)
      <4> TAKE b \in Filtered, o \in Outputs
      <4>1. KeptThrough(cut[Number(b)], o) \o Lines(b, o) = KeptThrough(cut[Number(b) + 1], o)
        BY CutsIs
      <4>2. d[Number(b)] = cut[Number(b)] /\ d[Number(b) + 1] = cut[Number(b) + 1]
        BY <1>4, <1>10
      <4> QED
        BY <4>1, <4>2
    <3>2. \A b \in Filtered, o \in Outputs : Number(b)' = Number(b) /\ Lines(b, o)' = Lines(b, o)
      BY <1>4, <1>6 DEF Lines
    <3> QED
      BY <1>2, <1>11, <3>1, <3>2
  <2>3. (\A b \in Batches : LastBefore(batch[b].output, line))'
    BY <1>1, <1>5, <1>11, CutsIs
  <2>4. (\A b \in Held \ Filtered : LastBefore(batch[b].output, d[Number(b)]))'
    <3>1. \A b \in Held \ Filtered : LastBefore(batch'[b].output, d[Number(b)'])
      <4> TAKE b \in Held \ Filtered
      <4>1. LastBefore(batch[b].output, cut[Number(b)])
        BY CutsIs
      <4>2. d[Number(b)] = cut[Number(b)] /\ Number(b)' = Number(b) /\ batch'[b] = batch[b]
        BY <1>6, <1>10
      <4> QED
        BY <4>1, <4>2
    <3>2. LastBefore(batch'[b0].output, d[Number(b0)'])
      <4>1. LastBefore(batch[b0].output, line) /\ d[sequence] = line
        BY <1>2, <1>4, <1>7, <1>9, CutsIs
      <4> QED
        BY <1>2, <1>5, <1>6, <4>1
    <3>3. \A b \in (Held \ Filtered)' : b = b0 \/ b \in Held \ Filtered
      BY <1>2, <1>3
    <3> QED
      BY <1>11, <3>1, <3>2, <3>3
  <2> QED
    BY <2>1, <2>2, <2>3, <2>4 DEF Contents
<1> QED
  BY <1>1, <1>3, <1>5, <1>6, <1>12, <1>13
-----------------------------------------------------------------------------
\* A filter thread annotates its batch with what passes of the batch's lines.
LEMMA CallFilterInOrder ==
  ASSUME IInv, Reading, Harmless(file), Typed, NEW cut, Cuts(cut), Contents(cut),
         NEW w \in FilterThreads, CallFilter(w)
  PROVE  /\ Typed' /\ Cuts(cut)' /\ Contents(cut)' /\ Held' = Held
         /\ \A b \in Held : Number(b)' = Number(b)
         /\ \A b \in Batches : batch'[b].input = batch[b].input
<1>0. PICK b : b = filtering[w]
  OBVIOUS
<1> DEFINE x == Annotate(batch[b].input, batch[b].output)
<1>1. /\ b # NoBatch /\ w \notin filtered /\ filtered' = filtered \cup {w}
      /\ batch' = [batch EXCEPT ![b].output = x]
      /\ UNCHANGED <<file, line, reader, input, sequence, filter_in, output_in, filtering, ordering,
                     base_sequence, written, local_read, to_read>>
  BY <1>0 DEF CallFilter, readerVars, queueVars, outputVars, fileVars
<1>2. /\ b \in Batches /\ b \in At["threads"]
      /\ \A v \in FilterThreads : filtering[v] = b => v = w
      /\ filtered \subseteq FilterThreads
  BY <1>0, <1>1, AtNames DEF IInv, Queues
<1>3. b \notin Filtered /\ b \in UnderWay
  <2>1. b \notin At["output"] /\ b \notin At["deque"]
    BY <1>2 DEF IInv, Partition, Names
  <2> QED
    BY <1>1, <1>2, <2>1 DEF Filtered, UnderWay
<1>4. /\ Held \subseteq Batches /\ Filtered \subseteq UnderWay /\ UnderWay \subseteq Held
      /\ \A c \in Batches : Number(c) \in Nat
  BY HeldIs
<1>5. b \in Held /\ b \in Held \ Filtered
  BY <1>3, <1>4
<1>6. UnderWay' = UnderWay /\ Filtered' = Filtered \cup {b}
  <2>1. At' = At
    BY <1>1 DEF At, Names
  <2> QED
    BY <1>0, <1>1, <2>1 DEF UnderWay, Filtered
<1>7. Held' = Held
  BY <1>1, <1>6 DEF Held
<1> DEFINE k == Number(b)
           c == cut[k]
           lines == batch[b].input
           out == batch[b].output
<1>8. /\ c \in Nat /\ cut[k + 1] \in Nat /\ cut[k + 1] <= Total(file) /\ cut[k + 1] <= line
      /\ line \in Nat /\ Total(file) \in Nat
  <2>1. /\ cut[Number(b)] \in Nat /\ cut[Number(b) + 1] \in Nat /\ cut[Number(b) + 1] <= line
        /\ line <= Total(file) /\ Total(file) \in Nat /\ line \in Nat
    BY <1>5, CutOfHeld
  <2> DEFINE e == cut[k + 1]
  <2> HIDE DEF e
  <2>2. e \in Nat /\ e <= line
    BY <2>1 DEF e
  <2>3. e <= Total(file)
    BY <2>1, <2>2
  <2> QED
    BY <2>1, <2>2, <2>3 DEF e
<1>9. /\ Len(lines) = cut[k + 1] - c /\ \A i \in 1 .. Len(lines) : lines[i] = c + i
      /\ out.annotated = <<>> /\ LastBefore(out, c)
  BY <1>2, <1>3, <1>5, CutsIs
<1>10. lines \in Seq(Nat) /\ out \in Buffers
  BY <1>2 DEF Typed
<1> HIDE DEF lines, out, c, k
<1>11. c + Len(lines) = cut[k + 1]
  BY <1>8, <1>9
<1>12. /\ x \in Buffers /\ LastBefore(x, cut[k + 1])
       /\ \A o : KeptThrough(c, o) \o LinesIn(x.annotated, o) = KeptThrough(cut[k + 1], o)
  <2>1. file \in Files
    BY DEF Reading
  <2>2. x = Annotate(lines, out)
    BY DEF lines, out
  <2>3. /\ c \in Nat /\ LastBefore(out, c) /\ c + Len(lines) <= Total(file)
        /\ \A i \in 1 .. Len(lines) : lines[i] = c + i
    BY <1>8, <1>9, <1>11
  <2>4. /\ Annotate(lines, out) \in Buffers
        /\ LastBefore(Annotate(lines, out), c + Len(lines))
        /\ \A o : KeptThrough(c, o) \o LinesIn(Annotate(lines, out).annotated, o) = KeptThrough(c + Len(lines), o)
    BY <1>9, <1>10, <2>1, <2>3, AnnotateIs
  <2> QED
    BY <1>11, <2>2, <2>4
<1> HIDE DEF x
<1>13. /\ Typed' /\ batch'[b].output = x
       /\ \A d \in Batches : /\ Number(d)' = Number(d) /\ batch'[d].input = batch[d].input
                             /\ d # b => batch'[d].output = batch[d].output
  BY <1>1, <1>2, <1>12, OneBatchChanges
<1>14. /\ \A n, o : KeptThrough(n, o)' = KeptThrough(n, o)
       /\ Outputs' = Outputs
       /\ \A u, n : LastBefore(u, n)' = LastBefore(u, n)
  BY <1>1, SameFile
<1>15. Cuts(cut)'
  <2>1. (\A q \in Nat : base_sequence <= q /\ q < sequence =>
           cut[q] = cut[q + 1] \/ \E d \in Held : Number(d) = q)'
    BY <1>1, <1>4, <1>7, <1>13, CutsIs
  <2>2. (\A d \in Held :
           /\ Len(batch[d].input) = cut[Number(d) + 1] - cut[Number(d)]
           /\ \A i \in 1 .. Len(batch[d].input) : batch[d].input[i] = cut[Number(d)] + i)'
    <3>1. ASSUME NEW d \in Held
          PROVE  /\ Len(batch'[d].input) = cut[Number(d)' + 1] - cut[Number(d)']
                 /\ \A i \in 1 .. Len(batch'[d].input) : batch'[d].input[i] = cut[Number(d)'] + i
      <4>1. Number(d)' = Number(d) /\ batch'[d].input = batch[d].input
        BY <1>4, <1>13, <3>1
      <4>2. /\ Len(batch[d].input) = cut[Number(d) + 1] - cut[Number(d)]
            /\ \A i \in 1 .. Len(batch[d].input) : batch[d].input[i] = cut[Number(d)] + i
        BY <3>1, CutsIs
      <4> QED
        BY <4>1, <4>2
    <3> QED
      BY <1>7, <3>1
  <2>3. (\A o \in Outputs : written[o] = KeptThrough(cut[base_sequence], o))'
    BY <1>1, <1>14, CutsIs
  <2>4. /\ cut \in [Nat -> Nat]
        /\ (\A p, q \in Nat : base_sequence <= p /\ p <= q /\ q <= sequence => cut[p] <= cut[q])'
        /\ (cut[sequence] = line)'
    BY <1>1, CutsIs
  <2> QED
    BY <2>1, <2>2, <2>3, <2>4 DEF Cuts
<1>16. Contents(cut)'
  <2>1. (\A d \in Batches \ Filtered : batch[d].output.annotated = <<>>)'
    BY <1>6, <1>13, CutsIs
  <2>2. (\A d \in Filtered, o \in Outputs :
            KeptThrough(cut[Number(d)], o) \o Lines(d, o) = KeptThrough(cut[Number(d) + 1], o))'
    <3>1. ASSUME NEW d \in Filtered \cup {b}, NEW o \in Outputs
          PROVE  KeptThrough(cut[Number(d)], o) \o LinesIn(batch'[d].output.annotated, o)
                   = KeptThrough(cut[Number(d) + 1], o)
      <4>1. CASE d = b
        BY <1>12, <1>13, <4>1 DEF c, k
      <4>2. CASE d # b
        <5>1. d \in Filtered /\ d \in Batches
          BY <1>4, <3>1, <4>2
        <5>2. KeptThrough(cut[Number(d)], o) \o Lines(d, o) = KeptThrough(cut[Number(d) + 1], o)
          BY <5>1, CutsIs
        <5>3. batch'[d].output = batch[d].output
          BY <1>13, <4>2, <5>1
        <5> QED
          BY <5>2, <5>3 DEF Lines
      <4> QED
        BY <4>1, <4>2
    <3>2. \A d \in Filtered \cup {b} : Number(d)' = Number(d)
      BY <1>2, <1>4, <1>13
    <3>3. \A d, o : Lines(d, o)' = LinesIn(batch'[d].output.annotated, o)
      BY DEF Lines
    <3> QED
      BY <1>6, <1>14, <3>1, <3>2, <3>3
  <2>3. (\A d \in Batches : LastBefore(batch[d].output, line))'
    <3>1. LastBefore(x, line)
      BY <1>8, <1>12, LastBeforeGrows
    <3>2. \A d \in Batches : LastBefore(batch'[d].output, line)
      BY <1>13, <3>1, CutsIs
    <3> QED
      BY <1>1, <1>14, <3>2
  <2>4. (\A d \in Held \ Filtered : LastBefore(batch[d].output, cut[Number(d)]))'
    <3>1. \A d \in Held \ (Filtered \cup {b}) :
            /\ LastBefore(batch[d].output, cut[Number(d)]) /\ batch'[d].output = batch[d].output
            /\ Number(d)' = Number(d)
      BY <1>4, <1>13, CutsIs
    <3> QED
      BY <1>6, <1>7, <1>14, <3>1
  <2> QED
    BY <2>1, <2>2, <2>3, <2>4 DEF Contents
<1>17. \A d \in Held : Number(d)' = Number(d)
  BY <1>4, <1>13
<1> QED
  BY <1>7, <1>13, <1>15, <1>16, <1>17

\* The batch at the front has the lines behind those written.
LEMMA WriteFrontInOrder ==
  ASSUME IInv, Reading, Typed, NEW cut, Cuts(cut), Contents(cut), WriteFront
  PROVE  /\ Typed' /\ Cuts(cut)' /\ Contents(cut)' /\ Held' = Held \ {Head(ordering)}
         /\ \A b \in Held : Number(b)' = Number(b)
         /\ \A b \in Batches : batch'[b].input = batch[b].input
         /\ \A o \in Outputs : Lines(Head(ordering), o) \in Seq(Nat) /\ written[o] \in Seq(Nat)
<1>0. PICK b : b = Head(ordering)
  OBVIOUS
<1> DEFINE x == [batch[b].output EXCEPT !.annotated = <<>>]
<1>1. /\ base_sequence' = base_sequence + 1
      /\ batch' = [batch EXCEPT ![b].output = x]
      /\ written' = [o \in Outputs |-> written[o] \o Lines(b, o)]
      /\ UNCHANGED <<file, line, reader, input, sequence>>
  BY <1>0 DEF WriteFront, readerVars
<1>2. /\ b \in Filtered /\ Number(b) = base_sequence
      /\ UnderWay' = UnderWay \ {b} /\ Filtered' = Filtered \ {b}
  BY <1>0, WriteFrontKeeps
<1>3. /\ Held \subseteq Batches /\ Filtered \subseteq UnderWay /\ UnderWay \subseteq Held
      /\ base_sequence \in Nat /\ sequence \in Nat
      /\ \A c \in Batches : Number(c) \in Nat
      /\ reader \notin {"new", "drain"} => input \notin UnderWay
  BY HeldIs
<1>4. b \in Batches /\ b \in Held /\ b \in UnderWay
  BY <1>2, <1>3
<1>5. Held' = Held \ {b}
  BY <1>1, <1>2, <1>3, <1>4 DEF Held
<1>6. x \in Buffers /\ x.annotated = <<>> /\ x.last = batch[b].output.last
      /\ batch[b].output.annotated \in Seq(Notes)
  <2>1. PICK r \in Buffers : r = batch[b].output
    BY <1>4 DEF Typed
  <2>2. [r EXCEPT !.annotated = <<>>] = [annotated |-> <<>>, last |-> r.last]
    BY DEF Buffers
  <2>3. r.last \in [address : Nat, length : Nat] /\ <<>> \in Seq(Notes) /\ r.annotated \in Seq(Notes)
    BY DEF Buffers
  <2> QED
    BY <2>1, <2>2, <2>3 DEF Buffers
<1> HIDE DEF x
<1>7. /\ Typed' /\ batch'[b].output = x
      /\ \A d \in Batches : /\ Number(d)' = Number(d) /\ batch'[d].input = batch[d].input
                            /\ d # b => batch'[d].output = batch[d].output
  BY <1>1, <1>4, <1>6, OneBatchChanges
<1>8. /\ \A n, o : KeptThrough(n, o)' = KeptThrough(n, o)
      /\ Outputs' = Outputs
      /\ \A u, n : LastBefore(u, n)' = LastBefore(u, n)
  BY <1>1, SameFile
<1>9. \A o \in Outputs : /\ written[o] = KeptThrough(cut[base_sequence], o)
                         /\ written[o] \o Lines(b, o) = KeptThrough(cut[base_sequence + 1], o)
  BY <1>2, CutsIs
<1>10. Cuts(cut)'
  <2>1. (\A q \in Nat : base_sequence <= q /\ q < sequence =>
           cut[q] = cut[q + 1] \/ \E d \in Held : Number(d) = q)'
    <3>1. ASSUME NEW q \in Nat, base_sequence + 1 <= q, q < sequence
          PROVE  cut[q] = cut[q + 1] \/ \E d \in Held \ {b} : Number(d)' = q
      <4>1. base_sequence <= q /\ q # base_sequence
        BY <1>3, <3>1
      <4>2. cut[q] = cut[q + 1] \/ \E d \in Held : Number(d) = q
        BY <3>1, <4>1, CutsIs
      <4>3. \A d \in Held : Number(d) = q => d # b /\ Number(d)' = Number(d)
        BY <1>2, <1>3, <1>7, <4>1
      <4> QED
        BY <4>2, <4>3
    <3> QED
      BY <1>1, <1>5, <3>1
  <2>2. (\A d \in Held :
           /\ Len(batch[d].input) = cut[Number(d) + 1] - cut[Number(d)]
           /\ \A i \in 1 .. Len(batch[d].input) : batch[d].input[i] = cut[Number(d)] + i)'
    <3>1. ASSUME NEW d \in Held
          PROVE  /\ Len(batch'[d].input) = cut[Number(d)' + 1] - cut[Number(d)']
                 /\ \A i \in 1 .. Len(batch'[d].input) : batch'[d].input[i] = cut[Number(d)'] + i
      <4>1. Number(d)' = Number(d) /\ batch'[d].input = batch[d].input
        BY <1>3, <1>7, <3>1
      <4>2. /\ Len(batch[d].input) = cut[Number(d) + 1] - cut[Number(d)]
            /\ \A i \in 1 .. Len(batch[d].input) : batch[d].input[i] = cut[Number(d)] + i
        BY <3>1, CutsIs
      <4> QED
        BY <4>1, <4>2
    <3> QED
      BY <1>5, <3>1
  <2>3. (\A o \in Outputs : written[o] = KeptThrough(cut[base_sequence], o))'
    BY <1>1, <1>8, <1>9
  <2>4. (\A p, q \in Nat : base_sequence <= p /\ p <= q /\ q <= sequence => cut[p] <= cut[q])'
    <3>1. \A p \in Nat : base_sequence + 1 <= p => base_sequence <= p
      BY <1>3
    <3> QED
      BY <1>1, <3>1, CutsIs
  <2>5. cut \in [Nat -> Nat] /\ (cut[sequence] = line)'
    BY <1>1, CutsIs
  <2> QED
    BY <2>1, <2>2, <2>3, <2>4, <2>5 DEF Cuts
<1>11. Contents(cut)'
  <2>1. (\A d \in Batches \ Filtered : batch[d].output.annotated = <<>>)'
    BY <1>2, <1>6, <1>7, CutsIs
  <2>2. (\A d \in Filtered, o \in Outputs :
            KeptThrough(cut[Number(d)], o) \o Lines(d, o) = KeptThrough(cut[Number(d) + 1], o))'
    <3>1. ASSUME NEW d \in Filtered \ {b}, NEW o \in Outputs
          PROVE  KeptThrough(cut[Number(d)], o) \o Lines(d, o)' = KeptThrough(cut[Number(d) + 1], o)
      <4>1. KeptThrough(cut[Number(d)], o) \o Lines(d, o) = KeptThrough(cut[Number(d) + 1], o)
        BY <3>1, CutsIs
      <4>2. batch'[d].output = batch[d].output
        BY <1>3, <1>7, <3>1
      <4> QED
        BY <4>1, <4>2 DEF Lines
    <3>2. \A d \in Filtered \ {b} : Number(d)' = Number(d)
      BY <1>3, <1>7
    <3> QED
      BY <1>2, <1>8, <3>1, <3>2
  <2>3. (\A d \in Batches : LastBefore(batch[d].output, line))'
    <3>1. LastBefore(x, line)
      <4>1. LastBefore(batch[b].output, line)
        BY <1>4, CutsIs
      <4> QED
        BY <1>6, <4>1 DEF LastBefore
    <3>2. \A d \in Batches : LastBefore(batch'[d].output, line)
      BY <1>7, <3>1, CutsIs
    <3> QED
      BY <1>1, <1>8, <3>2
  <2>4. (\A d \in Held \ Filtered : LastBefore(batch[d].output, cut[Number(d)]))'
    <3>1. \A d \in (Held \ {b}) \ (Filtered \ {b}) :
            /\ LastBefore(batch[d].output, cut[Number(d)]) /\ batch'[d].output = batch[d].output
            /\ Number(d)' = Number(d)
      BY <1>3, <1>7, CutsIs
    <3> QED
      BY <1>2, <1>5, <1>8, <3>1
  <2> QED
    BY <2>1, <2>2, <2>3, <2>4 DEF Contents
<1>12. \A o \in Outputs : Lines(b, o) \in Seq(Nat) /\ written[o] \in Seq(Nat)
  <2> TAKE o \in Outputs
  <2>1. Lines(b, o) \in Seq(Nat)
    BY <1>6, LinesInIs DEF Lines
  <2>2. cut[base_sequence] \in 0 .. Total(file)
    <3> DEFINE e == cut[base_sequence]
               g == cut[base_sequence + 1]
    <3>1. /\ e \in Nat /\ g \in Nat /\ e <= g /\ g <= line /\ line <= Total(file)
          /\ Total(file) \in Nat /\ line \in Nat
      BY <1>2, <1>4, CutOfHeld
    <3> HIDE DEF e, g
    <3>2. e \in 0 .. Total(file)
      BY <3>1
    <3> QED
      BY <3>2 DEF e
  <2>3. KeptThrough(cut[base_sequence], o) \in Seq(Nat)
    BY <2>2, KeptIs DEF Reading
  <2> QED
    BY <1>9, <2>1, <2>3
<1>13. \A d \in Held : Number(d)' = Number(d)
  BY <1>3, <1>7
<1> QED
  BY <1>0, <1>5, <1>7, <1>10, <1>11, <1>12, <1>13
-----------------------------------------------------------------------------
(* What has been written and counted.                                      *)

\* When no line is held all lines have been written.
LEMMA AllWritten ==
  ASSUME IInv, Reading, NEW cut, Cuts(cut), Contents(cut), \A b \in Held : batch[b].input = <<>>
  PROVE  \A o \in Outputs : written[o] = KeptThrough(line, o)
<1>1. /\ sequence \in Nat /\ base_sequence \in Nat /\ base_sequence <= sequence
      /\ cut \in [Nat -> Nat] /\ cut[sequence] = line
      /\ \A o \in Outputs : written[o] = KeptThrough(cut[base_sequence], o)
  BY HeldIs, CutsIs
<1>2. ASSUME NEW b \in Held PROVE cut[Number(b)] = cut[Number(b) + 1]
  <2> DEFINE c == cut[Number(b)]
             e == cut[Number(b) + 1]
  <2>1. c \in Nat /\ e \in Nat
    BY <1>2, CutOfHeld
  <2>2. Len(batch[b].input) = e - c
    BY <1>2, CutsIs
  <2> HIDE DEF c, e
  <2>3. e - c = 0
    BY <1>2, <2>2
  <2>4. c = e
    BY <2>1, <2>3
  <2> QED
    BY <2>4 DEF c, e
<1>3. \A q \in Nat : base_sequence <= q /\ q < sequence => cut[q] = cut[q + 1]
  BY <1>2, CutsIs
<1> DEFINE n == sequence - base_sequence
           P == {i \in 0 .. n : cut[base_sequence + i] = cut[base_sequence]}
<1>4. n \in Nat /\ base_sequence + n = sequence /\ base_sequence + 0 = base_sequence
  BY <1>1
<1>5. 0 \in P
  BY <1>4
<1>6. \A i \in 0 .. n - 1 : i \in P => i + 1 \in P
  <2> TAKE i \in 0 .. n - 1
  <2> HAVE i \in P
  <2>1. /\ base_sequence + i \in Nat /\ base_sequence <= base_sequence + i
        /\ base_sequence + i < sequence /\ i + 1 \in 0 .. n
        /\ (base_sequence + i) + 1 = base_sequence + (i + 1)
    BY <1>1
  <2>2. cut[base_sequence + i] = cut[base_sequence + (i + 1)]
    BY <1>3, <2>1
  <2> QED
    BY <2>1, <2>2
<1>7. n \in P
  <2> HIDE DEF P, n
  <2>1. 0 .. n \subseteq P
    BY <1>4, <1>5, <1>6, UpTo
  <2> QED
    BY <1>4, <2>1
<1>8. cut[base_sequence] = line
  BY <1>1, <1>4, <1>7
<1> QED
  BY <1>1, <1>8

\* The same when nothing is under way and the batch of the reader is empty.
LEMMA AllWrittenAtRest ==
  ASSUME IInv, Reading, NEW cut, Cuts(cut), Contents(cut), UnderWay = {},
         batch[input].input = <<>>
  PROVE  \A o \in Outputs : written[o] = KeptThrough(line, o)
<1>1. \A b \in Held : batch[b].input = <<>>
  BY DEF Held
<1> QED
  BY <1>1, AllWritten
-----------------------------------------------------------------------------
(* The counts.                                                             *)
LEMMA CountingSame ==
  ASSUME Counting, UNCHANGED <<file, section, written, fast_counter, counts>>,
         reader' # "begin" => reader # "begin",
         reader' \in Destroying /\ file.format = "arpa" <=> reader \in Destroying /\ file.format = "arpa"
  PROVE  Counting'
<1>1. /\ \A n, o : KeptThrough(n, o)' = KeptThrough(n, o)
      /\ \A k : LinesThrough(k)' = LinesThrough(k)
      /\ Outputs' = Outputs
  BY SameFile
<1> SUFFICES ASSUME NEW o \in Outputs
             PROVE  /\ fast_counter[o] \in Nat /\ counts[o] \in Seq(Int)
                    /\ reader' # "begin" =>
                         fast_counter[o] + Len(KeptThrough(LinesThrough(section - 1), o)) = Len(written[o])
                    /\ Len(counts[o]) = IF reader' \in Destroying /\ file.format = "arpa" THEN section
                                        ELSE section - 1
                    /\ \A k \in DOMAIN counts[o] :
                         counts[o][k] = Len(KeptThrough(LinesThrough(k), o))
                                          - Len(KeptThrough(LinesThrough(k - 1), o))
  BY <1>1 DEF Counting, Destroying
<1> QED
  BY DEF Counting, Destroying

\* A section is counted from none, when the section before has been written.
LEMMA BeginLengthCounts ==
  ASSUME IInv, Reading, AtRest, Counting, NEW cut, Cuts(cut), Contents(cut), BeginLength
  PROVE  Counting'
<1>1. /\ reader = "begin" /\ reader' = "read" /\ fast_counter' = [o \in Outputs |-> 0]
      /\ UNCHANGED <<file, section, written, counts>>
  BY DEF BeginLength
<1>2. \A o \in Outputs : written[o] = KeptThrough(LinesThrough(section - 1), o)
  <2>1. UnderWay = {} /\ batch[input].input = <<>> /\ line = LinesThrough(section - 1)
    BY <1>1 DEF AtRest, Reading
  <2> QED
    BY <2>1, AllWrittenAtRest
<1>3. /\ \A n, o : KeptThrough(n, o)' = KeptThrough(n, o)
      /\ \A k : LinesThrough(k)' = LinesThrough(k)
      /\ Outputs' = Outputs
  BY <1>1, SameFile
<1>4. LinesThrough(section - 1) \in 0 .. Total(file) /\ file \in Files
  <2>1. file \in Files /\ section - 1 \in 0 .. Len(file.number)
    <3>1. Len(file.number) \in Nat /\ section \in 1 .. Len(file.number) /\ file \in Files
      BY ThroughIs DEF Reading
    <3> QED
      BY <3>1
  <2> QED
    BY <2>1, ThroughGrows DEF LinesThrough
<1>5. ASSUME NEW o \in Outputs
      PROVE  /\ 0 + Len(KeptThrough(LinesThrough(section - 1), o)) = Len(written[o])
             /\ fast_counter'[o] = 0
  <2>1. KeptThrough(LinesThrough(section - 1), o) \in Seq(Nat)
    BY <1>4, KeptIs
  <2>2. written[o] = KeptThrough(LinesThrough(section - 1), o)
    BY <1>2
  <2>3. Len(written[o]) \in Nat
    BY <2>1, <2>2
  <2> QED
    BY <1>1, <2>2, <2>3
<1>6. \A o \in Outputs :
        /\ counts[o] \in Seq(Int) /\ Len(counts[o]) = section - 1
        /\ \A k \in DOMAIN counts[o] :
             counts[o][k] = Len(KeptThrough(LinesThrough(k), o)) - Len(KeptThrough(LinesThrough(k - 1), o))
  BY <1>1 DEF Counting, Destroying
<1> QED
  BY <1>1, <1>3, <1>5, <1>6 DEF Counting, Destroying

\* The count of a section is that of its passing lines, as nothing is under way.
LEMMA EndLengthCounts ==
  ASSUME IInv, Reading, AtRest, Counting, NEW cut, Cuts(cut), Contents(cut), EndLength
  PROVE  Counting'
<1>1. /\ reader = "end" /\ counts' = [o \in Outputs |-> Append(counts[o], fast_counter[o])]
      /\ \/ section' = section + 1 /\ reader' = "begin"
         \/ section' = section /\ reader' = "destroy"
      /\ UNCHANGED <<file, line, written, fast_counter>>
  BY DEF EndLength
<1>2. line = LinesThrough(section) /\ file.format = "arpa" /\ section \in Nat \ {0}
  BY <1>1, LineIs DEF Reading
<1>3. \A o \in Outputs : written[o] = KeptThrough(LinesThrough(section), o)
  <2>1. UnderWay = {} /\ batch[input].input = <<>>
    BY <1>1 DEF AtRest
  <2> QED
    BY <1>2, <2>1, AllWrittenAtRest
<1>4. /\ \A n, o : KeptThrough(n, o)' = KeptThrough(n, o)
      /\ \A k : LinesThrough(k)' = LinesThrough(k)
      /\ Outputs' = Outputs
  BY <1>1, SameFile
<1> DEFINE K(k, o) == Len(KeptThrough(LinesThrough(k), o))
<1>5. ASSUME NEW o \in Outputs
      PROVE  /\ fast_counter[o] \in Nat /\ counts[o] \in Seq(Int) /\ Len(counts[o]) = section - 1
             /\ fast_counter[o] + K(section - 1, o) = K(section, o)
             /\ \A k \in DOMAIN counts[o] : counts[o][k] = K(k, o) - K(k - 1, o)
  BY <1>1, <1>3 DEF Counting, Destroying
<1>6. \A o \in Outputs : K(section, o) \in Nat /\ K(section - 1, o) \in Nat
  <2>1. Len(file.number) \in Nat /\ section \in 1 .. Len(file.number) /\ file \in Files
    BY ThroughIs DEF Reading
  <2>2. section \in 0 .. Len(file.number) /\ section - 1 \in 0 .. Len(file.number)
    BY <2>1
  <2>3. LinesThrough(section) \in 0 .. Total(file) /\ LinesThrough(section - 1) \in 0 .. Total(file)
    BY <2>1, <2>2, ThroughGrows DEF LinesThrough
  <2>4. \A o : KeptThrough(LinesThrough(section), o) \in Seq(Nat)
               /\ KeptThrough(LinesThrough(section - 1), o) \in Seq(Nat)
    BY <2>1, <2>3, KeptIs
  <2> QED
    BY <2>4
<1> HIDE DEF K
<1>7. ASSUME NEW o \in Outputs
      PROVE  /\ counts'[o] \in Seq(Int) /\ Len(counts'[o]) = section
             /\ \A k \in DOMAIN counts'[o] : counts'[o][k] = K(k, o) - K(k - 1, o)
  <2>1. counts'[o] = Append(counts[o], fast_counter[o])
    BY <1>1
  <2>2. /\ fast_counter[o] \in Int /\ counts[o] \in Seq(Int) /\ Len(counts[o]) = section - 1
        /\ \A k \in DOMAIN counts[o] : counts[o][k] = K(k, o) - K(k - 1, o)
    BY <1>5
  <2>3. fast_counter[o] = K(section, o) - K(section - 1, o)
    BY <1>5, <1>6
  <2>4. /\ counts'[o] \in Seq(Int) /\ Len(counts'[o]) = section /\ DOMAIN counts'[o] = 1 .. section
        /\ counts'[o][section] = fast_counter[o]
        /\ \A k \in 1 .. section - 1 : k \in DOMAIN counts[o] /\ counts'[o][k] = counts[o][k]
    BY <1>2, <2>1, <2>2
  <2>5. \A k \in 1 .. section : k = section \/ k \in 1 .. section - 1
    BY <1>2
  <2> QED
    BY <2>2, <2>3, <2>4, <2>5
<1>8. ASSUME NEW o \in Outputs
      PROVE  /\ fast_counter[o] \in Nat /\ counts'[o] \in Seq(Int)
             /\ reader' # "begin" => fast_counter[o] + K(section' - 1, o) = Len(written[o])
             /\ Len(counts'[o]) = IF reader' \in Destroying /\ file.format = "arpa" THEN section'
                                  ELSE section' - 1
             /\ \A k \in DOMAIN counts'[o] : counts'[o][k] = K(k, o) - K(k - 1, o)
  <2>1. Len(written[o]) = K(section, o)
    BY <1>3 DEF K
  <2>2. section' = section + 1 => section' - 1 = section
    BY <1>2
  <2> QED
    BY <1>1, <1>2, <1>5, <1>7, <2>1, <2>2 DEF Destroying
<1> QED
  BY <1>1, <1>4, <1>8 DEF Counting, Destroying, K

\* What is written is counted.
LEMMA WriteFrontCounts ==
  ASSUME IInv, Reading, Typed, Counting, NEW cut, Cuts(cut), Contents(cut), WriteFront
  PROVE  Counting'
<1>1. /\ written' = [o \in Outputs |-> written[o] \o Lines(Head(ordering), o)]
      /\ fast_counter' = [o \in Outputs |-> fast_counter[o] + Len(Lines(Head(ordering), o))]
      /\ UNCHANGED <<file, section, reader, counts>>
  BY DEF WriteFront, readerVars
<1>2. \A o \in Outputs : Lines(Head(ordering), o) \in Seq(Nat) /\ written[o] \in Seq(Nat)
  BY WriteFrontInOrder
<1>3. /\ \A n, o : KeptThrough(n, o)' = KeptThrough(n, o)
      /\ \A k : LinesThrough(k)' = LinesThrough(k)
      /\ Outputs' = Outputs
  BY <1>1, SameFile
<1>4. LinesThrough(section - 1) \in 0 .. Total(file) /\ file \in Files
  <2>1. file \in Files /\ section - 1 \in 0 .. Len(file.number)
    <3>1. Len(file.number) \in Nat /\ section \in 1 .. Len(file.number) /\ file \in Files
      BY ThroughIs DEF Reading
    <3> QED
      BY <3>1
  <2> QED
    BY <2>1, ThroughGrows DEF LinesThrough
<1>5. ASSUME NEW o \in Outputs
      PROVE  /\ fast_counter'[o] \in Nat
             /\ reader # "begin" =>
                  fast_counter'[o] + Len(KeptThrough(LinesThrough(section - 1), o)) = Len(written'[o])
  <2>1. PICK s \in Seq(Nat) : s = Lines(Head(ordering), o)
    BY <1>2
  <2>2. PICK r \in Seq(Nat) : r = written[o]
    BY <1>2
  <2>3. PICK t \in Seq(Nat) : t = KeptThrough(LinesThrough(section - 1), o)
    BY <1>4, KeptIs
  <2>4. Len(r \o s) = Len(r) + Len(s) /\ Len(r) \in Nat /\ Len(s) \in Nat /\ Len(t) \in Nat
    OBVIOUS
  <2>5. fast_counter[o] \in Nat /\ (reader # "begin" => fast_counter[o] + Len(t) = Len(r))
    BY <2>2, <2>3 DEF Counting
  <2>6. written'[o] = r \o s /\ fast_counter'[o] = fast_counter[o] + Len(s)
    BY <1>1, <2>1, <2>2
  <2> DEFINE f == fast_counter[o]
             g == fast_counter'[o]
             m == Len(s)
             i == Len(r)
             j == Len(t)
  <2>7. /\ f \in Nat /\ m \in Nat /\ i \in Nat /\ j \in Nat /\ g = f + m
        /\ reader # "begin" => f + j = i
    BY <2>4, <2>5, <2>6
  <2>8. Len(written'[o]) = i + m
    BY <2>4, <2>6
  <2> HIDE DEF f, g, m, i, j
  <2>9. g \in Nat /\ (reader # "begin" => g + j = i + m)
    BY <2>7
  <2> QED
    BY <2>3, <2>8, <2>9 DEF g, j
<1>6. \A o \in Outputs :
        /\ counts[o] \in Seq(Int)
        /\ Len(counts[o]) = IF reader \in Destroying /\ file.format = "arpa" THEN section ELSE section - 1
        /\ \A k \in DOMAIN counts[o] :
             counts[o][k] = Len(KeptThrough(LinesThrough(k), o)) - Len(KeptThrough(LinesThrough(k - 1), o))
  BY DEF Counting
<1> QED
  BY <1>1, <1>3, <1>5, <1>6 DEF Counting, Destroying
-----------------------------------------------------------------------------
(* The batches of a raw file.                                              *)
LEMMA RawSame ==
  ASSUME RawReading, UNCHANGED <<file, line, base_sequence, sequence>>,
         Held' = Held, \A b \in Held : Number(b)' = Number(b), Rest' = Rest,
         \/ reader' = reader
         \/ reader' \in Destroying /\ reader \in {"read"} \cup Destroying
         \/ file.format # "raw"
  PROVE  RawReading'
<1> SUFFICES ASSUME file.format = "raw" PROVE RawReading'
  BY DEF RawReading
<1>1. /\ reader \in {"read", "full", "new"} \cup Destroying
      /\ \A q \in Nat : base_sequence <= q /\ q < sequence => \E b \in Held : Number(b) = q
      /\ Rest <= BatchSize /\ (reader = "full" <=> Rest = BatchSize)
      /\ \E k \in Nat : line = k * BatchSize + Rest
  BY DEF RawReading
<1>2. /\ reader' \in {"read", "full", "new"} \cup Destroying
      /\ reader' = "full" <=> reader = "full"
  BY <1>1 DEF Destroying
<1>3. (\A q \in Nat : base_sequence <= q /\ q < sequence => \E b \in Held : Number(b) = q)'
  BY <1>1
<1> HIDE DEF Rest
<1>4. Rest' <= BatchSize /\ (reader' = "full" <=> Rest' = BatchSize)
  BY <1>1, <1>2
<1>5. (\E k \in Nat : line = k * BatchSize + Rest)'
  BY <1>1
<1>6. (reader \in {"read", "full", "new"} \cup Destroying)'
  BY <1>2 DEF Destroying
<1> QED
  BY <1>3, <1>4, <1>5, <1>6 DEF RawReading

\* One line more.
LEMMA AddNGramRaw ==
  ASSUME IInv, Reading, Typed, RawReading, AddNGram
  PROVE  RawReading'
<1> SUFFICES ASSUME file.format = "raw" PROVE RawReading'
  BY DEF RawReading, AddNGram
<1> DEFINE x == Append(batch[input].input, line + 1)
<1>1. /\ reader = "read" /\ reader' = (IF Len(batch'[input].input) = BatchSize THEN "full" ELSE "read")
      /\ line' = line + 1 /\ batch' = [batch EXCEPT ![input].input = x]
      /\ UNCHANGED <<file, input, sequence, base_sequence, filter_in, output_in, filtering, ordering>>
  BY DEF AddNGram, queueVars, filterVars, outputVars
<1>2. line \in Nat /\ BatchSize \in Nat \ {0}
  BY FilterAssumption, LineIs
<1>3. input \in Batches /\ input \in Held /\ Held \subseteq Batches
  BY <1>1, HeldIs
<1>4. batch[input].input \in Seq(Nat)
  BY <1>3 DEF Typed
<1>5. x \in Seq(Nat) /\ Len(x) = Len(batch[input].input) + 1 /\ Len(batch[input].input) \in Nat
  BY <1>2, <1>4
<1> HIDE DEF x
<1>6. batch'[input].input = x /\ \A c \in Batches : Number(c)' = Number(c)
  BY <1>1, <1>3, <1>5, OneBatchChanges
<1>7. Held' = Held
  <2>1. UnderWay' = UnderWay
    BY <1>1 DEF UnderWay, At, Names
  <2> QED
    BY <1>1, <2>1 DEF Held
<1>8. /\ \A q \in Nat : base_sequence <= q /\ q < sequence => \E b \in Held : Number(b) = q
      /\ Rest <= BatchSize /\ (reader = "full" <=> Rest = BatchSize)
      /\ \E k \in Nat : line = k * BatchSize + Rest
  BY DEF RawReading
<1>9. Rest = Len(batch[input].input) /\ Rest' = Rest + 1 /\ Rest \in Nat
  BY <1>1, <1>5, <1>6 DEF Rest
<1>10. reader' = "full" <=> Rest' = BatchSize
  BY <1>1, <1>5, <1>6, <1>9
<1> HIDE DEF Rest
<1>11. Rest' <= BatchSize
  BY <1>1, <1>2, <1>8, <1>9
<1>12. (\E k \in Nat : line = k * BatchSize + Rest)'
  <2>1. PICK k \in Nat : line = k * BatchSize + Rest
    BY <1>8
  <2>2. PICK m \in Nat : m = k * BatchSize
    <3>1. k * BatchSize \in Nat
      BY <1>2
    <3> QED
      BY <3>1
  <2>3. line + 1 = m + (Rest + 1)
    <3>1. line = m + Rest /\ m \in Nat /\ Rest \in Nat
      BY <1>9, <2>1, <2>2
    <3> QED
      BY <3>1
  <2>4. line' = k * BatchSize + Rest'
    BY <1>1, <1>9, <2>2, <2>3
  <2> QED
    BY <2>4
<1>13. (\A q \in Nat : base_sequence <= q /\ q < sequence => \E b \in Held : Number(b) = q)'
  BY <1>1, <1>3, <1>6, <1>7, <1>8
<1>14. (reader \in {"read", "full", "new"} \cup Destroying)'
  BY <1>1
<1> QED
  BY <1>10, <1>11, <1>12, <1>13, <1>14 DEF RawReading

\* A full batch is sent.
LEMMA FlushInputRaw ==
  ASSUME IInv, Reading, RawReading, FlushInput
  PROVE  RawReading'
<1> SUFFICES ASSUME file.format = "raw" PROVE RawReading'
  BY DEF RawReading, FlushInput
<1>1. /\ reader = "full" /\ reader' = "new"
      /\ UNCHANGED <<file, line, input, sequence, base_sequence, batch>>
  BY DEF FlushInput, RawReading, outputVars, Destroying
<1>2. line \in Nat /\ BatchSize \in Nat \ {0}
  BY FilterAssumption, LineIs
<1>3. Held = UnderWay \cup {input} /\ UnderWay' = UnderWay \cup {input}
  BY <1>1, HeldIs, FlushInputKeeps
<1>4. Held' = Held
  BY <1>1, <1>3 DEF Held
<1>5. /\ \A q \in Nat : base_sequence <= q /\ q < sequence => \E b \in Held : Number(b) = q
      /\ Rest = BatchSize
      /\ \E k \in Nat : line = k * BatchSize + Rest
  BY <1>1 DEF RawReading
<1>6. Rest' = 0
  BY <1>1 DEF Rest
<1>7. (\E k \in Nat : line = k * BatchSize + Rest)'
  <2>1. PICK k \in Nat : line = k * BatchSize + Rest
    BY <1>5
  <2>2. line = (k + 1) * BatchSize + 0 /\ k + 1 \in Nat
    BY <1>2, <1>5, <2>1
  <2> QED
    BY <1>1, <1>6, <2>2
<1>8. (\A q \in Nat : base_sequence <= q /\ q < sequence => \E b \in Held : Number(b) = q)'
  BY <1>1, <1>4, <1>5 DEF Number
<1>9. (Rest <= BatchSize /\ (reader = "full" <=> Rest = BatchSize))'
  BY <1>1, <1>2, <1>6
<1>10. (reader \in {"read", "full", "new"} \cup Destroying)'
  BY <1>1
<1> QED
  BY <1>7, <1>8, <1>9, <1>10 DEF RawReading

\* A fresh batch has the next number.
LEMMA NewInputRaw ==
  ASSUME IInv, Reading, Typed, RawReading, NEW cut, Cuts(cut), Contents(cut), NewInput
  PROVE  RawReading'
<1> SUFFICES ASSUME file.format = "raw" PROVE RawReading'
  BY DEF RawReading, NewInput
<1>1. /\ reader = "new" /\ reader' = "read" /\ sequence' = sequence + 1
      /\ UNCHANGED <<file, line, base_sequence>>
  BY DEF NewInput, RawReading, outputVars, Destroying
<1>2. line \in Nat /\ BatchSize \in Nat \ {0} /\ sequence \in Nat
  BY FilterAssumption, LineIs, HeldIs
<1>3. /\ batch'[input'].input = <<>> /\ Number(input)' = sequence /\ Held' = Held \cup {input'}
      /\ \A b \in Held : Number(b)' = Number(b)
  BY NewInputInOrder
<1>4. /\ \A q \in Nat : base_sequence <= q /\ q < sequence => \E b \in Held : Number(b) = q
      /\ \E k \in Nat : line = k * BatchSize + Rest
  BY DEF RawReading
<1>5. Rest = 0 /\ Rest' = 0
  BY <1>1, <1>3 DEF Rest
<1>6. (\E k \in Nat : line = k * BatchSize + Rest)'
  BY <1>1, <1>4, <1>5
<1>7. (\A q \in Nat : base_sequence <= q /\ q < sequence => \E b \in Held : Number(b) = q)'
  <2>1. ASSUME NEW q \in Nat, base_sequence <= q, q < sequence + 1
        PROVE  \E b \in Held' : Number(b)' = q
    <3>1. CASE q = sequence
      BY <1>3, <3>1
    <3>2. CASE q < sequence
      BY <1>3, <1>4, <2>1, <3>2
    <3>3. q = sequence \/ q < sequence
      BY <1>2, <2>1
    <3> QED
      BY <3>1, <3>2, <3>3
  <2> QED
    BY <1>1, <2>1
<1>8. (Rest <= BatchSize /\ (reader = "full" <=> Rest = BatchSize))'
  BY <1>1, <1>2, <1>5
<1>9. (reader \in {"read", "full", "new"} \cup Destroying)'
  BY <1>1
<1> QED
  BY <1>6, <1>7, <1>8, <1>9 DEF RawReading

\* The batch written had the lowest number.
LEMMA WriteFrontRaw ==
  ASSUME IInv, Reading, Typed, RawReading, NEW cut, Cuts(cut), Contents(cut), WriteFront
  PROVE  RawReading'
<1> SUFFICES ASSUME file.format = "raw" PROVE RawReading'
  BY DEF RawReading, WriteFront, readerVars
<1>1. /\ base_sequence' = base_sequence + 1
      /\ UNCHANGED <<file, line, reader, input, sequence>>
  BY DEF WriteFront, readerVars
<1>2. /\ Held' = Held \ {Head(ordering)}
      /\ \A b \in Held : Number(b)' = Number(b)
      /\ \A b \in Batches : batch'[b].input = batch[b].input
      /\ Number(Head(ordering)) = base_sequence
  BY WriteFrontInOrder, WriteFrontKeeps
<1>3. /\ \A q \in Nat : base_sequence <= q /\ q < sequence => \E b \in Held : Number(b) = q
      /\ Rest <= BatchSize /\ (reader = "full" <=> Rest = BatchSize)
      /\ \E k \in Nat : line = k * BatchSize + Rest
      /\ reader \in {"read", "full", "new"} \cup Destroying
  BY DEF RawReading
<1>4. Rest' = Rest
  <2>1. reader # "new" => input \in Batches
    BY <1>3, HeldIs DEF Destroying
  <2> QED
    BY <1>1, <1>2, <2>1 DEF Rest
<1>5. base_sequence \in Nat
  BY HeldIs
<1>6. (\A q \in Nat : base_sequence <= q /\ q < sequence => \E b \in Held : Number(b) = q)'
  <2>1. ASSUME NEW q \in Nat, base_sequence + 1 <= q, q < sequence
        PROVE  \E b \in Held' : Number(b)' = q
    <3>1. base_sequence <= q /\ q # base_sequence
      BY <1>5, <2>1
    <3>2. PICK b \in Held : Number(b) = q
      BY <1>3, <2>1, <3>1
    <3> QED
      BY <1>2, <3>1, <3>2
  <2> QED
    BY <1>1, <2>1
<1> HIDE DEF Rest
<1>7. (Rest <= BatchSize /\ (reader = "full" <=> Rest = BatchSize))'
  BY <1>1, <1>3, <1>4
<1>8. (\E k \in Nat : line = k * BatchSize + Rest)'
  BY <1>1, <1>3, <1>4
<1>9. (reader \in {"read", "full", "new"} \cup Destroying)'
  BY <1>1, <1>3 DEF Destroying
<1> QED
  BY <1>6, <1>7, <1>8, <1>9 DEF RawReading

\* When the threads are joined the last number written is the last but that of
\* the empty batch.
LEMMA RawAtEnd ==
  ASSUME IInv, Reading, AtRest, Typed, RawReading, Harmless(file), file.format = "raw",
         reader = "destroyed"
  PROVE  \A b \in Held : batch[b].input = <<>>
<1>1. /\ filter_in = <<>> /\ output_in = <<>> /\ ~FrontReady
      /\ \A w \in FilterThreads : filtering[w] = NoBatch
  BY DEF AtRest
<1>2. UnderWay = At["deque"]
  <2>1. At["filter"] = {} /\ At["output"] = {}
    BY <1>1, AtNames DEF ToSet
  <2>2. At["threads"] = {}
    BY <1>1, AtNames
  <2> QED
    BY <2>1, <2>2 DEF UnderWay
<1>3. /\ input \in Held /\ input \in Batches /\ input \notin UnderWay /\ Held = UnderWay \cup {input}
      /\ Number(input) + 1 = sequence /\ \A b \in UnderWay : Number(b) + 1 < sequence
      /\ sequence \in Nat /\ base_sequence \in Nat
      /\ \A b \in Batches : Number(b) \in Nat
      /\ \A b \in Held : b \in Batches /\ base_sequence <= Number(b)
  BY HeldIs
<1>4. UnderWay = {}
  <2> SUFFICES ASSUME NEW b \in UnderWay PROVE FALSE
    OBVIOUS
  <2>1. base_sequence < sequence /\ base_sequence + 1 < sequence
    <3>1. /\ Number(b) \in Nat /\ Number(b) + 1 < sequence /\ base_sequence <= Number(b)
          /\ sequence \in Nat /\ base_sequence \in Nat
      BY <1>3
    <3> QED
      BY <3>1
  <2>2. PICK c \in Held : Number(c) = base_sequence
    BY <1>3, <2>1 DEF RawReading
  <2>3. c \in At["deque"]
    BY <1>2, <1>3, <2>1, <2>2
  <2>4. ordering \in Seq(Batches \cup {NoBatch})
    BY DEF IInv, Queues
  <2>5. PICK i \in 1 .. Len(ordering) : ordering[i] = c /\ c # NoBatch
    BY <2>3, <2>4, AtNames DEF ToSet
  <2>6. Number(c) = base_sequence + i - 1
    BY <2>5 DEF IInv, Numbers
  <2>7. i = 1
    BY <1>3, <2>2, <2>6
  <2>8. ordering # <<>> /\ Head(ordering) = ordering[1]
    BY <2>4, <2>5
  <2> QED
    BY <1>1, <2>5, <2>7, <2>8 DEF FrontReady
<1>5. Held = {input}
  BY <1>3, <1>4
<1>6. Rest = Len(batch[input].input) /\ batch[input].input \in Seq(Nat) /\ Rest \in Nat
  <2>1. batch[input].input \in Seq(Nat)
    BY <1>3 DEF Typed
  <2> QED
    BY <2>1 DEF Rest
<1>7. PICK k \in Nat : line = k * BatchSize + Rest
  BY DEF RawReading
<1>8. Rest < BatchSize /\ BatchSize \in Nat \ {0}
  <2>1. Rest <= BatchSize /\ Rest # BatchSize /\ BatchSize \in Nat \ {0}
    BY FilterAssumption DEF RawReading
  <2> HIDE DEF Rest
  <2> QED
    BY <1>6, <2>1
<1>9. line = Total(file)
  <2>1. Len(file.number) = 1 /\ section \in 1 .. Len(file.number) /\ left = 0
    BY FilterAssumption DEF Reading
  <2> QED
    BY <2>1, LineIs
<1>10. PICK j \in Nat : line = j * BatchSize
  <2>1. \E j \in 0 .. Total(file) : Total(file) = j * BatchSize
    BY DEF Harmless
  <2> QED
    BY <1>9, <2>1, LineIs
<1>11. Rest = 0
  <2> HIDE DEF Rest
  <2>1. CASE j <= k
    <3>1. PICK i \in Nat : k = j + i
      BY <2>1
    <3>2. k * BatchSize = j * BatchSize + i * BatchSize
      BY <1>8, <3>1
    <3>3. i * BatchSize \in Nat /\ j * BatchSize \in Nat
      BY <1>8
    <3> QED
      BY <1>6, <1>7, <1>10, <3>2, <3>3
  <2>2. CASE k < j
    <3>1. PICK i \in Nat : j = k + 1 + i
      <4>1. j - k - 1 \in Nat /\ j = k + 1 + (j - k - 1)
        BY <2>2
      <4> QED
        BY <4>1
    <3>2. j * BatchSize = k * BatchSize + BatchSize + i * BatchSize
      BY <1>8, <3>1
    <3>3. i * BatchSize \in Nat /\ k * BatchSize \in Nat
      BY <1>8
    <3>4. PICK m \in Nat : m = i * BatchSize
      BY <3>3
    <3>5. PICK n \in Nat : n = k * BatchSize
      BY <3>3
    <3>6. n + Rest = n + BatchSize + m
      BY <1>7, <1>10, <3>2, <3>4, <3>5
    <3>7. Rest = BatchSize + m /\ Rest < BatchSize /\ BatchSize \in Nat /\ Rest \in Nat
      BY <1>6, <1>8, <3>6
    <3> QED
      BY <3>7
  <2> QED
    BY <2>1, <2>2
<1>12. batch[input].input = <<>>
  <2>1. PICK s \in Seq(Nat) : s = batch[input].input
    BY <1>6
  <2>2. Len(s) = 0
    BY <1>6, <1>11, <2>1
  <2>3. s = <<>>
    BY <2>2
  <2> QED
    BY <2>1, <2>3
<1> QED
  BY <1>5, <1>12
-----------------------------------------------------------------------------
(* The invariant of the order, and the properties.                         *)

\* Most steps move a batch or none, and change no batch and no file.
LEMMA BatchesMove ==
  ASSUME IInv, Reading, NEW w \in FilterThreads,
         \/ BeginLength \/ EndOfSection \/ EndLength \/ DestroyFilter \/ DestroyOutput \/ LoopEnds
         \/ UNCHANGED vars \/ MoveRead \/ TakeBatch(w) \/ SendFiltered(w) \/ Receive \/ FlushInput
  PROVE  /\ UNCHANGED <<file, line, sequence, batch, base_sequence, written>>
         /\ Held' = Held /\ Filtered' = Filtered
         /\ FlushInput \/ Rest' = Rest
<1>1. CASE \/ BeginLength \/ EndOfSection \/ EndLength \/ DestroyFilter \/ DestroyOutput \/ LoopEnds
           \/ UNCHANGED vars
  <2>1. /\ UNCHANGED <<file, line, sequence, batch, base_sequence, written, input, filter_in, output_in,
                       filtering, filtered, ordering>>
        /\ reader' = reader \/ (reader' \notin {"new", "drain"} /\ reader \notin {"new", "drain"})
    BY <1>1 DEF BeginLength, EndOfSection, EndLength, DestroyFilter, DestroyOutput, LoopEnds, vars,
       readerVars, queueVars, filterVars, outputVars, fileVars
  <2>2. UnderWay' = UnderWay /\ Filtered' = Filtered
    BY <2>1 DEF UnderWay, Filtered, At, Names
  <2>3. Held' = Held
    BY <2>1, <2>2 DEF Held
  <2>4. Rest' = Rest
    BY <2>1 DEF Rest
  <2> QED
    BY <2>1, <2>2, <2>3, <2>4
<1>2. CASE MoveRead \/ TakeBatch(w) \/ SendFiltered(w) \/ Receive
  <2>1. UNCHANGED <<file, line, sequence, batch, base_sequence, written, input, reader>>
    BY <1>2 DEF MoveRead, TakeBatch, SendFiltered, Receive, readerVars, filterVars, outputVars, fileVars
  <2>2. UnderWay' = UnderWay /\ Filtered' = Filtered
    BY <1>2, MoveReadKeeps, TakeBatchKeeps, SendFilteredKeeps, ReceiveKeeps
  <2>3. Held' = Held
    BY <2>1, <2>2 DEF Held
  <2>4. Rest' = Rest
    BY <2>1 DEF Rest
  <2> QED
    BY <2>1, <2>2, <2>3, <2>4
<1>3. CASE FlushInput
  <2>1. /\ UNCHANGED <<file, line, sequence, batch, base_sequence, written, input>>
        /\ reader \in {"full", "flush"} /\ reader' \in {"new", "drain"}
    BY <1>3 DEF FlushInput, outputVars, fileVars
  <2>2. UnderWay' = UnderWay \cup {input} /\ Filtered' = Filtered
    BY <1>3, FlushInputKeeps
  <2>3. Held' = Held
    BY <2>1, <2>2 DEF Held
  <2> QED
    BY <1>3, <2>1, <2>2, <2>3
<1> QED
  BY <1>1, <1>2, <1>3

\* The numbers of the batches.
LEMMA NumbersSame ==
  ASSUME IInv, UNCHANGED batch
  PROVE  \A b \in Held : Number(b)' = Number(b)
BY DEF Number

\* Each step keeps every batch between the cuts of its number.
LEMMA ContentsKept ==
  ASSUME IInv, Reading, Harmless(file), Typed, NEW cut, Cuts(cut), Contents(cut), [Next]_vars
  PROVE  Typed' /\ \E d : Cuts(d)' /\ Contents(d)'
<1>1. ASSUME NEW w \in FilterThreads,
             \/ BeginLength \/ EndOfSection \/ EndLength \/ DestroyFilter \/ DestroyOutput \/ LoopEnds
             \/ UNCHANGED vars \/ MoveRead \/ TakeBatch(w) \/ SendFiltered(w) \/ Receive \/ FlushInput
      PROVE  Typed' /\ \E d : Cuts(d)' /\ Contents(d)'
  <2>1. /\ UNCHANGED <<file, line, sequence, batch, base_sequence, written>>
        /\ Held' = Held /\ Filtered' = Filtered
    BY <1>1, BatchesMove
  <2>2. Cuts(cut)' /\ Contents(cut)'
    BY <2>1, SameContents
  <2>3. Typed'
    BY <2>1 DEF Typed
  <2> QED
    BY <2>2, <2>3
<1>2. CASE AddNGram
  BY <1>2, AddNGramInOrder
<1>3. CASE FlushNothing
  <2>1. Typed' /\ Cuts(cut)' /\ Contents(cut)'
    BY <1>3, FlushNothingInOrder
  <2> QED
    BY <2>1
<1>4. CASE NewInput
  BY <1>4, NewInputInOrder
<1>5. ASSUME NEW w \in FilterThreads, CallFilter(w)
      PROVE  Typed' /\ \E d : Cuts(d)' /\ Contents(d)'
  <2>1. Typed' /\ Cuts(cut)' /\ Contents(cut)'
    BY <1>5, CallFilterInOrder
  <2> QED
    BY <2>1
<1>6. CASE WriteFront
  <2>1. Typed' /\ Cuts(cut)' /\ Contents(cut)'
    BY <1>6, WriteFrontInOrder
  <2> QED
    BY <2>1
<1>7. 1 \in FilterThreads
  BY FilterAssumption DEF FilterThreads
<1> QED
  BY <1>1, <1>2, <1>3, <1>4, <1>5, <1>6, <1>7 DEF Next, Reader, Filter, Output

\* Each step keeps the counts those of the sections.
LEMMA CountingKept ==
  ASSUME IInv, Reading, AtRest, Typed, Counting, NEW cut, Cuts(cut), Contents(cut), [Next]_vars
  PROVE  Counting'
<1>1. CASE BeginLength
  BY <1>1, BeginLengthCounts
<1>2. CASE EndLength
  BY <1>2, EndLengthCounts
<1>3. CASE WriteFront
  BY <1>3, WriteFrontCounts
<1>4. CASE AddNGram \/ FlushInput \/ FlushNothing \/ NewInput
  <2>1. /\ UNCHANGED <<file, section, written, fast_counter, counts>>
        /\ reader # "begin" /\ reader \notin Destroying /\ reader' \notin Destroying
    BY <1>4 DEF AddNGram, FlushInput, FlushNothing, NewInput, readerVars, fileVars, Destroying
  <2> QED
    BY <2>1, CountingSame
<1>5. CASE EndOfSection
  <2>1. /\ UNCHANGED <<file, section, written, fast_counter, counts>>
        /\ reader # "begin" /\ reader \notin Destroying
        /\ reader' \in Destroying => file.format # "arpa"
    BY <1>5 DEF EndOfSection, fileVars, Destroying
  <2> QED
    BY <2>1, CountingSame
<1>6. CASE DestroyFilter \/ DestroyOutput
  <2>1. /\ UNCHANGED <<file, section, written, fast_counter, counts>>
        /\ reader # "begin" /\ reader \in Destroying /\ reader' \in Destroying
    BY <1>6 DEF DestroyFilter, DestroyOutput, fileVars, Destroying
  <2> QED
    BY <2>1, CountingSame
<1>7. CASE MoveRead \/ Receive \/ LoopEnds \/ UNCHANGED vars \/ \E w \in FilterThreads : Filter(w)
  <2>1. UNCHANGED <<file, section, written, fast_counter, counts, reader>>
    BY <1>7 DEF MoveRead, Receive, LoopEnds, Filter, TakeBatch, CallFilter, SendFiltered, vars, readerVars,
       fileVars
  <2> QED
    BY <2>1, CountingSame
<1> QED
  BY <1>1, <1>2, <1>3, <1>4, <1>5, <1>6, <1>7 DEF Next, Reader, Output

\* Each step keeps the batches of a raw file full but for the last.
LEMMA RawReadingKept ==
  ASSUME IInv, Reading, Harmless(file), Typed, RawReading, NEW cut, Cuts(cut), Contents(cut), [Next]_vars
  PROVE  RawReading'
<1>1. ASSUME NEW w \in FilterThreads,
             \/ BeginLength \/ EndOfSection \/ EndLength \/ DestroyFilter \/ DestroyOutput \/ LoopEnds
             \/ UNCHANGED vars \/ MoveRead \/ TakeBatch(w) \/ SendFiltered(w) \/ Receive
      PROVE  RawReading'
  <2>1. /\ UNCHANGED <<file, line, sequence, batch, base_sequence, written>>
        /\ Held' = Held
        /\ FlushInput \/ Rest' = Rest
    BY <1>1, BatchesMove
  <2>2. /\ ~FlushInput
        /\ \/ reader' = reader
           \/ reader' \in Destroying /\ reader \in {"read"} \cup Destroying
           \/ file.format # "raw"
    <3>1. CASE BeginLength \/ EndLength
      BY <3>1 DEF BeginLength, EndLength, Reading, FlushInput
    <3>2. CASE EndOfSection
      BY <3>2 DEF EndOfSection, Destroying, FlushInput
    <3>3. CASE DestroyFilter \/ DestroyOutput
      BY <3>3 DEF DestroyFilter, DestroyOutput, Destroying, FlushInput
    <3>4. CASE LoopEnds \/ UNCHANGED vars \/ MoveRead \/ TakeBatch(w) \/ SendFiltered(w) \/ Receive
      <4>1. UNCHANGED reader
        BY <3>4 DEF LoopEnds, vars, MoveRead, TakeBatch, SendFiltered, Receive, readerVars
      <4>2. FlushInput => reader' # reader
        BY DEF FlushInput
      <4> QED
        BY <4>1, <4>2
    <3> QED
      BY <1>1, <3>1, <3>2, <3>3, <3>4
  <2>3. \A b \in Held : Number(b)' = Number(b)
    BY <2>1, NumbersSame
  <2> QED
    BY <2>1, <2>2, <2>3, RawSame
<1>2. CASE AddNGram
  BY <1>2, AddNGramRaw
<1>3. CASE FlushInput
  BY <1>3, FlushInputRaw
<1>4. CASE FlushNothing
  <2>1. file.format = "arpa" /\ file' = file
    BY <1>4 DEF FlushNothing, Reading
  <2> QED
    BY <2>1 DEF RawReading
<1>5. CASE NewInput
  BY <1>5, NewInputRaw
<1>6. ASSUME NEW w \in FilterThreads, CallFilter(w)
      PROVE  RawReading'
  <2>1. UNCHANGED <<file, line, base_sequence, sequence, reader, input>>
    BY <1>6 DEF CallFilter, readerVars, outputVars
  <2>2. /\ Held' = Held /\ \A b \in Held : Number(b)' = Number(b)
        /\ \A b \in Batches : batch'[b].input = batch[b].input
    BY <1>6, CallFilterInOrder
  <2>3. CASE file.format = "raw"
    <3>1. Rest' = Rest
      <4>1. reader \notin {"new", "drain"} => input \in Batches
        BY HeldIs
      <4>2. reader \in {"read", "full", "new"} \cup Destroying
        BY <2>3 DEF RawReading
      <4>3. reader # "new" => input \in Batches
        BY <4>1, <4>2 DEF Destroying
      <4> QED
        BY <2>1, <2>2, <4>3 DEF Rest
    <3> QED
      BY <2>1, <2>2, <3>1, RawSame
  <2>4. CASE file.format # "raw"
    BY <2>1, <2>4 DEF RawReading
  <2> QED
    BY <2>3, <2>4
<1>7. CASE WriteFront
  BY <1>7, WriteFrontRaw
<1>8. 1 \in FilterThreads
  BY FilterAssumption DEF FilterThreads
<1> QED
  BY <1>1, <1>2, <1>3, <1>4, <1>5, <1>6, <1>7, <1>8 DEF Next, Reader, Filter, Output

\* At the start nothing has been read.
LEMMA StartsInOrder == Init => OrderInv
<1> SUFFICES ASSUME Init PROVE OrderInv
  OBVIOUS
<1>1. IInv
  BY Starts
<1>2. /\ file \in Files /\ file.format \in {"arpa", "raw"}
      /\ reader = (IF file.format = "arpa" THEN "begin" ELSE "read")
      /\ section = 1 /\ line = 0 /\ left = file.number[1] /\ sequence = 1 /\ base_sequence = 0
      /\ input = QueueSize /\ filter_in = <<>> /\ output_in = <<>> /\ ordering = <<>> /\ filtered = {}
      /\ filtering = [w \in FilterThreads |-> NoBatch] /\ ~writing
      /\ batch = [b \in Batches |-> [sequence |-> 0, input |-> <<>>, output |-> EmptyBuffer]]
      /\ written = [o \in Outputs |-> <<>>]
      /\ fast_counter = [o \in Outputs |-> 0] /\ counts = [o \in Outputs |-> <<>>]
  BY FilterAssumption DEF Init
<1>3. QueueSize \in Batches
  <2>1. Threads \in Nat /\ Threads >= 2
    BY FilterAssumption
  <2> QED
    BY <2>1 DEF Batches, QueueSize
<1>4. UnderWay = {} /\ Filtered = {} /\ Held = {input} /\ Number(input) = 0
      /\ batch[input].input = <<>>
  <2>1. At["filter"] = {} /\ At["output"] = {} /\ At["deque"] = {}
    BY <1>2, AtNames DEF ToSet
  <2>2. At["threads"] = {}
    BY <1>2, AtNames
  <2>3. UnderWay = {} /\ Filtered = {}
    BY <1>2, <2>1, <2>2 DEF UnderWay, Filtered
  <2>4. Held = {input}
    BY <1>2, <2>3 DEF Held
  <2> QED
    BY <1>2, <1>3, <2>3, <2>4 DEF Number
<1>5. Reading
  <2>1. /\ Len(file.number) \in Nat \ {0} /\ \A i \in 1 .. Len(file.number) : file.number[i] \in Nat
        /\ Through(file, 0) = 0
        /\ \A i \in 1 .. Len(file.number) : Through(file, i) = Through(file, i - 1) + file.number[i]
    BY <1>2, ThroughIs
  <2>2. 1 \in 1 .. Len(file.number) /\ 1 - 1 = 0
    BY <2>1
  <2>3. file.number[1] \in Nat /\ Through(file, 1) = 0 + file.number[1]
    BY <2>1, <2>2
  <2>4. LinesThrough(section - 1) = 0 /\ line + left = LinesThrough(section)
    BY <1>2, <2>1, <2>2, <2>3 DEF LinesThrough
  <2>5. reader \in {"begin", "read"} /\ (reader = "begin" => file.format = "arpa")
    BY <1>2
  <2> QED
    BY <1>2, <2>2, <2>3, <2>4, <2>5 DEF Reading
<1>6. AtRest
  BY <1>2, <1>4 DEF AtRest, Destroying, FrontReady
<1>7. Typed
  <2>1. EmptyBuffer \in Buffers
    <3>1. <<>> \in Seq(Notes)
      OBVIOUS
    <3> QED
      BY <3>1 DEF EmptyBuffer, Buffers
  <2>2. <<>> \in Seq(Nat)
    OBVIOUS
  <2> QED
    BY <1>2, <2>1, <2>2 DEF Typed
<1>8. PICK cut \in [Nat -> Nat] : \A q \in Nat : cut[q] = 0
  <2>1. [q \in Nat |-> 0] \in [Nat -> Nat] /\ \A q \in Nat : [r \in Nat |-> 0][q] = 0
    OBVIOUS
  <2> QED
    BY <2>1
<1>9. Cuts(cut)
  <2>1. \A o : KeptThrough(0, o) = <<>>
    BY <1>2, KeptIs
  <2>2. \A q \in Nat : base_sequence <= q /\ q < sequence =>
          cut[q] = cut[q + 1] \/ \E b \in Held : Number(b) = q
    BY <1>8
  <2>3. \A b \in Held :
          /\ Len(batch[b].input) = cut[Number(b) + 1] - cut[Number(b)]
          /\ \A i \in 1 .. Len(batch[b].input) : batch[b].input[i] = cut[Number(b)] + i
    <3>1. cut[0] = 0 /\ cut[0 + 1] = 0 /\ Len(<<>>) = 0
      BY <1>8
    <3> QED
      BY <1>4, <3>1
  <2>4. \A o \in Outputs : written[o] = KeptThrough(cut[base_sequence], o)
    BY <1>2, <1>8, <2>1
  <2>5. /\ cut \in [Nat -> Nat] /\ cut[sequence] = line
        /\ \A p, q \in Nat : base_sequence <= p /\ p <= q /\ q <= sequence => cut[p] <= cut[q]
    BY <1>2, <1>8
  <2> QED
    BY <2>2, <2>3, <2>4, <2>5 DEF Cuts
<1>10. Contents(cut)
  <2>1. \A b \in Batches : batch[b].output = EmptyBuffer
    BY <1>2
  <2>2. LastBefore(EmptyBuffer, 0)
    BY <1>2, FileIs DEF LastBefore, EmptyBuffer
  <2>3. cut[Number(input)] = 0
    BY <1>4, <1>8
  <2> QED
    BY <1>2, <1>3, <1>4, <2>1, <2>2, <2>3 DEF Contents, EmptyBuffer
<1>11. Counting
  <2>1. LinesThrough(section - 1) = 0
    BY <1>2, ThroughIs DEF LinesThrough
  <2>2. \A o : KeptThrough(LinesThrough(section - 1), o) = <<>>
    BY <1>2, <2>1, KeptIs
  <2>3. Len(<<>>) = 0 /\ <<>> \in Seq(Int) /\ DOMAIN <<>> = {} /\ 0 + 0 = 0 /\ 1 - 1 = 0
    OBVIOUS
  <2>4. reader \notin Destroying
    BY <1>2 DEF Destroying
  <2> QED
    BY <1>2, <2>2, <2>3, <2>4 DEF Counting
<1>12. RawReading
  <2> SUFFICES ASSUME file.format = "raw" PROVE RawReading
    BY DEF RawReading
  <2>1. Rest = 0
    BY <1>2, <1>4 DEF Rest
  <2>2. BatchSize \in Nat \ {0}
    BY FilterAssumption
  <2>3. line = 0 * BatchSize + Rest
    BY <1>2, <2>1, <2>2
  <2>4. \A q \in Nat : base_sequence <= q /\ q < sequence => \E b \in Held : Number(b) = q
    BY <1>2, <1>4
  <2>5. Rest <= BatchSize /\ (reader = "full" <=> Rest = BatchSize)
    BY <1>2, <2>1, <2>2
  <2> QED
    BY <1>2, <2>3, <2>4, <2>5 DEF RawReading
<1> QED
  BY <1>1, <1>5, <1>6, <1>7, <1>9, <1>10, <1>11, <1>12 DEF OrderInv, InOrder

\* OrderInv is inductive.
LEMMA StepInOrder == OrderInv /\ [Next]_vars => OrderInv'
<1> SUFFICES ASSUME OrderInv, [Next]_vars PROVE OrderInv'
  OBVIOUS
<1>1. IInv /\ Reading /\ AtRest /\ (Harmless(file) => InOrder)
  BY DEF OrderInv
<1>2. IInv' /\ Reading' /\ AtRest'
  BY <1>1, StepKeeps, ReadingKept, AtRestKept
<1>3. file' = file
  BY DEF Next, Reader, Filter, Output, BeginLength, AddNGram, EndOfSection, FlushInput, FlushNothing,
     MoveRead, NewInput, EndLength, DestroyFilter, DestroyOutput, TakeBatch, CallFilter, SendFiltered,
     Receive, WriteFront, LoopEnds, vars, readerVars
<1>4. ASSUME Harmless(file) PROVE InOrder'
  <2>1. PICK cut : Cuts(cut) /\ Contents(cut)
    BY <1>1, <1>4 DEF InOrder
  <2>2. Typed /\ Counting /\ RawReading
    BY <1>1, <1>4 DEF InOrder
  <2>3. Typed' /\ \E d : Cuts(d)' /\ Contents(d)'
    BY <1>1, <1>4, <2>1, <2>2, ContentsKept
  <2>4. Counting'
    BY <1>1, <2>1, <2>2, CountingKept
  <2>5. RawReading'
    BY <1>1, <1>4, <2>1, <2>2, RawReadingKept
  <2> QED
    BY <2>3, <2>4, <2>5 DEF InOrder
<1>5. Harmless(file)' = Harmless(file)
  BY <1>3, SameFile
<1> QED
  BY <1>2, <1>4, <1>5 DEF OrderInv

\* The properties, from OrderInv.
LEMMA OrderedIsFiltered == OrderInv => (Harmless(file) => EntireInputFiltered)
<1> SUFFICES ASSUME OrderInv, Harmless(file) PROVE EntireInputFiltered
  OBVIOUS
<1>1. IInv /\ Reading /\ AtRest /\ Typed /\ RawReading
  BY DEF OrderInv, InOrder
<1>2. PICK cut : Cuts(cut) /\ Contents(cut)
  BY DEF OrderInv, InOrder
<1>3. \A o \in Outputs : IsPrefix(written[o], KeptThrough(line, o))
  <2> TAKE o \in Outputs
  <2>1. PICK c : c = cut[base_sequence]
    OBVIOUS
  <2>2. /\ c \in Nat /\ c <= line /\ line \in Nat /\ line <= Total(file) /\ Total(file) \in Nat
    <3>1. sequence \in Nat /\ base_sequence \in Nat /\ base_sequence <= sequence /\ sequence <= sequence
      BY <1>1, HeldIs
    <3>2. /\ cut \in [Nat -> Nat] /\ cut[sequence] = line
          /\ \A p, q \in Nat : base_sequence <= p /\ p <= q /\ q <= sequence => cut[p] <= cut[q]
      BY <1>2, CutsIs
    <3>3. c \in Nat /\ c <= line
      BY <2>1, <3>1, <3>2
    <3> QED
      BY <1>1, <3>3, LineIs
  <2>3. c \in 0 .. Total(file) /\ line \in c .. Total(file)
    BY <2>2
  <2>4. written[o] = KeptThrough(c, o)
    BY <1>2, <2>1, CutsIs
  <2> QED
    BY <1>1, <2>3, <2>4, KeptGrows DEF Reading
<1>4. ASSUME reader = "destroyed"
      PROVE  \A o \in Outputs : written[o] = KeptThrough(line, o)
  <2>1. CASE file.format = "arpa"
    <3>1. UnderWay = {} /\ batch[input].input = <<>>
      BY <1>1, <1>4, <2>1 DEF AtRest, Destroying
    <3> QED
      BY <1>1, <1>2, <3>1, AllWrittenAtRest
  <2>2. CASE file.format = "raw"
    <3>1. \A b \in Held : batch[b].input = <<>>
      BY <1>1, <1>4, <2>2, RawAtEnd
    <3> QED
      BY <1>1, <1>2, <3>1, AllWritten
  <2>3. file.format \in {"arpa", "raw"}
    BY <1>1, FilterAssumption DEF Reading
  <2> QED
    BY <2>1, <2>2, <2>3
<1> QED
  BY <1>3, <1>4 DEF EntireInputFiltered

LEMMA OrderedIsComplete == OrderInv => (Harmless(file) => SectionsComplete)
<1> SUFFICES ASSUME OrderInv, Harmless(file) PROVE SectionsComplete
  OBVIOUS
<1>1. IInv /\ Reading /\ AtRest /\ Counting
  BY DEF OrderInv, InOrder
<1>2. PICK cut : Cuts(cut) /\ Contents(cut)
  BY DEF OrderInv, InOrder
<1>3. ASSUME reader \in {"begin", "end"}
      PROVE  \A o \in Outputs : written[o] = KeptThrough(line, o)
  <2>1. UnderWay = {} /\ batch[input].input = <<>>
    BY <1>1, <1>3 DEF AtRest
  <2> QED
    BY <1>1, <1>2, <2>1, AllWrittenAtRest
<1> QED
  BY <1>1, <1>3 DEF SectionsComplete, Counting
-----------------------------------------------------------------------------
\* Whatever the filter threads do, each output file holds passing lines of the
\* input in their order, each once, and in the end all of them: for any number
\* of threads and outputs, any batch size and any harmless file.
THEOREM EntireInputFilteredHolds == Spec => [](Harmless(file) => EntireInputFiltered)
BY StartsInOrder, StepInOrder, OrderedIsFiltered, PTL DEF Spec

\* When a section is ended all of its passing lines, and none of the next, have
\* been written and counted, under the same conditions.
THEOREM SectionsCompleteHolds == Spec => [](Harmless(file) => SectionsComplete)
BY StartsInOrder, StepInOrder, OrderedIsComplete, PTL DEF Spec
=============================================================================
