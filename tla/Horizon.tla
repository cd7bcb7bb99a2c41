------------------------------ MODULE Horizon -------------------------------
(***************************************************************************)
(* strategy::horizon (MEMT/Strategy/Horizon): when a word is appended to a *)
(* hypothesis, the words aligned with it are used up in all engines, and   *)
(* engines that lag behind pass over words.  A hypothesis's coverage is    *)
(* one Coverage per engine.                                                *)
(*                                                                         *)
(* A configuration is a record [method, radius, stay_weights,              *)
(* stay_threshold, phrase, continue_recent, extend_aligned, transitive].   *)
(* Stay weights are integers: shares of the same total as the threshold.   *)
(***************************************************************************)
EXTENDS Phrase, FiniteSetsExt

InitializeRoot(t) == [e \in EnginesOf(t) |-> Root]

RunsOff(t, cov, e) == cov[e].frontier >= t.len[e]

UseAll(c, W) == LET U(w, d) == Use(d, w) IN FoldSet(U, c, W)

\* Mutant: aligned words of other engines are not used.
AlignmentsOwn(t, types, cov, l) == [cov EXCEPT ![l[1]] = Use(@, l[2])]
\* Use word l, and the blocks of the words aligned with it.
Alignments(t, types, cov, l) ==
  [e \in EnginesOf(t) |->
     IF e = l[1] THEN Use(cov[e], l[2])
     ELSE IF IsConnection(Ask(t, l, e))
     THEN UseAll(cov[e], Block(t, types, <<e, Ask(t, l, e).offset>>))
     ELSE cov[e]]

SkipPunctuation(t, e, c) ==
  LET Skip[d \in Coverages] ==
        IF d.frontier < t.len[e] /\ IsPunctuation(t, <<e, d.frontier>>)
        THEN Skip[UseFrontier(d)] ELSE d
  IN Skip[c]

SkipLeadingPunctuation(t, cov, advancing) ==
  [e \in EnginesOf(t) |-> IF e = advancing THEN cov[e]
                          ELSE SkipPunctuation(t, e, cov[e])]

AdvanceSkipPunctuation(t, e, c) == SkipPunctuation(t, e, UseFrontier(c))
-----------------------------------------------------------------------------
(* Method "length": nobody stays more than radius behind the leader.       *)

\* The first in the queue is an engine with the lowest frontier.
Top(cov, queue) ==
  CHOOSE e \in queue : \A f \in queue : cov[e].frontier <= cov[f].frontier

\* Mutant: an engine that moved does not go back into the queue.
EnforceOldOnce(t, config, cov) ==
  LET lead == Max({cov[e].frontier : e \in EnginesOf(t)})
  IN [e \in EnginesOf(t) |->
        IF cov[e].frontier + config.radius >= lead THEN cov[e]
        ELSE AdvanceSkipPunctuation(t, e, cov[e])]
\* The leader is never popped, so the queue is never empty.
Queues(t) ==
  {s \in [cov : [EnginesOf(t) -> Coverages], queue : SUBSET EnginesOf(t), max_frontier : Nat] :
     \E e \in s.queue : s.cov[e].frontier >= s.max_frontier}
EnforceOldConstraints(t, config, cov) ==
  LET Settle[s \in Queues(t)] ==
        LET e == Top(s.cov, s.queue)
            c == AdvanceSkipPunctuation(t, e, s.cov[e])
            moved == [s EXCEPT !.cov[e] = c]
        IN IF s.cov[e].frontier + config.radius >= s.max_frontier THEN s.cov
           ELSE IF c.frontier >= t.len[e]
           THEN Settle[[moved EXCEPT !.queue = @ \ {e}]]
           ELSE Settle[[moved EXCEPT !.max_frontier = Max({@, c.frontier})]]
  IN Settle[[cov |-> cov, queue |-> EnginesOf(t),
             max_frontier |-> Max({cov[e].frontier : e \in EnginesOf(t)})]]
-----------------------------------------------------------------------------
(* Method "alignment": an engine stays while enough engines vote for it.   *)

\* MakeProjection: where word l projects to in engine o, by the nearest word
\* before it, or after it, that is aligned with a word of o.
LeftProjection(t, l, o) ==
  LET x == Max({y \in 0 .. l[2] : IsConnection(Ask(t, <<l[1], y>>, o))})
  IN Ask(t, <<l[1], x>>, o).offset + l[2] - x
RightProjection(t, l, o) ==
  LET x == Min({y \in l[2] .. t.len[l[1]] - 1 : IsConnection(Ask(t, <<l[1], y>>, o))})
  IN Ask(t, <<l[1], x>>, o).offset + l[2] - x

\* GetBound(o).start of word l: Bound clamps it with the length of l's engine.
BoundStart(t, config, l, o) ==
  LET start == Min({LeftProjection(t, l, o), RightProjection(t, l, o)}) - config.radius
  IN Max({0, Min({t.len[l[1]] - 1, start})})

\* Engine e at frontier x votes for engine o staying at frontier y.
VotesFor(t, config, e, x, o, y) == BoundStart(t, config, <<e, x>>, o) <= y

\* The votes for engine o, and how many are needed: an engine that has run off
\* neither votes nor counts.
Live(t, cov) == {e \in EnginesOf(t) : ~RunsOff(t, cov, e)}
Votes(t, config, cov, o) ==
  LET Weight(e) == config.stay_weights[e]
  IN MapThenSumSet(Weight, {e \in Live(t, cov) :
       VotesFor(t, config, e, cov[e].frontier, o, cov[o].frontier)})
MinStay(t, config, cov) ==
  LET Weight(e) == config.stay_weights[e]
  IN config.stay_threshold - MapThenSumSet(Weight, EnginesOf(t) \ Live(t, cov))

\* std::min_element: the first of the engines with the fewest votes.
Lowest(stay, live) ==
  CHOOSE e \in live : \A o \in live : stay[e] < stay[o] \/ (stay[e] = stay[o] /\ e <= o)

\* The votes "stay" after engine e moved on to coverage c.  The code takes e's
\* old votes off where they reach e's own frontier, not the other engine's.
Recount(t, config, cov, stay, e, c) ==
  LET w == config.stay_weights[e]
      after == [cov EXCEPT ![e] = c]
      Less(o) == IF VotesFor(t, config, e, cov[e].frontier, o, cov[e].frontier)
                 THEN w ELSE 0
      More(o) == IF VotesFor(t, config, e, c.frontier, o, cov[o].frontier)
                 THEN w ELSE 0
  IN [o \in EnginesOf(t) |->
        IF RunsOff(t, after, e) THEN stay[o] - Less(o)
        ELSE IF o = e THEN Votes(t, config, after, e)
        ELSE stay[o] - Less(o) + More(o)]

EnforceNewConstraints(t, config, cov) ==
  LET Settle[s \in [cov : [EnginesOf(t) -> Coverages], stay : [EnginesOf(t) -> Int]]] ==
        LET live == Live(t, s.cov)
            e == Lowest(s.stay, live)
            c == AdvanceSkipPunctuation(t, e, s.cov[e])
        IN IF live = {} \/ s.stay[e] >= MinStay(t, config, s.cov) THEN s.cov
           ELSE Settle[[cov |-> [s.cov EXCEPT ![e] = c],
                        stay |-> Recount(t, config, s.cov, s.stay, e, c)]]
  IN Settle[[cov |-> cov, stay |-> [o \in EnginesOf(t) |-> Votes(t, config, cov, o)]]]
-----------------------------------------------------------------------------
\* Hypothesis::ConsumeWord; the word was taken from l.
ConsumeWord(t, config, cov, l) ==
  LET used == SkipLeadingPunctuation(t, Alignments(t, config.phrase, cov, l), l[1])
  IN IF config.method = "alignment" THEN EnforceNewConstraints(t, config, used)
                                    ELSE EnforceOldConstraints(t, config, used)
=============================================================================
