---------------------------- MODULE MCStructures ----------------------------
(* Four components of one sentence's decoding that share no state: what a  *)
(* hypothesis has used (CoverageCalls), the beam (NBestCalls), the paths   *)
(* of the Legacy strategy and the decoder's search.  A behaviour exercises *)
(* one of them while the others rest, so that the states add up instead of *)
(* multiplying.  Coverage: two hypotheses and words 0 .. 5, so used words, *)
(* gaps and runs of them before and behind the frontier of either.  Beam:  *)
(* four classes of values with three scores each, merged by OneBestMerge.  *)
EXTENDS MCLegacy, CoverageCalls, NBestCalls, MCDecoder

ItemsDef == [key : 1 .. 4, score : 1 .. 3]

RestingRun == CHOOSE i \in Inputs : ~i.config.transitive
RestingInput == ReadFromJava(RestingRun.raw)
LegacyRests == Len(history) = 1 /\ config = RestingRun.config /\ input = RestingInput

RestingModel == CHOOSE m \in Models : TRUE
DecoderRests == /\ length = 2 /\ Len(agenda) = Len(model.arcs[model.root])
                /\ model = RestingModel

StructuresInit ==
  /\ CoverageInit /\ BeamInit
  /\ \/ model = RestingModel /\ DecoderInit /\ Init
     \/ Init /\ LegacyRests /\ DecoderInit

StructuresNext ==
  \/ /\ BeamInit /\ CoverageInit /\ DecoderRests
     /\ Next /\ UNCHANGED <<coverage, beamVars, decoderVars>>
  \/ /\ BeamInit /\ CoverageInit /\ LegacyRests
     /\ DecoderNext /\ UNCHANGED <<vars, coverage, beamVars>>
  \/ /\ BeamInit /\ LegacyRests /\ DecoderRests
     /\ CoverageNext /\ UNCHANGED <<vars, beamVars, decoderVars>>
  \/ /\ CoverageInit /\ LegacyRests /\ DecoderRests
     /\ BeamNext /\ UNCHANGED <<vars, coverage, decoderVars>>

StructuresSpec ==
  StructuresInit /\ [][StructuresNext]_<<vars, coverage, beamVars, decoderVars>>
=============================================================================
