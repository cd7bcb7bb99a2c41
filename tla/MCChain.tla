------------------------------ MODULE MCChain ------------------------------
(* Instances of Chain for TLC.                                             *)
EXTENDS Chain

CONSTANTS a, b   \* a is kept by a Filter

\* Every source, every way to end a chain, and each of the workers between:
\* pipeline.cc's chains, io_test.cc, stream_test.cc.
AllLayouts ==
  {<<"Read", "Filter", "WriteAndRecycle">>,
   <<"Stream", "Filter", "PWriteAndRecycle">>,
   <<"PRead", "Write", "Filter", "Recycler">>,
   <<"PRead", "PWriteAndRecycle">>,
   <<"Stream", "MainStream", "Recycler">>,
   <<"Read", "Filter", "MainStream", "Recycler">>}

\* None, fewer than a block, blocks that a Filter empties, full blocks, all
\* blocks emptied, so that a source meets them again, and more blocks than the
\* chain has.
SomeInputs ==
  {<<>>, <<a>>, <<b>>, <<a, b>>, <<b, b>>, <<a, b, a>>, <<b, b, a, a>>, <<b, b, b, b, b, b, a>>,
   <<a, a, b, b, a, a, b>>}
=============================================================================
