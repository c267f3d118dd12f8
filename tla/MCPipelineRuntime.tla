------------------------- MODULE MCPipelineRuntime -------------------------
(***************************************************************************)
(* Graphs for TLC to run PipelineRuntime on.  Stages and edges are numbered *)
(* from 1, so that a tuple is a function on them.                          *)
(***************************************************************************)
EXTENDS PipelineRefinement

NoStage == {}

\* source -> processor -> sink

ChainNode == 1 .. 3
ChainKind == <<"source", "processor", "sink">>
ChainEdge == 1 .. 2
ChainFrom == <<1, 2>>
ChainTo   == <<2, 3>>
ChainOut  == <<<<1>>, <<2>>, <<>>>>
ChainAborter == {2, 3}
ChainLimit == <<1, 1, 0>>
ChainFaulty == {2}

\* A source feeds a lookup and, beside it, a merging sink that the lookup feeds
\* too: the graph of examples/sql-lookup-merge without what follows the combiner.
DiamondNode == 1 .. 3
DiamondKind == <<"source", "processor", "sink">>
DiamondEdge == 1 .. 3
DiamondFrom == <<1, 1, 2>>
DiamondTo   == <<2, 3, 3>>
DiamondOut  == <<<<1, 2>>, <<3>>, <<>>>>
DiamondAborter == {3}
DiamondLimit == <<2, 0, 0>>
DiamondFaulty == {2}

\* An endless source and a sink, and beside them an endless source whose output
\* nothing reads.
EndlessNode == 1 .. 3
EndlessKind == <<"source", "sink", "source">>
EndlessEdge == 1 .. 1
EndlessFrom == <<1>>
EndlessTo   == <<2>>
EndlessOut  == <<<<1>>, <<>>, <<>>>>
EndlessAborter == {2}
EndlessLimit == <<1, 0, 1>>
EndlessFaulty == {2}
EndlessSource == {1, 3}
=============================================================================
