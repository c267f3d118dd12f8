------------------------- MODULE MCPipelineBuilder -------------------------
(***************************************************************************)
(* Values for TLC: one pipeline of up to three stages, and a second one    *)
(* whose source can be merged into it by mistake.                          *)
(***************************************************************************)
EXTENDS PipelineBuilder, TLC

CONSTANTS p, q

TwoPipelines == {p, q}
ThreeAndOne == p :> 3 @@ q :> 1
=============================================================================
