--------------------------- MODULE MCPipelineRunner ---------------------------
(* Instances of PipelineRunner for TLC. *)
EXTENDS PipelineRunner, TLC

CONSTANTS r1, r2, k1, k2

(* Nothing, one event, two in either order, and one with a repetition: two *)
(* runs can insert each other's events in opposite orders.                 *)
Answers == {<<>>, <<k1>>, <<k1, k2>>, <<k2, k1, k2>>}
=============================================================================
