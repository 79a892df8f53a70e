-------------------------- MODULE MCPipelineDispatch --------------------------
(* Instances of PipelineDispatch for TLC. *)
EXTENDS DispatchRefinement, TLC

OneBatch == {"import"}
TwoFiles == [b \in Batch |-> 2]

NoFaults == [k \in FaultKind |-> 0]

(* Each fault once, and any AnyFaults of them in one behaviour. *)
AnyFaults == 2
EachFault == [k \in FaultKind |-> IF k = "any" THEN AnyFaults ELSE 1]

(* Everything but the two faults the lifecycle excludes. *)
TrustedAnswers == [EachFault EXCEPT !["vanish"] = 0, !["lie"] = 0, !["any"] = 4]

(* The faults that the refuted claims need. *)
OneAbort   == [NoFaults EXCEPT !["abort"] = 1, !["any"] = 1]
OneOverrun == [NoFaults EXCEPT !["overrun"] = 1, !["any"] = 1]
VanishAndDuplicate == [NoFaults EXCEPT !["vanish"] = 1, !["duplicate"] = 1, !["any"] = 2]
=============================================================================
