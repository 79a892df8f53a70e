-------------------------- MODULE DispatchRefinement --------------------------
(***************************************************************************)
(* PipelineDispatch, as long as the storage set-up and the scheduler's     *)
(* answers can be trusted, implements RunLifecycle: redelivered tasks,     *)
(* late answers, dead handlers and refused schedules change nothing that   *)
(* the rows, the notifications or the folders show.                        *)
(***************************************************************************)
EXTENDS PipelineDispatch

Lifecycle == INSTANCE RunLifecycle
                 WITH status <- status, told <- told, folder <- folder

(* Every behaviour of the dispatch is one of the lifecycle: one claim, one  *)
(* notification, one verdict and one move per run, in that order, and the   *)
(* runs of a batch in turn (dispatch._claim_run's docstring, runner).       *)
RefinesLifecycle == Lifecycle!Spec
=============================================================================
