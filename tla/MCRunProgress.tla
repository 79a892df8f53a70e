---------------------------- MODULE MCRunProgress -----------------------------
(* Instances of RunProgress for TLC: one run, the page of which is opened *)
(* at any moment.                                                         *)
EXTENDS RunProgress, TLC

CONSTANTS r1, k1

Answers == {<<>>, <<k1>>}
=============================================================================
