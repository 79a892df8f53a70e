------------------------- MODULE MCStorageConnection --------------------------
(* Instances of StorageConnection for TLC. *)
EXTENDS StorageConnection, TLC

CONSTANTS q1, q2

OneRequest  == {q1}
TwoRequests == {q1, q2}

AnyOfThem == Permutations(TwoRequests)
=============================================================================
