----------------------------- MODULE MCWatchFolder -----------------------------
(* An instance of WatchFolder for TLC: two files, of one name or of two. *)
EXTENDS WatchFolder, TLC

CONSTANTS f1, f2, n1, n2

MCNamings == {f1 :> n1 @@ f2 :> n1, f1 :> n1 @@ f2 :> n2}
=============================================================================
