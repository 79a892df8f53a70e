--------------------------- MODULE MCProviderSession ---------------------------
(* Instances of ProviderSession for TLC. *)
EXTENDS ProviderSession
=============================================================================
