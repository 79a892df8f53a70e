----------------------------- MODULE MCSettingsRow -----------------------------
(* An instance of SettingsRow for TLC: three requests, of any operation but *)
(* the switching on of SMS, which the switching on of email stands for.     *)
EXTENDS SettingsRow, TLC

MCOps == Operations \ {Operation("save", "settings", PatchOf("sms", TRUE))}

ReqSymmetry == Permutations(Req)
=============================================================================
