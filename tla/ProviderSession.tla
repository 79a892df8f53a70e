---------------------------- MODULE ProviderSession ----------------------------
(***************************************************************************)
(* One provider object of a run, google_drive.py's or dropbox.py's, and    *)
(* the requests it makes one after another: the access token it sends,     *)
(* when it refreshes it, and the one retry after a 401.                    *)
(*                                                                         *)
(* Tokens are numbered in the order of their issue; number 1 is the one    *)
(* the row holds.  The provider may reject any token at any time, expired  *)
(* or not.                                                                 *)
(***************************************************************************)
EXTENDS Naturals

CONSTANTS
    None,           (* no token                                            *)
    MaxTokens       (* BOUND: how many tokens are issued                   *)

ASSUME SessionAssumption == None \notin Nat /\ MaxTokens \in Nat \ {0}

Token == 1..MaxTokens

VARIABLES
    backend,    (* whose code runs                                         *)
    access,     (* _access_token                                           *)
    expiry,     (* _token_expires_at, against the clock and its skew       *)
    refresh,    (* whether there is a refresh token                        *)
    valid,      (* tokens the provider accepts                             *)
    issued,     (* tokens issued                                           *)
    before,     (* tokens issued before the request began                  *)
    pc,         (* where the request is                                    *)
    header      (* the token in its headers                                *)

sessionVars == <<access, expiry, header>>
worldVars   == <<valid, issued, refresh>>
vars == <<backend, sessionVars, worldVars, before, pc>>

Expiry == {"unknown", "ahead", "passed"}
Ended  == {"answered", "error", "unauthorized", "no_token"}

TypeOK ==
    /\ backend \in {"google_drive", "dropbox"}
    /\ access  \in Token \cup {None}
    /\ expiry  \in Expiry
    /\ refresh \in BOOLEAN
    /\ valid   \in SUBSET Token
    /\ issued  \in Token
    /\ before  \in Token
    /\ pc      \in {"idle", "auth", "send", "refused", "reauth", "resend"} \cup Ended
    /\ header  \in Token \cup {None}
    /\ header = None => pc \in {"idle", "auth", "no_token"}

(* The row may hold no token, an expired one or one that is not accepted. *)
Init ==
    /\ backend \in {"google_drive", "dropbox"}
    /\ access  \in {1, None}
    /\ expiry  \in Expiry
    /\ refresh \in BOOLEAN
    /\ valid   \in SUBSET {1}
    /\ issued  = 1
    /\ before  = 1
    /\ pc      = "idle"
    /\ header  = None

-----------------------------------------------------------------------------
TokenIsFresh == access # None /\ expiry # "passed"

(* _refresh_access_token: the endpoint answers with a new token, its        *)
(* lifetime told or not, and possibly shorter than the skew ...             *)
Refreshed ==
    /\ refresh /\ issued < MaxTokens
    /\ issued' = issued + 1
    /\ valid'  = valid \cup {issued + 1}
    /\ access' = issued + 1
    /\ expiry' \in Expiry

NotRefreshed == UNCHANGED <<access, expiry, valid, issued>>

(* ... or there is no refresh token, or it answers with an error. *)
RefreshFails ==
    /\ NotRefreshed
    /\ pc' = "no_token"
    /\ UNCHANGED header

(* A mutated form of MergedHeaders: Dropbox's as Drive's. *)
MergedHeadersKept(old, new) == IF old = None THEN new ELSE old

(* The headers of a request.  The caller's have no Authorization; those of  *)
(* the first attempt have, and Drive's code spreads them last, Dropbox's    *)
(* the new one.                                                             *)
MergedHeaders(old, new) == IF backend = "google_drive" /\ old # None THEN old ELSE new

(* _auth_headers: a new token first if this one is not fresh. *)
AuthHeaders(at, next) ==
    /\ pc = at
    /\ \/ /\ IF TokenIsFresh THEN NotRefreshed ELSE Refreshed
          /\ header' = MergedHeaders(header, access')
          /\ pc'     = next
       \/ ~TokenIsFresh /\ RefreshFails
    /\ UNCHANGED <<backend, refresh, before>>

-----------------------------------------------------------------------------
(* _request *)

Begin ==
    /\ pc \in {"idle"} \cup Ended
    /\ pc'     = "auth"
    /\ before' = issued
    /\ header' = None
    /\ UNCHANGED <<backend, access, expiry, worldVars>>

Attach == AuthHeaders("auth", "send")

(* An answer other than 401. *)
Answer(outcome) ==
    /\ pc \in {"send", "resend"}
    /\ outcome = "answered" => header \in valid
    /\ pc' = outcome
    /\ UNCHANGED <<backend, sessionVars, worldVars, before>>

Refuse ==
    /\ pc = "send" /\ header \notin valid
    /\ pc' = "refused"
    /\ UNCHANGED <<backend, sessionVars, worldVars, before>>

(* A mutated form of RefreshRefused: a token that is still fresh is kept. *)
RefreshUnlessFresh ==
    /\ pc = "refused"
    /\ \/ (IF TokenIsFresh THEN NotRefreshed ELSE Refreshed) /\ pc' = "reauth" /\ UNCHANGED header
       \/ RefreshFails
    /\ UNCHANGED <<backend, refresh, before>>

(* Whatever the clock says. *)
RefreshRefused ==
    /\ pc = "refused"
    /\ \/ Refreshed /\ pc' = "reauth" /\ UNCHANGED header
       \/ RefreshFails
    /\ UNCHANGED <<backend, refresh, before>>

Reattach == AuthHeaders("reauth", "resend")

(* The second 401 is raised to the caller. *)
RefuseAgain ==
    /\ pc = "resend" /\ header \notin valid
    /\ pc' = "unauthorized"
    /\ UNCHANGED <<backend, sessionVars, worldVars, before>>

-----------------------------------------------------------------------------
(* The world *)

TimePasses ==
    /\ expiry  = "ahead"
    /\ expiry' = "passed"
    /\ UNCHANGED <<backend, access, header, worldVars, before, pc>>

Reject(t) ==
    /\ t \in valid
    /\ valid' = valid \ {t}
    /\ UNCHANGED <<backend, sessionVars, issued, refresh, before, pc>>

Serve == Attach \/ Answer("answered") \/ Answer("error") \/ Refuse
         \/ RefreshRefused \/ Reattach \/ RefuseAgain

Next == Begin \/ Serve \/ TimePasses \/ \E t \in Token : Reject(t)

Spec == Init /\ [][Next]_vars

-----------------------------------------------------------------------------
(* Properties *)

(* The claim of _request: after a 401 it refreshes and retries, so it fails *)
(* with a 401 only if a token issued for this very request was refused.     *)
RetryUsesRefreshed == pc = "unauthorized" => header > before

(* Dropbox's does so, whatever expires or is rejected at whatever moment    *)
(* (_raw_request: the fresh Authorization wins).                            *)
DropboxRetryUsesRefreshed == backend = "dropbox" => RetryUsesRefreshed

(* A request that ends with a 401 all the same is the only one lost, with   *)
(* either backend: the object then holds a token newer than any the request *)
(* began with, and the next request sends it (_refresh_access_token stores  *)
(* what it gets; nothing puts the old one back).                            *)
NewTokenIsKept == pc = "unauthorized" => access > before

-----------------------------------------------------------------------------
(* The inductive invariant behind the two safety properties: once the       *)
(* refused request has a new token, the object keeps one that is newer than *)
(* all the request began with, and Dropbox's retry carries it.              *)

HasNewToken(t) == t \in Token /\ t > before

IInv ==
    /\ TypeOK
    /\ before <= issued
    /\ pc = "auth" => header = None
    /\ pc \in {"reauth", "resend", "unauthorized"} => HasNewToken(access)
    /\ pc \in {"resend", "unauthorized"} /\ backend = "dropbox" => HasNewToken(header)
=============================================================================
