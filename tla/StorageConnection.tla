--------------------------- MODULE StorageConnection ---------------------------
(***************************************************************************)
(* One user's storage_configs row: saved and switched by PUT               *)
(* /storage-config, given tokens by the callback of an OAuth flow, cleared *)
(* by disconnect, each request with a session of its own.                  *)
(*                                                                         *)
(* A session writes back only the columns that it changed from what it     *)
(* loaded.  Between the load and the commit the callback waits for the     *)
(* provider's token endpoint and disconnect for its revocation endpoint.   *)
(* The callback commits through mark_storage_onboarding_done, which may    *)
(* have to create the user's settings row first.                           *)
(*                                                                         *)
(* A token stands for the grant it belongs to; the S3 keys, which no       *)
(* endpoint writes, and the folder are left out.                           *)
(***************************************************************************)
EXTENDS Naturals

CONSTANTS
    Request,        (* requests the service can be serving at once         *)
    None,           (* no row, no token, nobody                            *)
    MaxGrants       (* BOUND: how many grants the providers issue          *)

ASSUME ConnectionAssumption == None \notin Request /\ MaxGrants \in Nat

OAuth    == {"google_drive", "dropbox"}
Provider == OAuth \cup {"s3"}
Grant    == [by : OAuth, n : 1..MaxGrants]
Row      == [provider : Provider, access : Grant \cup {None}, refresh : Grant \cup {None}]
Token    == [grant : Grant, refresh : BOOLEAN]

ASSUME NoneIsNoRow == None \notin Row

VARIABLES
    row,        (* the committed row                                       *)
    lock,       (* the request whose UPDATE of the row is not committed    *)
    settings,   (* whether the user has a settings row                     *)
    consents,   (* providers whose consent screen the browser has open     *)
    live,       (* grants not revoked                                      *)
    issued,     (* grants issued so far                                    *)
    pc,         (* where each request is                                   *)
    wants,      (* the provider it is about                                *)
    loaded,     (* the row as it loaded it                                 *)
    token,      (* what the callback got from the provider                 *)
    sawSettings,(* whether the callback found a settings row               *)
    crossed,    (* a flow has met another provider in the row or in a save *)
    died        (* a request has died                                      *)

rowVars     == <<row, lock, settings>>
worldVars   == <<consents, live, issued>>
requestVars == <<pc, wants, loaded, token, sawSettings>>
vars == <<rowVars, worldVars, requestVars, crossed, died>>

TypeOK ==
    /\ row      \in Row \cup {None}
    /\ lock     \in Request \cup {None}
    /\ settings \in BOOLEAN
    /\ consents \in SUBSET OAuth
    /\ live     \in SUBSET Grant
    /\ issued   \in 0..MaxGrants
    /\ pc       \in [Request -> {"idle", "save", "exchange", "store", "commit",
                                 "flag", "revoke", "clear"}]
    /\ wants    \in [Request -> Provider]
    /\ \A q \in Request : pc[q] = "exchange" => wants[q] \in OAuth
    /\ loaded   \in [Request -> Row \cup {None}]
    /\ token    \in [Request -> Token \cup {None}]
    /\ sawSettings \in [Request -> BOOLEAN]
    /\ crossed   \in BOOLEAN
    /\ died      \in BOOLEAN

Init ==
    /\ row      = None
    /\ lock     = None
    /\ settings = FALSE
    /\ consents = {}
    /\ live     = {}
    /\ issued   = 0
    /\ pc       = [q \in Request |-> "idle"]
    /\ wants    = [q \in Request |-> "s3"]
    /\ loaded   = [q \in Request |-> None]
    /\ token    = [q \in Request |-> None]
    /\ sawSettings = [q \in Request |-> FALSE]
    /\ crossed   = FALSE
    /\ died      = FALSE

-----------------------------------------------------------------------------
(* The UPDATE of a session that loaded old and has made new of it. *)
Changed(old, new) ==
    [c \in DOMAIN row |-> IF new[c] = old[c] THEN row[c] ELSE new[c]]

(* A mutated form of Disconnected: the refresh token is forgotten. *)
DisconnectedAccessOnly(old) == [old EXCEPT !.access = None]

Disconnected(old) == [old EXCEPT !.access = None, !.refresh = None]

(* A mutated form of Switched: the credentials stay. *)
SwitchedKeeping(old, p) == [old EXCEPT !.provider = p]

(* upsert_storage_config: credentials go when the provider changes. *)
Switched(old, p) ==
    IF old.provider = p THEN old ELSE [Disconnected(old) EXCEPT !.provider = p]

Connected(old, t) ==
    [old EXCEPT !.access = t.grant, !.refresh = IF t.refresh THEN t.grant ELSE @]

Begin(q, where, p) ==
    /\ pc[q] = "idle"
    /\ pc'     = [pc EXCEPT ![q] = where]
    /\ wants'  = [wants EXCEPT ![q] = p]
    /\ loaded' = [loaded EXCEPT ![q] = row]
    /\ UNCHANGED <<token, sawSettings>>

Goto(q, where) == pc' = [pc EXCEPT ![q] = where]

(* What the session has loaded is expired. *)
GotoFlag(q) ==
    /\ Goto(q, "flag")
    /\ loaded' = [loaded EXCEPT ![q] = None]
    /\ sawSettings' = [sawSettings EXCEPT ![q] = FALSE]
    /\ UNCHANGED <<wants, token>>

(* The request is answered; its session is gone. *)
End(q) ==
    /\ pc'     = [pc EXCEPT ![q] = "idle"]
    /\ wants'  = [wants EXCEPT ![q] = "s3"]
    /\ loaded' = [loaded EXCEPT ![q] = None]
    /\ token'  = [token EXCEPT ![q] = None]
    /\ sawSettings' = [sawSettings EXCEPT ![q] = FALSE]

At(places) == {q \in Request : pc[q] \in places}

(* Providers whose flow is open in the browser or in a callback, and those  *)
(* that the row names or a save is about to name.                           *)
Flows == consents \cup {wants[q] : q \in At({"exchange", "store", "commit"})}
Named == (IF row = None THEN {} ELSE {row.provider}) \cup {wants[q] : q \in At({"save"})}

Crossing == \E p \in Flows : \E n \in Named : n # p

NoteCrossing == crossed' = (crossed \/ Crossing')

-----------------------------------------------------------------------------
(* PUT /storage-config *)

BeginSave(q) ==
    /\ \E p \in Provider : Begin(q, "save", p)
    /\ UNCHANGED <<rowVars, worldVars, died>>
    /\ NoteCrossing

(* Two first saves at once: the second INSERT breaks user_id's UNIQUE and   *)
(* the request fails.                                                       *)
Save(q) ==
    /\ pc[q] = "save" /\ lock = None
    /\ row' = IF loaded[q] # None
                THEN Changed(loaded[q], Switched(loaded[q], wants[q]))
              ELSE IF row = None
                THEN [provider |-> wants[q], access |-> None, refresh |-> None]
              ELSE row
    /\ End(q)
    /\ UNCHANGED <<lock, settings, worldVars, died>>
    /\ NoteCrossing

-----------------------------------------------------------------------------
(* The OAuth flow *)

(* Needs a row, whatever its provider. *)
Authorize(p) ==
    /\ row # None
    /\ consents' = consents \cup {p}
    /\ UNCHANGED <<rowVars, live, issued, requestVars, died>>
    /\ NoteCrossing

google_drive_authorize == Authorize("google_drive")
dropbox_authorize == Authorize("dropbox")

(* The browser comes back with a code and the flow's cookie. *)
BeginCallback(q, p) ==
    /\ p \in consents
    /\ Begin(q, "exchange", p)
    /\ consents' = consents \ {p}
    /\ UNCHANGED <<rowVars, live, issued, died>>
    /\ NoteCrossing

google_drive_callback(q) == BeginCallback(q, "google_drive")
dropbox_callback(q) == BeginCallback(q, "dropbox")

Exchange(q) ==
    /\ pc[q] = "exchange"
    /\ issued < MaxGrants
    /\ issued' = issued + 1
    /\ LET g == [by |-> wants[q], n |-> issued + 1] IN
        /\ live' = live \cup {g}
        /\ \E r \in BOOLEAN : token' = [token EXCEPT ![q] = [grant |-> g, refresh |-> r]]
    /\ Goto(q, "store")
    /\ UNCHANGED <<rowVars, consents, wants, loaded, sawSettings, died>>
    /\ NoteCrossing

ExchangeFails(q) ==
    /\ pc[q] = "exchange"
    /\ End(q)
    /\ UNCHANGED <<rowVars, worldVars, died>>
    /\ NoteCrossing

(* get_user_settings' SELECT flushes the tokens and holds the row. *)
Store(q) ==
    /\ pc[q] = "store" /\ lock = None
    /\ lock' = q
    /\ sawSettings' = [sawSettings EXCEPT ![q] = settings]
    /\ Goto(q, "commit")
    /\ UNCHANGED <<row, settings, worldVars, wants, loaded, token, died>>
    /\ NoteCrossing

CommitTokens(q) == row' = Changed(loaded[q], Connected(loaded[q], token[q]))

(* The settings row was there: one commit for the flag and the tokens. *)
CommitBoth(q) ==
    /\ pc[q] = "commit" /\ sawSettings[q]
    /\ CommitTokens(q)
    /\ lock' = None
    /\ End(q)
    /\ UNCHANGED <<settings, worldVars, died>>
    /\ NoteCrossing

(* It was not, and still is not: the commit that creates it takes the       *)
(* tokens along.                                                            *)
CommitFirst(q) ==
    /\ pc[q] = "commit" /\ ~sawSettings[q] /\ ~settings
    /\ CommitTokens(q)
    /\ settings' = TRUE
    /\ lock' = None
    /\ GotoFlag(q)
    /\ UNCHANGED <<worldVars, died>>
    /\ NoteCrossing

(* Somebody else has created it meanwhile: the rollback that makes up for   *)
(* the lost INSERT takes the tokens along.                                  *)
RollBack(q) ==
    /\ pc[q] = "commit" /\ ~sawSettings[q] /\ settings
    /\ lock' = None
    /\ GotoFlag(q)
    /\ UNCHANGED <<row, settings, worldVars, died>>
    /\ NoteCrossing

(* A mutated form of Flag: the commit of the flag stores the tokens once    *)
(* more, in case they were rolled back.                                     *)
FlagStoresAgain(q) ==
    /\ pc[q] = "flag"
    /\ row' = Connected(row, token[q])
    /\ End(q)
    /\ UNCHANGED <<lock, settings, worldVars, died>>
    /\ NoteCrossing

(* The commit of onboarding_storage_done, and the redirect. *)
Flag(q) ==
    /\ pc[q] = "flag"
    /\ End(q)
    /\ UNCHANGED <<rowVars, worldVars, died>>
    /\ NoteCrossing

(* Any page or notification that reads the settings. *)
CreateSettings ==
    /\ ~settings
    /\ settings' = TRUE
    /\ UNCHANGED <<row, lock, worldVars, requestVars, died>>
    /\ NoteCrossing

-----------------------------------------------------------------------------
(* POST .../disconnect *)

BeginDisconnect(q, p) ==
    /\ row # None
    /\ Begin(q, "revoke", p)
    /\ UNCHANGED <<rowVars, worldVars, died>>
    /\ NoteCrossing

google_drive_disconnect(q) == BeginDisconnect(q, "google_drive")
dropbox_disconnect(q) == BeginDisconnect(q, "dropbox")

(* Google takes either token, Dropbox the access token only. *)
Revocable(p, old) ==
    IF p = "google_drive" /\ old.refresh # None THEN old.refresh ELSE old.access

(* The revocation may fail, and fails for the other provider's token. *)
Revoke(q) ==
    /\ pc[q] = "revoke"
    /\ LET t == Revocable(wants[q], loaded[q])
       IN \/ t # None /\ t.by = wants[q] /\ live' = live \ {t}
          \/ UNCHANGED live
    /\ Goto(q, "clear")
    /\ UNCHANGED <<rowVars, consents, issued, wants, loaded, token, sawSettings, died>>
    /\ NoteCrossing

Clear(q) ==
    /\ pc[q] = "clear" /\ lock = None
    /\ row' = Changed(loaded[q], Disconnected(loaded[q]))
    /\ End(q)
    /\ UNCHANGED <<lock, settings, worldVars, died>>
    /\ NoteCrossing

-----------------------------------------------------------------------------
(* The process dies: what is not committed is rolled back. *)
Die(q) ==
    /\ pc[q] # "idle"
    /\ End(q)
    /\ lock' = IF lock = q THEN None ELSE lock
    /\ died' = TRUE
    /\ UNCHANGED <<row, settings, worldVars>>
    /\ NoteCrossing

Step(q) ==
    \/ BeginSave(q) \/ Save(q)
    \/ google_drive_callback(q) \/ dropbox_callback(q) \/ Exchange(q) \/ ExchangeFails(q) \/ Store(q)
    \/ CommitBoth(q) \/ CommitFirst(q) \/ RollBack(q) \/ Flag(q)
    \/ google_drive_disconnect(q) \/ dropbox_disconnect(q) \/ Revoke(q) \/ Clear(q)
    \/ Die(q)

Next ==
    \/ \E q \in Request : Step(q)
    \/ google_drive_authorize \/ dropbox_authorize
    \/ CreateSettings

Spec == Init /\ [][Next]_vars

-----------------------------------------------------------------------------
(* Properties *)

TokensIn(r) == IF r = None THEN {} ELSE {r.access, r.refresh} \ {None}

(* As long as no flow meets another provider, in the row or in a save that  *)
(* is under way, the row never holds tokens of a provider it does not name, *)
(* whatever saves, callbacks and disconnects overlap otherwise              *)
(* (upsert_storage_config's reset).                                         *)
TokensOfProviderUnlessCrossed ==
    ~crossed => \A g \in TokensIn(row) : g.by = row.provider

(* Unless a flow has crossed, a callback commits tokens of the provider it   *)
(* is about, and a token that has come into a column since a save loaded it  *)
(* empty, which the save will therefore keep, is of the provider that the    *)
(* save names (the columns upsert_storage_config's UPDATE leaves alone).     *)
TokensOwn == \A q \in At({"store", "commit"}) : token[q].grant.by = wants[q]

KeptIsNamed ==
    ~crossed => \A q \in At({"save"}) :
        loaded[q] # None =>
            /\ loaded[q].access  = None /\ row.access  # None => row.access.by  = wants[q]
            /\ loaded[q].refresh = None /\ row.refresh # None => row.refresh.by = wants[q]

(* The row's tokens are those of the provider it names, and nothing on its   *)
(* way into the row will change that (upsert_storage_config, the callbacks). *)
ProvidersAgree ==
    /\ TokensOfProviderUnlessCrossed
    /\ Crossing => crossed
    /\ TokensOwn
    /\ KeptIsNamed

(* A grant's tokens enter the row by the one commit of its own callback, so *)
(* no session ever writes back tokens that another has cleared or replaced  *)
(* (the callbacks, disconnects and upsert_storage_config write changed      *)
(* columns only).                                                           *)
ClearedStaysCleared ==
    [][\A g \in TokensIn(row') \ TokensIn(row) :
          \E q \in At({"commit"}) : token[q].grant = g]_vars

(* The row holds tokens of a revoked grant only while the disconnect that   *)
(* revoked it is still to clear them, unless it died before.                *)
RevokedIsForgotten ==
    ~died => \A g \in TokensIn(row) :
        g \in live \/ \E q \in Request : pc[q] = "clear" /\ g \in TokensIn(loaded[q])

(* A row stays once it is there, and who is to write to it has loaded it    *)
(* (no endpoint deletes a row; authorize and disconnect look for one).      *)
RowStays ==
    /\ consents # {} => row # None
    /\ \A q \in Request :
        /\ loaded[q] # None => row # None
        /\ pc[q] \in {"exchange", "store", "commit", "revoke", "clear"} => loaded[q] # None

Held == TokensIn(row) \cup UNION {TokensIn(loaded[q]) : q \in Request}

(* Until its callback commits, a grant is in no row, nobody but the callback *)
(* knows it, and it is not revoked (the callbacks).                         *)
TokensNew ==
    /\ \A g \in live \cup Held : g.n <= issued
    /\ \A q \in At({"store", "commit"}) :
        /\ token[q] \in Token /\ token[q].grant \in live \ Held
        /\ \A p \in At({"store", "commit"}) \ {q} : token[p].grant # token[q].grant

(* A column that had lost a grant when a session loaded the row has not got *)
(* it back since: what disconnect clears is all that is left of it (the     *)
(* sessions write changed columns only).                                    *)
ColumnsOnlyLose ==
    \A q \in Request : \A g \in TokensIn(loaded[q]) :
        /\ row.access  = g => loaded[q].access  = g
        /\ row.refresh = g => loaded[q].refresh = g

(* What holds of the row between any two statements of any requests (the    *)
(* callbacks, disconnects and upsert_storage_config).                       *)
RowConsistent == TypeOK /\ RowStays /\ TokensNew /\ ColumnsOnlyLose /\ RevokedIsForgotten
=============================================================================
