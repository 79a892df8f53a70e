------------------------- MODULE ProviderSessionProofs -------------------------
(***************************************************************************)
(* The requests of a provider object keep the token they get, and          *)
(* Dropbox's retry sends it: for every number of tokens, every order of    *)
(* expiries, rejections and failing refreshes.                             *)
(***************************************************************************)
EXTENDS ProviderSession, TLAPS

(* The row's token is the first: the invariant holds before any request.    *)
LEMMA InitInv == Init => IInv
BY SessionAssumption DEF Init, IInv, TypeOK, Token, Expiry, Ended, HasNewToken

(* A refresh that succeeds yields a token newer than all that were issued   *)
(* (_refresh_access_token).                                                 *)
LEMMA RefreshedIsNew ==
    ASSUME IInv, Refreshed
    PROVE  /\ access' \in Token /\ access' > issued
           /\ issued' \in Token /\ issued' > issued
           /\ valid' \in SUBSET Token /\ expiry' \in Expiry
BY SessionAssumption DEF IInv, TypeOK, Refreshed, Token

(* Attaching the headers, to the request or to its retry, keeps the         *)
(* invariant, whichever dictionary wins (_auth_headers).                    *)
LEMMA AttachInv == IInv /\ Attach => IInv'
<1> SUFFICES ASSUME IInv, Attach PROVE IInv'
  OBVIOUS
<1>1. CASE pc' = "send"
  <2>1. access' \in Token /\ issued' \in Token /\ issued' >= issued
        /\ valid' \in SUBSET Token /\ expiry' \in Expiry
    <3>1. CASE Refreshed
      BY <3>1, RefreshedIsNew DEF IInv, TypeOK, Token
    <3>2. CASE TokenIsFresh /\ NotRefreshed
      BY <3>2 DEF TokenIsFresh, NotRefreshed, IInv, TypeOK, Token
    <3> QED
      BY <1>1, <3>1, <3>2 DEF Attach, AuthHeaders, RefreshFails
  <2>2. header' = access' /\ UNCHANGED <<backend, refresh, before>>
    BY <1>1 DEF IInv, Attach, AuthHeaders, MergedHeaders, RefreshFails
  <2> QED
    BY <1>1, <2>1, <2>2, SessionAssumption DEF IInv, TypeOK, Token, HasNewToken
<1>2. CASE RefreshFails /\ UNCHANGED <<backend, refresh, before>>
  BY <1>2 DEF RefreshFails, NotRefreshed, IInv, TypeOK, Ended, Token, HasNewToken
<1> QED
  BY <1>1, <1>2 DEF Attach, AuthHeaders

(* The retry's headers: Dropbox's carry what the object holds.              *)
LEMMA ReattachInv == IInv /\ Reattach => IInv'
<1> SUFFICES ASSUME IInv, Reattach PROVE IInv'
  OBVIOUS
<1>1. CASE pc' = "resend"
  <2>1. HasNewToken(access)
    BY DEF IInv, Reattach, AuthHeaders
  <2>2. /\ access' \in Token /\ access' > before
        /\ issued' \in Token /\ issued' >= issued
        /\ valid' \in SUBSET Token /\ expiry' \in Expiry
    <3>1. CASE NotRefreshed
      BY <2>1, <3>1 DEF NotRefreshed, IInv, TypeOK, Token, HasNewToken
    <3>2. CASE Refreshed
      BY <3>2, RefreshedIsNew DEF IInv, TypeOK, Token
    <3> QED
      BY <1>1, <3>1, <3>2 DEF Reattach, AuthHeaders, RefreshFails
  <2>3. header' = MergedHeaders(header, access') /\ UNCHANGED <<backend, refresh, before>>
    BY <1>1 DEF Reattach, AuthHeaders, RefreshFails
  <2>4. header \in Token
    BY DEF IInv, TypeOK, Reattach, AuthHeaders, Ended
  <2>5. header' \in Token
    BY <2>2, <2>3, <2>4 DEF MergedHeaders
  <2>6. backend = "dropbox" => header' = access'
    BY <2>3 DEF MergedHeaders
  <2> QED
    BY <1>1, <2>2, <2>3, <2>5, <2>6, SessionAssumption DEF IInv, TypeOK, Token, HasNewToken
<1>2. CASE RefreshFails /\ UNCHANGED <<backend, refresh, before>>
  BY <1>2 DEF RefreshFails, NotRefreshed, IInv, TypeOK, Ended, Token, HasNewToken
<1> QED
  BY <1>1, <1>2 DEF Reattach, AuthHeaders

(* A refresh after a 401 comes whatever the clock says, and is kept.        *)
LEMMA RefreshRefusedInv == IInv /\ RefreshRefused => IInv'
<1> SUFFICES ASSUME IInv, RefreshRefused PROVE IInv'
  OBVIOUS
<1>1. CASE Refreshed /\ pc' = "reauth" /\ UNCHANGED header
  BY <1>1, RefreshedIsNew, SessionAssumption
     DEF RefreshRefused, IInv, TypeOK, Token, Ended, HasNewToken
<1>2. CASE RefreshFails
  BY <1>2 DEF RefreshRefused, RefreshFails, NotRefreshed, IInv, TypeOK, Ended, Token, HasNewToken
<1> QED
  BY <1>1, <1>2 DEF RefreshRefused

(* No step of the object, of the clock or of the provider breaks it.        *)
LEMMA NextInv == IInv /\ [Next]_vars => IInv'
<1> SUFFICES ASSUME IInv, [Next]_vars PROVE IInv'
  OBVIOUS
<1> USE DEF IInv, TypeOK, Token, Ended, HasNewToken, sessionVars, worldVars
<1>1. CASE Begin
  BY <1>1 DEF Begin
<1>2. CASE Attach
  BY <1>2, AttachInv
<1>3. CASE \E outcome \in {"answered", "error"} : Answer(outcome)
  BY <1>3 DEF Answer
<1>4. CASE Refuse
  BY <1>4 DEF Refuse
<1>5. CASE RefreshRefused
  BY <1>5, RefreshRefusedInv
<1>6. CASE Reattach
  BY <1>6, ReattachInv
<1>7. CASE RefuseAgain
  BY <1>7 DEF RefuseAgain
<1>8. CASE TimePasses
  BY <1>8 DEF TimePasses, Expiry
<1>9. CASE \E t \in Token : Reject(t)
  BY <1>9 DEF Reject
<1>10. CASE UNCHANGED vars
  BY <1>10 DEF vars
<1> QED
  BY <1>1, <1>2, <1>3, <1>4, <1>5, <1>6, <1>7, <1>8, <1>9, <1>10 DEF Next, Serve

(* The invariant holds in every state of every provider object.             *)
THEOREM SessionInvariance == Spec => []IInv
BY InitInv, NextInv, PTL DEF Spec

(* The fields of a provider object and its request keep their types.        *)
THEOREM SessionTypeCorrect == Spec => []TypeOK
<1>1. IInv => TypeOK
  BY DEF IInv
<1> QED
  BY <1>1, SessionInvariance, PTL

(* Dropbox's request fails with a 401 only after a token issued for it was  *)
(* refused (_raw_request of dropbox.py).                                    *)
THEOREM DropboxRetries == Spec => []DropboxRetryUsesRefreshed
<1>1. IInv => DropboxRetryUsesRefreshed
  BY DEF IInv, DropboxRetryUsesRefreshed, RetryUsesRefreshed, HasNewToken
<1> QED
  BY <1>1, SessionInvariance, PTL

(* After a request that failed with a 401, with either backend, the object  *)
(* holds a token newer than those the request began with.                   *)
THEOREM TokenKept == Spec => []NewTokenIsKept
<1>1. IInv => NewTokenIsKept
  BY DEF IInv, NewTokenIsKept, HasNewToken
<1> QED
  BY <1>1, SessionInvariance, PTL
=============================================================================
