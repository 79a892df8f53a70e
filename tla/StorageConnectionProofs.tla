------------------------ MODULE StorageConnectionProofs ------------------------
(***************************************************************************)
(* The row of a storage connection, for any number of requests and grants: *)
(* what one session clears no other writes back, and the tokens of a grant *)
(* that was revoked are forgotten.                                         *)
(*                                                                         *)
(* Both come from two facts about a grant: before its callback commits it  *)
(* is in no row, and once a column has lost it, it has lost it for good.   *)
(***************************************************************************)
EXTENDS StorageConnection, TLAPS

Column == {"provider", "access", "refresh"}

(* The columns of the new row are those of the old, a token at most lost.   *)
Lost == IF row = None THEN row' = None \/ (row' \in Row /\ TokensIn(row') = {})
        ELSE /\ row' \in Row
             /\ row'.access  \in {row.access, None}
             /\ row'.refresh \in {row.refresh, None}

(* The UPDATE of a session, column by column.                               *)
LEMMA ChangedRow ==
    ASSUME row \in Row, NEW old \in Row, NEW new \in Row
    PROVE  /\ Changed(old, new) \in Row
           /\ \A c \in Column : Changed(old, new)[c] = IF new[c] = old[c] THEN row[c] ELSE new[c]
<1>1. DOMAIN row = Column
  BY DEF Row, Column
<1>2. Changed(old, new) = [provider |-> Changed(old, new)["provider"],
                           access   |-> Changed(old, new)["access"],
                           refresh  |-> Changed(old, new)["refresh"]]
  BY <1>1 DEF Changed, Column
<1>3. Changed(old, new)["provider"] \in Provider
  BY <1>1 DEF Changed, Row, Column
<1> QED
  BY <1>1, <1>2, <1>3 DEF Changed, Row, Column

(* What a session that gave no grant its columns writes loses tokens at     *)
(* most (upsert_storage_config, the disconnects).                           *)
LEMMA ChangedLoses ==
    ASSUME row \in Row, NEW old \in Row, NEW new \in Row,
           new.access \in {old.access, None}, new.refresh \in {old.refresh, None},
           row' = Changed(old, new)
    PROVE  Lost
BY ChangedRow, NoneIsNoRow DEF Lost, Column

(* Tokens that are lost are not gained.                                     *)
LEMMA LostIsFewer ==
    ASSUME TypeOK, Lost
    PROVE  /\ TokensIn(row') \subseteq TokensIn(row)
           /\ row # None => row' # None
           /\ \A g \in TokensIn(row') : /\ row'.access  = g => row.access  = g
                                        /\ row'.refresh = g => row.refresh = g
BY NoneIsNoRow DEF Lost, TokensIn, TypeOK

-----------------------------------------------------------------------------
(* The two facts about grants survive a step by which no session learns of  *)
(* a grant and no column gains one.                                         *)
LEMMA NothingLearnt ==
    ASSUME RowConsistent, Lost,
           live' \subseteq live, live \ live' \subseteq Held, issued' = issued,
           \A p \in Request : loaded'[p] = loaded[p] \/ loaded'[p] = None
                              \/ (loaded'[p] = row /\ row' = row),
           \A p \in Request : pc'[p] \in {"store", "commit"} =>
                              pc[p] \in {"store", "commit"} /\ token'[p] = token[p]
    PROVE  TokensNew' /\ ColumnsOnlyLose'
<1> USE DEF RowConsistent
<1>1. Held' \subseteq Held
  <2>1. TokensIn(row') \subseteq TokensIn(row)
    BY LostIsFewer
  <2>2. ASSUME NEW p \in Request PROVE TokensIn(loaded'[p]) \subseteq Held
    BY DEF Held, TokensIn
  <2> QED
    BY <2>1, <2>2 DEF Held
<1>2. TokensNew'
  <2>1. \A g \in live' \cup Held' : g.n <= issued'
    BY <1>1 DEF TokensNew
  <2>2. ASSUME NEW q \in Request, pc'[q] \in {"store", "commit"}
        PROVE  /\ token'[q] \in Token /\ token'[q].grant \in live' \ Held'
               /\ \A p \in Request : pc'[p] \in {"store", "commit"} /\ p # q =>
                                     token'[p].grant # token'[q].grant
    BY <1>1, <2>2 DEF TokensNew, At
  <2> QED
    BY <2>1, <2>2 DEF TokensNew, At
<1>3. ColumnsOnlyLose'
  <2>1. ASSUME NEW q \in Request, NEW g \in TokensIn(loaded'[q])
        PROVE  /\ row'.access  = g => loaded'[q].access  = g
               /\ row'.refresh = g => loaded'[q].refresh = g
    <3>1. CASE loaded'[q] = loaded[q]
      <4>1. /\ row.access  = g => loaded[q].access  = g
            /\ row.refresh = g => loaded[q].refresh = g
        BY <2>1, <3>1 DEF ColumnsOnlyLose
      <4>2. row # None /\ g # None
        BY <2>1, <3>1 DEF RowStays, TokensIn
      <4> QED
        BY <3>1, <4>1, <4>2 DEF Lost
    <3>2. CASE loaded'[q] = row /\ row' = row
      BY <3>2
    <3>3. CASE loaded'[q] = None
      BY <2>1, <3>3 DEF TokensIn
    <3> QED
      BY <3>1, <3>2, <3>3
  <2> QED
    BY <2>1 DEF ColumnsOnlyLose
<1> QED
  BY <1>2, <1>3

(* A revoked grant is still to be cleared, or gone, after a step that       *)
(* revokes none and clears none.                                            *)
LEMMA StillForgotten ==
    ASSUME RevokedIsForgotten, TokensIn(row') \subseteq TokensIn(row), live \subseteq live',
           died => died',
           \A p \in Request : pc[p] = "clear" =>
               died' \/ (pc'[p] = "clear" /\ loaded'[p] = loaded[p])
    PROVE  RevokedIsForgotten'
BY DEF RevokedIsForgotten

(* The ghost stays Boolean. *)
LEMMA CrossingIsBoolean == NoteCrossing => crossed' \in BOOLEAN
BY DEF NoteCrossing, Crossing

-----------------------------------------------------------------------------
(* A row that nobody else holds differently, not taken away.                *)
LEMMA NoRow == RowConsistent /\ row = None => \A q \in Request : loaded[q] = None
BY DEF RowConsistent, RowStays

(* A request begins and loads the row (the SELECT of the three endpoints).  *)
LEMMA BeginStep ==
    ASSUME RowConsistent, NEW q \in Request, NEW where \in {"save", "exchange", "revoke"},
           NEW p \in Provider, Begin(q, where, p), where = "save" \/ row # None, where = "exchange" => p \in OAuth,
           UNCHANGED <<rowVars, live, issued, died>>, consents' \subseteq consents, NoteCrossing
    PROVE  RowConsistent'
<1>1. TypeOK'
  BY CrossingIsBoolean DEF RowConsistent, TypeOK, Begin, rowVars
<1>2. /\ \A r \in Request : loaded'[r] = IF r = q THEN row ELSE loaded[r]
      /\ \A r \in Request : pc'[r] = IF r = q THEN where ELSE pc[r]
      /\ token' = token /\ pc[q] = "idle"
  BY DEF RowConsistent, TypeOK, Begin
<1>3. row' = row /\ live' = live /\ issued' = issued /\ died' = died
  BY DEF rowVars
<1>4. Lost
  BY <1>3 DEF Lost, TokensIn, RowConsistent, TypeOK, Row
<1>5. RowStays'
  BY <1>2, <1>3 DEF RowConsistent, RowStays
<1>6. TokensNew' /\ ColumnsOnlyLose'
  BY <1>2, <1>3, <1>4, NothingLearnt
<1>7. RevokedIsForgotten'
  BY <1>2, <1>3, StillForgotten DEF RowConsistent
<1> QED
  BY <1>1, <1>5, <1>6, <1>7 DEF RowConsistent

(* A request ends, having written nothing or something that gives no column *)
(* a grant (save, the failures of a callback, a death).                     *)
LEMMA EndStep ==
    ASSUME RowConsistent, NEW q \in Request, End(q), Lost,
           row' \in Row \cup {None}, lock' \in Request \cup {None},
           UNCHANGED <<settings, worldVars>>, NoteCrossing,
           died' \in BOOLEAN, died => died', pc[q] # "clear" \/ died'
    PROVE  RowConsistent'
<1>1. TypeOK'
  BY CrossingIsBoolean DEF RowConsistent, TypeOK, End, worldVars, Provider
<1>2. /\ \A r \in Request : loaded'[r] = IF r = q THEN None ELSE loaded[r]
      /\ \A r \in Request : pc'[r] = IF r = q THEN "idle" ELSE pc[r]
      /\ \A r \in Request : token'[r] = IF r = q THEN None ELSE token[r]
  BY DEF RowConsistent, TypeOK, End
<1>3. live' = live /\ issued' = issued /\ consents' = consents
  BY DEF worldVars
<1>4. TokensIn(row') \subseteq TokensIn(row) /\ (row # None => row' # None)
  BY LostIsFewer DEF RowConsistent
<1>5. RowStays'
  BY <1>2, <1>3, <1>4 DEF RowConsistent, RowStays
<1>6. TokensNew' /\ ColumnsOnlyLose'
  BY <1>2, <1>3, NothingLearnt
<1>7. RevokedIsForgotten'
  <2>1. CASE pc[q] = "clear"
    BY <2>1 DEF RevokedIsForgotten
  <2>2. CASE pc[q] # "clear"
    <3>1. \A p \in Request : pc[p] = "clear" => pc'[p] = "clear" /\ loaded'[p] = loaded[p]
      BY <1>2, <2>2
    <3> QED
      BY <1>3, <1>4, <3>1, StillForgotten DEF RowConsistent
  <2> QED
    BY <2>1, <2>2
<1> QED
  BY <1>1, <1>5, <1>6, <1>7 DEF RowConsistent

(* What disconnecting makes of a row. *)
LEMMA DisconnectedRow ==
    ASSUME NEW old \in Row
    PROVE  /\ Disconnected(old) \in Row
           /\ Disconnected(old).access = None /\ Disconnected(old).refresh = None
           /\ Disconnected(old).provider = old.provider
<1> DEFINE half == [old EXCEPT !.access = None]
<1>1. /\ half \in Row /\ half.access = None
      /\ half.refresh = old.refresh /\ half.provider = old.provider
  BY DEF Row
<1>2. Disconnected(old) = [half EXCEPT !.refresh = None]
  BY DEF Disconnected
<1> HIDE DEF half
<1> QED
  BY <1>1, <1>2 DEF Row

(* What naming a provider makes of it (upsert_storage_config).              *)
LEMMA SwitchedRow ==
    ASSUME NEW old \in Row, NEW p \in Provider
    PROVE  /\ Switched(old, p) \in Row
           /\ Switched(old, p).access  \in {old.access, None}
           /\ Switched(old, p).refresh \in {old.refresh, None}
<1> DEFINE clear == Disconnected(old)
<1>1. clear \in Row /\ clear.access = None /\ clear.refresh = None
  BY DisconnectedRow
<1>2. CASE old.provider # p
  <2>1. Switched(old, p) = [clear EXCEPT !.provider = p]
    BY <1>2 DEF Switched
  <2> HIDE DEF clear
  <2> QED
    BY <1>1, <2>1 DEF Row
<1>3. CASE old.provider = p
  BY <1>3 DEF Switched
<1> QED
  BY <1>2, <1>3

(* PUT /storage-config names another provider and forgets the tokens, or    *)
(* makes the row (upsert_storage_config).                                   *)
LEMMA SaveLoses ==
    ASSUME RowConsistent, NEW q \in Request, Save(q)
    PROVE  Lost /\ row' \in Row \cup {None}
<1>1. wants[q] \in Provider /\ loaded[q] \in Row \cup {None} /\ row \in Row \cup {None}
  BY DEF RowConsistent, TypeOK
<1>2. CASE loaded[q] # None
  <2> DEFINE new == Switched(loaded[q], wants[q])
  <2>1. /\ new \in Row
        /\ new.access \in {loaded[q].access, None}
        /\ new.refresh \in {loaded[q].refresh, None}
    BY <1>1, <1>2, SwitchedRow
  <2>2. row \in Row
    BY <1>1, <1>2 DEF RowConsistent, RowStays
  <2>3. row' = Changed(loaded[q], new)
    BY <1>2 DEF Save
  <2> HIDE DEF new
  <2> QED
    BY <1>1, <1>2, <2>1, <2>2, <2>3, ChangedLoses, ChangedRow
<1>3. CASE loaded[q] = None /\ row = None
  <2>1. row' = [provider |-> wants[q], access |-> None, refresh |-> None]
    BY <1>3 DEF Save
  <2> QED
    BY <1>1, <1>3, <2>1, NoneIsNoRow DEF Lost, Row, TokensIn
<1>4. CASE loaded[q] = None /\ row # None
  <2>1. row' = row
    BY <1>4 DEF Save
  <2> QED
    BY <1>1, <1>4, <2>1 DEF Lost
<1> QED
  BY <1>2, <1>3, <1>4

-----------------------------------------------------------------------------
(* The one way by which a grant enters the row: the commit of the callback  *)
(* that got it, when nobody else knows it (google_drive_callback,           *)
(* dropbox_callback).                                                       *)
LEMMA CommitStep ==
    ASSUME RowConsistent, NEW q \in Request, pc[q] = "commit", CommitTokens(q),
           UNCHANGED <<worldVars, died>>,
           \A r \in Request : loaded'[r] = IF r = q THEN None ELSE loaded[r],
           pc'[q] \in {"idle", "flag"},
           \A r \in Request : r # q => pc'[r] = pc[r] /\ token'[r] = token[r]
    PROVE  /\ row' \in Row /\ TokensIn(row') \subseteq TokensIn(row) \cup {token[q].grant}
           /\ RowStays' /\ TokensNew' /\ ColumnsOnlyLose' /\ RevokedIsForgotten'
<1> DEFINE g == token[q].grant
           new == Connected(loaded[q], token[q])
<1>1. /\ loaded[q] \in Row /\ row \in Row /\ token[q] \in Token
      /\ g \in Grant /\ g \in live \ Held /\ q \in At({"store", "commit"})
  BY DEF RowConsistent, TypeOK, RowStays, TokensNew, At, Token
<1>2. new \in Row /\ new.access = g /\ new.refresh \in {g, loaded[q].refresh}
  <2> DEFINE half == [loaded[q] EXCEPT !.access = g]
  <2>1. half \in Row /\ half.access = g /\ half.refresh = loaded[q].refresh
    BY <1>1 DEF Row
  <2>2. new = [half EXCEPT !.refresh = IF token[q].refresh THEN g ELSE half.refresh]
    BY DEF Connected
  <2> HIDE DEF half, g, new
  <2> QED
    BY <1>1, <2>1, <2>2 DEF Row
<1>3. row' = Changed(loaded[q], new)
  BY DEF CommitTokens
<1>4. live' = live /\ issued' = issued /\ consents' = consents /\ died' = died
  BY DEF worldVars
<1> HIDE DEF g, new
<1>5. row' \in Row /\ row'.access \in {row.access, g} /\ row'.refresh \in {row.refresh, g}
  BY <1>1, <1>2, <1>3, ChangedRow DEF Column
<1>6. TokensIn(row') \subseteq TokensIn(row) \cup {g}
  BY <1>1, <1>5, NoneIsNoRow DEF TokensIn
<1>7. RowStays'
  BY <1>4, <1>5, NoneIsNoRow DEF RowConsistent, RowStays
<1>8. TokensNew'
  <2>1. Held' \subseteq Held \cup {g}
    <3>1. \A r \in Request : TokensIn(loaded'[r]) \subseteq Held
      BY DEF Held, TokensIn
    <3> QED
      BY <1>6, <3>1 DEF Held
  <2>2. \A h \in live' \cup Held' : h.n <= issued'
    BY <1>1, <1>4, <2>1 DEF RowConsistent, TokensNew
  <2>3. At({"store", "commit"})' \subseteq At({"store", "commit"}) \ {q}
    BY DEF At
  <2>4. ASSUME NEW r \in At({"store", "commit"})'
        PROVE  /\ token'[r] \in Token /\ token'[r].grant \in live' \ Held'
               /\ \A p \in At({"store", "commit"})' \ {r} : token'[p].grant # token'[r].grant
    <3>1. r \in At({"store", "commit"}) /\ r # q /\ r \in Request
      BY <2>3 DEF At
    <3>2. token[r].grant # g
      BY <1>1, <3>1 DEF RowConsistent, TokensNew, g
    <3>3. token'[r] = token[r]
      BY <3>1
    <3>4. \A p \in At({"store", "commit"})' \ {r} : token'[p] = token[p] /\ p \in At({"store", "commit"}) \ {r}
      BY <2>3 DEF At
    <3> QED
      BY <1>4, <2>1, <3>1, <3>2, <3>3, <3>4 DEF RowConsistent, TokensNew
  <2> QED
    BY <2>2, <2>4 DEF TokensNew
<1>9. ColumnsOnlyLose'
  <2>1. ASSUME NEW r \in Request, NEW h \in TokensIn(loaded'[r])
        PROVE  /\ row'.access  = h => loaded'[r].access  = h
               /\ row'.refresh = h => loaded'[r].refresh = h
    <3>1. r # q /\ loaded'[r] = loaded[r]
      BY <2>1 DEF TokensIn
    <3>2. h # g
      BY <1>1, <2>1, <3>1 DEF Held
    <3>3. /\ row.access  = h => loaded[r].access  = h
          /\ row.refresh = h => loaded[r].refresh = h
      BY <2>1, <3>1 DEF RowConsistent, ColumnsOnlyLose
    <3> QED
      BY <1>5, <3>1, <3>2, <3>3
  <2> QED
    BY <2>1 DEF ColumnsOnlyLose
<1>10. RevokedIsForgotten'
  <2>1. ASSUME ~died', NEW h \in TokensIn(row')
        PROVE  h \in live' \/ \E r \in Request : pc'[r] = "clear" /\ h \in TokensIn(loaded'[r])
    <3>1. CASE h = g
      BY <1>1, <1>4, <3>1
    <3>2. CASE h \in TokensIn(row)
      <4>1. h \in live \/ \E r \in Request : pc[r] = "clear" /\ h \in TokensIn(loaded[r])
        BY <1>4, <2>1, <3>2 DEF RowConsistent, RevokedIsForgotten
      <4> QED
        BY <1>4, <4>1
    <3> QED
      BY <1>6, <2>1, <3>1, <3>2
  <2> QED
    BY <2>1 DEF RevokedIsForgotten
<1> QED
  BY <1>5, <1>6, <1>7, <1>8, <1>9, <1>10 DEF g

(* disconnect clears every column that still holds what it has loaded       *)
(* (google_drive_disconnect, dropbox_disconnect).                           *)
LEMMA ClearStep ==
    ASSUME RowConsistent, NEW q \in Request, Clear(q), NoteCrossing
    PROVE  RowConsistent' /\ Lost
<1> DEFINE new == Disconnected(loaded[q])
<1>1. loaded[q] \in Row /\ row \in Row /\ pc[q] = "clear"
  BY DEF RowConsistent, TypeOK, RowStays, Clear
<1>2. new \in Row /\ new.access = None /\ new.refresh = None
  BY <1>1, DisconnectedRow
<1>3. row' = Changed(loaded[q], new)
  BY DEF Clear
<1>4. /\ \A r \in Request : loaded'[r] = IF r = q THEN None ELSE loaded[r]
      /\ \A r \in Request : pc'[r] = IF r = q THEN "idle" ELSE pc[r]
      /\ \A r \in Request : token'[r] = IF r = q THEN None ELSE token[r]
      /\ live' = live /\ issued' = issued /\ consents' = consents /\ died' = died
  BY DEF RowConsistent, TypeOK, Clear, End, worldVars
<1> HIDE DEF new
<1>5. Lost /\ row' \in Row
  BY <1>1, <1>2, <1>3, ChangedLoses, ChangedRow
<1>6. TypeOK'
  BY <1>5, CrossingIsBoolean DEF RowConsistent, TypeOK, Clear, End, worldVars, Provider
<1>7. RowStays'
  BY <1>4, <1>5, NoneIsNoRow DEF RowConsistent, RowStays
<1>8. TokensNew' /\ ColumnsOnlyLose'
  BY <1>4, <1>5, NothingLearnt
<1>9. TokensIn(row') \cap TokensIn(loaded[q]) = {}
  <2> SUFFICES ASSUME NEW g \in TokensIn(row'), g \in TokensIn(loaded[q]) PROVE FALSE
    OBVIOUS
  <2>1. g # None /\ (row'.access = g \/ row'.refresh = g)
    BY <1>5, NoneIsNoRow DEF TokensIn
  <2>2. /\ row'.access  = IF None = loaded[q].access  THEN row.access  ELSE None
        /\ row'.refresh = IF None = loaded[q].refresh THEN row.refresh ELSE None
    BY <1>1, <1>2, <1>3, ChangedRow DEF Column
  <2>3. /\ row.access  = g => loaded[q].access  = g
        /\ row.refresh = g => loaded[q].refresh = g
    BY DEF RowConsistent, ColumnsOnlyLose
  <2> QED
    BY <2>1, <2>2, <2>3
<1>10. RevokedIsForgotten'
  <2>1. ASSUME ~died', NEW g \in TokensIn(row')
        PROVE  g \in live' \/ \E r \in Request : pc'[r] = "clear" /\ g \in TokensIn(loaded'[r])
    <3>1. g \in TokensIn(row)
      BY <1>5, LostIsFewer DEF RowConsistent
    <3>2. g \in live \/ \E r \in Request : pc[r] = "clear" /\ g \in TokensIn(loaded[r])
      BY <1>4, <2>1, <3>1 DEF RowConsistent, RevokedIsForgotten
    <3> QED
      BY <1>4, <1>9, <2>1, <3>2
  <2> QED
    BY <2>1 DEF RevokedIsForgotten
<1> QED
  BY <1>5, <1>6, <1>7, <1>8, <1>10 DEF RowConsistent

-----------------------------------------------------------------------------
(* A step that leaves the row and what sessions hold of it.                 *)
LEMMA QuietStep ==
    ASSUME RowConsistent, TypeOK', UNCHANGED <<row, live, issued, died>>,
           consents' \subseteq consents \/ row # None,
           \A r \in Request : loaded'[r] = loaded[r] \/ (loaded'[r] = None /\ pc'[r] = "flag"),
           \A r \in Request : pc[r] = "clear" => pc'[r] = "clear" /\ loaded'[r] = loaded[r],
           \A r \in Request : pc'[r] = pc[r] \/ pc'[r] = "flag"
                              \/ (pc[r] = "store" /\ pc'[r] = "commit"),
           token' = token
    PROVE  RowConsistent' /\ Lost
<1>1. Lost
  BY DEF Lost, TokensIn, RowConsistent, TypeOK, Row
<1>2. RowStays'
  BY DEF RowConsistent, RowStays
<1>3. TokensNew' /\ ColumnsOnlyLose'
  <2>1. \A r \in Request : pc'[r] \in {"store", "commit"} => pc[r] \in {"store", "commit"}
    OBVIOUS
  <2> QED
    BY <1>1, <2>1, NothingLearnt
<1>4. RevokedIsForgotten'
  BY StillForgotten DEF RowConsistent
<1> QED
  BY <1>1, <1>2, <1>3, <1>4 DEF RowConsistent

(* A grant is issued to the callback that asks for it, under a number of    *)
(* its own.                                                                 *)
LEMMA ExchangeStep ==
    ASSUME RowConsistent, NEW q \in Request, Exchange(q)
    PROVE  RowConsistent' /\ Lost
<1> DEFINE g == [by |-> wants[q], n |-> issued + 1]
<1>1. /\ pc[q] = "exchange" /\ issued \in Nat /\ issued < MaxGrants /\ issued' = issued + 1
      /\ live' = live \cup {g} /\ row' = row /\ loaded' = loaded /\ died' = died
      /\ consents' = consents
  BY ConnectionAssumption DEF RowConsistent, TypeOK, Exchange, rowVars
<1>2. PICK refresh \in BOOLEAN : token' = [token EXCEPT ![q] = [grant |-> g, refresh |-> refresh]]
  BY DEF Exchange
<1>3. wants[q] \in OAuth
  BY <1>1 DEF RowConsistent, TypeOK
<1>4. g \in Grant /\ g.n = issued + 1
  BY <1>1, <1>3, ConnectionAssumption DEF Grant
<1> HIDE DEF g
<1>5. /\ \A r \in Request : token'[r] = IF r = q THEN [grant |-> g, refresh |-> refresh] ELSE token[r]
      /\ \A r \in Request : pc'[r] = IF r = q THEN "store" ELSE pc[r]
  BY <1>2 DEF RowConsistent, TypeOK, Exchange, Goto
<1>6. TypeOK'
  <2>1. /\ lock' = lock /\ settings' = settings /\ wants' = wants /\ sawSettings' = sawSettings
        /\ NoteCrossing
    BY DEF Exchange, rowVars
  <2>2. token' \in [Request -> Token \cup {None}]
    BY <1>2, <1>4 DEF RowConsistent, TypeOK, Token
  <2>3. pc' = [pc EXCEPT ![q] = "store"]
    BY DEF Exchange, Goto
  <2>4. issued' \in 0..MaxGrants
    BY <1>1, ConnectionAssumption
  <2>5. \A r \in Request : pc'[r] = "exchange" => wants'[r] \in OAuth
    BY <1>5, <2>1 DEF RowConsistent, TypeOK
  <2> QED
    BY <1>1, <1>4, <2>1, <2>2, <2>3, <2>4, <2>5, CrossingIsBoolean DEF RowConsistent, TypeOK
<1>7. RowStays'
  BY <1>1, <1>5 DEF RowConsistent, RowStays
<1>8. g \notin live \cup Held
  BY <1>1, <1>4 DEF RowConsistent, TokensNew
<1>9. Held' = Held
  BY <1>1 DEF Held
<1>10. TokensNew'
  <2>1. \A h \in live' \cup Held' : h.n <= issued'
    <3>1. \A h \in live \cup Held : h \in Grant
      BY DEF RowConsistent, TypeOK, Held, TokensIn, Row
    <3>2. \A h \in live \cup Held : h.n \in Nat /\ h.n <= issued
      BY <3>1 DEF RowConsistent, TokensNew, Grant
    <3> QED
      BY <1>1, <1>4, <1>9, <3>2
  <2>2. At({"store", "commit"})' = At({"store", "commit"}) \cup {q}
    BY <1>5 DEF At
  <2>3. \A r \in At({"store", "commit"}) : r # q /\ token'[r] = token[r] /\ token[r].grant # g
    BY <1>1, <1>5, <1>8 DEF At, RowConsistent, TokensNew
  <2>4. token'[q] \in Token /\ token'[q].grant = g
    BY <1>4, <1>5 DEF Token
  <2>5. ASSUME NEW r \in At({"store", "commit"})'
        PROVE  /\ token'[r] \in Token /\ token'[r].grant \in live' \ Held'
               /\ \A p \in At({"store", "commit"})' \ {r} : token'[p].grant # token'[r].grant
    <3>1. CASE r = q
      BY <1>1, <1>8, <1>9, <2>2, <2>3, <2>4, <3>1
    <3>2. CASE r \in At({"store", "commit"})
      BY <1>1, <1>9, <2>2, <2>3, <2>4, <3>2 DEF RowConsistent, TokensNew
    <3> QED
      BY <2>2, <2>5, <3>1, <3>2
  <2> QED
    BY <2>1, <2>5 DEF TokensNew
<1>11. ColumnsOnlyLose'
  BY <1>1 DEF RowConsistent, ColumnsOnlyLose
<1>12. RevokedIsForgotten'
  BY <1>1, <1>5, StillForgotten DEF RowConsistent
<1>13. Lost
  BY <1>1 DEF Lost, TokensIn, RowConsistent, TypeOK, Row
<1> QED
  BY <1>6, <1>7, <1>10, <1>11, <1>12, <1>13 DEF RowConsistent

(* A disconnect revokes a grant that it has loaded, and is to clear it      *)
(* (revoke_token).                                                          *)
LEMMA RevokeStep ==
    ASSUME RowConsistent, NEW q \in Request, Revoke(q)
    PROVE  RowConsistent' /\ Lost
<1> DEFINE t == Revocable(wants[q], loaded[q])
<1>1. /\ pc[q] = "revoke" /\ row' = row /\ loaded' = loaded /\ token' = token
      /\ issued' = issued /\ consents' = consents /\ died' = died
      /\ \A r \in Request : pc'[r] = IF r = q THEN "clear" ELSE pc[r]
  BY DEF RowConsistent, TypeOK, Revoke, Goto, rowVars
<1>2. loaded[q] \in Row
  BY <1>1 DEF RowConsistent, TypeOK, RowStays
<1>3. live' = live \/ (t # None /\ live' = live \ {t})
  BY DEF Revoke
<1>4. t # None => t \in TokensIn(loaded[q])
  BY <1>2, NoneIsNoRow DEF Revocable, TokensIn
<1> HIDE DEF t
<1>5. TypeOK'
  BY <1>1, <1>3, CrossingIsBoolean DEF RowConsistent, TypeOK, Revoke, Goto, rowVars
<1>6. RowStays'
  BY <1>1 DEF RowConsistent, RowStays
<1>7. Lost
  BY <1>1 DEF Lost, TokensIn, RowConsistent, TypeOK, Row
<1>8. TokensNew' /\ ColumnsOnlyLose'
  <2>1. live' \subseteq live /\ live \ live' \subseteq Held
    BY <1>3, <1>4 DEF Held
  <2> QED
    BY <1>1, <1>7, <2>1, NothingLearnt
<1>9. RevokedIsForgotten'
  <2>1. ASSUME ~died', NEW g \in TokensIn(row')
        PROVE  g \in live' \/ \E r \in Request : pc'[r] = "clear" /\ g \in TokensIn(loaded'[r])
    <3>1. g \in live \/ \E r \in Request : pc[r] = "clear" /\ g \in TokensIn(loaded[r])
      BY <1>1, <2>1 DEF RowConsistent, RevokedIsForgotten
    <3> QED
      BY <1>1, <1>3, <1>4, <3>1
  <2> QED
    BY <2>1 DEF RevokedIsForgotten
<1> QED
  BY <1>5, <1>6, <1>7, <1>8, <1>9 DEF RowConsistent

-----------------------------------------------------------------------------
(* A step enters no grant into the row, or is the commit of its callback.   *)
Entered == \A g \in TokensIn(row') \ TokensIn(row) : \E q \in At({"commit"}) : token[q].grant = g

(* A row that only loses tokens gains none. *)
LEMMA LostEnters == ASSUME TypeOK, Lost PROVE Entered
BY LostIsFewer DEF Entered

(* There is no row at first.                                                *)
LEMMA InitRow == Init => RowConsistent
<1> SUFFICES ASSUME Init PROVE RowConsistent
  OBVIOUS
<1>1. TypeOK
  <2>1. issued \in 0..MaxGrants
    BY ConnectionAssumption DEF Init
  <2>2. wants \in [Request -> Provider] /\ consents \in SUBSET OAuth /\ live \in SUBSET Grant
    BY DEF Init, Provider
  <2>3. \A q \in Request : pc[q] = "exchange" => wants[q] \in OAuth
    BY DEF Init
  <2> QED
    BY <2>1, <2>2, <2>3 DEF Init, TypeOK
<1>2. RowStays /\ ColumnsOnlyLose /\ RevokedIsForgotten
  BY DEF Init, RowStays, ColumnsOnlyLose, RevokedIsForgotten, TokensIn
<1>3. TokensNew
  BY DEF Init, TokensNew, Held, TokensIn, At
<1> QED
  BY <1>1, <1>2, <1>3 DEF RowConsistent

(* The endpoints that load the row and wait (upsert_storage_config, the     *)
(* callbacks and the disconnects).                                          *)
LEMMA Beginnings ==
    ASSUME RowConsistent, NEW q \in Request,
           \/ BeginSave(q)
           \/ google_drive_callback(q) \/ dropbox_callback(q)
           \/ google_drive_disconnect(q) \/ dropbox_disconnect(q)
    PROVE  RowConsistent' /\ Lost
<1>1. Lost
  <2>1. row' = row
    BY DEF BeginSave, google_drive_callback, dropbox_callback, BeginCallback,
           google_drive_disconnect, dropbox_disconnect, BeginDisconnect, rowVars
  <2> QED
    BY <2>1 DEF Lost, TokensIn, RowConsistent, TypeOK, Row
<1>2. CASE BeginSave(q)
  <2>1. PICK p \in Provider : Begin(q, "save", p)
    BY <1>2 DEF BeginSave
  <2>2. UNCHANGED <<rowVars, live, issued, died>> /\ consents' \subseteq consents /\ NoteCrossing
    BY <1>2 DEF BeginSave, worldVars
  <2> QED
    BY <1>1, <2>1, <2>2, BeginStep
<1>3. ASSUME NEW p \in OAuth, BeginCallback(q, p) PROVE RowConsistent'
  <2>1. /\ Begin(q, "exchange", p) /\ row # None
        /\ UNCHANGED <<rowVars, live, issued, died>> /\ consents' \subseteq consents /\ NoteCrossing
    BY <1>3 DEF BeginCallback, RowConsistent, RowStays
  <2> QED
    BY <2>1, BeginStep DEF Provider
<1>4. ASSUME NEW p \in OAuth, BeginDisconnect(q, p) PROVE RowConsistent'
  <2>1. /\ Begin(q, "revoke", p) /\ row # None
        /\ UNCHANGED <<rowVars, live, issued, died>> /\ consents' \subseteq consents /\ NoteCrossing
    BY <1>4 DEF BeginDisconnect, worldVars
  <2> QED
    BY <2>1, BeginStep DEF Provider
<1> QED
  BY <1>1, <1>2, <1>3, <1>4
  DEF OAuth, google_drive_callback, dropbox_callback, google_drive_disconnect, dropbox_disconnect

(* A session ends without a grant for the row.                              *)
LEMMA Endings ==
    ASSUME RowConsistent, NEW q \in Request,
           Save(q) \/ ExchangeFails(q) \/ Flag(q) \/ Die(q)
    PROVE  RowConsistent' /\ Lost
<1>1. died \in BOOLEAN /\ row \in Row \cup {None} /\ lock \in Request \cup {None}
  BY DEF RowConsistent, TypeOK
<1>2. row' = row => Lost
  BY DEF Lost, TokensIn, RowConsistent, TypeOK, Row
<1>3. CASE Save(q)
  <2>1. Lost /\ row' \in Row \cup {None}
    BY <1>3, SaveLoses
  <2>2. End(q) /\ UNCHANGED <<settings, worldVars>> /\ NoteCrossing /\ pc[q] # "clear"
    BY <1>3 DEF Save
  <2>3. lock' \in Request \cup {None} /\ died' \in BOOLEAN /\ (died => died')
    BY <1>1, <1>3 DEF Save
  <2> QED
    BY <2>1, <2>2, <2>3, EndStep
<1>4. CASE ExchangeFails(q) \/ Flag(q)
  <2>1. /\ End(q) /\ UNCHANGED <<settings, worldVars>> /\ NoteCrossing /\ pc[q] # "clear"
        /\ row' = row /\ lock' = lock
    BY <1>4 DEF ExchangeFails, Flag, rowVars
  <2>2. died' \in BOOLEAN /\ (died => died')
    BY <1>1, <1>4 DEF ExchangeFails, Flag
  <2> QED
    BY <1>1, <1>2, <2>1, <2>2, EndStep
<1>5. CASE Die(q)
  <2>1. /\ End(q) /\ UNCHANGED <<settings, worldVars>> /\ NoteCrossing
        /\ row' = row /\ lock' \in Request \cup {None}
    BY <1>1, <1>5 DEF Die
  <2>2. died' \in BOOLEAN /\ (died => died') /\ (pc[q] # "clear" \/ died')
    BY <1>5 DEF Die
  <2> QED
    BY <1>1, <1>2, <2>1, <2>2, EndStep
<1> QED
  BY <1>3, <1>4, <1>5

(* The commit that brings the tokens, with the flag or with the settings    *)
(* row (mark_storage_onboarding_done).                                      *)
LEMMA Commits ==
    ASSUME RowConsistent, NEW q \in Request, CommitBoth(q) \/ CommitFirst(q)
    PROVE  RowConsistent' /\ Entered
<1>1. /\ pc[q] = "commit" /\ CommitTokens(q) /\ UNCHANGED <<worldVars, died>> /\ NoteCrossing
      /\ lock' = None /\ settings' \in {settings, TRUE}
      /\ \/ End(q)
         \/ GotoFlag(q)
  BY DEF CommitBoth, CommitFirst
<1>2. /\ \A r \in Request : loaded'[r] = IF r = q THEN None ELSE loaded[r]
      /\ pc'[q] \in {"idle", "flag"}
      /\ \A r \in Request : r # q => pc'[r] = pc[r] /\ token'[r] = token[r]
  BY <1>1 DEF RowConsistent, TypeOK, End, GotoFlag, Goto
<1>3. /\ row' \in Row /\ TokensIn(row') \subseteq TokensIn(row) \cup {token[q].grant}
      /\ RowStays' /\ TokensNew' /\ ColumnsOnlyLose' /\ RevokedIsForgotten'
  BY <1>1, <1>2, CommitStep
<1>4. TypeOK'
  BY <1>1, <1>3, CrossingIsBoolean
  DEF RowConsistent, TypeOK, End, GotoFlag, Goto, worldVars, Provider
<1>5. Entered
  BY <1>1, <1>3 DEF Entered, At
<1> QED
  BY <1>3, <1>4, <1>5 DEF RowConsistent

(* What stays with the row as it is.                                        *)
LEMMA Rests ==
    ASSUME RowConsistent,
           \/ \E q \in Request : Store(q) \/ RollBack(q)
           \/ google_drive_authorize \/ dropbox_authorize \/ CreateSettings \/ UNCHANGED vars
    PROVE  RowConsistent' /\ Lost
<1>1. CASE \E q \in Request : Store(q)
  <2>1. PICK q \in Request : Store(q)
    BY <1>1
  <2>2. TypeOK'
    BY <2>1, CrossingIsBoolean DEF RowConsistent, TypeOK, Store, Goto, worldVars
  <2>3. /\ UNCHANGED <<row, live, issued, died>> /\ consents' = consents /\ token' = token
        /\ loaded' = loaded
        /\ pc[q] = "store" /\ \A r \in Request : pc'[r] = IF r = q THEN "commit" ELSE pc[r]
    BY <2>1 DEF RowConsistent, TypeOK, Store, Goto, worldVars
  <2> QED
    BY <2>2, <2>3, QuietStep
<1>2. CASE \E q \in Request : RollBack(q)
  <2>1. PICK q \in Request : RollBack(q)
    BY <1>2
  <2>2. TypeOK'
    BY <2>1, CrossingIsBoolean DEF RowConsistent, TypeOK, RollBack, GotoFlag, Goto, worldVars
  <2>3. /\ UNCHANGED <<row, live, issued, died>> /\ consents' = consents /\ token' = token
        /\ pc[q] = "commit" /\ \A r \in Request : pc'[r] = IF r = q THEN "flag" ELSE pc[r]
        /\ \A r \in Request : loaded'[r] = IF r = q THEN None ELSE loaded[r]
    BY <2>1 DEF RowConsistent, TypeOK, RollBack, GotoFlag, Goto, worldVars
  <2> QED
    BY <2>2, <2>3, QuietStep
<1>3. CASE google_drive_authorize \/ dropbox_authorize
  <2>1. PICK p \in OAuth : Authorize(p)
    BY <1>3 DEF google_drive_authorize, dropbox_authorize, OAuth
  <2>2. TypeOK'
    BY <2>1, CrossingIsBoolean DEF RowConsistent, TypeOK, Authorize, rowVars, requestVars
  <2>3. /\ row # None /\ UNCHANGED <<row, live, issued, died>> /\ token' = token
        /\ loaded' = loaded /\ pc' = pc
    BY <2>1 DEF Authorize, rowVars, requestVars
  <2> QED
    BY <2>2, <2>3, QuietStep
<1>4. CASE CreateSettings \/ UNCHANGED vars
  <2>1. TypeOK'
    BY <1>4, CrossingIsBoolean
    DEF RowConsistent, TypeOK, CreateSettings, vars, rowVars, worldVars, requestVars
  <2>2. /\ UNCHANGED <<row, live, issued, died>> /\ token' = token /\ consents' = consents
        /\ loaded' = loaded /\ pc' = pc
    BY <1>4 DEF CreateSettings, vars, rowVars, worldVars, requestVars
  <2> QED
    BY <2>1, <2>2, QuietStep
<1> QED
  BY <1>1, <1>2, <1>3, <1>4

(* Every step keeps the invariant and enters grants by their commit only.   *)
LEMMA NextRow == RowConsistent /\ [Next]_vars => RowConsistent' /\ Entered
<1> SUFFICES ASSUME RowConsistent, [Next]_vars PROVE RowConsistent' /\ Entered
  OBVIOUS
<1>1. TypeOK
  BY DEF RowConsistent
<1>2. ASSUME NEW q \in Request, Clear(q) PROVE RowConsistent' /\ Lost
  BY <1>2, ClearStep DEF Clear
<1>3. ASSUME NEW q \in Request, Step(q) PROVE RowConsistent' /\ Entered
  BY <1>1, <1>2, <1>3, Beginnings, Endings, ExchangeStep, RevokeStep, Commits, Rests, LostEnters
  DEF Step
<1> QED
  BY <1>1, <1>3, Rests, LostEnters DEF Next

(* The row is consistent between any two statements of any requests: the    *)
(* tokens of a revoked grant are on their way out, a grant that its         *)
(* callback has not committed is known to nobody (storage_config.py,        *)
(* google_drive_auth.py, dropbox_auth.py).                                  *)
THEOREM RowIsConsistent == Spec => []RowConsistent
BY InitRow, NextRow, PTL DEF Spec

(* The tokens of a grant that was revoked are forgotten by the disconnect   *)
(* that revoked it, whatever callbacks and saves overlap with it.           *)
THEOREM RevokedForgotten == Spec => []RevokedIsForgotten
<1>1. RowConsistent => RevokedIsForgotten
  BY DEF RowConsistent
<1> QED
  BY <1>1, RowIsConsistent, PTL

(* No session writes back tokens that another has cleared or replaced.      *)
THEOREM ClearedForGood == Spec => ClearedStaysCleared
<1>1. RowConsistent /\ [Next]_vars =>
        [\A g \in TokensIn(row') \ TokensIn(row) : \E q \in At({"commit"}) : token[q].grant = g]_vars
  BY NextRow DEF Entered
<1> QED
  BY <1>1, RowIsConsistent, PTL DEF Spec, ClearedStaysCleared

-----------------------------------------------------------------------------
(* A token that a callback holds is of the provider it asked (the exchange). *)
LEMMA TokensStayOwn ==
    ASSUME RowConsistent, TokensOwn, [Next]_vars
    PROVE  TokensOwn'
<1>1. ASSUME NEW q \in Request, pc'[q] \in {"store", "commit"}
      PROVE  \/ pc[q] \in {"store", "commit"} /\ token'[q] = token[q] /\ wants'[q] = wants[q]
             \/ token'[q].grant.by = wants'[q]
  <2>1. CASE UNCHANGED vars
    BY <1>1, <2>1 DEF vars, requestVars
  <2>2. CASE google_drive_authorize \/ dropbox_authorize \/ CreateSettings
    BY <1>1, <2>2 DEF google_drive_authorize, dropbox_authorize, Authorize, CreateSettings, requestVars
  <2>3. ASSUME NEW r \in Request, Step(r)
        PROVE  \/ pc[q] \in {"store", "commit"} /\ token'[q] = token[q] /\ wants'[q] = wants[q]
               \/ token'[q].grant.by = wants'[q]
    <3>1. CASE BeginSave(r) \/ google_drive_callback(r) \/ dropbox_callback(r)
               \/ google_drive_disconnect(r) \/ dropbox_disconnect(r)
      BY <1>1, <3>1
      DEF RowConsistent, TypeOK, BeginSave, google_drive_callback, dropbox_callback, BeginCallback,
          google_drive_disconnect, dropbox_disconnect, BeginDisconnect, Begin
    <3>2. CASE Save(r) \/ ExchangeFails(r) \/ CommitBoth(r) \/ Flag(r) \/ Clear(r) \/ Die(r)
      BY <1>1, <3>2
      DEF RowConsistent, TypeOK, Save, ExchangeFails, CommitBoth, Flag, Clear, Die, End
    <3>3. CASE CommitFirst(r) \/ RollBack(r)
      BY <1>1, <3>3 DEF RowConsistent, TypeOK, CommitFirst, RollBack, GotoFlag, Goto
    <3>4. CASE Store(r) \/ Revoke(r)
      BY <1>1, <3>4 DEF RowConsistent, TypeOK, Store, Revoke, Goto
    <3>5. CASE Exchange(r)
      BY <1>1, <3>5 DEF RowConsistent, TypeOK, Exchange, Goto
    <3> QED
      BY <2>3, <3>1, <3>2, <3>3, <3>4, <3>5 DEF Step
  <2> QED
    BY <2>1, <2>2, <2>3 DEF Next
<1> QED
  BY <1>1 DEF TokensOwn, At

(* A save that is under way has loaded the row as it is, or stays as it was. *)
LEMMA SavesStay ==
    ASSUME RowConsistent, [Next]_vars, NEW q \in Request, pc'[q] = "save"
    PROVE  \/ pc[q] = "save" /\ loaded'[q] = loaded[q] /\ wants'[q] = wants[q]
           \/ loaded'[q] = row /\ row' = row
<1>1. CASE UNCHANGED vars
  BY <1>1 DEF vars, requestVars
<1>2. CASE google_drive_authorize \/ dropbox_authorize \/ CreateSettings
  BY <1>2 DEF google_drive_authorize, dropbox_authorize, Authorize, CreateSettings, requestVars
<1>3. ASSUME NEW r \in Request, Step(r)
      PROVE  \/ pc[q] = "save" /\ loaded'[q] = loaded[q] /\ wants'[q] = wants[q]
             \/ loaded'[q] = row /\ row' = row
  <2>1. CASE BeginSave(r) \/ google_drive_callback(r) \/ dropbox_callback(r)
             \/ google_drive_disconnect(r) \/ dropbox_disconnect(r)
    BY <2>1
    DEF RowConsistent, TypeOK, BeginSave, google_drive_callback, dropbox_callback, BeginCallback,
        google_drive_disconnect, dropbox_disconnect, BeginDisconnect, Begin, rowVars
  <2>2. CASE Save(r) \/ ExchangeFails(r) \/ CommitBoth(r) \/ Flag(r) \/ Clear(r) \/ Die(r)
    BY <2>2 DEF RowConsistent, TypeOK, Save, ExchangeFails, CommitBoth, Flag, Clear, Die, End
  <2>3. CASE CommitFirst(r) \/ RollBack(r)
    BY <2>3 DEF RowConsistent, TypeOK, CommitFirst, RollBack, GotoFlag, Goto
  <2>4. CASE Store(r) \/ Revoke(r) \/ Exchange(r)
    BY <2>4 DEF RowConsistent, TypeOK, Store, Revoke, Exchange, Goto
  <2> QED
    BY <1>3, <2>1, <2>2, <2>3, <2>4 DEF Step
<1> QED
  BY <1>1, <1>2, <1>3 DEF Next

(* The row only loses tokens under its provider's name, is saved, or gains   *)
(* the grant of a callback.                                                  *)
Keeps == row # None => row' # None /\ row'.provider = row.provider

Gains(q) ==
    /\ Keeps /\ row \in Row /\ row' \in Row
    /\ row'.access  \in {row.access, token[q].grant}
    /\ row'.refresh \in {row.refresh, token[q].grant}

(* Clearing the columns keeps the name (the disconnects). *)
LEMMA ClearKeeps ==
    ASSUME RowConsistent, NEW q \in Request, Clear(q)
    PROVE  Keeps
<1>1. loaded[q] \in Row /\ row \in Row
  BY DEF RowConsistent, TypeOK, RowStays, Clear
<1>2. Disconnected(loaded[q]) \in Row /\ Disconnected(loaded[q]).provider = loaded[q].provider
  BY <1>1, DisconnectedRow
<1>3. row' = Changed(loaded[q], Disconnected(loaded[q]))
  BY DEF Clear
<1> QED
  BY <1>1, <1>2, <1>3, ChangedRow, NoneIsNoRow DEF Keeps, Column

(* A callback brings its own grant, under the name that is there.            *)
LEMMA CommitGains ==
    ASSUME RowConsistent, NEW q \in Request, pc[q] = "commit", CommitTokens(q)
    PROVE  Gains(q)
<1> DEFINE g == token[q].grant
           half == [loaded[q] EXCEPT !.access = g]
           new == Connected(loaded[q], token[q])
<1>1. loaded[q] \in Row /\ row \in Row /\ g \in Grant
  BY DEF RowConsistent, TypeOK, RowStays, TokensNew, At, Token
<1>2. /\ half \in Row /\ half.access = g /\ half.refresh = loaded[q].refresh
      /\ half.provider = loaded[q].provider
  BY <1>1 DEF Row
<1>3. new = [half EXCEPT !.refresh = IF token[q].refresh THEN g ELSE half.refresh]
  BY DEF Connected
<1>4. row' = Changed(loaded[q], new)
  BY DEF CommitTokens
<1> HIDE DEF g, half, new
<1>5. /\ new \in Row /\ new.access = g /\ new.refresh \in {g, loaded[q].refresh}
      /\ new.provider = loaded[q].provider
  BY <1>1, <1>2, <1>3 DEF Row
<1>6. row' \in Row /\ row'.access \in {row.access, g} /\ row'.refresh \in {row.refresh, g}
      /\ row'.provider = row.provider
  BY <1>1, <1>4, <1>5, ChangedRow DEF Column
<1> QED
  BY <1>1, <1>6, NoneIsNoRow DEF Gains, Keeps, g

(* What a step can do to the row. *)
LEMMA RowSteps ==
    ASSUME RowConsistent, [Next]_vars
    PROVE  \/ (Lost /\ Keeps)
           \/ \E q \in Request : Save(q)
           \/ \E q \in At({"commit"}) : Gains(q)
<1>1. row' = row => Lost /\ Keeps
  BY DEF Lost, Keeps, TokensIn, RowConsistent, TypeOK, Row
<1>2. CASE UNCHANGED vars \/ google_drive_authorize \/ dropbox_authorize \/ CreateSettings
  BY <1>1, <1>2
  DEF vars, google_drive_authorize, dropbox_authorize, Authorize, CreateSettings, rowVars
<1>3. ASSUME NEW q \in Request, Step(q)
      PROVE  (Lost /\ Keeps) \/ Save(q) \/ (q \in At({"commit"}) /\ Gains(q))
  <2>1. CASE BeginSave(q) \/ google_drive_callback(q) \/ dropbox_callback(q)
             \/ google_drive_disconnect(q) \/ dropbox_disconnect(q)
    BY <1>1, <2>1
    DEF BeginSave, google_drive_callback, dropbox_callback, BeginCallback,
        google_drive_disconnect, dropbox_disconnect, BeginDisconnect, rowVars
  <2>2. CASE Exchange(q) \/ ExchangeFails(q) \/ Store(q) \/ RollBack(q) \/ Flag(q) \/ Revoke(q) \/ Die(q)
    BY <1>1, <2>2 DEF Exchange, ExchangeFails, Store, RollBack, Flag, Revoke, Die, rowVars
  <2>3. CASE CommitBoth(q) \/ CommitFirst(q)
    BY <2>3, CommitGains DEF CommitBoth, CommitFirst, At
  <2>4. CASE Clear(q)
    BY <2>4, ClearKeeps, ClearStep DEF Clear
  <2> QED
    BY <1>3, <2>1, <2>2, <2>3, <2>4 DEF Step
<1> QED
  BY <1>2, <1>3 DEF Next

(* What a save leaves of the row: it changes nothing, makes the row, or      *)
(* names another provider and keeps the columns that it loaded empty         *)
(* (upsert_storage_config).                                                  *)
LEMMA SaveSwitches ==
    ASSUME RowConsistent, NEW q \in Request, Save(q)
    PROVE  \/ row' = row
           \/ row' \in Row /\ row'.access = None /\ row'.refresh = None
           \/ /\ loaded[q] \in Row /\ row \in Row /\ row' \in Row
              /\ row'.provider = wants[q]
              /\ row'.access  = IF loaded[q].access  = None THEN row.access  ELSE None
              /\ row'.refresh = IF loaded[q].refresh = None THEN row.refresh ELSE None
<1>1. wants[q] \in Provider /\ loaded[q] \in Row \cup {None} /\ row \in Row \cup {None}
  BY DEF RowConsistent, TypeOK
<1>2. CASE loaded[q] # None
  <2> DEFINE clear == Disconnected(loaded[q])
             new == Switched(loaded[q], wants[q])
  <2>1. loaded[q] \in Row /\ row \in Row /\ row' = Changed(loaded[q], new)
    BY <1>1, <1>2 DEF RowConsistent, RowStays, Save
  <2>2. clear \in Row /\ clear.access = None /\ clear.refresh = None
    BY <2>1, DisconnectedRow
  <2>3. CASE loaded[q].provider = wants[q]
    <3>1. new = loaded[q]
      BY <2>3 DEF Switched
    <3>2. row' = [c \in DOMAIN row |-> row[c]]
      BY <2>1, <3>1 DEF Changed
    <3> QED
      BY <2>1, <3>2 DEF Row
  <2>4. CASE loaded[q].provider # wants[q]
    <3>1. new = [clear EXCEPT !.provider = wants[q]]
      BY <2>4 DEF Switched
    <3> HIDE DEF clear, new
    <3>2. new \in Row /\ new.provider = wants[q] /\ new.access = None /\ new.refresh = None
      BY <1>1, <2>2, <3>1 DEF Row
    <3> QED
      BY <2>1, <2>4, <3>2, ChangedRow DEF Column
  <2> QED
    BY <2>3, <2>4
<1>3. CASE loaded[q] = None /\ row = None
  <2>1. row' = [provider |-> wants[q], access |-> None, refresh |-> None]
    BY <1>3 DEF Save
  <2> QED
    BY <1>1, <2>1 DEF Row
<1>4. CASE loaded[q] = None /\ row # None
  BY <1>4 DEF Save
<1> QED
  BY <1>2, <1>3, <1>4

(* A token that a save will keep is of the provider that the save names: a   *)
(* callback that brought another would have crossed the save.                *)
LEMMA StillNamed ==
    ASSUME RowConsistent, ProvidersAgree, [Next]_vars
    PROVE  KeptIsNamed'
<1>1. crossed => crossed'
  BY DEF Next, Step, BeginSave, Save, google_drive_authorize, dropbox_authorize, Authorize,
         google_drive_callback, dropbox_callback, BeginCallback, Exchange, ExchangeFails, Store,
         CommitBoth, CommitFirst, RollBack, Flag, CreateSettings, google_drive_disconnect,
         dropbox_disconnect, BeginDisconnect, Revoke, Clear, Die, NoteCrossing, vars
<1> SUFFICES ASSUME ~crossed', NEW q \in Request, pc'[q] = "save", loaded'[q] # None
             PROVE  /\ loaded'[q].access  = None /\ row'.access  # None => row'.access.by  = wants'[q]
                    /\ loaded'[q].refresh = None /\ row'.refresh # None => row'.refresh.by = wants'[q]
  BY DEF KeptIsNamed, At
<1>2. CASE loaded'[q] = row /\ row' = row
  BY <1>2
<1>3. CASE pc[q] = "save" /\ loaded'[q] = loaded[q] /\ wants'[q] = wants[q]
  <2>1. row \in Row
    BY <1>3 DEF RowConsistent, TypeOK, RowStays
  <2>2. /\ loaded[q].access  = None /\ row.access  # None => row.access.by  = wants[q]
        /\ loaded[q].refresh = None /\ row.refresh # None => row.refresh.by = wants[q]
    BY <1>1, <1>3 DEF ProvidersAgree, KeptIsNamed, At
  <2>3. CASE Lost
    BY <1>3, <2>1, <2>2, <2>3, NoneIsNoRow DEF Lost
  <2>4. CASE \E r \in Request : Save(r)
    <3>1. PICK r \in Request : Save(r)
      BY <2>4
    <3>2. Lost
      BY <3>1, SaveLoses
    <3> QED
      BY <1>3, <2>1, <2>2, <3>2, NoneIsNoRow DEF Lost
  <2>5. CASE \E r \in At({"commit"}) : Gains(r)
    <3>1. PICK r \in At({"commit"}) : Gains(r)
      BY <2>5
    <3>2. wants[r] \in Flows /\ wants[q] \in Named
      BY <1>3, <3>1 DEF Flows, Named, At
    <3>3. wants[r] = wants[q]
      BY <1>1, <3>2 DEF ProvidersAgree, Crossing
    <3>4. token[r].grant.by = wants[q]
      BY <3>1, <3>3 DEF ProvidersAgree, TokensOwn, At
    <3> QED
      BY <1>3, <2>2, <3>1, <3>4 DEF Gains
  <2> QED
    BY <2>3, <2>4, <2>5, RowSteps
<1> QED
  BY <1>2, <1>3, SavesStay

(* The tokens in the row are of the provider it names, after every step.     *)
LEMMA StillOfProvider ==
    ASSUME RowConsistent, ProvidersAgree, [Next]_vars, ~crossed, ~crossed'
    PROVE  \A g \in TokensIn(row') : g.by = row'.provider
<1>1. \A g \in TokensIn(row) : g.by = row.provider
  BY DEF ProvidersAgree, TokensOfProviderUnlessCrossed
<1>2. CASE Lost /\ Keeps
  <2>1. CASE row = None
    BY <1>2, <2>1 DEF Lost, TokensIn
  <2>2. CASE row # None
    <3>1. TokensIn(row') \subseteq TokensIn(row) /\ row'.provider = row.provider
      BY <1>2, <2>2, LostIsFewer DEF RowConsistent, Keeps
    <3> QED
      BY <1>1, <3>1
  <2> QED
    BY <2>1, <2>2
<1>3. ASSUME NEW q \in Request, Save(q)
      PROVE  \A g \in TokensIn(row') : g.by = row'.provider
  <2>1. CASE row' = row
    BY <1>1, <2>1
  <2>2. CASE row'.access = None /\ row'.refresh = None
    BY <2>2 DEF TokensIn
  <2>3. CASE /\ loaded[q] \in Row /\ row \in Row /\ row' \in Row
             /\ row'.provider = wants[q]
             /\ row'.access  = IF loaded[q].access  = None THEN row.access  ELSE None
             /\ row'.refresh = IF loaded[q].refresh = None THEN row.refresh ELSE None
    <3>1. pc[q] = "save" /\ loaded[q] # None
      BY <1>3, <2>3, NoneIsNoRow DEF Save
    <3>2. /\ loaded[q].access  = None /\ row.access  # None => row.access.by  = wants[q]
          /\ loaded[q].refresh = None /\ row.refresh # None => row.refresh.by = wants[q]
      BY <3>1 DEF ProvidersAgree, KeptIsNamed, At
    <3> QED
      BY <2>3, <3>2 DEF TokensIn
  <2> QED
    BY <1>3, <2>1, <2>2, <2>3, SaveSwitches
<1>4. ASSUME NEW q \in At({"commit"}), Gains(q)
      PROVE  \A g \in TokensIn(row') : g.by = row'.provider
  <2>1. row # None /\ row \in Row /\ row'.provider = row.provider
    BY <1>4, NoneIsNoRow DEF Gains, Keeps
  <2>2. wants[q] \in Flows /\ row.provider \in Named
    BY <2>1 DEF Flows, Named, At
  <2>3. wants[q] = row.provider
    BY <2>2 DEF ProvidersAgree, Crossing
  <2>4. token[q].grant.by = row.provider
    BY <2>3 DEF ProvidersAgree, TokensOwn, At
  <2>5. TokensIn(row') \subseteq TokensIn(row) \cup {token[q].grant}
    BY <1>4, <2>1 DEF Gains, TokensIn
  <2> QED
    BY <1>1, <2>1, <2>4, <2>5
<1> QED
  BY <1>2, <1>3, <1>4, RowSteps

(* Every step keeps the providers in agreement. *)
LEMMA NextAgrees == RowConsistent /\ ProvidersAgree /\ [Next]_vars => ProvidersAgree'
<1> SUFFICES ASSUME RowConsistent, ProvidersAgree, [Next]_vars PROVE ProvidersAgree'
  OBVIOUS
<1>1. NoteCrossing \/ UNCHANGED vars
  BY DEF Next, Step, BeginSave, Save, google_drive_authorize, dropbox_authorize, Authorize,
         google_drive_callback, dropbox_callback, BeginCallback, Exchange, ExchangeFails, Store,
         CommitBoth, CommitFirst, RollBack, Flag, CreateSettings, google_drive_disconnect,
         dropbox_disconnect, BeginDisconnect, Revoke, Clear, Die
<1>2. (crossed => crossed') /\ (Crossing' => crossed')
  <2>1. CASE NoteCrossing
    BY <2>1 DEF NoteCrossing
  <2>2. CASE UNCHANGED vars
    BY <2>2 DEF ProvidersAgree, vars, rowVars, worldVars, requestVars, Crossing, Flows, Named, At
  <2> QED
    BY <1>1, <2>1, <2>2
<1>3. TokensOfProviderUnlessCrossed'
  BY <1>2, StillOfProvider DEF TokensOfProviderUnlessCrossed
<1>4. TokensOwn' /\ KeptIsNamed'
  BY TokensStayOwn, StillNamed DEF ProvidersAgree
<1> QED
  BY <1>2, <1>3, <1>4 DEF ProvidersAgree

(* As long as no flow meets another provider, in the row or in a save, the   *)
(* row holds no tokens of a provider that it does not name                   *)
(* (upsert_storage_config's reset).                                          *)
THEOREM TokensOfTheProvider == Spec => []ProvidersAgree
<1>1. Init => ProvidersAgree
  BY DEF Init, ProvidersAgree, TokensOfProviderUnlessCrossed, TokensOwn, KeptIsNamed, TokensIn,
         Crossing, Flows, Named, At
<1> QED
  BY <1>1, NextAgrees, RowIsConsistent, PTL DEF Spec
=============================================================================
