--------------------------- MODULE EventStoreProofs ---------------------------
(***************************************************************************)
(* Events change only as their owners ask, the bulk endpoints report what  *)
(* they did, and a reader that follows the pages of a list while nothing   *)
(* changes sees all of it: for any users, ids, keys, requests, runs, lists *)
(* and sizes of a page.                                                    *)
(***************************************************************************)
EXTENDS EventStore, FiniteSetTheorems, SequenceTheorems, TLAPS

(* What each step promises of the rows. *)
AsAsked == NothingComesBack /\ ReviewedStays /\ OthersUntouched

(* A write that gives no row another owner and no used id a new row leaves  *)
(* every request with a row of its user's (get_owned_event).                *)
LEMMA OwnersPersist ==
    ASSUME IInv,
           NEW q \in Request, req'[q] = req[q],
           used \in SUBSET used',
           \A i \in used : rows'[i] # None =>
               rows[i] # None /\ rows'[i].owner = rows[i].owner
    PROVE  HoldsOwn(q)'
BY DEF IInv, RequestsHoldOwn, HoldsOwn

(* A request that has loaded nothing holds nothing.                         *)
LEMMA NothingHeld ==
    ASSUME NEW q \in Request, req'[q] = Idle \/ req'[q] \in Answer
    PROVE  HoldsOwn(q)'
BY DEF HoldsOwn, Idle, Answer, Single

(* The table is empty at first and nobody has read it.                      *)
LEMMA InitStore == Init => IInv
<1> SUFFICES ASSUME Init PROVE IInv
  OBVIOUS
<1>1. RowsTypeOK
  BY StoreAssumption DEF Init, RowsTypeOK
<1>2. RequestsHoldOwn
  BY DEF Init, RequestsHoldOwn, HoldsOwn, Single, Idle
<1> QED
  BY <1>1, <1>2 DEF IInv

(* A request loads a row that is its user's (get_owned_event).              *)
LEMMA SelectStep ==
    ASSUME IInv, NEW q \in Request, NEW kind \in {"delete", "update"}, NEW u \in User,
           NEW i \in Id, NEW v \in BOOLEAN, Select(q, kind, u, i, v)
    PROVE  IInv' /\ UNCHANGED rows
<1> DEFINE new == [at |-> kind, who |-> u, id |-> i, row |-> rows[i], reviewed |-> v]
<1>1. rows[i] \in Event /\ rows[i].owner = u /\ i \in used
  BY DEF IInv, RowsTypeOK, RequestsHoldOwn, Select, Owned
<1>2. new \in Single
  BY <1>1 DEF Single
<1>3. req' = [req EXCEPT ![q] = new] /\ UNCHANGED <<rows, used, saves>>
  BY DEF Select
<1>4. RowsTypeOK'
  BY <1>2, <1>3 DEF IInv, RowsTypeOK
<1>5. HoldsOwn(q)'
  <2>1. req'[q] = new
    BY <1>3 DEF IInv, RowsTypeOK
  <2> QED
    BY <1>1, <1>3, <2>1 DEF HoldsOwn
<1>6. ASSUME NEW p \in Request, p # q PROVE HoldsOwn(p)'
  <2>1. req'[p] = req[p]
    BY <1>3, <1>6 DEF IInv, RowsTypeOK
  <2> QED
    BY <1>3, <2>1, OwnersPersist
<1>7. RequestsHoldOwn'
  BY <1>3, <1>5, <1>6 DEF IInv, RequestsHoldOwn
<1> QED
  BY <1>3, <1>4, <1>7 DEF IInv

(* A step by which a request ends and a row, if any, is written that is its *)
(* user's, and stays that user's (delete_event, update_event).              *)
LEMMA EndStep ==
    ASSUME IInv, NEW q \in Request, req[q] \in Single,
           NEW answer \in {Idle} \cup Answer, req' = [req EXCEPT ![q] = answer],
           NEW new \in Event \cup {None},
           rows' = [rows EXCEPT ![req[q].id] = new],
           new # None => rows[req[q].id] # None /\ new.owner = rows[req[q].id].owner,
           UNCHANGED <<used, saves>>
    PROVE  IInv' /\ NothingComesBack /\ OthersUntouched
<1> DEFINE d == req[q].id
<1>1. /\ d \in used /\ used \in SUBSET Id
      /\ rows[d] # None => rows[d].owner = req[q].who
  BY DEF IInv, RowsTypeOK, RequestsHoldOwn, HoldsOwn
<1>2. \A i \in Id : rows'[i] = IF i = d THEN new ELSE rows[i]
  BY <1>1 DEF IInv, RowsTypeOK
<1>3. \A p \in Request : req'[p] = IF p = q THEN answer ELSE req[p]
  BY DEF IInv, RowsTypeOK
<1>4. RowsTypeOK'
  BY <1>1 DEF IInv, RowsTypeOK
<1>5. ASSUME NEW p \in Request PROVE HoldsOwn(p)'
  <2>1. CASE p = q
    BY <1>3, <2>1, NothingHeld
  <2>2. CASE p # q
    <3>1. \A i \in used : rows'[i] # None => rows[i] # None /\ rows'[i].owner = rows[i].owner
      BY <1>1, <1>2
    <3> QED
      BY <1>3, <2>2, <3>1, OwnersPersist
  <2> QED
    BY <2>1, <2>2
<1>6. RequestsHoldOwn'
  BY <1>1, <1>2, <1>5 DEF IInv, RequestsHoldOwn
<1>7. NothingComesBack
  BY <1>1, <1>2 DEF NothingComesBack
<1>8. OthersUntouched
  BY <1>1, <1>2, <1>3 DEF OthersUntouched, Stored
<1> QED
  BY <1>4, <1>6, <1>7, <1>8 DEF IInv

(* The DELETE removes a row of the user who asked (delete_event).           *)
LEMMA DeleteStep ==
    ASSUME IInv, NEW q \in Request, delete_event(q)
    PROVE  IInv' /\ AsAsked
<1>1. req[q] \in Single
  BY DEF IInv, RowsTypeOK, delete_event, Idle, Answer
<1>2. /\ rows' = [rows EXCEPT ![req[q].id] = None]
      /\ req' = [req EXCEPT ![q] = Idle]
      /\ UNCHANGED <<used, saves>>
  BY DEF delete_event, Overwrite
<1>3. IInv' /\ NothingComesBack /\ OthersUntouched
  BY <1>1, <1>2, EndStep
<1>4. ReviewedStays
  BY <1>2 DEF ReviewedStays, IInv, RowsTypeOK
<1> QED
  BY <1>3, <1>4 DEF AsAsked

(* The UPDATE writes the flag that was asked for, on a row that is there    *)
(* and the user's, or nothing (update_event).                               *)
LEMMA UpdateStep ==
    ASSUME IInv, NEW q \in Request, update_event(q)
    PROVE  IInv' /\ AsAsked
<1> DEFINE d == req[q].id
           v == req[q].reviewed
<1>1. req[q] \in Single /\ d \in Id /\ v \in BOOLEAN /\ req[q].at = "update"
  BY DEF IInv, RowsTypeOK, update_event, Idle, Answer, Single
<1>2. UNCHANGED <<used, saves>>
  BY DEF update_event
<1>3. PICK code \in {200, 500} : req' = [req EXCEPT ![q] = [at |-> "answered", status |-> code]]
  BY DEF update_event, Answered
<1>4. [at |-> "answered", status |-> code] \in Answer
  BY DEF Answer
<1>5. CASE rows' = rows
  <2> DEFINE new == rows[d]
  <2>1. /\ new \in Event \cup {None}
        /\ rows' = [rows EXCEPT ![d] = new]
        /\ new # None => rows[d] # None /\ new.owner = rows[d].owner
    BY <1>1, <1>5 DEF IInv, RowsTypeOK
  <2> HIDE DEF new
  <2>2. IInv' /\ NothingComesBack /\ OthersUntouched
    BY ZenonT(30), <1>1, <1>2, <1>3, <1>4, <2>1, EndStep
  <2>3. ReviewedStays
    BY <1>5 DEF ReviewedStays
  <2> QED
    BY <2>2, <2>3 DEF AsAsked
<1>6. CASE rows[d] # None /\ rows' = [rows EXCEPT ![d].reviewed = v]
  <2>1. rows[d] \in Event
    BY <1>1, <1>6 DEF IInv, RowsTypeOK
  <2> DEFINE new == [rows[d] EXCEPT !.reviewed = v]
  <2>2. new \in Event /\ new.owner = rows[d].owner /\ new.reviewed = v
    BY <1>1, <2>1 DEF Event
  <2>3. rows' = [rows EXCEPT ![d] = new]
    BY <1>6
  <2> HIDE DEF new
  <2>4. IInv' /\ NothingComesBack /\ OthersUntouched
    BY ZenonT(30), <1>1, <1>2, <1>3, <1>4, <1>6, <2>2, <2>3, EndStep
  <2>5. \A i \in Id : rows'[i] = IF i = d THEN new ELSE rows[i]
    BY <2>3 DEF IInv, RowsTypeOK
  <2>6. ReviewedStays
    BY <1>1, <2>2, <2>5 DEF ReviewedStays
  <2> QED
    BY <2>4, <2>6 DEF AsAsked
<1> QED
  BY <1>5, <1>6 DEF update_event, Overwrite

(* A bulk statement writes rows of one user, those of the WHERE clause      *)
(* (bulk_delete_events, bulk_review_events).                                *)
LEMMA BulkStep ==
    ASSUME IInv, NEW u \in User, NEW hit, \A i \in hit : Owned(i, u),
           NEW new \in [Id -> Event \cup {None}],
           \A i \in Id : new[i] # None => rows[i] # None /\ new[i].owner = rows[i].owner
                          /\ (rows[i].reviewed => new[i].reviewed),
           rows' = [i \in Id |-> IF i \in hit THEN new[i] ELSE rows[i]],
           UNCHANGED <<used, saves, req>>
    PROVE  IInv' /\ AsAsked
<1>1. \A i \in Id : rows'[i] # None =>
          rows[i] # None /\ rows'[i].owner = rows[i].owner /\ (rows[i].reviewed => rows'[i].reviewed)
  OBVIOUS
<1>2. RowsTypeOK'
  BY DEF IInv, RowsTypeOK
<1>3. RequestsHoldOwn'
  <2>1. ASSUME NEW p \in Request PROVE HoldsOwn(p)'
    BY <1>1, OwnersPersist DEF IInv, RowsTypeOK
  <2> QED
    BY <1>1, <2>1 DEF IInv, RequestsHoldOwn
<1>4. NothingComesBack /\ ReviewedStays
  BY <1>1 DEF NothingComesBack, ReviewedStays, IInv, RowsTypeOK
<1>5. OthersUntouched
  BY DEF OthersUntouched, Stored, Owned
<1> QED
  BY <1>2, <1>3, <1>4, <1>5 DEF IInv, AsAsked

(* One statement deletes the rows of the user (bulk_delete_events).         *)
LEMMA BulkDeleteStep ==
    ASSUME IInv, NEW u \in User, NEW body, bulk_delete_events(u, body)
    PROVE  IInv' /\ AsAsked
<1> DEFINE hit == BulkResult(u, body).succeeded
           new == [i \in Id |-> None]
<1>1. \A i \in hit : Owned(i, u)
  BY DEF BulkResult
<1>2. rows' = [i \in Id |-> IF i \in hit THEN new[i] ELSE rows[i]] /\ UNCHANGED <<used, saves, req>>
  BY DEF bulk_delete_events, Overwrite
<1>3. new \in [Id -> Event \cup {None}] /\ \A i \in Id : new[i] = None
  OBVIOUS
<1> HIDE DEF hit, new
<1> QED
  BY <1>1, <1>2, <1>3, BulkStep

(* One statement sets their flag, and only ever sets it                     *)
(* (bulk_review_events).                                                    *)
LEMMA BulkReviewStep ==
    ASSUME IInv, NEW u \in User, NEW body, bulk_review_events(u, body)
    PROVE  IInv' /\ AsAsked
<1> DEFINE hit == BulkResult(u, body).succeeded
           new == [i \in Id |-> IF rows[i] = None THEN None ELSE [rows[i] EXCEPT !.reviewed = TRUE]]
<1>1. \A i \in hit : Owned(i, u)
  BY DEF BulkResult
<1>2. /\ rows' = [i \in Id |-> IF i \in hit THEN new[i] ELSE rows[i]]
      /\ UNCHANGED <<used, saves, req>>
  BY <1>1 DEF bulk_review_events, Overwrite, Owned
<1>3. \A i \in Id : rows[i] # None => [rows[i] EXCEPT !.reviewed = TRUE] \in Event
  BY DEF IInv, RowsTypeOK, Event
<1>4. new \in [Id -> Event \cup {None}]
  BY <1>3
<1>5. \A i \in Id : new[i] # None => rows[i] # None /\ new[i].owner = rows[i].owner
                     /\ (rows[i].reviewed => new[i].reviewed)
  BY DEF IInv, RowsTypeOK, Event
<1> HIDE DEF hit, new
<1> QED
  BY <1>1, <1>2, <1>4, <1>5, BulkStep

(* A run inserts under ids that were never given out                        *)
(* (_deduplicate_and_save).                                                 *)
LEMMA SaveStep ==
    ASSUME IInv, NEW u \in User, NEW extracted \in SUBSET Key, SaveEvents(u, extracted)
    PROVE  IInv' /\ AsAsked
<1> DEFINE new == {k \in extracted : \A i \in Stored : rows[i].owner = u => rows[i].key # k}
           id == CHOOSE f \in Injection(new, Id \ used) : TRUE
           row(k) == [owner |-> u, key |-> k, made |-> saves + 1, reviewed |-> FALSE]
           kept(i) == \A k \in new : id[k] # i
<1>1. id \in [new -> Id \ used]
  <2>1. id \in Injection(new, Id \ used)
    BY DEF SaveEvents
  <2> QED
    BY <2>1 DEF Injection
<1>2. /\ rows' = [i \in Id |-> IF \E k \in new : id[k] = i
                              THEN row(CHOOSE k \in new : id[k] = i) ELSE rows[i]]
      /\ used' = used \cup {id[k] : k \in new}
      /\ saves' = saves + 1 /\ saves < MaxSaves /\ UNCHANGED req
  BY DEF SaveEvents, Overwrite
<1>3. \A k \in new : row(k) \in Event
  BY <1>2, StoreAssumption DEF IInv, RowsTypeOK, Event
<1>4. new \in SUBSET Key
  OBVIOUS
<1> HIDE DEF new, id, row
<1>5. \A i \in Id : IF \E k \in new : id[k] = i
                   THEN i \in used' \ used /\ rows'[i] \in Event ELSE rows'[i] = rows[i]
  <2> SUFFICES ASSUME NEW i \in Id
               PROVE  IF \E k \in new : id[k] = i
                      THEN i \in used' \ used /\ rows'[i] \in Event ELSE rows'[i] = rows[i]
    OBVIOUS
  <2>1. CASE \E k \in new : id[k] = i
    <3> DEFINE c == CHOOSE k \in new : id[k] = i
    <3>1. c \in new /\ id[c] = i
      BY <2>1
    <3>2. rows'[i] = row(c)
      BY <1>2, <2>1
    <3> QED
      BY <1>1, <1>2, <1>3, <2>1, <3>1, <3>2
  <2>2. CASE ~\E k \in new : id[k] = i
    BY <1>2, <2>2
  <2> QED
    BY <2>1, <2>2
<1>6. \A i \in used : i \in Id /\ rows'[i] = rows[i]
  BY <1>5 DEF IInv, RowsTypeOK
<1>7. RowsTypeOK'
  <2>1. rows' \in [Id -> Event \cup {None}]
    <3>1. DOMAIN rows' = Id /\ rows' = [i \in Id |-> rows'[i]]
      BY <1>2
    <3>2. \A i \in Id : rows'[i] \in Event \cup {None}
      BY <1>5 DEF IInv, RowsTypeOK
    <3> QED
      BY <3>1, <3>2
  <2>2. used' \in SUBSET Id
    BY <1>1, <1>2 DEF IInv, RowsTypeOK
  <2>3. saves' \in 0..MaxSaves
    BY <1>2, StoreAssumption DEF IInv, RowsTypeOK
  <2> QED
    BY <1>2, <2>1, <2>2, <2>3 DEF IInv, RowsTypeOK
<1>8. RequestsHoldOwn'
  <2>1. ASSUME NEW p \in Request PROVE HoldsOwn(p)'
    BY <1>2, <1>6, OwnersPersist
  <2>2. \A i \in Id : rows'[i] # None => i \in used'
    BY <1>2, <1>5 DEF IInv, RequestsHoldOwn
  <2> QED
    BY <2>1, <2>2 DEF RequestsHoldOwn
<1>9. \A i \in Id : rows[i] # None => rows'[i] = rows[i]
  BY <1>6 DEF IInv, RequestsHoldOwn
<1>10. NothingComesBack /\ ReviewedStays /\ OthersUntouched
  BY <1>6, <1>9 DEF NothingComesBack, ReviewedStays, OthersUntouched, Stored
<1> QED
  BY <1>7, <1>8, <1>10 DEF IInv, AsAsked

(* A step that leaves the table and the requests alone, or ends a request,  *)
(* changes nothing that matters here.                                       *)
LEMMA IdleStep ==
    ASSUME IInv, UNCHANGED <<rows, used, saves>>,
           \/ UNCHANGED req
           \/ \E q \in Request : req' = [req EXCEPT ![q] = Idle]
    PROVE  IInv'
<1>1. RowsTypeOK'
  BY DEF IInv, RowsTypeOK
<1>2. ASSUME NEW p \in Request PROVE HoldsOwn(p)'
  <2>1. CASE req'[p] = req[p]
    BY <2>1, OwnersPersist
  <2>2. CASE req'[p] = Idle
    BY <2>2, NothingHeld
  <2> QED
    BY <2>1, <2>2 DEF IInv, RowsTypeOK
<1>3. RequestsHoldOwn'
  BY <1>2 DEF IInv, RequestsHoldOwn
<1> QED
  BY <1>1, <1>3 DEF IInv

(* Every step keeps the invariant, and one that changes a row changes it as *)
(* its owner asked.                                                         *)
LEMMA NextStore ==
    ASSUME IInv, [Next]_vars
    PROVE  IInv' /\ (AsAsked \/ UNCHANGED rows)
<1>1. ASSUME NEW q \in Request, NEW u \in User, NEW i \in Id,
             SelectToDelete(q, u, i) \/ \E v \in BOOLEAN : SelectToUpdate(q, u, i, v)
      PROVE  IInv' /\ UNCHANGED rows
  BY <1>1, SelectStep DEF SelectToDelete, SelectToUpdate
<1>2. ASSUME NEW q \in Request, delete_event(q) \/ update_event(q) PROVE IInv' /\ AsAsked
  BY <1>2, DeleteStep, UpdateStep
<1>3. ASSUME NEW q \in Request, Leave(q) PROVE IInv' /\ UNCHANGED rows
  BY <1>3, IdleStep DEF Leave
<1>4. ASSUME NEW u \in User, NEW body \in Bodies,
             bulk_delete_events(u, body) \/ bulk_review_events(u, body)
      PROVE  IInv' /\ AsAsked
  BY <1>4, BulkDeleteStep, BulkReviewStep
<1>5. ASSUME NEW e \in Extracts, SaveEvents(e[1], e[2]) PROVE IInv' /\ AsAsked
  <2>1. e[1] \in User /\ e[2] \in SUBSET Key
    BY StoreAssumption
  <2> QED
    BY <1>5, <2>1, SaveStep
<1>6. ASSUME (\E ask \in Questions : StartWalk(ask)) \/ Serve \/ NextPage \/ GoAway \/ UNCHANGED vars
      PROVE  IInv' /\ UNCHANGED rows
  <2>1. UNCHANGED <<rows, used, saves, req>>
    BY <1>6 DEF StartWalk, Serve, Count, ReadWindow, Render, NextPage, GoAway, Kept, vars
  <2> QED
    BY <2>1, IdleStep
<1> QED
  BY <1>1, <1>2, <1>3, <1>4, <1>5, <1>6 DEF Next

(* The invariant holds in every state.                                      *)
THEOREM StoreInvariance == Spec => []IInv
<1>1. IInv /\ [Next]_vars => IInv'
  BY NextStore
<1> QED
  BY <1>1, InitStore, PTL DEF Spec

(* Nothing that was deleted comes back, reviewed events stay reviewed, and  *)
(* every change is one that the owner of the row asked for, however         *)
(* requests interleave (events.py).                                         *)
THEOREM ChangedAsAsked == Spec => OnlyAsAsked
<1>1. IInv /\ [Next]_vars => [NothingComesBack /\ ReviewedStays /\ OthersUntouched]_rows
  BY NextStore DEF AsAsked
<1> QED
  BY <1>1, StoreInvariance, PTL DEF Spec, OnlyAsAsked

(* What ReviewAnswerWasTrue says of one request. *)
ReviewAnswered(q) ==
    (req[q].at = "update" /\ req'[q] = [at |-> "answered", status |-> 200]) =>
        \/ req[q].row.reviewed = req[q].reviewed
        \/ rows'[req[q].id] # None /\ rows'[req[q].id].reviewed = req[q].reviewed

(* Only the step that serves a review answers it (update_event): every      *)
(* other leaves a request as it is, ends it or begins it.                   *)
LEMMA NotAnswered ==
    ASSUME IInv, NEW q \in Request,
           \/ req'[q] = req[q]
           \/ req'[q] = Idle
           \/ req'[q].at # "answered"
    PROVE  ReviewAnswered(q)
BY DEF ReviewAnswered, Idle

(* The flush writes the flag if it differs from the one loaded              *)
(* (update_event).                                                          *)
LEMMA UpdateAnswers ==
    ASSUME IInv, NEW q \in Request, update_event(q)
    PROVE  \A p \in Request : ReviewAnswered(p)
<1>1. req[q] \in Single /\ req[q].id \in Id
  BY DEF IInv, RowsTypeOK, update_event, Idle, Answer, Single
<1>2. PICK code \in {200, 500} : req' = [req EXCEPT ![q] = [at |-> "answered", status |-> code]]
  BY DEF update_event, Answered
<1>3. ASSUME NEW p \in Request, p # q PROVE ReviewAnswered(p)
  <2>1. req'[p] = req[p]
    BY <1>2, <1>3 DEF IInv, RowsTypeOK
  <2> QED
    BY <2>1, NotAnswered
<1>4. ReviewAnswered(q)
  <2>1. CASE req[q].reviewed = req[q].row.reviewed
    BY <2>1 DEF ReviewAnswered
  <2>2. CASE req[q].reviewed # req[q].row.reviewed /\ rows[req[q].id] = None
    <3>1. req' = [req EXCEPT ![q] = [at |-> "answered", status |-> 500]]
      BY <2>2 DEF update_event, Answered
    <3>2. req'[q].status = 500
      BY <3>1 DEF IInv, RowsTypeOK
    <3> QED
      BY <3>2 DEF ReviewAnswered
  <2>3. CASE req[q].reviewed # req[q].row.reviewed /\ rows[req[q].id] # None
    <3> DEFINE d == req[q].id
               v == req[q].reviewed
               new == [rows[d] EXCEPT !.reviewed = v]
    <3>1. rows' = [rows EXCEPT ![d] = new]
      BY <2>3 DEF update_event, Overwrite
    <3>2. rows[d] \in Event /\ v \in BOOLEAN
      BY <1>1, <2>3 DEF IInv, RowsTypeOK, Single
    <3>3. new \in Event /\ new.reviewed = v
      BY <3>2 DEF Event
    <3> HIDE DEF new
    <3>4. rows'[d] = new
      BY <1>1, <3>1 DEF IInv, RowsTypeOK
    <3>5. rows'[d] # None /\ rows'[d].reviewed = v
      BY <3>3, <3>4, NoneIsNoEvent
    <3> QED
      BY <3>5 DEF ReviewAnswered
  <2> QED
    BY <2>1, <2>2, <2>3
<1> QED
  BY <1>3, <1>4

(* A step other than that of a review answers none.                         *)
LEMMA OthersAnswerNone ==
    ASSUME IInv, [Next]_vars, \A q \in Request : ~update_event(q)
    PROVE  \A p \in Request : ReviewAnswered(p)
<1>1. \/ UNCHANGED req
      \/ \E q \in Request, new \in {Idle} \cup [at : {"delete", "update"}, who : User, id : Id,
                                             row : {rows[i] : i \in Id}, reviewed : BOOLEAN] :
           req' = [req EXCEPT ![q] = new]
  <2>1. CASE \E q \in Request, u \in User, i \in Id :
               SelectToDelete(q, u, i) \/ \E v \in BOOLEAN : SelectToUpdate(q, u, i, v)
    BY ZenonT(30), <2>1 DEF SelectToDelete, SelectToUpdate, Select
  <2>2. CASE \E q \in Request : delete_event(q) \/ Leave(q)
    BY <2>2 DEF delete_event, Leave
  <2>3. CASE \/ \E u \in User, body \in Bodies :
                  bulk_delete_events(u, body) \/ bulk_review_events(u, body)
             \/ \E e \in Extracts : SaveEvents(e[1], e[2])
    BY <2>3 DEF bulk_delete_events, bulk_review_events, SaveEvents
  <2>4. CASE (\E ask \in Questions : StartWalk(ask)) \/ Serve \/ NextPage \/ GoAway \/ UNCHANGED vars
    BY <2>4 DEF StartWalk, Serve, Count, ReadWindow, Render, NextPage, GoAway, Kept, vars
  <2> QED
    BY <2>1, <2>2, <2>3, <2>4 DEF Next
<1>2. ASSUME NEW p \in Request PROVE ReviewAnswered(p)
  <2>1. req'[p] = req[p] \/ req'[p] = Idle \/ req'[p].at \in {"delete", "update"}
    BY <1>1 DEF IInv, RowsTypeOK
  <2> QED
    BY <2>1, NotAnswered
<1> QED
  BY <1>2

(* A review that is answered 200 was true when the row was loaded, and then *)
(* wrote nothing, or is true of the event now; a review that changes the    *)
(* flag is never said of an event that was deleted meanwhile (update_event).*)
THEOREM ReviewsAnsweredTruly == Spec => ReviewAnswerWasTrue
<1>1. IInv /\ [Next]_vars => \A q \in Request : ReviewAnswered(q)
  BY UpdateAnswers, OthersAnswerNone
<1>2. IInv /\ [Next]_vars =>
        [\A q \in Request : req[q].at = "update" /\ req'[q] = [at |-> "answered", status |-> 200] =>
           \/ req[q].row.reviewed = req[q].reviewed
           \/ rows'[req[q].id] # None /\ rows'[req[q].id].reviewed = req[q].reviewed]_req
  BY <1>1 DEF ReviewAnswered
<1> QED
  BY <1>2, StoreInvariance, PTL DEF Spec, ReviewAnswerWasTrue

-----------------------------------------------------------------------------
(* Pages: products and quotients by the size of a page.                     *)
LEMMA TimesGrows ==
    ASSUME NEW a \in Nat, NEW b \in Nat, NEW c \in Nat, a <= b
    PROVE  a * c <= b * c /\ a * c \in Nat
<1>1. PICK d \in Nat : b = a + d
  <2>1. b - a \in Nat /\ b = a + (b - a)
    OBVIOUS
  <2> QED
    BY <2>1
<1>2. b * c = a * c + d * c /\ d * c \in Nat /\ a * c \in Nat
  BY <1>1
<1> QED
  BY <1>2

(* The number of pages is the least that holds everything (TotalPages).     *)
LEMMA TotalPagesHold ==
    ASSUME NEW n \in Nat
    PROVE  /\ TotalPages(n) \in Nat \ {0}
           /\ n <= TotalPages(n) * PageSize
           /\ n > 0 => (TotalPages(n) - 1) * PageSize < n
<1> DEFINE k == (n + PageSize - 1) \div PageSize
<1>1. PageSize \in Nat \ {0}
  BY PageSizeAssumption
<1>2. /\ k \in Nat
      /\ k * PageSize <= n + PageSize - 1
      /\ n + PageSize - 1 < k * PageSize + PageSize
  <2> DEFINE a == n + PageSize - 1
             rest == a % PageSize
  <2>1. a \in Nat
    BY <1>1
  <2>2. k \in Int /\ rest \in 0..(PageSize - 1) /\ a = PageSize * k + rest
    BY <1>1, <2>1
  <2> HIDE DEF a, rest, k
  <2>3. k >= 0
    <3>1. ASSUME k <= -1 PROVE FALSE
      <4>1. PageSize * k <= -PageSize
        BY <1>1, <2>2, <3>1
      <4> QED
        BY <1>1, <2>1, <2>2, <4>1
    <3> QED
      BY <2>2, <3>1
  <2> QED
    BY <1>1, <2>2, <2>3 DEF a
<1>3. TotalPages(n) = IF k > 1 THEN k ELSE 1
  BY DEF TotalPages
<1> HIDE DEF k
<1>4. CASE k > 1
  <2>1. (k - 1) * PageSize = k * PageSize - PageSize
    BY <1>1, <1>2
  <2> QED
    BY <1>1, <1>2, <1>3, <1>4, <2>1
<1>5. CASE k <= 1
  <2>1. k * PageSize <= PageSize
    BY <1>1, <1>2, <1>5
  <2> QED
    BY <1>1, <1>2, <1>3, <1>5, <2>1
<1> QED
  BY <1>2, <1>4, <1>5

(* A page of a list: what lies between its first place and its last.        *)
LEMMA WindowHolds ==
    ASSUME NEW T, NEW s \in Seq(T), NEW page \in Nat \ {0}
    PROVE  /\ Window(s, page) \in Seq(T)
           /\ Len(Window(s, page)) =
                IF page * PageSize < Len(s) THEN PageSize
                ELSE IF (page - 1) * PageSize < Len(s) THEN Len(s) - (page - 1) * PageSize
                ELSE 0
           /\ \A i \in 1..Len(Window(s, page)) : Window(s, page)[i] = s[(page - 1) * PageSize + i]
<1> DEFINE before == (page - 1) * PageSize
           last == IF page * PageSize < Len(s) THEN page * PageSize ELSE Len(s)
<1>1. PageSize \in Nat \ {0} /\ Len(s) \in Nat
  BY PageSizeAssumption
<1>2. before \in Nat /\ page * PageSize = before + PageSize
  BY <1>1
<1>3. Window(s, page) = SubSeq(s, before + 1, last)
  BY DEF Window
<1> HIDE DEF before
<1>4. \A i \in (before + 1)..last : s[i] \in T
  BY <1>1, <1>2
<1>5. last \in Int /\ before + 1 \in Int
  BY <1>1, <1>2
<1> HIDE DEF last
<1>6. /\ SubSeq(s, before + 1, last) \in Seq(T)
      /\ Len(SubSeq(s, before + 1, last)) = IF before + 1 <= last THEN last - (before + 1) + 1 ELSE 0
      /\ \A i \in 1..(last - (before + 1) + 1) : SubSeq(s, before + 1, last)[i] = s[before + 1 + i - 1]
  BY <1>4, <1>5, SubSeqProperties
<1>7. Len(SubSeq(s, before + 1, last)) =
        IF before + PageSize < Len(s) THEN PageSize
        ELSE IF before < Len(s) THEN Len(s) - before ELSE 0
  BY <1>1, <1>2, <1>6 DEF last
<1>8. \A i \in 1..Len(SubSeq(s, before + 1, last)) : SubSeq(s, before + 1, last)[i] = s[before + i]
  BY <1>1, <1>2, <1>5, <1>6
<1>9. /\ Window(s, page) \in Seq(T)
      /\ \A i \in 1..Len(Window(s, page)) : Window(s, page)[i] = s[before + i]
  BY <1>3, <1>6, <1>8
<1>10. Len(Window(s, page)) = IF page * PageSize < Len(s) THEN PageSize
                              ELSE IF before < Len(s) THEN Len(s) - before ELSE 0
  BY <1>2, <1>3, <1>7
<1> QED
  BY <1>9, <1>10 DEF before

-----------------------------------------------------------------------------
(* Orders *)

(* An order of a finite set names each of its elements once.                *)
LEMMA OrderNamesAll ==
    ASSUME NEW S, IsFiniteSet(S), NEW before, NEW s \in OrdersOf(S, before)
    PROVE  /\ Cardinality(S) \in Nat
           /\ s \in Seq(S) /\ Len(s) = Cardinality(S)
           /\ Range(s) = S
           /\ \A i, j \in 1..Len(s) : s[i] = s[j] => i = j
           /\ \A i, j \in 1..Len(s) : i < j => <<s[j], s[i]>> \notin before
<1> DEFINE n == Cardinality(S)
<1>1. n \in Nat
  BY FS_CardinalityType
<1>2. s \in [1..n -> S] /\ \A i, j \in 1..n : i # j => s[i] # s[j]
  BY DEF OrdersOf, SetToSeqs
<1>3. \A i, j \in 1..Len(s) : i < j => <<s[j], s[i]>> \notin before
  BY DEF OrdersOf
<1> HIDE DEF n
<1>4. s \in Seq(S) /\ Len(s) = n
  BY <1>1, <1>2
<1>5. s \in Injection(1..n, S)
  BY <1>2 DEF Injection, IsInjective
<1>6. Cardinality(1..n) = n
  BY <1>1, FS_Interval
<1>7. s \in Surjection(1..n, S)
  BY <1>5, <1>6, FS_Injection DEF n
<1>8. Range(s) = S
  BY <1>2, <1>7 DEF Range, Surjection
<1> QED
  BY <1>1, <1>2, <1>3, <1>4, <1>8 DEF n

(* The place of an element in an order is the number of those before it.    *)
LEMMA PlaceIsRank ==
    ASSUME NEW S, IsFiniteSet(S), NEW before, NEW s \in OrdersOf(S, before),
           \A x, y \in S : x # y => <<x, y>> \in before \/ <<y, x>> \in before,
           \A x, y \in S : <<x, y>> \in before => <<y, x>> \notin before,
           NEW k \in 1..Len(s)
    PROVE  Cardinality({x \in S : <<x, s[k]>> \in before}) = k - 1
<1> DEFINE below == {x \in S : <<x, s[k]>> \in before}
           f == [i \in 1..(k - 1) |-> s[i]]
<1>1. /\ s \in Seq(S) /\ Range(s) = S /\ Len(s) \in Nat
      /\ \A i, j \in 1..Len(s) : s[i] = s[j] => i = j
      /\ \A i, j \in 1..Len(s) : i < j => <<s[j], s[i]>> \notin before
  BY OrderNamesAll
<1>2. \A i \in 1..Len(s) : s[i] \in S
  BY <1>1
<1>3. \A i, j \in 1..Len(s) : i < j => <<s[i], s[j]>> \in before
  <2> SUFFICES ASSUME NEW i \in 1..Len(s), NEW j \in 1..Len(s), i < j
               PROVE  <<s[i], s[j]>> \in before
    OBVIOUS
  <2>1. s[i] \in S /\ s[j] \in S /\ s[i] # s[j] /\ <<s[j], s[i]>> \notin before
    BY <1>1, <1>2
  <2> QED
    BY <2>1
<1>4. \A i \in 1..(k - 1) : i \in 1..Len(s) /\ f[i] = s[i] /\ f[i] \in below
  BY <1>1, <1>2, <1>3
<1>5. f \in Injection(1..(k - 1), below)
  BY <1>1, <1>4 DEF Injection, IsInjective
<1>6. ASSUME NEW x \in below PROVE \E i \in 1..(k - 1) : f[i] = x
  <2>1. PICK i \in 1..Len(s) : x = s[i]
    BY <1>1 DEF Range
  <2>2. i # k /\ ~(k < i)
    BY <1>2, <1>3, <2>1
  <2>3. i \in 1..(k - 1)
    BY <1>1, <2>1, <2>2
  <2> QED
    BY <1>4, <2>1, <2>3
<1>7. f \in Surjection(1..(k - 1), below)
  BY <1>5, <1>6 DEF Injection, Surjection
<1>8. IsFiniteSet(1..(k - 1)) /\ Cardinality(1..(k - 1)) = k - 1
  <2>1. 1 \in Int /\ k - 1 \in Int /\ k - 1 >= 0
    BY <1>1
  <2>2. /\ IsFiniteSet(1..(k - 1))
        /\ Cardinality(1..(k - 1)) = IF 1 > k - 1 THEN 0 ELSE k - 1 - 1 + 1
    BY <2>1, FS_Interval
  <2> QED
    BY <2>1, <2>2
<1> HIDE DEF f, below
<1>9. f \in Injection(1..(k - 1), below) => Cardinality(below) = Cardinality(1..(k - 1))
  BY <1>7, <1>8, FS_Surjection
<1> QED
  BY <1>5, <1>8, <1>9 DEF below

(* What no two elements tie in has one order only.                          *)
LEMMA OneOrder ==
    ASSUME NEW S, IsFiniteSet(S), NEW before, NEW s \in OrdersOf(S, before),
           NEW t \in OrdersOf(S, before),
           \A x, y \in S : x # y => <<x, y>> \in before \/ <<y, x>> \in before,
           \A x, y \in S : <<x, y>> \in before => <<y, x>> \notin before
    PROVE  \A k \in 1..Cardinality(S) : s[k] = t[k]
<1> SUFFICES ASSUME NEW k \in 1..Cardinality(S) PROVE s[k] = t[k]
  OBVIOUS
<1>1. /\ s \in Seq(S) /\ t \in Seq(S) /\ Range(t) = S
      /\ Len(s) = Cardinality(S) /\ Len(t) = Cardinality(S) /\ Len(s) \in Nat
  BY OrderNamesAll
<1>2. PICK m \in 1..Len(t) : t[m] = s[k]
  BY <1>1 DEF Range
<1>3. Cardinality({x \in S : <<x, s[k]>> \in before}) = k - 1
  <2>1. k \in 1..Len(s)
    BY <1>1
  <2> QED
    BY <2>1, PlaceIsRank
<1>4. Cardinality({x \in S : <<x, t[m]>> \in before}) = m - 1
  BY PlaceIsRank
<1>5. k = m
  BY <1>1, <1>2, <1>3, <1>4
<1> QED
  BY <1>2, <1>5

-----------------------------------------------------------------------------
(* The bulk endpoints *)

(* The places of the first mentions, of the ids that are not hit, are as    *)
(* many as those ids (BulkResult).                                          *)
LEMMA FirstMentions ==
    ASSUME NEW S, NEW body \in Seq(S), NEW hit \in SUBSET Range(body)
    PROVE  LET failed == {n \in Deduped(body) : body[n] \notin hit} IN
           /\ Cardinality(failed) + Cardinality(hit) = Cardinality(Range(body))
           /\ {body[n] : n \in failed} \cup hit = Range(body)
<1> DEFINE failed == {n \in Deduped(body) : body[n] \notin hit}
           rest == Range(body) \ hit
           f == [n \in failed |-> body[n]]
<1>1. Len(body) \in Nat /\ DOMAIN body = 1..Len(body)
  OBVIOUS
<1>2. \A m \in failed : m \in 1..Len(body) /\ f[m] = body[m] /\ f[m] \in rest
  BY DEF Range, Deduped
<1>3. \A m, n \in failed : f[m] = f[n] => m = n
  <2>1. ASSUME NEW m \in failed, NEW n \in failed, f[m] = f[n], m < n PROVE FALSE
    <3>1. m \in 1..Len(body) /\ n \in 1..Len(body) /\ body[m] = body[n]
      <4> HIDE DEF failed, f
      <4> QED
        BY <1>2, <2>1
    <3>2. m \in 1..(n - 1)
      BY <1>1, <2>1, <3>1
    <3> QED
      BY <2>1, <3>1, <3>2 DEF Deduped
  <2>2. \A m \in failed : m \in Nat
    <3>1. \A m \in 1..Len(body) : m \in Nat
      BY <1>1
    <3> HIDE DEF failed, f
    <3> QED
      BY <1>2, <3>1
  <2> HIDE DEF failed, f
  <2> QED
    BY <2>1, <2>2
<1>4. ASSUME NEW i \in rest PROVE \E n \in failed : f[n] = i
  <2> DEFINE T == {n \in 1..Len(body) : body[n] = i}
  <2>1. T \subseteq Nat /\ T # {}
    BY <1>1, <1>4 DEF Range
  <2>2. PICK n \in T : \A m \in T : <<m, n>> \notin OpToRel(<, Nat)
    BY <2>1, WFMin, NatLessThanWellFounded
  <2>3. \A m \in T : ~(m < n)
    BY <2>1, <2>2 DEF OpToRel
  <2>4. n \in failed
    <3>1. \A m \in 1..(n - 1) : m \in 1..Len(body) /\ m < n
      BY <1>1
    <3>2. \A m \in 1..(n - 1) : body[m] # body[n]
      BY <2>3, <3>1
    <3> QED
      BY <1>1, <1>4, <3>2 DEF Deduped
  <2> QED
    BY <1>2, <2>4
<1>5. f \in Bijection(failed, rest)
  BY <1>2, <1>3, <1>4 DEF Bijection, Injection, IsInjective, Surjection
<1>6. IsFiniteSet(Range(body)) /\ IsFiniteSet(failed)
  <2>1. IsFiniteSet(1..Len(body))
    BY <1>1, FS_Interval
  <2>2. body \in Surjection(1..Len(body), Range(body))
    BY <1>1 DEF Surjection, Range
  <2>3. IsFiniteSet(Range(body))
    BY <2>1, <2>2, FS_Surjection
  <2>4. failed \in SUBSET (1..Len(body))
    BY <1>2
  <2>5. IsFiniteSet(failed)
    BY <2>1, <2>4, FS_Subset
  <2> QED
    BY <2>3, <2>5
<1>7. {body[n] : n \in failed} \cup hit = Range(body)
  BY <1>2, <1>4
<1> HIDE DEF failed, f
<1>8. Cardinality(rest) = Cardinality(failed)
  BY <1>5, <1>6, FS_Bijection DEF ExistsBijection
<1>9. Cardinality(failed) + Cardinality(hit) = Cardinality(Range(body))
  <2>1. IsFiniteSet(hit)
    BY <1>6, FS_Subset
  <2>2. /\ IsFiniteSet(rest)
        /\ Cardinality(rest) = Cardinality(Range(body)) - Cardinality(Range(body) \cap hit)
    BY <1>6, FS_Difference
  <2>3. Range(body) \cap hit = hit
    OBVIOUS
  <2>4. Cardinality(hit) \in Nat /\ Cardinality(Range(body)) \in Nat
    BY <1>6, <2>1, FS_CardinalityType
  <2>5. Cardinality(rest) = Cardinality(Range(body)) - Cardinality(hit)
    BY <2>2, <2>3
  <2> HIDE DEF rest
  <2> QED
    BY <1>8, <2>4, <2>5
<1> QED
  BY <1>7, <1>9 DEF failed

(* The answer of a bulk statement is true whatever the table holds          *)
(* (bulk_delete_events, bulk_review_events).                                *)
LEMMA BulkTold == BulkAnswersTrue
<1> SUFFICES ASSUME NEW u \in User, NEW body \in Bodies
             PROVE  LET r == BulkResult(u, body) IN
                    /\ Cardinality(r.failed) + Cardinality(r.succeeded) = Cardinality(Range(body))
                    /\ {body[n] : n \in r.failed} \cup r.succeeded = Range(body)
                    /\ \A i \in Range(body) : i \in r.succeeded <=> Owned(i, u)
  BY DEF BulkAnswersTrue
<1> DEFINE hit == {i \in Range(body) : Owned(i, u)}
           failed == {n \in Deduped(body) : body[n] \notin hit}
<1>1. body \in Seq(Id)
  BY StoreAssumption
<1>2. BulkResult(u, body).succeeded = hit /\ BulkResult(u, body).failed = failed
  BY DEF BulkResult
<1>3. hit \in SUBSET Range(body)
  OBVIOUS
<1> HIDE DEF hit
<1>4. /\ Cardinality(failed) + Cardinality(hit) = Cardinality(Range(body))
      /\ {body[n] : n \in failed} \cup hit = Range(body)
  BY <1>1, <1>3, FirstMentions
<1>5. \A i \in Range(body) : i \in hit <=> Owned(i, u)
  BY DEF hit
<1> HIDE DEF failed
<1> QED
  BY <1>2, <1>4, <1>5

-----------------------------------------------------------------------------
(* The reader *)

(* The pairs of an order tell any two elements apart, and never both ways.  *)
Total(S, before) == \A x, y \in S : x # y => <<x, y>> \in before \/ <<y, x>> \in before

Strict(S, before) == \A x, y \in S : <<x, y>> \in before => <<y, x>> \notin before

(* The pages that w has read of a list. *)
Reached(w) == IF w.at \in {"count", "window"} THEN w.page - 1 ELSE w.page

(* What SeenSoFar says of a reader w of the list of the set all. *)
Told(w, all, before) ==
    /\ w.at # "count" => w.total = Cardinality(all)
    /\ w.first = 1 =>
        /\ Len(w.seen) = IF Reached(w) * PageSize < Cardinality(all) THEN Reached(w) * PageSize
                         ELSE Cardinality(all)
        /\ Total(all, before) /\ w.seen # <<>> =>
            \E s \in OrdersOf(all, before) : \A m \in 1..Len(w.seen) : w.seen[m] = s[m]

(* A list is finite: its rows have ids that were given out.                 *)
LEMMA FiniteMatching ==
    ASSUME IInv, IsFiniteSet(used), NEW u, NEW f
    PROVE  IsFiniteSet(Matching(u, f)) /\ Cardinality(Matching(u, f)) \in Nat
<1>1. Matching(u, f) \in SUBSET used
  BY DEF IInv, RequestsHoldOwn, Matching, Matches, Owned
<1>2. IsFiniteSet(Matching(u, f))
  BY <1>1, FS_Subset
<1> QED
  BY <1>2, FS_CardinalityType

(* Dates, and times of insertion, order events one way only (EventBefore).  *)
LEMMA BeforeIsStrict ==
    ASSUME IInv, NEW ask
    PROVE  Strict(Matching(ask.who, ask.filter), Sorted(ask))
<1> DEFINE all == Matching(ask.who, ask.filter)
<1> SUFFICES ASSUME NEW x \in all, NEW y \in all,
                    EventBefore(x, y, ask.sort), EventBefore(y, x, ask.sort)
             PROVE  FALSE
  BY DEF Strict, Sorted
<1>1. /\ DateOf[rows[x].key] \in Nat \cup {None} /\ rows[x].made \in Int
      /\ DateOf[rows[y].key] \in Nat \cup {None} /\ rows[y].made \in Int
  BY StoreAssumption DEF IInv, RowsTypeOK, Event, Matching, Matches, Owned
<1> HIDE DEF all
<1>2. None \notin Nat
  BY StoreAssumption
<1> QED
  BY <1>1, <1>2 DEF EventBefore, DateBefore, Precedes

(* While the rows stay, what SeenSoFar will say is said of the list asked   *)
(* for.                                                                     *)
LEMMA SeenNext ==
    ASSUME UNCHANGED rows, NEW ask, walk' \in Reader,
           walk'.who = ask.who, walk'.filter = ask.filter, walk'.sort = ask.sort,
           walk'.calm => Told(walk', Matching(ask.who, ask.filter), Sorted(ask))
    PROVE  SeenSoFar'
<1> DEFINE all == Matching(ask.who, ask.filter)
<1>1. Matching(walk.who, walk.filter)' = all
  BY DEF Matching, Matches, Owned
<1>2. Sorted(walk)' = Sorted(ask)
  BY <1>1 DEF Sorted, EventBefore
<1>3. Untied(Matching(walk.who, walk.filter), walk.sort)' => Total(all, Sorted(ask))
  <2>1. \A i, j : EventBefore(i, j, walk.sort)' <=> EventBefore(i, j, ask.sort)
    BY DEF EventBefore
  <2> QED
    BY <1>1, <2>1 DEF Untied, Tied, Total, Sorted
<1> HIDE DEF all
<1>4. Upto' = Reached(walk')
  BY DEF Upto, Reached
<1> QED
  BY <1>1, <1>2, <1>3, <1>4 DEF SeenSoFar, Told, all

(* What it says now.                                                        *)
LEMMA SeenNow ==
    ASSUME SeenSoFar, walk \in Reader, walk.calm
    PROVE  Told(walk, Matching(walk.who, walk.filter), Sorted(walk))
<1> DEFINE all == Matching(walk.who, walk.filter)
<1>1. Total(all, Sorted(walk)) => Untied(all, walk.sort)
  BY DEF Untied, Tied, Total, Sorted
<1>2. walk # Idle
  BY DEF Reader, Idle
<1>3. Upto = Reached(walk)
  BY DEF Upto, Reached
<1> HIDE DEF all
<1> QED
  BY <1>1, <1>2, <1>3 DEF SeenSoFar, Told, all

(* The reader, the finiteness of the lists, and what it has been told.      *)
WalkInv ==
    /\ walk \in {Idle} \cup Reader
    /\ walks \in 0..MaxWalks
    /\ IsFiniteSet(used)
    /\ SeenSoFar
    /\ EmptyFromTheWindow
    /\ WelcomedLast
    /\ EmptyMeansNone
    /\ NoFalseWelcome

(* A reader that knows of changes is owed nothing, and one that is not      *)
(* there neither.                                                           *)
LEMMA NothingOwed ==
    ASSUME walk' \in {Idle} \cup Reader, walks' \in 0..MaxWalks, IsFiniteSet(used'),
           WelcomedLast',
           walk' = Idle \/ ~walk'.calm
    PROVE  WalkInv'
<1>1. Idle.at = "idle"
  BY DEF Idle
<1> QED
  BY <1>1 DEF WalkInv, SeenSoFar, EmptyFromTheWindow, EmptyMeansNone, NoFalseWelcome, WelcomedLast

(* A write to the table leaves the reader as it is, or makes it notice.     *)
LEMMA WriteStep ==
    ASSUME IInv, WalkInv, NEW new, Overwrite(new), UNCHANGED walks, IsFiniteSet(used')
    PROVE  WalkInv'
<1>1. CASE new = rows
  <2>1. UNCHANGED <<rows, walk>>
    BY <1>1 DEF Overwrite
  <2>2. SeenSoFar'
    <3>1. CASE walk = Idle
      BY <2>1, <3>1 DEF SeenSoFar
    <3>2. CASE walk # Idle
      <4>1. walk \in Reader /\ walk' \in Reader
        BY <2>1, <3>2 DEF WalkInv
      <4>2. walk.calm => Told(walk, Matching(walk.who, walk.filter), Sorted(walk))
        BY <4>1, SeenNow DEF WalkInv
      <4> QED
        BY <2>1, <4>1, <4>2, SeenNext
    <3> QED
      BY <3>1, <3>2
  <2> QED
    BY <2>1, <2>2 DEF WalkInv, EmptyFromTheWindow, EmptyMeansNone, NoFalseWelcome, WelcomedLast,
                      Matching, Matches, Owned
<1>2. CASE new # rows
  <2>1. walk' = Watched
    BY <1>2 DEF Overwrite
  <2>2. CASE walk = Idle
    <3>1. walk' = Idle
      BY <2>1, <2>2 DEF Watched
    <3>2. WelcomedLast'
      BY <3>1 DEF WelcomedLast, Idle
    <3> QED
      BY <3>1, <3>2, NothingOwed DEF WalkInv
  <2>3. CASE walk # Idle
    <3>1. walk \in Reader /\ walk' = [walk EXCEPT !.calm = FALSE]
      BY <2>1, <2>3 DEF Watched, WalkInv
    <3>2. walk' \in Reader /\ ~walk'.calm
      BY <3>1 DEF Reader
    <3>3. WelcomedLast'
      BY <3>1 DEF WelcomedLast, WalkInv, Reader
    <3> QED
      BY <3>2, <3>3, NothingOwed DEF WalkInv
  <2> QED
    BY <2>2, <2>3
<1> QED
  BY <1>1, <1>2

(* A reader begins at its page, having seen nothing (list_events,           *)
(* dashboard_page).                                                         *)
LEMMA StartStep ==
    ASSUME IInv, WalkInv, NEW ask \in Questions, StartWalk(ask)
    PROVE  WalkInv'
<1> DEFINE all == Matching(ask.who, ask.filter)
<1>1. ask \in Question
  BY QuestionsAssumption
<1>2. /\ walk'.at = "count" /\ walk'.how = ask.how /\ walk'.who = ask.who
      /\ walk'.filter = ask.filter /\ walk'.sort = ask.sort
      /\ walk'.first = ask.page /\ walk'.page = ask.page /\ walk'.seen = <<>>
      /\ walk'.welcome = FALSE
  BY DEF StartWalk
<1>3. walk' \in Reader
  BY <1>1 DEF StartWalk, Question, Reader
<1>4. UNCHANGED <<rows, used>> /\ walks < MaxWalks /\ walks' = walks + 1
  BY DEF StartWalk, Kept
<1>5. Cardinality(all) \in Nat
  BY FiniteMatching DEF WalkInv
<1>6. Told(walk', all, Sorted(ask))
  <2>1. 0 * PageSize = 0
    BY PageSizeAssumption
  <2> HIDE DEF all
  <2>2. walk'.first = 1 => Reached(walk') = 0
    BY <1>2 DEF Reached
  <2> QED
    BY <1>2, <1>5, <2>1, <2>2 DEF Told
<1>7. SeenSoFar'
  BY <1>2, <1>3, <1>4, <1>6, SeenNext
<1>8. walks' \in 0..MaxWalks
  BY <1>4, StoreAssumption DEF WalkInv
<1> QED
  BY <1>2, <1>3, <1>4, <1>7, <1>8
     DEF WalkInv, EmptyFromTheWindow, WelcomedLast, EmptyMeansNone, NoFalseWelcome

(* The count (list_user_events).                                            *)
LEMMA CountStep ==
    ASSUME IInv, WalkInv, Count
    PROVE  WalkInv'
<1> DEFINE all == Matching(walk.who, walk.filter)
           n == Cardinality(all)
<1>1. walk \in Reader /\ walk.at = "count"
  BY DEF Count, WalkInv, Idle
<1>2. walk' = [walk EXCEPT !.at = "window", !.total = n] /\ UNCHANGED <<rows, used, walks>>
  BY DEF Count, Kept
<1>3. n \in Nat
  BY FiniteMatching DEF WalkInv
<1> HIDE DEF all, n
<1>4. walk' \in Reader
  BY <1>1, <1>2, <1>3 DEF Reader
<1>5. /\ walk'.at = "window" /\ walk'.total = n /\ walk'.who = walk.who
      /\ walk'.filter = walk.filter /\ walk'.sort = walk.sort /\ walk'.calm = walk.calm
      /\ walk'.first = walk.first /\ walk'.page = walk.page /\ walk'.seen = walk.seen
      /\ walk'.welcome = walk.welcome
  BY <1>1, <1>2 DEF Reader
<1>6. ASSUME walk.calm PROVE Told(walk', all, Sorted(walk))
  <2>1. Told(walk, all, Sorted(walk))
    BY <1>1, <1>6, SeenNow DEF WalkInv, all
  <2>2. Reached(walk') = Reached(walk)
    BY <1>1, <1>5 DEF Reached
  <2> QED
    BY <1>5, <2>1, <2>2 DEF Told, n
<1>7. SeenSoFar'
  BY <1>2, <1>4, <1>5, <1>6, SeenNext DEF all
<1>8. WelcomedLast'
  BY <1>1, <1>5 DEF WelcomedLast, WalkInv
<1> QED
  BY <1>2, <1>4, <1>5, <1>7, <1>8
     DEF WalkInv, EmptyFromTheWindow, EmptyMeansNone, NoFalseWelcome

(* The types (list_user_event_types) and the page (has_active_filters).     *)
LEMMA RenderStep ==
    ASSUME IInv, WalkInv, Render
    PROVE  WalkInv'
<1> DEFINE hello == walk.items = <<>> /\ ~HasFilters(walk.who, walk.filter)
<1>1. walk \in Reader /\ walk.at = "types"
  BY DEF Render, WalkInv, Idle
<1>2. walk' = [walk EXCEPT !.at = "shown", !.welcome = hello] /\ UNCHANGED <<rows, used, walks>>
  BY DEF Render, Kept
<1>3. hello \in BOOLEAN
  OBVIOUS
<1>4. hello => \A i \in Id : ~Owned(i, walk.who)
  BY DEF HasFilters
<1> HIDE DEF hello
<1>5. walk' \in Reader
  BY <1>1, <1>2, <1>3 DEF Reader
<1>6. /\ walk'.at = "shown" /\ walk'.total = walk.total /\ walk'.who = walk.who
      /\ walk'.filter = walk.filter /\ walk'.sort = walk.sort /\ walk'.calm = walk.calm
      /\ walk'.first = walk.first /\ walk'.page = walk.page /\ walk'.seen = walk.seen
      /\ walk'.how = walk.how /\ walk'.items = walk.items /\ walk'.welcome = hello
  BY <1>1, <1>2 DEF Reader
<1>7. ASSUME walk.calm PROVE Told(walk', Matching(walk.who, walk.filter), Sorted(walk))
  <2>1. Told(walk, Matching(walk.who, walk.filter), Sorted(walk))
    BY <1>1, <1>7, SeenNow DEF WalkInv
  <2>2. Reached(walk') = Reached(walk)
    BY <1>1, <1>6 DEF Reached
  <2> QED
    BY <1>1, <1>6, <2>1, <2>2 DEF Told
<1>8. SeenSoFar'
  BY <1>2, <1>5, <1>6, <1>7, SeenNext
<1>9. EmptyMeansNone'
  BY <1>1, <1>2, <1>6 DEF WalkInv, EmptyFromTheWindow, EmptyMeansNone, Matching, Matches, Owned
<1>10. NoFalseWelcome'
  BY <1>2, <1>4, <1>6 DEF NoFalseWelcome, Owned
<1> QED
  BY <1>2, <1>5, <1>6, <1>8, <1>9, <1>10 DEF WalkInv, EmptyFromTheWindow, WelcomedLast

(* The link to the next page (next_url).                                    *)
LEMMA NextPageStep ==
    ASSUME IInv, WalkInv, NextPage
    PROVE  WalkInv'
<1>1. walk \in Reader /\ walk.at = "shown"
  BY DEF NextPage, WalkInv, Idle
<1>2. /\ walk' = [walk EXCEPT !.at = "count", !.page = @ + 1, !.total = 0,
                             !.items = <<>>, !.welcome = FALSE]
      /\ UNCHANGED <<rows, used, walks>>
  BY DEF NextPage, Kept
<1>3. walk' \in Reader
  <2> DEFINE w1 == [walk EXCEPT !.at = "count", !.page = @ + 1]
  <2>1. w1 \in Reader
    <3> DEFINE p == walk.page + 1
    <3>1. walk.page \in Nat
      BY <1>1 DEF Reader
    <3>2. p \in Nat \ {0}
      BY <3>1
    <3>3. w1 = [walk EXCEPT !.at = "count", !.page = p]
      BY <1>1 DEF Reader
    <3> HIDE DEF p, w1
    <3> QED
      BY <1>1, <3>2, <3>3 DEF Reader
  <2>2. walk' = [w1 EXCEPT !.total = 0, !.items = <<>>, !.welcome = FALSE]
    BY <1>1, <1>2 DEF Reader
  <2>3. <<>> \in Seq(Id)
    OBVIOUS
  <2> HIDE DEF w1
  <2> QED
    BY <2>1, <2>2, <2>3 DEF Reader
<1>4. /\ walk'.at = "count" /\ walk'.who = walk.who
      /\ walk'.filter = walk.filter /\ walk'.sort = walk.sort /\ walk'.calm = walk.calm
      /\ walk'.first = walk.first /\ walk'.page = walk.page + 1 /\ walk'.seen = walk.seen
      /\ walk'.welcome = FALSE
  BY <1>1, <1>2 DEF Reader
<1>5. ASSUME walk.calm PROVE Told(walk', Matching(walk.who, walk.filter), Sorted(walk))
  <2>1. Told(walk, Matching(walk.who, walk.filter), Sorted(walk))
    BY <1>1, <1>5, SeenNow DEF WalkInv
  <2>2. Reached(walk') = Reached(walk)
    <3>1. walk.page \in Nat
      BY <1>1 DEF Reader
    <3> QED
      BY <1>1, <1>4, <3>1 DEF Reached
  <2> QED
    BY <1>1, <1>4, <2>1, <2>2 DEF Told
<1>6. SeenSoFar'
  BY <1>2, <1>3, <1>4, <1>5, SeenNext
<1> QED
  BY <1>2, <1>3, <1>4, <1>6
     DEF WalkInv, EmptyFromTheWindow, WelcomedLast, EmptyMeansNone, NoFalseWelcome

(* The reader leaves.                                                       *)
LEMMA GoAwayStep ==
    ASSUME WalkInv, GoAway
    PROVE  WalkInv'
<1>1. walk' = Idle /\ UNCHANGED <<used, walks>>
  BY DEF GoAway, Kept
<1>2. WelcomedLast'
  BY <1>1 DEF WelcomedLast, Idle
<1> QED
  BY <1>1, <1>2, NothingOwed DEF WalkInv

(* One more page continues what has been read of a list (list_user_events'  *)
(* offset and limit).                                                       *)
LEMMA OnePageMore ==
    ASSUME NEW all, IsFiniteSet(all), NEW before, Strict(all, before),
           NEW s \in OrdersOf(all, before), NEW page \in Nat \ {0},
           NEW T, all \subseteq T, NEW seen \in Seq(T),
           Len(seen) = IF (page - 1) * PageSize < Cardinality(all) THEN (page - 1) * PageSize
                       ELSE Cardinality(all),
           Total(all, before) /\ seen # <<>> =>
               \E t \in OrdersOf(all, before) : \A m \in 1..Len(seen) : seen[m] = t[m]
    PROVE  LET more == seen \o Window(s, page) IN
           /\ Len(more) = IF page * PageSize < Cardinality(all) THEN page * PageSize
                          ELSE Cardinality(all)
           /\ Total(all, before) => \A m \in 1..Len(more) : more[m] = s[m]
<1> DEFINE b == (page - 1) * PageSize
           n == Cardinality(all)
           w == Window(s, page)
           more == seen \o w
<1>1. PageSize \in Nat \ {0}
  BY PageSizeAssumption
<1>2. b \in Nat /\ page * PageSize = b + PageSize
  BY <1>1
<1>3. n \in Nat /\ s \in Seq(all) /\ Len(s) = n
  BY OrderNamesAll
<1>4. /\ w \in Seq(all)
      /\ Len(w) = IF b + PageSize < n THEN PageSize ELSE IF b < n THEN n - b ELSE 0
      /\ \A i \in 1..Len(w) : w[i] = s[b + i]
  <2>1. /\ Window(s, page) \in Seq(all)
        /\ Len(Window(s, page)) =
             IF page * PageSize < Len(s) THEN PageSize
             ELSE IF (page - 1) * PageSize < Len(s) THEN Len(s) - (page - 1) * PageSize
             ELSE 0
        /\ \A i \in 1..Len(Window(s, page)) : Window(s, page)[i] = s[(page - 1) * PageSize + i]
    BY ZenonT(30), <1>3, WindowHolds
  <2> QED
    BY <1>2, <1>3, <2>1
<1>5. Len(seen) = IF b < n THEN b ELSE n
  OBVIOUS
<1> HIDE DEF b, n, w
<1>6. /\ Len(more) = Len(seen) + Len(w)
      /\ \A m \in 1..Len(more) : more[m] = IF m <= Len(seen) THEN seen[m] ELSE w[m - Len(seen)]
  <2>1. w \in Seq(T)
    BY <1>4
  <2> QED
    BY <2>1, ConcatProperties
<1> HIDE DEF more
<1>7. Len(more) = IF b + PageSize < n THEN b + PageSize ELSE n
  BY <1>1, <1>2, <1>3, <1>4, <1>5, <1>6
<1>8. ASSUME Total(all, before) PROVE \A m \in 1..Len(more) : more[m] = s[m]
  <2>1. \A m \in 1..Len(seen) : seen[m] = s[m]
    <3>1. CASE seen = <<>>
      BY <3>1
    <3>2. CASE seen # <<>>
      <4>1. PICK t \in OrdersOf(all, before) : \A m \in 1..Len(seen) : seen[m] = t[m]
        BY <1>8, <3>2
      <4>2. \A k \in 1..n : s[k] = t[k]
        BY <1>8, OneOrder DEF Total, Strict, n
      <4>3. \A m \in 1..Len(seen) : m \in 1..n
        BY <1>2, <1>3, <1>5
      <4> QED
        BY <4>1, <4>2, <4>3
    <3> QED
      BY <3>1, <3>2
  <2>2. ASSUME NEW m \in 1..Len(more), m > Len(seen) PROVE w[m - Len(seen)] = s[m]
    <3>1. m - Len(seen) \in 1..Len(w) /\ Len(w) > 0
      <4>1. Len(seen) \in Nat /\ Len(w) \in Nat /\ Len(more) = Len(seen) + Len(w)
        BY <1>4, <1>6
      <4> QED
        BY <2>2, <4>1
    <3>2. Len(seen) = b
      BY <1>2, <1>3, <1>4, <1>5, <3>1
    <3>3. w[m - Len(seen)] = s[b + (m - Len(seen))]
      BY <1>4, <3>1
    <3>4. b + (m - Len(seen)) = m
      BY <1>2, <3>2
    <3> QED
      BY <3>3, <3>4
  <2>3. \A m \in 1..Len(more) : m \in 1..Len(seen) \/ m > Len(seen)
    BY <1>2, <1>3, <1>5
  <2> QED
    <3> SUFFICES ASSUME NEW m \in 1..Len(more) PROVE more[m] = s[m]
      OBVIOUS
    <3>1. CASE m \in 1..Len(seen)
      BY <1>6, <2>1, <3>1
    <3>2. CASE m > Len(seen)
      <4>1. ~(m <= Len(seen))
        BY <1>2, <1>3, <1>5, <3>2
      <4> QED
        BY <1>6, <2>2, <3>2, <4>1
    <3> QED
      BY <2>3, <3>1, <3>2
<1> QED
  BY <1>2, <1>7, <1>8 DEF more, n, w

(* A page that is not beyond the last is empty only when nothing matches    *)
(* (TotalPages).                                                            *)
LEMMA EmptyWindow ==
    ASSUME NEW all, IsFiniteSet(all), NEW before, NEW s \in OrdersOf(all, before),
           NEW page \in Nat \ {0}, Window(s, page) = <<>>,
           ~(Cardinality(all) > 0 /\ page > TotalPages(Cardinality(all)))
    PROVE  all = {}
<1> DEFINE n == Cardinality(all)
<1>1. n \in Nat /\ s \in Seq(all) /\ Len(s) = n
  BY OrderNamesAll
<1>2. PageSize \in Nat \ {0}
  BY PageSizeAssumption
<1>3. ~(page * PageSize < n) /\ ~((page - 1) * PageSize < n)
  <2>1. Len(Window(s, page)) =
             IF page * PageSize < Len(s) THEN PageSize
             ELSE IF (page - 1) * PageSize < Len(s) THEN Len(s) - (page - 1) * PageSize
             ELSE 0
    BY <1>1, WindowHolds
  <2>2. Len(Window(s, page)) = 0
    OBVIOUS
  <2>3. (page - 1) * PageSize \in Nat /\ page * PageSize = (page - 1) * PageSize + PageSize
    BY <1>2
  <2> HIDE DEF n
  <2> QED
    BY <1>1, <1>2, <2>1, <2>2, <2>3
<1>4. n = 0
  <2>1. ASSUME n > 0 PROVE FALSE
    <3>1. /\ TotalPages(n) \in Nat \ {0} /\ page <= TotalPages(n)
          /\ (TotalPages(n) - 1) * PageSize < n
      BY <1>1, <2>1, TotalPagesHold
    <3>2. page - 1 \in Nat /\ TotalPages(n) - 1 \in Nat /\ page - 1 <= TotalPages(n) - 1
      BY <3>1
    <3>3. (page - 1) * PageSize <= (TotalPages(n) - 1) * PageSize
      BY <1>2, <3>2, TimesGrows
    <3>4. (page - 1) * PageSize \in Nat /\ (TotalPages(n) - 1) * PageSize \in Nat
      BY <1>2, <3>2
    <3> HIDE DEF n
    <3> QED
      BY <1>1, <1>3, <3>1, <3>3, <3>4
  <2> QED
    BY <1>1, <2>1
<1> QED
  BY <1>4, FS_EmptySet

(* The window (list_user_events), and the redirect (dashboard_page).        *)
LEMMA RedirectStep ==
    ASSUME IInv, WalkInv, ReadWindow, walk.how = "page" /\ Beyond
    PROVE  WalkInv'
<1> DEFINE last == TotalPages(walk.total)
           all == Matching(walk.who, walk.filter)
<1>1. walk \in Reader /\ walk.at = "window"
  BY DEF ReadWindow, WalkInv, Idle
<1>2. /\ walk' = [walk EXCEPT !.at = "count", !.first = last, !.total = 0,
                             !.page = last, !.seen = <<>>]
      /\ UNCHANGED <<rows, used, walks>>
  BY DEF ReadWindow, Kept
<1>3. last \in Nat \ {0}
  <2>1. walk.total \in Nat
    BY <1>1 DEF Reader
  <2> QED
    BY <2>1, TotalPagesHold
<1>4. Cardinality(all) \in Nat
  BY FiniteMatching DEF WalkInv
<1> HIDE DEF last
<1>5. walk' \in Reader
  <2> DEFINE w1 == [walk EXCEPT !.at = "count", !.first = last, !.page = last]
  <2>1. w1 \in Reader
    BY <1>1, <1>3 DEF Reader
  <2>2. walk' = [w1 EXCEPT !.total = 0, !.seen = <<>>]
    BY <1>1, <1>2 DEF Reader
  <2>3. <<>> \in Seq(Id)
    OBVIOUS
  <2> HIDE DEF w1
  <2> QED
    BY <2>1, <2>2, <2>3 DEF Reader
<1>6. /\ walk'.at = "count" /\ walk'.who = walk.who
      /\ walk'.filter = walk.filter /\ walk'.sort = walk.sort
      /\ walk'.first = last /\ walk'.page = last /\ walk'.seen = <<>>
      /\ walk'.welcome = walk.welcome
  BY <1>1, <1>2 DEF Reader
<1>7. Told(walk', all, Sorted(walk))
  <2>1. 0 * PageSize = 0
    BY PageSizeAssumption
  <2>2. walk'.first = 1 => Reached(walk') = 0
    BY <1>6 DEF Reached
  <2> HIDE DEF all
  <2> QED
    BY <1>4, <1>6, <2>1, <2>2 DEF Told
<1>8. SeenSoFar'
  BY <1>2, <1>5, <1>6, <1>7, SeenNext
<1>9. WelcomedLast'
  BY <1>1, <1>6 DEF WelcomedLast, WalkInv
<1> QED
  BY <1>2, <1>5, <1>6, <1>8, <1>9
     DEF WalkInv, EmptyFromTheWindow, EmptyMeansNone, NoFalseWelcome

(* The window of a page that there is (list_user_events).                   *)
LEMMA WindowStep ==
    ASSUME IInv, WalkInv, ReadWindow, ~(walk.how = "page" /\ Beyond)
    PROVE  WalkInv'
<1> DEFINE all == Matching(walk.who, walk.filter)
           before == Sorted(walk)
           at == IF walk.how = "page" THEN "types" ELSE "shown"
<1>1. walk \in Reader /\ walk.at = "window"
  BY DEF ReadWindow, WalkInv, Idle
<1>2. UNCHANGED <<rows, used, walks>>
  BY DEF ReadWindow, Kept
<1>3. PICK s \in OrdersOf(all, before) :
        walk' = [walk EXCEPT !.at = at, !.items = Window(s, walk.page),
                             !.seen = walk.seen \o Window(s, walk.page)]
  BY DEF ReadWindow
<1>4. /\ IsFiniteSet(all) /\ Cardinality(all) \in Nat /\ Strict(all, before)
      /\ all \subseteq Id
  BY FiniteMatching, BeforeIsStrict DEF WalkInv, Matching
<1> DEFINE items == Window(s, walk.page)
           more == walk.seen \o items
<1>5. walk.page \in Nat \ {0} /\ walk.seen \in Seq(Id) /\ walk.total \in Nat
  BY <1>1 DEF Reader
<1>6. items \in Seq(Id) /\ more \in Seq(Id)
  <2>1. s \in Seq(all)
    BY <1>4, OrderNamesAll
  <2>2. s \in Seq(Id)
    BY <1>4, <2>1
  <2>3. items \in Seq(Id)
    BY <1>5, <2>2, WindowHolds
  <2> QED
    BY <1>5, <2>3
<1>7. at \in {"types", "shown"} /\ (at = "types" <=> walk.how = "page")
  BY <1>1 DEF Reader
<1> HIDE DEF at
<1>8. walk' \in Reader
  <2> DEFINE w1 == [walk EXCEPT !.at = at]
  <2>1. w1 \in Reader
    BY <1>1, <1>7 DEF Reader
  <2>2. walk' = [w1 EXCEPT !.items = items, !.seen = more]
    BY <1>1, <1>3 DEF Reader
  <2> HIDE DEF w1, items, more
  <2> QED
    BY <1>6, <2>1, <2>2 DEF Reader
<1>9. /\ walk'.at = at /\ walk'.total = walk.total /\ walk'.who = walk.who
      /\ walk'.filter = walk.filter /\ walk'.sort = walk.sort /\ walk'.calm = walk.calm
      /\ walk'.first = walk.first /\ walk'.page = walk.page /\ walk'.seen = more
      /\ walk'.how = walk.how /\ walk'.items = items /\ walk'.welcome = walk.welcome
  BY <1>1, <1>3 DEF Reader
<1>10. ASSUME walk.calm PROVE Told(walk, all, before)
  BY <1>1, <1>10, SeenNow DEF WalkInv
<1>11. ASSUME walk.calm PROVE Told(walk', all, before)
  <2>1. walk.total = Cardinality(all)
    BY <1>1, <1>10, <1>11 DEF Told
  <2>2. Reached(walk) = walk.page - 1 /\ Reached(walk') = walk.page
    BY <1>1, <1>7, <1>9 DEF Reached
  <2>3. ASSUME walk.first = 1
        PROVE  /\ Len(more) = IF walk.page * PageSize < Cardinality(all) THEN walk.page * PageSize
                              ELSE Cardinality(all)
               /\ Total(all, before) => \A m \in 1..Len(more) : more[m] = s[m]
    <3>1. Len(walk.seen) = IF (walk.page - 1) * PageSize < Cardinality(all)
                           THEN (walk.page - 1) * PageSize ELSE Cardinality(all)
      BY <1>10, <1>11, <2>2, <2>3 DEF Told
    <3>2. Total(all, before) /\ walk.seen # <<>> =>
            \E t \in OrdersOf(all, before) : \A m \in 1..Len(walk.seen) : walk.seen[m] = t[m]
      BY <1>10, <1>11, <2>3 DEF Told
    <3> HIDE DEF all, before
    <3> DEFINE page == walk.page
               seen == walk.seen
    <3>3. /\ page \in Nat \ {0} /\ seen \in Seq(Id)
          /\ Len(seen) = IF (page - 1) * PageSize < Cardinality(all) THEN (page - 1) * PageSize
                         ELSE Cardinality(all)
          /\ Total(all, before) /\ seen # <<>> =>
               \E t \in OrdersOf(all, before) : \A m \in 1..Len(seen) : seen[m] = t[m]
      BY <1>5, <3>1, <3>2
    <3> HIDE DEF page, seen
    <3>4. LET both == seen \o Window(s, page) IN
          /\ Len(both) = IF page * PageSize < Cardinality(all) THEN page * PageSize
                         ELSE Cardinality(all)
          /\ Total(all, before) => \A m \in 1..Len(both) : both[m] = s[m]
      BY <1>4, <3>3, OnePageMore
    <3> QED
      BY <3>4 DEF page, seen
  <2> HIDE DEF all, before, items, more
  <2> QED
    BY <1>9, <2>1, <2>2, <2>3 DEF Told
<1>12. SeenSoFar'
  BY <1>2, <1>8, <1>9, <1>11, SeenNext
<1>13. ASSUME walk'.how = "page", walk'.items = <<>>, walk'.calm PROVE all = {}
  <2>1. walk.total = Cardinality(all)
    BY <1>1, <1>9, <1>10, <1>13 DEF Told
  <2>2. ~(Cardinality(all) > 0 /\ walk.page > TotalPages(Cardinality(all)))
    BY <1>9, <1>13, <2>1 DEF Beyond
  <2>3. Window(s, walk.page) = <<>>
    BY <1>9, <1>13
  <2> HIDE DEF all, before
  <2> QED
    BY <1>4, <1>5, <2>2, <2>3, EmptyWindow
<1>14. EmptyFromTheWindow'
  <2>1. Matching(walk.who, walk.filter)' = all
    BY <1>2, <1>9 DEF Matching, Matches, Owned
  <2> QED
    BY <1>13, <2>1 DEF EmptyFromTheWindow
<1>15. ~walk'.welcome
  BY <1>1, <1>9 DEF WelcomedLast, WalkInv
<1>16. EmptyMeansNone'
  BY <1>7, <1>9 DEF EmptyMeansNone
<1> QED
  BY <1>2, <1>8, <1>12, <1>14, <1>15, <1>16 DEF WalkInv, WelcomedLast, NoFalseWelcome

(* Only a run gives out ids, and finitely many at a time (SaveEvents).      *)
LEMMA SavedAreFinite ==
    ASSUME IsFiniteSet(used), NEW u, NEW extracted, IsFiniteSet(extracted),
           SaveEvents(u, extracted)
    PROVE  IsFiniteSet(used')
<1> DEFINE new == {k \in extracted : \A i \in Stored : rows[i].owner = u => rows[i].key # k}
           id == CHOOSE f \in Injection(new, Id \ used) : TRUE
           got == {id[k] : k \in new}
<1>1. used' = used \cup got
  BY DEF SaveEvents
<1>2. id \in [new -> Id \ used]
  <2>1. id \in Injection(new, Id \ used)
    BY DEF SaveEvents
  <2> QED
    BY <2>1 DEF Injection
<1>3. IsFiniteSet(new)
  BY FS_Subset
<1> HIDE DEF new, id
<1>4. id \in Surjection(new, got)
  BY <1>2 DEF Surjection
<1>5. IsFiniteSet(got)
  BY <1>3, <1>4, FS_Surjection
<1> QED
  BY <1>1, <1>5, FS_Union

(* A step that concerns neither rows nor reader.                            *)
LEMMA AsideStep ==
    ASSUME IInv, WalkInv, UNCHANGED <<rows, used, walk, walks>>
    PROVE  WalkInv'
<1>1. Overwrite(rows)
  BY DEF Overwrite
<1> QED
  BY <1>1, WriteStep DEF WalkInv

(* No step deceives the reader.                                             *)
LEMMA NextWalk ==
    ASSUME IInv, WalkInv, [Next]_vars
    PROVE  WalkInv'
<1>1. ASSUME NEW q \in Request, NEW u \in User, NEW i \in Id,
             SelectToDelete(q, u, i) \/ \E v \in BOOLEAN : SelectToUpdate(q, u, i, v)
      PROVE  WalkInv'
  BY <1>1, AsideStep DEF SelectToDelete, SelectToUpdate, Select
<1>2. ASSUME NEW q \in Request, delete_event(q) \/ update_event(q) PROVE WalkInv'
  <2>1. (\E new : Overwrite(new)) /\ UNCHANGED <<used, walks>>
    BY <1>2 DEF delete_event, update_event
  <2> QED
    BY <2>1, WriteStep DEF WalkInv
<1>3. ASSUME NEW q \in Request, Leave(q) PROVE WalkInv'
  BY <1>3, AsideStep DEF Leave
<1>4. ASSUME NEW u \in User, NEW body \in Bodies,
             bulk_delete_events(u, body) \/ bulk_review_events(u, body)
      PROVE  WalkInv'
  <2>1. (\E new : Overwrite(new)) /\ UNCHANGED <<used, walks>>
    BY <1>4 DEF bulk_delete_events, bulk_review_events
  <2> QED
    BY <2>1, WriteStep DEF WalkInv
<1>5. ASSUME NEW e \in Extracts, SaveEvents(e[1], e[2]) PROVE WalkInv'
  <2>1. IsFiniteSet(used')
    BY <1>5, StoreAssumption, SavedAreFinite DEF WalkInv
  <2>2. (\E new : Overwrite(new)) /\ UNCHANGED walks
    BY <1>5 DEF SaveEvents
  <2> QED
    BY <2>1, <2>2, WriteStep
<1>6. ASSUME NEW ask \in Questions, StartWalk(ask) PROVE WalkInv'
  BY <1>6, StartStep
<1>7. ASSUME Serve \/ NextPage \/ GoAway PROVE WalkInv'
  BY <1>7, CountStep, RedirectStep, WindowStep, RenderStep, NextPageStep, GoAwayStep DEF Serve
<1>8. ASSUME UNCHANGED vars PROVE WalkInv'
  BY <1>8, AsideStep DEF vars
<1> QED
  BY <1>1, <1>2, <1>3, <1>4, <1>5, <1>6, <1>7, <1>8 DEF Next

(* Nobody reads at first.                                                   *)
LEMMA InitWalk == Init => WalkInv
<1> SUFFICES ASSUME Init PROVE WalkInv
  OBVIOUS
<1>1. walk = Idle /\ walk.at = "idle" /\ walks = 0 /\ used = {}
  BY DEF Init, Idle
<1>2. IsFiniteSet(used)
  BY <1>1, FS_EmptySet
<1> QED
  BY <1>1, <1>2, StoreAssumption
     DEF WalkInv, SeenSoFar, EmptyFromTheWindow, WelcomedLast, EmptyMeansNone, NoFalseWelcome

(* A reader who has followed the pages to the last has seen the whole list. *)
LEMMA LastPageIsAll ==
    ASSUME IInv, WalkInv
    PROVE  WalkShowsAll
<1> DEFINE all == Matching(walk.who, walk.filter)
           n == Cardinality(all)
<1> SUFFICES ASSUME walk.at = "shown", walk.first = 1, walk.calm,
                    walk.page >= TotalPages(walk.total)
             PROVE  /\ Len(walk.seen) = n
                    /\ Untied(all, walk.sort) =>
                        /\ Range(walk.seen) = all
                        /\ \A m \in 1..(Len(walk.seen) - 1) :
                             EventBefore(walk.seen[m], walk.seen[m + 1], walk.sort)
  BY DEF WalkShowsAll
<1>1. walk \in Reader /\ walk # Idle
  BY DEF WalkInv, Idle
<1>2. IsFiniteSet(all) /\ n \in Nat
  BY FiniteMatching DEF WalkInv
<1>3. /\ walk.total = n
      /\ Len(walk.seen) = IF walk.page * PageSize < n THEN walk.page * PageSize ELSE n
      /\ Untied(all, walk.sort) /\ walk.seen # <<>> =>
            \E s \in OrdersOf(all, Sorted(walk)) : \A m \in 1..Len(walk.seen) : walk.seen[m] = s[m]
  BY <1>1 DEF WalkInv, SeenSoFar, Upto
<1>4. Len(walk.seen) = n
  <2>1. n <= TotalPages(n) * PageSize /\ TotalPages(n) \in Nat /\ walk.page \in Nat
    BY <1>1, <1>2, TotalPagesHold DEF Reader
  <2>2. TotalPages(n) * PageSize <= walk.page * PageSize
    BY <1>3, <2>1, TimesGrows, PageSizeAssumption
  <2>3. TotalPages(n) * PageSize \in Nat /\ walk.page * PageSize \in Nat
    BY <2>1, PageSizeAssumption
  <2> HIDE DEF n
  <2> QED
    BY <1>2, <1>3, <2>1, <2>2, <2>3
<1>5. ASSUME Untied(all, walk.sort)
      PROVE  /\ Range(walk.seen) = all
             /\ \A m \in 1..(Len(walk.seen) - 1) :
                  EventBefore(walk.seen[m], walk.seen[m + 1], walk.sort)
  <2>1. CASE walk.seen = <<>>
    <3>1. all = {}
      BY <1>2, <1>4, <2>1, FS_EmptySet
    <3>2. Range(walk.seen) = {} /\ Len(walk.seen) = 0
      BY <2>1 DEF Range
    <3> QED
      BY <3>1, <3>2
  <2>2. CASE walk.seen # <<>>
    <3>1. PICK s \in OrdersOf(all, Sorted(walk)) : \A m \in 1..Len(walk.seen) : walk.seen[m] = s[m]
      BY <1>3, <1>5, <2>2
    <3>2. /\ s \in Seq(all) /\ Len(s) = n /\ Range(s) = all
          /\ \A i, j \in 1..Len(s) : s[i] = s[j] => i = j
          /\ \A i, j \in 1..Len(s) : i < j => <<s[j], s[i]>> \notin Sorted(walk)
      BY <1>2, OrderNamesAll
    <3>3. walk.seen \in Seq(Id)
      BY <1>1 DEF Reader
    <3>4. Range(walk.seen) = Range(s)
      BY <1>4, <3>1, <3>2, <3>3 DEF Range
    <3>5. ASSUME NEW m \in 1..(Len(walk.seen) - 1)
          PROVE  EventBefore(walk.seen[m], walk.seen[m + 1], walk.sort)
      <4>1. /\ m \in 1..Len(s) /\ m + 1 \in 1..Len(s) /\ m < m + 1 /\ m # m + 1
            /\ walk.seen[m] = s[m] /\ walk.seen[m + 1] = s[m + 1]
        BY <1>2, <1>4, <3>1, <3>2
      <4>2. s[m] \in all /\ s[m + 1] \in all /\ s[m] # s[m + 1]
        BY <3>2, <4>1
      <4>3. ~EventBefore(s[m + 1], s[m], walk.sort)
        BY <3>2, <4>1, <4>2 DEF Sorted
      <4> HIDE DEF all
      <4> QED
        BY <1>5, <4>1, <4>2, <4>3 DEF Untied, Tied
    <3> QED
      BY <3>2, <3>4, <3>5
  <2> QED
    BY <2>1, <2>2
<1> QED
  BY <1>4, <1>5

(* Both parts of the state stay as they should.                             *)
LEMMA WalkInvariance == Spec => [](IInv /\ WalkInv)
<1>1. Init => IInv /\ WalkInv
  BY InitStore, InitWalk
<1>2. IInv /\ WalkInv /\ [Next]_vars => (IInv /\ WalkInv)'
  BY NextStore, NextWalk
<1> QED
  BY <1>1, <1>2, PTL DEF Spec

(* What the requests and the reader are told of the table is true.          *)
THEOREM AnswersTrue == Spec => []AnswersConsistent
<1>1. IInv /\ WalkInv => AnswersConsistent
  BY BulkTold DEF IInv, WalkInv, AnswersConsistent, TypeOK
<1> QED
  BY <1>1, WalkInvariance, PTL

(* A reader of an unchanging list who goes on to the last page sees all.    *)
THEOREM WalkComplete == Spec => []WalkShowsAll
<1>1. IInv /\ WalkInv => WalkShowsAll
  BY LastPageIsAll
<1> QED
  BY <1>1, WalkInvariance, PTL
=============================================================================
