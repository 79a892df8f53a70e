------------------------------ MODULE EventStore ------------------------------
(***************************************************************************)
(* The events table under the requests of the events API, the runs that    *)
(* insert into it, and a reader that walks through the pages of a list.    *)
(*                                                                         *)
(* A single delete or review selects its row and writes it in a later      *)
(* statement; the bulk endpoints are one statement each.  A list is a      *)
(* count, a window and, on the dashboard, the types: three statements that *)
(* see three states.  A statement and the commit that follows at once are  *)
(* one step.                                                               *)
(***************************************************************************)
EXTENDS Listing

CONSTANTS
    User,
    Id,             (* primary keys, given out in any order                *)
    Key,            (* (description, resolved_date) pairs                  *)
    DateOf,         (* resolved_date_earliest of a key, or None            *)
    TypeOf,         (* type of a key                                       *)
    Request,        (* single deletes and reviews being served at once     *)
    Extracts,       (* BOUND: whose runs may extract which sets of keys    *)
    Bodies,         (* BOUND: what the bulk endpoints are sent             *)
    Questions,      (* BOUND: the lists that a reader asks for             *)
    MaxSaves,       (* BOUND: how many runs save events                    *)
    MaxWalks        (* BOUND: how many times a reader starts               *)

ASSUME StoreAssumption ==
    /\ DateOf \in [Key -> Nat \cup {None}]
    /\ DOMAIN TypeOf = Key
    /\ None \notin Nat \cup Id \cup User
    /\ Extracts \subseteq User \X SUBSET Key
    /\ \A e \in Extracts : IsFiniteSet(e[2])
    /\ \A body \in Bodies : body \in Seq(Id) /\ Len(body) \in 1..PageSize
    /\ MaxSaves \in Nat /\ MaxWalks \in Nat

VARIABLES
    rows,       (* committed rows, by id                                   *)
    used,       (* ids that have been given out                            *)
    saves,      (* transactions of runs so far: the clock of created_at    *)
    req,        (* what each request has read and is about to write        *)
    walk,       (* the reader                                              *)
    walks       (* how many times it has started                           *)

vars == <<rows, used, saves, req, walk, walks>>

Event  == [owner : User, key : Key, made : 1..MaxSaves, reviewed : BOOLEAN]
Types  == {TypeOf[k] : k \in Key}
Filter == [show_reviewed : BOOLEAN, type : Types \cup {None},
           from : Nat \cup {None}, to : Nat \cup {None}]

ASSUME NoneIsNoEvent == None \notin Event

Idle   == [at |-> "idle"]
Single == [at : {"delete", "update"}, who : User, id : Id, row : Event, reviewed : BOOLEAN]
Answer == [at : {"answered"}, status : {200, 500}]

Question == [how : {"page", "json"}, who : User, filter : Filter, sort : Sorts, page : Nat \ {0}]

ASSUME QuestionsAssumption == Questions \subseteq Question

Reader == [at : {"count", "window", "types", "shown"}, how : {"page", "json"}, who : User,
           filter : Filter, sort : Sorts, first : Nat \ {0}, page : Nat \ {0}, total : Nat,
           items : Seq(Id), seen : Seq(Id), welcome : BOOLEAN, calm : BOOLEAN]

RowsTypeOK ==
    /\ rows  \in [Id -> Event \cup {None}]
    /\ used  \in SUBSET Id
    /\ saves \in 0..MaxSaves
    /\ req   \in [Request -> {Idle} \cup Single \cup Answer]

TypeOK ==
    /\ RowsTypeOK
    /\ walk  \in {Idle} \cup Reader
    /\ walks \in 0..MaxWalks

Init ==
    /\ rows  = [i \in Id |-> None]
    /\ used  = {}
    /\ saves = 0
    /\ req   = [q \in Request |-> Idle]
    /\ walk  = Idle
    /\ walks = 0

-----------------------------------------------------------------------------
Stored == {i \in Id : rows[i] # None}

(* The row exists and is the user's. *)
Owned(i, u) == rows[i] # None /\ rows[i].owner = u

(* list_user_events' conditions. *)
Matches(i, u, f) ==
    /\ Owned(i, u)
    /\ f.show_reviewed \/ ~rows[i].reviewed
    /\ f.type # None => TypeOf[rows[i].key] = f.type
    /\ DateWithin(DateOf[rows[i].key], f.from, f.to)

Matching(u, f) == {i \in Id : Matches(i, u, f)}

(* The order of the list: by date, then by the time of insertion. *)
EventBefore(i, j, sort) ==
    LET a == DateOf[rows[i].key]
        b == DateOf[rows[j].key]
    IN \/ DateBefore(a, b, sort)
       \/ a = b /\ Precedes(rows[i].made, rows[j].made, sort)

Sorted(ask) ==
    LET all == Matching(ask.who, ask.filter)
    IN {p \in all \X all : EventBefore(p[1], p[2], ask.sort)}

Tied(i, j, sort) == ~EventBefore(i, j, sort) /\ ~EventBefore(j, i, sort)

(* The reader notices that rows have changed under it. *)
Watched == IF walk = Idle THEN Idle ELSE [walk EXCEPT !.calm = FALSE]

Overwrite(new) ==
    /\ rows' = new
    /\ walk' = IF new = rows THEN walk ELSE Watched

Answered(q, code) == req' = [req EXCEPT ![q] = [at |-> "answered", status |-> code]]

-----------------------------------------------------------------------------
(* DELETE and PATCH /events/{id} *)

(* get_owned_event; for a row that is not there and for one of another user *)
(* alike the answer is 404 and nothing happens.                             *)
Select(q, kind, u, i, v) ==
    /\ req[q] = Idle
    /\ Owned(i, u)
    /\ req' = [req EXCEPT ![q] = [at |-> kind, who |-> u, id |-> i, row |-> rows[i],
                                  reviewed |-> v]]
    /\ UNCHANGED <<rows, used, saves, walk, walks>>

SelectToDelete(q, u, i) == Select(q, "delete", u, i, FALSE)
SelectToUpdate(q, u, i, v) == Select(q, "update", u, i, v)

(* The DELETE goes by primary key; one that finds nothing is only warned of. *)
delete_event(q) ==
    /\ req[q].at = "delete"
    /\ Overwrite([rows EXCEPT ![req[q].id] = None])
    /\ req' = [req EXCEPT ![q] = Idle]
    /\ UNCHANGED <<used, saves, walks>>

(* A mutated form of update_event: the row as it was loaded is merged back. *)
update_event_merges(q) ==
    /\ req[q].at = "update"
    /\ Overwrite([rows EXCEPT ![req[q].id] = [req[q].row EXCEPT !.reviewed = req[q].reviewed]])
    /\ Answered(q, 200)
    /\ UNCHANGED <<used, saves, walks>>

(* A mutated form of update_event: an UPDATE that finds nothing goes unnoticed. *)
update_event_unchecked(q) ==
    /\ req[q].at = "update"
    /\ LET i == req[q].id IN
       Overwrite(IF rows[i] = None THEN rows ELSE [rows EXCEPT ![i].reviewed = req[q].reviewed])
    /\ Answered(q, 200)
    /\ UNCHANGED <<used, saves, walks>>

(* The flush writes the flag if it differs from the one loaded, and fails   *)
(* when the row to write is gone.                                           *)
update_event(q) ==
    /\ req[q].at = "update"
    /\ LET i == req[q].id
           v == req[q].reviewed
       IN IF v = req[q].row.reviewed
            THEN Overwrite(rows) /\ Answered(q, 200)
          ELSE IF rows[i] = None
            THEN Overwrite(rows) /\ Answered(q, 500)
          ELSE Overwrite([rows EXCEPT ![i].reviewed = v]) /\ Answered(q, 200)
    /\ UNCHANGED <<used, saves, walks>>

(* The client has its answer, or the process died and it never gets one. *)
Leave(q) ==
    /\ req[q] # Idle
    /\ req' = [req EXCEPT ![q] = Idle]
    /\ UNCHANGED <<rows, used, saves, walk, walks>>

-----------------------------------------------------------------------------
(* POST /events/bulk-delete and bulk-review *)

(* Each id once: the places at which the body mentions it first. *)
Deduped(body) == {n \in DOMAIN body : \A m \in 1..(n - 1) : body[m] # body[n]}

(* What the one statement with RETURNING touches; the rest has failed, and  *)
(* is answered in the order of these places.                                *)
BulkResult(u, body) ==
    LET hit == {i \in Range(body) : Owned(i, u)}
    IN [succeeded |-> hit, failed |-> {n \in Deduped(body) : body[n] \notin hit}]

bulk_delete_events(u, body) ==
    /\ LET hit == BulkResult(u, body).succeeded IN
       Overwrite([i \in Id |-> IF i \in hit THEN None ELSE rows[i]])
    /\ UNCHANGED <<used, saves, req, walks>>

(* Whether reviewed already or not. *)
bulk_review_events(u, body) ==
    /\ LET hit == BulkResult(u, body).succeeded IN
       Overwrite([i \in Id |-> IF i \in hit THEN [rows[i] EXCEPT !.reviewed = TRUE] ELSE rows[i]])
    /\ UNCHANGED <<used, saves, req, walks>>

-----------------------------------------------------------------------------
(* A run saves those of its events that the user does not have, in one      *)
(* transaction, whose time they all get.  Ids are interchangeable.          *)
SaveEvents(u, extracted) ==
    LET new == {k \in extracted : \A i \in Stored : rows[i].owner = u => rows[i].key # k} IN
    /\ saves < MaxSaves
    /\ new # {} /\ Injection(new, Id \ used) # {}
    /\ LET id == CHOOSE f \in Injection(new, Id \ used) : TRUE
           row(k) == [owner |-> u, key |-> k, made |-> saves + 1, reviewed |-> FALSE]
       IN /\ Overwrite([i \in Id |-> IF \E k \in new : id[k] = i
                                     THEN row(CHOOSE k \in new : id[k] = i) ELSE rows[i]])
          /\ used' = used \cup {id[k] : k \in new}
    /\ saves' = saves + 1
    /\ UNCHANGED <<req, walks>>

-----------------------------------------------------------------------------
(* GET /events and GET /dashboard *)

Kept == <<rows, used, saves, req>>

(* A link, a form or a bookmark. *)
StartWalk(ask) ==
    /\ walk = Idle /\ walks < MaxWalks
    /\ walk' = [at |-> "count", how |-> ask.how, who |-> ask.who, filter |-> ask.filter,
                sort |-> ask.sort, first |-> ask.page, page |-> ask.page, total |-> 0,
                items |-> <<>>, seen |-> <<>>, welcome |-> FALSE, calm |-> TRUE]
    /\ walks' = walks + 1
    /\ UNCHANGED Kept

Count ==
    /\ walk.at = "count"
    /\ walk' = [walk EXCEPT !.at = "window",
                            !.total = Cardinality(Matching(walk.who, walk.filter))]
    /\ UNCHANGED <<Kept, walks>>

Beyond == walk.total > 0 /\ walk.page > TotalPages(walk.total)

(* The dashboard redirects from a page beyond the last to the last; the     *)
(* JSON endpoint answers with an empty list.                                *)
ReadWindow ==
    /\ walk.at = "window"
    /\ \E s \in OrdersOf(Matching(walk.who, walk.filter), Sorted(walk)) :
         LET items == Window(s, walk.page) IN
         walk' = IF walk.how = "page" /\ Beyond
                 THEN [walk EXCEPT !.at = "count", !.first = TotalPages(walk.total), !.total = 0,
                                   !.page = TotalPages(walk.total), !.seen = <<>>]
                 ELSE [walk EXCEPT !.at = IF walk.how = "page" THEN "types" ELSE "shown",
                                   !.items = items, !.seen = @ \o items]
    /\ UNCHANGED <<Kept, walks>>

(* list_user_event_types looks at all of the user's events. *)
HasFilters(u, f) ==
    \/ f.type # None \/ f.from # None \/ f.to # None \/ f.show_reviewed
    \/ \E i \in Id : Owned(i, u)

(* An empty page says "No events yet" or "No events match these filters". *)
Render ==
    /\ walk.at = "types"
    /\ walk' = [walk EXCEPT !.at = "shown",
                            !.welcome = walk.items = <<>> /\ ~HasFilters(walk.who, walk.filter)]
    /\ UNCHANGED <<Kept, walks>>

(* next_url *)
NextPage ==
    /\ walk.at = "shown" /\ walk.page < TotalPages(walk.total)
    /\ walk' = [walk EXCEPT !.at = "count", !.page = @ + 1, !.total = 0,
                            !.items = <<>>, !.welcome = FALSE]
    /\ UNCHANGED <<Kept, walks>>

GoAway ==
    /\ walk.at = "shown"
    /\ walk' = Idle
    /\ UNCHANGED <<Kept, walks>>

-----------------------------------------------------------------------------
Serve == Count \/ ReadWindow \/ Render

Next ==
    \/ \E q \in Request, u \in User, i \in Id :
         SelectToDelete(q, u, i) \/ \E v \in BOOLEAN : SelectToUpdate(q, u, i, v)
    \/ \E q \in Request : delete_event(q) \/ update_event(q) \/ Leave(q)
    \/ \E u \in User, body \in Bodies :
         bulk_delete_events(u, body) \/ bulk_review_events(u, body)
    \/ \E e \in Extracts : SaveEvents(e[1], e[2])
    \/ \E ask \in Questions : StartWalk(ask)
    \/ Serve \/ NextPage \/ GoAway

Spec == Init /\ [][Next]_vars

-----------------------------------------------------------------------------
(* Properties *)

(* Every id sent to a bulk endpoint is reported exactly once: as succeeded  *)
(* if the row is there and the user's, as failed otherwise                  *)
(* (bulk_delete_events, bulk_review_events).                                *)
BulkAnswersTrue ==
    \A u \in User, body \in Bodies :
        LET r == BulkResult(u, body) IN
        /\ Cardinality(r.failed) + Cardinality(r.succeeded) = Cardinality(Range(body))
        /\ {body[n] : n \in r.failed} \cup r.succeeded = Range(body)
        /\ \A i \in Range(body) : i \in r.succeeded <=> Owned(i, u)

(* A deleted event stays deleted: the write of a request that had loaded it *)
(* does not bring it back (delete_event, update_event).                     *)
NothingComesBack == \A i \in used : rows[i] = None => rows'[i] = None

(* A reviewed event becomes unreviewed by a PATCH that says so and by       *)
(* nothing else (bulk_review_events can only ever set the flag).            *)
ReviewedStays ==
    \A i \in Id : rows[i] # None /\ rows[i].reviewed /\ rows'[i] # None =>
        \/ rows'[i].reviewed
        \/ \E q \in Request : req[q].at = "update" /\ req[q].id = i /\ ~req[q].reviewed

(* What one step changes or removes belongs to one user, and to the one who *)
(* asked for it (get_owned_event and the WHERE clauses of the bulk          *)
(* statements).                                                             *)
OthersUntouched ==
    LET touched == {i \in Stored : rows'[i] # rows[i]} IN
    /\ \A i, j \in touched : rows[i].owner = rows[j].owner
    /\ \A q \in Request : req[q] \in Single /\ req'[q] # req[q] =>
           \A i \in touched : rows[i].owner = req[q].who

(* No interleaving of requests changes a row in a way that none of them has *)
(* asked for.                                                               *)
OnlyAsAsked == [][NothingComesBack /\ ReviewedStays /\ OthersUntouched]_rows

(* When a review is answered 200, the event had the flag it is answered     *)
(* with when it was loaded, and then nothing is written and a deletion in   *)
(* between goes unnoticed, or there is such an event now and it has it: a   *)
(* change of the flag is never answered for an event that is gone           *)
(* (update_event).                                                          *)
ReviewAnswerWasTrue ==
    [][\A q \in Request : req[q].at = "update" /\ req'[q] = [at |-> "answered", status |-> 200] =>
         \/ req[q].row.reviewed = req[q].reviewed
         \/ rows'[req[q].id] # None /\ rows'[req[q].id].reviewed = req[q].reviewed]_req

Untied(S, sort) == \A i, j \in S : i # j => ~Tied(i, j, sort)

(* A reader who follows the pages to the last while nothing changes sees    *)
(* every event of the filter: as many as there are, and, when no two of     *)
(* them tie, each once and in order (list_user_events' count, order,        *)
(* offset and limit).                                                       *)
WalkShowsAll ==
    (walk.at = "shown" /\ walk.first = 1 /\ walk.calm /\ walk.page >= TotalPages(walk.total)) =>
        LET all == Matching(walk.who, walk.filter) IN
        /\ Len(walk.seen) = Cardinality(all)
        /\ Untied(all, walk.sort) =>
            /\ Range(walk.seen) = all
            /\ \A n \in 1..(Len(walk.seen) - 1) : EventBefore(walk.seen[n], walk.seen[n + 1], walk.sort)

(* The dashboard shows an empty page to a user with matching events only if *)
(* they changed while it was being read (the redirect of dashboard_page).   *)
EmptyMeansNone ==
    (walk.at = "shown" /\ walk.how = "page" /\ walk.items = <<>> /\ walk.calm) =>
        Matching(walk.who, walk.filter) = {}

(* "No events yet" is never said to a user who has some, unless they came   *)
(* while the page was being read (has_active_filters).                      *)
NoFalseWelcome ==
    (walk.at = "shown" /\ walk.welcome /\ walk.calm) => \A i \in Id : ~Owned(i, walk.who)

(* What the reader has seen while nothing changed: as much of the list as   *)
(* its pages hold, in order when no two events tie, and from the moment of  *)
(* the count on as many as were counted (list_user_events).                 *)
Upto == IF walk.at \in {"count", "window"} THEN walk.page - 1 ELSE walk.page

SeenSoFar ==
    walk # Idle /\ walk.calm =>
        LET all == Matching(walk.who, walk.filter)
            n   == Cardinality(all)
        IN /\ walk.at # "count" => walk.total = n
           /\ walk.first = 1 =>
               /\ Len(walk.seen) = IF Upto * PageSize < n THEN Upto * PageSize ELSE n
               /\ Untied(all, walk.sort) /\ walk.seen # <<>> =>
                   \E s \in OrdersOf(all, Sorted(walk)) :
                       \A m \in 1..Len(walk.seen) : walk.seen[m] = s[m]

(* An empty page is empty already when its types are read (dashboard_page). *)
EmptyFromTheWindow ==
    (walk.at = "types" /\ walk.how = "page" /\ walk.items = <<>> /\ walk.calm) =>
        Matching(walk.who, walk.filter) = {}

(* Nobody is welcomed before the page is put together (dashboard_page).     *)
WelcomedLast == walk.at \in {"count", "window", "types"} => ~walk.welcome

(* The row that a request has loaded is its user's, and so is whatever its  *)
(* id stands for by now; ids are never given out again (get_owned_event).   *)
HoldsOwn(q) ==
    req[q] \in Single =>
        /\ req[q].row.owner = req[q].who
        /\ req[q].id \in used
        /\ rows[req[q].id] # None => rows[req[q].id].owner = req[q].who

RequestsHoldOwn ==
    /\ \A i \in Id : rows[i] # None => i \in used
    /\ \A q \in Request : HoldsOwn(q)

(* The inductive invariant behind the action properties. *)
IInv == RowsTypeOK /\ RequestsHoldOwn

(* What the requests and the reader are told of the table at any moment.    *)
AnswersConsistent ==
    /\ TypeOK
    /\ RequestsHoldOwn
    /\ BulkAnswersTrue
    /\ SeenSoFar
    /\ EmptyFromTheWindow
    /\ WelcomedLast
    /\ EmptyMeansNone
    /\ NoFalseWelcome
=============================================================================
