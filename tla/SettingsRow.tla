------------------------------ MODULE SettingsRow ------------------------------
(***************************************************************************)
(* The two rows a user has at most one of, user_settings and llm_prompts,  *)
(* both made by whichever request first finds none: settings and dashboard *)
(* pages, the connection of a storage, the upload and the import with the  *)
(* ProcessingRun rows their session holds uncommitted, the saves of the    *)
(* preferences and of the prompt, and the notification sender.             *)
(*                                                                         *)
(* A request is a sequence of transactions of its own session.  A session  *)
(* keeps the row it read (expire_on_commit is off, nothing is locked) and  *)
(* its UPDATE names only the columns set to another value than the one     *)
(* read.                                                                   *)
(***************************************************************************)
EXTENDS Naturals, FiniteSets

CONSTANTS
    None,       (* no row                                                  *)
    Req,        (* BOUND: the requests of the user, one operation each     *)
    Ops         (* the operations, of Operations below                     *)

VARIABLES
    user,       (* the account exists in the Host                          *)
    contact,    (* channels the Host knows an address of                   *)
    table,      (* the user's row in each table                            *)
    op,         (* what the request does                                   *)
    pc,         (* where it is                                             *)
    seen,       (* the row its session holds                               *)
    known,      (* ghost: the row was there when the request began         *)
    run,        (* its ProcessingRun rows                                  *)
    tasks,      (* requests whose pipeline task was created                *)
    tried       (* channels it sent on, and those that failed              *)

hostVars    == <<user, contact>>
requestVars == <<op, pc, seen, known>>
runVars     == <<run, tasks>>
vars == <<hostVars, table, requestVars, runVars, tried>>

Channel == {"email", "sms"}
Done    == {"storage_done", "notifications_done", "first_upload_done"}
Table   == {"settings", "prompt"}

(* What a row holds when nobody gives a value (models/user_settings.py). *)
SettingsDefault == [c \in Channel \cup Done |-> c \in Channel]
PromptDefault   == [text |-> "factory"]
Default == [settings |-> SettingsDefault, prompt |-> PromptDefault]

(* An operation: its table, the columns it sets, and what it does besides. *)
Operation(kind, on, sets) == [kind |-> kind, on |-> on, sets |-> sets]
Nothing == [c \in {} |-> FALSE]
Only(c) == [x \in {c} |-> TRUE]

(* update_user_settings: the field given, and the onboarding flag. *)
PatchOf(c, v) == [x \in {c, "notifications_done"} |-> IF x = c THEN v ELSE TRUE]

Operations ==
    {Operation("view", t, Nothing) : t \in Table}
    \cup {Operation("notify", "settings", Nothing)}
    \cup {Operation("save", "settings", Only("storage_done"))}
    \cup {Operation(k, "settings", Only("first_upload_done")) : k \in {"upload", "import"}}
    \cup {Operation("save", "settings", PatchOf(c, v)) : c \in Channel, v \in BOOLEAN}
    \cup {Operation("put", "prompt", [text |-> t]) : t \in {"factory", "mine"}}

ASSUME OperationsAssumption == Ops \subseteq Operations

(* The attributes of a row after some of them were set. *)
With(row, sets) == [c \in DOMAIN row |-> IF c \in DOMAIN sets THEN sets[c] ELSE row[c]]

Kind(r)  == op[r].kind
On(r)    == op[r].on
Sets(r)  == op[r].sets
Row(r)   == table[On(r)]
Brings(r) == Kind(r) \in {"upload", "import"}

Ended == {"answered", "error"}
Busy(r) == pc[r] \notin {"new"} \cup Ended

Columns(t) == IF t = "prompt" THEN {"text"} ELSE Channel \cup Done
Values(t)  == IF t = "prompt" THEN {"factory", "mine"} ELSE BOOLEAN
RowOf(t)   == [Columns(t) -> Values(t)]

ASSUME NoneIsNoRow == \A t \in Table : None \notin RowOf(t)

TypeOK ==
    /\ user \in BOOLEAN
    /\ contact \subseteq Channel
    /\ \A t \in Table : table[t] # None => table[t] \in RowOf(t)
    /\ pc \in [Req -> {"new", "look", "insert", "reread", "save", "refresh",
                       "schedule", "email", "sms"} \cup Ended]
    /\ \A r \in Req :
        pc[r] # "new" =>
            /\ op[r] \in Ops
            /\ known[r] \in BOOLEAN
            /\ seen[r] # None => seen[r] \in RowOf(On(r))
    /\ run \in [Req -> {"none", "pending", "stored", "discarded", "deleted"}]
    /\ tasks \subseteq Req
    /\ tried \in [Req -> SUBSET (Channel \X {"sent", "failed"})]

Init ==
    /\ user = TRUE
    /\ contact \in SUBSET Channel
    /\ table = [t \in Table |-> None]
    /\ op = [r \in Req |-> None]
    /\ pc = [r \in Req |-> "new"]
    /\ seen = [r \in Req |-> None]
    /\ known = [r \in Req |-> FALSE]
    /\ run = [r \in Req |-> "none"]
    /\ tasks = {}
    /\ tried = [r \in Req |-> {}]

Goto(r, location) == pc' = [pc EXCEPT ![r] = location]

-----------------------------------------------------------------------------
(* get_or_create_user_settings, get_or_create_user_prompt, and the same     *)
(* steps of set_user_prompt                                                 *)

(* Where a request goes with the row it has. *)
AfterRow(r) ==
    CASE Kind(r) = "view"   -> "answered"
      [] Kind(r) = "notify" -> "email"
      [] OTHER              -> "save"

Holding(r, value, location) ==
    /\ seen' = [seen EXCEPT ![r] = value]
    /\ Goto(r, location)

Begin(r, o) ==
    /\ pc[r] = "new"
    /\ Goto(r, "look")
    /\ op' = [op EXCEPT ![r] = o]
    /\ known' = [known EXCEPT ![r] = table[o.on] # None]
    /\ UNCHANGED <<hostVars, table, seen, runVars, tried>>

(* The SELECT, before which the session flushes the runs it holds: they     *)
(* need the account.  The sender looks for the account itself.              *)
Look(r) ==
    /\ pc[r] = "look"
    /\ run' = [run EXCEPT ![r] = IF Brings(r) /\ user THEN "pending" ELSE @]
    /\ IF ~user /\ (Brings(r) \/ Kind(r) = "notify")
       THEN Goto(r, IF Brings(r) THEN "error" ELSE "answered") /\ UNCHANGED seen
       ELSE Holding(r, Row(r), IF Row(r) = None THEN "insert" ELSE AfterRow(r))
    /\ UNCHANGED <<hostVars, table, op, known, tasks, tried>>

(* set_user_prompt inserts its text, the others the defaults. *)
FirstRow(r) == IF Kind(r) = "put" THEN Sets(r) ELSE Default[On(r)]

(* The INSERT and its commit, with the pending runs. *)
Insert(r) ==
    /\ pc[r] = "insert"
    /\ user /\ Row(r) = None
    /\ table' = [table EXCEPT ![On(r)] = FirstRow(r)]
    /\ Holding(r, FirstRow(r), IF Kind(r) = "put" THEN "answered" ELSE AfterRow(r))
    /\ run' = [run EXCEPT ![r] = IF Brings(r) THEN "stored" ELSE @]
    /\ UNCHANGED <<hostVars, op, known, tasks, tried>>

(* IntegrityError: another request's row is there, or the account is gone.  *)
(* The rollback takes the pending runs with it.                             *)
InsertLoses(r) ==
    /\ pc[r] = "insert"
    /\ ~user \/ Row(r) # None
    /\ Goto(r, "reread")
    /\ run' = [run EXCEPT ![r] = IF Brings(r) THEN "discarded" ELSE @]
    /\ UNCHANGED <<hostVars, table, op, seen, known, tasks, tried>>

(* A mutated form of Reread: the row it failed to insert is handed out; it  *)
(* is in no session, and what is set on it is never saved.                  *)
RereadNothing(r) ==
    /\ pc[r] = "reread"
    /\ Holding(r, With(FirstRow(r), Sets(r)),
               IF Kind(r) \in {"save", "put"} THEN "answered"
               ELSE IF Brings(r) THEN "schedule" ELSE AfterRow(r))
    /\ UNCHANGED <<hostVars, table, op, known, runVars, tried>>

Reread(r) ==
    /\ pc[r] = "reread"
    /\ IF Row(r) = None
       THEN Goto(r, "error") /\ UNCHANGED seen
       ELSE Holding(r, Row(r), AfterRow(r))
    /\ UNCHANGED <<hostVars, table, op, known, runVars, tried>>

-----------------------------------------------------------------------------
(* mark_storage_onboarding_done, mark_first_upload_onboarding_done,         *)
(* update_user_settings and the rest of set_user_prompt                     *)

Changed(r) == {c \in DOMAIN Sets(r) : Sets(r)[c] # seen[r][c]}

(* A mutated form of Written: the whole row is written back. *)
WrittenWhole(r) == With(seen[r], Sets(r))

(* The UPDATE names the changed columns only. *)
Written(r) == [c \in DOMAIN Row(r) |-> IF c \in Changed(r) THEN Sets(r)[c] ELSE Row(r)[c]]

AfterSave(r) ==
    CASE Kind(r) = "upload" -> "refresh"
      [] Kind(r) = "import" -> "schedule"
      [] OTHER              -> "answered"

(* An UPDATE that finds no row is an error. *)
Save(r) ==
    /\ pc[r] = "save"
    /\ LET writes == Changed(r) # {}
           fails  == writes /\ Row(r) = None
       IN  /\ table' = IF writes /\ ~fails THEN [table EXCEPT ![On(r)] = Written(r)] ELSE table
           /\ Goto(r, IF fails THEN "error" ELSE AfterSave(r))
           /\ run' = [run EXCEPT ![r] = IF @ = "pending" THEN "stored" ELSE @]
    /\ seen' = [seen EXCEPT ![r] = With(@, Sets(r))]
    /\ UNCHANGED <<hostVars, op, known, tasks, tried>>

-----------------------------------------------------------------------------
(* upload_file and import_pending_files, after their onboarding flag        *)

(* A mutated form of Refresh: the row is not asked for. *)
RefreshSkipped(r) ==
    /\ pc[r] = "refresh"
    /\ Goto(r, "schedule")
    /\ UNCHANGED <<hostVars, table, op, seen, known, runVars, tried>>

(* db.refresh(run) refuses a run that the rollback put out of the session. *)
Refresh(r) ==
    /\ pc[r] = "refresh"
    /\ Goto(r, IF run[r] = "stored" THEN "schedule" ELSE "error")
    /\ UNCHANGED <<hostVars, table, op, seen, known, runVars, tried>>

(* Import's runs keep their ids whether or not they are stored. *)
Schedule(r) ==
    /\ pc[r] = "schedule"
    /\ tasks' = tasks \cup {r}
    /\ Goto(r, "answered")
    /\ UNCHANGED <<hostVars, table, op, seen, known, run, tried>>

-----------------------------------------------------------------------------
(* RealNotificationSender: _send_with_session *)

AfterChannel(c) == IF c = "email" THEN "sms" ELSE "answered"

(* A mutated form of AfterTry: the failure of one channel ends the sending. *)
AfterTryOnce(c, outcome) == IF outcome = "failed" THEN "answered" ELSE AfterChannel(c)

AfterTry(c, outcome) == AfterChannel(c)

(* A channel that is on and has an address is tried, and may fail. *)
Try(r, c, outcome) ==
    /\ pc[r] = c
    /\ seen[r][c] /\ c \in contact
    /\ tried' = [tried EXCEPT ![r] = @ \cup {<<c, outcome>>}]
    /\ Goto(r, AfterTry(c, outcome))
    /\ UNCHANGED <<hostVars, table, op, seen, known, runVars>>

Skip(r, c) ==
    /\ pc[r] = c
    /\ ~seen[r][c] \/ c \notin contact
    /\ Goto(r, AfterChannel(c))
    /\ UNCHANGED <<hostVars, table, op, seen, known, runVars, tried>>

-----------------------------------------------------------------------------
(* The Host deletes the account; the rows go with it.  The key of a flushed *)
(* run holds the deletion up until its transaction ends.                    *)
DeleteAccount ==
    /\ user
    /\ \A r \in Req : run[r] # "pending"
    /\ user'  = FALSE
    /\ table' = [t \in Table |-> None]
    /\ run'   = [r \in Req |-> IF run[r] = "stored" THEN "deleted" ELSE run[r]]
    /\ UNCHANGED <<contact, requestVars, tasks, tried>>

Step(r) ==
    \/ Look(r) \/ Insert(r) \/ InsertLoses(r) \/ Reread(r)
    \/ Save(r) \/ Refresh(r) \/ Schedule(r)
    \/ \E c \in Channel : Skip(r, c) \/ \E outcome \in {"sent", "failed"} : Try(r, c, outcome)

Next ==
    \/ \E r \in Req : Step(r) \/ \E o \in Ops : Begin(r, o)
    \/ DeleteAccount

Spec == Init /\ [][Next]_vars

-----------------------------------------------------------------------------
(* Properties *)

(* Onboarding flags, and the row that carries them, never go back while the *)
(* account lives (user_settings.py: "it stays true thereafter").            *)
FlagsOnlyRise ==
    \A c \in Done : user' /\ table["settings"] # None =>
        /\ table'["settings"] # None
        /\ table["settings"][c] => table'["settings"][c]

(* A save of one preference leaves the others alone, even one that was      *)
(* switched after the save had read the row (update_user_settings sets the  *)
(* fields of its request only).                                             *)
OthersKept ==
    \A r \in Req : pc[r] = "save" /\ pc'[r] # "save" =>
        \A c \in DOMAIN Default[On(r)] \ DOMAIN Sets(r) :
            Row(r) # None => table'[On(r)][c] = Row(r)[c]

(* No stale copy of the row that a request saves undoes what another did.   *)
NothingUndone == [][FlagsOnlyRise /\ OthersKept]_vars

(* A save that answers has just stored its columns, or had read each in the *)
(* row as it asked; losing the race for the first row loses nothing of it   *)
(* (set_user_prompt: "update theirs instead").                              *)
SavedOrSeen ==
    [][\A r \in Req : pc[r] \notin Ended \cup {"new"} /\ pc'[r] = "answered"
                      /\ Kind(r) \in {"save", "put"} =>
        \A c \in DOMAIN Sets(r) :
            \/ Row(r)' # None /\ Row(r)'[c] = Sets(r)[c]
            \/ pc[r] = "save" /\ seen[r][c] = Sets(r)[c]]_vars

(* An upload that is answered with a run id has that run in the table: the  *)
(* one whose run was rolled back fails before its task is created           *)
(* (upload_file; import_pending_files has no such check).                   *)
UploadTaskHasRun ==
    \A r \in tasks : Kind(r) = "upload" => run[r] \in {"stored", "deleted"}

(* Runs are rolled back only for a user who had no row when the request     *)
(* began: the race is one for the first row ever, never for an old user     *)
(* whose account lives (get_or_create_user_settings).                       *)
OldUserKeepsRuns ==
    \A r \in Req : run[r] = "discarded" /\ known[r] => ~user

(* Whatever fails, the sender ends having tried exactly the channels that   *)
(* are on and have an address (_send_with_session).                         *)
EveryChannelTried ==
    \A r \in Req :
        pc[r] = "answered" /\ Kind(r) = "notify" /\ seen[r] # None =>
            {t[1] : t \in tried[r]} = {c \in contact : seen[r][c]}

(* Where a request is says what its session holds and which operation it    *)
(* can be (the order of the statements of each).                            *)
InPlace(r) ==
    /\ pc[r] \in {"new", "look", "insert", "reread"} => seen[r] = None
    /\ pc[r] \in {"save", "email", "sms"} => seen[r] # None
    /\ pc[r] = "save" => Kind(r) \notin {"view", "notify"}
    /\ pc[r] \in {"refresh", "schedule"} => Brings(r)
    /\ pc[r] \in {"email", "sms"} => Kind(r) = "notify"

(* The sender has not sent before it knows the row, and is through with     *)
(* email as it comes to SMS (_send_with_session).                           *)
SendsInOrder(r) ==
    /\ pc[r] \in {"new", "look", "insert", "reread", "email"} => tried[r] = {}
    /\ pc[r] = "sms" =>
        {t[1] : t \in tried[r]} = {c \in contact : seen[r][c]} \cap {"email"}

(* What holds whatever races and failures the requests met.                 *)
RequestsConsistent ==
    /\ TypeOK
    /\ \A r \in Req : InPlace(r) /\ SendsInOrder(r)
    /\ OldUserKeepsRuns
    /\ EveryChannelTried
=============================================================================
