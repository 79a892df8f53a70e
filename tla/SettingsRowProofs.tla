--------------------------- MODULE SettingsRowProofs ---------------------------
(***************************************************************************)
(* No request undoes another's change of the two rows, and no upload       *)
(* starts a task whose run was rolled back, for any number of requests of  *)
(* any of the operations.                                                  *)
(***************************************************************************)
EXTENDS SettingsRow, TLAPS

Locations == {"new", "look", "insert", "reread", "save", "refresh",
              "schedule", "email", "sms"} \cup Ended

(* The types that the argument needs. *)
Sorts ==
    /\ user \in BOOLEAN
    /\ DOMAIN table = Table /\ \A t \in Table : table[t] \in RowOf(t) \cup {None}
    /\ DOMAIN op = Req /\ DOMAIN seen = Req
    /\ pc \in [Req -> Locations]
    /\ known \in [Req -> BOOLEAN]
    /\ run \in [Req -> {"none", "pending", "stored", "discarded", "deleted"}]
    /\ tasks \subseteq Req
    /\ \A r \in Req : pc[r] # "new" => op[r] \in Ops

(* A user who had the row keeps it while the account lives, so that no      *)
(* request of theirs gets as far as an INSERT that could lose a race.       *)
OldUserKeepsRow(r) ==
    pc[r] # "new" /\ known[r] /\ user =>
        Row(r) # None /\ pc[r] \notin {"insert", "reread"} /\ run[r] # "discarded"

(* An upload on its way to the queue has its run, and has it still when the *)
(* task is there (upload_file's refresh).                                   *)
UploadHasRun(r) ==
    /\ pc[r] = "new" => run[r] = "none"
    /\ r \in tasks => pc[r] = "answered"
    /\ (pc[r] = "schedule" \/ r \in tasks) /\ Kind(r) = "upload" => run[r] \in {"stored", "deleted"}

Fine(r) == OldUserKeepsRow(r) /\ UploadHasRun(r)

IInv == Sorts /\ \A r \in Req : Fine(r)

(* What the operations set: columns of their table, flags to TRUE only.     *)
LEMMA OperationSets ==
    ASSUME NEW o \in Operations
    PROVE  /\ o.on \in Table /\ DOMAIN o.sets \subseteq Columns(o.on)
           /\ \A c \in DOMAIN o.sets : o.sets[c] \in Values(o.on) /\ (c \in Done => o.sets[c] = TRUE)
           /\ o.kind = "put" => o.sets \in RowOf(o.on)
           /\ o.kind \in {"upload", "import"} => o.on = "settings"
<1>1. CASE \E t \in Table : o = Operation("view", t, Nothing)
  BY <1>1 DEF Operation, Nothing
<1>2. CASE o = Operation("notify", "settings", Nothing)
  BY <1>2 DEF Operation, Nothing, Table
<1>3. CASE \E k \in {"save", "upload", "import"}, d \in Done : o = Operation(k, "settings", Only(d))
  <2>1. PICK k \in {"save", "upload", "import"}, d \in Done : o = Operation(k, "settings", Only(d))
    BY <1>3
  <2>2. o.on = "settings" /\ o.sets = [c \in {d} |-> TRUE] /\ o.kind # "put"
    BY <2>1 DEF Operation, Only
  <2> QED
    BY <2>2 DEF Table, Columns, Values
<1>4. CASE \E c \in Channel, v \in BOOLEAN : o = Operation("save", "settings", PatchOf(c, v))
  <2>1. PICK d \in Channel, v \in BOOLEAN : o = Operation("save", "settings", PatchOf(d, v))
    BY <1>4
  <2>2. /\ o.on = "settings" /\ o.kind = "save"
        /\ o.sets = [c \in {d, "notifications_done"} |-> IF c = d THEN v ELSE TRUE]
    BY <2>1 DEF Operation, PatchOf
  <2> QED
    BY <2>2 DEF Table, Columns, Values, Channel, Done
<1>5. CASE \E t \in {"factory", "mine"} : o = Operation("put", "prompt", [text |-> t])
  <2>1. PICK t \in {"factory", "mine"} : o = Operation("put", "prompt", [text |-> t])
    BY <1>5
  <2>2. o.on = "prompt" /\ o.sets = [c \in {"text"} |-> t] /\ o.kind = "put"
    BY <2>1 DEF Operation
  <2> QED
    BY <2>2 DEF Table, Columns, Values, Done, RowOf
<1>6. \/ \E t \in Table : o = Operation("view", t, Nothing)
      \/ o = Operation("notify", "settings", Nothing)
      \/ o = Operation("save", "settings", Only("storage_done"))
      \/ \E k \in {"upload", "import"} : o = Operation(k, "settings", Only("first_upload_done"))
      \/ \E c \in Channel, v \in BOOLEAN : o = Operation("save", "settings", PatchOf(c, v))
      \/ \E t \in {"factory", "mine"} : o = Operation("put", "prompt", [text |-> t])
  BY DEF Operations
<1>7. "storage_done" \in Done /\ "first_upload_done" \in Done
  BY DEF Done
<1>8. \/ o = Operation("save", "settings", Only("storage_done"))
      \/ \E k \in {"upload", "import"} : o = Operation(k, "settings", Only("first_upload_done"))
      => \E k \in {"save", "upload", "import"}, d \in Done : o = Operation(k, "settings", Only(d))
  BY <1>7, Zenon
<1> QED
  BY <1>1, <1>2, <1>3, <1>4, <1>5, <1>6, <1>8

(* A row as it is inserted is a row.                                        *)
LEMMA FirstRowIsRow ==
    ASSUME NEW r \in Req, op[r] \in Ops
    PROVE  On(r) \in Table /\ FirstRow(r) \in RowOf(On(r))
<1>1. op[r] \in Operations
  BY OperationsAssumption
<1>2. \A t \in Table : Default[t] \in RowOf(t)
  <2>1. SettingsDefault \in RowOf("settings")
    BY DEF SettingsDefault, RowOf, Columns, Values
  <2>2. PromptDefault \in RowOf("prompt")
    BY DEF PromptDefault, RowOf, Columns, Values
  <2>3. Default["settings"] = SettingsDefault /\ Default["prompt"] = PromptDefault
    BY DEF Default
  <2> QED
    BY <2>1, <2>2, <2>3 DEF Table
<1> QED
  BY <1>1, <1>2, OperationSets DEF On, FirstRow, Kind, Sets

(* What a save makes of the row: a row whose flags have only risen and      *)
(* whose other columns are as they were (update_user_settings).             *)
LEMMA WrittenRow ==
    ASSUME NEW r \in Req, op[r] \in Ops, Row(r) \in RowOf(On(r))
    PROVE  /\ Written(r) \in RowOf(On(r))
           /\ \A c \in Done \cap Columns(On(r)) : Row(r)[c] => Written(r)[c]
           /\ \A c \in Columns(On(r)) \ DOMAIN Sets(r) : Written(r)[c] = Row(r)[c]
<1>1. op[r] \in Operations
  BY OperationsAssumption
<1>2. /\ DOMAIN Sets(r) \subseteq Columns(On(r))
      /\ \A c \in DOMAIN Sets(r) : Sets(r)[c] \in Values(On(r)) /\ (c \in Done => Sets(r)[c] = TRUE)
  BY <1>1, OperationSets DEF Sets, On
<1>3. Changed(r) \subseteq DOMAIN Sets(r)
  BY DEF Changed
<1>4. Row(r) \in [Columns(On(r)) -> Values(On(r))]
  BY DEF RowOf
<1>5. Written(r) = [c \in Columns(On(r)) |-> IF c \in Changed(r) THEN Sets(r)[c] ELSE Row(r)[c]]
  BY <1>4 DEF Written
<1>6. Written(r) \in [Columns(On(r)) -> Values(On(r))]
  BY <1>2, <1>3, <1>4, <1>5
<1>7. \A c \in Done \cap Columns(On(r)) : Row(r)[c] => Written(r)[c]
  BY <1>2, <1>3, <1>5
<1>8. \A c \in Columns(On(r)) \ DOMAIN Sets(r) : Written(r)[c] = Row(r)[c]
  BY <1>3, <1>5
<1> QED
  BY <1>6, <1>7, <1>8 DEF RowOf

-----------------------------------------------------------------------------
(* A step of one request by which no row goes.                              *)
LEMMA RequestStep ==
    ASSUME IInv, NEW r \in Req, Sorts', user' = user,
           \A q \in Req \ {r} : /\ op'[q] = op[q] /\ pc'[q] = pc[q]
                                /\ known'[q] = known[q] /\ run'[q] = run[q],
           tasks' \ {r} = tasks \ {r},
           \A t \in Table : table[t] # None => table'[t] # None,
           Fine(r)'
    PROVE  IInv'
<1>1. ASSUME NEW q \in Req, q # r PROVE Fine(q)'
  <2>1. /\ op'[q] = op[q] /\ pc'[q] = pc[q] /\ known'[q] = known[q] /\ run'[q] = run[q]
        /\ (q \in tasks' <=> q \in tasks)
    BY <1>1
  <2>2. pc[q] # "new" => On(q) \in Table
    BY OperationSets, OperationsAssumption DEF IInv, Sorts, On
  <2>3. pc[q] # "new" /\ Row(q) # None => Row(q)' # None
    BY <2>1, <2>2 DEF Row, On
  <2>4. OldUserKeepsRow(q)'
    BY <2>1, <2>3 DEF IInv, Fine, OldUserKeepsRow
  <2>5. UploadHasRun(q)'
    BY <2>1 DEF IInv, Fine, UploadHasRun, Kind
  <2> QED
    BY <2>4, <2>5 DEF Fine
<1> QED
  BY <1>1 DEF IInv

(* A request begins. *)
LEMMA BeginStep ==
    ASSUME IInv, NEW r \in Req, NEW o \in Ops, Begin(r, o)
    PROVE  IInv' /\ UNCHANGED table
<1>1. Sorts /\ Fine(r)
  BY DEF IInv
<1>2. /\ pc[r] = "new" /\ UNCHANGED <<user, table, seen, run, tasks>>
      /\ pc' = [pc EXCEPT ![r] = "look"] /\ op' = [op EXCEPT ![r] = o]
      /\ known' = [known EXCEPT ![r] = table[o.on] # None]
  BY DEF Begin, Goto, hostVars, runVars
<1>3. /\ pc'[r] = "look" /\ op'[r] = o /\ known'[r] = (table[o.on] # None)
      /\ \A q \in Req \ {r} : op'[q] = op[q] /\ pc'[q] = pc[q] /\ known'[q] = known[q]
  BY <1>1, <1>2 DEF Sorts
<1>4. Sorts'
  <2>1. known' \in [Req -> BOOLEAN]
    BY <1>1, <1>2 DEF Sorts
  <2>2. pc' \in [Req -> Locations]
    BY <1>1, <1>2 DEF Sorts, Locations
  <2>3. \A q \in Req : pc'[q] # "new" => op'[q] \in Ops
    BY <1>1, <1>3 DEF Sorts
  <2> QED
    BY <1>1, <1>2, <2>1, <2>2, <2>3 DEF Sorts
<1>5. OldUserKeepsRow(r)'
  BY <1>1, <1>2, <1>3 DEF Fine, UploadHasRun, OldUserKeepsRow, Row, On
<1>6. UploadHasRun(r)'
  BY <1>1, <1>2, <1>3 DEF Fine, UploadHasRun
<1> QED
  BY <1>2, <1>3, <1>4, <1>5, <1>6, RequestStep DEF Fine

(* What a step of a request needs to be shown to keep, once it has begun    *)
(* and leaves the table alone.                                              *)
LEMMA QuietStep ==
    ASSUME IInv, NEW r \in Req, UNCHANGED <<user, table, op, known>>,
           NEW place \in Locations \ {"new"}, Goto(r, place),
           NEW value \in {"none", "pending", "stored", "discarded", "deleted"},
           run' = [run EXCEPT ![r] = value], pc[r] # "new", pc[r] # "answered",
           DOMAIN seen' = Req, tasks' = tasks \/ (tasks' = tasks \cup {r} /\ place = "answered"),
           known[r] /\ user => place \notin {"insert", "reread"} /\ value # "discarded",
           (place = "schedule" \/ r \in tasks') /\ Kind(r) = "upload" => value \in {"stored", "deleted"}
    PROVE  IInv' /\ UNCHANGED table
<1>1. Sorts /\ Fine(r)
  BY DEF IInv
<1>2. /\ pc'[r] = place /\ run'[r] = value
      /\ \A q \in Req \ {r} : pc'[q] = pc[q] /\ run'[q] = run[q]
  BY <1>1 DEF Sorts, Goto
<1>3. Sorts'
  <2>1. pc' \in [Req -> Locations]
    BY <1>1 DEF Sorts, Goto
  <2>2. run' \in [Req -> {"none", "pending", "stored", "discarded", "deleted"}]
    BY <1>1 DEF Sorts
  <2>3. \A q \in Req : pc'[q] # "new" => op'[q] \in Ops
    BY <1>1, <1>2 DEF Sorts
  <2> QED
    BY <1>1, <2>1, <2>2, <2>3 DEF Sorts
<1>4. OldUserKeepsRow(r)'
  BY <1>1, <1>2 DEF Fine, OldUserKeepsRow, Row, On
<1>5. UploadHasRun(r)'
  BY <1>1, <1>2 DEF Fine, UploadHasRun, Kind
<1> QED
  BY <1>2, <1>3, <1>4, <1>5, RequestStep DEF Fine

(* A request that reads, sends or schedules (get_or_create_user_settings,   *)
(* upload_file, import_pending_files, _send_with_session).                  *)
LEMMA Readers ==
    ASSUME IInv, NEW r \in Req,
           \/ Look(r) \/ InsertLoses(r) \/ Reread(r) \/ Refresh(r) \/ Schedule(r)
           \/ \E c \in Channel : Skip(r, c) \/ \E outcome \in {"sent", "failed"} : Try(r, c, outcome)
    PROVE  IInv' /\ UNCHANGED table
<1>1. Sorts /\ OldUserKeepsRow(r) /\ UploadHasRun(r)
  BY DEF IInv, Fine
<1>2. /\ pc[r] # "new" /\ pc[r] # "answered" /\ r \notin tasks
      /\ UNCHANGED <<user, table, op, known>> /\ DOMAIN seen' = Req
      /\ run[r] \in {"none", "pending", "stored", "discarded", "deleted"}
      /\ run = [run EXCEPT ![r] = run[r]]
  <2>1. pc[r] # "new" /\ pc[r] # "answered"
    BY DEF Look, InsertLoses, Reread, Refresh, Schedule, Skip, Try, Channel
  <2>2. UNCHANGED <<user, table, op, known>> /\ DOMAIN seen' = Req
    BY <1>1 DEF Look, InsertLoses, Reread, Refresh, Schedule, Skip, Try, Holding, hostVars, Sorts
  <2> QED
    BY <1>1, <2>1, <2>2 DEF Sorts, UploadHasRun
<1>3. AfterRow(r) \in {"answered", "email", "save"}
  BY DEF AfterRow
<1>4. CASE Look(r)
  <2> DEFINE value == IF Brings(r) /\ user THEN "pending" ELSE run[r]
  <2>1. run' = [run EXCEPT ![r] = value] /\ tasks' = tasks
    BY <1>4 DEF Look
  <2>2. value \in {"none", "pending", "stored", "discarded", "deleted"}
        /\ (known[r] /\ user => value # "discarded")
    BY <1>1, <1>2 DEF OldUserKeepsRow
  <2>3. PICK place \in {"error", "answered", "insert", "email", "save"} :
            Goto(r, place) /\ (known[r] /\ user => place # "insert")
    BY <1>1, <1>2, <1>3, <1>4 DEF Look, Holding, OldUserKeepsRow
  <2>4. place \in Locations \ {"new"} /\ place \notin {"schedule", "reread"}
    BY <2>3 DEF Locations, Ended
  <2> HIDE DEF value
  <2> QED
    BY <1>2, <2>1, <2>2, <2>3, <2>4, QuietStep
<1>5. CASE InsertLoses(r)
  <2> DEFINE value == IF Brings(r) THEN "discarded" ELSE run[r]
  <2>1. /\ run' = [run EXCEPT ![r] = value] /\ tasks' = tasks /\ Goto(r, "reread")
        /\ pc[r] = "insert"
    BY <1>5 DEF InsertLoses
  <2>2. /\ value \in {"none", "pending", "stored", "discarded", "deleted"}
        /\ ~(known[r] /\ user) /\ "reread" \in Locations \ {"new"}
    BY <1>1, <1>2, <2>1 DEF OldUserKeepsRow, Locations
  <2> HIDE DEF value
  <2> QED
    BY <1>2, <2>1, <2>2, QuietStep
<1>6. CASE Reread(r)
  <2>1. run' = [run EXCEPT ![r] = run[r]] /\ tasks' = tasks
    BY <1>2, <1>6 DEF Reread, runVars
  <2>2. PICK place \in {"error", "answered", "email", "save"} : Goto(r, place)
    BY <1>3, <1>6 DEF Reread, Holding
  <2>3. place \in Locations \ {"new"} /\ place \notin {"schedule", "insert", "reread"}
    BY <2>2 DEF Locations, Ended
  <2>4. ~(known[r] /\ user)
    BY <1>1, <1>6 DEF Reread, OldUserKeepsRow
  <2> QED
    BY <1>2, <2>1, <2>2, <2>3, <2>4, QuietStep
<1>7. CASE Refresh(r)
  <2>1. run' = [run EXCEPT ![r] = run[r]] /\ tasks' = tasks
    BY <1>2, <1>7 DEF Refresh, runVars
  <2>2. PICK place \in {"schedule", "error"} : Goto(r, place) /\ (place = "schedule" => run[r] = "stored")
    BY <1>7 DEF Refresh
  <2>3. place \in Locations \ {"new"} /\ place \notin {"insert", "reread"}
    BY <2>2 DEF Locations, Ended
  <2>4. known[r] /\ user => run[r] # "discarded"
    BY <1>1, <1>2 DEF OldUserKeepsRow
  <2> QED
    BY <1>2, <2>1, <2>2, <2>3, <2>4, QuietStep
<1>8. CASE Schedule(r)
  <2>1. /\ run' = [run EXCEPT ![r] = run[r]] /\ tasks' = tasks \cup {r} /\ Goto(r, "answered")
        /\ pc[r] = "schedule"
    BY <1>2, <1>8 DEF Schedule
  <2>2. "answered" \in Locations \ {"new"}
    BY DEF Locations, Ended
  <2>3. known[r] /\ user => run[r] # "discarded"
    BY <1>1, <1>2 DEF OldUserKeepsRow
  <2>4. Kind(r) = "upload" => run[r] \in {"stored", "deleted"}
    BY <1>1, <2>1 DEF UploadHasRun
  <2> QED
    BY <1>2, <2>1, <2>2, <2>3, <2>4, QuietStep
<1>9. CASE \E c \in Channel : Skip(r, c) \/ \E outcome \in {"sent", "failed"} : Try(r, c, outcome)
  <2>1. run' = [run EXCEPT ![r] = run[r]] /\ tasks' = tasks
    BY <1>2, <1>9 DEF Skip, Try, runVars
  <2>2. PICK place \in {"sms", "answered"} : Goto(r, place)
    BY <1>9 DEF Skip, Try, AfterTry, AfterChannel
  <2>3. place \in Locations \ {"new"} /\ place \notin {"schedule", "insert", "reread"}
    BY <2>2 DEF Locations, Ended
  <2>4. known[r] /\ user => run[r] # "discarded"
    BY <1>1, <1>2 DEF OldUserKeepsRow
  <2> QED
    BY <1>2, <2>1, <2>2, <2>3, <2>4, QuietStep
<1> QED
  BY <1>4, <1>5, <1>6, <1>7, <1>8, <1>9

-----------------------------------------------------------------------------
(* The first row, and with it the runs of the request                       *)
(* (get_or_create_user_settings, set_user_prompt).                          *)
LEMMA InsertStep ==
    ASSUME IInv, NEW r \in Req, Insert(r)
    PROVE  IInv' /\ FlagsOnlyRise /\ OthersKept
<1>1. Sorts /\ OldUserKeepsRow(r) /\ UploadHasRun(r)
  BY DEF IInv, Fine
<1> DEFINE value == IF Brings(r) THEN "stored" ELSE run[r]
           place == IF Kind(r) = "put" THEN "answered" ELSE AfterRow(r)
           first == FirstRow(r)
<1>2. /\ pc[r] = "insert" /\ user /\ Row(r) = None /\ UNCHANGED <<user, op, known, tasks>>
      /\ table' = [table EXCEPT ![On(r)] = first] /\ pc' = [pc EXCEPT ![r] = place]
      /\ run' = [run EXCEPT ![r] = value] /\ DOMAIN seen' = Req
  BY <1>1 DEF Insert, Holding, Goto, hostVars, Sorts
<1>3. On(r) \in Table /\ first \in RowOf(On(r)) /\ first # None
  BY <1>1, <1>2, FirstRowIsRow, NoneIsNoRow DEF Sorts
<1>4. place \in {"answered", "email", "save"} /\ ~known[r] /\ r \notin tasks
  BY <1>1, <1>2 DEF AfterRow, OldUserKeepsRow, UploadHasRun
<1>5. value \in {"none", "pending", "stored", "discarded", "deleted"}
  BY <1>1 DEF Sorts
<1> HIDE DEF value, place, first
<1>6. /\ pc'[r] = place /\ run'[r] = value
      /\ \A q \in Req \ {r} : pc'[q] = pc[q] /\ run'[q] = run[q]
      /\ \A t \in Table : table'[t] = IF t = On(r) THEN first ELSE table[t]
  BY <1>1, <1>2 DEF Sorts
<1>7. Sorts'
  <2>1. pc' \in [Req -> Locations]
    BY <1>1, <1>2, <1>4 DEF Sorts, Locations, Ended
  <2>2. run' \in [Req -> {"none", "pending", "stored", "discarded", "deleted"}]
    BY <1>1, <1>2, <1>5 DEF Sorts
  <2>3. DOMAIN table' = Table /\ \A t \in Table : table'[t] \in RowOf(t) \cup {None}
    BY <1>1, <1>2, <1>3, <1>6 DEF Sorts
  <2>4. \A q \in Req : pc'[q] # "new" => op'[q] \in Ops
    BY <1>1, <1>2, <1>6 DEF Sorts
  <2> QED
    BY <1>1, <1>2, <2>1, <2>2, <2>3, <2>4 DEF Sorts
<1>8. Fine(r)'
  BY <1>2, <1>4, <1>6 DEF Fine, OldUserKeepsRow, UploadHasRun
<1>9. IInv'
  <2>1. \A t \in Table : table[t] # None => table'[t] # None
    BY <1>3, <1>6
  <2> QED
    BY <1>2, <1>6, <1>7, <1>8, <2>1, RequestStep
<1>10. FlagsOnlyRise
  BY <1>2, <1>6 DEF FlagsOnlyRise, Table, Row
<1>11. OthersKept
  <2>1. ASSUME NEW q \in Req, pc[q] = "save", pc'[q] # "save" PROVE FALSE
    BY <1>2, <1>6, <2>1
  <2> QED
    BY <2>1 DEF OthersKept
<1> QED
  BY <1>9, <1>10, <1>11

(* A save writes the columns it changes, on the row as it is by then        *)
(* (mark_..._done, update_user_settings, set_user_prompt).                  *)
LEMMA SaveStep ==
    ASSUME IInv, NEW r \in Req, Save(r)
    PROVE  IInv' /\ FlagsOnlyRise /\ OthersKept
<1>1. Sorts /\ OldUserKeepsRow(r) /\ UploadHasRun(r)
  BY DEF IInv, Fine
<1> DEFINE value == IF run[r] = "pending" THEN "stored" ELSE run[r]
           fails == Changed(r) # {} /\ Row(r) = None
           place == IF fails THEN "error" ELSE AfterSave(r)
<1>2. /\ pc[r] = "save" /\ UNCHANGED <<user, op, known, tasks>>
      /\ pc' = [pc EXCEPT ![r] = place] /\ run' = [run EXCEPT ![r] = value] /\ DOMAIN seen' = Req
      /\ \/ table' = table
         \/ Row(r) # None /\ table' = [table EXCEPT ![On(r)] = Written(r)]
  BY <1>1 DEF Save, Goto, hostVars, Sorts
<1>3. place \in {"error", "refresh", "schedule", "answered"} /\ (place = "schedule" => Kind(r) # "upload")
      /\ r \notin tasks
  BY <1>1, <1>2 DEF AfterSave, UploadHasRun
<1>4. value \in {"none", "pending", "stored", "discarded", "deleted"}
      /\ (known[r] /\ user => value # "discarded")
  BY <1>1, <1>2 DEF Sorts, OldUserKeepsRow
<1> HIDE DEF value, place, fails
<1>5. /\ pc'[r] = place /\ run'[r] = value
      /\ \A q \in Req \ {r} : pc'[q] = pc[q] /\ run'[q] = run[q]
  BY <1>1, <1>2 DEF Sorts
<1>6. op[r] \in Ops /\ On(r) \in Table
  BY <1>1, <1>2, FirstRowIsRow DEF Sorts
<1>7. \/ table' = table
      \/ /\ Row(r) \in RowOf(On(r)) /\ Written(r) \in RowOf(On(r))
         /\ \A c \in Done \cap Columns(On(r)) : Row(r)[c] => Written(r)[c]
         /\ \A c \in Columns(On(r)) \ DOMAIN Sets(r) : Written(r)[c] = Row(r)[c]
         /\ \A t \in Table : table'[t] = IF t = On(r) THEN Written(r) ELSE table[t]
         /\ DOMAIN table' = Table
  <2>1. CASE Row(r) # None /\ table' = [table EXCEPT ![On(r)] = Written(r)]
    <3>1. Row(r) \in RowOf(On(r))
      BY <1>1, <1>6, <2>1 DEF Row, Sorts
    <3> QED
      BY <1>1, <1>6, <2>1, <3>1, WrittenRow DEF Sorts
  <2> QED
    BY <1>2, <2>1
<1>8. Sorts'
  <2>1. pc' \in [Req -> Locations]
    BY <1>1, <1>2, <1>3 DEF Sorts, Locations, Ended
  <2>2. run' \in [Req -> {"none", "pending", "stored", "discarded", "deleted"}]
    BY <1>1, <1>2, <1>4 DEF Sorts
  <2>3. DOMAIN table' = Table /\ \A t \in Table : table'[t] \in RowOf(t) \cup {None}
    BY <1>1, <1>6, <1>7 DEF Sorts
  <2>4. \A q \in Req : pc'[q] # "new" => op'[q] \in Ops
    BY <1>1, <1>2, <1>5 DEF Sorts
  <2> QED
    BY <1>1, <1>2, <2>1, <2>2, <2>3, <2>4 DEF Sorts
<1>9. \A t \in Table : table[t] # None => table'[t] # None
  BY <1>6, <1>7, NoneIsNoRow
<1>10. Fine(r)'
  <2>1. Row(r) # None => Row(r)' # None
    BY <1>2, <1>6, <1>9 DEF Row, On
  <2>2. OldUserKeepsRow(r)'
    BY <1>1, <1>2, <1>3, <1>4, <1>5, <2>1 DEF OldUserKeepsRow
  <2>3. UploadHasRun(r)'
    BY <1>1, <1>2, <1>3, <1>5 DEF UploadHasRun, Kind
  <2> QED
    BY <2>2, <2>3 DEF Fine
<1>11. IInv'
  BY <1>2, <1>5, <1>8, <1>9, <1>10, RequestStep
<1>12. FlagsOnlyRise
  <2>1. Done \subseteq Columns("settings")
    BY DEF Columns
  <2> QED
    BY <1>6, <1>7, <1>9, <2>1 DEF FlagsOnlyRise, Row, Table
<1>13. OthersKept
  <2>1. \A q \in Req : pc[q] = "save" /\ pc'[q] # "save" => q = r
    BY <1>5
  <2>2. DOMAIN Default[On(r)] = Columns(On(r))
    BY <1>6 DEF Default, SettingsDefault, PromptDefault, Columns, Table
  <2>3. \A c \in Columns(On(r)) \ DOMAIN Sets(r) : Row(r) # None => table'[On(r)][c] = Row(r)[c]
    BY <1>6, <1>7 DEF Row
  <2> QED
    BY <2>1, <2>2, <2>3 DEF OthersKept
<1> QED
  BY <1>11, <1>12, <1>13

(* The account goes, and everything with it. *)
LEMMA DeleteStep ==
    ASSUME IInv, DeleteAccount
    PROVE  IInv' /\ FlagsOnlyRise /\ OthersKept
<1>1. Sorts
  BY DEF IInv
<1>2. /\ user' = FALSE /\ table' = [t \in Table |-> None] /\ UNCHANGED <<op, pc, seen, known, tasks>>
      /\ run' = [q \in Req |-> IF run[q] = "stored" THEN "deleted" ELSE run[q]]
  BY DEF DeleteAccount, requestVars
<1>3. Sorts'
  BY <1>1, <1>2 DEF Sorts
<1>4. ASSUME NEW q \in Req PROVE Fine(q)'
  <2>1. Fine(q)
    BY DEF IInv
  <2> QED
    BY <1>2, <2>1 DEF Fine, OldUserKeepsRow, UploadHasRun, Kind
<1>5. FlagsOnlyRise /\ OthersKept
  BY <1>2 DEF FlagsOnlyRise, OthersKept
<1> QED
  BY <1>3, <1>4, <1>5 DEF IInv

-----------------------------------------------------------------------------
(* Nobody has done anything yet. *)
LEMMA InitSettings == Init => IInv
<1> SUFFICES ASSUME Init PROVE IInv
  OBVIOUS
<1>1. Sorts
  BY DEF Init, Sorts, Locations
<1>2. \A r \in Req : Fine(r)
  BY DEF Init, Fine, OldUserKeepsRow, UploadHasRun
<1> QED
  BY <1>1, <1>2 DEF IInv

(* A step that leaves the table alone undoes nothing.                       *)
LEMMA TableStays == ASSUME UNCHANGED table PROVE FlagsOnlyRise /\ OthersKept
BY DEF FlagsOnlyRise, OthersKept, Row

(* Every step keeps the invariant and undoes nothing.                       *)
LEMMA NextSettings == IInv /\ [Next]_vars => IInv' /\ FlagsOnlyRise /\ OthersKept
<1> SUFFICES ASSUME IInv, [Next]_vars PROVE IInv' /\ FlagsOnlyRise /\ OthersKept
  OBVIOUS
<1>1. ASSUME NEW r \in Req, Step(r) PROVE IInv' /\ FlagsOnlyRise /\ OthersKept
  BY <1>1, Readers, InsertStep, SaveStep, TableStays DEF Step
<1>2. CASE UNCHANGED vars
  <2>1. UNCHANGED <<user, table, op, pc, seen, known, run, tasks>>
    BY <1>2 DEF vars, hostVars, requestVars, runVars
  <2>2. Sorts'
    BY <2>1 DEF IInv, Sorts
  <2>3. ASSUME NEW q \in Req PROVE Fine(q)'
    BY <2>1 DEF IInv, Fine, OldUserKeepsRow, UploadHasRun, Kind, Row, On
  <2> QED
    BY <2>1, <2>2, <2>3, TableStays DEF IInv
<1> QED
  BY <1>1, <1>2, BeginStep, DeleteStep, TableStays DEF Next

(* No stale copy of a row undoes another request's change: flags only rise, *)
(* and a save leaves alone what its request does not name                   *)
(* (user_settings.py, llm_prompt.py).                                       *)
THEOREM NoChangeUndone == Spec => NothingUndone
<1>1. IInv /\ [Next]_vars => [FlagsOnlyRise /\ OthersKept]_vars
  BY NextSettings
<1> QED
  BY <1>1, InitSettings, NextSettings, PTL DEF Spec, NothingUndone

(* An upload that was answered has its run in the table, or had it until    *)
(* the account was deleted (upload_file).                                   *)
THEOREM UploadHasItsRun == Spec => []UploadTaskHasRun
<1>1. IInv => UploadTaskHasRun
  BY DEF IInv, Fine, UploadHasRun, UploadTaskHasRun, Sorts
<1> QED
  BY <1>1, InitSettings, NextSettings, PTL DEF Spec

(* Runs are rolled back only for a user who had no row as the request began *)
(* (get_or_create_user_settings).                                           *)
THEOREM RunsOfOldUsersKept == Spec => []OldUserKeepsRuns
<1>1. IInv => OldUserKeepsRuns
  BY DEF IInv, Fine, UploadHasRun, OldUserKeepsRow, OldUserKeepsRuns
<1> QED
  BY <1>1, InitSettings, NextSettings, PTL DEF Spec

-----------------------------------------------------------------------------
(* Where each request is, what its session holds and what it has sent.      *)
Outcome == {"sent", "failed"}

AllTried(r) ==
    pc[r] = "answered" /\ Kind(r) = "notify" /\ seen[r] # None =>
        {t[1] : t \in tried[r]} = {c \in contact : seen[r][c]}

Settled(r) ==
    /\ seen[r] # None => seen[r] \in RowOf(On(r))
    /\ InPlace(r) /\ SendsInOrder(r) /\ AllTried(r)

AllSettled ==
    /\ contact \subseteq Channel
    /\ tried \in [Req -> SUBSET (Channel \X Outcome)]
    /\ \A r \in Req : Settled(r)

(* A row of the settings table is not None, nor is one of the prompts.      *)
LEMMA RowIsThere == ASSUME NEW t \in Table, NEW row \in RowOf(t) PROVE row # None
BY NoneIsNoRow

(* What a request that has begun is about.                                  *)
LEMMA Begun ==
    ASSUME IInv, NEW r \in Req, pc[r] # "new"
    PROVE  /\ On(r) \in Table /\ op[r] \in Operations
           /\ Row(r) \in RowOf(On(r)) \cup {None} /\ FirstRow(r) \in RowOf(On(r))
           /\ pc[r] \in Locations
<1>1. op[r] \in Ops
  BY DEF IInv, Sorts
<1>2. On(r) \in Table /\ FirstRow(r) \in RowOf(On(r))
  BY <1>1, FirstRowIsRow
<1> QED
  BY <1>1, <1>2, OperationsAssumption DEF IInv, Sorts, Row

(* A step of one request settles the others as they were.                   *)
LEMMA SettledStep ==
    ASSUME AllSettled, NEW r \in Req, contact' = contact, tried' \in [Req -> SUBSET (Channel \X Outcome)],
           \A q \in Req \ {r} : /\ op'[q] = op[q] /\ pc'[q] = pc[q] /\ seen'[q] = seen[q]
                                /\ tried'[q] = tried[q],
           Settled(r)'
    PROVE  AllSettled'
<1>1. ASSUME NEW q \in Req, q # r PROVE Settled(q)'
  <2>1. /\ op'[q] = op[q] /\ pc'[q] = pc[q] /\ seen'[q] = seen[q] /\ tried'[q] = tried[q]
    BY <1>1
  <2>2. Settled(q)
    BY DEF AllSettled
  <2> QED
    BY <2>1, <2>2 DEF Settled, InPlace, SendsInOrder, AllTried, On, Kind, Brings
<1> QED
  BY <1>1 DEF AllSettled

(* Steps that send nothing: the request goes on to a place that fits what   *)
(* it holds.                                                                *)
LEMMA SilentStep ==
    ASSUME IInv, AllSettled, NEW r \in Req,
           UNCHANGED <<contact, op, tried>>,
           NEW place \in Locations \ {"new", "look", "sms"}, Goto(r, place),
           \A q \in Req \ {r} : seen'[q] = seen[q],
           seen'[r] # None => seen'[r] \in RowOf(On(r)),
           place \in {"insert", "reread"} => seen'[r] = None,
           place \in {"save", "email"} => seen'[r] # None,
           place = "save" => Kind(r) \notin {"view", "notify"},
           place \in {"refresh", "schedule"} => Brings(r),
           place = "email" => Kind(r) = "notify",
           place \in {"insert", "reread", "email"} => tried[r] = {},
           place = "answered" /\ Kind(r) = "notify" => seen'[r] = None
    PROVE  AllSettled'
<1>1. pc'[r] = place /\ \A q \in Req \ {r} : pc'[q] = pc[q]
  BY DEF Goto, IInv, Sorts
<1>2. tried \in [Req -> SUBSET (Channel \X Outcome)]
  BY DEF AllSettled
<1>3. InPlace(r)' /\ SendsInOrder(r)' /\ AllTried(r)'
  BY <1>1 DEF InPlace, SendsInOrder, AllTried, Kind, Brings
<1>4. Settled(r)'
  BY <1>2, <1>3 DEF Settled, On
<1> QED
  BY <1>1, <1>2, <1>4, SettledStep

(* A request looks for its row, or finds it after it lost the race for it   *)
(* (get_or_create_user_settings).                                           *)
LEMMA LookSettled ==
    ASSUME IInv, AllSettled, NEW r \in Req, Look(r) \/ InsertLoses(r) \/ Reread(r)
    PROVE  AllSettled'
<1>1. /\ pc[r] \in {"look", "insert", "reread"} /\ UNCHANGED <<contact, op, tried>>
      /\ DOMAIN seen = Req
  BY DEF Look, InsertLoses, Reread, hostVars, IInv, Sorts
<1>2. seen[r] = None /\ tried[r] = {} /\ On(r) \in Table /\ Row(r) \in RowOf(On(r)) \cup {None}
  BY <1>1, Begun DEF AllSettled, Settled, InPlace, SendsInOrder
<1>3. CASE \E place \in {"answered", "error", "reread"} : Goto(r, place) /\ UNCHANGED seen
  <2>1. PICK place \in {"answered", "error", "reread"} : Goto(r, place) /\ UNCHANGED seen
    BY <1>3
  <2>2. place \in Locations \ {"new", "look", "sms"}
    BY DEF Locations, Ended
  <2> QED
    BY <1>1, <1>2, <2>1, <2>2, SilentStep
<1>4. CASE Row(r) = None /\ Holding(r, Row(r), "insert")
  <2>1. "insert" \in Locations \ {"new", "look", "sms"}
    BY DEF Locations
  <2>2. Goto(r, "insert") /\ seen'[r] = None /\ \A q \in Req \ {r} : seen'[q] = seen[q]
    BY <1>1, <1>4 DEF Holding
  <2> QED
    BY <1>1, <1>2, <2>1, <2>2, SilentStep
<1>5. CASE Row(r) # None /\ Holding(r, Row(r), AfterRow(r))
  <2>1. Goto(r, AfterRow(r)) /\ seen'[r] = Row(r) /\ \A q \in Req \ {r} : seen'[q] = seen[q]
    BY <1>1, <1>5 DEF Holding
  <2>2. PICK place \in {"answered", "email", "save"} :
            /\ AfterRow(r) = place
            /\ place = "answered" <=> Kind(r) = "view"
            /\ place = "email" <=> Kind(r) = "notify"
    BY DEF AfterRow
  <2>3. place \in Locations \ {"new", "look", "sms"} /\ Goto(r, place)
    BY <2>1, <2>2 DEF Locations, Ended
  <2>4. Row(r) \in RowOf(On(r))
    BY <1>2, <1>5
  <2> QED
    BY <1>1, <1>2, <1>5, <2>1, <2>2, <2>3, <2>4, SilentStep
<1>6. \/ \E place \in {"answered", "error", "reread"} : Goto(r, place) /\ UNCHANGED seen
      \/ Row(r) = None /\ Holding(r, Row(r), "insert")
      \/ Row(r) # None /\ Holding(r, Row(r), AfterRow(r))
  BY DEF Look, InsertLoses, Reread
<1> QED
  BY <1>3, <1>4, <1>5, <1>6

(* The first row is held by the request that inserted it.                   *)
LEMMA InsertSettled ==
    ASSUME IInv, AllSettled, NEW r \in Req, Insert(r)
    PROVE  AllSettled'
<1> DEFINE place == IF Kind(r) = "put" THEN "answered" ELSE AfterRow(r)
           first == FirstRow(r)
<1>1. /\ pc[r] = "insert" /\ UNCHANGED <<contact, op, tried>> /\ DOMAIN seen = Req
      /\ seen' = [seen EXCEPT ![r] = first] /\ Goto(r, place)
  BY DEF Insert, Holding, hostVars, IInv, Sorts
<1>2. tried[r] = {} /\ On(r) \in Table /\ first \in RowOf(On(r))
  BY <1>1, Begun DEF AllSettled, Settled, SendsInOrder
<1>3. /\ place \in Locations \ {"new", "look", "sms"}
      /\ place \notin {"insert", "reread", "refresh", "schedule"}
      /\ place = "save" => Kind(r) \notin {"view", "notify"}
      /\ place = "email" <=> Kind(r) = "notify"
  BY DEF AfterRow, Locations, Ended
<1> HIDE DEF place, first
<1>4. first # None
  BY <1>2, RowIsThere
<1>5. seen'[r] = first /\ \A q \in Req \ {r} : seen'[q] = seen[q]
  BY <1>1
<1> QED
  BY <1>1, <1>2, <1>3, <1>4, <1>5, SilentStep

(* What a request holds after it has set its columns (update_user_settings). *)
LEMMA WithRow ==
    ASSUME NEW r \in Req, op[r] \in Operations, NEW row \in RowOf(On(r))
    PROVE  With(row, Sets(r)) \in RowOf(On(r))
<1>1. \A c \in DOMAIN Sets(r) : Sets(r)[c] \in Values(On(r))
  BY OperationSets DEF Sets, On
<1>2. row \in [Columns(On(r)) -> Values(On(r))]
  BY DEF RowOf
<1>3. With(row, Sets(r)) =
        [c \in Columns(On(r)) |-> IF c \in DOMAIN Sets(r) THEN Sets(r)[c] ELSE row[c]]
  BY <1>2 DEF With
<1> QED
  BY <1>1, <1>2, <1>3 DEF RowOf

(* A save, and what upload and import do after it (upload_file,             *)
(* import_pending_files).                                                   *)
LEMMA SaveSettled ==
    ASSUME IInv, AllSettled, NEW r \in Req, Save(r) \/ Refresh(r) \/ Schedule(r)
    PROVE  AllSettled'
<1>1. /\ pc[r] \in {"save", "refresh", "schedule"} /\ UNCHANGED <<contact, op, tried>>
      /\ DOMAIN seen = Req
  BY DEF Save, Refresh, Schedule, hostVars, IInv, Sorts
<1>2. /\ Kind(r) # "notify" /\ On(r) \in Table /\ op[r] \in Operations
      /\ pc[r] \in {"refresh", "schedule"} => Brings(r)
      /\ seen[r] # None => seen[r] \in RowOf(On(r))
  BY <1>1, Begun DEF AllSettled, Settled, InPlace, Brings
<1>3. CASE Save(r)
  <2>1. seen' = [seen EXCEPT ![r] = With(seen[r], Sets(r))] /\ seen[r] # None
    BY <1>3 DEF Save, AllSettled, Settled, InPlace
  <2>2. With(seen[r], Sets(r)) \in RowOf(On(r))
    BY <1>2, <2>1, WithRow
  <2>3. PICK place \in {"error", "refresh", "schedule", "answered"} :
            Goto(r, place) /\ (place \in {"refresh", "schedule"} => Brings(r))
    BY <1>3 DEF Save, AfterSave, Brings
  <2>4. place \in Locations \ {"new", "look", "sms"}
    BY DEF Locations, Ended
  <2>5. seen'[r] \in RowOf(On(r)) /\ \A q \in Req \ {r} : seen'[q] = seen[q]
    BY <1>1, <2>1, <2>2
  <2> QED
    BY <1>1, <1>2, <2>3, <2>4, <2>5, SilentStep
<1>4. CASE Refresh(r) \/ Schedule(r)
  <2>1. PICK place \in {"schedule", "error", "answered"} : Goto(r, place) /\ seen' = seen
    BY <1>4 DEF Refresh, Schedule
  <2>2. place \in Locations \ {"new", "look", "sms"}
    BY DEF Locations, Ended
  <2>3. Brings(r)
    BY <1>2, <1>4 DEF Refresh, Schedule
  <2> QED
    BY <1>1, <1>2, <2>1, <2>2, <2>3, SilentStep
<1> QED
  BY <1>3, <1>4

(* The sender is through with a channel: it has tried it if it is on and    *)
(* has an address, whatever came of that (_send_with_session).              *)
LEMMA SenderSettled ==
    ASSUME IInv, AllSettled, NEW r \in Req, NEW c \in Channel,
           Skip(r, c) \/ \E outcome \in Outcome : Try(r, c, outcome)
    PROVE  AllSettled'
<1> DEFINE sent == {t[1] : t \in tried[r]}
           wanted == {x \in contact : seen[r][x]}
<1>1. /\ pc[r] = c /\ UNCHANGED <<contact, op, seen>> /\ c \in {"email", "sms"}
      /\ Goto(r, AfterChannel(c)) /\ tried[r] \in SUBSET (Channel \X Outcome)
  BY DEF Skip, Try, AfterTry, hostVars, Channel, AllSettled
<1>2. /\ seen[r] # None /\ Kind(r) = "notify" /\ contact \subseteq {"email", "sms"}
      /\ tried \in [Req -> SUBSET (Channel \X Outcome)]
  BY <1>1 DEF AllSettled, Settled, InPlace, Channel
<1>3. PICK more \in SUBSET (Channel \X Outcome) :
          /\ tried' = [tried EXCEPT ![r] = tried[r] \cup more]
          /\ {t[1] : t \in more} = wanted \cap {c}
  <2>1. CASE Skip(r, c)
    <3>1. tried' = tried /\ tried[r] \cup {} = tried[r]
      BY <2>1 DEF Skip
    <3>2. tried' = [tried EXCEPT ![r] = tried[r] \cup {}]
      BY <1>2, <3>1
    <3>3. wanted \cap {c} = {}
      BY <2>1 DEF Skip
    <3> QED
      BY <3>2, <3>3
  <2>2. ASSUME NEW outcome \in Outcome, Try(r, c, outcome)
        PROVE  /\ {<<c, outcome>>} \in SUBSET (Channel \X Outcome)
               /\ tried' = [tried EXCEPT ![r] = tried[r] \cup {<<c, outcome>>}]
               /\ {t[1] : t \in {<<c, outcome>>}} = wanted \cap {c}
    <3>1. wanted \cap {c} = {c}
      BY <2>2 DEF Try
    <3>2. {t[1] : t \in {<<c, outcome>>}} = {c}
      OBVIOUS
    <3> QED
      BY <2>2, <3>1, <3>2 DEF Try
  <2> QED
    BY <2>1, <2>2
<1>4. {t[1] : t \in tried[r] \cup more} = sent \cup (wanted \cap {c})
  BY <1>3
<1>5. tried'[r] = tried[r] \cup more /\ \A q \in Req \ {r} : tried'[q] = tried[q]
  BY <1>2, <1>3
<1>6. tried' \in [Req -> SUBSET (Channel \X Outcome)]
  BY <1>1, <1>2, <1>3
<1>7. pc'[r] = AfterChannel(c) /\ \A q \in Req \ {r} : pc'[q] = pc[q]
  BY <1>1 DEF Goto, IInv, Sorts
<1>8. SendsInOrder(r)' /\ AllTried(r)'
  <2>1. CASE c = "email"
    <3>1. tried[r] = {} /\ pc'[r] = "sms"
      BY <1>1, <1>7, <2>1 DEF AllSettled, Settled, SendsInOrder, AfterChannel
    <3>2. {t[1] : t \in tried'[r]} = wanted \cap {"email"}
      BY <1>4, <1>5, <2>1, <3>1
    <3> QED
      BY <1>1, <3>1, <3>2 DEF SendsInOrder, AllTried
  <2>2. CASE c = "sms"
    <3>1. sent = wanted \cap {"email"} /\ pc'[r] = "answered"
      BY <1>1, <1>7, <2>2 DEF AllSettled, Settled, SendsInOrder, AfterChannel
    <3>2. {t[1] : t \in tried'[r]} = wanted
      BY <1>2, <1>4, <1>5, <2>2, <3>1
    <3> QED
      BY <1>1, <3>1, <3>2 DEF SendsInOrder, AllTried
  <2> QED
    BY <1>1, <2>1, <2>2
<1>9. InPlace(r)' /\ On(r)' = On(r)
  BY <1>1, <1>2, <1>7 DEF InPlace, Kind, On, AfterChannel
<1>10. Settled(r)'
  BY <1>1, <1>8, <1>9 DEF Settled, AllSettled
<1> QED
  BY <1>1, <1>2, <1>5, <1>6, <1>7, <1>10, SettledStep

(* A request begins with nothing in its hands. *)
LEMMA BeginSettled ==
    ASSUME IInv, AllSettled, NEW r \in Req, NEW o \in Ops, Begin(r, o)
    PROVE  AllSettled'
<1>1. /\ pc[r] = "new" /\ UNCHANGED <<contact, seen, tried>>
      /\ pc'[r] = "look" /\ \A q \in Req \ {r} : op'[q] = op[q] /\ pc'[q] = pc[q]
  BY DEF Begin, Goto, hostVars, IInv, Sorts
<1>2. seen[r] = None /\ tried[r] = {} /\ tried \in [Req -> SUBSET (Channel \X Outcome)]
  BY <1>1 DEF AllSettled, Settled, InPlace, SendsInOrder
<1>3. Settled(r)'
  BY <1>1, <1>2 DEF Settled, InPlace, SendsInOrder, AllTried
<1> QED
  BY <1>1, <1>2, <1>3, SettledStep

(* Every step leaves each request in its place. *)
LEMMA NextSettled == IInv /\ AllSettled /\ [Next]_vars => AllSettled'
<1> SUFFICES ASSUME IInv, AllSettled, [Next]_vars PROVE AllSettled'
  OBVIOUS
<1>1. ASSUME NEW r \in Req, Step(r) PROVE AllSettled'
  BY <1>1, LookSettled, InsertSettled, SaveSettled, SenderSettled DEF Step, Outcome
<1>2. ASSUME NEW r \in Req, NEW o \in Ops, Begin(r, o) PROVE AllSettled'
  BY <1>2, BeginSettled
<1>3. CASE DeleteAccount \/ UNCHANGED vars
  <2>1. UNCHANGED <<contact, op, pc, seen, tried>>
    BY <1>3 DEF DeleteAccount, vars, hostVars, requestVars
  <2> QED
    BY <2>1 DEF AllSettled, Settled, InPlace, SendsInOrder, AllTried, On, Kind, Brings
<1> QED
  BY <1>1, <1>2, <1>3 DEF Next

(* Nobody has begun. *)
LEMMA InitSettled == Init => AllSettled
BY DEF Init, AllSettled, Settled, InPlace, SendsInOrder, AllTried

(* Whatever races and failures the requests met, the sender has tried       *)
(* exactly the channels that are on and have an address, old users keep     *)
(* their runs, and every session holds what its place says                  *)
(* (user_settings.py, llm_prompt.py, sender.py).                            *)
THEOREM RequestsAreConsistent == Spec => []RequestsConsistent
<1>1. IInv /\ AllSettled => RequestsConsistent
  <2> SUFFICES ASSUME IInv, AllSettled PROVE RequestsConsistent
    OBVIOUS
  <2>1. \A r \in Req : InPlace(r) /\ SendsInOrder(r)
    BY DEF AllSettled, Settled
  <2>2. EveryChannelTried
    BY DEF AllSettled, Settled, AllTried, EveryChannelTried
  <2>3. OldUserKeepsRuns
    BY DEF IInv, Fine, UploadHasRun, OldUserKeepsRow, OldUserKeepsRuns
  <2>4. TypeOK
    <3>1. tried \in [Req -> SUBSET (Channel \X {"sent", "failed"})]
      BY DEF AllSettled, Outcome
    <3>2. \A r \in Req : seen[r] # None => seen[r] \in RowOf(On(r))
      BY DEF AllSettled, Settled
    <3> QED
      BY <3>1, <3>2 DEF IInv, Sorts, AllSettled, TypeOK, Locations
  <2> QED
    BY <2>1, <2>2, <2>3, <2>4 DEF RequestsConsistent
<1> QED
  BY <1>1, InitSettings, NextSettings, InitSettled, NextSettled, PTL DEF Spec

(* What a save stores or had seen, at the step that answers it.             *)
Stored ==
    \A r \in Req : pc[r] \notin Ended \cup {"new"} /\ pc'[r] = "answered"
                   /\ Kind(r) \in {"save", "put"} =>
        \A c \in DOMAIN Sets(r) :
            \/ Row(r)' # None /\ Row(r)'[c] = Sets(r)[c]
            \/ pc[r] = "save" /\ seen[r][c] = Sets(r)[c]

(* A save answers by its UPDATE, or by its INSERT when it is the prompt's   *)
(* (update_user_settings, set_user_prompt).                                 *)
LEMMA Answers ==
    ASSUME IInv, AllSettled, [Next]_vars, NEW r \in Req, pc[r] \notin Ended \cup {"new"},
           pc'[r] = "answered", Kind(r) \in {"save", "put"}
    PROVE  Save(r) \/ (Insert(r) /\ Kind(r) = "put")
<1>1. /\ pc[r] \in {"refresh", "schedule"} => FALSE
      /\ pc[r] \in {"email", "sms"} => FALSE
  BY DEF AllSettled, Settled, InPlace, Brings
<1>2. pc'[r] # pc[r]
  BY DEF Ended
<1>3. ~UNCHANGED vars /\ ~DeleteAccount
  BY <1>2 DEF vars, requestVars, DeleteAccount
<1>4. PICK q \in Req : Step(q) \/ \E o \in Ops : Begin(q, o)
  BY <1>3 DEF Next
<1>5. q = r
  BY <1>2, <1>4
  DEF Step, Begin, Look, Insert, InsertLoses, Reread, Save, Refresh, Schedule, Skip, Try,
      Holding, Goto, IInv, Sorts
<1>6. AfterRow(r) = "save"
  BY DEF AfterRow
<1>7. ~Look(r) /\ ~InsertLoses(r) /\ ~Reread(r)
  BY <1>6 DEF Look, InsertLoses, Reread, Holding, Goto, Brings, IInv, Sorts
<1>8. ~Refresh(r) /\ ~Schedule(r) /\ \A c \in Channel : ~Skip(r, c) /\ \A outcome \in Outcome : ~Try(r, c, outcome)
  BY <1>1 DEF Refresh, Schedule, Skip, Try, Channel
<1>9. Insert(r) => Kind(r) = "put"
  BY <1>6 DEF Insert, Holding, Goto, IInv, Sorts
<1> QED
  BY <1>4, <1>5, <1>7, <1>8, <1>9 DEF Step, Begin, Outcome

(* Every step stores what it answers for. *)
LEMMA NextStored == IInv /\ AllSettled /\ [Next]_vars => Stored
<1> SUFFICES ASSUME IInv, AllSettled, [Next]_vars, NEW r \in Req, pc[r] \notin Ended \cup {"new"},
                    pc'[r] = "answered", Kind(r) \in {"save", "put"},
                    NEW c \in DOMAIN Sets(r)
             PROVE  \/ Row(r)' # None /\ Row(r)'[c] = Sets(r)[c]
                    \/ pc[r] = "save" /\ seen[r][c] = Sets(r)[c]
  BY DEF Stored
<1>1. /\ On(r) \in Table /\ op[r] \in Operations /\ DOMAIN table = Table
      /\ Row(r) \in RowOf(On(r)) \cup {None} /\ FirstRow(r) \in RowOf(On(r))
  BY Begun DEF IInv, Sorts
<1>2. CASE Insert(r) /\ Kind(r) = "put"
  <2>1. op' = op /\ table' = [table EXCEPT ![On(r)] = FirstRow(r)] /\ FirstRow(r) = Sets(r)
    BY <1>2 DEF Insert, FirstRow
  <2>2. Row(r)' = Sets(r) /\ Sets(r) \in RowOf(On(r))
    BY <1>1, <2>1 DEF Row, On
  <2> QED
    BY <1>1, <2>2, RowIsThere
<1>3. CASE Save(r) /\ c \notin Changed(r)
  BY <1>3 DEF Save, Changed
<1>4. CASE Save(r) /\ c \in Changed(r)
  <2>1. Changed(r) # {} /\ pc' = [pc EXCEPT ![r] = IF Row(r) = None THEN "error" ELSE AfterSave(r)]
        /\ op' = op
    BY <1>4 DEF Save, Goto
  <2>2. Row(r) # None
    BY <2>1 DEF IInv, Sorts
  <2>3. table' = [table EXCEPT ![On(r)] = Written(r)]
    BY <1>4, <2>1, <2>2 DEF Save
  <2>4. Row(r)' = Written(r)
    BY <1>1, <2>1, <2>3 DEF Row, On
  <2>5. Row(r) \in RowOf(On(r)) /\ op[r] \in Ops
    BY <1>1, <2>2 DEF IInv, Sorts
  <2>6. Written(r) \in RowOf(On(r)) /\ c \in DOMAIN Row(r)
    BY ZenonT(30), <1>1, <2>5, WrittenRow, OperationSets DEF RowOf, Sets, On
  <2>7. Written(r)[c] = Sets(r)[c]
    BY <1>4, <2>6 DEF Written
  <2> QED
    BY <1>1, <2>4, <2>6, <2>7, RowIsThere
<1> QED
  BY <1>2, <1>3, <1>4, Answers

(* A save that answers has just stored its columns, or had read each in the *)
(* row as it asked, also when it lost the race for the first row            *)
(* (update_user_settings, set_user_prompt).                                 *)
THEOREM AnsweredSavesStored == Spec => SavedOrSeen
<1>1. IInv /\ AllSettled /\ [Next]_vars => [Stored]_vars
  BY NextStored
<1> QED
  BY <1>1, InitSettings, NextSettings, InitSettled, NextSettled, PTL DEF Spec, SavedOrSeen, Stored
================================================================================
