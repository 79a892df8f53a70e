--------------------------- MODULE PipelineDispatch ---------------------------
(***************************************************************************)
(* How a processing run gets from the endpoint that created it to the one  *)
(* handler that executes it: the upload and import endpoints, the Cloud    *)
(* Tasks queue, the push endpoint /internal/pipeline/run and the batch     *)
(* chain.  Deliveries are at least once, answers may come after the        *)
(* dispatch deadline, handlers may die anywhere.                           *)
(*                                                                         *)
(* The pipeline itself (runner.run_pipeline) is folded into five steps:    *)
(* start, process, notify, settle, move.  Its seven steps, one commit at a *)
(* time, are module PipelineRunner.                                        *)
(***************************************************************************)
EXTENDS Naturals, FiniteSets

CONSTANTS
    Batch,          (* requests: an upload is a batch of one file          *)
    Size,           (* number of files in each batch                       *)
    Handler,        (* push requests the service can be running at once    *)
    Task,           (* identities of the tasks ever put on the queue       *)
    None,           (* "no task", "no verdict"                             *)
    MaxAttempts,    (* the queue's max-attempts                            *)
    MaxConcurrent,  (* the queue's max-concurrent-dispatches               *)
    MaxFaults       (* BOUND: how often each kind of fault may strike      *)

(***************************************************************************)
(* abort      a process dies, or an exception nobody catches answers 5xx   *)
(* overrun    the dispatch deadline passes, or the answer is lost, while   *)
(*            the handler runs on                                          *)
(* duplicate  the queue delivers a task once more                          *)
(* vanish     the storage provider cannot be rebuilt from its saved row    *)
(* reject     create_task raises and no task exists                        *)
(* lie        the scheduler raises although the task was created           *)
(* any        one of these, whichever: what is left of them in all         *)
(***************************************************************************)
FaultKind == {"abort", "overrun", "duplicate", "vanish", "reject", "lie", "any"}

(* A run is named by its batch and its position in the batch. *)
Run == UNION {{b} \X (1..Size[b]) : b \in Batch}

ASSUME DispatchAssumption ==
    /\ Size \in [Batch -> Nat \ {0}]
    /\ None \notin Run /\ None \notin Handler /\ None \notin Task
    /\ MaxAttempts \in Nat \ {0}
    /\ MaxConcurrent \in Nat \ {0}
    /\ MaxFaults \in [FaultKind -> Nat]

VARIABLES
    status,     (* status column of each run's row, "absent" before insert *)
    told,       (* outcomes the user has been notified of, per run         *)
    folder,     (* where each run's file is                                *)
    request,    (* where each upload/import request is                     *)
    marked,     (* runs a failing request has already marked failed        *)
    phase,      (* state of each task on the queue                         *)
    carries,    (* the run each task names; later ones are its remainder   *)
    attempts,   (* times the queue has dispatched each task                *)
    awaited,    (* handlers whose answer the queue still waits for         *)
    pc,         (* where each handler is in run_pipeline_push              *)
    job,        (* the task each handler was given                         *)
    verdict,    (* how the pipeline a handler executes is ending           *)
    faults      (* faults that may still strike                            *)

runVars     == <<status, told, folder>>
requestVars == <<request, marked>>
queueVars   == <<phase, carries, attempts, awaited>>
handlerVars == <<pc, job, verdict>>
vars == <<runVars, requestVars, queueVars, handlerVars, faults>>

Verdict  == {"success", "failed"}
Terminal == {"success", "failed"}
Status   == {"absent", "pending", "in_progress"} \cup Terminal

RequestState == {"new", "created", "accepted", "unscheduling", "telling",
                 "rejected", "dead"}
Phase == {"none", "queued", "dispatched", "done", "dropped"}

(* Inside run_pipeline: between winning the claim and leaving move_file. *)
Executing == {"start", "process", "notify", "settle", "move"}
Location  == {"idle", "check", "build", "giveup", "giveup_notify", "claim",
              "advance", "respond"} \cup Executing

TypeOK ==
    /\ status   \in [Run -> Status]
    /\ told     \in [Run -> SUBSET Verdict]
    /\ folder   \in [Run -> {"watch", "processed", "failed"}]
    /\ request  \in [Batch -> RequestState]
    /\ marked   \in [Batch -> Nat]
    /\ phase    \in [Task -> Phase]
    /\ carries  \in [Task -> Run \cup {None}]
    /\ attempts \in [Task -> Nat]
    /\ awaited  \in SUBSET Handler
    /\ pc       \in [Handler -> Location]
    /\ job      \in [Handler -> Task \cup {None}]
    /\ verdict  \in [Handler -> Verdict \cup {None}]
    /\ faults   \in [FaultKind -> Nat]

Init ==
    /\ status   = [r \in Run |-> "absent"]
    /\ told     = [r \in Run |-> {}]
    /\ folder   = [r \in Run |-> "watch"]
    /\ request  = [b \in Batch |-> "new"]
    /\ marked   = [b \in Batch |-> 0]
    /\ phase    = [t \in Task |-> "none"]
    /\ carries  = [t \in Task |-> None]
    /\ attempts = [t \in Task |-> 0]
    /\ awaited  = {}
    /\ pc       = [h \in Handler |-> "idle"]
    /\ job      = [h \in Handler |-> None]
    /\ verdict  = [h \in Handler |-> None]
    /\ faults   = MaxFaults

-----------------------------------------------------------------------------
(* Helpers *)

Spend(kind) ==
    /\ faults[kind] > 0 /\ faults["any"] > 0
    /\ faults' = [faults EXCEPT ![kind] = @ - 1, !["any"] = @ - 1]

IsLast(r)    == r[2] = Size[r[1]]
NextRun(r)   == <<r[1], r[2] + 1>>
RunOf(h)     == carries[job[h]]
FreshTask    == CHOOSE t \in Task : phase[t] = "none"
IdleHandler  == CHOOSE h \in Handler : pc[h] = "idle"

(* create_task with a payload for run r and the rest of its batch. *)
Enqueue(r) ==
    /\ \E t \in Task : phase[t] = "none"
    /\ phase'   = [phase EXCEPT ![FreshTask] = "queued"]
    /\ carries' = [carries EXCEPT ![FreshTask] = r]
    /\ UNCHANGED <<attempts, awaited>>

(* An attempt that got no 2xx: the queue retries until attempts run out. *)
Retry(t) ==
    phase' = [phase EXCEPT ![t] =
                 IF attempts[t] < MaxAttempts THEN "queued" ELSE "dropped"]

Goto(h, location) == pc' = [pc EXCEPT ![h] = location]

(* A handler starts on task t. *)
Receive(h, t) ==
    /\ pc'  = [pc EXCEPT ![h] = "check"]
    /\ job' = [job EXCEPT ![h] = t]
    /\ UNCHANGED verdict

(* The handler's request is over. *)
Leave(h) ==
    /\ pc'      = [pc EXCEPT ![h] = "idle"]
    /\ job'     = [job EXCEPT ![h] = None]
    /\ verdict' = [verdict EXCEPT ![h] = None]

-----------------------------------------------------------------------------
(* Mutated forms of the actions below, each with a bug the code could have.  *)
(* No specification uses them: they show that the properties can be broken.  *)

(* The scheduler starts from the wrong end of the batch. *)
ScheduleLastFile(b) ==
    /\ request[b] = "created"
    /\ Enqueue(<<b, Size[b]>>)
    /\ request' = [request EXCEPT ![b] = "accepted"]
    /\ UNCHANGED <<runVars, marked, handlerVars, faults>>

(* The loop over the runs to mark ends one run late. *)
TellPastTheEnd(b) ==
    /\ request[b] = "telling"
    /\ told'    = [told EXCEPT ![<<b, marked[b] + 1>>] = @ \cup {"failed"}]
    /\ marked'  = [marked EXCEPT ![b] = @ + 1]
    /\ request' = [request EXCEPT ![b] =
                      IF marked[b] = Size[b] THEN "rejected" ELSE "unscheduling"]
    /\ UNCHANGED <<status, folder, queueVars, handlerVars, faults>>

(* A duplicate of a finished run is answered without advancing the chain. *)
CheckThenRespond(h) ==
    /\ pc[h] = "check"
    /\ Goto(h, IF status[RunOf(h)] \in Terminal THEN "respond" ELSE "build")
    /\ UNCHANGED <<job, verdict, runVars, requestVars, queueVars, faults>>

(* The chain is advanced before the run instead of after it. *)
BuildAdvances(h) ==
    /\ pc[h] = "build"
    /\ IF IsLast(RunOf(h)) THEN UNCHANGED queueVars ELSE Enqueue(NextRun(RunOf(h)))
    /\ Goto(h, "claim")
    /\ UNCHANGED <<job, verdict, runVars, requestVars, faults>>

(* The claim is an UPDATE without its WHERE status = 'pending'. *)
ClaimAnyStatus(h) ==
    /\ pc[h] = "claim"
    /\ status' = [status EXCEPT ![RunOf(h)] = "in_progress"]
    /\ Goto(h, "start")
    /\ UNCHANGED <<job, verdict, told, folder, requestVars, queueVars, faults>>

(* A lost claim is answered without advancing the chain. *)
ClaimMissesThenRespond(h) ==
    /\ pc[h] = "claim"
    /\ status[RunOf(h)] # "pending"
    /\ Goto(h, "respond")
    /\ UNCHANGED <<job, verdict, runVars, requestVars, queueVars, faults>>

(* The verdict is committed without step 7. *)
ProcessThenSettle(h) ==
    /\ pc[h] = "process"
    /\ \E v \in Verdict : verdict' = [verdict EXCEPT ![h] = v]
    /\ Goto(h, "settle")
    /\ UNCHANGED <<job, runVars, requestVars, queueVars, faults>>

(* The file is moved before the verdict is committed. *)
NotifyThenMove(h) ==
    /\ pc[h] = "notify"
    /\ told' = [told EXCEPT ![RunOf(h)] = @ \cup {verdict[h]}]
    /\ Goto(h, "move")
    /\ UNCHANGED <<job, verdict, status, folder, requestVars, queueVars, faults>>

(* A failed run is told to the user but never marked failed. *)
SettleSuccessOnly(h) ==
    /\ pc[h] = "settle"
    /\ status' = IF verdict[h] = "success"
                 THEN [status EXCEPT ![RunOf(h)] = "success"] ELSE status
    /\ Goto(h, "move")
    /\ UNCHANGED <<job, verdict, told, folder, requestVars, queueVars, faults>>

(* An exception hands the run back so that a retry can claim it again. *)
AbortReleases(h) ==
    /\ pc[h] # "idle"
    /\ Spend("abort")
    /\ IF h \in awaited THEN Retry(job[h]) ELSE UNCHANGED phase
    /\ awaited' = awaited \ {h}
    /\ status'  = [status EXCEPT ![RunOf(h)] = "pending"]
    /\ Leave(h)
    /\ UNCHANGED <<carries, attempts, told, folder, requestVars>>

-----------------------------------------------------------------------------
(* The endpoints that create runs *)

(* All rows of the request, in one commit. *)
CreateRuns(b) ==
    /\ request[b] = "new"
    /\ status'  = [r \in Run |-> IF r[1] = b THEN "pending" ELSE status[r]]
    /\ request' = [request EXCEPT ![b] = "created"]
    /\ UNCHANGED <<told, folder, marked, queueVars, handlerVars, faults>>

(* Only the first file is put on the queue; 202 is answered. *)
Schedule(b) ==
    /\ request[b] = "created"
    /\ Enqueue(<<b, 1>>)
    /\ request' = [request EXCEPT ![b] = "accepted"]
    /\ UNCHANGED <<runVars, marked, handlerVars, faults>>

(* create_task raised before the queue took the task. *)
ScheduleFails(b) ==
    /\ request[b] = "created"
    /\ Spend("reject")
    /\ request' = [request EXCEPT ![b] = "unscheduling"]
    /\ UNCHANGED <<runVars, marked, queueVars, handlerVars>>

(* create_task timed out after the queue took the task, or storage.aclose  *)
(* raised behind it: the endpoint cannot tell the difference.              *)
ScheduleLies(b) ==
    /\ request[b] = "created"
    /\ Spend("lie")
    /\ Enqueue(<<b, 1>>)
    /\ request' = [request EXCEPT ![b] = "unscheduling"]
    /\ UNCHANGED <<runVars, marked, handlerVars>>

(* mark_runs_failed_to_schedule, one run: the commit ... *)
MarkUnscheduled(b) ==
    /\ request[b] = "unscheduling"
    /\ status'  = [status EXCEPT ![<<b, marked[b] + 1>>] = "failed"]
    /\ request' = [request EXCEPT ![b] = "telling"]
    /\ UNCHANGED <<told, folder, marked, queueVars, handlerVars, faults>>

(* ... then the notification, then the next run of the list. *)
TellUnscheduled(b) ==
    /\ request[b] = "telling"
    /\ told'    = [told EXCEPT ![<<b, marked[b] + 1>>] = @ \cup {"failed"}]
    /\ marked'  = [marked EXCEPT ![b] = @ + 1]
    /\ request' = [request EXCEPT ![b] =
                      IF marked[b] + 1 = Size[b] THEN "rejected"
                                                 ELSE "unscheduling"]
    /\ UNCHANGED <<status, folder, queueVars, handlerVars, faults>>

RequestDies(b) ==
    /\ request[b] \in {"created", "unscheduling", "telling"}
    /\ Spend("abort")
    /\ request' = [request EXCEPT ![b] = "dead"]
    /\ UNCHANGED <<runVars, marked, queueVars, handlerVars>>

-----------------------------------------------------------------------------
(* The queue *)

Dispatch(t) ==
    /\ phase[t] = "queued"
    /\ Cardinality(awaited) < MaxConcurrent
    /\ \E h \in Handler : pc[h] = "idle"
    /\ Receive(IdleHandler, t)
    /\ phase'    = [phase EXCEPT ![t] = "dispatched"]
    /\ attempts' = [attempts EXCEPT ![t] = @ + 1]
    /\ awaited'  = awaited \cup {IdleHandler}
    /\ UNCHANGED <<carries, runVars, requestVars, faults>>

(* At-least-once: one more delivery of a task already delivered. *)
Duplicate(t) ==
    /\ phase[t] \in {"dispatched", "done"}
    /\ \E h \in Handler : pc[h] = "idle"
    /\ Spend("duplicate")
    /\ Receive(IdleHandler, t)
    /\ UNCHANGED <<queueVars, runVars, requestVars>>

(* The queue gives up waiting for handler h; h does not notice. *)
Overrun(h) ==
    /\ h \in awaited
    /\ Spend("overrun")
    /\ Retry(job[h])
    /\ awaited' = awaited \ {h}
    /\ UNCHANGED <<carries, attempts, runVars, requestVars, handlerVars>>

-----------------------------------------------------------------------------
(* The push endpoint *)

(* run_already_terminal: a plain read. *)
Check(h) ==
    /\ pc[h] = "check"
    /\ Goto(h, IF status[RunOf(h)] \in Terminal THEN "advance" ELSE "build")
    /\ UNCHANGED <<job, verdict, runVars, requestVars, queueVars, faults>>

Build(h) ==
    /\ pc[h] = "build"
    /\ Goto(h, "claim")
    /\ UNCHANGED <<job, verdict, runVars, requestVars, queueVars, faults>>

BuildFails(h) ==
    /\ pc[h] = "build"
    /\ Spend("vanish")
    /\ Goto(h, "giveup")
    /\ UNCHANGED <<job, verdict, runVars, requestVars, queueVars>>

(* _fail_run_without_storage looks at no status before writing one ... *)
GiveUp(h) ==
    /\ pc[h] = "giveup"
    /\ status' = [status EXCEPT ![RunOf(h)] = "failed"]
    /\ Goto(h, "giveup_notify")
    /\ UNCHANGED <<job, verdict, told, folder, requestVars, queueVars, faults>>

(* ... and notifies after its commit. *)
GiveUpNotify(h) ==
    /\ pc[h] = "giveup_notify"
    /\ told' = [told EXCEPT ![RunOf(h)] = @ \cup {"failed"}]
    /\ Goto(h, "advance")
    /\ UNCHANGED <<job, verdict, status, folder, requestVars, queueVars, faults>>

(* UPDATE ... WHERE status = 'pending': the row changes, h executes. *)
Claim(h) ==
    /\ pc[h] = "claim"
    /\ status[RunOf(h)] = "pending"
    /\ status' = [status EXCEPT ![RunOf(h)] = "in_progress"]
    /\ Goto(h, "start")
    /\ UNCHANGED <<job, verdict, told, folder, requestVars, queueVars, faults>>

(* No row changed: run_pipeline_dispatch returns as if it had succeeded. *)
ClaimMisses(h) ==
    /\ pc[h] = "claim"
    /\ status[RunOf(h)] # "pending"
    /\ Goto(h, "advance")
    /\ UNCHANGED <<job, verdict, runVars, requestVars, queueVars, faults>>

(* run_pipeline opens by writing in_progress over the status it loaded. The *)
(* ORM writes nothing when the row already said so, which a status marked   *)
(* failed between the load and the commit survives: it comes to the same as *)
(* a mark right after this step.                                            *)
Start(h) ==
    /\ pc[h] = "start"
    /\ status' = [status EXCEPT ![RunOf(h)] = "in_progress"]
    /\ Goto(h, "process")
    /\ UNCHANGED <<job, verdict, told, folder, requestVars, queueVars, faults>>

(* Steps 1 to 6: all that shows here is whether one of them failed. *)
Process(h) ==
    /\ pc[h] = "process"
    /\ \E v \in Verdict : verdict' = [verdict EXCEPT ![h] = v]
    /\ Goto(h, "notify")
    /\ UNCHANGED <<job, runVars, requestVars, queueVars, faults>>

(* Step 7, before the verdict is committed. *)
Notify(h) ==
    /\ pc[h] = "notify"
    /\ told' = [told EXCEPT ![RunOf(h)] = @ \cup {verdict[h]}]
    /\ Goto(h, "settle")
    /\ UNCHANGED <<job, verdict, status, folder, requestVars, queueVars, faults>>

Settle(h) ==
    /\ pc[h] = "settle"
    /\ status' = [status EXCEPT ![RunOf(h)] = verdict[h]]
    /\ Goto(h, "move")
    /\ UNCHANGED <<job, verdict, told, folder, requestVars, queueVars, faults>>

Move(h) ==
    /\ pc[h] = "move"
    /\ folder' = [folder EXCEPT ![RunOf(h)] =
                     IF verdict[h] = "success" THEN "processed" ELSE "failed"]
    /\ Goto(h, "advance")
    /\ UNCHANGED <<job, verdict, status, told, requestVars, queueVars, faults>>

(* _advance_batch_chain *)
Advance(h) ==
    /\ pc[h] = "advance"
    /\ IF IsLast(RunOf(h)) THEN UNCHANGED queueVars
                           ELSE Enqueue(NextRun(RunOf(h)))
    /\ Goto(h, "respond")
    /\ UNCHANGED <<job, verdict, runVars, requestVars, faults>>

(* 200: the task is done, unless the queue no longer waits for h. *)
Respond(h) ==
    /\ pc[h] = "respond"
    /\ phase' = IF h \in awaited THEN [phase EXCEPT ![job[h]] = "done"] ELSE phase
    /\ awaited' = awaited \ {h}
    /\ Leave(h)
    /\ UNCHANGED <<carries, attempts, runVars, requestVars, faults>>

(* The handler dies, or raises and answers 5xx. *)
Abort(h) ==
    /\ pc[h] # "idle"
    /\ Spend("abort")
    /\ IF h \in awaited THEN Retry(job[h]) ELSE UNCHANGED phase
    /\ awaited' = awaited \ {h}
    /\ Leave(h)
    /\ UNCHANGED <<carries, attempts, runVars, requestVars>>

-----------------------------------------------------------------------------
(* Every request answered, every task finished with, no handler running. *)
Quiescent ==
    /\ \A b \in Batch : request[b] \in {"accepted", "rejected", "dead"}
    /\ \A t \in Task : phase[t] \in {"none", "done", "dropped"}
    /\ \A h \in Handler : pc[h] = "idle"

Rest == Quiescent /\ UNCHANGED vars

RequestStep(b) ==
    \/ Schedule(b) \/ ScheduleFails(b) \/ ScheduleLies(b)
    \/ MarkUnscheduled(b) \/ TellUnscheduled(b)

HandlerStep(h) ==
    \/ Check(h) \/ Build(h) \/ BuildFails(h) \/ GiveUp(h) \/ GiveUpNotify(h)
    \/ Claim(h) \/ ClaimMisses(h) \/ Start(h) \/ Process(h) \/ Notify(h)
    \/ Settle(h) \/ Move(h) \/ Advance(h) \/ Respond(h)

Next ==
    \/ \E b \in Batch : CreateRuns(b) \/ RequestStep(b) \/ RequestDies(b)
    \/ \E t \in Task : Dispatch(t) \/ Duplicate(t)
    \/ \E h \in Handler : HandlerStep(h) \/ Overrun(h) \/ Abort(h)
    \/ Rest

Spec == Init /\ [][Next]_vars

(* Requests and handlers that are running keep running, and the queue keeps *)
(* dispatching.  Nobody has to upload anything, and no fault has to strike. *)
Fairness ==
    /\ \A b \in Batch : WF_vars(RequestStep(b))
    /\ WF_vars(\E t \in Task : Dispatch(t))
    /\ \A h \in Handler : WF_vars(HandlerStep(h))

FairSpec == Spec /\ Fairness

-----------------------------------------------------------------------------
(* Properties *)

Executes(h) == pc[h] \in Executing
TakenUp(r)  == status[r] \notin {"absent", "pending"}

(* However often a run's task is delivered, at most one handler is ever     *)
(* inside run_pipeline for it (dispatch._claim_run).                        *)
OneExecutor ==
    \A g, h \in Handler :
        Executes(g) /\ Executes(h) /\ RunOf(g) = RunOf(h) => g = h

(* The files of a batch are taken up in the order of the batch: no run is   *)
(* claimed or failed while an earlier one of its batch is still pending     *)
(* (the chain of _advance_batch_chain, the order mark_runs_failed_to_       *)
(* schedule works in).                                                      *)
BatchOrder ==
    \A b \in Batch : \A i, j \in 1..Size[b] :
        i < j /\ TakenUp(<<b, j>>) => TakenUp(<<b, i>>)

(* The chain is not dropped by an acknowledgement: when the queue deletes a *)
(* task, its run has been taken up and the next run of the batch has had a  *)
(* task of its own (_advance_batch_chain runs before every 200).            *)
HandedOn ==
    \A t \in Task : phase[t] = "done" =>
        /\ TakenUp(carries[t])
        /\ IsLast(carries[t]) \/ \E u \in Task : carries[u] = NextRun(carries[t])

(* A file leaves the watch folder only for a run that is over, and for the  *)
(* folder that matches what its user was told (runner: notify, then commit, *)
(* then move_file).                                                         *)
FiledAfterVerdict ==
    \A r \in Run : folder[r] # "watch" =>
        /\ status[r] \in Terminal
        /\ (IF folder[r] = "processed" THEN "success" ELSE "failed") \in told[r]

(* No run is a success its user was not told of, whatever step the handler  *)
(* died at (runner: step 7 precedes the terminal commit).                   *)
SuccessIsTold == \A r \in Run : status[r] = "success" => "success" \in told[r]

(* Only the endpoint that inserts a row makes it pending: no step of any    *)
(* handler puts a run that was taken up back within reach of a claim.       *)
NeverPendingAgain == [][\A r \in Run : TakenUp(r) => TakenUp(r)']_vars

(* None of these faults has struck yet. *)
Unspent(kinds) == \A k \in kinds : faults[k] = MaxFaults[k]

(* Two files of one batch are never processed at once while every delivery  *)
(* is answered in time and none is repeated: the queue's limit of one       *)
(* dispatch sees to that whoever dies, and the chain alone does, on a queue *)
(* that dispatches several tasks, if no handler dies after it has advanced  *)
(* the chain and no scheduler lies (_advance_batch_chain, provision.sh).    *)
BatchSerial ==
    /\ Unspent({"overrun", "duplicate"})
    /\ MaxConcurrent = 1 \/ Unspent({"abort", "lie"})
    => \A g, h \in Handler :
           g # h /\ Executes(g) /\ Executes(h) => RunOf(g)[1] # RunOf(h)[1]

(* Once 202 is answered every run of the batch is eventually taken up: the  *)
(* queue's retries bring the chain past any fault (internal_pipeline).      *)
AcceptedRunsStart ==
    \A b \in Batch :
        request[b] = "accepted" ~> \A i \in 1..Size[b] : TakenUp(<<b, i>>)

(* Late answers and repeated deliveries keep no run of an accepted batch    *)
(* from its final status: only the death of a handler can.                  *)
RunsEndUnlessOneDies ==
    \A b \in Batch : request[b] = "accepted" ~>
        \/ \A i \in 1..Size[b] : status[<<b, i>>] \in Terminal
        \/ faults["abort"] # MaxFaults["abort"]

(* The claim of run_pipeline_dispatch: retries are a safety net for crashes *)
(* too, so every run of an accepted batch reaches a final status.           *)
AcceptedRunsEnd ==
    \A b \in Batch :
        request[b] = "accepted" ~> \A i \in 1..Size[b] : status[<<b, i>>] \in Terminal

-----------------------------------------------------------------------------
(* The inductive invariant behind the safety properties *)

(* A batch's rows exist exactly from its one insert on. *)
RowsOfRequest ==
    \A r \in Run : status[r] = "absent" <=> request[r[1]] = "new"

(* The endpoint marks the runs of a batch from the first to the last. *)
MarkedInOrder ==
    \A b \in Batch :
        /\ request[b] \in {"new", "created"} => marked[b] = 0
        /\ request[b] \in {"unscheduling", "telling"} => marked[b] < Size[b]
        /\ request[b] = "telling" => TakenUp(<<b, marked[b] + 1>>)
        /\ \A i \in 1..Size[b] : i <= marked[b] => TakenUp(<<b, i>>)

(* A task names an existing run whose predecessor has been taken up. *)
TasksFollowTheChain ==
    \A t \in Task :
        /\ phase[t] = "none" <=> carries[t] = None
        /\ carries[t] # None =>
            /\ status[carries[t]] # "absent"
            /\ carries[t][2] > 1 =>
                   TakenUp(<<carries[t][1], carries[t][2] - 1>>)

(* Where a handler is tells what has happened to its run. *)
HandlerFacts(h) ==
    /\ job[h] \in Task /\ RunOf(h) \in Run
    /\ pc[h] \in Executing \cup {"giveup_notify", "advance", "respond"}
           => TakenUp(RunOf(h))
    /\ pc[h] \in {"notify", "settle", "move"} => verdict[h] \in Verdict
    /\ pc[h] \in {"settle", "move"} => verdict[h] \in told[RunOf(h)]
    /\ pc[h] = "move" => status[RunOf(h)] \in Terminal
    /\ Executes(h) => folder[RunOf(h)] = "watch"
    /\ pc[h] = "respond" =>
           IsLast(RunOf(h)) \/ \E u \in Task : carries[u] = NextRun(RunOf(h))

HandlerKnows == \A h \in Handler : pc[h] # "idle" => HandlerFacts(h)

(* The queue waits only for handlers that are running. *)
AwaitedRun == \A h \in awaited : pc[h] # "idle"

UntakenUnfiled == \A r \in Run : ~TakenUp(r) => folder[r] = "watch"

IInv ==
    /\ TypeOK
    /\ RowsOfRequest
    /\ MarkedInOrder
    /\ TasksFollowTheChain
    /\ HandlerKnows
    /\ AwaitedRun
    /\ UntakenUnfiled
    /\ OneExecutor
    /\ BatchOrder
    /\ HandedOn
    /\ FiledAfterVerdict
    /\ SuccessIsTold

(* What holds as long as certain faults have not struck; a part without     *)
(* Unspent holds always.                                                    *)
FaultsLeft == \A k \in FaultKind : faults[k] <= MaxFaults[k]

(* The dispatches whose answers the queue waits for (max-concurrent-dispatches). *)
QueueLimit == IsFiniteSet(awaited) /\ Cardinality(awaited) <= MaxConcurrent

(* The queue waits for every handler that is running. *)
AllAwaited ==
    Unspent({"overrun", "duplicate"}) => \A h \in Handler : pc[h] # "idle" => h \in awaited

(* Only a 202 leaves a task behind. *)
TasksAccepted ==
    Unspent({"lie"}) =>
        \A t \in Task : carries[t] # None => request[carries[t][1]] = "accepted"

(* A task that has yet to hand its batch on. *)
Open(t) ==
    \/ phase[t] = "queued"
    \/ \E h \in Handler : job[h] = t /\ pc[h] \notin {"idle", "respond"}

(* Without repetitions a task has one handler and a batch one open task. *)
OneOpenTask ==
    Unspent({"overrun", "duplicate", "abort", "lie"}) =>
        /\ \A h \in Handler : pc[h] # "idle" => phase[job[h]] = "dispatched"
        /\ \A g, h \in Handler : pc[g] # "idle" /\ pc[h] # "idle" /\ job[g] = job[h] => g = h
        /\ \A t, u \in Task :
               Open(t) /\ Open(u) /\ carries[t][1] = carries[u][1] => t = u

(* Nobody is told of a run before it is taken up. *)
UntakenUntold == \A r \in Run : ~TakenUp(r) => told[r] = {}

(* While an endpoint is at work on a batch, nobody else is: the rest of it  *)
(* is pending, and the run just marked has not been told of.                *)
EndpointOwns ==
    Unspent({"lie"}) =>
        \A b \in Batch : \A i \in 1..Size[b] :
            /\ request[b] \in {"created", "unscheduling", "telling"} /\ i > marked[b] =>
                   status[<<b, i>>] =
                       IF request[b] = "telling" /\ i = marked[b] + 1 THEN "failed" ELSE "pending"
            /\ request[b] = "telling" /\ i = marked[b] + 1 => told[<<b, i>>] = {}

(* A handler that has won the claim is the only one to write of its run,    *)
(* once to the row and once to the user.                                    *)
ExecutorOwns ==
    Unspent({"vanish", "lie"}) =>
        \A h \in Handler :
            /\ pc[h] \notin {"giveup", "giveup_notify"}
            /\ pc[h] \in {"start", "process", "notify", "settle"} => status[RunOf(h)] = "in_progress"
            /\ pc[h] \in {"start", "process", "notify"} => told[RunOf(h)] = {}
            /\ pc[h] \in {"settle", "move"} => told[RunOf(h)] = {verdict[h]}
            /\ pc[h] = "move" => status[RunOf(h)] = verdict[h]

UntilFaults ==
    /\ FaultsLeft
    /\ QueueLimit
    /\ AllAwaited
    /\ TasksAccepted
    /\ OneOpenTask
    /\ UntakenUntold
    /\ EndpointOwns
    /\ ExecutorOwns

(* Both together are what TLC checks and the proofs stand on. *)
DispatchConsistent == IInv /\ UntilFaults
=============================================================================
