---------------------------- MODULE PipelineRunner ----------------------------
(***************************************************************************)
(* runner.run_pipeline, one commit at a time: the seven step rows, the     *)
(* events saved by step 6 and the order in which a run notifies, settles   *)
(* and files.  All runs belong to one user, so they share the events table *)
(* and its UNIQUE(user_id, description, resolved_date).                    *)
(*                                                                         *)
(* A run starts here with its claim already won (PipelineDispatch).  What  *)
(* the steps compute is left open: a step succeeds or fails, and an answer *)
(* of the language model is any sequence of event keys.                    *)
(***************************************************************************)
EXTENDS Naturals, FiniteSets, Sequences

CONSTANTS
    Run,            (* runs of one user                                    *)
    Key,            (* (description, resolved_date) pairs                  *)
    None,           (* no key, no verdict                                  *)
    Response,       (* what step 5 may parse: sequences of keys            *)
    MaxRunning,     (* how many handlers may execute at once               *)
    MaxDeaths       (* BOUND: how many handlers may die                    *)

Outcome == {"success", "no_new_events", "failed"}

ASSUME RunnerAssumption ==
    /\ Response \subseteq Seq(Key)
    /\ None \notin Key \cup Outcome
    /\ MaxRunning \in Nat \ {0}
    /\ MaxDeaths \in Nat

VARIABLES
    status,     (* status column of each run                               *)
    step,       (* status column of each of its step rows, "none" if no row *)
    count,      (* events_extracted_count                                  *)
    events,     (* committed rows of the events table: <<run, key>>        *)
    told,       (* outcomes notified                                       *)
    folder,     (* where the file is                                       *)
    pc, at,     (* where the run is, and in which step                     *)
    verdict,    (* how it is ending                                        *)
    todo,       (* extracted events not looked at yet                      *)
    seen,       (* seen_in_batch                                           *)
    staged,     (* the event added to the session and not flushed          *)
    inserted,   (* keys flushed in the open transaction                    *)
    deaths

rowVars  == <<status, step, count, events>>
saveVars == <<todo, seen, staged, inserted>>
vars == <<rowVars, told, folder, pc, at, verdict, saveVars, deaths>>

StepStatus == {"none", "in_progress", "success", "failed", "skipped"}
Stopped    == {"ended", "conflict", "dead"}
Location   == {"start", "begin", "work", "lookup", "flush", "send", "record",
               "settle", "move"} \cup Stopped

TypeOK ==
    /\ status   \in [Run -> {"pending", "in_progress", "success", "failed"}]
    /\ step     \in [Run -> [1..7 -> StepStatus]]
    /\ count    \in [Run -> Nat]
    /\ events   \in SUBSET (Run \X Key)
    /\ told     \in [Run -> SUBSET Outcome]
    /\ folder   \in [Run -> {"watch", "processed", "failed"}]
    /\ pc       \in [Run -> Location]
    /\ at       \in [Run -> 1..7]
    /\ verdict  \in [Run -> Outcome \cup {None}]
    /\ todo     \in [Run -> Seq(Key)]
    /\ seen     \in [Run -> SUBSET Key]
    /\ staged   \in [Run -> Key \cup {None}]
    /\ inserted \in [Run -> SUBSET Key]
    /\ deaths   \in Nat

Init ==
    /\ status   = [r \in Run |-> "pending"]
    /\ step     = [r \in Run |-> [n \in 1..7 |-> "none"]]
    /\ count    = [r \in Run |-> 0]
    /\ events   = {}
    /\ told     = [r \in Run |-> {}]
    /\ folder   = [r \in Run |-> "watch"]
    /\ pc       = [r \in Run |-> "start"]
    /\ at       = [r \in Run |-> 1]
    /\ verdict  = [r \in Run |-> None]
    /\ todo     = [r \in Run |-> <<>>]
    /\ seen     = [r \in Run |-> {}]
    /\ staged   = [r \in Run |-> None]
    /\ inserted = [r \in Run |-> {}]
    /\ deaths   = 0

-----------------------------------------------------------------------------
Running(r)  == pc[r] \notin {"start"} \cup Stopped
Stored(k)   == \E r \in Run : <<r, k>> \in events
Goto(r, l)  == pc' = [pc EXCEPT ![r] = l]
Write(r, n, s) == step' = [step EXCEPT ![r][n] = s]

(* How each step before the sixth may end; a failure is fatal to the run. *)
StepOutcome ==
    <<{"success", "failed"}, {"success", "skipped", "failed"}, {"success"},
      {"success", "failed"}, {"success", "failed"}>>

(* An INSERT waits for the open transaction that has inserted its key; the  *)
(* database breaks a ring of such transactions by failing one of them.      *)
WaitsFor(r, q) ==
    r # q /\ pc[r] = "flush" /\ staged[r] \in inserted[q]

Deadlocked(r) ==
    \E S \in SUBSET Run :
        /\ r \in S
        /\ \A q \in S : (\E p \in S : WaitsFor(q, p)) /\ (\E p \in S : WaitsFor(p, q))

-----------------------------------------------------------------------------
(* Mutated forms: bugs the properties below must notice. *)

(* The count is of the events extracted, not of the new ones. *)
SaveCountsAll(r) ==
    /\ pc[r] = "lookup" /\ todo[r] = <<>>
    /\ events'   = events \cup {<<r, k>> : k \in inserted[r]}
    /\ count'    = [count EXCEPT ![r] = Cardinality(seen[r])]
    /\ Write(r, 6, "success")
    /\ verdict'  = [verdict EXCEPT ![r] =
                       IF inserted[r] = {} THEN "no_new_events" ELSE "success"]
    /\ inserted' = [inserted EXCEPT ![r] = {}]
    /\ at'       = [at EXCEPT ![r] = 7]
    /\ Goto(r, "begin")
    /\ UNCHANGED <<status, told, folder, todo, seen, staged, deaths>>

(* The notification is left out when there is nothing new to tell. *)
SaveSettlesSilently(r) ==
    /\ pc[r] = "lookup" /\ todo[r] = <<>>
    /\ events'   = events \cup {<<r, k>> : k \in inserted[r]}
    /\ count'    = [count EXCEPT ![r] = Cardinality(inserted[r])]
    /\ Write(r, 6, "success")
    /\ verdict'  = [verdict EXCEPT ![r] =
                       IF inserted[r] = {} THEN "no_new_events" ELSE "success"]
    /\ inserted' = [inserted EXCEPT ![r] = {}]
    /\ at'       = [at EXCEPT ![r] = 7]
    /\ Goto(r, IF inserted[r] = {} THEN "settle" ELSE "begin")
    /\ UNCHANGED <<status, told, folder, todo, seen, staged, deaths>>

(* There is no UNIQUE constraint: the lookup alone keeps duplicates out. *)
FlushUnchecked(r) ==
    /\ pc[r] = "flush"
    /\ inserted' = [inserted EXCEPT ![r] = @ \cup {staged[r]}]
    /\ staged'   = [staged EXCEPT ![r] = None]
    /\ Goto(r, "lookup")
    /\ UNCHANGED <<rowVars, told, folder, at, verdict, todo, seen, deaths>>

(* A failed call of the model is tried again, as often as it fails. *)
FinishStepRetries(r) ==
    /\ pc[r] = "work"
    /\ \E s \in StepOutcome[at[r]] :
        /\ Write(r, at[r], s)
        /\ at'      = [at EXCEPT ![r] = IF s # "failed" THEN @ + 1
                                        ELSE IF @ = 4 THEN 4 ELSE 7]
        /\ verdict' = [verdict EXCEPT ![r] =
                           IF s = "failed" /\ at[r] # 4 THEN "failed" ELSE @]
        /\ IF at[r] = 5 /\ s = "success"
           THEN \E answer \in Response : todo' = [todo EXCEPT ![r] = answer]
           ELSE UNCHANGED todo
    /\ Goto(r, "begin")
    /\ UNCHANGED <<status, count, events, told, folder, seen, staged, inserted, deaths>>

(* The terminal status is committed before step 7 is. *)
SendThenSettle(r) ==
    /\ pc[r] = "send"
    /\ told' = [told EXCEPT ![r] = @ \cup {verdict[r]}]
    /\ Goto(r, "settle")
    /\ UNCHANGED <<rowVars, folder, at, verdict, saveVars, deaths>>

-----------------------------------------------------------------------------
(* Steps of run_pipeline *)

Start(r) ==
    /\ pc[r] = "start"
    /\ Cardinality({q \in Run : Running(q)}) < MaxRunning
    /\ status' = [status EXCEPT ![r] = "in_progress"]
    /\ Goto(r, "begin")
    /\ UNCHANGED <<step, count, events, told, folder, at, verdict, saveVars, deaths>>

BeginStep(r) ==
    /\ pc[r] = "begin"
    /\ Write(r, at[r], "in_progress")
    /\ Goto(r, CASE at[r] = 6 -> "lookup" [] at[r] = 7 -> "send" [] OTHER -> "work")
    /\ UNCHANGED <<status, count, events, told, folder, at, verdict, saveVars, deaths>>

(* Steps 1 to 5.  A failed one is followed by step 7 alone. *)
FinishStep(r) ==
    /\ pc[r] = "work"
    /\ \E s \in StepOutcome[at[r]] :
        /\ Write(r, at[r], s)
        /\ at'      = [at EXCEPT ![r] = IF s = "failed" THEN 7 ELSE @ + 1]
        /\ verdict' = [verdict EXCEPT ![r] = IF s = "failed" THEN "failed" ELSE @]
        /\ IF at[r] = 5 /\ s = "success"
           THEN \E answer \in Response : todo' = [todo EXCEPT ![r] = answer]
           ELSE UNCHANGED todo
    /\ Goto(r, "begin")
    /\ UNCHANGED <<status, count, events, told, folder, seen, staged, inserted, deaths>>

(* _deduplicate_and_save, the SELECT for one event: other runs' commits are *)
(* visible to it, their open transactions are not.                          *)
Lookup(r) ==
    /\ pc[r] = "lookup" /\ todo[r] # <<>>
    /\ LET k == Head(todo[r]) IN
        /\ todo' = [todo EXCEPT ![r] = Tail(@)]
        /\ seen' = [seen EXCEPT ![r] = @ \cup {k}]
        /\ IF k \in seen[r] \/ Stored(k) THEN UNCHANGED <<staged, pc>>
           ELSE staged' = [staged EXCEPT ![r] = k] /\ Goto(r, "flush")
    /\ UNCHANGED <<rowVars, told, folder, at, verdict, inserted, deaths>>

(* The INSERT, before the next SELECT or at the end of the loop.  It waits  *)
(* for a transaction that has inserted the same key ...                     *)
Flush(r) ==
    /\ pc[r] = "flush"
    /\ ~Stored(staged[r]) /\ \A q \in Run : ~WaitsFor(r, q)
    /\ inserted' = [inserted EXCEPT ![r] = @ \cup {staged[r]}]
    /\ staged'   = [staged EXCEPT ![r] = None]
    /\ Goto(r, "lookup")
    /\ UNCHANGED <<rowVars, told, folder, at, verdict, todo, seen, deaths>>

(* ... and raises when that one has committed, or when the two wait for     *)
(* each other.  Nobody catches it: the transaction rolls back, the handler  *)
(* answers 5xx and no retry can claim the run again.                        *)
Conflict(r) ==
    /\ pc[r] = "flush"
    /\ \/ Stored(staged[r])
       \/ Deadlocked(r)
    /\ inserted' = [inserted EXCEPT ![r] = {}]
    /\ staged'   = [staged EXCEPT ![r] = None]
    /\ Goto(r, "conflict")
    /\ UNCHANGED <<rowVars, told, folder, at, verdict, todo, seen, deaths>>

(* The events, their number and the end of step 6 are one commit. *)
Save(r) ==
    /\ pc[r] = "lookup" /\ todo[r] = <<>>
    /\ events'   = events \cup {<<r, k>> : k \in inserted[r]}
    /\ count'    = [count EXCEPT ![r] = Cardinality(inserted[r])]
    /\ Write(r, 6, "success")
    /\ verdict'  = [verdict EXCEPT ![r] =
                       IF inserted[r] = {} THEN "no_new_events" ELSE "success"]
    /\ inserted' = [inserted EXCEPT ![r] = {}]
    /\ at'       = [at EXCEPT ![r] = 7]
    /\ Goto(r, "begin")
    /\ UNCHANGED <<status, told, folder, todo, seen, staged, deaths>>

(* Step 7 between its two commits: a channel that fails to deliver is only  *)
(* logged, so the step succeeds.                                            *)
Send(r) ==
    /\ pc[r] = "send"
    /\ told' = [told EXCEPT ![r] = @ \cup {verdict[r]}]
    /\ Goto(r, "record")
    /\ UNCHANGED <<rowVars, folder, at, verdict, saveVars, deaths>>

Record(r) ==
    /\ pc[r] = "record"
    /\ Write(r, 7, "success")
    /\ Goto(r, "settle")
    /\ UNCHANGED <<status, count, events, told, folder, at, verdict, saveVars, deaths>>

Settle(r) ==
    /\ pc[r] = "settle"
    /\ status' = [status EXCEPT ![r] =
                     IF verdict[r] = "failed" THEN "failed" ELSE "success"]
    /\ Goto(r, "move")
    /\ UNCHANGED <<step, count, events, told, folder, at, verdict, saveVars, deaths>>

Move(r) ==
    /\ pc[r] = "move"
    /\ folder' = [folder EXCEPT ![r] =
                     IF verdict[r] = "failed" THEN "failed" ELSE "processed"]
    /\ Goto(r, "ended")
    /\ UNCHANGED <<rowVars, told, at, verdict, saveVars, deaths>>

(* The process dies, or an exception run_pipeline does not expect escapes. *)
Die(r) ==
    /\ Running(r)
    /\ deaths < MaxDeaths
    /\ deaths'   = deaths + 1
    /\ inserted' = [inserted EXCEPT ![r] = {}]
    /\ staged'   = [staged EXCEPT ![r] = None]
    /\ Goto(r, "dead")
    /\ UNCHANGED <<rowVars, told, folder, at, verdict, todo, seen>>

RunStep(r) ==
    \/ Start(r) \/ BeginStep(r) \/ FinishStep(r) \/ Lookup(r) \/ Flush(r)
    \/ Conflict(r) \/ Save(r) \/ Send(r) \/ Record(r) \/ Settle(r) \/ Move(r)

Rest == (\A r \in Run : pc[r] \in Stopped) /\ UNCHANGED vars

Next == (\E r \in Run : RunStep(r) \/ Die(r)) \/ Rest

Spec == Init /\ [][Next]_vars

(* A handler that is running keeps running. *)
Fairness == \A r \in Run : WF_vars(RunStep(r))

FairSpec == Spec /\ Fairness

-----------------------------------------------------------------------------
(* Properties *)

Over(r) == status[r] \in {"success", "failed"}
SavedBy(r) == {e \in events : e[1] = r}

(* The rows of a run tell how it went: the steps that ran are a prefix, all *)
(* but the last of them done, and a run that is over has its Notify step    *)
(* recorded and says failed exactly when a step before it failed            *)
(* (run_pipeline, _fail_run: step 7 precedes the terminal status).          *)
StepsTellTheStory ==
    \A r \in Run :
        LET ran == {n \in 1..6 : step[r][n] # "none"} IN
        /\ \A n \in ran : \A m \in 1..(n - 1) : step[r][m] \in {"success", "skipped"}
        /\ Over(r) =>
            /\ step[r][7] = "success"
            /\ (status[r] = "failed") <=> (\E n \in ran : step[r][n] = "failed")
            /\ status[r] = "success" => ran = 1..6

(* Events, count and step 6 change together, so no death and no conflict    *)
(* leaves events of a run that did not finish saving, or a wrong number     *)
(* (_deduplicate_and_save flushes, _finish_step commits).                   *)
SavedAsCounted ==
    \A r \in Run :
        /\ count[r] = Cardinality(SavedBy(r))
        /\ SavedBy(r) # {} => step[r][6] = "success"

(* Whatever runs of a user save at the same time and whichever of them die, *)
(* an event that an answer names is stored once its run has finished step 6 *)
(* and never twice (_deduplicate_and_save and the UNIQUE constraint).       *)
StoredExactlyOnce ==
    /\ \A d, e \in events : d[2] = e[2] => d = e
    /\ \A r \in Run : step[r][6] = "success" => \A k \in seen[r] : Stored(k)

(* The user of a finished run was told once, and of what the status and the *)
(* events table say (_notify's callers).                                    *)
ToldTheTruth ==
    \A r \in Run : Over(r) =>
        told[r] = {IF status[r] = "failed" THEN "failed"
                   ELSE IF SavedBy(r) = {} THEN "no_new_events" ELSE "success"}

(* A run that starts comes to an end: two runs that insert each other's     *)
(* events do not wait for ever, and no failure is retried (run_pipeline).   *)
RunsStop == \A r \in Run : Running(r) ~> pc[r] \in Stopped

Finished(r, n)       == \A m \in 1..n : step[r][m] \in {"success", "skipped"}
NoRows(r, from, to)  == \A m \in from..to : step[r][m] = "none"

(* What the step rows of a run say of how it is going: the step it is in,   *)
(* the one that failed it, or all six done (_begin_step, _finish_step).     *)
RowsOfRun(r) ==
    \/ /\ verdict[r] = None /\ at[r] \in 1..6
       /\ Finished(r, at[r] - 1) /\ NoRows(r, at[r] + 1, 7)
       /\ step[r][at[r]] \in {"none", "in_progress"}
    \/ /\ verdict[r] = "failed" /\ at[r] = 7
       /\ \E n \in 1..5 : step[r][n] = "failed" /\ Finished(r, n - 1) /\ NoRows(r, n + 1, 6)
    \/ /\ verdict[r] \in {"success", "no_new_events"} /\ at[r] = 7
       /\ Finished(r, 5) /\ step[r][6] = "success"

(* What is known wherever a run stands, and once it is over for good, even  *)
(* if it died before its file was moved (run_pipeline).                     *)
RunKnows(r) ==
    /\ pc[r] \in {"start", "begin"} => step[r][at[r]] = "none"
    /\ pc[r] = "start" => at[r] = 1
    /\ pc[r] = "work" => at[r] \in 1..5
    /\ pc[r] \in {"lookup", "flush"} => at[r] = 6
    /\ pc[r] \in {"send", "record", "settle", "move"} => at[r] = 7
    /\ pc[r] \in {"settle", "move"} => step[r][7] = "success"
    /\ pc[r] \in {"start", "begin", "work", "lookup", "flush", "send"} => told[r] = {}
    /\ pc[r] \in {"record", "settle", "move"} => told[r] = {verdict[r]}
    /\ Over(r) =>
        /\ pc[r] \in {"move", "ended", "dead"} /\ verdict[r] # None
        /\ step[r][7] = "success" /\ told[r] = {verdict[r]}
        /\ status[r] = "failed" <=> verdict[r] = "failed"

(* What a run has stored and is about to: its open transaction holds keys   *)
(* nobody has stored, and with them everything it has looked at             *)
(* (_deduplicate_and_save).                                                 *)
SaveKnows(r) ==
    /\ IsFiniteSet(inserted[r])
    /\ inserted[r] # {} => pc[r] \in {"lookup", "flush"}
    /\ staged[r] # None <=> pc[r] = "flush"
    /\ \A k \in inserted[r] : ~Stored(k)
    /\ SavedBy(r) # {} <=> verdict[r] = "success"
    /\ count[r] = Cardinality(SavedBy(r))
    /\ pc[r] \in {"start", "begin", "work"} /\ verdict[r] = None => seen[r] = {}
    /\ pc[r] \in {"lookup", "flush"} =>
           \A k \in seen[r] : Stored(k) \/ k \in inserted[r] \cup {staged[r]}
    /\ verdict[r] \in {"success", "no_new_events"} => \A k \in seen[r] : Stored(k)

(* No two open transactions have inserted one key (the UNIQUE constraint).  *)
KeysApart == \A q, r \in Run : q # r => inserted[q] \cap inserted[r] = {}

RunFacts == \A r \in Run : RowsOfRun(r) /\ RunKnows(r) /\ SaveKnows(r)

(* What holds of the rows after every commit, whoever dies before the next  *)
(* (run_pipeline).                                                          *)
RunsConsistent == TypeOK /\ StepsTellTheStory /\ RunFacts /\ KeysApart
=============================================================================
