------------------------- MODULE PipelineRunnerProofs -------------------------
(***************************************************************************)
(* The rows, the events, the count and the notification of a run never     *)
(* tell different stories: for any number of runs of a user, any answers   *)
(* of the language model and any number of deaths.  And the progress page  *)
(* shows a past of its run, in order, whatever poll, paint or reload falls *)
(* between two commits of the runner, and wherever its connections break.  *)
(***************************************************************************)
EXTENDS RunProgress, FiniteSetTheorems, TLAPS

EventsOnce == \A d, e \in events : d[2] = e[2] => d = e

IInv == TypeOK /\ RunFacts /\ KeysApart /\ EventsOnce

Facts(r) == RowsOfRun(r) /\ RunKnows(r) /\ SaveKnows(r)

(* The rows of a run and what only it writes are as before.                 *)
Untouched(q) ==
    /\ status'[q] = status[q] /\ step'[q] = step[q] /\ count'[q] = count[q]
    /\ told'[q] = told[q] /\ pc'[q] = pc[q] /\ at'[q] = at[q] /\ verdict'[q] = verdict[q]
    /\ seen'[q] = seen[q] /\ staged'[q] = staged[q] /\ inserted'[q] = inserted[q]

(* A run of which nothing changes keeps its facts while the others store    *)
(* keys that it has not inserted.                                           *)
LEMMA OthersKeep ==
    ASSUME NEW q \in Run, Facts(q), Untouched(q),
           \A k : Stored(k) => Stored(k)', \A k \in inserted[q] : ~Stored(k)',
           SavedBy(q)' = SavedBy(q)
    PROVE  Facts(q)'
<1>1. RowsOfRun(q)'
  BY DEF Facts, Untouched, RowsOfRun, Finished, NoRows
<1>2. RunKnows(q)'
  BY DEF Facts, Untouched, RunKnows, Over
<1>3. SaveKnows(q)'
  BY DEF Facts, Untouched, SaveKnows
<1> QED
  BY <1>1, <1>2, <1>3 DEF Facts

LEMMA InitRuns == Init => IInv
<1> SUFFICES ASSUME Init PROVE IInv
  OBVIOUS
<1>1. TypeOK
  BY RunnerAssumption DEF Init, TypeOK, Location, Outcome, StepStatus
<1>2. ASSUME NEW r \in Run PROVE Facts(r)
  <2>1. SavedBy(r) = {} /\ Cardinality(SavedBy(r)) = 0
    BY FS_EmptySet DEF Init, SavedBy
  <2>2. RowsOfRun(r)
    BY DEF Init, RowsOfRun, Finished, NoRows
  <2>3. RunKnows(r)
    BY DEF Init, RunKnows, Over
  <2>4. SaveKnows(r)
    BY <2>1, FS_EmptySet, RunnerAssumption DEF Init, SaveKnows, Outcome
  <2> QED
    BY <2>2, <2>3, <2>4 DEF Facts
<1> QED
  BY <1>1, <1>2 DEF IInv, RunFacts, Facts, KeysApart, EventsOnce, Init

(* What a step of r that stores nothing must show.                          *)
LEMMA QuietStep ==
    ASSUME IInv, NEW r \in Run, events' = events, \A q \in Run \ {r} : Untouched(q),
           TypeOK', KeysApart', RowsOfRun(r)', RunKnows(r)', SaveKnows(r)'
    PROVE  IInv'
<1>1. ASSUME NEW q \in Run \ {r} PROVE Facts(q)'
  <2>1. Facts(q) /\ Untouched(q)
    BY DEF IInv, RunFacts, Facts
  <2>2. \A k : Stored(k)' <=> Stored(k)
    BY DEF Stored
  <2>3. SavedBy(q)' = SavedBy(q)
    BY DEF SavedBy
  <2>4. \A k \in inserted[q] : ~Stored(k)
    BY <2>1 DEF Facts, SaveKnows
  <2> QED
    BY <2>1, <2>2, <2>3, <2>4, OthersKeep
<1>2. Facts(r)'
  BY DEF Facts
<1>3. RunFacts'
  BY <1>1, <1>2 DEF RunFacts, Facts
<1>4. EventsOnce'
  BY DEF IInv, EventsOnce
<1> QED
  BY <1>3, <1>4 DEF IInv

(* Transactions that insert nothing more stay apart.                        *)
LEMMA StillApart ==
    ASSUME KeysApart, \A q \in Run : inserted'[q] \subseteq inserted[q]
    PROVE  KeysApart'
BY DEF KeysApart

(* A run is started.                                                         *)
LEMMA StartStep ==
    ASSUME IInv, NEW r \in Run, Start(r)
    PROVE  IInv'
<1>1. TypeOK /\ KeysApart /\ RowsOfRun(r) /\ RunKnows(r) /\ SaveKnows(r)
  BY DEF IInv, RunFacts
<1>2. TypeOK'
  BY <1>1 DEF TypeOK, Location, StepStatus, Outcome, Start, Goto, rowVars, saveVars
<1>3. \A q \in Run \ {r} : Untouched(q)
  BY <1>1 DEF TypeOK, Untouched, Start, Goto, rowVars, saveVars
<1>4. events' = events /\ SavedBy(r)' = SavedBy(r) /\ (\A k : Stored(k)' <=> Stored(k))
  BY DEF Start, rowVars, SavedBy, Stored
<1>5. RowsOfRun(r)'
  BY <1>1, RunnerAssumption DEF TypeOK, RowsOfRun, RunKnows, Finished, NoRows, Outcome, Start, Goto, rowVars, saveVars
<1>6. RunKnows(r)'
  BY <1>1, RunnerAssumption DEF TypeOK, RowsOfRun, RunKnows, Over, NoRows, Outcome, Start, Goto, rowVars, saveVars
<1>7. SaveKnows(r)'
  BY <1>1, <1>4 DEF TypeOK, RowsOfRun, RunKnows, SaveKnows, Start, Goto, rowVars, saveVars
<1>8. KeysApart'
  BY <1>1, StillApart DEF Start, saveVars
<1> QED
  BY <1>2, <1>3, <1>4, <1>5, <1>6, <1>7, <1>8, QuietStep

(* The row of a step is written as it begins.                                *)
LEMMA BeginStepStep ==
    ASSUME IInv, NEW r \in Run, BeginStep(r)
    PROVE  IInv'
<1>1. TypeOK /\ KeysApart /\ RowsOfRun(r) /\ RunKnows(r) /\ SaveKnows(r)
  BY DEF IInv, RunFacts
<1>2. TypeOK'
  BY <1>1 DEF TypeOK, Location, StepStatus, Outcome, BeginStep, Goto, rowVars, saveVars, Write
<1>3. \A q \in Run \ {r} : Untouched(q)
  BY <1>1 DEF TypeOK, Untouched, BeginStep, Goto, rowVars, saveVars, Write
<1>4. events' = events /\ SavedBy(r)' = SavedBy(r) /\ (\A k : Stored(k)' <=> Stored(k))
  BY DEF BeginStep, rowVars, SavedBy, Stored
<1>5. RowsOfRun(r)'
  BY <1>1, RunnerAssumption DEF TypeOK, RowsOfRun, RunKnows, Finished, NoRows, Outcome, BeginStep, Goto, rowVars, saveVars, Write
<1>6. RunKnows(r)'
  BY <1>1, RunnerAssumption DEF TypeOK, RowsOfRun, RunKnows, Over, NoRows, Outcome, BeginStep, Goto, rowVars, saveVars, Write
<1>7. SaveKnows(r)'
  BY <1>1, <1>4 DEF TypeOK, RowsOfRun, RunKnows, SaveKnows, BeginStep, Goto, rowVars, saveVars
<1>8. KeysApart'
  BY <1>1, StillApart DEF BeginStep, saveVars
<1> QED
  BY <1>2, <1>3, <1>4, <1>5, <1>6, <1>7, <1>8, QuietStep

(* The user is told.                                                         *)
LEMMA SendStep ==
    ASSUME IInv, NEW r \in Run, Send(r)
    PROVE  IInv'
<1>1. TypeOK /\ KeysApart /\ RowsOfRun(r) /\ RunKnows(r) /\ SaveKnows(r)
  BY DEF IInv, RunFacts
<1>2. TypeOK'
  <2>1. verdict[r] \in Outcome
    BY <1>1 DEF RowsOfRun, RunKnows, Send, Outcome
  <2>2. told' \in [Run -> SUBSET Outcome]
    BY <1>1, <2>1 DEF TypeOK, Send
  <2>3. pc' \in [Run -> Location]
    BY <1>1 DEF TypeOK, Send, Goto, Location
  <2> QED
    BY <1>1, <2>2, <2>3 DEF TypeOK, Send, rowVars, saveVars
<1>3. \A q \in Run \ {r} : Untouched(q)
  BY <1>1 DEF TypeOK, Untouched, Send, Goto, rowVars, saveVars
<1>4. events' = events /\ SavedBy(r)' = SavedBy(r) /\ (\A k : Stored(k)' <=> Stored(k))
  BY DEF Send, rowVars, SavedBy, Stored
<1>5. RowsOfRun(r)'
  BY <1>1, RunnerAssumption DEF TypeOK, RowsOfRun, RunKnows, Finished, NoRows, Outcome, Send, Goto, rowVars, saveVars
<1>6. RunKnows(r)'
  BY <1>1, RunnerAssumption DEF TypeOK, RowsOfRun, RunKnows, Over, NoRows, Outcome, Send, Goto, rowVars, saveVars
<1>7. SaveKnows(r)'
  BY <1>1, <1>4 DEF TypeOK, RowsOfRun, RunKnows, SaveKnows, Send, Goto, rowVars, saveVars
<1>8. KeysApart'
  BY <1>1, StillApart DEF Send, saveVars
<1> QED
  BY <1>2, <1>3, <1>4, <1>5, <1>6, <1>7, <1>8, QuietStep

(* The Notify row is written.                                                *)
LEMMA RecordStep ==
    ASSUME IInv, NEW r \in Run, Record(r)
    PROVE  IInv'
<1>1. TypeOK /\ KeysApart /\ RowsOfRun(r) /\ RunKnows(r) /\ SaveKnows(r)
  BY DEF IInv, RunFacts
<1>2. TypeOK'
  BY <1>1 DEF TypeOK, Location, StepStatus, Outcome, Record, Goto, rowVars, saveVars, Write
<1>3. \A q \in Run \ {r} : Untouched(q)
  BY <1>1 DEF TypeOK, Untouched, Record, Goto, rowVars, saveVars, Write
<1>4. events' = events /\ SavedBy(r)' = SavedBy(r) /\ (\A k : Stored(k)' <=> Stored(k))
  BY DEF Record, rowVars, SavedBy, Stored
<1>5. RowsOfRun(r)'
  BY <1>1, RunnerAssumption DEF TypeOK, RowsOfRun, RunKnows, Finished, NoRows, Outcome, Record, Goto, rowVars, saveVars, Write
<1>6. RunKnows(r)'
  BY <1>1, RunnerAssumption DEF TypeOK, RowsOfRun, RunKnows, Over, NoRows, Outcome, Record, Goto, rowVars, saveVars, Write
<1>7. SaveKnows(r)'
  BY <1>1, <1>4 DEF TypeOK, RowsOfRun, RunKnows, SaveKnows, Record, Goto, rowVars, saveVars
<1>8. KeysApart'
  BY <1>1, StillApart DEF Record, saveVars
<1> QED
  BY <1>2, <1>3, <1>4, <1>5, <1>6, <1>7, <1>8, QuietStep

(* The terminal status is written.                                           *)
LEMMA SettleStep ==
    ASSUME IInv, NEW r \in Run, Settle(r)
    PROVE  IInv'
<1>1. TypeOK /\ KeysApart /\ RowsOfRun(r) /\ RunKnows(r) /\ SaveKnows(r)
  BY DEF IInv, RunFacts
<1>2. TypeOK'
  BY <1>1 DEF TypeOK, Location, StepStatus, Outcome, Settle, Goto, rowVars, saveVars
<1>3. \A q \in Run \ {r} : Untouched(q)
  BY <1>1 DEF TypeOK, Untouched, Settle, Goto, rowVars, saveVars
<1>4. events' = events /\ SavedBy(r)' = SavedBy(r) /\ (\A k : Stored(k)' <=> Stored(k))
  BY DEF Settle, rowVars, SavedBy, Stored
<1>5. RowsOfRun(r)'
  BY <1>1, RunnerAssumption DEF TypeOK, RowsOfRun, RunKnows, Finished, NoRows, Outcome, Settle, Goto, rowVars, saveVars
<1>6. RunKnows(r)'
  BY <1>1, RunnerAssumption DEF TypeOK, RowsOfRun, RunKnows, Over, NoRows, Outcome, Settle, Goto, rowVars, saveVars
<1>7. SaveKnows(r)'
  BY <1>1, <1>4 DEF TypeOK, RowsOfRun, RunKnows, SaveKnows, Settle, Goto, rowVars, saveVars
<1>8. KeysApart'
  BY <1>1, StillApart DEF Settle, saveVars
<1> QED
  BY <1>2, <1>3, <1>4, <1>5, <1>6, <1>7, <1>8, QuietStep

(* The file is moved.                                                        *)
LEMMA MoveStep ==
    ASSUME IInv, NEW r \in Run, Move(r)
    PROVE  IInv'
<1>1. TypeOK /\ KeysApart /\ RowsOfRun(r) /\ RunKnows(r) /\ SaveKnows(r)
  BY DEF IInv, RunFacts
<1>2. TypeOK'
  BY <1>1 DEF TypeOK, Location, Stopped, Move, Goto, rowVars, saveVars
<1>3. \A q \in Run \ {r} : Untouched(q)
  BY <1>1 DEF TypeOK, Untouched, Move, Goto, rowVars, saveVars
<1>4. events' = events /\ SavedBy(r)' = SavedBy(r) /\ (\A k : Stored(k)' <=> Stored(k))
  BY DEF Move, rowVars, SavedBy, Stored
<1>5. RowsOfRun(r)'
  BY <1>1, RunnerAssumption DEF TypeOK, RowsOfRun, RunKnows, Finished, NoRows, Outcome, Move, Goto, rowVars, saveVars
<1>6. RunKnows(r)'
  BY <1>1, RunnerAssumption DEF TypeOK, RowsOfRun, RunKnows, Over, NoRows, Outcome, Move, Goto, rowVars, saveVars
<1>7. SaveKnows(r)'
  BY <1>1, <1>4 DEF TypeOK, RowsOfRun, RunKnows, SaveKnows, Move, Goto, rowVars, saveVars
<1>8. KeysApart'
  BY <1>1, StillApart DEF Move, saveVars
<1> QED
  BY <1>2, <1>3, <1>4, <1>5, <1>6, <1>7, <1>8, QuietStep

(* Dying and failing to insert a key end the open transaction.              *)
LEMMA StopStep ==
    ASSUME IInv, NEW r \in Run, Conflict(r) \/ Die(r)
    PROVE  IInv'
<1>1. TypeOK /\ KeysApart /\ RowsOfRun(r) /\ RunKnows(r) /\ SaveKnows(r)
  BY DEF IInv, RunFacts
<1>2. PICK l \in {"conflict", "dead"} :
        /\ pc' = [pc EXCEPT ![r] = l] /\ (l = "conflict" => pc[r] = "flush")
        /\ inserted' = [inserted EXCEPT ![r] = {}] /\ staged' = [staged EXCEPT ![r] = None]
        /\ UNCHANGED <<status, step, count, events, told, folder, at, verdict, todo, seen>>
        /\ deaths' \in Nat /\ pc[r] # "start"
  BY <1>1 DEF Conflict, Die, Goto, rowVars, Running, TypeOK
<1>3. TypeOK'
  BY <1>1, <1>2 DEF TypeOK, Location, Stopped
<1>4. \A q \in Run \ {r} : Untouched(q)
  BY <1>1, <1>2 DEF TypeOK, Untouched
<1>5. SavedBy(r)' = SavedBy(r) /\ \A k : Stored(k)' <=> Stored(k)
  BY <1>2 DEF SavedBy, Stored
<1>6. RowsOfRun(r)'
  BY <1>1, <1>2 DEF RowsOfRun, Finished, NoRows
<1>7. RunKnows(r)'
  BY <1>1, <1>2 DEF TypeOK, RunKnows, Over
<1>8. SaveKnows(r)'
  BY <1>1, <1>2, <1>5, FS_EmptySet DEF TypeOK, SaveKnows
<1>9. KeysApart'
  BY <1>1, <1>2, StillApart DEF TypeOK
<1> QED
  BY <1>2, <1>3, <1>4, <1>6, <1>7, <1>8, <1>9, QuietStep

(* Steps 1 to 5 end, each as it may.                                        *)
LEMMA FinishStepStep ==
    ASSUME IInv, NEW r \in Run, FinishStep(r)
    PROVE  IInv'
<1>1. TypeOK /\ KeysApart /\ RowsOfRun(r) /\ RunKnows(r) /\ SaveKnows(r)
  BY DEF IInv, RunFacts
<1>2. at[r] \in 1..5 /\ verdict[r] = None
  BY <1>1 DEF FinishStep, RunKnows, RowsOfRun
<1>3. PICK s \in StepOutcome[at[r]] :
        /\ step' = [step EXCEPT ![r][at[r]] = s]
        /\ at' = [at EXCEPT ![r] = IF s = "failed" THEN 7 ELSE @ + 1]
        /\ verdict' = [verdict EXCEPT ![r] = IF s = "failed" THEN "failed" ELSE @]
        /\ IF at[r] = 5 /\ s = "success"
           THEN \E answer \in Response : todo' = [todo EXCEPT ![r] = answer]
           ELSE UNCHANGED todo
  BY DEF FinishStep, Write
<1>4. s \in {"success", "skipped", "failed"}
  BY <1>2, <1>3 DEF StepOutcome
<1>5. pc[r] = "work" /\ pc' = [pc EXCEPT ![r] = "begin"]
      /\ UNCHANGED <<status, count, events, told, folder, seen, staged, inserted, deaths>>
  BY DEF FinishStep, Goto
<1>6. TypeOK'
  <2>1. todo' \in [Run -> Seq(Key)]
    BY <1>1, <1>3, RunnerAssumption DEF TypeOK
  <2>2. step' \in [Run -> [1..7 -> StepStatus]]
    BY <1>1, <1>2, <1>3, <1>4 DEF TypeOK, StepStatus
  <2>3. at' \in [Run -> 1..7] /\ verdict' \in [Run -> Outcome \cup {None}]
    BY <1>1, <1>2, <1>3 DEF TypeOK, Outcome
  <2>4. pc' \in [Run -> Location]
    BY <1>1, <1>5 DEF TypeOK, Location
  <2> QED
    BY <1>1, <1>5, <2>1, <2>2, <2>3, <2>4 DEF TypeOK
<1>7. \A q \in Run \ {r} : Untouched(q)
  BY <1>1, <1>3, <1>5 DEF TypeOK, Untouched
<1>8. SavedBy(r)' = SavedBy(r) /\ \A k : Stored(k)' <=> Stored(k)
  BY <1>5 DEF SavedBy, Stored
<1>9. \A n \in 1..7 : step'[r][n] = IF n = at[r] THEN s ELSE step[r][n]
  BY <1>1, <1>2, <1>3 DEF TypeOK
<1>10. /\ at'[r] = (IF s = "failed" THEN 7 ELSE at[r] + 1)
       /\ verdict'[r] = (IF s = "failed" THEN "failed" ELSE None)
       /\ pc'[r] = "begin"
  BY <1>1, <1>2, <1>3, <1>5 DEF TypeOK
<1>11. Finished(r, at[r] - 1) /\ NoRows(r, at[r] + 1, 7)
  BY <1>1, <1>2 DEF RowsOfRun
<1>12. RowsOfRun(r)'
  <2>1. CASE s = "failed"
    <3>1. /\ step'[r][at[r]] = "failed"
          /\ \A m \in 1..(at[r] - 1) : step'[r][m] \in {"success", "skipped"}
          /\ \A m \in (at[r] + 1)..6 : step'[r][m] = "none"
      BY <1>2, <1>9, <1>11, <2>1 DEF Finished, NoRows
    <3>2. \E n \in 1..5 : step'[r][n] = "failed" /\ Finished(r, n - 1)' /\ NoRows(r, n + 1, 6)'
      BY <1>2, <3>1 DEF Finished, NoRows
    <3> QED
      BY <1>10, <2>1, <3>2 DEF RowsOfRun
  <2>2. CASE s # "failed"
    <3>1. at'[r] = at[r] + 1 /\ at'[r] \in 1..6 /\ verdict'[r] = None
      BY <1>2, <1>10, <2>2
    <3>2. \A m \in 1..at[r] : step'[r][m] \in {"success", "skipped"}
      BY <1>2, <1>4, <1>9, <1>11, <2>2 DEF Finished
    <3>3. \A m \in (at[r] + 1)..7 : step'[r][m] = "none"
      BY <1>2, <1>9, <1>11 DEF NoRows
    <3>4. Finished(r, at[r] - 1)'
      BY <1>2, <3>1, <3>2 DEF Finished
    <3>5. NoRows(r, at[r] + 1, 7)' /\ step'[r][at'[r]] = "none"
      BY <1>2, <3>1, <3>3 DEF NoRows
    <3> QED
      BY <3>1, <3>4, <3>5 DEF RowsOfRun
  <2> QED
    BY <2>1, <2>2
<1>13. RunKnows(r)'
  <2>1. step'[r][at'[r]] = "none"
    BY <1>2, <1>9, <1>10, <1>11 DEF NoRows
  <2> QED
    BY <1>1, <1>5, <1>10, <2>1 DEF RunKnows, Over
<1>14. SaveKnows(r)'
  BY <1>1, <1>2, <1>5, <1>8, <1>10, RunnerAssumption DEF SaveKnows, Outcome
<1>15. KeysApart'
  BY <1>1, <1>5, StillApart
<1> QED
  BY <1>5, <1>6, <1>7, <1>12, <1>13, <1>14, <1>15, QuietStep

(* An event is looked up, and put aside for the INSERT if it is new.        *)
LEMMA LookupStep ==
    ASSUME IInv, NEW r \in Run, Lookup(r)
    PROVE  IInv'
<1>1. TypeOK /\ KeysApart /\ RowsOfRun(r) /\ RunKnows(r) /\ SaveKnows(r)
  BY DEF IInv, RunFacts
<1>2. PICK k \in Key : k = Head(todo[r]) /\ Tail(todo[r]) \in Seq(Key)
  BY <1>1 DEF TypeOK, Lookup
<1>3. /\ pc[r] = "lookup" /\ todo' \in [Run -> Seq(Key)]
      /\ seen' = [seen EXCEPT ![r] = @ \cup {k}]
      /\ UNCHANGED <<status, step, count, events, told, folder, at, verdict, inserted, deaths>>
  BY <1>1, <1>2 DEF Lookup, rowVars, TypeOK
<1>4. \/ (k \in seen[r] \/ Stored(k)) /\ UNCHANGED <<staged, pc>>
      \/ staged' = [staged EXCEPT ![r] = k] /\ pc' = [pc EXCEPT ![r] = "flush"]
  <2>1. CASE k \in seen[r] \/ Stored(k)
    <3>1. UNCHANGED <<staged, pc>>
      BY <1>2, <2>1 DEF Lookup
    <3> QED
      BY <2>1, <3>1
  <2>2. CASE ~(k \in seen[r] \/ Stored(k))
    <3>1. staged' = [staged EXCEPT ![r] = k] /\ Goto(r, "flush")
      BY <1>2, <2>2 DEF Lookup
    <3> QED
      BY <3>1 DEF Goto
  <2> QED
    BY <2>1, <2>2
<1>5. TypeOK'
  <2>1. staged' \in [Run -> Key \cup {None}] /\ pc' \in [Run -> Location]
    <3>1. staged \in [Run -> Key \cup {None}] /\ pc \in [Run -> Location]
      BY <1>1 DEF TypeOK
    <3>2. "flush" \in Location
      BY DEF Location
    <3> QED
      BY <1>4, <3>1, <3>2
  <2>2. seen' \in [Run -> SUBSET Key]
    BY <1>1, <1>3 DEF TypeOK
  <2> QED
    BY <1>1, <1>3, <2>1, <2>2 DEF TypeOK
<1>6. \A q \in Run \ {r} : Untouched(q)
  BY <1>1, <1>3, <1>4 DEF TypeOK, Untouched
<1>7. SavedBy(r)' = SavedBy(r) /\ \A h : Stored(h)' <=> Stored(h)
  BY <1>3 DEF SavedBy, Stored
<1>8. RowsOfRun(r)'
  BY <1>1, <1>3 DEF RowsOfRun, Finished, NoRows
<1>9. RunKnows(r)'
  BY <1>1, <1>3, <1>4 DEF TypeOK, RunKnows, Over
<1>10. SaveKnows(r)'
  <2>1. verdict[r] = None /\ staged[r] = None
    BY <1>1, <1>3 DEF RunKnows, RowsOfRun, SaveKnows
  <2>2. seen'[r] = seen[r] \cup {k} /\ None # k
    BY <1>1, <1>3, RunnerAssumption DEF TypeOK
  <2>3. CASE (k \in seen[r] \/ Stored(k)) /\ UNCHANGED <<staged, pc>>
    BY <1>1, <1>3, <1>7, <2>1, <2>2, <2>3, RunnerAssumption DEF SaveKnows, Outcome
  <2>4. CASE staged' = [staged EXCEPT ![r] = k] /\ pc' = [pc EXCEPT ![r] = "flush"]
    <3>1. staged'[r] = k /\ pc'[r] = "flush"
      BY <1>1, <2>4 DEF TypeOK
    <3>2. \A h \in seen[r] : Stored(h) \/ h \in inserted[r]
      BY <1>1, <1>3, <2>1, RunnerAssumption DEF SaveKnows, TypeOK
    <3> QED
      BY <1>1, <1>3, <1>7, <2>1, <2>2, <3>1, <3>2, RunnerAssumption DEF SaveKnows, Outcome
  <2> QED
    BY <1>4, <2>3, <2>4
<1>11. KeysApart'
  BY <1>1, <1>3, StillApart
<1> QED
  BY <1>3, <1>5, <1>6, <1>8, <1>9, <1>10, <1>11, QuietStep

(* An INSERT goes through: nobody has stored its key, and no open           *)
(* transaction has inserted it.                                             *)
LEMMA FlushStep ==
    ASSUME IInv, NEW r \in Run, Flush(r)
    PROVE  IInv'
<1>1. TypeOK /\ KeysApart /\ RowsOfRun(r) /\ RunKnows(r) /\ SaveKnows(r)
  BY DEF IInv, RunFacts
<1>2. /\ pc[r] = "flush" /\ pc' = [pc EXCEPT ![r] = "lookup"] /\ ~Stored(staged[r])
      /\ inserted' = [inserted EXCEPT ![r] = @ \cup {staged[r]}]
      /\ staged' = [staged EXCEPT ![r] = None]
      /\ UNCHANGED <<status, step, count, events, told, folder, at, verdict, todo, seen, deaths>>
  BY DEF Flush, Goto, rowVars
<1>3. staged[r] \in Key /\ \A q \in Run \ {r} : staged[r] \notin inserted[q]
  BY <1>1, <1>2 DEF TypeOK, SaveKnows, Flush, WaitsFor
<1>4. TypeOK'
  BY <1>1, <1>2, <1>3 DEF TypeOK, Location
<1>5. \A q \in Run \ {r} : Untouched(q)
  BY <1>1, <1>2 DEF TypeOK, Untouched
<1>6. SavedBy(r)' = SavedBy(r) /\ \A h : Stored(h)' <=> Stored(h)
  BY <1>2 DEF SavedBy, Stored
<1>7. RowsOfRun(r)'
  BY <1>1, <1>2 DEF RowsOfRun, Finished, NoRows
<1>8. RunKnows(r)'
  BY <1>1, <1>2 DEF TypeOK, RunKnows, Over
<1>9. SaveKnows(r)'
  <2>1. inserted'[r] = inserted[r] \cup {staged[r]} /\ staged'[r] = None /\ pc'[r] = "lookup"
    BY <1>1, <1>2 DEF TypeOK
  <2>2. IsFiniteSet(inserted'[r])
    <3>1. IsFiniteSet(inserted[r])
      BY <1>1 DEF SaveKnows
    <3>2. IsFiniteSet(inserted[r] \cup {staged[r]})
      BY <3>1, FS_AddElement
    <3> QED
      BY <2>1, <3>2
  <2>3. verdict[r] = None
    BY <1>1, <1>2 DEF RunKnows, RowsOfRun
  <2> QED
    BY <1>1, <1>2, <1>6, <2>1, <2>2, <2>3, RunnerAssumption DEF SaveKnows, Outcome
<1>10. KeysApart'
  BY <1>1, <1>2, <1>3 DEF TypeOK, KeysApart
<1> QED
  BY <1>2, <1>4, <1>5, <1>7, <1>8, <1>9, <1>10, QuietStep

(* As many events are stored as keys were inserted.                         *)
LEMMA OneEventPerKey ==
    ASSUME NEW r, NEW S, IsFiniteSet(S)
    PROVE  Cardinality({<<r, k>> : k \in S}) = Cardinality(S)
<1> DEFINE T == {<<r, k>> : k \in S}
<1> DEFINE f == [k \in S |-> <<r, k>>]
<1>1. f \in [S -> T] /\ (\A j, k \in S : f[j] = f[k] => j = k) /\ (\A t \in T : \E k \in S : f[k] = t)
  OBVIOUS
<1>2. ExistsBijection(S, T)
  <2>1. f \in Bijection(S, T)
    BY <1>1 DEF Bijection, Injection, Surjection, IsInjective
  <2> QED
    BY <2>1 DEF ExistsBijection
<1> QED
  BY <1>2, FS_Bijection

(* Step 6 commits: what this run has inserted is stored, which no other has *)
(* stored or inserted, and with it everything it has looked at.             *)
LEMMA SaveStep ==
    ASSUME IInv, NEW r \in Run, Save(r)
    PROVE  IInv'
<1>1. TypeOK /\ KeysApart /\ EventsOnce /\ RowsOfRun(r) /\ RunKnows(r) /\ SaveKnows(r)
  BY DEF IInv, RunFacts
<1> DEFINE new == {<<r, k>> : k \in inserted[r]}
<1> DEFINE end == IF inserted[r] = {} THEN "no_new_events" ELSE "success"
<1>2. /\ pc[r] = "lookup" /\ pc' = [pc EXCEPT ![r] = "begin"]
      /\ events' = events \cup new /\ count' = [count EXCEPT ![r] = Cardinality(inserted[r])]
      /\ step' = [step EXCEPT ![r][6] = "success"] /\ verdict' = [verdict EXCEPT ![r] = end]
      /\ inserted' = [inserted EXCEPT ![r] = {}] /\ at' = [at EXCEPT ![r] = 7]
      /\ UNCHANGED <<status, told, folder, todo, seen, staged, deaths>>
  BY DEF Save, Goto, Write
<1>3. /\ at[r] = 6 /\ verdict[r] = None /\ staged[r] = None /\ IsFiniteSet(inserted[r])
      /\ SavedBy(r) = {} /\ inserted[r] \subseteq Key /\ Finished(r, 5) /\ step[r][7] = "none"
  BY <1>1, <1>2, RunnerAssumption DEF RunKnows, RowsOfRun, SaveKnows, TypeOK, Outcome, NoRows
<1>4. TypeOK'
  <2>1. Cardinality(inserted[r]) \in Nat
    BY <1>3, FS_CardinalityType
  <2>2. step' \in [Run -> [1..7 -> StepStatus]]
    BY <1>1, <1>2 DEF TypeOK, StepStatus
  <2>3. verdict' \in [Run -> Outcome \cup {None}] /\ pc' \in [Run -> Location]
    BY <1>1, <1>2 DEF TypeOK, Outcome, Location
  <2>4. events' \in SUBSET (Run \X Key)
    BY <1>1, <1>2, <1>3 DEF TypeOK
  <2> QED
    BY SMTT(30), <1>1, <1>2, <2>1, <2>2, <2>3, <2>4 DEF TypeOK
<1>5. \A k : Stored(k)' <=> Stored(k) \/ k \in inserted[r]
  BY <1>1, <1>2 DEF Stored
<1>6. ASSUME NEW q \in Run \ {r} PROVE Facts(q)'
  <2>1. Facts(q)
    BY DEF IInv, RunFacts, Facts
  <2>2. Untouched(q)
    BY <1>1, <1>2 DEF TypeOK, Untouched
  <2>3. \A k \in inserted[q] : ~Stored(k)'
    BY <1>1, <1>5, <2>1 DEF Facts, SaveKnows, KeysApart
  <2>4. SavedBy(q)' = SavedBy(q)
    BY <1>2 DEF SavedBy
  <2> QED
    BY <1>5, <2>1, <2>2, <2>3, <2>4, OthersKeep
<1>7. /\ \A n \in 1..7 : step'[r][n] = IF n = 6 THEN "success" ELSE step[r][n]
      /\ at'[r] = 7 /\ pc'[r] = "begin" /\ inserted'[r] = {} /\ staged'[r] = None
      /\ verdict'[r] = end /\ seen'[r] = seen[r] /\ count'[r] = Cardinality(inserted[r])
      /\ status'[r] = status[r] /\ told'[r] = told[r]
  BY <1>1, <1>2, <1>3 DEF TypeOK
<1>8. Facts(r)'
  <2>1. RowsOfRun(r)'
    BY <1>3, <1>7 DEF RowsOfRun, Finished
  <2>2. RunKnows(r)'
    BY <1>1, <1>2, <1>3, <1>7 DEF RunKnows, Over
  <2>3. SavedBy(r)' = new
    BY <1>2, <1>3 DEF SavedBy
  <2>4. Cardinality(new) = Cardinality(inserted[r]) /\ (new = {} <=> inserted[r] = {})
    <3>1. Cardinality(new) = Cardinality(inserted[r])
      BY <1>3, OneEventPerKey
    <3>2. new = {} <=> inserted[r] = {}
      OBVIOUS
    <3> QED
      BY <3>1, <3>2
  <2>5. \A k \in seen[r] : Stored(k)'
    <3>1. \A k \in seen[r] : Stored(k) \/ k \in inserted[r]
      BY <1>1, <1>2, <1>3, RunnerAssumption DEF SaveKnows, TypeOK
    <3> QED
      BY <1>5, <3>1
  <2>6. SaveKnows(r)'
    BY <1>7, <2>3, <2>4, <2>5, FS_EmptySet, RunnerAssumption DEF SaveKnows, Outcome
  <2> QED
    BY <2>1, <2>2, <2>6 DEF Facts
<1>9. RunFacts'
  BY <1>6, <1>8 DEF RunFacts, Facts
<1>10. KeysApart'
  <2>1. \A q \in Run : inserted'[q] \subseteq inserted[q]
    BY <1>1, <1>2 DEF TypeOK
  <2> QED
    BY <1>1, <2>1, StillApart
<1>11. EventsOnce'
  <2>1. ASSUME NEW d \in events PROVE d[2] \notin inserted[r]
    <3>1. PICK q \in Run, k \in Key : d = <<q, k>>
      BY <1>1 DEF TypeOK
    <3>2. Stored(d[2])
      BY <3>1 DEF Stored
    <3> QED
      BY <1>1, <3>2 DEF SaveKnows
  <2>2. \A d \in new : d[2] \in inserted[r] /\ d = <<r, d[2]>>
    OBVIOUS
  <2> QED
    BY <1>1, <1>2, <2>1, <2>2 DEF EventsOnce
<1> QED
  BY <1>4, <1>9, <1>10, <1>11 DEF IInv

(* No step disturbs the invariant.                                          *)
LEMMA NextRuns ==
    ASSUME IInv, [Next]_vars
    PROVE  IInv'
<1>1. CASE UNCHANGED vars
  <2>1. UNCHANGED <<status, step, count, events, told, folder, pc, at, verdict, todo, seen, staged,
                    inserted, deaths>>
    BY <1>1 DEF vars, rowVars, saveVars
  <2>2. TypeOK' /\ KeysApart' /\ EventsOnce'
    BY <2>1 DEF IInv, TypeOK, KeysApart, EventsOnce
  <2>3. ASSUME NEW r \in Run PROVE Facts(r)'
    <3>1. Facts(r) /\ Untouched(r)
      BY <2>1 DEF IInv, RunFacts, Facts, Untouched
    <3>2. SavedBy(r)' = SavedBy(r) /\ \A k : Stored(k)' <=> Stored(k)
      BY <2>1 DEF SavedBy, Stored
    <3>3. \A k \in inserted[r] : ~Stored(k)'
      BY <3>1, <3>2 DEF Facts, SaveKnows
    <3> QED
      BY <3>1, <3>2, <3>3, OthersKeep
  <2> QED
    BY <2>2, <2>3 DEF IInv, RunFacts, Facts
<1>2. CASE \E r \in Run : RunStep(r)
  <2>1. PICK r \in Run : RunStep(r)
    BY <1>2
  <2> QED
    BY <2>1, StartStep, BeginStepStep, FinishStepStep, LookupStep, FlushStep, StopStep, SaveStep,
       SendStep, RecordStep, SettleStep, MoveStep DEF RunStep
<1>3. CASE \E r \in Run : Die(r)
  BY <1>3, StopStep
<1> QED
  BY <1>1, <1>2, <1>3 DEF Next, Rest

(* The invariant holds in every state.                                      *)
LEMMA RunInvariance == Spec => []IInv
<1>1. IInv /\ [Next]_vars => IInv'
  BY NextRuns
<1> QED
  BY <1>1, InitRuns, PTL DEF Spec

(* The rows of a run tell how it went, after every commit and whoever dies  *)
(* before the next (run_pipeline, _fail_run).                               *)
THEOREM RunsAreConsistent == Spec => []RunsConsistent
<1>1. ASSUME IInv PROVE StepsTellTheStory
  <2> SUFFICES ASSUME NEW r \in Run
               PROVE  LET ran == {n \in 1..6 : step[r][n] # "none"} IN
                      /\ \A n \in ran : \A m \in 1..(n - 1) : step[r][m] \in {"success", "skipped"}
                      /\ Over(r) =>
                          /\ step[r][7] = "success"
                          /\ (status[r] = "failed") <=> (\E n \in ran : step[r][n] = "failed")
                          /\ status[r] = "success" => ran = 1..6
    BY DEF StepsTellTheStory
  <2>1. TypeOK /\ RowsOfRun(r) /\ RunKnows(r)
    BY <1>1 DEF IInv, RunFacts
  <2>2. CASE verdict[r] = None /\ at[r] \in 1..6
    BY <2>1, <2>2 DEF RowsOfRun, RunKnows, Finished, NoRows, Over
  <2>3. CASE verdict[r] = "failed"
    <3>1. PICK n \in 1..5 : step[r][n] = "failed" /\ Finished(r, n - 1) /\ NoRows(r, n + 1, 6)
      BY <2>1, <2>3, RunnerAssumption DEF RowsOfRun, Outcome
    <3>2. \A m \in 1..6 : step[r][m] # "none" => m <= n
      BY <3>1 DEF NoRows
    <3> QED
      BY <2>1, <2>3, <3>1, <3>2 DEF RunKnows, Finished, Over
  <2>4. CASE verdict[r] \in {"success", "no_new_events"}
    <3>1. \A m \in 1..6 : step[r][m] \in {"success", "skipped"}
      BY <2>1, <2>4, RunnerAssumption DEF RowsOfRun, Finished, Outcome
    <3> QED
      BY <2>1, <2>4, <3>1 DEF RunKnows, Over
  <2> QED
    BY <2>1, <2>2, <2>3, <2>4 DEF RowsOfRun
<1>2. IInv => RunsConsistent
  BY <1>1 DEF IInv, RunsConsistent
<1> QED
  BY <1>2, RunInvariance, PTL

(* Events, count and step 6 change together (_deduplicate_and_save).        *)
THEOREM CountIsTrue == Spec => []SavedAsCounted
<1>1. IInv => SavedAsCounted
  BY RunnerAssumption DEF IInv, RunFacts, SaveKnows, RowsOfRun, SavedAsCounted, Outcome
<1> QED
  BY <1>1, RunInvariance, PTL

(* Every event that an answer names is stored once its run has finished     *)
(* step 6, and never twice, whatever runs of the user save at once.         *)
THEOREM EventsStoredOnce == Spec => []StoredExactlyOnce
<1>1. ASSUME IInv, NEW r \in Run, step[r][6] = "success" PROVE verdict[r] \in {"success", "no_new_events"}
  BY <1>1 DEF IInv, RunFacts, RowsOfRun, NoRows
<1>2. IInv => StoredExactlyOnce
  BY <1>1 DEF IInv, RunFacts, SaveKnows, EventsOnce, StoredExactlyOnce
<1> QED
  BY <1>2, RunInvariance, PTL

(* The user of a finished run was told once, and of what the status and the *)
(* events table say (_notify's callers).                                    *)
THEOREM TruthTold == Spec => []ToldTheTruth
<1>1. ASSUME IInv, NEW r \in Run, Over(r)
      PROVE  told[r] = {IF status[r] = "failed" THEN "failed"
                        ELSE IF SavedBy(r) = {} THEN "no_new_events" ELSE "success"}
  <2>1. /\ told[r] = {verdict[r]} /\ verdict[r] # None
        /\ status[r] = "failed" <=> verdict[r] = "failed"
        /\ SavedBy(r) # {} <=> verdict[r] = "success"
    BY <1>1 DEF IInv, RunFacts, RunKnows, SaveKnows
  <2>2. verdict[r] \in Outcome
    BY <1>1, <2>1 DEF IInv, TypeOK
  <2> QED
    BY <2>1, <2>2 DEF Outcome
<1>2. IInv => ToldTheTruth
  BY <1>1 DEF ToldTheTruth
<1> QED
  BY <1>2, RunInvariance, PTL

-----------------------------------------------------------------------------
(* The progress page *)


(* The row of the Notify step, which alone follows a failed one, does not   *)
(* fail itself (_notify only logs what it cannot deliver).                  *)
NotifyRow == step[Watched][7] \in {"none", "in_progress", "success"}

ViewInv == IInv /\ NotifyRow /\ PageConsistent

-----------------------------------------------------------------------------
(* Pasts of a list of statuses *)

InOrder(w) ==
    \A n \in 1..6 : \A m \in 1..(n - 1) : w[n] # "pending" => w[m] \in {"success", "skipped"}

PastOf(w, v) ==
    \A n \in 1..7 : Rank(w[n]) <= Rank(v[n]) /\ (Rank(w[n]) = 2 => w[n] = v[n])

(* How far a status has got.                                                *)
LEMMA Ranks ==
    ASSUME NEW s \in ViewStatus
    PROVE  Rank(s) = IF s = "pending" THEN 0 ELSE IF s = "in_progress" THEN 1 ELSE 2
BY DEF Rank, ViewStatus

(* A past of a past is a past.                                              *)
LEMMA PastTransitive ==
    ASSUME NEW u \in [1..7 -> ViewStatus], NEW v \in [1..7 -> ViewStatus],
           NEW w \in [1..7 -> ViewStatus], PastOf(u, v), PastOf(v, w)
    PROVE  PastOf(u, w)
<1> SUFFICES ASSUME NEW n \in 1..7
             PROVE  Rank(u[n]) <= Rank(w[n]) /\ (Rank(u[n]) = 2 => u[n] = w[n])
  BY DEF PastOf
<1>1. u[n] \in ViewStatus /\ v[n] \in ViewStatus /\ w[n] \in ViewStatus
  OBVIOUS
<1>2. Rank(u[n]) \in 0..2 /\ Rank(v[n]) \in 0..2 /\ Rank(w[n]) \in 0..2
  BY <1>1, Ranks
<1>3. /\ Rank(u[n]) <= Rank(v[n]) /\ (Rank(u[n]) = 2 => u[n] = v[n])
      /\ Rank(v[n]) <= Rank(w[n]) /\ (Rank(v[n]) = 2 => v[n] = w[n])
  BY DEF PastOf
<1> QED
  BY <1>2, <1>3

(* Of a page that shows w and has been sent s, the first k events of a poll *)
(* that reads v make a page between w and v; all of them make it v.         *)
LEMMA Delivery ==
    ASSUME NEW k \in 0..7, NEW v \in [1..7 -> ViewStatus], NEW w \in [1..7 -> ViewStatus],
           NEW s \in [1..7 -> ViewStatus \cup {None}], \A n \in 1..7 : s[n] \in {None, w[n]},
           PastOf(w, v), InOrder(w), InOrder(v),
           NEW d, d = [n \in 1..7 |-> IF n \in 1..k /\ s[n] # v[n] THEN v[n] ELSE w[n]]
    PROVE  /\ d \in [1..7 -> ViewStatus] /\ PastOf(w, d) /\ PastOf(d, v) /\ InOrder(d)
           /\ k = 7 => d = v
<1>1. \A n \in 1..7 : d[n] = IF n <= k THEN v[n] ELSE w[n]
  BY ProgressAssumption
<1>2. d \in [1..7 -> ViewStatus]
  OBVIOUS
<1>3. \A n \in 1..7 : Rank(w[n]) \in 0..2 /\ Rank(v[n]) \in 0..2
  BY Ranks
<1>4. PastOf(w, d) /\ PastOf(d, v)
  BY <1>1, <1>3 DEF PastOf
<1>5. \A n \in 1..7 : w[n] \in {"success", "skipped"} => v[n] = w[n]
  <2> TAKE n \in 1..7
  <2>1. w[n] \in {"success", "skipped"} => Rank(w[n]) = 2
    BY Ranks
  <2> QED
    BY <2>1 DEF PastOf
<1>6. InOrder(d)
  <2> SUFFICES ASSUME NEW n \in 1..6, NEW m \in 1..(n - 1), d[n] # "pending"
               PROVE  d[m] \in {"success", "skipped"}
    BY DEF InOrder
  <2>1. m \in 1..7 /\ n \in 1..7 /\ m < n
    OBVIOUS
  <2>2. CASE n <= k
    BY <1>1, <2>1, <2>2 DEF InOrder
  <2>3. CASE n > k
    <3>1. w[m] \in {"success", "skipped"}
      BY <1>1, <2>1, <2>3 DEF InOrder
    <3> QED
      BY <1>1, <1>5, <2>1, <3>1
  <2> QED
    BY <2>2, <2>3
<1>7. k = 7 => d = v
  <2> SUFFICES ASSUME k = 7 PROVE d = v
    OBVIOUS
  <2>1. \A n \in 1..7 : d[n] = v[n]
    BY <1>1
  <2> QED
    BY <1>2, <2>1
<1> QED
  BY <1>2, <1>4, <1>6, <1>7

-----------------------------------------------------------------------------
(* What the runner lets the page see *)

(* The rows of the run, read at one moment, are in order.                   *)
LEMMA ViewOfRows ==
    ASSUME IInv
    PROVE  StepView \in [1..7 -> ViewStatus] /\ InOrder(StepView)
<1>1. Watched \in Run /\ TypeOK /\ RowsOfRun(Watched)
  BY ProgressAssumption DEF IInv, RunFacts
<1>2. \A n \in 1..7 : step[Watched][n] \in StepStatus
  BY <1>1 DEF TypeOK
<1>3. StepView \in [1..7 -> ViewStatus]
  BY <1>2 DEF StepView, StepStatus, ViewStatus
<1>4. \A n \in 1..7 : StepView[n] # "pending" => step[Watched][n] # "none"
  BY DEF StepView
<1>5. ASSUME NEW n \in 1..6, NEW m \in 1..(n - 1), StepView[n] # "pending"
      PROVE  step[Watched][m] \in {"success", "skipped"}
  <2>1. step[Watched][n] # "none"
    BY <1>4, <1>5
  <2>2. CASE verdict[Watched] = None /\ at[Watched] \in 1..6
    BY <1>1, <2>1, <2>2 DEF RowsOfRun, Finished, NoRows
  <2>3. CASE verdict[Watched] = "failed"
    <3>1. PICK f \in 1..5 : /\ step[Watched][f] = "failed" /\ Finished(Watched, f - 1)
                            /\ NoRows(Watched, f + 1, 6)
      BY <1>1, <2>3, RunnerAssumption DEF RowsOfRun, Outcome
    <3>2. n <= f
      BY <2>1, <3>1 DEF NoRows
    <3> QED
      BY <3>1, <3>2 DEF Finished
  <2>4. CASE verdict[Watched] \in {"success", "no_new_events"}
    BY <1>1, <2>4, RunnerAssumption DEF RowsOfRun, Finished, Outcome
  <2> QED
    BY <1>1, <2>2, <2>3, <2>4 DEF RowsOfRun
<1>6. \A n \in 1..7 : step[Watched][n] \in {"success", "skipped"} => StepView[n] = step[Watched][n]
  BY DEF StepView
<1> QED
  BY <1>3, <1>5, <1>6 DEF InOrder

(* A row that has ended is not written again, and none is once the run is   *)
(* over, nor is its status.                                                 *)
LEMMA RunAdvances ==
    ASSUME IInv, NotifyRow, [Next]_vars
    PROVE  /\ NotifyRow'
           /\ \A n \in 1..7 :
               \/ step'[Watched][n] = step[Watched][n]
               \/ step[Watched][n] = "none" /\ step'[Watched][n] # "none"
               \/ step[Watched][n] = "in_progress"
                  /\ step'[Watched][n] \in {"success", "skipped", "failed"}
           /\ Over(Watched) => /\ step'[Watched] = step[Watched]
                               /\ status'[Watched] = status[Watched]
<1>1. Watched \in Run /\ TypeOK
  BY ProgressAssumption DEF IInv
<1>2. CASE UNCHANGED <<status[Watched], step[Watched]>>
  BY <1>2 DEF NotifyRow
<1>3. ASSUME NEW r \in Run, RunStep(r) \/ Die(r), r # Watched
      PROVE  UNCHANGED <<status[Watched], step[Watched]>>
  BY <1>1, <1>3 DEF TypeOK, RunStep, Start, BeginStep, FinishStep, Lookup, Flush, Conflict, Save, Send,
                    Record, Settle, Move, Die, Write, rowVars
<1>4. CASE RunStep(Watched) \/ Die(Watched)
  <2> DEFINE w == Watched
  <2>1. RowsOfRun(w) /\ RunKnows(w)
    BY <1>1 DEF IInv, RunFacts
  <2>2. CASE Lookup(w) \/ Flush(w) \/ Conflict(w) \/ Send(w) \/ Move(w) \/ Die(w)
    BY <1>2, <2>2 DEF Lookup, Flush, Conflict, Send, Move, Die, rowVars
  <2>3. CASE Start(w) \/ Settle(w)
    BY <1>1, <2>1, <2>3 DEF Start, Settle, NotifyRow, RunKnows
  <2>4. CASE BeginStep(w)
    <3>1. /\ step[w][at[w]] = "none" /\ ~Over(w) /\ at[w] \in 1..7
      BY <1>1, <2>1, <2>4 DEF BeginStep, RunKnows, TypeOK
    <3>2. \A n \in 1..7 : step'[w][n] = IF n = at[w] THEN "in_progress" ELSE step[w][n]
      BY <1>1, <2>4, <3>1 DEF BeginStep, Write, TypeOK
    <3> QED
      BY <3>1, <3>2 DEF NotifyRow
  <2>5. CASE FinishStep(w)
    <3>1. at[w] \in 1..5 /\ ~Over(w) /\ verdict[w] = None
      BY <2>1, <2>5 DEF FinishStep, RunKnows, RowsOfRun
    <3>2. step[w][at[w]] \in {"none", "in_progress"}
      BY <2>1, <3>1, RunnerAssumption DEF RowsOfRun, Outcome
    <3>3. PICK s \in StepOutcome[at[w]] : step' = [step EXCEPT ![w][at[w]] = s]
      BY <2>5 DEF FinishStep, Write
    <3>4. s \in {"success", "skipped", "failed"}
      BY <3>1, <3>3 DEF StepOutcome
    <3>5. \A n \in 1..7 : step'[w][n] = IF n = at[w] THEN s ELSE step[w][n]
      BY <1>1, <3>1, <3>3 DEF TypeOK
    <3> QED
      BY <3>1, <3>2, <3>4, <3>5 DEF NotifyRow
  <2>6. CASE Save(w)
    <3>1. at[w] = 6 /\ ~Over(w) /\ verdict[w] = None
      BY <2>1, <2>6 DEF Save, RunKnows, RowsOfRun
    <3>2. step[w][6] \in {"none", "in_progress"}
      BY <2>1, <3>1, RunnerAssumption DEF RowsOfRun, Outcome
    <3>3. \A n \in 1..7 : step'[w][n] = IF n = 6 THEN "success" ELSE step[w][n]
      BY <1>1, <2>6 DEF Save, Write, TypeOK
    <3> QED
      BY <3>1, <3>2, <3>3 DEF NotifyRow
  <2>7. CASE Record(w)
    <3>1. ~Over(w)
      BY <2>1, <2>7 DEF Record, RunKnows
    <3>2. \A n \in 1..7 : step'[w][n] = IF n = 7 THEN "success" ELSE step[w][n]
      BY <1>1, <2>7 DEF Record, Write, TypeOK
    <3> QED
      BY <3>1, <3>2 DEF NotifyRow
  <2> QED
    BY <1>4, <2>2, <2>3, <2>4, <2>5, <2>6, <2>7 DEF RunStep
<1>5. CASE UNCHANGED vars
  BY <1>2, <1>5 DEF vars, rowVars
<1> QED
  BY <1>2, <1>3, <1>4, <1>5 DEF Next, Rest

(* What the page shows stays a past of the run as the run goes on, and all  *)
(* of it once it is over.                                                   *)
LEMMA RunnerStep ==
    ASSUME ViewInv, [Next]_vars, UNCHANGED viewVars
    PROVE  ViewInv' /\ (Over(Watched) => StepView' = StepView)
<1>1. IInv /\ NotifyRow /\ ViewTypeOK /\ ShownIsPast /\ ViewKnows
  BY DEF ViewInv, PageConsistent
<1>2. IInv'
  BY <1>1, NextRuns
<1>3. /\ StepView \in [1..7 -> ViewStatus] /\ StepView' \in [1..7 -> ViewStatus]
      /\ NotifyRow'
  <2>1. \A n \in 1..7 : step'[Watched][n] \in StepStatus
    BY <1>2, ProgressAssumption DEF IInv, TypeOK
  <2>2. StepView' \in [1..7 -> ViewStatus]
    BY <2>1 DEF StepView, StepStatus, ViewStatus
  <2> QED
    BY <1>1, <2>2, ViewOfRows, RunAdvances
<1>4. UNCHANGED <<page, banner, shown, conn, sent, elapsed, loads, breaks>>
  BY DEF viewVars, pageVars, connVars
<1>5. PastOf(StepView, StepView')
  <2> SUFFICES ASSUME NEW n \in 1..7
               PROVE  /\ Rank(StepView[n]) <= Rank(StepView'[n])
                      /\ Rank(StepView[n]) = 2 => StepView[n] = StepView'[n]
    BY DEF PastOf
  <2>1. StepView[n] \in ViewStatus /\ StepView'[n] \in ViewStatus
    BY <1>3
  <2>2. /\ StepView[n] = (IF step[Watched][n] = "none" THEN "pending" ELSE step[Watched][n])
        /\ StepView'[n] = (IF step'[Watched][n] = "none" THEN "pending" ELSE step'[Watched][n])
    BY DEF StepView
  <2>3. \/ StepView'[n] = StepView[n]
        \/ StepView[n] = "pending"
        \/ StepView[n] = "in_progress" /\ StepView'[n] \in {"success", "skipped", "failed"}
    BY <1>1, <2>2, RunAdvances
  <2> QED
    BY <2>1, <2>3, Ranks
<1>6. ShownIsPast'
  <2>1. PastOf(shown, StepView) /\ InOrder(shown) /\ shown \in [1..7 -> ViewStatus]
    BY <1>1 DEF ShownIsPast, PastOf, InOrder, ViewTypeOK
  <2>2. PastOf(shown, StepView')
    BY <1>3, <1>5, <2>1, PastTransitive
  <2> QED
    BY <1>4, <2>1, <2>2 DEF ShownIsPast, PastOf, InOrder
<1>7. Over(Watched) => StepView' = StepView /\ status'[Watched] = status[Watched]
  BY <1>1, RunAdvances DEF StepView
<1>8. IsTerminal(banner) => Over(Watched)
  BY <1>1 DEF ViewKnows, IsTerminal, Over
<1>9. ViewKnows'
  BY <1>1, <1>4, <1>7, <1>8 DEF ViewKnows, IsTerminal
<1>10. ViewTypeOK'
  BY <1>1, <1>4 DEF ViewTypeOK
<1>11. ShownInOrder' /\ DoneMeansOver'
  BY <1>6, <1>9 DEF ShownIsPast, ViewKnows, ShownInOrder, DoneMeansOver, IsTerminal, Over
<1> QED
  BY <1>2, <1>3, <1>6, <1>7, <1>9, <1>10, <1>11 DEF ViewInv, PageConsistent

-----------------------------------------------------------------------------
(* The page and its stream *)

(* What a step of the page that leaves the runner alone must show.          *)
LEMMA ViewStep ==
    ASSUME ViewInv, UNCHANGED vars, ViewTypeOK', ViewKnows',
           PastOf(shown', StepView), InOrder(shown')
    PROVE  ViewInv'
<1>1. IInv' /\ NotifyRow' /\ StepView' = StepView
  <2>1. [Next]_vars
    OBVIOUS
  <2>2. IInv'
    BY <2>1, NextRuns DEF ViewInv
  <2> QED
    BY <2>2 DEF ViewInv, NotifyRow, StepView, vars, rowVars
<1>2. ShownIsPast'
  BY <1>1 DEF ShownIsPast, PastOf, InOrder
<1>3. ShownInOrder' /\ DoneMeansOver'
  BY <1>2 DEF ShownIsPast, ViewKnows, ShownInOrder, DoneMeansOver, IsTerminal, Over
<1> QED
  BY <1>1, <1>2, <1>3 DEF ViewInv, PageConsistent

(* A page does not lose what it has shown.                                  *)
NothingLost ==
    /\ \A n \in 1..7 : Rank(shown[n]) <= Rank(shown'[n])
    /\ IsTerminal(banner) => banner' = banner

(* A poll whose events arrive up to the k-th, on a page that has what was   *)
(* sent to it before.                                                       *)
LEMMA PollDelivers ==
    ASSUME ViewTypeOK, ViewKnows, conn # "none", PastOf(shown, StepView), InOrder(shown),
           StepView \in [1..7 -> ViewStatus], InOrder(StepView),
           NEW k \in 0..7, shown' = Delivered(1..k)
    PROVE  /\ shown' \in [1..7 -> ViewStatus] /\ PastOf(shown, shown') /\ PastOf(shown', StepView)
           /\ InOrder(shown')
           /\ k = 7 => shown' = StepView
<1>1. shown \in [1..7 -> ViewStatus] /\ sent \in [1..7 -> ViewStatus \cup {None}]
  BY DEF ViewTypeOK
<1>2. \A n \in 1..7 : sent[n] \in {None, shown[n]}
  BY DEF ViewKnows
<1>3. shown' = [n \in 1..7 |-> IF n \in 1..k /\ sent[n] # StepView[n] THEN StepView[n] ELSE shown[n]]
  BY DEF Delivered
<1> QED
  BY <1>1, <1>2, <1>3, Delivery

(* Each step of the page keeps the invariant, and takes nothing back.       *)
LEMMA PageStep ==
    ASSUME ViewInv, View
    PROVE  ViewInv' /\ NothingLost
<1>1. /\ ViewTypeOK /\ ViewKnows /\ PastOf(shown, StepView) /\ InOrder(shown)
      /\ Watched \in Run /\ status[Watched] \in RunStatus
  BY ProgressAssumption DEF ViewInv, PageConsistent, ShownIsPast, PastOf, InOrder, IInv, TypeOK, RunStatus
<1>2. StepView \in [1..7 -> ViewStatus] /\ InOrder(StepView)
  BY ViewOfRows DEF ViewInv
<1>3. ASSUME NEW w \in [1..7 -> ViewStatus] PROVE \A n \in 1..7 : Rank(w[n]) \in 0..2
  BY Ranks
<1>4. PastOf(StepView, StepView) /\ \A n \in 1..7 : Rank(shown[n]) <= Rank(shown[n])
  BY <1>1, <1>2, <1>3 DEF PastOf, ViewTypeOK
<1>5. \A n \in 1..7 : Rank(shown[n]) <= Rank(StepView[n])
  BY <1>1 DEF PastOf
<1>6. CASE OpenPage
  <2>1. shown' = shown /\ UNCHANGED vars /\ banner' = status[Watched] /\ page' = "loading" /\ conn' = "none"
    BY <1>6 DEF OpenPage
  <2>2. ViewTypeOK' /\ ViewKnows'
    BY <1>1, <1>6, ProgressAssumption DEF OpenPage, ViewTypeOK, ViewKnows, vars, rowVars
  <2>3. IsTerminal(banner) => banner' = banner
    BY <1>1, <2>1 DEF ViewKnows
  <2> QED
    BY <1>1, <1>4, <2>1, <2>2, <2>3, ViewStep DEF NothingLost
<1>7. CASE PaintPage
  <2>1. shown' = StepView /\ UNCHANGED vars /\ UNCHANGED banner
    BY <1>7 DEF PaintPage
  <2>2. StepView' = StepView
    BY <2>1 DEF StepView, vars, rowVars
  <2>3. ViewTypeOK' /\ ViewKnows'
    BY <1>1, <1>2, <1>7, <2>2 DEF PaintPage, ViewTypeOK, ViewKnows, vars, rowVars, connVars, IsTerminal
  <2> QED
    BY <1>2, <1>4, <1>5, <2>1, <2>3, ViewStep DEF NothingLost
<1>8. CASE Connect \/ Wake \/ Close
  <2>1. UNCHANGED <<vars, page, banner, shown>>
    BY <1>8 DEF Connect, Wake, Close, pageVars
  <2>2. StepView' = StepView /\ status' = status
    BY <2>1 DEF StepView, vars, rowVars
  <2>3. ViewTypeOK'
    BY <1>1, <1>8, <2>1, ProgressAssumption DEF Connect, Wake, Close, ViewTypeOK
  <2>4. ViewKnows'
    BY <1>1, <1>8, <2>1, <2>2 DEF Connect, Wake, Close, ViewKnows, IsTerminal
  <2> QED
    BY <1>1, <1>4, <2>1, <2>3, <2>4, ViewStep DEF NothingLost
<1>9. CASE ReadSteps
  <2>1. /\ shown' = Delivered(1..7) /\ sent' = StepView /\ conn' = "status" /\ conn = "steps"
        /\ UNCHANGED <<vars, page, banner, elapsed, loads, breaks>>
    BY <1>9 DEF ReadSteps
  <2>2. StepView' = StepView /\ status' = status
    BY <2>1 DEF StepView, vars, rowVars
  <2>3. /\ shown' \in [1..7 -> ViewStatus] /\ PastOf(shown, shown') /\ PastOf(shown', StepView)
        /\ InOrder(shown') /\ shown' = StepView
    <3>1. 7 \in 0..7 /\ conn # "none"
      BY <2>1
    <3> QED
      BY <1>1, <1>2, <2>1, <3>1, PollDelivers
  <2>4. ViewTypeOK' /\ ViewKnows'
    BY <1>1, <1>2, <2>1, <2>2, <2>3 DEF ViewTypeOK, ViewKnows, IsTerminal
  <2> QED
    BY <1>5, <2>1, <2>3, <2>4, ViewStep DEF NothingLost
<1>10. CASE ReadStatus
  <2>1. /\ UNCHANGED <<vars, shown, sent, elapsed, loads, breaks>> /\ banner' = status[Watched]
        /\ conn = "status" /\ conn' \in {"none", "asleep"}
        /\ \/ page' = "done" /\ conn' = "none" /\ IsTerminal(status[Watched])
           \/ page' = page /\ ~IsTerminal(status[Watched])
    BY <1>10 DEF ReadStatus
  <2>2. StepView' = StepView /\ status' = status
    BY <2>1 DEF StepView, vars, rowVars
  <2>3. ViewTypeOK'
    BY <1>1, <2>1 DEF ViewTypeOK
  <2>4. ViewKnows' /\ (IsTerminal(banner) => banner' = banner)
    BY <1>1, <2>1, <2>2 DEF ViewKnows, IsTerminal
  <2> QED
    BY <1>1, <1>4, <2>1, <2>3, <2>4, ViewStep DEF NothingLost
<1>11. CASE Break
  <2>1. /\ UNCHANGED <<vars, page, banner, sent, elapsed, loads>> /\ conn' = "none"
        /\ breaks < MaxBreaks /\ breaks' = breaks + 1
        /\ (conn = "steps" /\ \E n \in 0..7 : shown' = Delivered(1..n)) \/ shown' = shown
    BY <1>11 DEF Break
  <2>2. StepView' = StepView /\ status' = status
    BY <2>1 DEF StepView, vars, rowVars
  <2>3. /\ shown' \in [1..7 -> ViewStatus] /\ PastOf(shown', StepView) /\ InOrder(shown')
        /\ \A n \in 1..7 : Rank(shown[n]) <= Rank(shown'[n])
    <3>1. CASE shown' = shown
      BY <1>1, <1>4, <3>1 DEF ViewTypeOK
    <3>2. CASE conn = "steps" /\ \E n \in 0..7 : shown' = Delivered(1..n)
      <4>1. PICK n \in 0..7 : shown' = Delivered(1..n)
        BY <3>2
      <4>2. /\ shown' \in [1..7 -> ViewStatus] /\ PastOf(shown, shown') /\ PastOf(shown', StepView)
            /\ InOrder(shown')
        BY <1>1, <1>2, <3>2, <4>1, PollDelivers
      <4> QED
        BY <4>2 DEF PastOf
    <3> QED
      BY <2>1, <3>1, <3>2
  <2>4. ViewTypeOK'
    BY <1>1, <2>1, <2>3, ProgressAssumption DEF ViewTypeOK
  <2>5. page # "static" \/ shown' = shown
    BY <1>1, <2>1 DEF ViewKnows
  <2>6. ViewKnows'
    BY <1>1, <2>1, <2>2, <2>5 DEF ViewKnows, IsTerminal
  <2> QED
    BY <2>1, <2>3, <2>4, <2>6, ViewStep DEF NothingLost
<1>12. CASE BreakBeforeDone
  <2>1. /\ UNCHANGED <<vars, page, shown, sent, elapsed, loads>> /\ conn' = "none" /\ conn = "status"
        /\ breaks < MaxBreaks /\ breaks' = breaks + 1 /\ banner' = status[Watched]
    BY <1>12 DEF BreakBeforeDone
  <2>2. StepView' = StepView /\ status' = status
    BY <2>1 DEF StepView, vars, rowVars
  <2>3. ViewTypeOK'
    BY <1>1, <2>1, ProgressAssumption DEF ViewTypeOK
  <2>4. ViewKnows' /\ (IsTerminal(banner) => banner' = banner)
    BY <1>1, <2>1, <2>2 DEF ViewKnows, IsTerminal
  <2> QED
    BY <1>1, <1>4, <2>1, <2>3, <2>4, ViewStep DEF NothingLost
<1> QED
  BY <1>6, <1>7, <1>8, <1>9, <1>10, <1>11, <1>12 DEF View, Stream

-----------------------------------------------------------------------------
(* The theorems *)

(* A page not opened shows nothing.                                         *)
LEMMA InitView == Init /\ ViewInit => ViewInv
<1> SUFFICES ASSUME Init, ViewInit PROVE ViewInv
  OBVIOUS
<1>1. IInv
  BY InitRuns
<1>2. NotifyRow /\ \A n \in 1..7 : StepView[n] = "pending" /\ shown[n] = "pending"
  BY ProgressAssumption DEF Init, ViewInit, NotifyRow, StepView
<1>3. Rank("pending") = 0
  BY Ranks DEF ViewStatus
<1>4. ShownIsPast
  BY <1>2, <1>3 DEF ShownIsPast
<1>5. ViewTypeOK /\ ViewKnows
  BY ProgressAssumption DEF ViewInit, ViewTypeOK, ViewKnows, IsTerminal, RunStatus, ViewStatus
<1>6. ShownInOrder /\ DoneMeansOver
  BY DEF ViewInit, ShownInOrder, DoneMeansOver
<1> QED
  BY <1>1, <1>2, <1>4, <1>5, <1>6 DEF ViewInv, PageConsistent

(* No step of the runner, the page or the stream disturbs it, and none      *)
(* takes back what the page has shown.                                      *)
LEMMA NextView ==
    ASSUME ViewInv, [WatchedNext]_<<vars, viewVars>>
    PROVE  ViewInv' /\ NothingLost
<1>1. CASE [Next]_vars /\ UNCHANGED viewVars
  <2>1. shown' = shown /\ banner' = banner /\ shown \in [1..7 -> ViewStatus]
    BY <1>1 DEF viewVars, pageVars, ViewInv, PageConsistent, ViewTypeOK
  <2>2. \A n \in 1..7 : Rank(shown[n]) \in 0..2
    BY <2>1, Ranks
  <2> QED
    BY <1>1, <2>1, <2>2, RunnerStep DEF NothingLost
<1>2. CASE View
  BY <1>2, PageStep
<1> QED
  BY <1>1, <1>2 DEF WatchedNext

(* The invariant holds in every state.                                      *)
LEMMA ViewInvariance == WatchedSpec => []ViewInv
<1>1. ViewInv /\ [WatchedNext]_<<vars, viewVars>> => ViewInv'
  BY NextView
<1> QED
  BY <1>1, InitView, PTL DEF WatchedSpec

(* At every moment, after any loss, the page shows a past the run has had,  *)
(* and "done" only with the run's last status (stream_run_progress).        *)
THEOREM PageIsConsistent == WatchedSpec => []PageConsistent
<1>1. ViewInv => PageConsistent
  BY DEF ViewInv
<1> QED
  BY <1>1, ViewInvariance, PTL

(* A page that no stream will update shows all its run has to say: the      *)
(* status is read before the steps (processing_page).                       *)
THEOREM StaticPageTellsAll == WatchedSpec => []StaticPageIsComplete
<1>1. ASSUME ViewInv, page = "static"
      PROVE  shown = StepView /\ shown[7] = "success" /\ banner = status[Watched]
  <2>1. shown = StepView /\ banner = status[Watched] /\ IsTerminal(banner)
    BY <1>1 DEF ViewInv, PageConsistent, ViewKnows
  <2>2. step[Watched][7] = "success"
    BY <1>1, <2>1, ProgressAssumption DEF ViewInv, IInv, RunFacts, RunKnows, Over, IsTerminal
  <2> QED
    BY <2>1, <2>2 DEF StepView
<1>2. ViewInv => StaticPageIsComplete
  BY <1>1 DEF StaticPageIsComplete
<1> QED
  BY <1>2, ViewInvariance, PTL

(* Neither a reconnection nor a reload takes back a step shown ended or a   *)
(* run shown over (stream_run_progress, processing_page).                   *)
THEOREM NothingShownIsLost == WatchedSpec => ShownNeverRegresses
<1>1. ViewInv /\ [WatchedNext]_<<vars, viewVars>>
      => [/\ \A n \in 1..7 : Rank(shown[n]) <= Rank(shown'[n])
          /\ IsTerminal(banner) => banner' = banner]_<<vars, viewVars>>
  BY NextView DEF NothingLost
<1> QED
  BY <1>1, ViewInvariance, PTL DEF WatchedSpec, ShownNeverRegresses
=============================================================================
