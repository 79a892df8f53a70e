------------------------ MODULE PipelineDispatchProofs ------------------------
(* Safety of PipelineDispatch, for every batch, queue and number of faults. *)
EXTENDS DispatchRefinement, FiniteSetTheorems, TLAPS

(* A run is a batch and a position in it, and nothing else is. *)
LEMMA RunElements ==
    /\ \A b \in Batch : \A i \in 1..Size[b] : <<b, i>> \in Run
    /\ \A r \in Run : /\ r[1] \in Batch
                      /\ r[2] \in 1..Size[r[1]]
                      /\ r = <<r[1], r[2]>>
    /\ \A b \in Batch : Size[b] \in Nat \ {0} /\ <<b, 1>> \in Run
    /\ None \notin Run /\ None \notin Task /\ None \notin Handler
BY DispatchAssumption DEF Run

(* What NextRun yields for a run that is not the last of its batch. *)
LEMMA NextRunElement ==
    ASSUME NEW r \in Run, ~IsLast(r)
    PROVE  /\ NextRun(r) \in Run
           /\ NextRun(r)[1] = r[1]
           /\ NextRun(r)[2] = r[2] + 1
           /\ NextRun(r)[2] > 1
           /\ <<NextRun(r)[1], NextRun(r)[2] - 1>> = r
<1>1. /\ r[1] \in Batch /\ r[2] \in 1..Size[r[1]] /\ r = <<r[1], r[2]>>
      /\ Size[r[1]] \in Nat
  BY RunElements
<1>2. r[2] + 1 \in 1..Size[r[1]] /\ r[2] + 1 > 1 /\ (r[2] + 1) - 1 = r[2]
  BY <1>1 DEF IsLast
<1>3. /\ NextRun(r)[1] = r[1]
      /\ NextRun(r)[2] = r[2] + 1
  BY DEF NextRun
<1>4. NextRun(r) \in Run
  BY <1>1, <1>2, RunElements DEF NextRun
<1>5. <<NextRun(r)[1], NextRun(r)[2] - 1>> = <<r[1], r[2]>>
  BY <1>2, <1>3
<1> QED
  BY <1>1, <1>2, <1>3, <1>4, <1>5

(* The queue gives a new task an identity nobody uses yet. *)
LEMMA FreshTaskIsFresh ==
    ASSUME \E t \in Task : phase[t] = "none"
    PROVE  FreshTask \in Task /\ phase[FreshTask] = "none"
BY Zenon DEF FreshTask

(* A delivery starts a handler that is doing nothing else. *)
LEMMA IdleHandlerIsIdle ==
    ASSUME \E h \in Handler : pc[h] = "idle"
    PROVE  IdleHandler \in Handler /\ pc[IdleHandler] = "idle"
BY Zenon DEF IdleHandler

-----------------------------------------------------------------------------
(* What most steps have in common *)

(* No run is put back, no notification unsent. *)
RunsGrow ==
    \A r \in Run : (TakenUp(r) => TakenUp(r)') /\ told[r] \subseteq told'[r]

(* A task never changes the run it names. *)
CarriesKept == \A t \in Task : carries[t] # None => carries'[t] = carries[t]

(* A step of somebody else, as handler g sees it. *)
DataKept(g) ==
    /\ Executes(g) => folder'[RunOf(g)] = folder[RunOf(g)]
    /\ pc[g] = "move" => status'[RunOf(g)] \in Terminal

Undisturbed(g) ==
    /\ pc'[g] = pc[g] /\ job'[g] = job[g] /\ verdict'[g] = verdict[g]
    /\ DataKept(g)

(* A handler that a step leaves alone still knows what it knew. *)
LEMMA HandlerPersists ==
    ASSUME IInv, RunsGrow, CarriesKept,
           NEW g \in Handler, pc[g] # "idle", Undisturbed(g)
    PROVE  HandlerFacts(g)' /\ RunOf(g)' = RunOf(g)
<1>1. HandlerFacts(g)
  BY DEF IInv, HandlerKnows
<1>2. RunOf(g) \in Run /\ RunOf(g)' = RunOf(g)
  BY <1>1, RunElements DEF HandlerFacts, Undisturbed, CarriesKept, RunOf
<1>3. \A r : (\E u \in Task : carries[u] = r) /\ r # None
                => \E u \in Task : carries'[u] = r
  BY DEF CarriesKept
<1>4. ~IsLast(RunOf(g)) => NextRun(RunOf(g)) # None
  BY <1>2, NextRunElement, RunElements
<1>5. pc[g] = "respond" => (IsLast(RunOf(g)) \/ \E u \in Task : carries[u] = NextRun(RunOf(g)))'
  <2>1. IsLast(RunOf(g))' <=> IsLast(RunOf(g))
    BY <1>2 DEF IsLast
  <2>2. NextRun(RunOf(g))' = NextRun(RunOf(g))
    BY <1>2 DEF NextRun
  <2> QED
    BY <1>1, <1>3, <1>4, <2>1, <2>2 DEF HandlerFacts
<1> QED
  BY <1>1, <1>2, <1>5 DEF HandlerFacts, Undisturbed, DataKept, RunsGrow, Executes

(* Hence HandlerKnows is a matter of the handlers a step moves. *)
LEMMA HandlersPersist ==
    ASSUME IInv, RunsGrow, CarriesKept,
           \A g \in Handler : pc'[g] = "idle" \/ HandlerFacts(g)' \/ Undisturbed(g)
    PROVE  HandlerKnows'
BY HandlerPersists DEF HandlerKnows, Undisturbed


(* What the invariant says of the run a busy handler was given. *)
LEMMA HandlerRun ==
    ASSUME IInv, NEW h \in Handler, pc[h] # "idle"
    PROVE  /\ HandlerFacts(h)
           /\ job[h] \in Task /\ RunOf(h) \in Run
           /\ carries[job[h]] = RunOf(h) /\ carries[job[h]] # None
           /\ status[RunOf(h)] # "absent"
           /\ \A i \in 1..Size[RunOf(h)[1]] :
                  i < RunOf(h)[2] => TakenUp(<<RunOf(h)[1], i>>)
<1>1. HandlerFacts(h) /\ job[h] \in Task /\ RunOf(h) \in Run
  BY DEF IInv, HandlerKnows, HandlerFacts
<1>2. carries[job[h]] = RunOf(h) /\ carries[job[h]] # None
  BY <1>1, RunElements DEF RunOf
<1>3. /\ status[RunOf(h)] # "absent"
      /\ RunOf(h)[2] > 1 => TakenUp(<<RunOf(h)[1], RunOf(h)[2] - 1>>)
  BY <1>1, <1>2 DEF IInv, TasksFollowTheChain
<1>4. ASSUME NEW i \in 1..Size[RunOf(h)[1]], i < RunOf(h)[2]
      PROVE  TakenUp(<<RunOf(h)[1], i>>)
  <2>1. /\ RunOf(h)[1] \in Batch /\ Size[RunOf(h)[1]] \in Nat
        /\ RunOf(h)[2] \in 1..Size[RunOf(h)[1]]
    BY <1>1, RunElements
  <2>2. /\ RunOf(h)[2] - 1 \in 1..Size[RunOf(h)[1]]
        /\ RunOf(h)[2] > 1
        /\ i = RunOf(h)[2] - 1 \/ i < RunOf(h)[2] - 1
    BY <1>4, <2>1
  <2> QED
    BY <1>3, <2>1, <2>2 DEF IInv, BatchOrder
<1> QED
  BY <1>1, <1>2, <1>3, <1>4

(* Writing a status, as four steps of a handler and one of the endpoint do. *)
LEMMA StatusWrite ==
    ASSUME IInv,
           NEW r \in Run, NEW s \in {"in_progress", "success", "failed"},
           status' = [status EXCEPT ![r] = s],
           status[r] # "absent",
           \A i \in 1..Size[r[1]] : i < r[2] => TakenUp(<<r[1], i>>),
           s = "success" => "success" \in told[r],
           s \in Terminal \/ (folder[r] = "watch" /\ \A g \in Handler :
                                  pc[g] = "move" => RunOf(g) # r),
           UNCHANGED <<told, folder, phase, carries>>
    PROVE  /\ \A q \in Run : status'[q] = "absent" <=> status[q] = "absent"
           /\ status' \in [Run -> Status]
           /\ TakenUp(r)'
           /\ RunsGrow /\ CarriesKept
           /\ \A g \in Handler : pc[g] # "idle" => DataKept(g)
           /\ TasksFollowTheChain' /\ UntakenUnfiled' /\ BatchOrder'
           /\ HandedOn' /\ FiledAfterVerdict' /\ SuccessIsTold'
<1>1. /\ \A q \in Run : status'[q] = IF q = r THEN s ELSE status[q]
      /\ \A q \in Run : status'[q] = "absent" <=> status[q] = "absent"
      /\ status' \in [Run -> Status]
  BY DEF IInv, TypeOK, Status, Terminal
<1>2. TakenUp(r)' /\ \A q \in Run : TakenUp(q)' <=> (q = r \/ TakenUp(q))
  BY <1>1 DEF TakenUp
<1>3. RunsGrow /\ CarriesKept
  BY <1>2 DEF RunsGrow, CarriesKept
<1>4. \A g \in Handler : pc[g] # "idle" => DataKept(g)
  BY <1>1 DEF IInv, HandlerKnows, HandlerFacts, DataKept
<1>5. TasksFollowTheChain'
  <2> SUFFICES ASSUME NEW t \in Task, carries[t] # None
               PROVE  /\ status'[carries[t]] # "absent"
                      /\ carries[t][2] > 1 =>
                           TakenUp(<<carries[t][1], carries[t][2] - 1>>)'
    BY DEF IInv, TasksFollowTheChain
  <2>1. carries[t] \in Run /\ status'[carries[t]] # "absent"
    BY ZenonT(30), <1>1 DEF IInv, TypeOK, TasksFollowTheChain
  <2>2. ASSUME carries[t][2] > 1
        PROVE  TakenUp(<<carries[t][1], carries[t][2] - 1>>)'
    <3>1. /\ carries[t][1] \in Batch /\ Size[carries[t][1]] \in Nat
          /\ carries[t][2] \in 1..Size[carries[t][1]]
      BY <2>1, RunElements
    <3>2. <<carries[t][1], carries[t][2] - 1>> \in Run
      BY <2>2, <3>1, RunElements
    <3> QED
      BY <1>2, <2>2, <3>2 DEF IInv, TasksFollowTheChain
  <2> QED
    BY <2>1, <2>2
<1>6. UntakenUnfiled'
  BY <1>2 DEF IInv, UntakenUnfiled
<1>7. BatchOrder'
  <2> SUFFICES ASSUME NEW b \in Batch, NEW i \in 1..Size[b], NEW j \in 1..Size[b],
                      i < j, TakenUp(<<b, j>>)'
               PROVE  TakenUp(<<b, i>>)'
    BY DEF BatchOrder
  <2>1. <<b, i>> \in Run /\ <<b, j>> \in Run
    BY RunElements
  <2>2. CASE TakenUp(<<b, j>>)
    BY <1>2, <2>1, <2>2 DEF IInv, BatchOrder
  <2>3. CASE <<b, j>> = r
    <3>1. r[1] = b /\ r[2] = j
      BY <2>3
    <3> QED
      BY <1>2, <2>1, <3>1
  <2> QED
    BY <1>2, <2>1, <2>2, <2>3
<1>8. HandedOn'
  BY <1>2 DEF IInv, TypeOK, HandedOn, TasksFollowTheChain
<1>9. FiledAfterVerdict' /\ SuccessIsTold'
  BY <1>1 DEF IInv, FiledAfterVerdict, SuccessIsTold
<1> QED
  BY <1>1, <1>2, <1>3, <1>4, <1>5, <1>6, <1>7, <1>8, <1>9

(* The endpoints' bookkeeping does not notice what a handler writes. *)
LEMMA RequestsKeep ==
    ASSUME IInv, RunsGrow, UNCHANGED <<request, marked>>,
           \A q \in Run : status'[q] = "absent" <=> status[q] = "absent"
    PROVE  RowsOfRequest' /\ MarkedInOrder'
<1>1. RowsOfRequest'
  BY DEF IInv, RowsOfRequest
<1>2. ASSUME NEW b \in Batch
      PROVE  /\ request[b] \in {"new", "created"} => marked[b] = 0
             /\ request[b] \in {"unscheduling", "telling"} => marked[b] < Size[b]
             /\ request[b] = "telling" => TakenUp(<<b, marked[b] + 1>>)'
             /\ \A i \in 1..Size[b] : i <= marked[b] => TakenUp(<<b, i>>)'
  <2>1. marked[b] \in Nat /\ Size[b] \in Nat
    BY RunElements DEF IInv, TypeOK
  <2>2. /\ request[b] \in {"new", "created"} => marked[b] = 0
        /\ request[b] \in {"unscheduling", "telling"} => marked[b] < Size[b]
    BY DEF IInv, MarkedInOrder
  <2>3. ASSUME request[b] = "telling" PROVE TakenUp(<<b, marked[b] + 1>>)'
    <3>1. marked[b] + 1 \in 1..Size[b]
      BY <2>1, <2>2, <2>3
    <3>2. <<b, marked[b] + 1>> \in Run
      BY <3>1, RunElements
    <3> QED
      BY <2>3, <3>2 DEF IInv, MarkedInOrder, RunsGrow
  <2>4. \A i \in 1..Size[b] : i <= marked[b] => TakenUp(<<b, i>>)'
    BY RunElements DEF IInv, MarkedInOrder, RunsGrow
  <2> QED
    BY <2>2, <2>3, <2>4
<1>3. MarkedInOrder'
  BY <1>2 DEF MarkedInOrder
<1> QED
  BY <1>1, <1>3

(* What depends on the runs alone survives a step that leaves them alone. *)
LEMMA RunsStay ==
    ASSUME IInv, UNCHANGED runVars
    PROVE  /\ RunsGrow
           /\ UntakenUnfiled' /\ BatchOrder' /\ FiledAfterVerdict' /\ SuccessIsTold'
           /\ \A g \in Handler : pc[g] # "idle" => DataKept(g)
           /\ \A q \in Run : status'[q] = "absent" <=> status[q] = "absent"
<1>1. \A g \in Handler : pc[g] # "idle" => DataKept(g)
  BY DEF IInv, HandlerKnows, HandlerFacts, DataKept, runVars
<1> QED
  BY <1>1 DEF IInv, runVars, RunsGrow, TakenUp, UntakenUnfiled, BatchOrder,
              FiledAfterVerdict, SuccessIsTold

(* So does what depends on the queue. *)
LEMMA QueueStays ==
    ASSUME IInv, UNCHANGED <<status, phase, carries>>
    PROVE  CarriesKept /\ TasksFollowTheChain' /\ HandedOn'
BY DEF IInv, CarriesKept, TasksFollowTheChain, HandedOn, TakenUp, IsLast, NextRun

(* A handler goes on, within one delivery, and nobody else moves. *)
LEMMA HandlerMoves ==
    ASSUME IInv,
           NEW h \in Handler, pc[h] # "idle",
           NEW l \in Location \ {"idle"}, Goto(h, l),
           UNCHANGED <<job, awaited>>,
           \A g \in Handler : g # h => verdict'[g] = verdict[g],
           RunsGrow, CarriesKept,
           \A g \in Handler : g # h /\ pc[g] # "idle" => DataKept(g),
           l \in Executing =>
               Executes(h) \/ \A g \in Handler : Executes(g) => RunOf(g) # RunOf(h),
           HandlerFacts(h)'
    PROVE  pc' \in [Handler -> Location] /\ HandlerKnows' /\ AwaitedRun' /\ OneExecutor'
<1>1. /\ \A g \in Handler : pc'[g] = IF g = h THEN l ELSE pc[g]
      /\ pc' \in [Handler -> Location]
  BY DEF IInv, TypeOK, Goto
<1>2. \A g \in Handler : g # h => pc'[g] = "idle" \/ Undisturbed(g)
  BY <1>1 DEF Undisturbed
<1>3. HandlerKnows'
  BY <1>2, HandlersPersist
<1>4. AwaitedRun'
  BY <1>1 DEF IInv, TypeOK, AwaitedRun
<1>5. \A g \in Handler : pc[g] # "idle" => RunOf(g)' = RunOf(g)
  <2>1. \A g \in Handler : pc[g] # "idle" => job[g] \in Task /\ carries[job[g]] # None
    BY HandlerRun
  <2> QED
    BY <2>1 DEF RunOf, CarriesKept
<1>6. \A g \in Handler : Executes(g) => pc[g] # "idle"
  BY DEF Executes, Executing
<1>7. \A g \in Handler : Executes(g)' => IF g = h THEN l \in Executing ELSE Executes(g)
  BY <1>1 DEF Executes
<1>8. OneExecutor'
  BY <1>5, <1>6, <1>7 DEF IInv, OneExecutor
<1> QED
  BY <1>1, <1>3, <1>4, <1>8

(* Putting a task on the queue. *)
LEMMA EnqueueStep ==
    ASSUME IInv,
           NEW r \in Run, Enqueue(r),
           status[r] # "absent",
           r[2] > 1 => TakenUp(<<r[1], r[2] - 1>>),
           UNCHANGED status
    PROVE  /\ phase' \in [Task -> Phase]
           /\ carries' \in [Task -> Run \cup {None}]
           /\ CarriesKept
           /\ \E u \in Task : carries'[u] = r
           /\ TasksFollowTheChain'
           /\ HandedOn'
<1> DEFINE t == FreshTask
<1>1. t \in Task /\ phase[t] = "none" /\ carries[t] = None
  BY FreshTaskIsFresh DEF Enqueue, IInv, TasksFollowTheChain
<1> HIDE DEF t
<1>2. /\ phase' = [phase EXCEPT ![t] = "queued"]
      /\ carries' = [carries EXCEPT ![t] = r]
  BY DEF Enqueue, t
<1>3. /\ \A u \in Task : /\ phase'[u] = IF u = t THEN "queued" ELSE phase[u]
                         /\ carries'[u] = IF u = t THEN r ELSE carries[u]
      /\ phase' \in [Task -> Phase] /\ carries' \in [Task -> Run \cup {None}]
  BY <1>1, <1>2 DEF IInv, TypeOK, Phase
<1>4. CarriesKept /\ \E u \in Task : carries'[u] = r
  BY <1>1, <1>3 DEF CarriesKept
<1>5. TasksFollowTheChain'
  BY <1>1, <1>3, RunElements DEF IInv, TasksFollowTheChain, TakenUp
<1>6. HandedOn'
  <2> SUFFICES ASSUME NEW u \in Task, phase'[u] = "done"
               PROVE  /\ TakenUp(carries[u])'
                      /\ \/ IsLast(carries[u])'
                         \/ (\E w \in Task : carries[w] = NextRun(carries[u]))'
    BY DEF HandedOn
  <2>1. u # t /\ phase[u] = "done" /\ carries'[u] = carries[u]
    BY <1>3
  <2>2. /\ TakenUp(carries[u])'
        /\ IsLast(carries[u])' <=> IsLast(carries[u])
        /\ NextRun(carries[u])' = NextRun(carries[u])
    BY <2>1 DEF IInv, HandedOn, TakenUp, IsLast, NextRun
  <2>3. carries[u] \in Run
    BY <2>1 DEF IInv, TypeOK, TasksFollowTheChain
  <2>4. CASE ~IsLast(carries[u])
    <3>1. NextRun(carries[u]) # None
      BY <2>3, <2>4, NextRunElement, RunElements
    <3>2. PICK w \in Task : carries[w] = NextRun(carries[u])
      BY <2>1, <2>4 DEF IInv, HandedOn
    <3> QED
      BY <2>1, <2>2, <3>1, <3>2, <1>4 DEF CarriesKept
  <2> QED
    BY <2>1, <2>2, <2>4
<1> QED
  BY <1>3, <1>4, <1>5, <1>6

(* An attempt that ends, well or not, keeps the task's place in the chain. *)
LEMMA RequeueStep ==
    ASSUME IInv,
           NEW t \in Task, carries[t] # None, Retry(t),
           UNCHANGED <<status, carries>>
    PROVE  phase' \in [Task -> Phase] /\ TasksFollowTheChain' /\ HandedOn'
<1>1. /\ phase' \in [Task -> Phase]
      /\ \A u \in Task : u # t => phase'[u] = phase[u]
      /\ phase'[t] \in {"queued", "dropped"}
  BY DEF IInv, TypeOK, Retry, Phase
<1>2. phase[t] # "none"
  BY DEF IInv, TasksFollowTheChain
<1>3. TasksFollowTheChain'
  BY <1>1, <1>2 DEF IInv, TasksFollowTheChain, TakenUp
<1>4. HandedOn'
  BY <1>1 DEF IInv, HandedOn, TakenUp
<1> QED
  BY <1>1, <1>3, <1>4

(* A fault that strikes is one fault fewer. *)
LEMMA SpendType ==
    ASSUME IInv, NEW kind \in FaultKind, Spend(kind)
    PROVE  faults' \in [FaultKind -> Nat]
BY DEF IInv, TypeOK, Spend, FaultKind

-----------------------------------------------------------------------------
(* The push endpoint, one lemma per action *)

(* A handler that only decides where to go next. *)
LEMMA QuietMove ==
    ASSUME IInv,
           NEW h \in Handler, pc[h] # "idle",
           NEW l \in {"build", "claim", "giveup", "advance"}, Goto(h, l),
           l = "advance" => TakenUp(RunOf(h)),
           faults' \in [FaultKind -> Nat],
           UNCHANGED <<job, verdict, runVars, requestVars, queueVars>>
    PROVE  IInv'
<1> USE DEF runVars, requestVars, queueVars
<1>1. l \in Location \ {"idle"} /\ l \notin Executing
  BY DEF Location, Executing
<1>2. HandlerFacts(h) /\ RunOf(h) \in Run
  BY HandlerRun
<1>3. pc'[h] = l /\ RunOf(h)' = RunOf(h)
  BY DEF IInv, TypeOK, Goto, RunOf
<1>4. HandlerFacts(h)'
  BY <1>1, <1>2, <1>3 DEF HandlerFacts, TakenUp, Executes
<1>5. CarriesKept /\ TasksFollowTheChain' /\ HandedOn'
  BY QueueStays
<1>6. /\ RunsGrow
      /\ UntakenUnfiled' /\ BatchOrder' /\ FiledAfterVerdict' /\ SuccessIsTold'
      /\ \A g \in Handler : pc[g] # "idle" => DataKept(g)
      /\ RowsOfRequest' /\ MarkedInOrder'
  BY RunsStay, RequestsKeep
<1>7. pc' \in [Handler -> Location] /\ HandlerKnows' /\ AwaitedRun' /\ OneExecutor'
  BY <1>1, <1>4, <1>5, <1>6, HandlerMoves
<1>8. TypeOK'
  BY <1>7 DEF IInv, TypeOK
<1> QED
  BY <1>5, <1>6, <1>7, <1>8 DEF IInv

(* The duplicate check, the two ends of the storage set-up, the lost claim. *)
LEMMA QuietStep ==
    ASSUME IInv, NEW h \in Handler,
           Check(h) \/ Build(h) \/ BuildFails(h) \/ ClaimMisses(h)
    PROVE  IInv'
<1>1. CASE Check(h)
  <2>1. CASE status[RunOf(h)] \in Terminal
    BY <1>1, <2>1, QuietMove DEF Check, TakenUp, Terminal, IInv, TypeOK
  <2>2. CASE status[RunOf(h)] \notin Terminal
    BY <1>1, <2>2, QuietMove DEF Check, IInv, TypeOK
  <2> QED
    BY <2>1, <2>2
<1>2. CASE Build(h)
  BY <1>2, QuietMove DEF Build, IInv, TypeOK
<1>3. CASE BuildFails(h)
  BY <1>3, QuietMove, SpendType DEF BuildFails, FaultKind
<1>4. CASE ClaimMisses(h)
  BY <1>4, QuietMove, HandlerRun DEF ClaimMisses, TakenUp, IInv, TypeOK
<1> QED
  BY <1>1, <1>2, <1>3, <1>4

(* The pipeline has a verdict, which nothing depends on yet. *)
LEMMA ProcessStep ==
    ASSUME IInv, NEW h \in Handler, Process(h)
    PROVE  IInv'
<1> USE DEF runVars, requestVars, queueVars
<1>1. /\ pc[h] = "process" /\ Goto(h, "notify")
      /\ "notify" \in Location \ {"idle"} /\ Executes(h)
  BY DEF Process, Location, Executing, Executes
<1>2. PICK v \in Verdict : verdict' = [verdict EXCEPT ![h] = v]
  BY DEF Process
<1>3. HandlerFacts(h)
  BY <1>1, HandlerRun
<1>4. HandlerFacts(h)'
  BY <1>1, <1>2, <1>3
     DEF Process, Goto, HandlerFacts, RunOf, TakenUp, Executes, Executing,
         IInv, TypeOK
<1>5. CarriesKept /\ TasksFollowTheChain' /\ HandedOn'
  BY QueueStays DEF Process
<1>6. /\ RunsGrow
      /\ UntakenUnfiled' /\ BatchOrder' /\ FiledAfterVerdict' /\ SuccessIsTold'
      /\ \A g \in Handler : pc[g] # "idle" => DataKept(g)
      /\ RowsOfRequest' /\ MarkedInOrder'
  BY RunsStay, RequestsKeep DEF Process
<1>7. pc' \in [Handler -> Location] /\ HandlerKnows' /\ AwaitedRun' /\ OneExecutor'
  <2>1. UNCHANGED <<job, awaited>>
    BY DEF Process
  <2>2. \A g \in Handler : g # h => verdict'[g] = verdict[g]
    BY <1>2 DEF IInv, TypeOK
  <2> QED
    BY <1>1, <1>4, <1>5, <1>6, <2>1, <2>2, HandlerMoves
<1>8. TypeOK'
  BY <1>2, <1>7 DEF Process, IInv, TypeOK
<1> QED
  BY <1>5, <1>6, <1>7, <1>8 DEF IInv

(* Telling the user something: the failure to set up, or the verdict. *)
LEMMA TellStep ==
    ASSUME IInv, NEW h \in Handler, GiveUpNotify(h) \/ Notify(h)
    PROVE  IInv'
<1> USE DEF requestVars, queueVars
<1>1. PICK l \in Location \ {"idle"} :
          /\ Goto(h, l)
          /\ \/ l = "settle" /\ pc[h] = "notify"
             \/ l = "advance" /\ pc[h] = "giveup_notify"
  <2>1. "settle" \in Location \ {"idle"} /\ "advance" \in Location \ {"idle"}
    BY DEF Location, Executing
  <2> QED
    BY <2>1 DEF GiveUpNotify, Notify
<1>2. HandlerFacts(h) /\ RunOf(h) \in Run /\ pc[h] # "idle"
  BY <1>1, HandlerRun
<1>3. PICK v \in Verdict :
          /\ told' = [told EXCEPT ![RunOf(h)] = @ \cup {v}]
          /\ pc[h] = "notify" => v = verdict[h]
  BY <1>1, <1>2 DEF GiveUpNotify, Notify, HandlerFacts, Verdict
<1>4. UNCHANGED <<job, verdict, status, folder, requestVars, queueVars, faults>>
  BY DEF GiveUpNotify, Notify
<1>5. told' \in [Run -> SUBSET Verdict] /\ \A r \in Run : told[r] \subseteq told'[r]
  BY <1>2, <1>3 DEF IInv, TypeOK
<1>6. HandlerFacts(h)'
  <2>1. pc'[h] = l /\ RunOf(h)' = RunOf(h)
    BY <1>1, <1>4 DEF IInv, TypeOK, Goto, RunOf
  <2>2. l = "settle" => verdict[h] \in told'[RunOf(h)]
    BY <1>1, <1>2, <1>3 DEF IInv, TypeOK
  <2> QED
    BY <1>1, <1>2, <1>4, <2>1, <2>2 DEF HandlerFacts, TakenUp, Executes, Executing
<1>7. CarriesKept /\ TasksFollowTheChain' /\ HandedOn'
  BY <1>4, QueueStays
<1>8. /\ RunsGrow
      /\ UntakenUnfiled' /\ BatchOrder' /\ FiledAfterVerdict' /\ SuccessIsTold'
      /\ \A g \in Handler : pc[g] # "idle" => DataKept(g)
  <2>1. RunsGrow /\ UntakenUnfiled' /\ BatchOrder' /\ SuccessIsTold'
    BY <1>4, <1>5 DEF IInv, RunsGrow, TakenUp, UntakenUnfiled, BatchOrder, SuccessIsTold
  <2>2. FiledAfterVerdict'
    BY <1>4, <1>5 DEF IInv, FiledAfterVerdict
  <2>3. \A g \in Handler : pc[g] # "idle" => DataKept(g)
    BY <1>4 DEF IInv, HandlerKnows, HandlerFacts, DataKept
  <2> QED
    BY <2>1, <2>2, <2>3
<1>9. RowsOfRequest' /\ MarkedInOrder'
  BY <1>4, <1>8, RequestsKeep
<1>10. pc' \in [Handler -> Location] /\ HandlerKnows' /\ AwaitedRun' /\ OneExecutor'
  <2>1. l \in Executing => Executes(h)
    BY <1>1 DEF Executing, Executes
  <2> QED
    BY <1>1, <1>2, <1>4, <1>6, <1>7, <1>8, <2>1, HandlerMoves
<1>11. TypeOK'
  BY <1>4, <1>5, <1>10 DEF IInv, TypeOK
<1> QED
  BY <1>7, <1>8, <1>9, <1>10, <1>11 DEF IInv

(* The four writes of a run's status by a handler: the unconditional one of *)
(* _fail_run_without_storage, the claim, run_pipeline's opening and its end. *)
LEMMA WriteStep ==
    ASSUME IInv, NEW h \in Handler, GiveUp(h) \/ Claim(h) \/ Start(h) \/ Settle(h)
    PROVE  IInv'
<1> USE DEF requestVars, queueVars
<1>1. pc[h] # "idle" /\ HandlerFacts(h)
  BY HandlerRun DEF GiveUp, Claim, Start, Settle
<1>2. PICK l \in Location \ {"idle"}, s \in {"in_progress", "success", "failed"} :
          /\ Goto(h, l)
          /\ status' = [status EXCEPT ![RunOf(h)] = s]
          /\ \/ pc[h] = "giveup" /\ l = "giveup_notify" /\ s = "failed"
             \/ pc[h] = "claim" /\ l = "start" /\ s = "in_progress"
                                /\ status[RunOf(h)] = "pending"
             \/ pc[h] = "start" /\ l = "process" /\ s = "in_progress"
             \/ pc[h] = "settle" /\ l = "move" /\ s = verdict[h]
  <2>1. {"giveup_notify", "start", "process", "move"} \subseteq Location \ {"idle"}
    BY DEF Location, Executing
  <2>2. pc[h] = "settle" => verdict[h] \in {"in_progress", "success", "failed"}
    BY <1>1 DEF HandlerFacts, Verdict
  <2>3. CASE GiveUp(h)
    BY <2>1, <2>3 DEF GiveUp
  <2>4. CASE Claim(h)
    BY <2>1, <2>4 DEF Claim
  <2>5. CASE Start(h)
    BY <2>1, <2>5 DEF Start
  <2>6. CASE Settle(h)
    BY <2>1, <2>2, <2>6 DEF Settle
  <2> QED
    BY <2>3, <2>4, <2>5, <2>6
<1>3. UNCHANGED <<job, verdict, told, folder, requestVars, queueVars, faults>>
  BY DEF GiveUp, Claim, Start, Settle
<1>4. /\ RunOf(h) \in Run /\ status[RunOf(h)] # "absent"
      /\ \A i \in 1..Size[RunOf(h)[1]] :
             i < RunOf(h)[2] => TakenUp(<<RunOf(h)[1], i>>)
  BY <1>1, HandlerRun
<1>5. s = "success" => "success" \in told[RunOf(h)]
  BY <1>1, <1>2 DEF HandlerFacts
<1>6. s \in Terminal \/ (folder[RunOf(h)] = "watch" /\ \A g \in Handler :
                            pc[g] = "move" => RunOf(g) # RunOf(h))
  <2>1. CASE pc[h] = "settle"
    <3>1. verdict[h] \in Verdict
      BY <1>1, <2>1 DEF HandlerFacts
    <3> QED
      BY <1>2, <2>1, <3>1 DEF Terminal, Verdict
  <2>2. CASE pc[h] = "claim"
    BY <1>2, <1>4, <2>2 DEF IInv, HandlerKnows, HandlerFacts, UntakenUnfiled,
                            TakenUp, Terminal
  <2>3. CASE pc[h] = "start"
    BY <1>1, <2>3 DEF HandlerFacts, IInv, OneExecutor, Executes, Executing
  <2>4. CASE pc[h] = "giveup"
    BY <1>2, <2>4 DEF Terminal
  <2> QED
    BY <1>2, <2>1, <2>2, <2>3, <2>4
<1>7. PICK r \in Run : r = RunOf(h)
  BY <1>4
<1>8. /\ r \in Run /\ s \in {"in_progress", "success", "failed"}
      /\ status' = [status EXCEPT ![r] = s] /\ status[r] # "absent"
      /\ \A i \in 1..Size[r[1]] : i < r[2] => TakenUp(<<r[1], i>>)
      /\ s = "success" => "success" \in told[r]
      /\ s \in Terminal \/ (folder[r] = "watch" /\ \A g \in Handler :
                                  pc[g] = "move" => RunOf(g) # r)
      /\ UNCHANGED <<told, folder, phase, carries>>
  BY <1>2, <1>3, <1>4, <1>5, <1>6, <1>7
<1>9. /\ \A q \in Run : status'[q] = "absent" <=> status[q] = "absent"
      /\ status' \in [Run -> Status]
      /\ TakenUp(r)' /\ RunsGrow /\ CarriesKept
      /\ \A g \in Handler : pc[g] # "idle" => DataKept(g)
      /\ TasksFollowTheChain' /\ UntakenUnfiled' /\ BatchOrder'
      /\ HandedOn' /\ FiledAfterVerdict' /\ SuccessIsTold'
  BY <1>8, StatusWrite
<1>10. RowsOfRequest' /\ MarkedInOrder'
  BY <1>3, <1>9, RequestsKeep
<1>11. HandlerFacts(h)'
  <2>1. pc'[h] = l /\ RunOf(h)' = r /\ RunOf(h) = r /\ status'[r] = s
    BY <1>2, <1>3, <1>7, <1>8 DEF IInv, TypeOK, Goto, RunOf
  <2>2. l = "start" => folder[r] = "watch"
    BY <1>2, <1>7, <1>8, <2>1 DEF IInv, UntakenUnfiled, TakenUp
  <2>3. l = "move" => verdict[h] \in told[r] /\ s \in Terminal
    BY <1>1, <1>2, <2>1 DEF HandlerFacts, Terminal, Verdict
  <2>4. TakenUp(r)' /\ r \in Run
    BY <1>8, <1>9
  <2> QED
    BY <1>1, <1>2, <1>3, <2>1, <2>2, <2>3, <2>4
       DEF HandlerFacts, Executes, Executing, TakenUp
<1>12. l \in Executing =>
           Executes(h) \/ \A g \in Handler : Executes(g) => RunOf(g) # RunOf(h)
  <2>1. CASE pc[h] = "claim"
    <3> SUFFICES ASSUME NEW g \in Handler, Executes(g), RunOf(g) = RunOf(h)
                 PROVE  FALSE
      OBVIOUS
    <3>1. pc[g] # "idle" /\ pc[g] \in Executing
      BY DEF Executes, Executing
    <3>2. TakenUp(RunOf(g))
      BY <3>1, HandlerRun DEF HandlerFacts
    <3> QED
      BY <1>2, <2>1, <3>2 DEF TakenUp
  <2>2. CASE pc[h] # "claim"
    BY <1>2, <2>2 DEF Executes, Executing
  <2> QED
    BY <2>1, <2>2
<1>13. pc' \in [Handler -> Location] /\ HandlerKnows' /\ AwaitedRun' /\ OneExecutor'
  BY <1>1, <1>2, <1>3, <1>9, <1>11, <1>12, HandlerMoves
<1>14. TypeOK'
  BY <1>3, <1>9, <1>13 DEF IInv, TypeOK
<1> QED
  BY <1>9, <1>10, <1>13, <1>14 DEF IInv

(* The file is moved once the verdict is told and committed. *)
LEMMA MoveStep ==
    ASSUME IInv, NEW h \in Handler, Move(h)
    PROVE  IInv'
<1> USE DEF requestVars, queueVars
<1>1. /\ pc[h] = "move" /\ pc[h] # "idle" /\ Goto(h, "advance")
      /\ "advance" \in Location \ {"idle"} /\ "advance" \notin Executing
      /\ UNCHANGED <<job, verdict, status, told, requestVars, queueVars, faults>>
  BY DEF Move, Location, Executing
<1>2. HandlerFacts(h) /\ RunOf(h) \in Run
  BY <1>1, HandlerRun
<1>3. \A r \in Run : folder'[r] = IF r # RunOf(h) THEN folder[r]
                                  ELSE IF verdict[h] = "success" THEN "processed" ELSE "failed"
  BY <1>2 DEF Move, IInv, TypeOK
<1>4. folder' \in [Run -> {"watch", "processed", "failed"}]
  BY <1>2 DEF Move, IInv, TypeOK
<1>5. HandlerFacts(h)'
  BY <1>1, <1>2 DEF IInv, TypeOK, HandlerFacts, Goto, RunOf, TakenUp, Executes,
                    Executing
<1>6. CarriesKept /\ TasksFollowTheChain' /\ HandedOn'
  BY <1>1, QueueStays
<1>7. RunsGrow /\ BatchOrder' /\ SuccessIsTold'
  BY <1>1 DEF IInv, RunsGrow, TakenUp, BatchOrder, SuccessIsTold
<1>8. UntakenUnfiled'
  BY <1>1, <1>2, <1>3 DEF IInv, UntakenUnfiled, TakenUp, HandlerFacts, Executing
<1>9. FiledAfterVerdict'
  BY <1>1, <1>2, <1>3 DEF IInv, FiledAfterVerdict, HandlerFacts, Verdict
<1>10. ASSUME NEW g \in Handler, g # h, pc[g] # "idle"
       PROVE  DataKept(g)
  <2>1. Executes(g) => RunOf(g) # RunOf(h)
    BY <1>1, <1>10 DEF IInv, OneExecutor, Executes, Executing
  <2>2. HandlerFacts(g) /\ RunOf(g) \in Run
    BY <1>10, HandlerRun
  <2> QED
    BY <1>1, <1>3, <2>1, <2>2 DEF DataKept, HandlerFacts
<1>11. pc' \in [Handler -> Location] /\ HandlerKnows' /\ AwaitedRun' /\ OneExecutor'
  BY <1>1, <1>5, <1>6, <1>7, <1>10, HandlerMoves
<1>12. RowsOfRequest' /\ MarkedInOrder'
  BY <1>1, <1>7, RequestsKeep
<1>13. TypeOK'
  BY <1>1, <1>4, <1>11 DEF IInv, TypeOK
<1> QED
  BY <1>6, <1>7, <1>8, <1>9, <1>11, <1>12, <1>13 DEF IInv

(* The next run of the batch goes on the queue, unless this was the last. *)
LEMMA AdvanceStep ==
    ASSUME IInv, NEW h \in Handler, Advance(h)
    PROVE  IInv'
<1>1. /\ pc[h] = "advance" /\ pc[h] # "idle" /\ Goto(h, "respond")
      /\ "respond" \in Location \ {"idle"} /\ "respond" \notin Executing
      /\ UNCHANGED <<job, verdict, runVars, requestVars, attempts, awaited, faults>>
  BY DEF Advance, Location, Executing, Enqueue, queueVars
<1>2. /\ HandlerFacts(h) /\ TakenUp(RunOf(h))
      /\ job[h] \in Task /\ carries[job[h]] # None
  BY <1>1, HandlerRun DEF HandlerFacts
<1>3. PICK r \in Run : r = RunOf(h)
  BY <1>2 DEF HandlerFacts
<1>4. /\ phase' \in [Task -> Phase] /\ carries' \in [Task -> Run \cup {None}]
      /\ CarriesKept /\ TasksFollowTheChain' /\ HandedOn'
      /\ IsLast(r) \/ \E u \in Task : carries'[u] = NextRun(r)
  <2>1. CASE IsLast(r)
    <3>1. UNCHANGED <<status, phase, carries>>
      BY <1>1, <1>3, <2>1 DEF Advance, queueVars, runVars
    <3> QED
      BY <2>1, <3>1, QueueStays DEF IInv, TypeOK
  <2>2. CASE ~IsLast(r)
    <3>1. PICK n \in Run : n = NextRun(r)
      BY <2>2, NextRunElement
    <3>2. Enqueue(n) /\ UNCHANGED status
      BY <1>1, <1>3, <2>2, <3>1 DEF Advance, runVars
    <3>3. n[1] = r[1] /\ n[2] > 1 /\ <<n[1], n[2] - 1>> = r /\ r[1] \in Batch
      BY <2>2, <3>1, NextRunElement, RunElements
    <3>4. status[r] # "absent"
      BY <1>2, <1>3 DEF TakenUp
    <3>5. status[n] # "absent"
      BY <3>1, <3>3, <3>4 DEF IInv, RowsOfRequest
    <3>6. n[2] > 1 => TakenUp(<<n[1], n[2] - 1>>)
      BY <1>2, <1>3, <3>3
    <3> QED
      BY <3>1, <3>2, <3>5, <3>6, EnqueueStep
  <2> QED
    BY <2>1, <2>2
<1>5. HandlerFacts(h)'
  <2>1. pc'[h] = "respond" /\ RunOf(h)' = r
    BY <1>1, <1>2, <1>3, <1>4 DEF IInv, TypeOK, Goto, RunOf, CarriesKept
  <2>2. (IsLast(RunOf(h)) \/ \E u \in Task : carries[u] = NextRun(RunOf(h)))'
    BY <1>4, <2>1 DEF IsLast, NextRun
  <2> QED
    BY <1>1, <1>2, <1>3, <2>1, <2>2 DEF HandlerFacts, TakenUp, Executes, Executing, runVars
<1>6. /\ RunsGrow
      /\ UntakenUnfiled' /\ BatchOrder' /\ FiledAfterVerdict' /\ SuccessIsTold'
      /\ \A g \in Handler : pc[g] # "idle" => DataKept(g)
      /\ RowsOfRequest' /\ MarkedInOrder'
  BY <1>1, RunsStay, RequestsKeep DEF requestVars
<1>7. pc' \in [Handler -> Location] /\ HandlerKnows' /\ AwaitedRun' /\ OneExecutor'
  BY <1>1, <1>4, <1>5, <1>6, HandlerMoves
<1>8. TypeOK'
  BY <1>1, <1>4, <1>7 DEF IInv, TypeOK, runVars, requestVars
<1> QED
  BY <1>4, <1>6, <1>7, <1>8 DEF IInv

(* A handler that leaves takes nothing with it that the others rely on. *)
LEMMA HandlerLeaves ==
    ASSUME IInv, NEW h \in Handler, Leave(h),
           awaited' = awaited \ {h},
           UNCHANGED <<runVars, carries>>
    PROVE  /\ pc' \in [Handler -> Location]
           /\ job' \in [Handler -> Task \cup {None}]
           /\ verdict' \in [Handler -> Verdict \cup {None}]
           /\ HandlerKnows' /\ AwaitedRun' /\ OneExecutor'
<1>1. /\ pc'[h] = "idle"
      /\ \A g \in Handler : g # h => /\ pc'[g] = pc[g] /\ job'[g] = job[g]
                                     /\ verdict'[g] = verdict[g]
      /\ pc' \in [Handler -> Location]
      /\ job' \in [Handler -> Task \cup {None}]
      /\ verdict' \in [Handler -> Verdict \cup {None}]
  BY DEF IInv, TypeOK, Leave, Location
<1>2. RunsGrow /\ CarriesKept /\ \A g \in Handler : pc[g] # "idle" => DataKept(g)
  BY RunsStay DEF CarriesKept
<1>3. HandlerKnows'
  BY <1>1, <1>2, HandlersPersist DEF Undisturbed
<1>4. AwaitedRun'
  BY <1>1 DEF IInv, TypeOK, AwaitedRun
<1>5. OneExecutor'
  BY <1>1 DEF IInv, OneExecutor, Executes, Executing, RunOf
<1> QED
  BY <1>1, <1>3, <1>4, <1>5

(* The answer that lets the queue delete the task comes after the chain has *)
(* moved on; a handler that dies leaves the task to the queue's retries.    *)
LEMMA LeaveStep ==
    ASSUME IInv, NEW h \in Handler, Respond(h) \/ Abort(h)
    PROVE  IInv'
<1>1. /\ pc[h] # "idle" /\ Leave(h) /\ awaited' = awaited \ {h}
      /\ faults' \in [FaultKind -> Nat]
      /\ UNCHANGED <<carries, attempts, runVars, requestVars>>
  BY SpendType DEF Respond, Abort, FaultKind, IInv, TypeOK
<1>2. PICK t \in Task : t = job[h] /\ carries[t] # None
  BY <1>1, HandlerRun
<1>3. phase' \in [Task -> Phase] /\ TasksFollowTheChain' /\ HandedOn'
  <2>1. CASE UNCHANGED phase
    BY <1>1, <2>1, QueueStays DEF IInv, TypeOK, runVars
  <2>2. CASE Retry(t)
    BY <1>1, <1>2, <2>2, RequeueStep DEF runVars
  <2>3. CASE Respond(h) /\ phase' = [phase EXCEPT ![t] = "done"]
    <3>1. /\ phase' \in [Task -> Phase]
          /\ \A u \in Task : phase'[u] = IF u = t THEN "done" ELSE phase[u]
      BY <2>3 DEF IInv, TypeOK, Phase
    <3>2. phase[t] # "none"
      BY <1>2 DEF IInv, TasksFollowTheChain
    <3>3. TasksFollowTheChain'
      BY <1>1, <3>1, <3>2 DEF IInv, TasksFollowTheChain, TakenUp, runVars
    <3>4. /\ TakenUp(carries[t])
          /\ IsLast(carries[t]) \/ \E u \in Task : carries[u] = NextRun(carries[t])
      BY <1>1, <1>2, <2>3, HandlerRun DEF Respond, HandlerFacts
    <3>5. HandedOn'
      BY <1>1, <3>1, <3>4 DEF IInv, HandedOn, TakenUp, IsLast, NextRun, runVars
    <3> QED
      BY <3>1, <3>3, <3>5
  <2> QED
    BY <1>2, <2>1, <2>2, <2>3 DEF Respond, Abort
<1>4. /\ pc' \in [Handler -> Location]
      /\ job' \in [Handler -> Task \cup {None}]
      /\ verdict' \in [Handler -> Verdict \cup {None}]
      /\ HandlerKnows' /\ AwaitedRun' /\ OneExecutor'
  BY <1>1, HandlerLeaves
<1>5. /\ RunsGrow
      /\ UntakenUnfiled' /\ BatchOrder' /\ FiledAfterVerdict' /\ SuccessIsTold'
      /\ RowsOfRequest' /\ MarkedInOrder'
  BY <1>1, RunsStay, RequestsKeep DEF requestVars
<1>6. TypeOK'
  BY <1>1, <1>3, <1>4 DEF IInv, TypeOK, runVars, requestVars
<1> QED
  BY <1>3, <1>4, <1>5, <1>6 DEF IInv

-----------------------------------------------------------------------------
(* The queue, one lemma per action *)

(* The queue loses patience with a handler, which runs on. *)
LEMMA OverrunStep ==
    ASSUME IInv, NEW h \in Handler, Overrun(h)
    PROVE  IInv'
<1>1. /\ h \in awaited /\ awaited' = awaited \ {h}
      /\ faults' \in [FaultKind -> Nat]
      /\ UNCHANGED <<carries, attempts, runVars, requestVars, handlerVars>>
  BY SpendType DEF Overrun, FaultKind
<1>2. pc[h] # "idle"
  BY <1>1 DEF IInv, AwaitedRun
<1>3. PICK t \in Task : t = job[h] /\ carries[t] # None
  BY <1>2, HandlerRun
<1>4. phase' \in [Task -> Phase] /\ TasksFollowTheChain' /\ HandedOn'
  BY <1>1, <1>3, RequeueStep DEF Overrun, runVars
<1>5. /\ RunsGrow
      /\ UntakenUnfiled' /\ BatchOrder' /\ FiledAfterVerdict' /\ SuccessIsTold'
      /\ \A g \in Handler : pc[g] # "idle" => DataKept(g)
      /\ RowsOfRequest' /\ MarkedInOrder'
  BY <1>1, RunsStay, RequestsKeep DEF requestVars
<1>6. HandlerKnows'
  BY <1>1, <1>5, HandlersPersist DEF Undisturbed, CarriesKept, handlerVars
<1>7. AwaitedRun' /\ OneExecutor'
  BY <1>1 DEF IInv, AwaitedRun, OneExecutor, Executes, RunOf, handlerVars
<1>8. TypeOK'
  BY <1>1, <1>4 DEF IInv, TypeOK, runVars, requestVars, handlerVars
<1> QED
  BY <1>4, <1>5, <1>6, <1>7, <1>8 DEF IInv

(* A delivery, the first or one more, sets an idle handler to work. *)
LEMMA DeliveryStep ==
    ASSUME IInv, NEW t \in Task, Dispatch(t) \/ Duplicate(t)
    PROVE  IInv'
<1>1. PICK h \in Handler :
          /\ pc[h] = "idle" /\ Receive(h, t)
          /\ awaited' \in {awaited, awaited \cup {h}}
  <2>1. \E h \in Handler : pc[h] = "idle"
    BY DEF Dispatch, Duplicate
  <2>2. IdleHandler \in Handler /\ pc[IdleHandler] = "idle"
    BY <2>1, IdleHandlerIsIdle
  <2>3. Receive(IdleHandler, t) /\ awaited' \in {awaited, awaited \cup {IdleHandler}}
    BY DEF Dispatch, Duplicate, queueVars
  <2> QED
    BY <2>2, <2>3
<1>2. /\ phase[t] # "none" /\ phase'[t] # "none" /\ phase' \in [Task -> Phase]
      /\ \A u \in Task : /\ phase'[u] = "none" <=> phase[u] = "none"
                         /\ phase'[u] = "done" => phase[u] = "done"
      /\ attempts' \in [Task -> Nat]
      /\ UNCHANGED <<carries, runVars, requestVars>>
  BY DEF Dispatch, Duplicate, IInv, TypeOK, Phase, queueVars
<1>3. faults' \in [FaultKind -> Nat]
  BY SpendType DEF Dispatch, Duplicate, FaultKind, IInv, TypeOK
<1>4. /\ pc'[h] = "check" /\ job'[h] = t
      /\ \A g \in Handler : g # h => pc'[g] = pc[g] /\ job'[g] = job[g]
      /\ pc' \in [Handler -> Location] /\ job' \in [Handler -> Task \cup {None}]
      /\ UNCHANGED verdict
  BY <1>1 DEF IInv, TypeOK, Receive, Location
<1>5. TasksFollowTheChain' /\ HandedOn'
  BY <1>2 DEF IInv, TasksFollowTheChain, HandedOn, TakenUp, IsLast, NextRun, runVars
<1>6. /\ RunsGrow
      /\ UntakenUnfiled' /\ BatchOrder' /\ FiledAfterVerdict' /\ SuccessIsTold'
      /\ \A g \in Handler : pc[g] # "idle" => DataKept(g)
      /\ RowsOfRequest' /\ MarkedInOrder'
  BY <1>2, RunsStay, RequestsKeep DEF requestVars
<1>7. HandlerFacts(h)'
  <2>1. RunOf(h)' = carries[t] /\ carries[t] \in Run
    BY <1>2, <1>4 DEF RunOf, IInv, TypeOK, TasksFollowTheChain
  <2> QED
    BY <1>4, <2>1 DEF HandlerFacts, Executes, Executing
<1>8. HandlerKnows'
  <2>1. CarriesKept /\ \A g \in Handler : g # h /\ pc[g] # "idle" => Undisturbed(g)
    BY <1>2, <1>4, <1>6 DEF CarriesKept, Undisturbed
  <2> QED
    BY <1>4, <1>6, <1>7, <2>1, HandlersPersist
<1>9. AwaitedRun'
  BY <1>1, <1>4 DEF IInv, TypeOK, AwaitedRun
<1>10. OneExecutor'
  BY <1>2, <1>4 DEF IInv, OneExecutor, Executes, Executing, RunOf
<1>11. TypeOK'
  BY <1>1, <1>2, <1>3, <1>4 DEF IInv, TypeOK, runVars, requestVars
<1> QED
  BY <1>5, <1>6, <1>8, <1>9, <1>10, <1>11 DEF IInv

-----------------------------------------------------------------------------
(* The endpoints, one lemma per action *)

(* Handlers stay where they are and know what they knew. *)
LEMMA HandlersStay ==
    ASSUME IInv, RunsGrow, CarriesKept,
           \A g \in Handler : pc[g] # "idle" => DataKept(g),
           UNCHANGED <<handlerVars, awaited>>
    PROVE  HandlerKnows' /\ AwaitedRun' /\ OneExecutor'
<1>1. HandlerKnows'
  BY HandlersPersist DEF Undisturbed, handlerVars
<1>2. \A g \in Handler : pc[g] # "idle" => RunOf(g)' = RunOf(g)
  <2>1. \A g \in Handler : pc[g] # "idle" => job[g] \in Task /\ carries[job[g]] # None
    BY HandlerRun
  <2> QED
    BY <2>1 DEF RunOf, CarriesKept, handlerVars
<1>3. \A g \in Handler : Executes(g)' <=> Executes(g)
  BY DEF Executes, handlerVars
<1>4. \A g \in Handler : Executes(g) => pc[g] # "idle"
  BY DEF Executes, Executing
<1>5. OneExecutor'
  BY <1>2, <1>3, <1>4 DEF IInv, OneExecutor
<1>6. AwaitedRun'
  BY DEF IInv, AwaitedRun, handlerVars
<1> QED
  BY <1>1, <1>5, <1>6

(* A request moves on: the runs it has marked stay marked. *)
LEMMA RequestMovesOn ==
    ASSUME IInv, RunsGrow, UNCHANGED marked,
           NEW b \in Batch, NEW q \in RequestState \ {"new"},
           request' = [request EXCEPT ![b] = q],
           q = "created" => request[b] = "new",
           q = "unscheduling" => request[b] = "created",
           q = "telling" => /\ request[b] = "unscheduling"
                            /\ TakenUp(<<b, marked[b] + 1>>)'
    PROVE  MarkedInOrder'
<1> SUFFICES ASSUME NEW c \in Batch
             PROVE  /\ request'[c] \in {"new", "created"} => marked'[c] = 0
                    /\ request'[c] \in {"unscheduling", "telling"} => marked'[c] < Size[c]
                    /\ request'[c] = "telling" => TakenUp(<<c, marked[c] + 1>>)'
                    /\ \A i \in 1..Size[c] : i <= marked'[c] => TakenUp(<<c, i>>)'
  BY DEF MarkedInOrder
<1>1. marked[c] \in Nat /\ Size[c] \in Nat \ {0} /\ marked' = marked
  BY RunElements DEF IInv, TypeOK
<1>2. \A i \in 1..Size[c] : i <= marked'[c] => TakenUp(<<c, i>>)'
  BY <1>1, RunElements DEF IInv, MarkedInOrder, RunsGrow
<1>3. CASE c = b
  <2>1. request'[c] = q
    BY <1>3 DEF IInv, TypeOK
  <2>2. /\ request[c] \in {"new", "created"} => marked[c] = 0
        /\ request[c] = "unscheduling" => marked[c] < Size[c]
    BY DEF IInv, MarkedInOrder
  <2> QED
    BY <1>1, <1>2, <1>3, <2>1, <2>2
<1>4. CASE c # b
  <2>1. request'[c] = request[c]
    BY <1>4 DEF IInv, TypeOK
  <2>2. /\ request[c] \in {"new", "created"} => marked[c] = 0
        /\ request[c] \in {"unscheduling", "telling"} => marked[c] < Size[c]
        /\ request[c] = "telling" => TakenUp(<<c, marked[c] + 1>>)
    BY DEF IInv, MarkedInOrder
  <2>3. ASSUME request[c] = "telling" PROVE TakenUp(<<c, marked[c] + 1>>)'
    <3>1. <<c, marked[c] + 1>> \in Run
      BY <1>1, <2>2, <2>3, RunElements
    <3> QED
      BY <1>1, <2>2, <2>3, <3>1 DEF RunsGrow
  <2> QED
    BY <1>1, <1>2, <2>1, <2>2, <2>3
<1> QED
  BY <1>3, <1>4

(* Before its rows exist nothing anywhere is about a batch. *)
LEMMA CreateRunsStep ==
    ASSUME IInv, NEW b \in Batch, CreateRuns(b)
    PROVE  IInv'
<1> USE DEF queueVars
<1>1. /\ request[b] = "new"
      /\ status' = [r \in Run |-> IF r[1] = b THEN "pending" ELSE status[r]]
      /\ request' = [request EXCEPT ![b] = "created"]
      /\ UNCHANGED <<told, folder, marked, queueVars, handlerVars, faults>>
  BY DEF CreateRuns
<1>2. \A r \in Run : /\ r[1] = b => status[r] = "absent" /\ status'[r] = "pending"
                     /\ r[1] # b => status'[r] = status[r]
                     /\ TakenUp(r)' <=> TakenUp(r)
  BY <1>1 DEF IInv, RowsOfRequest, TakenUp
<1>3. RunsGrow /\ CarriesKept
  BY <1>1, <1>2 DEF RunsGrow, CarriesKept
<1>4. UntakenUnfiled' /\ BatchOrder'
  BY <1>1, <1>2, RunElements DEF IInv, UntakenUnfiled, BatchOrder
<1>5. FiledAfterVerdict' /\ SuccessIsTold'
  <2>1. \A r \in Run : r[1] = b => folder[r] = "watch"
    BY <1>2 DEF IInv, UntakenUnfiled, TakenUp
  <2> QED
    BY <1>1, <1>2, <2>1 DEF IInv, FiledAfterVerdict, SuccessIsTold
<1>6. RowsOfRequest'
  BY <1>1, <1>2, RunElements DEF IInv, TypeOK, RowsOfRequest
<1>7. MarkedInOrder'
  BY <1>1, <1>3, RequestMovesOn DEF RequestState
<1>8. \A t \in Task : carries[t] # None => carries[t] \in Run /\ carries[t][1] # b
  BY <1>1, <1>2 DEF IInv, TypeOK, TasksFollowTheChain
<1>9. TasksFollowTheChain' /\ HandedOn'
  <2>1. TasksFollowTheChain'
    <3> SUFFICES ASSUME NEW t \in Task, carries[t] # None
                 PROVE  /\ status'[carries[t]] # "absent"
                        /\ carries[t][2] > 1 =>
                             TakenUp(<<carries[t][1], carries[t][2] - 1>>)'
      BY <1>1 DEF IInv, TasksFollowTheChain
    <3>1. carries[t] \in Run /\ status'[carries[t]] # "absent"
      BY <1>2, <1>8 DEF IInv, TasksFollowTheChain
    <3>2. /\ carries[t][1] \in Batch /\ Size[carries[t][1]] \in Nat
          /\ carries[t][2] \in 1..Size[carries[t][1]]
      BY <3>1, RunElements
    <3>3. ASSUME carries[t][2] > 1
          PROVE  TakenUp(<<carries[t][1], carries[t][2] - 1>>)'
      <4>1. <<carries[t][1], carries[t][2] - 1>> \in Run
        BY <3>2, <3>3, RunElements
      <4>2. TakenUp(<<carries[t][1], carries[t][2] - 1>>)
        BY <3>3 DEF IInv, TasksFollowTheChain
      <4> QED
        BY <1>1, <1>2, <4>1, <4>2 DEF TakenUp
    <3> QED
      BY <3>1, <3>3
  <2>2. HandedOn'
    BY <1>1, <1>2, <1>8 DEF IInv, TasksFollowTheChain, HandedOn, IsLast, NextRun
  <2> QED
    BY <2>1, <2>2
<1>10. \A g \in Handler : pc[g] # "idle" => DataKept(g)
  <2> SUFFICES ASSUME NEW g \in Handler, pc[g] # "idle"
               PROVE  DataKept(g)
    OBVIOUS
  <2>1. RunOf(g) \in Run /\ status'[RunOf(g)] = status[RunOf(g)] /\ HandlerFacts(g)
    BY <1>2, HandlerRun
  <2> QED
    BY <1>1, <2>1 DEF DataKept, HandlerFacts
<1>11. HandlerKnows' /\ AwaitedRun' /\ OneExecutor'
  BY <1>1, <1>3, <1>10, HandlersStay
<1>12. TypeOK'
  BY <1>1 DEF IInv, TypeOK, Status, RequestState, handlerVars
<1> QED
  BY <1>3, <1>4, <1>5, <1>6, <1>7, <1>9, <1>11, <1>12 DEF IInv

(* Scheduling, whether or not the endpoint comes to know that it worked. *)
LEMMA ScheduleStep ==
    ASSUME IInv, NEW b \in Batch, Schedule(b) \/ ScheduleLies(b)
    PROVE  IInv'
<1>1. PICK q \in {"accepted", "unscheduling"} :
          /\ request[b] = "created"
          /\ request' = [request EXCEPT ![b] = q]
          /\ faults' \in [FaultKind -> Nat]
          /\ Enqueue(<<b, 1>>)
          /\ UNCHANGED <<runVars, marked, handlerVars>>
  BY SpendType DEF Schedule, ScheduleLies, FaultKind, IInv, TypeOK
<1>2. PICK r \in Run : r = <<b, 1>>
  BY RunElements
<1>3. Enqueue(r) /\ status[r] # "absent" /\ ~(r[2] > 1) /\ UNCHANGED status
  BY <1>1, <1>2 DEF IInv, RowsOfRequest, runVars
<1>4. /\ phase' \in [Task -> Phase] /\ carries' \in [Task -> Run \cup {None}]
      /\ CarriesKept /\ TasksFollowTheChain' /\ HandedOn'
  BY <1>3, EnqueueStep
<1>5. UNCHANGED <<attempts, awaited>>
  BY <1>1 DEF Enqueue
<1>6. /\ RunsGrow
      /\ UntakenUnfiled' /\ BatchOrder' /\ FiledAfterVerdict' /\ SuccessIsTold'
      /\ \A g \in Handler : pc[g] # "idle" => DataKept(g)
  BY <1>1, RunsStay
<1>7. HandlerKnows' /\ AwaitedRun' /\ OneExecutor'
  BY <1>1, <1>4, <1>5, <1>6, HandlersStay
<1>8. RowsOfRequest' /\ MarkedInOrder'
  <2>1. q \in RequestState \ {"new"}
    BY DEF RequestState
  <2>2. MarkedInOrder'
    BY <1>1, <1>6, <2>1, RequestMovesOn
  <2>3. RowsOfRequest'
    BY <1>1 DEF IInv, TypeOK, RowsOfRequest, runVars
  <2> QED
    BY <2>2, <2>3
<1>9. TypeOK'
  BY <1>1, <1>4, <1>5 DEF IInv, TypeOK, RequestState, runVars, handlerVars
<1> QED
  BY <1>4, <1>6, <1>7, <1>8, <1>9 DEF IInv

(* The endpoint learns that nothing was scheduled, or dies. *)
LEMMA RequestFailsStep ==
    ASSUME IInv, NEW b \in Batch, ScheduleFails(b) \/ RequestDies(b)
    PROVE  IInv'
<1>1. PICK q \in {"unscheduling", "dead"} :
          /\ request[b] # "new"
          /\ q = "unscheduling" => request[b] = "created"
          /\ request' = [request EXCEPT ![b] = q]
          /\ faults' \in [FaultKind -> Nat]
          /\ UNCHANGED <<runVars, marked, queueVars, handlerVars>>
  BY SpendType DEF ScheduleFails, RequestDies, FaultKind
<1>2. /\ CarriesKept /\ TasksFollowTheChain' /\ HandedOn'
      /\ UNCHANGED <<phase, carries, attempts, awaited>>
  BY <1>1, QueueStays DEF runVars, queueVars
<1>3. /\ RunsGrow
      /\ UntakenUnfiled' /\ BatchOrder' /\ FiledAfterVerdict' /\ SuccessIsTold'
      /\ \A g \in Handler : pc[g] # "idle" => DataKept(g)
  BY <1>1, RunsStay
<1>4. HandlerKnows' /\ AwaitedRun' /\ OneExecutor'
  BY <1>1, <1>2, <1>3, HandlersStay
<1>5. RowsOfRequest' /\ MarkedInOrder'
  <2>1. q \in RequestState \ {"new"}
    BY DEF RequestState
  <2>2. MarkedInOrder'
    BY <1>1, <1>3, <2>1, RequestMovesOn
  <2>3. RowsOfRequest'
    BY <1>1 DEF IInv, TypeOK, RowsOfRequest, runVars
  <2> QED
    BY <2>2, <2>3
<1>6. TypeOK'
  BY <1>1, <1>2 DEF IInv, TypeOK, RequestState, runVars, handlerVars
<1> QED
  BY <1>2, <1>3, <1>4, <1>5, <1>6 DEF IInv

(* The run marked failed is the first one not marked yet. *)
LEMMA MarkStep ==
    ASSUME IInv, NEW b \in Batch, MarkUnscheduled(b)
    PROVE  IInv'
<1>1. /\ request[b] = "unscheduling"
      /\ request' = [request EXCEPT ![b] = "telling"]
      /\ UNCHANGED <<told, folder, marked, queueVars, handlerVars, faults>>
  BY DEF MarkUnscheduled
<1>2. marked[b] \in Nat /\ Size[b] \in Nat /\ marked[b] < Size[b]
  BY <1>1, RunElements DEF IInv, TypeOK, MarkedInOrder
<1>3. PICK r \in Run : r = <<b, marked[b] + 1>>
  <2>1. marked[b] + 1 \in 1..Size[b]
    BY <1>2
  <2> QED
    BY <2>1, RunElements
<1>4. /\ status' = [status EXCEPT ![r] = "failed"]
      /\ r[1] = b /\ r[2] = marked[b] + 1
  BY <1>3 DEF MarkUnscheduled
<1>5. status[r] # "absent"
  BY <1>1, <1>4 DEF IInv, RowsOfRequest
<1>6. \A i \in 1..Size[r[1]] : i < r[2] => TakenUp(<<r[1], i>>)
  <2>1. \A i \in 1..Size[b] : i < marked[b] + 1 => i <= marked[b]
    BY <1>2
  <2> QED
    BY <1>4, <2>1 DEF IInv, MarkedInOrder
<1>7. /\ \A q \in Run : status'[q] = "absent" <=> status[q] = "absent"
      /\ status' \in [Run -> Status]
      /\ TakenUp(r)' /\ RunsGrow /\ CarriesKept
      /\ \A g \in Handler : pc[g] # "idle" => DataKept(g)
      /\ TasksFollowTheChain' /\ UntakenUnfiled' /\ BatchOrder'
      /\ HandedOn' /\ FiledAfterVerdict' /\ SuccessIsTold'
  <2>1. "failed" \in {"in_progress", "success", "failed"} /\ "failed" \in Terminal
    BY DEF Terminal
  <2>2. UNCHANGED <<told, folder, phase, carries>>
    BY <1>1 DEF queueVars
  <2> QED
    BY <1>4, <1>5, <1>6, <2>1, <2>2, StatusWrite
<1>8. HandlerKnows' /\ AwaitedRun' /\ OneExecutor'
  BY <1>1, <1>7, HandlersStay DEF queueVars
<1>9. RowsOfRequest' /\ MarkedInOrder'
  <2>1. TakenUp(<<b, marked[b] + 1>>)'
    BY <1>1, <1>3, <1>7 DEF TakenUp
  <2>2. MarkedInOrder'
    BY <1>1, <1>7, <2>1, RequestMovesOn DEF RequestState
  <2>3. RowsOfRequest'
    BY <1>1, <1>7 DEF IInv, TypeOK, RowsOfRequest
  <2> QED
    BY <2>2, <2>3
<1>10. TypeOK'
  BY <1>1, <1>7 DEF IInv, TypeOK, RequestState, handlerVars, queueVars
<1> QED
  BY <1>7, <1>8, <1>9, <1>10 DEF IInv

(* Its user is told, and the next run of the batch is due. *)
LEMMA TellUnscheduledStep ==
    ASSUME IInv, NEW b \in Batch, TellUnscheduled(b)
    PROVE  IInv'
<1>1. /\ request[b] = "telling"
      /\ marked' = [marked EXCEPT ![b] = @ + 1]
      /\ UNCHANGED <<status, folder, queueVars, handlerVars, faults>>
  BY DEF TellUnscheduled
<1>2. /\ marked[b] \in Nat /\ Size[b] \in Nat /\ marked[b] < Size[b]
      /\ TakenUp(<<b, marked[b] + 1>>)
  BY <1>1, RunElements DEF IInv, TypeOK, MarkedInOrder
<1>3. PICK r \in Run : r = <<b, marked[b] + 1>>
  BY <1>2, RunElements
<1>4. PICK q \in {"rejected", "unscheduling"} :
          /\ request' = [request EXCEPT ![b] = q]
          /\ q = "unscheduling" => marked[b] + 1 # Size[b]
  BY DEF TellUnscheduled
<1>5. /\ told' = [told EXCEPT ![r] = @ \cup {"failed"}]
      /\ told' \in [Run -> SUBSET Verdict]
      /\ \A p \in Run : told[p] \subseteq told'[p]
  BY <1>3 DEF TellUnscheduled, IInv, TypeOK, Verdict
<1>6. /\ CarriesKept /\ TasksFollowTheChain' /\ HandedOn'
      /\ UNCHANGED <<phase, carries, attempts, awaited>>
  BY <1>1, QueueStays DEF queueVars
<1>7. RunsGrow /\ UntakenUnfiled' /\ BatchOrder' /\ SuccessIsTold'
  BY <1>1, <1>5 DEF IInv, RunsGrow, TakenUp, UntakenUnfiled, BatchOrder, SuccessIsTold
<1>8. FiledAfterVerdict'
  BY <1>1, <1>5 DEF IInv, FiledAfterVerdict
<1>9. \A g \in Handler : pc[g] # "idle" => DataKept(g)
  BY <1>1 DEF IInv, HandlerKnows, HandlerFacts, DataKept
<1>10. HandlerKnows' /\ AwaitedRun' /\ OneExecutor'
  BY <1>1, <1>6, <1>7, <1>9, HandlersStay
<1>11. RowsOfRequest'
  BY <1>1, <1>4 DEF IInv, TypeOK, RowsOfRequest
<1>12. MarkedInOrder'
  <2> SUFFICES ASSUME NEW c \in Batch
               PROVE  /\ request'[c] \in {"new", "created"} => marked'[c] = 0
                      /\ request'[c] \in {"unscheduling", "telling"} => marked'[c] < Size[c]
                      /\ request'[c] = "telling" => TakenUp(<<c, marked[c] + 1>>)'
                      /\ \A i \in 1..Size[c] : i <= marked'[c] => TakenUp(<<c, i>>)'
    BY DEF MarkedInOrder
  <2>1. CASE c = b
    <3>1. marked'[b] = marked[b] + 1 /\ request'[b] = q
      BY <1>1, <1>4 DEF IInv, TypeOK
    <3>2. q = "unscheduling" => marked[b] + 1 < Size[b]
      BY <1>2, <1>4
    <3>3. \A i \in 1..Size[b] : i <= marked[b] + 1 => i <= marked[b] \/ i = marked[b] + 1
      BY <1>2
    <3>4. \A i \in 1..Size[b] : i <= marked[b] + 1 => TakenUp(<<b, i>>)
      BY <1>2, <3>3 DEF IInv, MarkedInOrder
    <3> QED
      BY <1>1, <2>1, <3>1, <3>2, <3>4 DEF TakenUp
  <2>2. CASE c # b
    <3>1. marked'[c] = marked[c] /\ request'[c] = request[c]
      BY <1>1, <1>4, <2>2 DEF IInv, TypeOK
    <3> QED
      BY <1>1, <3>1 DEF IInv, MarkedInOrder, TakenUp
  <2> QED
    BY <2>1, <2>2
<1>13. TypeOK'
  <2>1. request' \in [Batch -> RequestState]
    BY <1>4 DEF IInv, TypeOK, RequestState
  <2>2. marked' \in [Batch -> Nat]
    BY <1>1, <1>2 DEF IInv, TypeOK
  <2> QED
    BY <1>1, <1>5, <1>6, <2>1, <2>2 DEF IInv, TypeOK, handlerVars
<1> QED
  BY <1>6, <1>7, <1>8, <1>10, <1>11, <1>12, <1>13 DEF IInv

-----------------------------------------------------------------------------

(* The initial states satisfy it. *)
LEMMA InitInvariant == Init => IInv
<1> SUFFICES ASSUME Init PROVE IInv
  OBVIOUS
<1> USE DEF Init
<1>1. TypeOK
  BY DispatchAssumption DEF TypeOK, Status, Terminal, RequestState, Phase, Location, Verdict
<1>2. RowsOfRequest
  BY RunElements DEF RowsOfRequest
<1>3. MarkedInOrder
  BY RunElements DEF MarkedInOrder
<1>4. TasksFollowTheChain
  BY DEF TasksFollowTheChain
<1>5. HandlerKnows /\ AwaitedRun /\ UntakenUnfiled
  BY DEF HandlerKnows, AwaitedRun, UntakenUnfiled
<1>6. OneExecutor
  BY DEF OneExecutor, Executes, Executing
<1>7. BatchOrder
  BY RunElements DEF BatchOrder, TakenUp
<1>8. HandedOn /\ FiledAfterVerdict /\ SuccessIsTold
  BY DEF HandedOn, FiledAfterVerdict, SuccessIsTold
<1> QED
  BY <1>1, <1>2, <1>3, <1>4, <1>5, <1>6, <1>7, <1>8 DEF IInv

(* Every step preserves it. *)
LEMMA NextInvariant == IInv /\ [Next]_vars => IInv'
<1> SUFFICES ASSUME IInv, [Next]_vars PROVE IInv'
  OBVIOUS
<1>1. ASSUME NEW b \in Batch, CreateRuns(b) \/ RequestStep(b) \/ RequestDies(b)
      PROVE  IInv'
  BY <1>1, CreateRunsStep, ScheduleStep, RequestFailsStep, MarkStep,
     TellUnscheduledStep DEF RequestStep
<1>2. ASSUME NEW t \in Task, Dispatch(t) \/ Duplicate(t)
      PROVE  IInv'
  BY <1>2, DeliveryStep
<1>3. ASSUME NEW h \in Handler, HandlerStep(h) \/ Overrun(h) \/ Abort(h)
      PROVE  IInv'
  BY <1>3, QuietStep, ProcessStep, TellStep, WriteStep, MoveStep, AdvanceStep,
     LeaveStep, OverrunStep DEF HandlerStep
<1>4. CASE UNCHANGED vars
  <2>1. UNCHANGED <<runVars, requestVars, queueVars, handlerVars, faults>>
    BY <1>4 DEF vars
  <2>2. /\ RunsGrow
        /\ UntakenUnfiled' /\ BatchOrder' /\ FiledAfterVerdict' /\ SuccessIsTold'
        /\ \A g \in Handler : pc[g] # "idle" => DataKept(g)
        /\ RowsOfRequest' /\ MarkedInOrder'
    BY <2>1, RunsStay, RequestsKeep DEF requestVars
  <2>3. CarriesKept /\ TasksFollowTheChain' /\ HandedOn'
    BY <2>1, QueueStays DEF runVars, queueVars
  <2>4. HandlerKnows' /\ AwaitedRun' /\ OneExecutor'
    BY <2>1, <2>2, <2>3, HandlersStay DEF queueVars
  <2>5. TypeOK'
    BY <2>1 DEF IInv, TypeOK, runVars, requestVars, queueVars, handlerVars
  <2> QED
    BY <2>2, <2>3, <2>4, <2>5 DEF IInv
<1> QED
  BY <1>1, <1>2, <1>3, <1>4 DEF Next, Rest

(* No step puts a run back that was taken up. *)
LEMMA NextTakesUp ==
    IInv /\ Next => \A r \in Run : TakenUp(r) => TakenUp(r)'
<1> SUFFICES ASSUME IInv, Next, NEW r \in Run, TakenUp(r) PROVE TakenUp(r)'
  OBVIOUS
<1>1. CASE UNCHANGED status
  BY <1>1 DEF TakenUp
<1>2. ASSUME NEW b \in Batch, CreateRuns(b) PROVE TakenUp(r)'
  BY <1>2 DEF CreateRuns, IInv, RowsOfRequest, TakenUp
<1>3. ASSUME NEW b \in Batch, MarkUnscheduled(b) PROVE TakenUp(r)'
  BY <1>3 DEF MarkUnscheduled, IInv, TypeOK, TakenUp
<1>4. ASSUME NEW h \in Handler, GiveUp(h) \/ Claim(h) \/ Start(h) \/ Settle(h)
      PROVE  TakenUp(r)'
  <2>1. pc[h] = "settle" => verdict[h] \in Verdict
    BY HandlerRun DEF HandlerFacts
  <2> QED
    BY <1>4, <2>1 DEF GiveUp, Claim, Start, Settle, IInv, TypeOK, TakenUp, Verdict
<1>5. ASSUME NEW b \in Batch,
             \/ Schedule(b) \/ ScheduleFails(b) \/ ScheduleLies(b)
             \/ TellUnscheduled(b) \/ RequestDies(b)
      PROVE  UNCHANGED status
  BY <1>5 DEF Schedule, ScheduleFails, ScheduleLies, TellUnscheduled, RequestDies, runVars
<1>6. ASSUME NEW t \in Task, Dispatch(t) \/ Duplicate(t) PROVE UNCHANGED status
  BY <1>6 DEF Dispatch, Duplicate, runVars
<1>7. ASSUME NEW h \in Handler,
             \/ Check(h) \/ Build(h) \/ BuildFails(h) \/ GiveUpNotify(h)
             \/ ClaimMisses(h) \/ Process(h) \/ Notify(h) \/ Move(h) \/ Advance(h)
             \/ Respond(h) \/ Overrun(h) \/ Abort(h)
      PROVE  UNCHANGED status
  BY <1>7 DEF Check, Build, BuildFails, GiveUpNotify, ClaimMisses, Process, Notify,
              Move, Advance, Respond, Overrun, Abort, runVars
<1>8. CASE Rest
  BY <1>8 DEF Rest, vars, runVars, TakenUp
<1> QED
  BY <1>1, <1>2, <1>3, <1>4, <1>5, <1>6, <1>7, <1>8 DEF Next, RequestStep, HandlerStep

-----------------------------------------------------------------------------
(* Who a step concerns *)

(* A handler's step concerns itself, its run and the queue. *)
LEMMA HandlerFrame ==
    ASSUME IInv, NEW h \in Handler, HandlerStep(h) \/ Overrun(h) \/ Abort(h)
    PROVE  /\ pc[h] # "idle"
           /\ UNCHANGED <<request, marked>>
           /\ \A g \in Handler : g # h =>
                  pc'[g] = pc[g] /\ job'[g] = job[g] /\ verdict'[g] = verdict[g]
           /\ \A r \in Run : r # RunOf(h) => status'[r] = status[r] /\ told'[r] = told[r]
<1> USE DEF runVars, requestVars, queueVars, handlerVars, Goto, Leave, IInv, TypeOK
<1>1. CASE \/ Check(h) \/ Build(h) \/ BuildFails(h) \/ GiveUp(h) \/ GiveUpNotify(h)
           \/ Claim(h) \/ ClaimMisses(h)
  BY <1>1 DEF Check, Build, BuildFails, GiveUp, GiveUpNotify, Claim, ClaimMisses
<1>2. CASE Start(h) \/ Process(h) \/ Notify(h) \/ Settle(h) \/ Move(h) \/ Advance(h)
  BY <1>2 DEF Start, Process, Notify, Settle, Move, Advance
<1>3. CASE Respond(h) \/ Abort(h) \/ Overrun(h)
  BY <1>3 DEF Respond, Abort, Overrun, AwaitedRun
<1> QED
  BY <1>1, <1>2, <1>3 DEF HandlerStep

(* A request's step concerns its batch, which has not been accepted, and    *)
(* the queue.                                                               *)
LEMMA RequestFrame ==
    ASSUME IInv, NEW b \in Batch, CreateRuns(b) \/ RequestStep(b) \/ RequestDies(b)
    PROVE  /\ request[b] # "accepted"
           /\ UNCHANGED <<handlerVars, awaited>>
           /\ \A c \in Batch : c # b => request'[c] = request[c] /\ marked'[c] = marked[c]
           /\ \A r \in Run : r[1] # b => status'[r] = status[r] /\ told'[r] = told[r]
<1> USE DEF runVars, requestVars, queueVars, handlerVars, IInv, TypeOK
<1>1. CASE CreateRuns(b) \/ Schedule(b) \/ ScheduleFails(b) \/ ScheduleLies(b) \/ RequestDies(b)
  BY <1>1 DEF CreateRuns, Schedule, ScheduleFails, ScheduleLies, RequestDies, Enqueue
<1>2. CASE MarkUnscheduled(b) \/ TellUnscheduled(b)
  <2>1. \A r \in Run : r[1] # b => r # <<b, marked[b] + 1>>
    OBVIOUS
  <2> QED
    BY <1>2, <2>1 DEF MarkUnscheduled, TellUnscheduled
<1> QED
  BY <1>1, <1>2 DEF RequestStep

(* A delivery starts an idle handler on a task and changes nothing else but *)
(* the queue.                                                               *)
LEMMA DeliveryFrame ==
    ASSUME IInv, NEW t \in Task, Dispatch(t) \/ Duplicate(t)
    PROVE  /\ UNCHANGED <<status, told, request, marked, carries, verdict>>
           /\ \E h \in Handler :
                  /\ pc[h] = "idle" /\ pc'[h] = "check" /\ job'[h] = t
                  /\ Dispatch(t) => awaited' = awaited \cup {h}
                  /\ \A g \in Handler : g # h => pc'[g] = pc[g] /\ job'[g] = job[g]
<1> DEFINE h == IdleHandler
<1>1. h \in Handler /\ pc[h] = "idle"
  BY IdleHandlerIsIdle DEF Dispatch, Duplicate
<1>2. /\ UNCHANGED <<status, told, request, marked, carries, verdict>>
      /\ pc' = [pc EXCEPT ![h] = "check"] /\ job' = [job EXCEPT ![h] = t]
      /\ Dispatch(t) => awaited' = awaited \cup {h}
  BY DEF Dispatch, Duplicate, Receive, runVars, requestVars, queueVars
<1> HIDE DEF h
<1> QED
  BY <1>1, <1>2 DEF IInv, TypeOK

(* Faults are only ever spent. *)
LEMMA FaultSpent ==
    ASSUME IInv, FaultsLeft, NEW kind \in FaultKind \ {"any"}, Spend(kind)
    PROVE  /\ \A k \in FaultKind : faults'[k] <= faults[k]
           /\ FaultsLeft'
           /\ faults'[kind] # MaxFaults[kind]
<1>1. \A k \in FaultKind : faults[k] \in Nat /\ MaxFaults[k] \in Nat /\ faults[k] <= MaxFaults[k]
  BY DispatchAssumption DEF IInv, TypeOK, FaultsLeft
<1>2. \A k \in FaultKind : faults'[k] = IF k \in {kind, "any"} THEN faults[k] - 1 ELSE faults[k]
  BY DEF Spend, IInv, TypeOK, FaultKind
<1> QED
  BY <1>1, <1>2 DEF FaultsLeft, FaultKind

(* What has not struck after a step had not struck before it, and did not   *)
(* strike in it.                                                            *)
LEMMA FaultsDrop ==
    ASSUME IInv, FaultsLeft, [Next]_vars
    PROVE  /\ FaultsLeft'
           /\ \A k \in FaultKind : faults'[k] = MaxFaults[k] => faults[k] = MaxFaults[k]
<1>1. CASE UNCHANGED faults
  BY <1>1 DEF FaultsLeft
<1>2. CASE \E kind \in FaultKind \ {"any"} : Spend(kind)
  <2>1. \A k \in FaultKind : faults'[k] <= faults[k] /\ FaultsLeft'
    BY <1>2, FaultSpent
  <2>2. \A k \in FaultKind : faults[k] \in Nat /\ MaxFaults[k] \in Nat /\ faults[k] <= MaxFaults[k]
    BY DispatchAssumption DEF IInv, TypeOK, FaultsLeft
  <2>3. \A k \in FaultKind : faults'[k] \in Int
    <3>1. PICK kind \in FaultKind \ {"any"} : Spend(kind)
      BY <1>2
    <3> QED
      BY <3>1, SpendType
  <2> QED
    BY <2>1, <2>2, <2>3 DEF FaultKind
<1>3. ASSUME NEW b \in Batch, CreateRuns(b) \/ RequestStep(b) \/ RequestDies(b)
      PROVE  UNCHANGED faults \/ \E kind \in FaultKind \ {"any"} : Spend(kind)
  BY <1>3 DEF CreateRuns, RequestStep, RequestDies, Schedule, ScheduleFails, ScheduleLies,
              MarkUnscheduled, TellUnscheduled, FaultKind
<1>4. ASSUME NEW t \in Task, Dispatch(t) \/ Duplicate(t)
      PROVE  UNCHANGED faults \/ \E kind \in FaultKind \ {"any"} : Spend(kind)
  BY <1>4 DEF Dispatch, Duplicate, FaultKind
<1>5. ASSUME NEW h \in Handler, HandlerStep(h) \/ Overrun(h) \/ Abort(h)
      PROVE  UNCHANGED faults \/ \E kind \in FaultKind \ {"any"} : Spend(kind)
  BY <1>5 DEF HandlerStep, Check, Build, BuildFails, GiveUp, GiveUpNotify, Claim, ClaimMisses, Start,
              Process, Notify, Settle, Move, Advance, Respond, Overrun, Abort, FaultKind
<1> QED
  BY <1>1, <1>2, <1>3, <1>4, <1>5 DEF Next, Rest, vars

-----------------------------------------------------------------------------
(* What holds until certain faults strike, one lemma per part *)

(* How far a step of a handler that is not given up changes what the queue  *)
(* waits for, and what it holds.                                            *)
LEMMA HandlerQueueFrame ==
    ASSUME IInv, NEW h \in Handler, HandlerStep(h) \/ Abort(h)
    PROVE  /\ awaited' = awaited \/ (awaited' = awaited \ {h} /\ pc'[h] = "idle")
           /\ \/ UNCHANGED carries
              \/ /\ Advance(h) /\ ~IsLast(RunOf(h))
                 /\ \E x \in Task : /\ phase[x] = "none" /\ carries[x] = None
                                    /\ phase' = [phase EXCEPT ![x] = "queued"]
                                    /\ carries' = [carries EXCEPT ![x] = NextRun(RunOf(h))]
<1> USE DEF queueVars, Goto, Leave
<1>1. CASE \/ Check(h) \/ Build(h) \/ BuildFails(h) \/ GiveUp(h) \/ GiveUpNotify(h)
           \/ Claim(h) \/ ClaimMisses(h)
  BY <1>1 DEF Check, Build, BuildFails, GiveUp, GiveUpNotify, Claim, ClaimMisses
<1>2. CASE Start(h) \/ Process(h) \/ Notify(h) \/ Settle(h) \/ Move(h)
  BY <1>2 DEF Start, Process, Notify, Settle, Move
<1>3. CASE Respond(h) \/ Abort(h)
  BY <1>3 DEF Respond, Abort, IInv, TypeOK
<1>4. CASE Advance(h)
  <2>1. CASE IsLast(RunOf(h))
    BY <1>4, <2>1 DEF Advance
  <2>2. CASE ~IsLast(RunOf(h))
    <3>1. Enqueue(NextRun(RunOf(h)))
      BY <1>4, <2>2 DEF Advance
    <3>2. FreshTask \in Task /\ phase[FreshTask] = "none"
      BY <3>1, FreshTaskIsFresh DEF Enqueue
    <3> QED
      BY <1>4, <2>2, <3>1, <3>2 DEF Enqueue, IInv, TasksFollowTheChain
  <2> QED
    BY <2>1, <2>2
<1> QED
  BY <1>1, <1>2, <1>3, <1>4 DEF HandlerStep

(* The first task of a batch comes with its 202, unless the scheduler lies. *)
LEMMA RequestQueueFrame ==
    ASSUME IInv, NEW b \in Batch, CreateRuns(b) \/ RequestStep(b) \/ RequestDies(b)
    PROVE  \/ UNCHANGED <<phase, carries>>
           \/ /\ \/ request[b] = "created" /\ request'[b] = "accepted"
                 \/ Spend("lie")
              /\ \E x \in Task : /\ phase[x] = "none" /\ carries[x] = None
                                 /\ phase' = [phase EXCEPT ![x] = "queued"]
                                 /\ carries' = [carries EXCEPT ![x] = <<b, 1>>]
<1>1. CASE Enqueue(<<b, 1>>)
  <2>1. FreshTask \in Task /\ phase[FreshTask] = "none"
    BY <1>1, FreshTaskIsFresh DEF Enqueue
  <2>2. \E x \in Task : /\ phase[x] = "none" /\ carries[x] = None
                        /\ phase' = [phase EXCEPT ![x] = "queued"]
                        /\ carries' = [carries EXCEPT ![x] = <<b, 1>>]
    BY <1>1, <2>1 DEF Enqueue, IInv, TasksFollowTheChain
  <2>3. CASE Schedule(b)
    BY <2>2, <2>3 DEF Schedule, IInv, TypeOK
  <2>4. CASE ScheduleLies(b)
    BY <2>2, <2>4 DEF ScheduleLies
  <2>5. CASE CreateRuns(b) \/ ScheduleFails(b) \/ RequestDies(b) \/ MarkUnscheduled(b) \/ TellUnscheduled(b)
    BY <2>5 DEF CreateRuns, ScheduleFails, RequestDies, MarkUnscheduled, TellUnscheduled, queueVars
  <2> QED
    BY <2>3, <2>4, <2>5 DEF RequestStep
<1>2. CASE ~Enqueue(<<b, 1>>)
  BY <1>2 DEF RequestStep, CreateRuns, Schedule, ScheduleLies, ScheduleFails, RequestDies,
              MarkUnscheduled, TellUnscheduled, queueVars
<1> QED
  BY <1>1, <1>2

(* The queue never waits for more handlers than it may dispatch at once. *)
LEMMA QueueLimitStep ==
    ASSUME IInv, QueueLimit, [Next]_vars
    PROVE  QueueLimit'
<1>1. /\ IsFiniteSet(awaited) /\ Cardinality(awaited) \in Nat
      /\ Cardinality(awaited) <= MaxConcurrent /\ MaxConcurrent \in Nat
  BY FS_CardinalityType, DispatchAssumption DEF QueueLimit
<1>2. ASSUME NEW h, awaited' = awaited \ {h} PROVE QueueLimit'
  BY <1>1, <1>2, FS_RemoveElement DEF QueueLimit
<1>3. CASE UNCHANGED awaited
  BY <1>3 DEF QueueLimit
<1>4. ASSUME NEW t \in Task, Dispatch(t) PROVE QueueLimit'
  <2>1. PICK h : awaited' = awaited \cup {h} /\ Cardinality(awaited) < MaxConcurrent
    BY <1>4 DEF Dispatch
  <2> QED
    BY <1>1, <2>1, FS_AddElement DEF QueueLimit
<1>5. ASSUME NEW t \in Task, Duplicate(t) PROVE UNCHANGED awaited
  BY <1>5 DEF Duplicate, queueVars
<1>6. ASSUME NEW h \in Handler, Overrun(h) PROVE awaited' = awaited \ {h}
  BY <1>6 DEF Overrun
<1> QED
  BY <1>2, <1>3, <1>4, <1>5, <1>6, RequestFrame, HandlerQueueFrame DEF Next, Rest, vars, queueVars

(* A handler the queue has stopped waiting for was overrun, or the delivery *)
(* was one too many.                                                        *)
LEMMA AllAwaitedStep ==
    ASSUME IInv, FaultsLeft, AllAwaited, [Next]_vars
    PROVE  AllAwaited'
<1> SUFFICES ASSUME Unspent({"overrun", "duplicate"})', NEW h \in Handler, pc'[h] # "idle"
             PROVE  h \in awaited'
  BY DEF AllAwaited
<1>1. /\ faults'["overrun"] = MaxFaults["overrun"] /\ faults'["duplicate"] = MaxFaults["duplicate"]
      /\ \A g \in Handler : pc[g] # "idle" => g \in awaited
  BY FaultsDrop DEF Unspent, AllAwaited, FaultKind
<1>2. ASSUME NEW b \in Batch, CreateRuns(b) \/ RequestStep(b) \/ RequestDies(b) PROVE h \in awaited'
  BY <1>1, <1>2, RequestFrame DEF handlerVars
<1>3. ASSUME NEW t \in Task, Dispatch(t) PROVE h \in awaited'
  BY <1>1, <1>3, DeliveryFrame
<1>4. ASSUME NEW t \in Task, Duplicate(t) PROVE FALSE
  BY <1>1, <1>4, FaultSpent DEF Duplicate, FaultKind
<1>5. ASSUME NEW g \in Handler, HandlerStep(g) \/ Abort(g) PROVE h \in awaited'
  BY <1>1, <1>5, HandlerFrame, HandlerQueueFrame
<1>6. ASSUME NEW g \in Handler, Overrun(g) PROVE FALSE
  BY <1>1, <1>6, FaultSpent DEF Overrun, FaultKind
<1>7. CASE UNCHANGED vars
  BY <1>1, <1>7 DEF vars, queueVars, handlerVars
<1> QED
  BY <1>2, <1>3, <1>4, <1>5, <1>6, <1>7 DEF Next, Rest

(* A task exists only for a batch whose request was answered 202, unless a  *)
(* scheduler has lied.                                                      *)
LEMMA TasksAcceptedStep ==
    ASSUME IInv, FaultsLeft, TasksAccepted, [Next]_vars
    PROVE  TasksAccepted'
<1> SUFFICES ASSUME Unspent({"lie"})', NEW t \in Task, carries'[t] # None
             PROVE  request'[carries'[t][1]] = "accepted"
  BY DEF TasksAccepted
<1>1. /\ faults'["lie"] = MaxFaults["lie"]
      /\ \A u \in Task : carries[u] # None => /\ carries[u] \in Run /\ carries[u][1] \in Batch
                                              /\ request[carries[u][1]] = "accepted"
  BY FaultsDrop, RunElements DEF Unspent, TasksAccepted, FaultKind, IInv, TypeOK
<1>2. ASSUME NEW b \in Batch, CreateRuns(b) \/ RequestStep(b) \/ RequestDies(b)
      PROVE  request'[carries'[t][1]] = "accepted"
  <2>1. ~Spend("lie")
    BY <1>1, FaultSpent DEF FaultKind
  <2>2. request[b] # "accepted" /\ \A c \in Batch : c # b => request'[c] = request[c]
    BY <1>2, RequestFrame
  <2>3. CASE UNCHANGED carries
    BY <1>1, <2>2, <2>3
  <2>4. CASE /\ request'[b] = "accepted"
             /\ \E x \in Task : carries' = [carries EXCEPT ![x] = <<b, 1>>]
    BY <1>1, <2>2, <2>4 DEF IInv, TypeOK
  <2> QED
    BY <1>2, <2>1, <2>3, <2>4, RequestQueueFrame
<1>3. ASSUME NEW u \in Task, Dispatch(u) \/ Duplicate(u) PROVE request'[carries'[t][1]] = "accepted"
  BY <1>1, <1>3, DeliveryFrame
<1>4. ASSUME NEW h \in Handler, HandlerStep(h) \/ Abort(h) PROVE request'[carries'[t][1]] = "accepted"
  <2>1. pc[h] # "idle" /\ UNCHANGED request
    BY <1>4, HandlerFrame
  <2>2. RunOf(h) \in Run /\ request[RunOf(h)[1]] = "accepted"
    BY <1>1, <2>1, HandlerRun
  <2>3. ASSUME ~IsLast(RunOf(h)), NEW x \in Task, carries' = [carries EXCEPT ![x] = NextRun(RunOf(h))]
        PROVE  request'[carries'[t][1]] = "accepted"
    BY <1>1, <2>1, <2>2, <2>3, NextRunElement DEF IInv, TypeOK
  <2> QED
    BY <1>1, <1>4, <2>1, <2>3, HandlerQueueFrame
<1>5. ASSUME NEW h \in Handler, Overrun(h) PROVE request'[carries'[t][1]] = "accepted"
  BY <1>1, <1>5 DEF Overrun, requestVars
<1>6. CASE UNCHANGED vars
  BY <1>1, <1>6 DEF vars, queueVars, requestVars
<1> QED
  BY <1>2, <1>3, <1>4, <1>5, <1>6 DEF Next, Rest

(* Between its delivery and its end a handler holds on to its task, unless  *)
(* it advances the chain.                                                   *)
LEMMA HandlerGoesOn ==
    ASSUME IInv, NEW h \in Handler, HandlerStep(h), ~Advance(h), ~Respond(h)
    PROVE  /\ UNCHANGED <<phase, carries, job>>
           /\ pc[h] \notin {"idle", "respond"} /\ pc'[h] \notin {"idle", "respond"}
<1> USE DEF queueVars, Goto, IInv, TypeOK
<1>1. CASE \/ Check(h) \/ Build(h) \/ BuildFails(h) \/ GiveUp(h) \/ GiveUpNotify(h)
           \/ Claim(h) \/ ClaimMisses(h)
  BY <1>1 DEF Check, Build, BuildFails, GiveUp, GiveUpNotify, Claim, ClaimMisses
<1>2. CASE Start(h) \/ Process(h) \/ Notify(h) \/ Settle(h) \/ Move(h)
  BY <1>2 DEF Start, Process, Notify, Settle, Move
<1> QED
  BY <1>1, <1>2 DEF HandlerStep

(* No repetition, death or lie: one handler a task, and one open task a     *)
(* batch, since only the task that is advanced brings another one about.    *)
LEMMA OneOpenTaskStep ==
    ASSUME IInv, FaultsLeft, TasksAccepted, OneOpenTask, [Next]_vars
    PROVE  OneOpenTask'
<1> DEFINE Single == /\ \A h \in Handler : pc[h] # "idle" => phase[job[h]] = "dispatched"
                     /\ \A g, h \in Handler :
                            pc[g] # "idle" /\ pc[h] # "idle" /\ job[g] = job[h] => g = h
                     /\ \A t, u \in Task :
                            Open(t) /\ Open(u) /\ carries[t][1] = carries[u][1] => t = u
<1> SUFFICES ASSUME Unspent({"overrun", "duplicate", "abort", "lie"})'
             PROVE  Single'
  BY DEF OneOpenTask
<1>1. \A k \in {"overrun", "duplicate", "abort", "lie"} :
          faults'[k] = MaxFaults[k] /\ faults[k] = MaxFaults[k]
  BY FaultsDrop DEF Unspent, FaultKind
<1>2. Single
  BY <1>1 DEF OneOpenTask, Unspent
<1>3. \A h \in Handler : pc[h] # "idle" => job[h] \in Task
  BY HandlerRun
<1>4. \A t \in Task : Open(t) => /\ phase[t] \in {"queued", "dispatched"} /\ carries[t] \in Run
                                 /\ request[carries[t][1]] = "accepted"
  <2> SUFFICES ASSUME NEW t \in Task, Open(t)
               PROVE  /\ phase[t] \in {"queued", "dispatched"} /\ carries[t] \in Run
                      /\ request[carries[t][1]] = "accepted"
    OBVIOUS
  <2>1. phase[t] \in {"queued", "dispatched"}
    BY <1>2 DEF Open
  <2>2. carries[t] # None
    BY <2>1 DEF IInv, TasksFollowTheChain
  <2> QED
    BY <1>1, <2>1, <2>2 DEF TasksAccepted, Unspent, IInv, TypeOK
<1>5. ASSUME UNCHANGED <<pc, job, phase, carries>> PROVE Single'
  BY <1>2, <1>5 DEF Open
<1>6. ASSUME NEW b \in Batch, CreateRuns(b) \/ RequestStep(b) \/ RequestDies(b) PROVE Single'
  <2>1. ~Spend("lie") /\ UNCHANGED <<pc, job>>
    BY <1>1, <1>6, FaultSpent, RequestFrame DEF FaultKind, handlerVars
  <2>2. ASSUME request[b] = "created", NEW x \in Task, phase[x] = "none",
               phase' = [phase EXCEPT ![x] = "queued"], carries' = [carries EXCEPT ![x] = <<b, 1>>]
        PROVE  Single'
    <3>1. \A t \in Task : /\ phase'[t] = IF t = x THEN "queued" ELSE phase[t]
                          /\ carries'[t] = IF t = x THEN <<b, 1>> ELSE carries[t]
      BY <2>2 DEF IInv, TypeOK
    <3>2. \A h \in Handler : pc[h] # "idle" => job[h] # x
      BY <1>2, <2>2
    <3>3. \A t \in Task : Open(t)' <=> t = x \/ Open(t)
      BY <2>1, <3>1, <3>2 DEF Open
    <3>4. \A t \in Task : Open(t) => t # x /\ carries[t][1] # b
      BY <1>4, <2>2
    <3>5. \A t, u \in Task : Open(t)' /\ Open(u)' /\ carries'[t][1] = carries'[u][1] => t = u
      BY <1>2, <3>1, <3>3, <3>4
    <3> QED
      BY <1>2, <1>3, <2>1, <3>1, <3>2, <3>5
  <2> QED
    BY <1>5, <1>6, <2>1, <2>2, RequestQueueFrame
<1>7. ASSUME NEW t \in Task, Dispatch(t) PROVE Single'
  <2>1. PICK h \in Handler : /\ pc[h] = "idle" /\ pc'[h] = "check" /\ job'[h] = t
                             /\ \A g \in Handler : g # h => pc'[g] = pc[g] /\ job'[g] = job[g]
    BY <1>7, DeliveryFrame
  <2>2. UNCHANGED carries /\ phase[t] = "queued"
        /\ \A u \in Task : phase'[u] = IF u = t THEN "dispatched" ELSE phase[u]
    BY <1>7 DEF Dispatch, IInv, TypeOK
  <2>3. \A g \in Handler : pc[g] # "idle" => job[g] # t
    BY <1>2, <2>2
  <2>4. \A u \in Task : Open(u)' => Open(u)
    BY <2>1, <2>2 DEF Open
  <2> QED
    BY <1>2, <1>3, <2>1, <2>2, <2>3, <2>4
<1>8. ASSUME NEW t \in Task, Duplicate(t) PROVE FALSE
  BY <1>1, <1>8, FaultSpent DEF Duplicate, FaultKind
<1>9. ASSUME NEW h \in Handler, Overrun(h) \/ Abort(h) PROVE FALSE
  BY <1>1, <1>9, FaultSpent DEF Overrun, Abort, FaultKind
<1>10. ASSUME NEW h \in Handler, HandlerStep(h) PROVE Single'
  <2>1. /\ pc[h] # "idle" /\ job[h] \in Task
        /\ \A g \in Handler : g # h => pc'[g] = pc[g] /\ job'[g] = job[g]
    BY <1>3, <1>10, HandlerFrame
  <2>2. CASE ~Advance(h) /\ ~Respond(h)
    <3>1. /\ UNCHANGED <<phase, carries, job>>
          /\ pc[h] \notin {"idle", "respond"} /\ pc'[h] \notin {"idle", "respond"}
      BY <1>10, <2>2, HandlerGoesOn
    <3>2. \A u \in Task : Open(u)' <=> Open(u)
      BY <2>1, <3>1 DEF Open
    <3> QED
      BY <1>2, <2>1, <3>1, <3>2
  <2>3. CASE Advance(h)
    <3>1. UNCHANGED job /\ pc[h] = "advance" /\ pc'[h] = "respond"
      BY <2>3 DEF Advance, Goto, IInv, TypeOK
    <3>2. Open(job[h]) /\ phase[job[h]] = "dispatched"
      BY <1>2, <2>1, <3>1 DEF Open
    <3>3. CASE UNCHANGED <<phase, carries>>
      <4>1. \A u \in Task : Open(u)' => Open(u)
        BY <2>1, <3>1, <3>3 DEF Open
      <4> QED
        BY <1>2, <2>1, <3>1, <3>3, <4>1
    <3>4. ASSUME NEW x \in Task, phase[x] = "none", phase' = [phase EXCEPT ![x] = "queued"],
                 carries' = [carries EXCEPT ![x] = NextRun(RunOf(h))]
          PROVE  Single'
      <4>1. \A t \in Task : /\ phase'[t] = IF t = x THEN "queued" ELSE phase[t]
                            /\ carries'[t] = IF t = x THEN NextRun(RunOf(h)) ELSE carries[t]
        BY <3>4 DEF IInv, TypeOK
      <4>2. NextRun(RunOf(h))[1] = carries[job[h]][1]
        BY DEF NextRun, RunOf
      <4>3. \A g \in Handler : pc[g] # "idle" => job[g] # x
        BY <1>2, <3>4
      <4>4. \A u \in Task : Open(u)' => u = x \/ (Open(u) /\ u # job[h])
        <5> SUFFICES ASSUME NEW u \in Task, Open(u)', u # x PROVE Open(u) /\ u # job[h]
          OBVIOUS
        <5>1. CASE phase'[u] = "queued"
          BY <3>2, <4>1, <5>1 DEF Open
        <5>2. ASSUME NEW g \in Handler, job'[g] = u, pc'[g] \notin {"idle", "respond"}
              PROVE  Open(u) /\ u # job[h]
          <6>1. g # h /\ job[g] = u /\ pc[g] \notin {"idle", "respond"}
            BY <2>1, <3>1, <5>2
          <6> QED
            BY <1>2, <2>1, <6>1 DEF Open
        <5> QED
          BY <5>1, <5>2 DEF Open
      <4>5. \A u \in Task : Open(u) /\ u # job[h] => carries[u][1] # carries[job[h]][1]
        BY <1>2, <2>1, <3>2
      <4>6. \A t, u \in Task : Open(t)' /\ Open(u)' /\ carries'[t][1] = carries'[u][1] => t = u
        BY <1>2, <4>1, <4>2, <4>4, <4>5
      <4>7. \A g \in Handler : pc'[g] # "idle" => pc[g] # "idle" /\ job'[g] = job[g]
        BY <2>1, <3>1
      <4>8. \A g \in Handler : pc'[g] # "idle" => phase'[job'[g]] = "dispatched"
        BY <1>2, <1>3, <4>1, <4>3, <4>7
      <4> QED
        BY <1>2, <4>6, <4>7, <4>8
    <3> QED
      <4>1. UNCHANGED <<phase, carries>> \/ Enqueue(NextRun(RunOf(h)))
        BY <2>3 DEF Advance, queueVars
      <4>2. CASE Enqueue(NextRun(RunOf(h)))
        <5>1. FreshTask \in Task /\ phase[FreshTask] = "none"
          BY <4>2, FreshTaskIsFresh DEF Enqueue
        <5> QED
          BY <3>4, <4>2, <5>1 DEF Enqueue
      <4> QED
        BY <3>3, <4>1, <4>2
  <2>4. CASE Respond(h)
    <3>1. /\ pc'[h] = "idle" /\ UNCHANGED carries
          /\ \A u \in Task : u # job[h] => phase'[u] = phase[u]
          /\ \A u \in Task : phase'[u] = "queued" => phase[u] = "queued"
      BY <2>4 DEF Respond, Leave, IInv, TypeOK
    <3>2. \A g \in Handler : pc'[g] # "idle" =>
              g # h /\ pc[g] # "idle" /\ job'[g] = job[g] /\ job[g] # job[h] /\ job[g] \in Task
      BY <1>2, <1>3, <2>1, <3>1
    <3>3. \A u \in Task : Open(u)' => Open(u)
      BY <2>1, <3>1 DEF Open
    <3> QED
      BY <1>2, <3>1, <3>2, <3>3
  <2> QED
    BY <2>2, <2>3, <2>4
<1> QED
  BY <1>5, <1>6, <1>7, <1>8, <1>9, <1>10 DEF Next, Rest, vars, queueVars, handlerVars

(* Who is told something has a run that was taken up. *)
LEMMA UntakenUntoldStep ==
    ASSUME IInv, UntakenUntold, [Next]_vars
    PROVE  UntakenUntold'
<1> SUFFICES ASSUME NEW r \in Run, ~TakenUp(r)'
             PROVE  told'[r] = {}
  BY DEF UntakenUntold
<1>1. CASE UNCHANGED vars
  BY <1>1 DEF vars, runVars, UntakenUntold, TakenUp
<1>2. CASE Next
  <2>1. ~TakenUp(r) /\ told[r] = {}
    BY <1>2, NextTakesUp DEF UntakenUntold
  <2>2. ASSUME NEW b \in Batch, CreateRuns(b) \/ RequestStep(b) \/ RequestDies(b)
        PROVE  told'[r] = told[r]
    <3>1. CASE TellUnscheduled(b)
      <4>1. r # <<b, marked[b] + 1>>
        BY <2>1, <3>1 DEF TellUnscheduled, IInv, MarkedInOrder
      <4> QED
        BY <3>1, <4>1 DEF TellUnscheduled, IInv, TypeOK
    <3>2. CASE ~TellUnscheduled(b)
      BY <2>2, <3>2 DEF CreateRuns, RequestStep, RequestDies, Schedule, ScheduleFails, ScheduleLies,
                        MarkUnscheduled, runVars
    <3> QED
      BY <3>1, <3>2
  <2>3. ASSUME NEW t \in Task, Dispatch(t) \/ Duplicate(t) PROVE told'[r] = told[r]
    BY <2>3, DeliveryFrame
  <2>4. ASSUME NEW h \in Handler, HandlerStep(h) \/ Overrun(h) \/ Abort(h)
        PROVE  told'[r] = told[r]
    <3>1. CASE GiveUpNotify(h) \/ Notify(h)
      <4>1. TakenUp(RunOf(h))
        BY <3>1, HandlerRun DEF GiveUpNotify, Notify, HandlerFacts, Executing
      <4> QED
        BY <2>1, <2>4, <4>1, HandlerFrame
    <3>2. CASE ~(GiveUpNotify(h) \/ Notify(h))
      BY <2>4, <3>2 DEF HandlerStep, Check, Build, BuildFails, GiveUp, Claim, ClaimMisses, Start,
              Process, Settle, Move, Advance, Respond, Overrun, Abort, runVars
    <3> QED
      BY <3>1, <3>2
  <2>5. CASE Rest
    BY <2>1, <2>5 DEF Rest, vars, runVars
  <2> QED
    BY <1>2, <2>1, <2>2, <2>3, <2>4, <2>5 DEF Next
<1> QED
  BY <1>1, <1>2

(* What a handler writes is of an accepted batch, so an endpoint that is    *)
(* still at work on its own finds it as it left it.                         *)
LEMMA EndpointOwnsStep ==
    ASSUME IInv, FaultsLeft, TasksAccepted, UntakenUntold, EndpointOwns, [Next]_vars
    PROVE  EndpointOwns'
<1> DEFINE Busy(b) == request[b] \in {"created", "unscheduling", "telling"}
           Row(b, i) == IF request[b] = "telling" /\ i = marked[b] + 1 THEN "failed" ELSE "pending"
           Own(b, i) == /\ Busy(b) /\ i > marked[b] => status[<<b, i>>] = Row(b, i)
                        /\ request[b] = "telling" /\ i = marked[b] + 1 => told[<<b, i>>] = {}
<1> SUFFICES ASSUME Unspent({"lie"})', NEW b \in Batch, NEW i \in 1..Size[b]
             PROVE  Own(b, i)'
  BY DEF EndpointOwns
<1>1. faults'["lie"] = MaxFaults["lie"] /\ faults["lie"] = MaxFaults["lie"]
  BY FaultsDrop DEF Unspent, FaultKind
<1>2. /\ \A j \in 1..Size[b] : Own(b, j)
      /\ \A t \in Task : carries[t] # None => request[carries[t][1]] = "accepted"
  BY <1>1 DEF EndpointOwns, TasksAccepted, Unspent
<1>3. /\ <<b, i>> \in Run /\ <<b, i>>[1] = b /\ <<b, i>>[2] = i
      /\ marked[b] \in Nat /\ i \in Nat /\ Size[b] \in Nat
  <2>1. Size[b] \in Nat /\ <<b, i>> \in Run
    BY RunElements
  <2>2. marked[b] \in Nat
    BY DEF IInv, TypeOK
  <2> QED
    BY <2>1, <2>2
<1>4. ASSUME request'[b] = request[b], marked'[b] = marked[b],
             status'[<<b, i>>] = status[<<b, i>>], told'[<<b, i>>] = told[<<b, i>>]
      PROVE  Own(b, i)'
  BY <1>2, <1>4
<1>5. ASSUME NEW c \in Batch, c # b, CreateRuns(c) \/ RequestStep(c) \/ RequestDies(c)
      PROVE  Own(b, i)'
  BY <1>3, <1>4, <1>5, RequestFrame
<1>6. CASE CreateRuns(b)
  <2>1. /\ status'[<<b, i>>] = "pending" /\ marked'[b] = 0 /\ request'[b] = "created"
    BY <1>3, <1>6 DEF CreateRuns, IInv, TypeOK, MarkedInOrder
  <2> QED
    BY <2>1
<1>7. CASE Schedule(b) \/ RequestDies(b)
  <2>1. request'[b] \in {"accepted", "dead"}
    BY <1>7 DEF Schedule, RequestDies, IInv, TypeOK
  <2> QED
    BY <2>1
<1>8. CASE ScheduleLies(b)
  BY <1>1, <1>8, FaultSpent DEF ScheduleLies, FaultKind
<1>9. CASE ScheduleFails(b)
  <2>1. request[b] = "created" /\ request'[b] = "unscheduling" /\ UNCHANGED <<status, told, marked>>
    BY <1>9 DEF ScheduleFails, IInv, TypeOK, runVars
  <2> QED
    BY <1>2, <2>1
<1>10. CASE MarkUnscheduled(b)
  <2>1. /\ request[b] = "unscheduling" /\ request'[b] = "telling" /\ UNCHANGED <<told, marked>>
        /\ status' = [status EXCEPT ![<<b, marked[b] + 1>>] = "failed"]
    BY <1>10 DEF MarkUnscheduled, IInv, TypeOK
  <2>2. CASE i = marked[b] + 1
    <3>1. status'[<<b, i>>] = "failed"
      BY <1>3, <2>1, <2>2 DEF IInv, TypeOK
    <3>2. told[<<b, i>>] = {}
      BY <1>2, <1>3, <2>1, <2>2 DEF UntakenUntold, TakenUp
    <3> QED
      BY <2>1, <2>2, <3>1, <3>2
  <2>3. CASE i # marked[b] + 1
    <3>1. <<b, i>> # <<b, marked[b] + 1>>
      BY <2>3
    <3>2. status'[<<b, i>>] = status[<<b, i>>]
      BY <1>3, <2>1, <3>1 DEF IInv, TypeOK
    <3> QED
      BY <1>2, <2>1, <2>3, <3>2
  <2> QED
    BY <2>2, <2>3
<1>11. CASE TellUnscheduled(b)
  <2>1. /\ request[b] = "telling" /\ request'[b] \in {"rejected", "unscheduling"}
        /\ marked'[b] = marked[b] + 1 /\ UNCHANGED status
    BY <1>11 DEF TellUnscheduled, IInv, TypeOK
  <2> QED
    BY <1>2, <1>3, <2>1
<1>12. ASSUME NEW t \in Task, Dispatch(t) \/ Duplicate(t) PROVE Own(b, i)'
  BY <1>4, <1>12, DeliveryFrame
<1>13. ASSUME NEW h \in Handler, HandlerStep(h) \/ Overrun(h) \/ Abort(h) PROVE Own(b, i)'
  <2>1. /\ UNCHANGED <<request, marked>> /\ pc[h] # "idle"
        /\ \A r \in Run : r # RunOf(h) => status'[r] = status[r] /\ told'[r] = told[r]
    BY <1>13, HandlerFrame
  <2>2. request[RunOf(h)[1]] = "accepted"
    BY <1>2, <2>1, HandlerRun
  <2>3. CASE ~Busy(b)
    BY <2>1, <2>3
  <2>4. CASE Busy(b)
    BY <1>3, <1>4, <2>1, <2>2, <2>4
  <2> QED
    BY <2>3, <2>4
<1>14. CASE UNCHANGED vars
  BY <1>4, <1>14 DEF vars, runVars, requestVars
<1> QED
  BY <1>5, <1>6, <1>7, <1>8, <1>9, <1>10, <1>11, <1>12, <1>13, <1>14 DEF Next, Rest, RequestStep

(* What a handler knows that alone writes of its run. *)
Owns(h) ==
    /\ pc[h] \notin {"giveup", "giveup_notify"}
    /\ pc[h] \in {"start", "process", "notify", "settle"} => status[RunOf(h)] = "in_progress"
    /\ pc[h] \in {"start", "process", "notify"} => told[RunOf(h)] = {}
    /\ pc[h] \in {"settle", "move"} => told[RunOf(h)] = {verdict[h]}
    /\ pc[h] = "move" => status[RunOf(h)] = verdict[h]

(* A handler beside the executor of its run writes nothing of it, as long   *)
(* as none is given up.                                                     *)
LEMMA BystanderStep ==
    ASSUME IInv, NEW g \in Handler, NEW h \in Handler, g # h,
           pc[g] \notin {"giveup", "giveup_notify"},
           Executes(h), RunOf(g) = RunOf(h), HandlerStep(g) \/ Abort(g)
    PROVE  UNCHANGED <<status, told>>
<1>1. ~Executes(g)
  BY DEF IInv, OneExecutor
<1>2. TakenUp(RunOf(h))
  BY HandlerRun DEF HandlerFacts, Executes, Executing
<1>3. ~Claim(g)
  BY <1>2 DEF Claim, TakenUp
<1> QED
  BY <1>1, <1>3 DEF HandlerStep, Abort, Check, Build, BuildFails, GiveUp, GiveUpNotify, ClaimMisses,
                    Start, Process, Notify, Settle, Move, Advance, Respond, runVars, Executes, Executing

(* Its own steps take it from one of these facts to the next.               *)
LEMMA ExecutorStep ==
    ASSUME IInv, UntakenUntold, NEW h \in Handler, Owns(h), ~BuildFails(h),
           HandlerStep(h) \/ Abort(h)
    PROVE  Owns(h)'
<1>1. pc[h] # "idle" /\ job[h] \in Task /\ RunOf(h) \in Run /\ HandlerFacts(h)
  BY HandlerFrame, HandlerRun
<1>2. CASE Check(h) \/ Build(h) \/ ClaimMisses(h) \/ Move(h) \/ Advance(h) \/ Respond(h) \/ Abort(h)
  <2>1. pc'[h] \in {"build", "claim", "advance", "respond", "idle"}
    BY <1>2 DEF Check, Build, ClaimMisses, Move, Advance, Respond, Abort, Goto, Leave, IInv, TypeOK
  <2> QED
    BY <2>1 DEF Owns
<1>3. CASE GiveUp(h) \/ GiveUpNotify(h)
  BY <1>3 DEF Owns, GiveUp, GiveUpNotify
<1>4. CASE Claim(h)
  <2>1. told[RunOf(h)] = {}
    BY <1>1, <1>4 DEF Claim, UntakenUntold, TakenUp
  <2> QED
    BY <1>1, <1>4, <2>1 DEF Claim, Goto, Owns, RunOf, IInv, TypeOK, queueVars
<1>5. CASE Start(h)
  BY <1>1, <1>5 DEF Start, Goto, Owns, RunOf, IInv, TypeOK, queueVars
<1>6. CASE Process(h)
  BY <1>1, <1>6 DEF Process, Goto, Owns, RunOf, IInv, TypeOK, queueVars, runVars
<1>7. CASE Notify(h)
  BY <1>1, <1>7 DEF Notify, Goto, Owns, RunOf, IInv, TypeOK, queueVars
<1>8. CASE Settle(h)
  BY <1>1, <1>8 DEF Settle, Goto, Owns, RunOf, IInv, TypeOK, queueVars
<1> QED
  BY <1>2, <1>3, <1>4, <1>5, <1>6, <1>7, <1>8 DEF HandlerStep

(* Nobody else writes of a run that is being executed: not another handler, *)
(* as OneExecutor says, and not the endpoint, whose batch has no task yet.  *)
LEMMA ExecutorOwnsStep ==
    ASSUME IInv, FaultsLeft, TasksAccepted, UntakenUntold, ExecutorOwns, [Next]_vars
    PROVE  ExecutorOwns'
<1> SUFFICES ASSUME Unspent({"vanish", "lie"})', NEW h \in Handler
             PROVE  Owns(h)'
  BY DEF ExecutorOwns, Owns
<1>1. \A k \in {"vanish", "lie"} : faults'[k] = MaxFaults[k] /\ faults[k] = MaxFaults[k]
  BY FaultsDrop DEF Unspent, FaultKind
<1>2. /\ \A g \in Handler : Owns(g)
      /\ \A t \in Task : carries[t] # None => request[carries[t][1]] = "accepted"
  BY <1>1 DEF ExecutorOwns, Owns, TasksAccepted, Unspent
<1>3. ASSUME pc'[h] = pc[h], job'[h] = job[h], verdict'[h] = verdict[h],
             Executes(h) => /\ carries'[job[h]] = carries[job[h]]
                            /\ status'[RunOf(h)] = status[RunOf(h)] /\ told'[RunOf(h)] = told[RunOf(h)]
      PROVE  Owns(h)'
  <2>1. Executes(h) => RunOf(h)' = RunOf(h)
    BY <1>3 DEF RunOf
  <2>2. pc[h] \in {"start", "process", "notify", "settle", "move"} <=> Executes(h)
    BY DEF Executes, Executing
  <2> QED
    BY <1>2, <1>3, <2>1, <2>2 DEF Owns
<1>4. Executes(h) => /\ pc[h] # "idle" /\ job[h] \in Task /\ RunOf(h) \in Run
                     /\ carries[job[h]] = RunOf(h) /\ RunOf(h) # None
                     /\ request[RunOf(h)[1]] = "accepted"
  BY <1>2, HandlerRun DEF Executes, Executing
<1>5. ASSUME NEW b \in Batch, CreateRuns(b) \/ RequestStep(b) \/ RequestDies(b) PROVE Owns(h)'
  <2>1. /\ UNCHANGED <<pc, job, verdict>> /\ request[b] # "accepted"
        /\ \A r \in Run : r[1] # b => status'[r] = status[r] /\ told'[r] = told[r]
    BY <1>5, RequestFrame DEF handlerVars
  <2>2. \A t \in Task : carries[t] # None => carries'[t] = carries[t]
    BY <1>5, RequestQueueFrame DEF IInv, TypeOK
  <2> QED
    BY <1>3, <1>4, <2>1, <2>2
<1>6. ASSUME NEW t \in Task, Dispatch(t) \/ Duplicate(t) PROVE Owns(h)'
  <2>1. /\ UNCHANGED <<status, told, carries, verdict>>
        /\ pc'[h] = "check" \/ (pc'[h] = pc[h] /\ job'[h] = job[h])
    BY <1>6, DeliveryFrame
  <2> QED
    BY <1>3, <2>1 DEF Owns
<1>7. ASSUME NEW g \in Handler, g # h, HandlerStep(g) \/ Abort(g) PROVE Owns(h)'
  <2>1. /\ pc'[h] = pc[h] /\ job'[h] = job[h] /\ verdict'[h] = verdict[h]
        /\ \A r \in Run : r # RunOf(g) => status'[r] = status[r] /\ told'[r] = told[r]
    BY <1>7, HandlerFrame
  <2>2. \A t \in Task : carries[t] # None => carries'[t] = carries[t]
    BY <1>7, HandlerQueueFrame DEF IInv, TypeOK
  <2>3. ASSUME Executes(h), RunOf(g) = RunOf(h) PROVE UNCHANGED <<status, told>>
    BY <1>2, <1>7, <2>3, BystanderStep DEF Owns
  <2> QED
    BY <1>3, <1>4, <2>1, <2>2, <2>3
<1>8. CASE HandlerStep(h) \/ Abort(h)
  <2>1. ~BuildFails(h)
    BY <1>1, FaultSpent DEF BuildFails, FaultKind
  <2> QED
    BY <1>2, <1>8, <2>1, ExecutorStep
<1>9. ASSUME NEW g \in Handler, Overrun(g) PROVE Owns(h)'
  BY <1>3, <1>9 DEF Overrun, handlerVars, runVars
<1>10. CASE UNCHANGED vars
  BY <1>3, <1>10 DEF vars, handlerVars, runVars, queueVars
<1> QED
  BY <1>5, <1>6, <1>7, <1>8, <1>9, <1>10 DEF Next, Rest

-----------------------------------------------------------------------------
(* Both invariants together *)

(* Before anything has struck, all of it holds.                             *)
LEMMA InitUntilFaults == Init => UntilFaults
<1> SUFFICES ASSUME Init PROVE UntilFaults
  OBVIOUS
<1>1. FaultsLeft
  BY DispatchAssumption DEF Init, FaultsLeft
<1>2. QueueLimit
  BY FS_EmptySet, DispatchAssumption DEF Init, QueueLimit
<1>3. AllAwaited /\ TasksAccepted /\ UntakenUntold /\ EndpointOwns /\ ExecutorOwns
  BY RunElements DEF Init, AllAwaited, TasksAccepted, UntakenUntold, EndpointOwns, ExecutorOwns
<1>4. OneOpenTask
  BY DEF Init, OneOpenTask, Open
<1> QED
  BY <1>1, <1>2, <1>3, <1>4 DEF UntilFaults

(* No step disturbs it.                                                     *)
LEMMA NextConsistent == DispatchConsistent /\ [Next]_vars => DispatchConsistent'
BY NextInvariant, FaultsDrop, QueueLimitStep, AllAwaitedStep, TasksAcceptedStep, OneOpenTaskStep,
   UntakenUntoldStep, EndpointOwnsStep, ExecutorOwnsStep DEF DispatchConsistent, UntilFaults

-----------------------------------------------------------------------------
(* The refinement of RunLifecycle, one lemma per group of actions *)

(* Set-up never fails and the scheduler never lies.                         *)
Trusted == MaxFaults["vanish"] = 0 /\ MaxFaults["lie"] = 0

(* Then neither has happened, nor can it.                                   *)
LEMMA NoneStruck ==
    ASSUME Trusted, DispatchConsistent
    PROVE  /\ Unspent({"vanish", "lie"}) /\ Unspent({"lie"})
           /\ ~Spend("vanish") /\ ~Spend("lie")
<1>1. \A k \in {"vanish", "lie"} : faults[k] \in Nat /\ faults[k] <= MaxFaults[k]
  BY DEF DispatchConsistent, UntilFaults, FaultsLeft, IInv, TypeOK, FaultKind
<1> QED
  BY <1>1 DEF Trusted, Unspent, Spend

(* A status write of the lifecycle's own kind.                              *)
LEMMA TakesUp ==
    ASSUME NEW r \in Run, NEW s \in {"in_progress", "failed"}, status[r] = "pending",
           \A i \in 1..Size[r[1]] : i < r[2] => TakenUp(<<r[1], i>>),
           status' = [status EXCEPT ![r] = s], UNCHANGED <<told, folder>>
    PROVE  Lifecycle!Next
<1>1. Lifecycle!Run = Run
  BY DEF Lifecycle!Run, Run
<1>2. Lifecycle!InTurn(r)
  <2> SUFFICES ASSUME NEW q \in Run, q[1] = r[1], q[2] < r[2]
               PROVE  status[q] # "pending"
    BY <1>1 DEF Lifecycle!InTurn
  <2>1. q[2] \in 1..Size[r[1]] /\ q = <<r[1], q[2]>>
    BY RunElements
  <2> QED
    BY <2>1 DEF TakenUp
<1> QED
  BY <1>1, <1>2 DEF Lifecycle!Next, Lifecycle!TakeUp

(* The endpoint makes the rows of a batch, or takes them up as failures and *)
(* then tells of them.                                                      *)
LEMMA RequestRefines ==
    ASSUME Trusted, DispatchConsistent, NEW b \in Batch,
           CreateRuns(b) \/ RequestStep(b) \/ RequestDies(b)
    PROVE  Lifecycle!Next \/ UNCHANGED runVars
<1>1. Lifecycle!Run = Run
  BY DEF Lifecycle!Run, Run
<1>2. CASE CreateRuns(b)
  <2>1. \A r \in Run : r[1] = b => status[r] = "absent"
    BY <1>2 DEF CreateRuns, DispatchConsistent, IInv, RowsOfRequest
  <2>2. Lifecycle!Create(b)
    BY <1>1, <1>2, <2>1 DEF CreateRuns, Lifecycle!Create
  <2> QED
    BY <2>2 DEF Lifecycle!Next
<1>3. CASE MarkUnscheduled(b) \/ TellUnscheduled(b)
  <2>1. /\ marked[b] \in Nat /\ Size[b] \in Nat /\ marked[b] < Size[b] /\ marked[b] + 1 \in 1..Size[b]
        /\ <<b, marked[b] + 1>> \in Run
        /\ \A i \in 1..Size[b] : i <= marked[b] => TakenUp(<<b, i>>)
    <3>1. marked[b] \in Nat /\ marked[b] < Size[b]
          /\ \A i \in 1..Size[b] : i <= marked[b] => TakenUp(<<b, i>>)
      BY <1>3 DEF MarkUnscheduled, TellUnscheduled, DispatchConsistent, IInv, TypeOK, MarkedInOrder
    <3>2. Size[b] \in Nat
      BY RunElements
    <3>3. marked[b] + 1 \in 1..Size[b]
      BY <3>1, <3>2
    <3> QED
      BY <3>1, <3>2, <3>3, RunElements
  <2> DEFINE r == <<b, marked[b] + 1>>
  <2>2. /\ request[b] = "unscheduling" => status[r] = "pending"
        /\ request[b] = "telling" => status[r] = "failed" /\ told[r] = {}
    BY <2>1, NoneStruck DEF DispatchConsistent, UntilFaults, EndpointOwns
  <2>3. CASE MarkUnscheduled(b)
    <3>1. status[r] = "pending" /\ status' = [status EXCEPT ![r] = "failed"] /\ UNCHANGED <<told, folder>>
      BY <2>2, <2>3 DEF MarkUnscheduled
    <3>2. \A i \in 1..Size[r[1]] : i < r[2] => TakenUp(<<r[1], i>>)
      BY <2>1
    <3> QED
      BY <2>1, <3>1, <3>2, TakesUp
  <2>4. CASE TellUnscheduled(b)
    <3>1. /\ status[r] = "failed" /\ told[r] = {} /\ UNCHANGED <<status, folder>>
          /\ told' = [told EXCEPT ![r] = @ \cup {"failed"}]
      BY <2>2, <2>4 DEF TellUnscheduled
    <3>2. told' = [told EXCEPT ![r] = {"failed"}]
      BY <3>1
    <3>3. Lifecycle!Tell(r, "failed")
      BY <3>1, <3>2 DEF Lifecycle!Tell
    <3> QED
      BY <1>1, <2>1, <3>3 DEF Lifecycle!Next
  <2> QED
    BY <1>3, <2>3, <2>4
<1>4. CASE Schedule(b) \/ ScheduleFails(b) \/ ScheduleLies(b) \/ RequestDies(b)
  BY <1>4 DEF Schedule, ScheduleFails, ScheduleLies, RequestDies
<1> QED
  BY <1>2, <1>3, <1>4 DEF RequestStep

(* A handler takes a run up with its claim, tells, finishes and files it;   *)
(* all else it does is nobody's business.                                   *)
LEMMA HandlerRefines ==
    ASSUME Trusted, DispatchConsistent, NEW h \in Handler, HandlerStep(h)
    PROVE  Lifecycle!Next \/ UNCHANGED runVars
<1> DEFINE r == RunOf(h)
<1>1. Lifecycle!Run = Run
  BY DEF Lifecycle!Run, Run
<1>2. /\ IInv /\ Owns(h)
  BY NoneStruck DEF DispatchConsistent, UntilFaults, ExecutorOwns, Owns
<1>3. /\ r \in Run /\ HandlerFacts(h)
      /\ \A i \in 1..Size[r[1]] : i < r[2] => TakenUp(<<r[1], i>>)
  BY <1>2, HandlerFrame, HandlerRun
<1>4. verdict[h] \in Verdict \/ pc[h] \notin {"notify", "settle", "move"}
  BY <1>3 DEF HandlerFacts
<1>5. CASE Check(h) \/ Build(h) \/ BuildFails(h) \/ ClaimMisses(h) \/ Process(h) \/ Advance(h) \/ Respond(h)
  BY <1>5 DEF Check, Build, BuildFails, ClaimMisses, Process, Advance, Respond
<1>6. CASE GiveUp(h) \/ GiveUpNotify(h)
  BY <1>2, <1>6 DEF GiveUp, GiveUpNotify, Owns
<1>7. CASE Claim(h)
  BY <1>3, <1>7, TakesUp DEF Claim
<1>8. CASE Start(h)
  <2>1. status' = status
    BY <1>2, <1>3, <1>8 DEF Start, Owns, IInv, TypeOK
  <2> QED
    BY <1>8, <2>1 DEF Start, runVars
<1>9. CASE Notify(h)
  <2>1. told' = [told EXCEPT ![r] = {verdict[h]}] /\ told[r] = {} /\ status[r] = "in_progress"
    BY <1>2, <1>9 DEF Notify, Owns
  <2>2. Lifecycle!Tell(r, verdict[h])
    BY <1>9, <2>1 DEF Notify, Lifecycle!Tell
  <2> QED
    BY <1>1, <1>3, <1>4, <1>9, <2>2 DEF Notify, Lifecycle!Next, Verdict
<1>10. CASE Settle(h)
  <2>1. Lifecycle!Finish(r, verdict[h])
    BY <1>2, <1>10 DEF Settle, Owns, Lifecycle!Finish
  <2> QED
    BY <1>1, <1>3, <1>4, <1>10, <2>1 DEF Settle, Lifecycle!Next, Verdict
<1>11. CASE Move(h)
  <2>1. folder[r] = "watch" /\ told[r] = {status[r]} /\ status[r] = verdict[h]
    BY <1>2, <1>3, <1>11 DEF Move, Owns, HandlerFacts, Executes, Executing
  <2>2. Lifecycle!File(r)
    BY <1>11, <2>1 DEF Move, Lifecycle!File
  <2> QED
    BY <1>1, <1>3, <2>2 DEF Lifecycle!Next
<1> QED
  BY <1>5, <1>6, <1>7, <1>8, <1>9, <1>10, <1>11 DEF HandlerStep

(* Every step of the dispatch is a step of the lifecycle or none.           *)
LEMMA NextRefines ==
    ASSUME Trusted, DispatchConsistent, [Next]_vars
    PROVE  [Lifecycle!Next]_(Lifecycle!vars)
<1>1. UNCHANGED runVars => UNCHANGED Lifecycle!vars
  BY DEF runVars, Lifecycle!vars
<1>2. ASSUME NEW t \in Task, Dispatch(t) \/ Duplicate(t) PROVE UNCHANGED runVars
  BY <1>2 DEF Dispatch, Duplicate
<1>3. ASSUME NEW h \in Handler, Overrun(h) \/ Abort(h) PROVE UNCHANGED runVars
  BY <1>3 DEF Overrun, Abort, runVars
<1>4. CASE UNCHANGED vars
  BY <1>1, <1>4 DEF vars
<1> QED
  BY <1>1, <1>2, <1>3, <1>4, RequestRefines, HandlerRefines DEF Next, Rest

-----------------------------------------------------------------------------
(* The theorems *)

(* The inductive invariant holds for any batches, any number of handlers,   *)
(* any queue settings and any number of faults of every kind.               *)
THEOREM Invariance == Spec => []IInv
BY InitInvariant, NextInvariant, PTL DEF Spec

(* Type correctness. *)
THEOREM TypeCorrect == Spec => []TypeOK
BY Invariance, PTL DEF IInv

(* Mutual exclusion of the pipeline: _claim_run lets one handler execute a  *)
(* run however often its task is delivered, however handlers die.           *)
THEOREM ExecutedByOne == Spec => []OneExecutor
BY Invariance, PTL DEF IInv

(* The runs of a batch are taken up in order, whatever goes wrong.          *)
THEOREM TakenUpInOrder == Spec => []BatchOrder
BY Invariance, PTL DEF IInv

(* No acknowledged task leaves the rest of its batch behind: the chain of   *)
(* _advance_batch_chain is never dropped by a 200.                          *)
THEOREM ChainHandedOn == Spec => []HandedOn
BY Invariance, PTL DEF IInv

(* A file is moved only for a run that is over, to the folder of an outcome *)
(* its user was told.                                                       *)
THEOREM FiledLast == Spec => []FiledAfterVerdict
BY Invariance, PTL DEF IInv

(* No silent success.                                                       *)
THEOREM ToldOfSuccess == Spec => []SuccessIsTold
BY Invariance, PTL DEF IInv

(* A run that was taken up never comes back within reach of a claim.        *)
THEOREM NeverTakenBack == Spec => NeverPendingAgain
<1>1. IInv /\ [Next]_vars => [\A r \in Run : TakenUp(r) => TakenUp(r)']_vars
  BY NextTakesUp
<1> QED
  BY <1>1, Invariance, PTL DEF Spec, NeverPendingAgain

(* The same, with what holds until certain faults strike: it is all that    *)
(* dispatch_safety checks on a small instance.                              *)
THEOREM Consistency == Spec => []DispatchConsistent
<1>1. Init => DispatchConsistent
  BY InitInvariant, InitUntilFaults DEF DispatchConsistent
<1> QED
  BY <1>1, NextConsistent, PTL DEF Spec

(* Two files of a batch are processed at once only after a late answer or a *)
(* repeated delivery, on a queue that dispatches one task at a time; on any *)
(* other, also after a death or a lie (_advance_batch_chain).               *)
THEOREM OneFileAtATime == Spec => []BatchSerial
<1>1. ASSUME DispatchConsistent, Unspent({"overrun", "duplicate"}),
             MaxConcurrent = 1 \/ Unspent({"abort", "lie"}),
             NEW g \in Handler, NEW h \in Handler, g # h, Executes(g), Executes(h),
             RunOf(g)[1] = RunOf(h)[1]
      PROVE  FALSE
  <2>1. pc[g] \notin {"idle", "respond"} /\ pc[h] \notin {"idle", "respond"}
    BY <1>1 DEF Executes, Executing
  <2>2. CASE MaxConcurrent = 1
    <3>1. g \in awaited /\ h \in awaited
      BY <1>1, <2>1 DEF DispatchConsistent, UntilFaults, AllAwaited
    <3>2. IsFiniteSet({g}) /\ Cardinality({g}) = 1
      BY FS_Singleton
    <3>3. Cardinality({g} \cup {h}) = 2
      <4>1. Cardinality({g} \cup {h}) = IF h \in {g} THEN Cardinality({g}) ELSE Cardinality({g}) + 1
        BY <3>2, FS_AddElement
      <4>2. h \notin {g}
        BY <1>1
      <4> QED
        BY <3>2, <4>1, <4>2
    <3>4. IsFiniteSet(awaited) /\ Cardinality(awaited) <= 1
      BY <1>1, <2>2 DEF DispatchConsistent, UntilFaults, QueueLimit
    <3>5. Cardinality({g} \cup {h}) <= Cardinality(awaited) /\ Cardinality(awaited) \in Nat
      BY <3>1, <3>4, FS_Subset, FS_CardinalityType
    <3> QED
      BY <3>3, <3>4, <3>5
  <2>3. CASE Unspent({"abort", "lie"})
    <3>1. Unspent({"overrun", "duplicate", "abort", "lie"})
      BY <1>1, <2>3 DEF Unspent
    <3>2. Open(job[g]) /\ Open(job[h]) /\ job[g] \in Task /\ job[h] \in Task
      BY <1>1, <2>1, HandlerRun DEF DispatchConsistent, Open
    <3>3. job[g] = job[h]
      BY <1>1, <3>1, <3>2 DEF DispatchConsistent, UntilFaults, OneOpenTask, RunOf
    <3> QED
      BY <1>1, <2>1, <3>1, <3>3 DEF DispatchConsistent, UntilFaults, OneOpenTask
  <2> QED
    BY <1>1, <2>2, <2>3
<1>2. DispatchConsistent => BatchSerial
  BY <1>1 DEF BatchSerial
<1> QED
  BY <1>2, Consistency, PTL

(* As long as no set-up fails and no scheduler lies, the dispatch           *)
(* implements the lifecycle of its runs: redelivered tasks, late answers,   *)
(* deaths and refused schedules change nothing that the rows, the           *)
(* notifications or the folders show (dispatch._claim_run, runner).         *)
THEOREM LifecycleImplemented ==
    ASSUME MaxFaults["vanish"] = 0, MaxFaults["lie"] = 0
    PROVE  Spec => RefinesLifecycle
<1>1. Trusted
  BY DEF Trusted
<1>2. Init => Lifecycle!Init
  BY DEF Init, Lifecycle!Init, Lifecycle!Run, Run
<1>3. DispatchConsistent /\ [Next]_vars => [Lifecycle!Next]_(Lifecycle!vars)
  BY <1>1, NextRefines
<1> QED
  BY <1>2, <1>3, Consistency, PTL DEF Spec, RefinesLifecycle, Lifecycle!Spec
=============================================================================
