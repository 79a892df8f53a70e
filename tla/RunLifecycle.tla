----------------------------- MODULE RunLifecycle -----------------------------
(***************************************************************************)
(* What the dispatch of processing runs promises, with the queue, the      *)
(* handlers and their failures left out: the rows of a batch appear        *)
(* together, are taken up in order and once each, and a run's user is told *)
(* its one outcome before the row says so and before the file is moved.    *)
(***************************************************************************)
EXTENDS Naturals

CONSTANTS Batch, Size

VARIABLES status, told, folder
vars == <<status, told, folder>>

Run == UNION {{b} \X (1..Size[b]) : b \in Batch}

Init ==
    /\ status = [r \in Run |-> "absent"]
    /\ told   = [r \in Run |-> {}]
    /\ folder = [r \in Run |-> "watch"]

Create(b) ==
    /\ \A r \in Run : r[1] = b => status[r] = "absent"
    /\ status' = [r \in Run |-> IF r[1] = b THEN "pending" ELSE status[r]]
    /\ UNCHANGED <<told, folder>>

(* Every earlier run of the batch has been taken up. *)
InTurn(r) ==
    \A q \in Run : q[1] = r[1] /\ q[2] < r[2] => status[q] # "pending"

(* A run is taken up: executed, or failed because it cannot be scheduled. *)
TakeUp(r, s) ==
    /\ status[r] = "pending"
    /\ InTurn(r)
    /\ status' = [status EXCEPT ![r] = s]
    /\ UNCHANGED <<told, folder>>

(* One notification per run; only a failure is told after it is committed. *)
Tell(r, outcome) ==
    /\ told[r] = {}
    /\ status[r] = "in_progress" \/ (status[r] = "failed" /\ outcome = "failed")
    /\ told' = [told EXCEPT ![r] = {outcome}]
    /\ UNCHANGED <<status, folder>>

Finish(r, outcome) ==
    /\ status[r] = "in_progress"
    /\ told[r] = {outcome}
    /\ status' = [status EXCEPT ![r] = outcome]
    /\ UNCHANGED <<told, folder>>

File(r) ==
    /\ folder[r] = "watch"
    /\ told[r] = {status[r]}
    /\ folder' = [folder EXCEPT ![r] =
                     IF status[r] = "success" THEN "processed" ELSE "failed"]
    /\ UNCHANGED <<status, told>>

Next ==
    \/ \E b \in Batch : Create(b)
    \/ \E r \in Run :
          \/ \E s \in {"in_progress", "failed"} : TakeUp(r, s)
          \/ \E outcome \in {"success", "failed"} : Tell(r, outcome) \/ Finish(r, outcome)
          \/ File(r)

Spec == Init /\ [][Next]_vars
=============================================================================
