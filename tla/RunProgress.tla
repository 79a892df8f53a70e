----------------------------- MODULE RunProgress ------------------------------
(***************************************************************************)
(* The progress page of one run and the event stream behind it, beside the *)
(* handlers that execute the runs (PipelineRunner).                        *)
(*                                                                         *)
(* The page is painted from two SELECTs, the run's and its steps'; a run   *)
(* that is not over is then watched over server-sent events.  A poll of    *)
(* the stream is two SELECTs in the other order.  Nothing locks the runner *)
(* out between two SELECTs, and a connection may break with some of a      *)
(* poll's events undelivered: the browser then connects again.             *)
(***************************************************************************)
EXTENDS PipelineRunner

CONSTANTS
    Watched,        (* the run on the page                                 *)
    MaxPolls,       (* polls of a connection before max_seconds are over   *)
    MaxLoads,       (* BOUND: how often the page is opened or reloaded     *)
    MaxBreaks       (* BOUND: how often a connection breaks                *)

RunStatus  == {"pending", "in_progress", "success", "failed"}
ViewStatus == {"pending", "in_progress", "success", "failed", "skipped"}

ASSUME ProgressAssumption ==
    /\ Watched \in Run
    /\ None \notin ViewStatus
    /\ MaxPolls \in Nat /\ MaxLoads \in Nat /\ MaxBreaks \in Nat

VARIABLES
    page,       (* what the browser has in front of it                     *)
    banner,     (* run status the page shows                               *)
    shown,      (* status the page shows for each step                     *)
    conn,       (* what the stream does next, "none" without a connection  *)
    sent,       (* last_step_status of the connection                      *)
    elapsed,    (* polls it has made                                       *)
    loads, breaks

pageVars == <<page, banner, shown>>
connVars == <<conn, sent, elapsed>>
viewVars == <<pageVars, connVars, loads, breaks>>

ViewTypeOK ==
    /\ page    \in {"closed", "loading", "static", "live", "done"}
    /\ banner  \in RunStatus
    /\ shown   \in [1..7 -> ViewStatus]
    /\ conn    \in {"none", "steps", "status", "asleep"}
    /\ sent    \in [1..7 -> ViewStatus \cup {None}]
    /\ elapsed \in 0..MaxPolls
    /\ loads   \in 0..MaxLoads
    /\ breaks  \in 0..MaxBreaks

ViewInit ==
    /\ page    = "closed"
    /\ banner  = "pending"
    /\ shown   = [n \in 1..7 |-> "pending"]
    /\ conn    = "none"
    /\ sent    = [n \in 1..7 |-> None]
    /\ elapsed = 0
    /\ loads   = 0
    /\ breaks  = 0

-----------------------------------------------------------------------------
(* build_step_views: a step without a row is pending. *)
StepView == [n \in 1..7 |->
                IF step[Watched][n] = "none" THEN "pending" ELSE step[Watched][n]]

IsTerminal(s) == s \in {"success", "failed"}

(* A mutated form of Delivered: a poll sends its steps from the last to the *)
(* first.                                                                   *)
DeliveredLastFirst(S) == [n \in 1..7 |-> IF 8 - n \in S /\ sent[n] # StepView[n]
                                         THEN StepView[n] ELSE shown[n]]

(* The page after the events of a poll for the steps in S. *)
Delivered(S) == [n \in 1..7 |-> IF n \in S /\ sent[n] # StepView[n]
                                THEN StepView[n] ELSE shown[n]]

-----------------------------------------------------------------------------
(* Mutated forms: bugs the properties below must notice. *)

(* Whether the run is watched is decided by its steps. *)
PaintLiveByStep ==
    /\ page = "loading"
    /\ shown' = StepView
    /\ page'  = IF \E n \in 1..7 : StepView[n] = "in_progress" THEN "live" ELSE "static"
    /\ UNCHANGED <<vars, banner, connVars, loads, breaks>>

(* The page starts blank and leaves the steps to the stream. *)
PaintBlank ==
    /\ page = "loading"
    /\ shown' = [n \in 1..7 |-> "pending"]
    /\ page'  = IF IsTerminal(banner) THEN "static" ELSE "live"
    /\ UNCHANGED <<vars, banner, connVars, loads, breaks>>

(* A connection broken once is not made again. *)
ConnectOnce ==
    /\ page = "live" /\ conn = "none" /\ breaks = 0
    /\ conn'    = "steps"
    /\ sent'    = [n \in 1..7 |-> None]
    /\ elapsed' = 0
    /\ UNCHANGED <<vars, pageVars, loads, breaks>>

-----------------------------------------------------------------------------
(* The page *)

(* processing_page up to the run's SELECT. *)
OpenPage ==
    /\ loads < MaxLoads
    /\ loads'  = loads + 1
    /\ page'   = "loading"
    /\ banner' = status[Watched]
    /\ conn'   = "none"
    /\ UNCHANGED <<vars, shown, sent, elapsed, breaks>>

(* The SELECT of the steps and the answer, live unless the run was over. *)
PaintPage ==
    /\ page = "loading"
    /\ shown' = StepView
    /\ page'  = IF IsTerminal(banner) THEN "static" ELSE "live"
    /\ UNCHANGED <<vars, banner, connVars, loads, breaks>>

(* sse-connect, and the browser's reconnection after anything but "done". *)
Connect ==
    /\ page = "live" /\ conn = "none"
    /\ conn'    = "steps"
    /\ sent'    = [n \in 1..7 |-> None]
    /\ elapsed' = 0
    /\ UNCHANGED <<vars, pageVars, loads, breaks>>

(* stream_run_progress *)

ReadSteps ==
    /\ conn = "steps"
    /\ shown' = Delivered(1..7)
    /\ sent'  = StepView
    /\ conn'  = "status"
    /\ UNCHANGED <<vars, page, banner, elapsed, loads, breaks>>

ReadStatus ==
    /\ conn = "status"
    /\ banner' = status[Watched]
    /\ IF IsTerminal(status[Watched])
       THEN page' = "done" /\ conn' = "none"
       ELSE conn' = "asleep" /\ UNCHANGED page
    /\ UNCHANGED <<vars, shown, sent, elapsed, loads, breaks>>

Wake ==
    /\ conn = "asleep" /\ elapsed < MaxPolls
    /\ elapsed' = elapsed + 1
    /\ conn'    = "steps"
    /\ UNCHANGED <<vars, pageVars, sent, loads, breaks>>

(* max_seconds are over: the stream returns, without "done". *)
Close ==
    /\ conn = "asleep" /\ elapsed = MaxPolls
    /\ conn' = "none"
    /\ UNCHANGED <<vars, pageVars, sent, elapsed, loads, breaks>>

(* The connection is lost.  Of the events of the poll under way the page    *)
(* has got the first few.                                                   *)
Break ==
    /\ breaks < MaxBreaks
    /\ breaks' = breaks + 1
    /\ \/ /\ conn = "steps"
          /\ \E n \in 0..7 : shown' = Delivered(1..n)
       \/ conn \in {"status", "asleep"} /\ UNCHANGED shown
    /\ conn'   = "none"
    /\ UNCHANGED <<vars, page, banner, sent, elapsed, loads>>

(* ... or only the banner, and not the "done" that follows it. *)
BreakBeforeDone ==
    /\ breaks < MaxBreaks
    /\ breaks' = breaks + 1
    /\ conn = "status"
    /\ banner' = status[Watched]
    /\ conn'   = "none"
    /\ UNCHANGED <<vars, page, shown, sent, elapsed, loads>>

Stream == Connect \/ ReadSteps \/ ReadStatus \/ Wake \/ Close

View == OpenPage \/ PaintPage \/ Stream \/ Break \/ BreakBeforeDone

WatchedNext == (Next /\ UNCHANGED viewVars) \/ View

WatchedSpec == Init /\ ViewInit /\ [][WatchedNext]_<<vars, viewVars>>

(* Handlers, server and browser keep going; nobody has to open the page and *)
(* no connection has to break.                                              *)
WatchedFairSpec ==
    /\ WatchedSpec
    /\ \A r \in Run : WF_vars(RunStep(r))
    /\ WF_viewVars(PaintPage)
    /\ WF_viewVars(Stream)

-----------------------------------------------------------------------------
(* Properties *)

Rank(s) == CASE s = "pending" -> 0 [] s = "in_progress" -> 1 [] OTHER -> 2

(* At every moment, after any loss, the page shows a past the run has had:  *)
(* a step is not shown started unless those before it are shown ended, but  *)
(* for those that a failed one has cut off (stream_run_progress sends a     *)
(* poll's steps in their order).                                            *)
ShownInOrder ==
    page \in {"static", "live", "done"} =>
        \A n \in 1..6 : \A m \in 1..(n - 1) :
            shown[n] # "pending" => shown[m] \in {"success", "skipped"}

(* A page that no stream will update shows the run's last word: the run was *)
(* over before its steps were read (processing_page).                       *)
StaticPageIsComplete ==
    page = "static" => shown = StepView /\ shown[7] = "success" /\ banner = status[Watched]

(* "done" reaches the page only from a run that is over, with its status    *)
(* in the banner (stream_run_progress returns without "done" at its cap).   *)
DoneMeansOver ==
    page = "done" => Over(Watched) /\ banner = status[Watched]

(* Each status shown, of a page open or just left, is one its step has had, *)
(* and for good if the step has ended ...                                   *)
ShownIsPast ==
    /\ \A n \in 1..7 :
        /\ Rank(shown[n]) <= Rank(StepView[n])
        /\ Rank(shown[n]) = 2 => shown[n] = StepView[n]
    /\ \A n \in 1..6 : \A m \in 1..(n - 1) :
        shown[n] # "pending" => shown[m] \in {"success", "skipped"}

(* ... as is the end of the run; a connection holds no event back as sent   *)
(* that the page has not got (last_step_status is the connection's own).    *)
ViewKnows ==
    /\ IsTerminal(banner) => banner = status[Watched]
    /\ page \in {"static", "done"} => IsTerminal(banner)
    /\ page = "static" => shown = StepView
    /\ conn # "none" => page = "live" /\ \A n \in 1..7 : sent[n] \in {None, shown[n]}

(* What the user sees at any moment, after any loss (processing_page and    *)
(* stream_run_progress).                                                    *)
PageConsistent == ViewTypeOK /\ ShownInOrder /\ DoneMeansOver /\ ShownIsPast /\ ViewKnows

(* A reconnection or a reload never takes back a step already shown ended   *)
(* or a run shown over (every poll and every paint reads afresh).           *)
ShownNeverRegresses ==
    [][/\ \A n \in 1..7 : Rank(shown[n]) <= Rank(shown'[n])
       /\ IsTerminal(banner) => banner' = banner]_<<vars, viewVars>>

(* A page left open learns that its run is over, however often connections  *)
(* break or reach their cap.                                                *)
PageLearnsTheEnd ==
    (page # "closed" /\ Over(Watched)) ~> page \in {"static", "done"}

=============================================================================
