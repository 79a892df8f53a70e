------------------------------ MODULE RunListing ------------------------------
(***************************************************************************)
(* The list of a user's runs, on the logs page and in the API, and the log *)
(* lines of a step.  A run is a record with id, made, filename and status; *)
(* it is made at a tick of a UTC clock that counts DayTicks ticks a day,   *)
(* and runs of one import at the same tick.                                *)
(***************************************************************************)
EXTENDS Listing, Ascending

CONSTANT DayTicks

ASSUME DayAssumption == DayTicks \in Nat \ {0}

(* Bounds are days, and both are days of the list. *)
MadeWithin(made, from, to) ==
    /\ from # None => made >= from * DayTicks
    /\ to   # None => made < to * DayTicks + DayTicks

(* A mutated form of RunBefore: no tiebreaker. *)
RunBeforeColumnOnly(a, b, column, sort) == Precedes(a[column], b[column], sort)

(* The newest first among rows that the column does not tell apart; no more. *)
RunBefore(a, b, column, sort) ==
    \/ Precedes(a[column], b[column], sort)
    \/ a[column] = b[column] /\ a.made > b.made

Selected(runs, q) ==
    {r \in runs : (q.status # None => r.status = q.status) /\ MadeWithin(r.made, q.from, q.to)}

(* list_user_processing_runs: every page that the database may return; the  *)
(* total is the number of selected runs.                                    *)
PagesOfRuns(runs, q, page) ==
    LET rows   == Selected(runs, q)
        before == {p \in rows \X rows : RunBefore(p[1], p[2], q.column, q.sort)}
    IN {Window(s, page) : s \in OrdersOf(rows, before)}

(* logs_page: the page that is shown after the redirect, if there is one. *)
Landing(total, page) ==
    IF total > 0 /\ page > TotalPages(total) THEN TotalPages(total) ELSE page

-----------------------------------------------------------------------------
(* The last column.  The steps of a run are in order, each with its status  *)
(* and its lines.                                                           *)

WithLines(steps, which) == {i \in which : steps[i].lines # <<>>}

FirstError(steps) ==
    LET failed == WithLines(steps, {i \in DOMAIN steps : steps[i].status = "failed"})
        some   == IF failed # {} THEN failed ELSE WithLines(steps, DOMAIN steps)
    IN IF some # {} THEN steps[Min(some)].lines[1] ELSE "No details available"

-----------------------------------------------------------------------------
(* The log lines of a step, searched and paginated; hits are the texts that *)
(* contain what is searched for.                                            *)

HitsIn(lines, hits) == {i \in DOMAIN lines : lines[i] \in hits}

FilterLogLines(lines, hits) ==
    LET at == Ascending(HitsIn(lines, hits)) IN [n \in DOMAIN at |-> lines[at[n]]]

LogPage(lines, hits, page) ==
    LET found == FilterLogLines(lines, hits)
    IN [log_lines |-> Window(found, page), total |-> Len(found)]
=============================================================================
