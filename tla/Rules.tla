--------------------------------- MODULE Rules ---------------------------------
(***************************************************************************)
(* What the functions of ExportReader, RunListing, Listing and FolderPath  *)
(* promise, on every input up to a bound.  A state is an input: a topic    *)
(* and a sequence of items, which Grow lengthens.                          *)
(***************************************************************************)
EXTENDS RunListing, ExportReader, FolderPath

CONSTANTS
    ItemsOf,        (* BOUND: the items of each topic                      *)
    MaxItems,       (* BOUND: how many of them                             *)
    Days            (* BOUND: the dates of messages: <<year, month, day>>  *)

Topics == {"archive", "chat", "date", "search", "path", "runs", "steps", "lines"}

(* A year between those that two digits stand for. *)
IsDate(day) ==
    day[1] \in 1969..2068 /\ day[2] \in 1..12 /\ day[3] \in 1..MonthDays(day[1])[day[2]]

ASSUME RulesAssumption ==
    /\ MaxItems \in [Topics -> Nat]
    /\ Days \in Seq(Int \X Int \X Int) /\ \A x \in DOMAIN Days : IsDate(Days[x])
    /\ None \notin Int

(* What the code distinguishes in an item of each topic. *)
ASSUME ItemsAssumption ==
    /\ DOMAIN ItemsOf = Topics
    /\ ItemsOf["archive"] \subseteq
         [shape : {"chat", "txt", "plain", "dotted"}, name : Int, size : Int,
          holds : {"text", "binary", "broken", "huge"}, ignored : BOOLEAN]
    /\ ItemsOf["chat"] \subseteq [what : {"message", "other", "rogue"}, day : DOMAIN Days]
    /\ ItemsOf["date"] \subseteq [digit : BOOLEAN, date : Int \cup {NoDate}]
    /\ ItemsOf["runs"] \subseteq [made : Nat, filename : Int, status : Int]
    /\ \A x \in ItemsOf["steps"] : x.lines \in Seq(STRING)

VARIABLES
    topic,
    writing,    (* how the phone writes dates: "DMY", "MDY" or "ISO"       *)
    items

inputs == <<topic, writing, items>>

NoItems ==
    /\ topic \in Topics
    /\ writing \in IF topic = "chat" THEN {"DMY", "MDY", "ISO"} ELSE {"ISO"}
    /\ items = <<>>

(* Runs are given in the order they were made.  Those that one import makes *)
(* tie: created_at is the time of its transaction.                          *)
Grow ==
    \E x \in ItemsOf[topic] :
        /\ Len(items) < MaxItems[topic]
        /\ (topic = "runs" /\ items # <<>>) => x.made >= items[Len(items)].made
        /\ items' = Append(items, x)
        /\ UNCHANGED <<topic, writing>>

RulesSpec == NoItems /\ [][Grow]_inputs

About(t) == topic = t

-----------------------------------------------------------------------------
(* Archives *)

Shape(s) == {i \in DOMAIN items : ~items[i].ignored /\ items[i].shape = s}

(* There is one candidate at most on the rung of the ladder that decides. *)
OneCandidate ==
    /\ Cardinality(Shape("chat")) <= 1
    /\ \A i, j \in Shape("txt") : i # j => items[i].name # items[j].name
    /\ Shape("chat") \cup Shape("txt") = {} => Cardinality(Shape("plain")) <= 1

Picked(ms) ==
    LET r == ExtractZip(ms)
    IN <<r.error, IF r.member = 0 THEN None ELSE ms[r.member]>>

(* A phone packs the members in any order; the chat that is read, or the   *)
(* reason for the refusal, is the same (archive.py, step 2 of the ladder). *)
OneChatWhateverTheOrder ==
    About("archive") /\ OneCandidate =>
        \A p \in Bijection(DOMAIN items, DOMAIN items) :
            Picked([i \in DOMAIN items |-> items[p[i]]]) = Picked(items)

(* Whatever an archive holds, what goes to the model is a text file or a   *)
(* readable member without an extension: no image, no part of an office    *)
(* document, no resource fork; and only an archive without any of these is *)
(* said to have no chat (archive.py, the ladder and step 3 of it).         *)
NothingElseLeaks ==
    About("archive") =>
        LET r == ExtractZip(items)
            readable == {i \in DOMAIN items :
                            /\ ~items[i].ignored
                            /\ \/ items[i].shape \in {"chat", "txt"}
                               \/ items[i].shape = "plain" /\ items[i].holds # "binary"}
        IN /\ r.member # 0 => r.member \in readable /\ items[r.member].holds \notin {"broken", "huge"}
           /\ r.error = "no_chat" <=> readable = {}

-----------------------------------------------------------------------------
(* Chats: a message of a day, "other" for a line without a date, "rogue"   *)
(* for a pasted line that only the other order can read.                   *)

Written(x) ==
    LET day == Days[x]
    IN CASE writing = "DMY" -> LineDate(day[3], day[2], day[1] % 100, FALSE)
         [] writing = "MDY" -> LineDate(day[2], day[3], day[1] % 100, FALSE)
         [] writing = "ISO" -> LineDate(day[2], day[3], day[1], TRUE)

Rogue == IF writing = "DMY" THEN LineDate(8, 25, 26, FALSE) ELSE LineDate(25, 8, 26, FALSE)

Lines == [i \in DOMAIN items |->
            CASE items[i].what = "other"   -> Continuation
              [] items[i].what = "rogue"   -> Rogue
              [] items[i].what = "message" -> Written(items[i].day)]

Messages == {i \in DOMAIN items : items[i].what = "message"}

TrueDay(i) == LET day == Days[items[i].day] IN Ordinal(day[1], day[2], day[3])

(* More lines, or with MDY as many, tell the true order than pasted ones   *)
(* tell the other.                                                         *)
HonestVote ==
    LET rogue    == Cardinality({i \in DOMAIN items : items[i].what = "rogue"})
        decisive == Cardinality({i \in Messages : Days[items[i].day][3] > 12})
    IN CASE writing = "DMY" -> decisive > rogue
         [] writing = "MDY" -> decisive >= rogue
         [] writing = "ISO" -> rogue = 0

(* However the phone writes dates, the lines that are kept are those of    *)
(* the messages less than WindowDays older than the newest, across months  *)
(* and years, when the vote is honest (filter_messages_within_window).     *)
RightWindow ==
    About("chat") /\ HonestVote /\ Messages # {} =>
        LET newest == Max({TrueDay(i) : i \in Messages})
            own(i) == {j \in Messages : j <= i}
        IN KeptLines(Lines) =
              {i \in DOMAIN items : own(i) # {} => newest - TrueDay(Max(own(i))) < WindowDays}

(* No vote, right or wrong, leaves nothing of a chat: the model never gets *)
(* an empty text of a chat that is not (filter_messages_within_window).    *)
SomethingKept ==
    About("chat") /\ items # <<>> => KeptLines(Lines) # {}

-----------------------------------------------------------------------------
(* Dates of events: a date that is named has a digit; a word like a        *)
(* weekday has none, though the fuzzy parser finds a day for it.           *)

(* An event is stored with the earliest date that its text names, in any   *)
(* order, and never with a day that the parser made up for a word          *)
(* (parse_earliest_date).                                                  *)
EarliestOfNamed ==
    About("date") =>
        LET named == {items[i].date : i \in {j \in DOMAIN items : items[j].digit}} \ {NoDate}
            d     == ParseEarliestDate(items)
        IN IF named = {} THEN d = NoDate ELSE d \in named /\ \A n \in named : d <= n

-----------------------------------------------------------------------------
(* The search: items is what the user types. *)

Occurs(needle, hay) ==
    \E k \in 0..(Len(hay) - Len(needle)) : \A i \in DOMAIN needle : hay[k + i] = needle[i]

(* A search finds the events whose text contains what the user typed, and  *)
(* no other: "%", "_" and the backslash mean themselves (list_user_events).*)
SearchIsSubstring ==
    About("search") =>
        \A hay \in SeqOf(ItemsOf["search"], MaxItems["search"]) :
            Like(hay, LikePattern(items)) <=> Occurs(items, hay)

-----------------------------------------------------------------------------
(* Folder paths *)

GapFree(path) ==
    \A i \in 1..(Len(path) - 1) : path[i] # Slash \/ path[i + 1] # Slash

(* The names of the folders that a literal prefix spells: what each slash  *)
(* ends, nothing between two slashes being an empty name.                  *)
FoldersOf(prefix) ==
    LET slash == Ascending({i \in DOMAIN prefix : prefix[i] = Slash})
    IN [n \in DOMAIN slash |->
            SubSeq(prefix, IF n = 1 THEN 1 ELSE slash[n - 1] + 1, slash[n] - 1)]

(* S3 and Dropbox take the form that is made of the setting letter by      *)
(* letter, Drive walks through the names in it.  S3 and Drive have the     *)
(* same folder, however many slashes the user puts around the setting,     *)
(* exactly if there are no two in a row inside it; Dropbox's path spells   *)
(* the folder of S3 exactly if the setting does not begin with two         *)
(* (_normalize_path, _normalize_prefix, _watch_folder).                    *)
SameFolderEverywhere ==
    About("path") =>
        LET d == DropboxPath(items)
            s == S3Prefix(items)
            p == Stripped(items, FALSE, TRUE)
        IN /\ FoldersOf(s) = DriveSegments(items) <=> GapFree(Stripped(items, TRUE, TRUE))
           /\ Append(d, Slash) = <<Slash>> \o s
                 <=> ~(Len(p) > 1 /\ p[1] = Slash /\ p[2] = Slash)

(* A listing of the S3 provider gives the files of the folder that its     *)
(* prefix spells, doubled slashes or not: none of a sibling whose name     *)
(* begins alike, none of processed/ and failed/ (_normalize_prefix,        *)
(* list_new_files).                                                        *)
OnlyDirectChildren ==
    About("path") =>
        LET keys == SeqOf(ItemsOf["path"], MaxItems["path"]) \ {<<>>}
            s    == S3Prefix(items)
        IN S3Listed(keys, s) = {k \in keys : k[Len(k)] # Slash /\ FoldersOf(k) = FoldersOf(s)}

-----------------------------------------------------------------------------
(* Runs *)

Runs == {[id |-> i, made |-> items[i].made, filename |-> items[i].filename,
          status |-> items[i].status] : i \in DOMAIN items}

RunDays == {r.made \div DayTicks : r \in ItemsOf["runs"]}

RunQuestions ==
    [status : {None} \cup {r.status : r \in ItemsOf["runs"]},
     from : {None} \cup RunDays, to : {None} \cup RunDays,
     column : {"made", "filename", "status"}, sort : Sorts]

AnyDay == [status |-> None, from |-> None, to |-> None, column |-> "made", sort |-> "desc"]

(* A run is listed before another: by the column, and of equals the newer. *)
Ahead(o, r, q) ==
    IF o[q.column] = r[q.column] THEN o.made > r.made
    ELSE IF q.sort = "asc" THEN o[q.column] < r[q.column] ELSE o[q.column] > r[q.column]

PageOf(k) == ((k - 1) \div PageSize) + 1

(* The pages on which the runs that tie with r begin and end. *)
FirstPage(chosen, r, q) == PageOf(Cardinality({o \in chosen : Ahead(o, r, q)}) + 1)
LastPage(chosen, r, q)  == PageOf(Cardinality({o \in chosen : ~Ahead(r, o, q)}))

(* However the database orders runs that tie, every page but the last is   *)
(* full, holds no run twice and is in order, and a run is on no page but   *)
(* those of the runs it ties with: with one page for them, on that page on *)
(* every load (list_user_processing_runs).                                 *)
EachRunInItsPlace ==
    About("runs") =>
        \A q \in RunQuestions :
            LET chosen   == Selected(Runs, q)
                total    == Cardinality(chosen)
                first(r) == FirstPage(chosen, r, q)
                last(r)  == LastPage(chosen, r, q)
            IN \A p \in 1..TotalPages(total) :
                  /\ PagesOfRuns(Runs, q, p) # {}
                  /\ \A rows \in PagesOfRuns(Runs, q, p) :
                        /\ Len(rows) = IF p < TotalPages(total) THEN PageSize
                                       ELSE total - (p - 1) * PageSize
                        /\ \A i, j \in 1..Len(rows) :
                              i < j => rows[i] # rows[j] /\ ~Ahead(rows[j], rows[i], q)
                        /\ Range(rows) \subseteq {r \in chosen : p \in first(r)..last(r)}
                        /\ {r \in chosen : first(r) = p /\ last(r) = p} \subseteq Range(rows)

(* The tiebreaker settles no more than that: runs with one created_at, as  *)
(* an import makes them, move between the pages that they lie on, so that  *)
(* a reader of the pages may be shown one of them twice or never (the      *)
(* comment on order_by calls the tiebreaker stable).                       *)
TiesMove ==
    About("runs") =>
        \A q \in RunQuestions : \A r \in Selected(Runs, q) :
            LET first == FirstPage(Selected(Runs, q), r, q)
                last  == LastPage(Selected(Runs, q), r, q)
            IN first # last =>
                  \A p \in {first, last} :
                      /\ \E rows \in PagesOfRuns(Runs, q, p) : r \in Range(rows)
                      /\ \E rows \in PagesOfRuns(Runs, q, p) : r \notin Range(rows)

(* A run is on the list of the day it was made, to its last moment, and on *)
(* no other day's (list_user_processing_runs).                             *)
RunsOnTheirDays ==
    About("runs") =>
        \A r \in Runs, d \in RunDays :
            r \in Selected(Runs, [AnyDay EXCEPT !.from = d, !.to = d]) <=> r.made \div DayTicks = d

(* No bookmark and no filter leaves a user before an empty page of a list  *)
(* that has runs (logs_page and its redirect).                             *)
LandsOnRows ==
    About("runs") =>
        \A q \in RunQuestions, p \in 1..(MaxItems["runs"] + 1) :
            Selected(Runs, q) # {} =>
                \A rows \in PagesOfRuns(Runs, q, Landing(Cardinality(Selected(Runs, q)), p)) :
                    rows # <<>>

(* A failed run says why: a line of a failed step if there is one, or else *)
(* any line, and never nothing (build_run_detail_summaries).               *)
FailureExplained ==
    About("steps") =>
        LET said(which) == UNION {ToSet(items[i].lines) : i \in which}
            failed      == {i \in DOMAIN items : items[i].status = "failed"}
            why         == FirstError(items)
        IN /\ said(failed) # {} => why \in said(failed)
           /\ said(failed) = {} /\ said(DOMAIN items) # {} => why \in said(DOMAIN items)

(* The pages of a search through a step's log show every matching line, in *)
(* the order of the log, and only those (filter_log_lines and              *)
(* paginate_log_lines).                                                    *)
SearchPagesComplete ==
    About("lines") =>
        \A hits \in SUBSET ItemsOf["lines"] :
            LET found   == HitsIn(items, hits)
                last    == TotalPages(LogPage(items, hits, 1).total)
                page(p) == LogPage(items, hits, p).log_lines
                (* the page and the place of a matching line *)
                on(i)   == ((Rank(found, i) - 1) \div PageSize) + 1
                at(i)   == ((Rank(found, i) - 1) % PageSize) + 1
            IN /\ \A i \in found : on(i) \in 1..last /\ page(on(i))[at(i)] = items[i]
               /\ \A p \in 1..last : DOMAIN page(p) = {at(i) : i \in {j \in found : on(j) = p}}

-----------------------------------------------------------------------------
(* The rules of each part together *)

(* What the model is given and what is kept of its answer are those of the  *)
(* export, whatever its form (archive.py, message_filter.py,                *)
(* date_parser.py).                                                         *)
ExportReadRight ==
    OneChatWhateverTheOrder /\ NothingElseLeaks /\ RightWindow /\ SomethingKept /\ EarliestOfNamed

(* One setting is one folder if it doubles no slash, and the files of that  *)
(* folder alone are listed (dropbox.py, s3.py, google_drive.py).            *)
FoldersAgree == SameFolderEverywhere /\ OnlyDirectChildren

(* The list of runs leaves nothing out, shows nothing twice and is in       *)
(* order, up to the runs that tie across two pages, and the logs of a step  *)
(* are shown whole (processing_runs.py, logs.py, processing_logs.py).       *)
RunsListedRight ==
    /\ EachRunInItsPlace /\ TiesMove /\ RunsOnTheirDays /\ LandsOnRows
    /\ FailureExplained /\ SearchPagesComplete
=============================================================================
