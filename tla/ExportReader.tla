------------------------------ MODULE ExportReader ------------------------------
(***************************************************************************)
(* What the service makes of an exported chat before the model reads it:   *)
(* the member of an archive it takes (archive.py), the recent window of    *)
(* the messages (message_filter.py), and the one date it keeps of an       *)
(* extracted event (date_parser.py).                                       *)
(***************************************************************************)
EXTENDS Integers, Sequences, FiniteSetsExt

CONSTANTS
    WindowDays,     (* window_days                                         *)
    NoDate          (* no date                                             *)

ASSUME WindowAssumption == WindowDays \in Nat \ {0} /\ NoDate \notin Int

-----------------------------------------------------------------------------
(* archive.py.  A member: the shape of its basename ("chat" for _chat.txt,  *)
(* "txt", "plain" without a dot, "dotted"), its place in the order of       *)
(* names, its size, what a read of it gives, and whether it is a directory  *)
(* or macOS cruft.                                                          *)

Found(i)    == [member |-> i, error |-> "none"]
Failed(why) == [member |-> 0, error |-> why]

Read(ms, i) ==
    CASE ms[i].holds = "broken" -> Failed("unreadable")
      [] ms[i].holds = "huge"   -> Failed("too_large")
      [] OTHER                  -> Found(i)

(* Sorted by size, then by name; the sort is stable. *)
LargestText(ms, texts) ==
    Min({i \in texts : \A j \in texts :
            \/ ms[i].size > ms[j].size
            \/ ms[i].size = ms[j].size /\ ms[i].name <= ms[j].name})

Nameless(m) == m.shape = "plain"

ExtractZip(ms) ==
    LET members == {i \in DOMAIN ms : ~ms[i].ignored}
        chats   == {i \in members : ms[i].shape = "chat"}
        texts   == {i \in members : ms[i].shape = "txt"}
        (* those with a NUL are passed over, an error is not *)
        rest    == {i \in members : Nameless(ms[i]) /\ ms[i].holds # "binary"}
    IN CASE chats # {} -> Read(ms, Min(chats))
         [] chats = {} /\ texts # {} -> Read(ms, LargestText(ms, texts))
         [] chats = {} /\ texts = {} /\ rest # {} -> Read(ms, Min(rest))
         [] OTHER -> Failed("no_chat")

-----------------------------------------------------------------------------
(* message_filter.py.  A line that begins with a timestamp is a record of   *)
(* its three numbers as written; any other line is a continuation.          *)

Continuation == [dated |-> FALSE]

LineDate(a, b, year, iso) == [dated |-> TRUE, a |-> a, b |-> b, year |-> year, iso |-> iso]

NormaliseYear(y) == IF y >= 100 THEN y ELSE IF y < 69 THEN 2000 + y ELSE 1900 + y

(* The proleptic Gregorian calendar of datetime.date. *)
Leap(y) == y % 4 = 0 /\ (y % 100 # 0 \/ y % 400 = 0)

MonthDays(y) == <<31, IF Leap(y) THEN 29 ELSE 28, 31, 30, 31, 30, 31, 31, 30, 31, 30, 31>>

DaysBefore == <<0, 31, 59, 90, 120, 151, 181, 212, 243, 273, 304, 334>>

Ordinal(y, m, d) ==
    365 * (y - 1) + (y - 1) \div 4 - (y - 1) \div 100 + (y - 1) \div 400
        + DaysBefore[m] + (IF m > 2 /\ Leap(y) THEN 1 ELSE 0) + d

(* A mutated form of InferDateOrder: one line is enough for DMY. *)
InferDateOrderByOne(lines) ==
    IF \E i \in DOMAIN lines : lines[i].dated /\ ~lines[i].iso /\ lines[i].a > 12
    THEN "DMY" ELSE "MDY"

(* The majority of the lines that only one order can read; MDY on a tie. *)
InferDateOrder(lines) ==
    LET votes == {i \in DOMAIN lines : lines[i].dated /\ ~lines[i].iso}
        dmy   == Cardinality({i \in votes : lines[i].a > 12})
        mdy   == Cardinality({i \in votes : lines[i].b > 12})
    IN IF dmy > mdy THEN "DMY" ELSE "MDY"

(* The day of a line, if there is such a day. *)
Resolve(line, order) ==
    IF ~line.dated THEN NoDate
    ELSE LET y     == NormaliseYear(line.year)
             month == IF line.iso \/ order = "MDY" THEN line.a ELSE line.b
             day   == IF line.iso \/ order = "MDY" THEN line.b ELSE line.a
         IN IF month \in 1..12 /\ day >= 1 /\ day <= MonthDays(y)[month]
            THEN Ordinal(y, month, day) ELSE NoDate

InWindow(d, anchor) == anchor - WindowDays < d /\ d <= anchor

(* filter_messages_within_window: the lines kept.  A line without a date    *)
(* goes with the dated line before it; those before the first are kept.     *)
KeptLines(lines) ==
    LET order  == InferDateOrder(lines)
        day(i) == Resolve(lines[i], order)
        dated  == {i \in DOMAIN lines : day(i) # NoDate}
        anchor == Max({day(i) : i \in dated})
        head(i) == {j \in dated : j <= i}
    IN IF dated = {} THEN DOMAIN lines
       ELSE {i \in DOMAIN lines : head(i) # {} => InWindow(day(Max(head(i))), anchor)}

-----------------------------------------------------------------------------
(* date_parser.py.  A fragment between commas: whether it has a digit, and  *)
(* what the fuzzy parser makes of it.                                       *)

Parseable(f) == f.digit /\ f.date # NoDate

ParseEarliestDate(fragments) ==
    LET dates == {fragments[i].date : i \in {j \in DOMAIN fragments : Parseable(fragments[j])}}
    IN IF dates = {} THEN NoDate ELSE Min(dates)
=============================================================================
