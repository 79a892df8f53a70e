-------------------------------- MODULE MCRules --------------------------------
(* Inputs of up to five items, at the boundaries of each rule: a window of  *)
(* 7 days around the turn of the year, pages of two rows, days of two ticks. *)
EXTENDS Rules

Member(shapes, names, sizes, holds, ignored) ==
    [shape : shapes, name : names, size : sizes, holds : holds, ignored : {ignored}]

MCItemsOf ==
    [archive |-> Member({"txt"}, {1, 2}, {1, 2}, {"text", "broken"}, FALSE)
                    \cup Member({"chat"}, {1, 2}, {1}, {"text", "huge"}, FALSE)
                    \cup Member({"plain"}, {1, 2}, {1}, {"text", "binary", "broken"}, FALSE)
                    \cup Member({"dotted"}, {1}, {2}, {"text"}, FALSE)
                    \cup Member({"chat", "plain"}, {1}, {2}, {"text"}, TRUE),
     chat    |-> [what : {"message"}, day : DOMAIN Days] \cup [what : {"other", "rogue"}, day : {1}],
     date    |-> [digit : {TRUE}, date : {NoDate, 2, 3}]
                    \cup [digit : {FALSE}, date : {NoDate, 1}],
     search  |-> {"bs", "pct", "us", "x"},
     path    |-> {Slash, "a", "b"},
     runs    |-> [made : 0..3, filename : {1, 2}, status : {1, 2}],
     steps   |-> [status : {"completed", "failed"}, lines : {<<>>, <<"l1">>, <<"l2", "l3">>}],
     lines   |-> {"hit", "miss", "near"}]

MCMaxItems ==
    [archive |-> 3, chat |-> 5, date |-> 3, search |-> 3, path |-> 5, runs |-> 3, steps |-> 3,
     lines |-> 4]

MCDays ==
    <<<<2025, 12, 31>>, <<2026, 1, 1>>, <<2026, 1, 7>>, <<2026, 8, 1>>>>
=============================================================================
