----------------------------- MODULE MCEventStore -----------------------------
(* Instances of EventStore for TLC. *)
EXTENDS EventStore

CONSTANTS me, other, e1, e2, e3, k1, k2, k3, q1

Users    == {me, other}
Ids      == {e1, e2, e3}
Keys     == {k1, k2, k3}
OneAtATime == {q1}

(* Two events without a date and one with. *)
Dates == [k \in Keys |-> IF k = k1 THEN 1 ELSE None]
Types3 == [k \in Keys |-> IF k = k3 THEN "medical" ELSE "meeting"]

Extracted == {<<me, {k1, k2}>>, <<me, {k2, k3}>>, <<other, {k1}>>}

(* One id, several, and the same twice. *)
Sent == {<<e1, e1>>, <<e1, e2>>, <<e3, e2>>}

Unfiltered == [show_reviewed |-> FALSE, type |-> None, from |-> None, to |-> None]

Ask(how, filter, sort, page) ==
    [how |-> how, who |-> me, filter |-> filter, sort |-> sort, page |-> page]

(* The dashboard as it opens, the same for the meetings of a day, and a     *)
(* client of the JSON endpoint that wants everything, the oldest first.     *)
Asked ==
    {Ask("page", Unfiltered, "desc", 1),
     Ask("page", [Unfiltered EXCEPT !.type = "meeting", !.from = 1, !.to = 1], "desc", 1),
     Ask("json", [Unfiltered EXCEPT !.show_reviewed = TRUE], "asc", 1)}
=============================================================================
