-------------------------------- MODULE Listing --------------------------------
(***************************************************************************)
(* What the lists of the service have in common: a filter, an order, a     *)
(* window of PageSize rows and the number of pages.  The database orders   *)
(* rows that tie as it likes, so an order stands for a set of sequences.   *)
(***************************************************************************)
EXTENDS Integers, Sequences, FiniteSets, SequencesExt

CONSTANTS
    PageSize,       (* rows of a page                                      *)
    None            (* no date, no filter, no row                          *)

ASSUME PageSizeAssumption == PageSize \in Nat \ {0}

Sorts == {"asc", "desc"}

(* A mutated form of TotalPages: a last page that is full is not the last. *)
TotalPagesRoundedUpTwice(total) == total \div PageSize + 1

(* At least 1, so that an empty list has a page. *)
TotalPages(total) ==
    LET n == (total + PageSize - 1) \div PageSize IN IF n > 1 THEN n ELSE 1

(* A mutated form of Window: pages counted from 0. *)
WindowFromZero(s, page) == SubSeq(s, page * PageSize + 1, Len(s))

(* OFFSET and LIMIT; empty beyond the end. *)
Window(s, page) ==
    LET first == (page - 1) * PageSize + 1
        last  == page * PageSize
    IN SubSeq(s, first, IF last < Len(s) THEN last ELSE Len(s))

(* The sequences of the elements of S that a sort may return; before is the *)
(* set of pairs that the ORDER BY tells apart, in order.                    *)
OrdersOf(S, before) ==
    {s \in SetToSeqs(S) : \A i, j \in 1..Len(s) : i < j => <<s[j], s[i]>> \notin before}

(* One column: ascending or descending. *)
Precedes(a, b, sort) == IF sort = "asc" THEN a < b ELSE a > b

-----------------------------------------------------------------------------
(* Events: records with owner, key, made and reviewed, whose key determines *)
(* date, type and the words that a search looks into.                       *)

(* NULLS LAST, whatever the direction. *)
DateBefore(a, b, sort) ==
    a # None /\ (b = None \/ Precedes(a, b, sort))

(* A bound is not met by a NULL. *)
DateWithin(d, from, to) ==
    /\ from # None => d # None /\ d >= from
    /\ to   # None => d # None /\ d <= to

-----------------------------------------------------------------------------
(* The search of the events: a text is a sequence of characters, "x" and    *)
(* "y" standing for those that LIKE gives no meaning.                       *)

Replace(s, char, by) ==
    FlattenSeq([i \in DOMAIN s |-> IF s[i] = char THEN by ELSE <<s[i]>>])

(* A mutated form of Escaped: the backslash is escaped last. *)
EscapedBackslashLast(s) ==
    Replace(Replace(Replace(s, "pct", <<"bs", "pct">>), "us", <<"bs", "us">>), "bs", <<"bs", "bs">>)

Escaped(s) ==
    Replace(Replace(Replace(s, "bs", <<"bs", "bs">>), "pct", <<"bs", "pct">>), "us", <<"bs", "us">>)

LikePattern(search) == <<"pct">> \o Escaped(search) \o <<"pct">>

(* What the database's LIKE ... ESCAPE does: match is whether the text from  *)
(* place i on is as the pattern from place j on says.                       *)
Like(text, pattern) ==
    LET n == Len(text)
        m == Len(pattern)
        match[x \in (1..(n + 1)) \X (1..(m + 2))] ==
            LET i == x[1]
                j == x[2]
            IN IF j > m THEN j = m + 1 /\ i = n + 1
               ELSE CASE pattern[j] = "pct" -> match[<<i, j + 1>>]
                                               \/ (i <= n /\ match[<<i + 1, j>>])
                      [] pattern[j] = "us"  -> i <= n /\ match[<<i + 1, j + 1>>]
                      [] pattern[j] = "bs"  -> /\ i <= n /\ j < m /\ text[i] = pattern[j + 1]
                                               /\ match[<<i + 1, j + 2>>]
                      [] OTHER -> i <= n /\ text[i] = pattern[j] /\ match[<<i + 1, j + 1>>]
    IN match[<<1, 1>>]
=============================================================================
