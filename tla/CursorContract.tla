---------------------------- MODULE CursorContract ----------------------------
(***************************************************************************)
(* What the next() of an iterator keeps to, whatever batches, caches and   *)
(* workers are behind it:                                                  *)
(*  - its rows are all those the table has when the first next() opens the *)
(*    scan, and no row written later is among them;                        *)
(*  - each next() gives the row after the last one given, but a seek(),    *)
(*    which throws, may lose some of the rows to come;                     *)
(*  - the end comes after the last row, or near the limit: no more than a  *)
(*    batch below it, and up to a batch less one row ABOVE it, so that     *)
(*    limit is not the maximum that the documentation makes it;            *)
(*  - the end is final, and so is an error, except one of opening the      *)
(*    scan, which the next next() tries again.                             *)
(***************************************************************************)
EXTENDS Integers, Sequences

CONSTANTS
    Limits,               \* the values of the limit option; not positive: none
    MaxRows,              \* bound: rows in the table
    MaxBatch              \* bound: rows in a batch

VARIABLES
    limit,                \* the option
    table,                \* how many rows the table has
    asked,                \* whether a next() has not called back
    opened,               \* whether the scan is open
    rows,                 \* how many rows it covers
    broken,               \* whether it has failed
    answer,               \* what the last next() called back with
    passed                \* the rows called back, and Dropped for those lost

vars == <<limit, table, asked, opened, rows, broken, answer, passed>>

Row(r)  == <<<<"key", r>>, <<"value", r>>>>
Dropped == <<>>

Init ==
    /\ limit \in Limits
    /\ table \in 0 .. MaxRows
    /\ asked = FALSE /\ opened = FALSE /\ broken = FALSE
    /\ rows = 0
    /\ answer = "none" /\ passed = <<>>

Write ==
    /\ table' = table + 1
    /\ UNCHANGED <<limit, asked, opened, rows, broken, answer, passed>>

Ask ==
    /\ ~asked
    /\ asked' = TRUE
    /\ UNCHANGED <<limit, table, opened, rows, broken, answer, passed>>

Open ==
    /\ asked /\ ~opened
    /\ opened' = TRUE
    /\ rows' = table
    /\ UNCHANGED <<limit, table, asked, broken, answer, passed>>

Break ==
    /\ asked /\ opened /\ ~broken /\ answer # "end"
    /\ broken' = TRUE
    /\ UNCHANGED <<limit, table, asked, opened, rows, answer, passed>>

Answer(a) ==
    /\ asked
    /\ asked' = FALSE
    /\ answer' = a
    /\ UNCHANGED <<limit, table, opened, rows, broken>>

\* Whether n more rows may be passed.
Room(n) ==
    /\ opened /\ ~broken /\ answer # "end"
    /\ Len(passed) + n <= rows
    /\ limit > 0 => Len(passed) + n < limit + MaxBatch

Seek ==
    /\ ~asked
    /\ \E n \in 1 .. rows :
         /\ Room(n)
         /\ passed' = passed \o [row \in 1 .. n |-> Dropped]
    /\ UNCHANGED <<limit, table, asked, opened, rows, broken, answer>>

Deliver ==
    /\ Room(1)
    /\ passed' = Append(passed, Row(Len(passed) + 1))
    /\ Answer("row")

End ==
    /\ opened /\ ~broken
    /\ Len(passed) = rows \/ (limit > 0 /\ Len(passed) + MaxBatch >= limit)
    /\ UNCHANGED passed
    /\ Answer("end")

Fail ==
    /\ broken \/ ~opened
    /\ UNCHANGED passed
    /\ Answer("error")

Next == Write \/ Ask \/ Seek \/ Open \/ Break \/ Deliver \/ End \/ Fail

Spec == Init /\ [][Next]_vars

=============================================================================
