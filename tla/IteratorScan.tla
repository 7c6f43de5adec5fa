----------------------------- MODULE IteratorScan -----------------------------
(***************************************************************************)
(* The rows of one iterator, from the Kudu scanner to the callbacks of     *)
(* iterator.next(): IteratorNext (iterator.cc) reads batches and stops at  *)
(* the limit and at highWaterMark, NextWorker (iterator_async.cc) turns a  *)
(* result into the array that iterator.js keeps as its cache and pops from *)
(* its end.                                                                *)
(*                                                                         *)
(* Rows are numbered in the order the scanner returns them, and every row  *)
(* counts one against highWaterMark.  The scanner is external: it returns  *)
(* the rows the table had when it was opened, in batches of any size, some *)
(* of them empty, or fails.  IteratorLifecycle models end() and close().   *)
(***************************************************************************)
EXTENDS Integers, Sequences

CONSTANTS
    Limits,               \* the values of the limit option; not positive: none
    HighWaterMarks,       \* the values of the highWaterMark option
    MaxRows,              \* bound: rows in the table
    MaxBatch,             \* bound: rows in a batch of the scanner
    MaxEmpty              \* bound: empty batches in a scan

ASSUME ScanAssumption ==
    /\ Limits \subseteq Int
    /\ HighWaterMarks \subseteq Nat
    /\ MaxRows \in Nat
    /\ MaxBatch \in Nat \ {0}
    /\ MaxEmpty \in Nat

VARIABLES
    limit, highWaterMark, \* the iterator's options
    table,                \* how many rows the table has
    \* KuduScanner
    scanRows,             \* how many rows this scan covers
    fetched,              \* how many of them NextBatch has returned
    empties,              \* empty batches still to come
    \* native Iterator, iterator.h
    scanner,              \* whether the pointer holds a scanner
    iteratorStatus,       \* whether it is OK
    batchRowCount, currentRowCount, totalRowCount,
    result,               \* the rows of the running NextWorker
    \* iterator.js
    cache,                \* keys and values, last row first
    finished,
    \* the pending next()
    pc,                   \* where it is
    answer,               \* history: what the last next() called back with
    passed                \* history: the rows that left the cache, as called back

options == <<limit, highWaterMark>>
source  == <<scanRows, empties>>
counts  == <<batchRowCount, currentRowCount, totalRowCount>>
jsState == <<cache, finished>>
caller  == <<answer, passed>>

vars == <<options, table, source, fetched, scanner, iteratorStatus,
          counts, result, jsState, pc, caller>>

Key(r)   == <<"key", r>>
Value(r) == <<"value", r>>
Rows     == 1 .. MaxRows
Cells    == {Key(r) : r \in Rows} \cup {Value(r) : r \in Rows}

\* What stands in passed for a row that seek() took out of the cache.
Dropped == <<>>

TypeOK ==
    /\ limit \in Limits /\ highWaterMark \in HighWaterMarks
    /\ table \in 0 .. MaxRows
    /\ scanRows \in 0 .. table /\ fetched \in 0 .. scanRows
    /\ empties \in 0 .. MaxEmpty
    /\ scanner \in BOOLEAN /\ iteratorStatus \in BOOLEAN /\ finished \in BOOLEAN
    /\ batchRowCount \in 0 .. MaxBatch /\ currentRowCount \in 0 .. batchRowCount
    /\ totalRowCount \in 0 .. MaxRows
    /\ result \in Seq(Rows) /\ cache \in Seq(Cells)
    /\ pc \in {"idle", "js", "open", "check", "fetch", "emit", "rows", "eof", "error"}
    /\ answer \in {"none", "row", "end", "error"}
    /\ passed \in Seq((Cells \X Cells) \cup {Dropped})

Init ==
    /\ limit \in Limits /\ highWaterMark \in HighWaterMarks
    /\ table \in 0 .. MaxRows
    /\ scanRows = 0 /\ fetched = 0 /\ empties = 0
    /\ scanner = FALSE /\ iteratorStatus = TRUE /\ finished = FALSE
    /\ batchRowCount = 0 /\ currentRowCount = 0 /\ totalRowCount = 0
    /\ result = <<>> /\ cache = <<>>
    /\ pc = "idle" /\ answer = "none" /\ passed = <<>>

-----------------------------------------------------------------------------

\* Another client, or a put() of this one, adds a row.
Write ==
    /\ table < MaxRows
    /\ table' = table + 1
    /\ UNCHANGED <<options, source, fetched, scanner, iteratorStatus,
                   counts, result, jsState, pc, caller>>

-----------------------------------------------------------------------------
(* iterator.js *)

\* The program calls next(); one at a time (AbstractIterator's _nexting).
CallNext ==
    /\ pc = "idle"
    /\ pc' = "js"
    /\ UNCHANGED <<options, table, source, fetched, scanner,
                   iteratorStatus, counts, result, jsState, caller>>

\* The first pop() takes the key, the second the value.
Popped_Swapped(array) == <<array[Len(array) - 1], array[Len(array)]>>
Popped(array)         == <<array[Len(array)], array[Len(array) - 1]>>

\* _next with a cache: the next row of it.
AnswerFromCache ==
    /\ pc = "js"
    /\ cache # <<>>
    /\ passed' = Append(passed, Popped(cache))
    /\ cache' = SubSeq(cache, 1, Len(cache) - 2)
    /\ answer' = "row"
    /\ pc' = "idle"
    /\ UNCHANGED <<options, table, source, fetched, scanner,
                   iteratorStatus, counts, result, finished>>

\* seek() between two calls of next(): the cache goes, then the native seek()
\* throws, and finished stays as it was.
Seek ==
    /\ pc = "idle"
    /\ cache' = <<>>
    /\ passed' = passed \o [row \in 1 .. Len(cache) \div 2 |-> Dropped]
    /\ UNCHANGED <<options, table, source, fetched, scanner, iteratorStatus,
                   counts, result, finished, pc, answer>>

\* _next with no cache left at the end of the data.
AnswerEnd ==
    /\ pc = "js"
    /\ cache = <<>>
    /\ finished
    /\ answer' = "end"
    /\ pc' = "idle"
    /\ UNCHANGED <<options, table, source, fetched, scanner,
                   iteratorStatus, counts, result, jsState, passed>>

\* The scanner is created by the first read that finds none.
ReadBegins_Anew == "open"
ReadBegins      == IF scanner THEN "check" ELSE "open"

\* _next that has to ask the native iterator: a NextWorker is queued.
BindingNext ==
    /\ pc = "js"
    /\ cache = <<>>
    /\ ~finished
    /\ pc' = ReadBegins
    /\ UNCHANGED <<options, table, source, fetched, scanner,
                   iteratorStatus, counts, result, jsState, caller>>

-----------------------------------------------------------------------------
(* Iterator::IteratorNext, on a pool thread *)

\* CreateScanner, on the first read and again after it failed.  It adds no
\* predicate for gt, gte, lt and lte: the scan covers the table.
CreateScanner ==
    /\ pc = "open"
    /\ \/ /\ scanner' = TRUE
          /\ iteratorStatus' = TRUE
          /\ scanRows' = table
          /\ empties' \in 0 .. MaxEmpty
          /\ pc' = "check"
       \/ /\ iteratorStatus' = FALSE
          /\ pc' = "error"
          /\ UNCHANGED <<scanner, source>>
    /\ UNCHANGED <<options, table, fetched, counts, result, jsState, caller>>

StatusBad_Ignored == FALSE
StatusBad         == ~iteratorStatus

LimitReached == limit > 0 /\ totalRowCount >= limit

BatchUsedUp_TooEarly == currentRowCount + 1 >= batchRowCount
BatchUsedUp          == currentRowCount >= batchRowCount

\* The tests before anything is read.  The limit is held against the rows of
\* the batches fetched, not against those returned.
Check ==
    /\ pc = "check"
    /\ \/ /\ StatusBad
          /\ pc' = "error"
          /\ UNCHANGED counts
       \/ /\ ~StatusBad /\ LimitReached
          /\ pc' = "eof"
          /\ UNCHANGED counts
       \/ /\ ~StatusBad /\ ~LimitReached /\ BatchUsedUp
          /\ batchRowCount' = 0
          /\ currentRowCount' = 0
          /\ pc' = "fetch"
          /\ UNCHANGED totalRowCount
       \/ /\ ~StatusBad /\ ~LimitReached /\ ~BatchUsedUp
          /\ pc' = "emit"
          /\ UNCHANGED counts
    /\ UNCHANGED <<options, table, source, fetched, scanner,
                   iteratorStatus, result, jsState, caller>>

HasMoreRows == fetched < scanRows \/ empties > 0

\* NextBatch: some of the rows left, or none; what becomes of empties.
BatchSizes == {n \in 1 .. MaxBatch : n <= scanRows - fetched}

AfterBatch_GiveUpOnEmpty(n) == IF n = 0 THEN "eof" ELSE "emit"
AfterBatch(n)               == IF n = 0 THEN "fetch" ELSE "emit"

Fetch ==
    /\ pc = "fetch"
    /\ HasMoreRows
    /\ \E n \in BatchSizes \cup (IF empties > 0 THEN {0} ELSE {}) :
         /\ batchRowCount' = n
         /\ totalRowCount' = totalRowCount + n
         /\ fetched' = fetched + n
         /\ empties' = IF n = 0 THEN empties - 1 ELSE empties
         /\ pc' = AfterBatch(n)
    /\ UNCHANGED <<options, table, scanRows, scanner, iteratorStatus,
                   currentRowCount, result, jsState, caller>>

\* NextBatch fails; the scanner is closed, but its pointer is kept.
FetchFails ==
    /\ pc = "fetch"
    /\ HasMoreRows
    /\ iteratorStatus' = FALSE
    /\ pc' = "error"
    /\ UNCHANGED <<options, table, source, fetched, scanner, counts,
                   result, jsState, caller>>

FetchDone ==
    /\ pc = "fetch"
    /\ ~HasMoreRows
    /\ pc' = "eof"
    /\ UNCHANGED <<options, table, source, fetched, scanner,
                   iteratorStatus, counts, result, jsState, caller>>

\* batch->Row(currentRowCount), counted from 0 in a batch that ends at fetched.
BatchRow == fetched - batchRowCount + currentRowCount + 1

MayEmit_OffByOne == Len(result) < highWaterMark /\ currentRowCount <= batchRowCount
MayEmit          == Len(result) < highWaterMark /\ currentRowCount < batchRowCount

\* One row of the batch is converted and added to the result.
Emit ==
    /\ pc = "emit"
    /\ MayEmit
    /\ currentRowCount' = currentRowCount + 1
    /\ result' = Append(result, BatchRow)
    /\ UNCHANGED <<options, table, source, fetched, scanner, iteratorStatus,
                   batchRowCount, totalRowCount, jsState, pc, caller>>

\* getSliceAsString fails on the row: the whole read fails.
EmitFails ==
    /\ pc = "emit"
    /\ MayEmit
    /\ currentRowCount' = currentRowCount + 1
    /\ iteratorStatus' = FALSE
    /\ pc' = "error"
    /\ UNCHANGED <<options, table, source, fetched, scanner,
                   batchRowCount, totalRowCount, result, jsState, caller>>

EmitDone ==
    /\ pc = "emit"
    /\ ~MayEmit
    /\ pc' = "rows"
    /\ UNCHANGED <<options, table, source, fetched, scanner,
                   iteratorStatus, counts, result, jsState, caller>>

-----------------------------------------------------------------------------
(* NextWorker's completion, on the main thread *)

\* Row idx (from 0) puts its key in slot size - idx * 2 - 1 and its value
\* before it, of slots counted from 0.
ReturnArray_Ascending(rows) ==
    [slot \in 1 .. 2 * Len(rows) |->
        LET idx == (slot - 1) \div 2
        IN  IF slot % 2 = 0 THEN Key(rows[idx + 1]) ELSE Value(rows[idx + 1])]
ReturnArray(rows) ==
    [slot \in 1 .. 2 * Len(rows) |->
        LET idx == (2 * Len(rows) - slot) \div 2
        IN  IF slot % 2 = 0 THEN Key(rows[idx + 1]) ELSE Value(rows[idx + 1])]

\* "when ok === false all data has been read": IteratorNext answered false.
Finished_Lost(ended) == FALSE
Finished(ended)      == ended

\* HandleOKCallback and the callback in iterator.js, which calls _next again.
Complete ==
    /\ pc \in {"rows", "eof"}
    /\ cache' = ReturnArray(result)
    /\ finished' = Finished(pc = "eof")
    /\ result' = <<>>
    /\ pc' = "js"
    /\ UNCHANGED <<options, table, source, fetched, scanner,
                   iteratorStatus, counts, caller>>

\* HandleErrorCallback: the rows of the result go with the worker.
CompleteError ==
    /\ pc = "error"
    /\ answer' = "error"
    /\ result' = <<>>
    /\ pc' = "idle"
    /\ UNCHANGED <<options, table, source, fetched, scanner,
                   iteratorStatus, counts, jsState, passed>>

-----------------------------------------------------------------------------

Step ==
    \/ AnswerFromCache \/ AnswerEnd \/ BindingNext
    \/ CreateScanner \/ Check
    \/ Fetch \/ FetchFails \/ FetchDone
    \/ Emit \/ EmitFails \/ EmitDone
    \/ Complete \/ CompleteError

Next == Write \/ CallNext \/ Seek \/ Step

Spec == Init /\ [][Next]_vars

\* A next() that was called runs on: the event loop and the pool see to it.
FairSpec == Spec /\ WF_vars(Step)

-----------------------------------------------------------------------------
(* Safety *)

\* What next() calls back with is the scan from its first row, each key with
\* its own value, no row twice and none left out but those that a seek() threw
\* away with the cache, whatever the batches and however many reads of
\* highWaterMark rows it took (iterator.cc, IteratorNext; iterator_async.cc,
\* HandleOKCallback; iterator.js, _next and seek).
RowsInOrder ==
    \A k \in 1 .. Len(passed) : passed[k] \in {<<Key(k), Value(k)>>, Dropped}

\* As long as nothing failed, every row fetched has been passed to next() or
\* dropped by seek(), or is in one of three places: the cache, the result of
\* the running worker, the unread part of the batch.
RowsAccounted ==
    iteratorStatus /\ scanner =>
        /\ totalRowCount = fetched
        /\ fetched = Len(passed) + Len(cache) \div 2 + Len(result)
                       + (batchRowCount - currentRowCount)

\* next() says that the data has ended only when every row of the scan has
\* been passed, or as many as the limit have been fetched.
EndMeansEnd ==
    answer = "end" => Len(passed) = scanRows \/ (limit > 0 /\ fetched >= limit)

\* The limit may be passed, but by less than a batch of the scanner.
LimitPassedByLessThanABatch ==
    limit > 0 => Len(passed) < limit + MaxBatch

\* A read that failed is final: later calls deliver nothing more and never
\* take the failure for the end of the data (the sticky iteratorStatus).
ErrorIsFinal ==
    [][scanner /\ ~iteratorStatus =>
        ~iteratorStatus' /\ passed' = passed /\ answer' # "end"]_vars

\* Every next() calls back if highWaterMark lets a read return rows; with 0
\* iterator.js and the native iterator call each other without end.
NextReturns == highWaterMark > 0 /\ pc # "idle" ~> pc = "idle"

-----------------------------------------------------------------------------
(* What the documentation says *)

Delivered(row) == row # Dropped

\* README, limit: "limit the number of results collected by this iterator. This
\* number represents a *maximum* number of results".
LimitRespected ==
    limit > 0 => Len(SelectSeq(passed, Delivered)) <= limit

-----------------------------------------------------------------------------
(* The promise this implements *)

Cursor == INSTANCE CursorContract WITH
    asked  <- pc # "idle",
    opened <- scanner,
    rows   <- scanRows,
    broken <- scanner /\ ~iteratorStatus

\* Every behaviour of the code is one the contract allows: to the program an
\* iterator is a cursor over all the rows there were at its first next() (not
\* at iterator(), and whatever range it was given), which ends within a batch
\* of its limit, however its reads are cut into batches, results and caches.
ImplementsCursor == Cursor!Spec

=============================================================================
