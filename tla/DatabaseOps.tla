------------------------------ MODULE DatabaseOps ------------------------------
(***************************************************************************)
(* open, put, get, del and batch of a Database (database.cc, write_batch.h,*)
(* batch.cc), each with the worker that runs it on a pool thread, against  *)
(* one Kudu table.                                                         *)
(*                                                                         *)
(* Calls in flight take their steps in any order: that is more than a pool *)
(* of any size allows.  The program is taken to call open() with no other  *)
(* call in flight, which levelup sees to (README, Database state).  The    *)
(* server is external: it applies one row operation at a time, may refuse  *)
(* any of them, and may apply one and lose the answer.                     *)
(***************************************************************************)
EXTENDS Integers, Sequences, SequencesExt

CONSTANTS
    Calls,                \* the calls of put, get, del and batch
    Keys,
    Values,               \* the values put() is given
    Empty,                \* the zero-length one among them
    MaxOps,               \* bound: operations in a batch
    NULL, NoRow           \* a column that is not set, a row that is not there

ASSUME OpsAssumption ==
    /\ Empty \in Values
    /\ MaxOps \in Nat \ {0}
    /\ NULL \notin Values /\ NoRow \notin Values /\ NULL # NoRow

VARIABLES
    settable,             \* whether the table's value column is a STRING
    keyed,                \* whether its key column is called "key"
    \* Database, database.h
    kuduClientPtr, tablePtr, \* whether they point to anything
    tableStatus,          \* whether it is OK
    \* the Kudu table
    table,                \* the value column of every row
    \* the calls
    kind,                 \* which method
    ops,                  \* its operations
    hasData,              \* Batch: "whether we're writing data or not"
    phase,                \* where the call is
    applied,              \* how many operations WriteBatchToDatabase has applied
    pending,              \* those the session has not flushed, as applied
    flushed,              \* whether the flush has met no error so far
    status,               \* what the callback is given
    value,                \* and the value, for get
    \* history
    succeeded,            \* the operations the server has reported done
    last,                 \* the last write of each row: <<>>, or a call and a place in it
    asked                 \* what the row of a get was last asked to hold, during the call

db      == <<settable, keyed, kuduClientPtr, tablePtr, tableStatus>>
request == <<kind, ops, hasData>>
session == <<applied, pending, flushed>>
reply   == <<status, value>>
history == <<succeeded, last, asked>>

vars == <<db, table, request, phase, session, reply, history>>

OpsOf(c) == 1 .. Len(ops[c])

Writes     == [type : {"put"}, key : Keys, value : Values] \cup [type : {"del"}, key : Keys]
Operations == Writes \cup [type : {"get"}, key : Keys]

InFlight(c) == phase[c] \in {"called", "flushing"}
Done(c)     == phase[c] = "returned"

\* What an operation asks its row to hold, and what the last write of a row did.
AskedBy(op) == IF op.type = "put" THEN op.value ELSE NoRow
Asked(k)    == IF last[k] = <<>> THEN NoRow ELSE AskedBy(ops[last[k][1]][last[k][2]])

\* The types, and hasData's meaning: the batch has an operation to write.
TypeOK ==
    /\ settable \in BOOLEAN /\ keyed \in BOOLEAN
    /\ kuduClientPtr \in BOOLEAN /\ tablePtr \in BOOLEAN /\ tableStatus \in BOOLEAN
    /\ table \in [Keys -> Values \cup {NULL, NoRow}]
    /\ kind \in [Calls -> {"none", "put", "get", "del", "batch"}]
    /\ \A c \in Calls : ops[c] \in Seq(Operations) /\ Len(ops[c]) <= MaxOps
    /\ \A c \in Calls : hasData[c] = (kind[c] = "batch" /\ ops[c] # <<>>)
    /\ phase \in [Calls -> {"none", "building", "called", "flushing", "returned"}]
    /\ \A c \in Calls : applied[c] \in {0} \cup OpsOf(c)
    /\ \A c \in Calls : pending[c] \in Seq(OpsOf(c))
    /\ flushed \in [Calls -> BOOLEAN]
    /\ status \in [Calls -> {"none", "ok", "error", "notfound"}]
    /\ value \in [Calls -> Values \cup {NULL}]
    /\ \A c \in Calls : succeeded[c] \subseteq OpsOf(c)
    /\ \A k \in Keys :
         last[k] = <<>> \/ \E c \in Calls : \E i \in OpsOf(c) : last[k] = <<c, i>>
    /\ asked \in [Calls -> SUBSET (Values \cup {NoRow})]

Init ==
    /\ settable \in BOOLEAN /\ keyed \in BOOLEAN
    /\ kuduClientPtr = FALSE /\ tablePtr = FALSE /\ tableStatus = TRUE
    /\ table = [k \in Keys |-> NoRow]
    /\ kind = [c \in Calls |-> "none"]
    /\ ops = [c \in Calls |-> <<>>]
    /\ hasData = [c \in Calls |-> FALSE]
    /\ phase = [c \in Calls |-> "none"]
    /\ applied = [c \in Calls |-> 0]
    /\ pending = [c \in Calls |-> <<>>]
    /\ flushed = [c \in Calls |-> TRUE]
    /\ status = [c \in Calls |-> "none"]
    /\ value = [c \in Calls |-> NULL]
    /\ succeeded = [c \in Calls |-> {}]
    /\ last = [k \in Keys |-> <<>>]
    /\ asked = [c \in Calls |-> {}]

-----------------------------------------------------------------------------
(* open() *)

TableStatusAfter_NotKept(ok) == tableStatus
TableStatusAfter(ok)         == ok

\* OpenWorker: connect(), then openTable().  Either may fail, and then leaves
\* the pointer it would have set as it was.
Open ==
    /\ \A c \in Calls : ~InFlight(c)
    /\ \/ UNCHANGED <<kuduClientPtr, tablePtr, tableStatus>>      \* connect() fails
       \/ /\ kuduClientPtr' = TRUE
          /\ \E ok \in BOOLEAN :
               /\ tablePtr' = (tablePtr \/ ok)
               /\ tableStatus' = TableStatusAfter(ok)
    /\ UNCHANGED <<settable, keyed, table, request, phase, session, reply, history>>

-----------------------------------------------------------------------------
(* The calls *)

Call(c, method, op) ==
    /\ phase[c] = "none"
    /\ kind' = [kind EXCEPT ![c] = method]
    /\ ops' = [ops EXCEPT ![c] = <<op>>]
    /\ phase' = [phase EXCEPT ![c] = "called"]
    /\ UNCHANGED <<db, table, hasData, session, reply, succeeded, last>>

Put(c, k, v) ==
    Call(c, "put", [type |-> "put", key |-> k, value |-> v]) /\ UNCHANGED asked

Del(c, k) ==
    Call(c, "del", [type |-> "del", key |-> k]) /\ UNCHANGED asked

Get(c, k) ==
    /\ Call(c, "get", [type |-> "get", key |-> k])
    /\ asked' = [asked EXCEPT ![c] = {Asked(k)}]

\* db.batch(): a Batch object.  db.batch(array, callback) fills a WriteBatch
\* the same way and writes it at once.
BatchNew(c) ==
    /\ phase[c] = "none"
    /\ kind' = [kind EXCEPT ![c] = "batch"]
    /\ phase' = [phase EXCEPT ![c] = "building"]
    /\ UNCHANGED <<db, table, ops, hasData, session, reply, history>>

\* batch.put() and batch.del().
BatchAdd(c, op) ==
    /\ phase[c] = "building"
    /\ Len(ops[c]) < MaxOps
    /\ ops' = [ops EXCEPT ![c] = Append(@, op)]
    /\ hasData' = [hasData EXCEPT ![c] = TRUE]
    /\ UNCHANGED <<db, table, kind, phase, session, reply, history>>

HasDataAfterClear_Kept(c) == hasData[c]
HasDataAfterClear(c)      == FALSE

BatchClear(c) ==
    /\ phase[c] = "building"
    /\ ops' = [ops EXCEPT ![c] = <<>>]
    /\ hasData' = [hasData EXCEPT ![c] = HasDataAfterClear(c)]
    /\ UNCHANGED <<db, table, kind, phase, session, reply, history>>

\* "don't allow an empty batch through": its callback runs at once.
BatchWrite(c) ==
    /\ phase[c] = "building"
    /\ \/ /\ hasData[c]
          /\ phase' = [phase EXCEPT ![c] = "called"]
          /\ UNCHANGED status
       \/ /\ ~hasData[c]
          /\ phase' = [phase EXCEPT ![c] = "returned"]
          /\ status' = [status EXCEPT ![c] = "ok"]
    /\ UNCHANGED <<db, table, request, session, value, history>>

-----------------------------------------------------------------------------
(* The server *)

\* The columns an operation of a WriteBatch sets: addValue appends to keys,
\* and nothing zero-length is added.
Columns_KeyOnly(op) == {"key"}
Columns(op) ==
    IF op.type = "put" /\ op.value # Empty THEN {"key", "value"} ELSE {"key"}

\* A delete needs the row to be there.
Doable(op) == op.type = "del" => table[op.key] # NoRow

\* An upsert leaves a column that it does not set as it was.
RowAfter(op, columns) ==
    IF op.type = "del" THEN NoRow
    ELSE IF "value" \in columns THEN op.value
    ELSE IF table[op.key] = NoRow THEN NULL ELSE table[op.key]

\* Operation i of call c reaches the server, and is done or not; if done, the
\* answer ok may be lost.
ServerWrite(c, i, columns, ok) ==
    LET op == ops[c][i]
        k  == op.key
    IN  \/ /\ ~ok
           /\ UNCHANGED <<table, history>>
        \/ /\ Doable(op)
           /\ table' = [table EXCEPT ![k] = RowAfter(op, columns)]
           /\ last' = [last EXCEPT ![k] = <<c, i>>]
           /\ succeeded' = IF ok THEN [succeeded EXCEPT ![c] = @ \cup {i}] ELSE succeeded
           /\ asked' = [d \in Calls |->
                          IF InFlight(d) /\ kind[d] = "get" /\ ops[d][1].key = k
                          THEN asked[d] \cup {AskedBy(op)} ELSE asked[d]]

-----------------------------------------------------------------------------
(* The workers, on pool threads *)

Opened == kuduClientPtr /\ tablePtr

Working(c, method) == phase[c] = "called" /\ kind[c] = method /\ Opened

Return(c, st) ==
    /\ phase' = [phase EXCEPT ![c] = "returned"]
    /\ status' = [status EXCEPT ![c] = st]

Status(ok) == IF ok THEN "ok" ELSE "error"

\* Every ...Database method first looks at the two pointers; without a table it
\* returns the status that openTable left.
Refuse(c) ==
    /\ phase[c] = "called"
    /\ \/ ~kuduClientPtr /\ Return(c, "error")
       \/ kuduClientPtr /\ ~tablePtr /\ Return(c, Status(tableStatus))
    /\ UNCHANGED <<db, table, request, session, value, history>>

\* What Apply returns is what the call returns.
ApplyStatus_Ignored(ok) == "ok"
ApplyStatus(ok)         == Status(ok)

\* Both columns are set, and Apply flushes.
PutToDatabase(c) ==
    /\ Working(c, "put")
    /\ \/ /\ settable
          /\ \E ok \in BOOLEAN :
               ServerWrite(c, 1, {"key", "value"}, ok) /\ Return(c, ApplyStatus(ok))
       \/ /\ ~settable
          /\ Return(c, "error")
          /\ UNCHANGED <<table, history>>
    /\ UNCHANGED <<db, request, session, value>>

\* find_first_of looks for any one of the characters of "key not found", and
\* every error's text has some of them.
DeleteFromDatabase(c) ==
    /\ Working(c, "del")
    /\ \E ok \in BOOLEAN : ServerWrite(c, 1, {"key"}, ok)
    /\ Return(c, "ok")
    /\ UNCHANGED <<db, request, session, value>>

\* num_rows decides.
GetStatus_RowsNotCounted(cell) == "ok"
GetStatus(cell)                == IF cell = NoRow THEN "notfound" ELSE "ok"

\* The rows of the scan.  A predicate that cannot be added, on a table with no
\* column "key", is logged, and the scan is then one of the whole table.
RowsScanned(c) == IF keyed THEN {ops[c][1].key} ELSE Keys

\* The value is that of the row read last, if one was; a NextBatch that fails
\* reads none and its status is ignored.  getSliceAsString fails on a NULL,
\* which is ignored too, and leaves the value empty.
GetFromDatabase(c) ==
    /\ Working(c, "get")
    /\ \/ /\ Return(c, "error")                      \* the scanner does not open
          /\ UNCHANGED value
       \/ \E cell \in {table[k] : k \in RowsScanned(c)} \cup {NoRow} :
            /\ Return(c, GetStatus(cell))
            /\ value' = [value EXCEPT ![c] = IF cell \in Values THEN cell ELSE Empty]
    /\ UNCHANGED <<db, table, request, session, history>>

\* WriteBatchToDatabase, MANUAL_FLUSH: the next operation goes to the session.
NextOperation_FromTheEnd(c) == Len(ops[c]) - applied[c]
NextOperation(c)            == applied[c] + 1

ColumnsRefused(c) == ~settable /\ "value" \in Columns(ops[c][NextOperation(c)])

ApplyOperation(c) ==
    /\ Working(c, "batch")
    /\ applied[c] < Len(ops[c])
    /\ ~ColumnsRefused(c)
    /\ applied' = [applied EXCEPT ![c] = @ + 1]
    /\ pending' = [pending EXCEPT ![c] = Append(@, NextOperation(c))]
    /\ UNCHANGED <<db, table, request, phase, flushed, reply, history>>

\* The session has no room for it, and is closed with nothing sent.
ApplyFails(c) ==
    /\ Working(c, "batch")
    /\ applied[c] < Len(ops[c])
    /\ ~ColumnsRefused(c)
    /\ pending' = [pending EXCEPT ![c] = <<>>]
    /\ Return(c, ApplyStatus(FALSE))
    /\ UNCHANGED <<db, table, request, applied, flushed, value, history>>

\* All operations are applied, or a column of the next cannot be set: what the
\* session holds is flushed, and either way only the status of that is returned.
BeginFlush(c) ==
    /\ Working(c, "batch")
    /\ applied[c] < Len(ops[c]) => ColumnsRefused(c)
    /\ phase' = [phase EXCEPT ![c] = "flushing"]
    /\ UNCHANGED <<db, table, request, session, reply, history>>

\* The flush keeps the order of the operations on one row, and no other.
Flushable(c) ==
    {n \in DOMAIN pending[c] :
        \A m \in 1 .. n - 1 : ops[c][pending[c][m]].key # ops[c][pending[c][n]].key}

FlushOperation(c) ==
    /\ phase[c] = "flushing"
    /\ \E n \in Flushable(c), ok \in BOOLEAN :
         /\ ServerWrite(c, pending[c][n], Columns(ops[c][pending[c][n]]), ok)
         /\ pending' = [pending EXCEPT ![c] = RemoveAt(@, n)]
         /\ flushed' = [flushed EXCEPT ![c] = @ /\ ok]
    /\ UNCHANGED <<db, request, phase, applied, reply>>

EndFlush(c) ==
    /\ phase[c] = "flushing"
    /\ pending[c] = <<>>
    /\ Return(c, Status(flushed[c]))
    /\ UNCHANGED <<db, table, request, session, value, history>>

-----------------------------------------------------------------------------

Program(c) ==
    \/ \E k \in Keys, v \in Values : Put(c, k, v)
    \/ \E k \in Keys : Del(c, k) \/ Get(c, k)
    \/ BatchNew(c) \/ BatchClear(c) \/ BatchWrite(c)
    \/ \E op \in Writes : BatchAdd(c, op)

Work(c) ==
    \/ Refuse(c)
    \/ PutToDatabase(c) \/ DeleteFromDatabase(c) \/ GetFromDatabase(c)
    \/ ApplyOperation(c) \/ ApplyFails(c)
    \/ BeginFlush(c) \/ FlushOperation(c) \/ EndFlush(c)

Next == Open \/ \E c \in Calls : Program(c) \/ Work(c)

Spec == Init /\ [][Next]_vars

-----------------------------------------------------------------------------
(* Safety *)

\* A put() or batch() that reports success has been carried out: the server has
\* reported every operation of it done, none was dropped on an error path and
\* no error of an earlier operation was forgotten.  Of a table whose value
\* column is a STRING; BatchReportsFailure is about the others.
AckedWritesSucceeded ==
    \A c \in Calls :
        Done(c) /\ status[c] = "ok" /\ kind[c] \in {"put", "batch"} /\ settable =>
            succeeded[c] = OpsOf(c)

\* Nothing is acknowledged by a Database that has opened no table, though the
\* status returned then is one that an earlier open() left in tableStatus.
AckedMeansOpened ==
    \A c \in Calls : Done(c) /\ status[c] = "ok" /\ ops[c] # <<>> => Opened

\* "A list of operations to be executed sequentially": of the operations of a
\* successful batch on a row, none is applied after the last one.
LastOfBatchWins ==
    \A k \in Keys, c \in Calls : \A i, j \in OpsOf(c) :
        /\ Done(c) /\ status[c] = "ok" /\ settable
        /\ last[k] = <<c, i>> /\ ops[c][j].key = k
        => j <= i

\* Of a table whose key column is called "key": a get() that finds a value finds
\* one that the row was asked to hold during the call, by whichever of put() and
\* batch() and whatever else was running.  Of other tables it may find another
\* row's (database.cc:179), and of a row that a batch was asked to hold a
\* zero-length value the one before (write_batch.cc:30).
GetReturnsWhatWasAsked ==
    \A c \in Calls :
        Done(c) /\ kind[c] = "get" /\ status[c] = "ok" /\ keyed /\ Empty \notin asked[c] =>
            value[c] \in asked[c]

-----------------------------------------------------------------------------
(* What the documentation says *)

\* README, leveldown#batch: the callback gets "a single error argument if the
\* operation failed for any reason".
BatchReportsFailure ==
    \A c \in Calls :
        Done(c) /\ status[c] = "ok" /\ kind[c] = "batch" => succeeded[c] = OpsOf(c)

\* README, leveldown#batch: "as a whole they are performed as an atomic
\* operation".  When a batch of put()s has been answered, it has written all of
\* its rows or none, if no other call wrote them.  Of a table whose value column
\* is a STRING; BatchReportsFailure is about the others.
WrittenBy(c)       == {k \in Keys : last[k] # <<>> /\ last[k][1] = c}
WrittenByOthers(c) == UNION {WrittenBy(d) : d \in Calls \ {c}}
RowsOf(c)          == {ops[c][i].key : i \in OpsOf(c)}

BatchIsAtomic ==
    \A c \in Calls :
        /\ Done(c) /\ kind[c] = "batch" /\ settable
        /\ \A i \in OpsOf(c) : ops[c][i].type = "put"
        /\ RowsOf(c) \cap WrittenByOthers(c) = {}
        => WrittenBy(c) \in {{}, RowsOf(c)}

-----------------------------------------------------------------------------
(* The promise this implements *)

\* Calls that have been made.  A batch that is being built is none, and neither
\* is an empty one.
Made(c) == phase[c] \in {"called", "flushing", "returned"} /\ ops[c] # <<>>

\* The operations that may still reach the server: those in the session and
\* those not applied yet.
Left(c) ==
    CASE phase[c] = "called"   -> OpsOf(c)
      [] phase[c] = "flushing" -> {i \in OpsOf(c) : i > applied[c] \/ i \in ToSet(pending[c])}
      [] OTHER                 -> {}

MethodOf(c)  == IF Made(c) THEN kind[c] ELSE "none"
RequestOf(c) == IF Made(c) THEN ops[c] ELSE <<>>
AnswerOf(c)  == IF Made(c) THEN status[c] ELSE "none"

Rows     == [k \in Keys |-> Asked(k)]
Methods  == [c \in Calls |-> MethodOf(c)]
Requests == [c \in Calls |-> RequestOf(c)]
Answers  == [c \in Calls |-> AnswerOf(c)]
AllLeft  == [c \in Calls |-> Left(c)]

Contract == INSTANCE TableContract WITH
    opened <- Opened,
    rows   <- Rows,
    method <- Methods,
    ops    <- Requests,
    left   <- AllLeft,
    done   <- succeeded,
    answer <- Answers

\* Every behaviour of the code is one the contract allows: whatever the order in
\* which calls are served, the program sees one table on which each call is
\* carried out between its beginning and its answer.
ImplementsContract == Contract!Spec

=============================================================================
