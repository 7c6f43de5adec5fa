---------------------------- MODULE TableContract ----------------------------
(***************************************************************************)
(* What a Database promises the program about its table, whatever          *)
(* sessions, batches and pool threads keep it:                             *)
(*  - a call touches the table between its beginning and its answer only,  *)
(*    and carries out each of its operations at most once;                 *)
(*  - operations of one call on the same row keep their order;             *)
(*  - a put() or batch() that is answered ok has been carried out in full, *)
(*    as far as the server is believed;                                    *)
(*  - a get() that is answered ok gives what the row was last asked to     *)
(*    hold, unless that was a zero-length value, or the table's key column *)
(*    is not called "key": then what some row was.                         *)
(* A batch is no unit: its operations on different rows are carried out in *)
(* any order, with other calls between them, and when it is answered with  *)
(* an error any part of them may have been.  A batch does not exist here   *)
(* before it is written, and an empty one never does.  Nothing is said of  *)
(* when.                                                                   *)
(***************************************************************************)
EXTENDS Integers, Sequences

CONSTANTS
    Calls, Keys, Values,
    Empty,                \* the value put() may turn into none
    MaxOps,               \* bound: operations in a batch
    NULL, NoRow

VARIABLES
    opened, settable,     \* whether there is a table, and its value column is a STRING
    keyed,                \* and its key column is called "key"
    rows,                 \* what each row was last asked to hold
    method, ops,          \* what each call asks for
    left,                 \* the operations of it that may still reach the table
    done,                 \* those known to have done so
    answer, value         \* what its callback is given

vars == <<opened, settable, keyed, rows, method, ops, left, done, answer, value>>

PutOf(k, v) == [type |-> "put", key |-> k, value |-> v]
DelOf(k)    == [type |-> "del", key |-> k]
GetOf(k)    == [type |-> "get", key |-> k]

Writes  == {PutOf(k, v) : k \in Keys, v \in Values} \cup {DelOf(k) : k \in Keys}
Batches == UNION {[1 .. n -> Writes] : n \in 1 .. MaxOps}

Init ==
    /\ opened = FALSE /\ settable \in BOOLEAN /\ keyed \in BOOLEAN
    /\ rows = [k \in Keys |-> NoRow]
    /\ method = [c \in Calls |-> "none"]
    /\ ops = [c \in Calls |-> <<>>]
    /\ left = [c \in Calls |-> {}]
    /\ done = [c \in Calls |-> {}]
    /\ answer = [c \in Calls |-> "none"]
    /\ value = [c \in Calls |-> NULL]

Open ==
    /\ opened' = TRUE
    /\ UNCHANGED <<settable, keyed, rows, method, ops, left, done, answer, value>>

Call(c, m, s) ==
    /\ method[c] = "none"
    /\ method' = [method EXCEPT ![c] = m]
    /\ ops' = [ops EXCEPT ![c] = s]
    /\ left' = [left EXCEPT ![c] = 1 .. Len(s)]
    /\ UNCHANGED <<opened, settable, keyed, rows, done, answer, value>>

Pending(c) == method[c] # "none" /\ answer[c] = "none"

\* ok says that everything was carried out, except to a del(), which is always
\* told so, and of a batch on a table that cannot hold its values.
Believable(c, finished) ==
    \/ method[c] = "del"
    \/ method[c] = "batch" /\ ~settable
    \/ method[c] \in {"put", "batch"} /\ finished = 1 .. Len(ops[c])

Answered(c, st) ==
    /\ answer' = [answer EXCEPT ![c] = st]
    /\ left' = [left EXCEPT ![c] = {}]

Return(c, finished) ==
    \/ Answered(c, "error")
    \/ opened /\ Believable(c, finished) /\ Answered(c, "ok")

\* An operation whose turn it is on its row is carried out, with or without the
\* program coming to know, or it fails; the call may be answered at once.
Carry(c, i) ==
    LET op == ops[c][i] IN
    /\ Pending(c) /\ opened /\ method[c] # "get"
    /\ i \in left[c]
    /\ \A j \in left[c] : j < i => ops[c][j].key # op.key
    /\ \/ UNCHANGED <<rows, done>>
       \/ /\ op.type = "del" => rows[op.key] # NoRow
          /\ rows' = [rows EXCEPT ![op.key] = IF op.type = "put" THEN op.value ELSE NoRow]
          /\ done' = done \/ done' = [done EXCEPT ![c] = @ \cup {i}]
    /\ \/ left' = [left EXCEPT ![c] = @ \ {i}] /\ UNCHANGED answer
       \/ Return(c, done'[c])
    /\ UNCHANGED <<opened, settable, keyed, method, ops, value>>

GiveUp(c) ==
    /\ Pending(c)
    /\ Return(c, done[c])
    /\ UNCHANGED <<opened, settable, keyed, rows, method, ops, done, value>>

RowsRead(c) == IF keyed THEN {ops[c][1].key} ELSE Keys

Read(c) ==
    /\ Pending(c) /\ opened /\ method[c] = "get"
    /\ \E v \in Values, k \in RowsRead(c) :
         /\ value' = [value EXCEPT ![c] = v]
         /\ \/ Answered(c, "notfound")
            \/ rows[k] # NoRow /\ rows[k] \in {v, Empty} /\ Answered(c, "ok")
    /\ UNCHANGED <<opened, settable, keyed, rows, method, ops, done>>

Next ==
    \/ Open
    \/ \E c \in Calls :
         \/ \E k \in Keys, v \in Values : Call(c, "put", <<PutOf(k, v)>>)
         \/ \E k \in Keys : Call(c, "del", <<DelOf(k)>>) \/ Call(c, "get", <<GetOf(k)>>)
         \/ \E s \in Batches : Call(c, "batch", s)
         \/ \E i \in left[c] : Carry(c, i)
         \/ GiveUp(c) \/ Read(c)

Spec == Init /\ [][Next]_vars

=============================================================================
