---------------------- MODULE DatabaseRefinement_proofs ----------------------
(***************************************************************************)
(* DatabaseOps implements TableContract: every step of a call or of its    *)
(* worker is one the contract allows, or changes nothing it sees.          *)
(***************************************************************************)
EXTENDS DatabaseOps_proofs

-----------------------------------------------------------------------------
(* What the contract sees of a step                                          *)

\* A step of one call changes what is seen of that call.
LEMMA SeenOfOne ==
    ASSUME NEW c \in Calls, \A d \in Calls : d # c => Same(d)
    PROVE  /\ Methods' = [Methods EXCEPT ![c] = MethodOf(c)']
           /\ Requests' = [Requests EXCEPT ![c] = RequestOf(c)']
           /\ Answers' = [Answers EXCEPT ![c] = AnswerOf(c)']
           /\ AllLeft' = [AllLeft EXCEPT ![c] = Left(c)']
<1>1. ASSUME NEW d \in Calls, d # c
      PROVE  /\ MethodOf(d)' = MethodOf(d)
             /\ RequestOf(d)' = RequestOf(d)
             /\ AnswerOf(d)' = AnswerOf(d)
             /\ Left(d)' = Left(d)
  <2>1. Same(d)
    BY <1>1
  <2>2. Made(d)' <=> Made(d)
    BY <2>1 DEF Same, Made
  <2>3. Left(d)' = Left(d)
    BY <2>1 DEF Same, Left, OpsOf, ToSet
  <2>. QED BY <2>1, <2>2, <2>3 DEF Same, MethodOf, RequestOf, AnswerOf
<1>. QED BY <1>1 DEF Methods, Requests, Answers, AllLeft

\* A call that the contract sees no change of.
LEMMA NothingSeen ==
    ASSUME NEW c \in Calls, \A d \in Calls : d # c => Same(d),
           MethodOf(c)' = MethodOf(c), RequestOf(c)' = RequestOf(c),
           AnswerOf(c)' = AnswerOf(c), Left(c)' = Left(c)
    PROVE  UNCHANGED <<Methods, Requests, Answers, AllLeft>>
<1>1. /\ Methods' = [Methods EXCEPT ![c] = MethodOf(c)]
      /\ Requests' = [Requests EXCEPT ![c] = RequestOf(c)]
      /\ Answers' = [Answers EXCEPT ![c] = AnswerOf(c)]
      /\ AllLeft' = [AllLeft EXCEPT ![c] = Left(c)]
  BY SeenOfOne
<1>. QED BY <1>1 DEF Methods, Requests, Answers, AllLeft

\* Rows that no step of the server changes.
LEMMA RowsSame ==
    ASSUME IInv, IInv', last' = last,
           \A d \in Calls : phase[d] \in {"flushing", "returned"} => ops'[d] = ops[d]
    PROVE  Rows' = Rows
<1>1. ASSUME NEW k \in Keys
      PROVE  Asked(k)' = Asked(k)
  BY AskedSame DEF IInv
<1>. QED BY <1>1 DEF Rows

\* What a step does to the row it writes.
LEMMA ServerSeen ==
    ASSUME IInv, IInv', NEW c \in Calls, NEW i \in Nat, NEW columns, NEW ok,
           ServerWrite(c, i, columns, ok), ops[c][i] \in Writes, UNCHANGED request
    PROVE  \/ UNCHANGED <<Rows, succeeded>>
           \/ /\ ops[c][i].type = "del" => Rows[ops[c][i].key] # NoRow
              /\ Rows' = [Rows EXCEPT ![ops[c][i].key] =
                            IF ops[c][i].type = "put" THEN ops[c][i].value ELSE NoRow]
              /\ \/ succeeded' = succeeded
                 \/ succeeded' = [succeeded EXCEPT ![c] = @ \cup {i}]
<1>1. \A d \in Calls : phase[d] \in {"flushing", "returned"} => ops'[d] = ops[d]
  BY DEF request
<1>2. CASE UNCHANGED <<table, history>>
  BY <1>1, <1>2, RowsSame DEF history
<1>3. CASE ~UNCHANGED <<table, history>>
  <2>. DEFINE op == ops[c][i]
  <2>1. /\ Doable(op)
        /\ last' = [last EXCEPT ![op.key] = <<c, i>>]
        /\ \/ succeeded' = succeeded
           \/ succeeded' = [succeeded EXCEPT ![c] = @ \cup {i}]
    BY <1>3 DEF ServerWrite
  <2>2. PICK key \in Keys : key = op.key
    BY WriteFacts
  <2>3. ASSUME NEW k \in Keys, k # key
        PROVE  Asked(k)' = Asked(k)
    <3>1. last'[k] = last[k]
      BY <2>1, <2>2, <2>3 DEF IInv, Types
    <3>. QED BY <1>1, <3>1, AskedSame DEF IInv
  <2>4. Asked(key)' = IF op.type = "put" THEN op.value ELSE NoRow
    <3>1. last'[key] = <<c, i>>
      BY <2>1, <2>2 DEF IInv, Types
    <3>2. ops' = ops
      BY DEF request
    <3>3. last'[key] # <<>> /\ last'[key][1] = c /\ last'[key][2] = i
      BY <3>1
    <3>. QED BY <3>2, <3>3 DEF Asked, AskedBy
  <2>5. op.type = "del" => Asked(key) # NoRow
    <3>1. op.type = "del" => table[key] # NoRow
      BY <2>1, <2>2 DEF Doable
    <3>2. NoRow # Empty
      BY OpsAssumption
    <3>. QED BY <3>1, <3>2 DEF IInv, RowInv
  <2>6. Rows' = [Rows EXCEPT ![key] = Asked(key)']
    BY <2>3 DEF Rows
  <2>7. Rows[key] = Asked(key)
    BY DEF Rows
  <2>. QED BY <2>1, <2>2, <2>4, <2>5, <2>6, <2>7
<1>. QED BY <1>2, <1>3

-----------------------------------------------------------------------------
(* The program's calls                                                       *)

\* What the program asks for becomes a call of the contract.
LEMMA CallSeen ==
    ASSUME NEW c \in Calls, \A d \in Calls : d # c => Same(d),
           ~Made(c), Made(c)', phase'[c] = "called", status'[c] = "none",
           NEW m, kind'[c] = m, NEW s, ops'[c] = s,
           UNCHANGED <<Opened, settable, keyed, Rows, succeeded, value>>
    PROVE  Contract!Call(c, m, s)
<1>1. MethodOf(c) = "none" /\ RequestOf(c) = <<>> /\ AnswerOf(c) = "none"
  BY DEF MethodOf, RequestOf, AnswerOf
<1>2. MethodOf(c)' = m /\ RequestOf(c)' = s /\ AnswerOf(c)' = "none"
  BY DEF MethodOf, RequestOf, AnswerOf
<1>3. Left(c)' = 1 .. Len(s)
  BY DEF Left, OpsOf
<1>4. /\ Methods' = [Methods EXCEPT ![c] = m]
      /\ Requests' = [Requests EXCEPT ![c] = s]
      /\ Answers' = [Answers EXCEPT ![c] = AnswerOf(c)]
      /\ AllLeft' = [AllLeft EXCEPT ![c] = 1 .. Len(s)]
  BY <1>1, <1>2, <1>3, SeenOfOne
<1>5. Methods[c] = "none" /\ Answers' = Answers
  BY <1>1, <1>4 DEF Methods, Answers
<1>. QED BY <1>4, <1>5 DEF Contract!Call

\* put(), del() and get().
LEMMA SingleCallRefines ==
    ASSUME IInv, IInv', NEW c \in Calls, NEW m \in {"put", "del", "get"}, NEW op, Call(c, m, op)
    PROVE  Contract!Call(c, m, <<op>>)
<1>. USE DEF Call, db, session, reply
<1>1. Types /\ CallInv(c) /\ phase[c] = "none"
  BY DEF IInv
<1>2. /\ \A d \in Calls : d # c => Same(d)
      /\ kind'[c] = m /\ ops'[c] = <<op>> /\ phase'[c] = "called" /\ status'[c] = status[c]
  BY <1>1 DEF Same, Types
<1>3. ~Made(c) /\ Made(c)'
  BY <1>1, <1>2 DEF Made
<1>4. status[c] = "none"
  BY <1>1 DEF CallInv, UnsentInv
<1>5. \A d \in Calls : phase[d] \in {"flushing", "returned"} => ops'[d] = ops[d]
  BY <1>1, <1>2 DEF Same
<1>6. Rows' = Rows
  BY <1>5, RowsSame
<1>7. UNCHANGED <<Opened, settable, keyed, succeeded, value>>
  BY DEF Opened
<1>. QED BY <1>2, <1>3, <1>4, <1>6, <1>7, CallSeen

LEMMA BatchWriteRefines ==
    ASSUME IInv, IInv', NEW c \in Calls, BatchWrite(c)
    PROVE  \/ \E s \in Contract!Batches : Contract!Call(c, "batch", s)
           \/ UNCHANGED Contract!vars
<1>. USE DEF BatchWrite, db, request, session, history
<1>1. Types /\ CallInv(c) /\ phase[c] = "building" /\ kind[c] = "batch"
  BY DEF IInv, CallInv, UnsentInv
<1>2. \A d \in Calls : d # c => Same(d)
  BY <1>1 DEF Same, Types
<1>3. UNCHANGED <<Opened, settable, keyed, Rows, succeeded, value>>
  BY RowsSame DEF Opened
<1>4. hasData[c] <=> ops[c] # <<>>
  BY <1>1 DEF CallInv, OpsInv
<1>5. ~Made(c)
  BY <1>1 DEF Made
<1>6. CASE hasData[c]
  <2>1. phase'[c] = "called" /\ status'[c] = "none" /\ kind'[c] = "batch" /\ ops'[c] = ops[c]
    BY <1>1, <1>6 DEF Types, CallInv, UnsentInv
  <2>2. Made(c)'
    BY <1>4, <1>6, <2>1 DEF Made
  <2>3. Contract!Call(c, "batch", ops[c])
    BY <1>1, <1>2, <1>3, <1>5, <2>1, <2>2, CallSeen
  <2>4. ops[c] \in Contract!Batches
    <3>1. /\ ops[c] \in Seq(Operations) /\ Len(ops[c]) <= MaxOps
          /\ \A i \in 1 .. Len(ops[c]) : ops[c][i] \in Writes
      BY <1>1 DEF CallInv, OpsInv, Types
    <3>2. \A w \in Writes : w \in Contract!Writes
      BY DEF Writes, Contract!Writes, Contract!PutOf, Contract!DelOf
    <3>3. Len(ops[c]) \in 1 .. MaxOps
      BY <1>4, <1>6, <3>1, OpsAssumption
    <3>4. ops[c] \in [1 .. Len(ops[c]) -> Contract!Writes]
      BY <3>1, <3>2
    <3>. QED BY <3>3, <3>4 DEF Contract!Batches
  <2>. QED BY <2>3, <2>4
<1>7. CASE ~hasData[c]
  <2>1. ~Made(c)'
    BY <1>4, <1>7 DEF Made
  <2>2. /\ MethodOf(c)' = MethodOf(c) /\ RequestOf(c)' = RequestOf(c)
        /\ AnswerOf(c)' = AnswerOf(c)
    BY <1>5, <2>1 DEF MethodOf, RequestOf, AnswerOf
  <2>3. phase'[c] = "returned"
    BY <1>1, <1>7 DEF Types
  <2>4. Left(c)' = Left(c)
    BY <1>1, <2>3 DEF Left
  <2>5. UNCHANGED <<Methods, Requests, Answers, AllLeft>>
    BY <1>2, <2>2, <2>4, NothingSeen
  <2>. QED BY <1>3, <2>5 DEF Contract!vars
<1>. QED BY <1>6, <1>7

\* A Batch that is being built is not seen.
LEMMA BuildingUnseen ==
    ASSUME IInv, IInv', NEW c \in Calls, \A d \in Calls : d # c => Same(d),
           phase[c] \in {"none", "building"}, phase'[c] \in {"none", "building"},
           UNCHANGED <<db, succeeded, last, value>>
    PROVE  UNCHANGED Contract!vars
<1>1. ~Made(c) /\ ~Made(c)'
  BY DEF Made
<1>2. /\ MethodOf(c)' = MethodOf(c) /\ RequestOf(c)' = RequestOf(c)
      /\ AnswerOf(c)' = AnswerOf(c)
  BY <1>1 DEF MethodOf, RequestOf, AnswerOf
<1>3. Left(c)' = Left(c)
  BY DEF Left
<1>4. UNCHANGED <<Methods, Requests, Answers, AllLeft>>
  BY <1>2, <1>3, NothingSeen
<1>5. \A d \in Calls : phase[d] \in {"flushing", "returned"} => ops'[d] = ops[d]
  BY DEF Same
<1>6. UNCHANGED <<Opened, settable, keyed, Rows>>
  BY <1>5, RowsSame DEF db, Opened
<1>. QED BY <1>4, <1>6 DEF Contract!vars

LEMMA BatchBuildingRefines ==
    ASSUME IInv, IInv', NEW c \in Calls,
           BatchNew(c) \/ BatchClear(c) \/ \E op \in Writes : BatchAdd(c, op)
    PROVE  UNCHANGED Contract!vars
<1>. USE DEF db, request, session, reply, history
<1>1. Types /\ phase[c] \in {"none", "building"}
  BY DEF IInv, BatchNew, BatchClear, BatchAdd
<1>2. CASE BatchNew(c)
  <2>1. (\A d \in Calls : d # c => Same(d)) /\ phase'[c] = "building"
    BY <1>1, <1>2 DEF BatchNew, Same, Types
  <2>. QED BY <1>1, <1>2, <2>1, BuildingUnseen DEF BatchNew
<1>3. CASE BatchClear(c)
  <2>1. \A d \in Calls : d # c => Same(d)
    BY <1>1, <1>3 DEF BatchClear, Same, Types
  <2>. QED BY <1>1, <1>3, <2>1, BuildingUnseen DEF BatchClear
<1>4. ASSUME NEW op \in Writes, BatchAdd(c, op)
      PROVE  UNCHANGED Contract!vars
  <2>1. \A d \in Calls : d # c => Same(d)
    BY <1>1, <1>4 DEF BatchAdd, Same, Types
  <2>. QED BY <1>1, <1>4, <2>1, BuildingUnseen DEF BatchAdd
<1>. QED BY <1>2, <1>3, <1>4

-----------------------------------------------------------------------------
(* The workers                                                               *)

\* A call whose worker is at work.
LEMMA WorkingSeen ==
    ASSUME IInv, NEW c \in Calls, phase[c] \in {"called", "flushing"}
    PROVE  /\ Made(c) /\ ops[c] # <<>> /\ kind[c] # "none"
           /\ Methods[c] = kind[c] /\ Requests[c] = ops[c] /\ Answers[c] = "none"
           /\ AllLeft[c] = Left(c)
           /\ Contract!Pending(c)
<1>1. CallInv(c)
  BY DEF IInv
<1>2. ops[c] # <<>> /\ kind[c] # "none" /\ status[c] = "none"
  BY <1>1 DEF CallInv, OpsInv, UnsentInv, FlushInv
<1>3. Made(c)
  BY <1>2 DEF Made
<1>4. Methods[c] = kind[c] /\ Requests[c] = ops[c] /\ Answers[c] = "none" /\ AllLeft[c] = Left(c)
  BY <1>2, <1>3 DEF Methods, Requests, Answers, AllLeft, MethodOf, RequestOf, AnswerOf
<1>. QED BY <1>2, <1>3, <1>4 DEF Contract!Pending

\* A call that returns.
LEMMA ReturnSeen ==
    ASSUME IInv, NEW c \in Calls, phase[c] \in {"called", "flushing"},
           \A d \in Calls : d # c => Same(d), UNCHANGED request, NEW st, Return(c, st)
    PROVE  /\ Contract!Answered(c, st)
           /\ UNCHANGED <<Methods, Requests>>
<1>1. phase'[c] = "returned" /\ status'[c] = st
  BY DEF Return, IInv, Types
<1>2. Made(c) /\ Made(c)'
  BY <1>1, WorkingSeen DEF Made, request
<1>3. MethodOf(c)' = MethodOf(c) /\ RequestOf(c)' = RequestOf(c) /\ AnswerOf(c)' = st
  BY <1>1, <1>2 DEF MethodOf, RequestOf, AnswerOf, request
<1>4. Left(c)' = {}
  BY <1>1 DEF Left
<1>5. /\ Methods' = [Methods EXCEPT ![c] = MethodOf(c)]
      /\ Requests' = [Requests EXCEPT ![c] = RequestOf(c)]
      /\ Answers' = [Answers EXCEPT ![c] = st]
      /\ AllLeft' = [AllLeft EXCEPT ![c] = {}]
  BY <1>3, <1>4, SeenOfOne
<1>6. UNCHANGED <<Methods, Requests>>
  BY <1>5 DEF Methods, Requests
<1>. QED BY <1>5, <1>6 DEF Contract!Answered

\* A call that returns an error and has changed no row.
LEMMA ErrorRefines ==
    ASSUME IInv, IInv', NEW c \in Calls, phase[c] \in {"called", "flushing"},
           \A d \in Calls : d # c => Same(d), Return(c, "error"),
           UNCHANGED <<db, request, history, value>>
    PROVE  Contract!GiveUp(c)
<1>1. Contract!Pending(c)
  BY WorkingSeen
<1>2. Contract!Answered(c, "error") /\ UNCHANGED <<Methods, Requests>>
  BY ReturnSeen
<1>3. UNCHANGED <<Opened, settable, keyed, Rows, succeeded, value>>
  BY RowsSame DEF db, request, history, Opened
<1>. QED BY <1>1, <1>2, <1>3 DEF Contract!GiveUp, Contract!Return

LEMMA RefuseRefines ==
    ASSUME IInv, IInv', NEW c \in Calls, Refuse(c)
    PROVE  Contract!GiveUp(c)
<1>1. Return(c, "error")
  BY DEF Refuse, Status, IInv, StatusKept
<1>2. \A d \in Calls : d # c => Same(d)
  BY <1>1 DEF Refuse, Return, Same, IInv, Types, request, session, history
<1>. QED BY <1>1, <1>2, ErrorRefines DEF Refuse

LEMMA ApplyFailsRefines ==
    ASSUME IInv, IInv', NEW c \in Calls, ApplyFails(c)
    PROVE  Contract!GiveUp(c)
<1>1. Return(c, "error")
  BY DEF ApplyFails, ApplyStatus, Status
<1>2. \A d \in Calls : d # c => Same(d)
  BY <1>1 DEF ApplyFails, Return, Same, IInv, Types, request, history
<1>. QED BY <1>1, <1>2, ErrorRefines DEF ApplyFails, Working

\* The one operation of a put() or del() and its answer.
LEMMA SingleRefines ==
    ASSUME IInv, IInv', NEW c \in Calls, phase[c] = "called", kind[c] \in {"put", "del"}, Opened,
           NEW columns, NEW ok \in BOOLEAN, ServerWrite(c, 1, columns, ok),
           NEW st \in {"ok", "error"}, kind[c] = "put" /\ st = "ok" => ok = TRUE,
           Return(c, st), UNCHANGED <<db, request, session, value>>
    PROVE  Contract!Carry(c, 1)
<1>1. Types /\ CallInv(c)
  BY DEF IInv
<1>2. Len(ops[c]) = 1 /\ ops[c][1] \in Writes /\ ops[c][1].type = kind[c]
  BY <1>1 DEF CallInv, OpsInv, Operations, Writes
<1>3. \A d \in Calls : d # c => Same(d)
  <2>1. \A d \in Calls : d # c => succeeded'[d] = succeeded[d]
    BY <1>1 DEF ServerWrite, history, Types
  <2>2. \A d \in Calls : d # c => phase'[d] = phase[d] /\ status'[d] = status[d]
    BY <1>1 DEF Return, Types
  <2>. QED BY <2>1, <2>2 DEF Same, request, session
<1>4. /\ Methods[c] = kind[c] /\ Requests[c] = ops[c] /\ AllLeft[c] = {1}
      /\ Contract!Pending(c)
  <2>1. Left(c) = {1}
    BY <1>2 DEF Left, OpsOf
  <2>. QED BY <2>1, WorkingSeen
<1>5. Contract!Answered(c, st) /\ UNCHANGED <<Methods, Requests>>
  BY <1>3, ReturnSeen
<1>6. \/ UNCHANGED <<Rows, succeeded>>
      \/ /\ ops[c][1].type = "del" => Rows[ops[c][1].key] # NoRow
         /\ Rows' = [Rows EXCEPT ![ops[c][1].key] =
                       IF ops[c][1].type = "put" THEN ops[c][1].value ELSE NoRow]
         /\ \/ succeeded' = succeeded
            \/ succeeded' = [succeeded EXCEPT ![c] = @ \cup {1}]
  BY <1>2, ServerSeen
<1>7. kind[c] = "put" /\ st = "ok" => succeeded'[c] = 1 .. Len(ops[c])
  <2>. SUFFICES ASSUME kind[c] = "put", st = "ok"
                PROVE  succeeded'[c] = 1 .. Len(ops[c])
    OBVIOUS
  <2>1. succeeded[c] = {}
    BY <1>1 DEF CallInv, UnsentInv
  <2>2. succeeded' = [succeeded EXCEPT ![c] = @ \cup {1}]
    BY DEF ServerWrite
  <2>3. succeeded'[c] = {1}
    BY <1>1, <2>1, <2>2 DEF Types
  <2>. QED BY <1>2, <2>3
<1>8. Contract!Return(c, succeeded'[c])
  <2>1. CASE st = "error"
    BY <1>5, <2>1 DEF Contract!Return
  <2>2. CASE st = "ok"
    <3>1. Contract!Believable(c, succeeded'[c])
      BY <1>4, <1>7, <2>2 DEF Contract!Believable
    <3>. QED BY <1>5, <2>2, <3>1 DEF Contract!Return
  <2>. QED BY <2>1, <2>2
<1>9. UNCHANGED <<Opened, settable, keyed>>
  BY DEF db, Opened
<1>10. \A j \in AllLeft[c] : j < 1 => Requests[c][j].key # Requests[c][1].key
  BY <1>4
<1>11. Methods[c] # "get" /\ 1 \in AllLeft[c]
  BY <1>4
<1>. QED BY <1>4, <1>5, <1>6, <1>8, <1>9, <1>10, <1>11 DEF Contract!Carry

LEMMA PutToDatabaseRefines ==
    ASSUME IInv, IInv', NEW c \in Calls, PutToDatabase(c)
    PROVE  (\E i \in AllLeft[c] : Contract!Carry(c, i)) \/ Contract!GiveUp(c)
<1>1. CASE settable
  <2>1. PICK ok \in BOOLEAN :
            ServerWrite(c, 1, {"key", "value"}, ok) /\ Return(c, Status(ok))
    BY <1>1 DEF PutToDatabase, ApplyStatus
  <2>2. Status(ok) \in {"ok", "error"} /\ (Status(ok) = "ok" => ok = TRUE)
    BY DEF Status
  <2>3. Contract!Carry(c, 1)
    BY <2>1, <2>2, SingleRefines DEF PutToDatabase, Working
  <2>. QED BY <2>3 DEF Contract!Carry
<1>2. CASE ~settable
  <2>1. Return(c, "error") /\ UNCHANGED history
    BY <1>2 DEF PutToDatabase
  <2>2. \A d \in Calls : d # c => Same(d)
    BY <2>1 DEF PutToDatabase, Return, Same, IInv, Types, request, session, history
  <2>. QED BY <2>1, <2>2, ErrorRefines DEF PutToDatabase, Working
<1>. QED BY <1>1, <1>2

LEMMA DeleteFromDatabaseRefines ==
    ASSUME IInv, IInv', NEW c \in Calls, DeleteFromDatabase(c)
    PROVE  \E i \in AllLeft[c] : Contract!Carry(c, i)
<1>1. PICK ok \in BOOLEAN : ServerWrite(c, 1, {"key"}, ok)
  BY DEF DeleteFromDatabase
<1>2. Contract!Carry(c, 1)
  BY <1>1, SingleRefines DEF DeleteFromDatabase, Working
<1>. QED BY <1>2 DEF Contract!Carry

LEMMA GetFromDatabaseRefines ==
    ASSUME IInv, IInv', NEW c \in Calls, GetFromDatabase(c)
    PROVE  Contract!Read(c) \/ Contract!GiveUp(c)
<1>1. /\ Types /\ CallInv(c) /\ phase[c] = "called" /\ kind[c] = "get" /\ Opened
      /\ UNCHANGED <<db, table, request, session, history>>
  BY DEF IInv, GetFromDatabase, Working
<1>2. CASE Return(c, "error") /\ UNCHANGED value
  <2>1. \A d \in Calls : d # c => Same(d)
    BY <1>1, <1>2 DEF Return, Same, Types, request, session, history
  <2>. QED BY <1>1, <1>2, <2>1, ErrorRefines
<1>3. ASSUME NEW cell \in {table[k] : k \in RowsScanned(c)} \cup {NoRow},
             Return(c, GetStatus(cell)),
             value' = [value EXCEPT ![c] = IF cell \in Values THEN cell ELSE Empty]
      PROVE  Contract!Read(c)
  <2>1. \A d \in Calls : d # c => Same(d)
    BY <1>1, <1>3 DEF Return, Same, Types, request, session, history
  <2>2. ops[c][1].key \in Keys
    BY <1>1 DEF CallInv, OpsInv, Operations, Writes
  <2>3. PICK v \in Values : v = IF cell \in Values THEN cell ELSE Empty
    BY OpsAssumption
  <2>4. Methods[c] = "get" /\ Requests[c] = ops[c] /\ Contract!Pending(c)
    BY <1>1, WorkingSeen
  <2>5. Contract!Answered(c, GetStatus(cell)) /\ UNCHANGED <<Methods, Requests>>
    BY <1>1, <1>3, <2>1, ReturnSeen
  <2>6. Contract!RowsRead(c) = RowsScanned(c)
    BY <2>4 DEF Contract!RowsRead, RowsScanned
  <2>7. UNCHANGED <<Opened, settable, keyed, Rows, succeeded>>
    BY <1>1, RowsSame DEF db, request, history, Opened
  <2>8. CASE cell = NoRow
    <3>1. Contract!Answered(c, "notfound")
      BY <2>5, <2>8 DEF GetStatus
    <3>2. PICK k \in Contract!RowsRead(c) : TRUE
      BY <2>2, <2>6 DEF RowsScanned
    <3>. QED BY <1>1, <1>3, <2>3, <2>4, <2>5, <2>7, <3>1, <3>2 DEF Contract!Read
  <2>9. CASE cell # NoRow
    <3>1. Contract!Answered(c, "ok")
      BY <2>5, <2>9 DEF GetStatus
    <3>2. PICK key \in RowsScanned(c) : cell = table[key]
      BY <1>3, <2>9
    <3>3. key \in Keys /\ key \in Contract!RowsRead(c)
      BY <2>2, <2>6, <3>2 DEF RowsScanned
    <3>4. Asked(key) # Empty => Asked(key) = cell
      BY <2>9, <3>2, <3>3 DEF IInv, RowInv
    <3>5. Asked(key) \in Values \cup {NoRow}
      <4>1. CASE last[key] = <<>>
        BY <1>1, <3>3, <4>1, LastForm
      <4>2. CASE last[key] # <<>>
        <5>1. PICK d \in Calls, i \in Nat : last[key] = <<d, i>>
          BY <1>1, <3>3, <4>2, LastForm
        <5>2. ops[d][i] \in Writes
          BY <3>3, <5>1 DEF IInv, LastInv
        <5>. QED BY <1>1, <3>3, <5>1, <5>2, LastForm, WriteFacts
      <4>. QED BY <4>1, <4>2
    <3>6. Asked(key) # NoRow /\ Asked(key) \in {v, Empty}
      BY <2>3, <2>9, <3>4, <3>5, OpsAssumption
    <3>7. Rows[key] = Asked(key)
      BY <3>3 DEF Rows
    <3>. QED BY <1>1, <1>3, <2>3, <2>4, <2>5, <2>7, <3>1, <3>3, <3>6, <3>7 DEF Contract!Read
  <2>. QED BY <2>8, <2>9
<1>. QED BY <1>2, <1>3 DEF GetFromDatabase

\* What leaves no trace outside: the worker fills its session, or turns to the
\* flush.
LEMMA WorkerUnseen ==
    ASSUME IInv, IInv', NEW c \in Calls, \A d \in Calls : d # c => Same(d),
           phase[c] \in {"called", "flushing"}, phase'[c] \in {"called", "flushing"},
           status'[c] = status[c], Left(c)' = Left(c),
           UNCHANGED <<db, request, value, history>>
    PROVE  UNCHANGED Contract!vars
<1>1. Made(c)' /\ Made(c)
  BY WorkingSeen DEF Made, request
<1>2. /\ MethodOf(c)' = MethodOf(c) /\ RequestOf(c)' = RequestOf(c)
      /\ AnswerOf(c)' = AnswerOf(c)
  BY <1>1 DEF MethodOf, RequestOf, AnswerOf, request
<1>3. UNCHANGED <<Methods, Requests, Answers, AllLeft>>
  BY <1>2, NothingSeen
<1>4. UNCHANGED <<Opened, settable, keyed, Rows, succeeded>>
  BY RowsSame DEF db, request, history, Opened
<1>. QED BY <1>3, <1>4 DEF Contract!vars

LEMMA ApplyOperationRefines ==
    ASSUME IInv, IInv', NEW c \in Calls, ApplyOperation(c)
    PROVE  UNCHANGED Contract!vars
<1>. USE DEF ApplyOperation, Working, request, reply
<1>1. Types /\ phase[c] = "called" /\ UNCHANGED <<phase, status>>
  BY DEF IInv
<1>2. \A d \in Calls : d # c => Same(d)
  BY <1>1 DEF Same, Types, history
<1>3. Left(c)' = Left(c)
  BY <1>1 DEF Left, OpsOf
<1>. QED BY <1>1, <1>2, <1>3, WorkerUnseen

LEMMA BeginFlushRefines ==
    ASSUME IInv, IInv', NEW c \in Calls, BeginFlush(c)
    PROVE  UNCHANGED Contract!vars
<1>. USE DEF BeginFlush, Working, request, session, reply
<1>1. Types /\ CallInv(c) /\ phase[c] = "called" /\ UNCHANGED status
  BY DEF IInv
<1>2. \A d \in Calls : d # c => Same(d)
  BY <1>1 DEF Same, Types, history
<1>3. phase'[c] = "flushing"
  BY <1>1 DEF Types
<1>4. Left(c)' = Left(c)
  <2>1. ASSUME NEW i \in OpsOf(c)
        PROVE  i > applied[c] \/ i \in ToSet(pending[c])
    <3>1. CASE i \in 1 .. applied[c]
      <4>1. PICK n \in 1 .. Len(pending[c]) : pending[c][n] = i
        BY <1>1, <3>1 DEF CallInv, UnsentInv
      <4>2. pending[c] \in Seq(Nat)
        BY <1>1 DEF Types
      <4>. QED BY <4>1, <4>2 DEF ToSet
    <3>2. CASE i \notin 1 .. applied[c]
      BY <1>1, <3>2 DEF OpsOf, Types
    <3>. QED BY <3>1, <3>2
  <2>2. {i \in OpsOf(c) : i > applied[c] \/ i \in ToSet(pending[c])} = OpsOf(c)
    BY <2>1
  <2>3. Left(c) = OpsOf(c)
    BY <1>1 DEF Left
  <2>4. Left(c)' = {i \in OpsOf(c) : i > applied[c] \/ i \in ToSet(pending[c])}
    BY <1>3 DEF Left, OpsOf, ToSet
  <2>. QED BY <2>2, <2>3, <2>4
<1>. QED BY <1>1, <1>2, <1>3, <1>4, WorkerUnseen

LEMMA EndFlushRefines ==
    ASSUME IInv, IInv', NEW c \in Calls, EndFlush(c)
    PROVE  Contract!GiveUp(c)
<1>. USE DEF EndFlush
<1>1. /\ Types /\ CallInv(c) /\ phase[c] = "flushing" /\ pending[c] = <<>>
      /\ UNCHANGED <<db, table, request, session, value, history>>
  BY DEF IInv
<1>2. /\ kind[c] = "batch" /\ Opened
      /\ settable => applied[c] = Len(ops[c])
      /\ flushed[c] => \A i \in 1 .. applied[c] : i \in succeeded[c] \/ InSession(c, i)
  BY <1>1 DEF CallInv, FlushInv
<1>3. \A d \in Calls : d # c => Same(d)
  BY <1>1 DEF Return, Same, Types, request, session, history
<1>4. CASE ~flushed[c]
  BY <1>1, <1>3, <1>4, ErrorRefines DEF Status
<1>5. CASE flushed[c]
  <2>1. Return(c, "ok")
    BY <1>5 DEF Status
  <2>2. /\ Methods[c] = "batch" /\ Requests[c] = ops[c] /\ Contract!Pending(c)
    BY <1>1, <1>2, WorkingSeen
  <2>3. Contract!Answered(c, "ok") /\ UNCHANGED <<Methods, Requests>>
    BY <1>1, <1>3, <2>1, ReturnSeen
  <2>4. settable => succeeded[c] = 1 .. Len(ops[c])
    <3>1. \A i \in 1 .. applied[c] : i \in succeeded[c]
      BY <1>1, <1>2, <1>5 DEF InSession
    <3>2. succeeded[c] \subseteq 1 .. Len(ops[c])
      BY <1>1 DEF CallInv, OpsInv
    <3>. QED BY <1>2, <3>1, <3>2
  <2>5. Contract!Believable(c, succeeded[c])
    BY <2>2, <2>4 DEF Contract!Believable
  <2>6. UNCHANGED <<Opened, settable, keyed, Rows, succeeded, value>>
    BY <1>1, RowsSame DEF db, request, history, Opened
  <2>. QED BY <1>2, <2>2, <2>3, <2>5, <2>6 DEF Contract!GiveUp, Contract!Return
<1>. QED BY <1>4, <1>5

\* The elements of a sequence.
LEMMA SetOfSeq ==
    ASSUME NEW S, NEW s \in Seq(S)
    PROVE  ToSet(s) = {s[i] : i \in 1 .. Len(s)}
BY DEF ToSet

\* What the session holds after one of its operations has left it.
LEMMA SetAfterRemoval ==
    ASSUME NEW s \in Seq(Nat), NEW n \in 1 .. Len(s),
           \A i \in 1 .. Len(s) : \A m \in 1 .. i - 1 : s[m] < s[i]
    PROVE  ToSet(RemoveAt(s, n)) = ToSet(s) \ {s[n]}
<1>. DEFINE r == RemoveAt(s, n)
<1>1. /\ r \in Seq(Nat)
      /\ \A i \in 1 .. Len(r) : \E m \in 1 .. Len(s) : m # n /\ r[i] = s[m]
      /\ \A m \in 1 .. Len(s) : m # n => \E i \in 1 .. Len(r) : r[i] = s[m]
      /\ \A m \in 1 .. Len(s) : m # n => s[m] # s[n]
  BY SessionFacts
<1>. HIDE DEF r
<1>2. \A x : x \in ToSet(s) <=> \E m \in 1 .. Len(s) : s[m] = x
  BY SetOfSeq
<1>3. \A x : x \in ToSet(r) <=> \E i \in 1 .. Len(r) : r[i] = x
  <2>1. r \in Seq(Nat)
    BY <1>1
  <2>2. ToSet(r) = {r[i] : i \in 1 .. Len(r)}
    BY <2>1, SetOfSeq
  <2>. QED BY <2>2
<1>4. ASSUME NEW x \in ToSet(r)
      PROVE  x \in ToSet(s) /\ x # s[n]
  <2>1. PICK i \in 1 .. Len(r) : r[i] = x
    BY <1>3
  <2>2. PICK m \in 1 .. Len(s) : m # n /\ r[i] = s[m]
    BY <1>1
  <2>. QED BY <1>1, <1>2, <2>1, <2>2
<1>5. ASSUME NEW x \in ToSet(s), x # s[n]
      PROVE  x \in ToSet(r)
  <2>1. PICK m \in 1 .. Len(s) : s[m] = x
    BY <1>2
  <2>2. PICK i \in 1 .. Len(r) : r[i] = s[m]
    BY <1>1, <1>5, <2>1
  <2>. QED BY <1>3, <2>1, <2>2
<1>. QED BY <1>4, <1>5 DEF r

LEMMA FlushOperationRefines ==
    ASSUME IInv, IInv', NEW c \in Calls, FlushOperation(c)
    PROVE  \E i \in AllLeft[c] : Contract!Carry(c, i)
<1>1. /\ Types /\ CallInv(c) /\ phase[c] = "flushing"
      /\ UNCHANGED <<db, request, phase, applied, reply>>
  BY DEF IInv, FlushOperation
<1>2. PICK n \in Flushable(c), ok \in BOOLEAN :
         /\ ServerWrite(c, pending[c][n], Columns(ops[c][pending[c][n]]), ok)
         /\ pending' = [pending EXCEPT ![c] = RemoveAt(@, n)]
         /\ flushed' = [flushed EXCEPT ![c] = @ /\ ok]
  BY DEF FlushOperation
<1>. DEFINE s == pending[c]
            p == s[n]
<1>3. s \in Seq(Nat) /\ n \in 1 .. Len(s) /\ p \in 1 .. applied[c] /\ applied[c] \in Nat
  BY <1>1 DEF Types, Flushable, CallInv, OpsInv
<1>4. \A i \in 1 .. Len(s) : \A m \in 1 .. i - 1 : s[m] < s[i]
  BY <1>1 DEF CallInv, OpsInv
<1>5. p \in 1 .. Len(ops[c]) /\ p \in Nat /\ ops[c][p] \in Writes /\ kind[c] = "batch" /\ Opened
  <2>1. applied[c] <= Len(ops[c]) /\ kind[c] = "batch" /\ Opened /\ ops[c] \in Seq(Operations)
    BY <1>1 DEF CallInv, OpsInv, FlushInv, Types
  <2>2. p \in 1 .. Len(ops[c])
    BY <1>3, <2>1
  <2>. QED BY <1>1, <2>1, <2>2 DEF CallInv, OpsInv
<1>6. \A d \in Calls : d # c => Same(d)
  <2>1. \A d \in Calls : d # c => succeeded'[d] = succeeded[d]
    BY <1>1, <1>2 DEF ServerWrite, history, Types
  <2>2. \A d \in Calls : d # c => pending'[d] = pending[d] /\ flushed'[d] = flushed[d]
    BY <1>1, <1>2 DEF Types
  <2>. QED BY <1>1, <2>1, <2>2 DEF Same, request, reply
<1>7. /\ Made(c) /\ Methods[c] = "batch" /\ Requests[c] = ops[c] /\ AllLeft[c] = Left(c)
      /\ Contract!Pending(c)
  BY <1>1, <1>5, WorkingSeen
<1>8. Left(c) = {i \in OpsOf(c) : i > applied[c] \/ i \in ToSet(s)}
  BY <1>1 DEF Left
<1>9. Left(c)' = Left(c) \ {p}
  <2>1. pending'[c] = RemoveAt(s, n)
    BY <1>1, <1>2 DEF Types
  <2>2. ToSet(RemoveAt(s, n)) = ToSet(s) \ {p}
    BY <1>3, <1>4, SetAfterRemoval
  <2>3. Left(c)' = {i \in OpsOf(c) : i > applied[c] \/ i \in ToSet(RemoveAt(s, n))}
    <3>1. phase'[c] = "flushing" /\ ops'[c] = ops[c] /\ applied'[c] = applied[c]
      BY <1>1 DEF request
    <3>. QED BY <2>1, <3>1 DEF Left, OpsOf, ToSet
  <2>. QED BY <1>3, <1>8, <2>2, <2>3
<1>10. p \in AllLeft[c]
  <2>1. p \in ToSet(s)
    BY <1>3 DEF ToSet
  <2>. QED BY <1>5, <1>7, <1>8, <2>1 DEF OpsOf
<1>11. ASSUME NEW j \in AllLeft[c], j < p
       PROVE  ops[c][j].key # ops[c][p].key
  <2>1. j \in Nat /\ ~(j > applied[c])
    BY <1>3, <1>7, <1>8, <1>11 DEF OpsOf
  <2>2. PICK m \in 1 .. Len(s) : s[m] = j
    BY <1>3, <1>7, <1>8, <2>1 DEF ToSet
  <2>3. m # n /\ ~(n \in 1 .. m - 1)
    BY <1>3, <1>4, <1>11, <2>2
  <2>4. m \in 1 .. n - 1
    BY <1>3, <2>2, <2>3
  <2>. QED BY <2>2, <2>4 DEF Flushable
<1>12. \/ UNCHANGED <<Rows, succeeded>>
       \/ /\ ops[c][p].type = "del" => Rows[ops[c][p].key] # NoRow
          /\ Rows' = [Rows EXCEPT ![ops[c][p].key] =
                        IF ops[c][p].type = "put" THEN ops[c][p].value ELSE NoRow]
          /\ \/ succeeded' = succeeded
             \/ succeeded' = [succeeded EXCEPT ![c] = @ \cup {p}]
  <2>1. ServerWrite(c, p, Columns(ops[c][p]), ok) /\ UNCHANGED request
    BY <1>1, <1>2
  <2>. HIDE DEF p
  <2>. QED BY <1>5, <2>1, ServerSeen
<1>13. /\ UNCHANGED <<Methods, Requests, Answers>>
       /\ AllLeft' = [AllLeft EXCEPT ![c] = @ \ {p}]
  <2>1. Made(c)'
    BY <1>1, <1>7 DEF Made, request
  <2>2. /\ MethodOf(c)' = MethodOf(c) /\ RequestOf(c)' = RequestOf(c)
        /\ AnswerOf(c)' = AnswerOf(c)
    BY <1>1, <1>7, <2>1 DEF MethodOf, RequestOf, AnswerOf, request, reply
  <2>3. /\ Methods' = [Methods EXCEPT ![c] = MethodOf(c)]
        /\ Requests' = [Requests EXCEPT ![c] = RequestOf(c)]
        /\ Answers' = [Answers EXCEPT ![c] = AnswerOf(c)]
        /\ AllLeft' = [AllLeft EXCEPT ![c] = Left(c) \ {p}]
    BY <1>6, <1>9, <2>2, SeenOfOne
  <2>4. UNCHANGED <<Methods, Requests, Answers>>
    BY <2>3 DEF Methods, Requests, Answers
  <2>5. AllLeft[c] = Left(c)
    BY <1>7
  <2>. QED BY <2>3, <2>4, <2>5
<1>14. UNCHANGED <<Opened, settable, keyed, value>>
  BY <1>1 DEF db, reply, Opened
<1>. HIDE DEF p
<1>. QED BY <1>5, <1>7, <1>10, <1>11, <1>12, <1>13, <1>14 DEF Contract!Carry

-----------------------------------------------------------------------------
(* open(), and the refinement                                                *)

LEMMA OpenRefines ==
    ASSUME IInv, IInv', Open
    PROVE  Contract!Open \/ UNCHANGED Contract!vars
<1>1. /\ UNCHANGED <<settable, keyed, table, request, phase, session, reply, history>>
      /\ \/ UNCHANGED <<kuduClientPtr, tablePtr, tableStatus>>
         \/ \E ok \in BOOLEAN : kuduClientPtr' = TRUE /\ tablePtr' = (tablePtr \/ ok)
  BY DEF Open
<1>2. UNCHANGED <<Rows, Methods, Requests, Answers, AllLeft, succeeded, value, settable, keyed>>
  <2>1. UNCHANGED Rows
    BY <1>1, RowsSame DEF request, history
  <2>2. UNCHANGED <<Methods, Requests, Answers, AllLeft>>
    BY <1>1 DEF Methods, Requests, Answers, AllLeft, MethodOf, RequestOf, AnswerOf, Left, Made,
                OpsOf, ToSet, request, session, reply
  <2>. QED BY <1>1, <2>1, <2>2 DEF reply, history
<1>3. CASE Opened'
  <2>1. CASE Opened
    <3>1. Opened' = Opened
      BY <1>3, <2>1 DEF Opened, IInv, Types
    <3>. QED BY <1>2, <3>1 DEF Contract!vars
  <2>2. CASE ~Opened
    <3>1. Opened' = TRUE
      BY <1>3 DEF Opened, IInv, Types
    <3>. QED BY <1>2, <3>1 DEF Contract!Open
  <2>. QED BY <2>1, <2>2
<1>4. CASE ~Opened'
  <2>1. ~Opened
    BY <1>1, <1>4 DEF Opened, IInv, Types
  <2>2. Opened' = Opened
    BY <1>4, <2>1 DEF Opened, IInv, Types
  <2>. QED BY <1>2, <2>2 DEF Contract!vars
<1>. QED BY <1>3, <1>4

LEMMA InitRefines == Init => Contract!Init
<1>. SUFFICES ASSUME Init PROVE Contract!Init
  OBVIOUS
<1>. USE DEF Init
<1>1. Opened = FALSE
  BY DEF Opened
<1>2. Rows = [k \in Keys |-> NoRow]
  BY DEF Rows, Asked
<1>3. \A c \in Calls : ~Made(c) /\ Left(c) = {}
  BY DEF Made, Left
<1>4. /\ Methods = [c \in Calls |-> "none"] /\ Requests = [c \in Calls |-> <<>>]
      /\ Answers = [c \in Calls |-> "none"] /\ AllLeft = [c \in Calls |-> {}]
  BY <1>3 DEF Methods, Requests, Answers, AllLeft, MethodOf, RequestOf, AnswerOf
<1>. QED BY <1>1, <1>2, <1>4 DEF Contract!Init

LEMMA NextRefines == IInv /\ IInv' /\ [Next]_vars => [Contract!Next]_(Contract!vars)
<1>. SUFFICES ASSUME IInv, IInv', [Next]_vars
              PROVE  Contract!Next \/ UNCHANGED Contract!vars
  OBVIOUS
<1>1. CASE Open
  BY <1>1, OpenRefines DEF Contract!Next
<1>2. ASSUME NEW c \in Calls, Program(c)
      PROVE  Contract!Next \/ UNCHANGED Contract!vars
  <2>1. ASSUME NEW k \in Keys, NEW v \in Values, Put(c, k, v)
        PROVE  Contract!Next
    <3>1. Contract!Call(c, "put", <<Contract!PutOf(k, v)>>)
      BY <2>1, SingleCallRefines DEF Put, Contract!PutOf
    <3>. QED BY <3>1 DEF Contract!Next
  <2>2. ASSUME NEW k \in Keys, Del(c, k)
        PROVE  Contract!Next
    <3>1. Contract!Call(c, "del", <<Contract!DelOf(k)>>)
      BY <2>2, SingleCallRefines DEF Del, Contract!DelOf
    <3>. QED BY <3>1 DEF Contract!Next
  <2>3. ASSUME NEW k \in Keys, Get(c, k)
        PROVE  Contract!Next
    <3>1. Contract!Call(c, "get", <<Contract!GetOf(k)>>)
      BY <2>3, SingleCallRefines DEF Get, Contract!GetOf
    <3>. QED BY <3>1 DEF Contract!Next
  <2>4. CASE BatchWrite(c)
    BY <2>4, BatchWriteRefines DEF Contract!Next
  <2>5. CASE BatchNew(c) \/ BatchClear(c) \/ \E op \in Writes : BatchAdd(c, op)
    BY <2>5, BatchBuildingRefines
  <2>. QED BY <1>2, <2>1, <2>2, <2>3, <2>4, <2>5 DEF Program
<1>3. ASSUME NEW c \in Calls, Work(c)
      PROVE  Contract!Next \/ UNCHANGED Contract!vars
  <2>1. CASE Refuse(c) \/ ApplyFails(c) \/ EndFlush(c)
    BY <2>1, RefuseRefines, ApplyFailsRefines, EndFlushRefines DEF Contract!Next
  <2>2. CASE PutToDatabase(c) \/ DeleteFromDatabase(c) \/ FlushOperation(c)
    BY <2>2, PutToDatabaseRefines, DeleteFromDatabaseRefines, FlushOperationRefines
       DEF Contract!Next
  <2>3. CASE GetFromDatabase(c)
    BY <2>3, GetFromDatabaseRefines DEF Contract!Next
  <2>4. CASE ApplyOperation(c) \/ BeginFlush(c)
    BY <2>4, ApplyOperationRefines, BeginFlushRefines
  <2>. QED BY <1>3, <2>1, <2>2, <2>3, <2>4 DEF Work
<1>4. CASE UNCHANGED vars
  <2>1. \A c \in Calls : Same(c) /\ UNCHANGED <<db, request, history, value>>
    BY <1>4 DEF vars, request, session, reply, history, Same
  <2>2. UNCHANGED <<Opened, settable, keyed, Rows, succeeded, value>>
    BY <1>4, RowsSame DEF vars, db, request, reply, history, Opened
  <2>3. UNCHANGED <<Methods, Requests, Answers, AllLeft>>
    BY <1>4 DEF vars, Methods, Requests, Answers, AllLeft, MethodOf, RequestOf, AnswerOf, Left,
                Made, OpsOf, ToSet, request, session, reply
  <2>. QED BY <2>2, <2>3 DEF Contract!vars
<1>. QED BY <1>1, <1>2, <1>3, <1>4 DEF Next

\* For any number of calls and keys, and batches of any length: whatever the
\* order in which workers, sessions and the server take their steps, the program
\* sees one table on which each call is carried out between its beginning and its
\* answer, in order on each row, and no answer says more than was done
\* (database.cc:79-499).
THEOREM Refinement == Spec => ImplementsContract
BY InitRefines, NextRefines, Invariance, PTL DEF Spec, ImplementsContract, Contract!Spec

=============================================================================
