--------------------------- MODULE DatabaseOps_proofs ---------------------------
(***************************************************************************)
(* The safety of DatabaseOps for any number of calls side by side, batches *)
(* of any length, and any table: an inductive invariant that follows each  *)
(* operation of a batch from the list to the session and to the server.    *)
(***************************************************************************)
EXTENDS DatabaseOps, TLAPS

\* TypeOK, with the domains it leaves open and bounds left to OpsInv.
Types ==
    /\ settable \in BOOLEAN /\ keyed \in BOOLEAN
    /\ kuduClientPtr \in BOOLEAN /\ tablePtr \in BOOLEAN /\ tableStatus \in BOOLEAN
    /\ table \in [Keys -> Values \cup {NULL, NoRow}]
    /\ kind \in [Calls -> {"none", "put", "get", "del", "batch"}]
    /\ ops \in [Calls -> Seq(Operations)]
    /\ hasData \in [Calls -> BOOLEAN]
    /\ phase \in [Calls -> {"none", "building", "called", "flushing", "returned"}]
    /\ applied \in [Calls -> Nat]
    /\ pending \in [Calls -> Seq(Nat)]
    /\ flushed \in [Calls -> BOOLEAN]
    /\ status \in [Calls -> {"none", "ok", "error", "notfound"}]
    /\ value \in [Calls -> Values \cup {NULL}]
    /\ succeeded \in [Calls -> SUBSET Nat]
    /\ last \in [Keys -> {<<>>} \cup (Calls \X Nat)]
    /\ asked \in [Calls -> SUBSET (Values \cup {NoRow})]

\* Without a table the status kept is an error.
StatusKept == kuduClientPtr /\ ~tablePtr => ~tableStatus

\* What a call holds at any time.
OpsInv(c) ==
    /\ Len(ops[c]) <= MaxOps
    /\ hasData[c] <=> kind[c] = "batch" /\ ops[c] # <<>>
    /\ applied[c] <= Len(ops[c])
    /\ \A n \in 1 .. Len(pending[c]) : pending[c][n] \in 1 .. applied[c]
    /\ \A n \in 1 .. Len(pending[c]) : \A m \in 1 .. n - 1 : pending[c][m] < pending[c][n]
    /\ succeeded[c] \subseteq 1 .. Len(ops[c])
    /\ kind[c] # "none" => ops[c] \in Seq(Operations)
    /\ kind[c] = "batch" => \A i \in 1 .. Len(ops[c]) : ops[c][i] \in Writes
    /\ kind[c] \notin {"none", "batch"} =>
         Len(ops[c]) = 1 /\ ops[c][1] \in Operations /\ ops[c][1].type = kind[c]
    /\ phase[c] = "none" <=> kind[c] = "none"
    /\ kind[c] = "none" => ops[c] = <<>>

\* What a call is like before its worker has sent anything.
UnsentInv(c) ==
    /\ phase[c] \in {"none", "building", "called"} => status[c] = "none" /\ flushed[c] /\ succeeded[c] = {}
    /\ phase[c] \in {"none", "building"} \/ kind[c] # "batch" => applied[c] = 0 /\ pending[c] = <<>>
    /\ phase[c] = "building" => kind[c] = "batch"
    /\ phase[c] = "called" =>
         /\ ops[c] # <<>>
         /\ \A i \in 1 .. applied[c] : \E n \in 1 .. Len(pending[c]) : pending[c][n] = i

InSession(c, i) == \E n \in 1 .. Len(pending[c]) : pending[c][n] = i

\* Of the operations on one row, those that have left the session come first.
RowOrder(c) ==
    \A j \in 1 .. applied[c], n \in 1 .. Len(pending[c]) :
        ~InSession(c, j) /\ ops[c][j].key = ops[c][pending[c][n]].key => j < pending[c][n]

\* What a batch is like while it is flushed.
FlushInv(c) ==
    phase[c] = "flushing" =>
        /\ kind[c] = "batch" /\ ops[c] # <<>> /\ Opened
        /\ settable => applied[c] = Len(ops[c])
        /\ status[c] = "none"
        /\ flushed[c] => \A i \in 1 .. applied[c] : i \in succeeded[c] \/ InSession(c, i)
        /\ RowOrder(c)

\* What the callback has said.
ReturnInv(c) ==
    Done(c) /\ status[c] = "ok" =>
        /\ kind[c] \in {"put", "batch"} /\ settable => succeeded[c] = OpsOf(c)
        /\ ops[c] # <<>> => Opened
        /\ kind[c] = "get" /\ keyed /\ Empty \notin asked[c] => value[c] \in asked[c]

CallInv(c) == OpsInv(c) /\ UnsentInv(c) /\ FlushInv(c) /\ ReturnInv(c)

\* The last write of a row, and the operations of its call that may follow it.
Settled(c) ==
    /\ settable
    /\ \/ Done(c) /\ status[c] = "ok"
       \/ phase[c] = "flushing" /\ flushed[c]

LastInv(c, k) ==
    \A i \in Nat : last[k] = <<c, i>> =>
        /\ phase[c] \in {"flushing", "returned"}
        /\ i \in 1 .. Len(ops[c]) /\ ops[c][i] \in Writes /\ ops[c][i].key = k
        /\ Settled(c) =>
             \A j \in 1 .. Len(ops[c]) : ops[c][j].key = k =>
                 j <= i \/ (phase[c] = "flushing" /\ InSession(c, j))

\* A row holds what it was last asked to, unless that was nothing.
RowInv(k) == Asked(k) # Empty => table[k] = Asked(k)

\* A get() in flight knows of that.
GetInv(c) == phase[c] = "called" /\ kind[c] = "get" => Asked(ops[c][1].key) \in asked[c]

IInv ==
    /\ Types /\ StatusKept
    /\ \A c \in Calls : CallInv(c) /\ GetInv(c)
    /\ \A k \in Keys : RowInv(k)
    /\ \A c \in Calls, k \in Keys : LastInv(c, k)

-----------------------------------------------------------------------------
(* Lemmas                                                                    *)

\* One sequence after another.
LEMMA ConcatFacts ==
    ASSUME NEW S, NEW a \in Seq(S), NEW b \in Seq(S)
    PROVE  /\ a \o b \in Seq(S)
           /\ Len(a \o b) = Len(a) + Len(b)
           /\ \A i \in 1 .. Len(a) : (a \o b)[i] = a[i]
           /\ \A i \in Len(a) + 1 .. Len(a) + Len(b) : (a \o b)[i] = b[i - Len(a)]
  OBVIOUS

\* What is left of a sequence.
LEMMA RemoveAtFacts ==
    ASSUME NEW S, NEW s \in Seq(S), NEW n \in 1 .. Len(s)
    PROVE  /\ RemoveAt(s, n) \in Seq(S)
           /\ Len(RemoveAt(s, n)) = Len(s) - 1
           /\ \A i \in 1 .. Len(s) - 1 : RemoveAt(s, n)[i] = IF i < n THEN s[i] ELSE s[i + 1]
<1>. DEFINE a == SubSeq(s, 1, n - 1)
            b == SubSeq(s, n + 1, Len(s))
<1>1. a \in Seq(S) /\ Len(a) = n - 1 /\ \A i \in 1 .. n - 1 : a[i] = s[i]
  OBVIOUS
<1>2. b \in Seq(S) /\ Len(b) = Len(s) - n /\ \A i \in 1 .. Len(s) - n : b[i] = s[n + i]
  OBVIOUS
<1>3. RemoveAt(s, n) = a \o b
  BY DEF RemoveAt
<1>. HIDE DEF a, b
<1>4. /\ a \o b \in Seq(S)
      /\ Len(a \o b) = Len(a) + Len(b)
      /\ \A i \in 1 .. Len(a) : (a \o b)[i] = a[i]
      /\ \A i \in Len(a) + 1 .. Len(a) + Len(b) : (a \o b)[i] = b[i - Len(a)]
  <2>1. a \in Seq(S) /\ b \in Seq(S)
    BY <1>1, <1>2
  <2>. QED BY <2>1, ConcatFacts
<1>7. Len(a \o b) = Len(s) - 1
  BY <1>1, <1>2, <1>4
<1>5. ASSUME NEW i \in 1 .. Len(s) - 1
      PROVE  (a \o b)[i] = IF i < n THEN s[i] ELSE s[i + 1]
  <2>1. CASE i < n
    <3>1. i \in 1 .. Len(a) /\ i \in 1 .. n - 1
      BY <1>1, <2>1
    <3>2. (a \o b)[i] = a[i] /\ a[i] = s[i]
      BY <1>1, <1>4, <3>1
    <3>. QED BY <2>1, <3>2
  <2>2. CASE ~(i < n)
    <3>1. i - (n - 1) \in 1 .. Len(s) - n /\ i \in Len(a) + 1 .. Len(a) + Len(b)
      BY <1>1, <1>2, <2>2
    <3>2. (a \o b)[i] = b[i - (n - 1)]
      BY <1>1, <1>4, <3>1
    <3>3. n + (i - (n - 1)) = i + 1
      OBVIOUS
    <3>. QED BY <1>2, <2>2, <3>1, <3>2, <3>3
  <2>. QED BY <2>1, <2>2
<1>. QED BY <1>3, <1>4, <1>5, <1>7

\* A row was never written, or last by an operation of a call.
LEMMA LastForm ==
    ASSUME Types, NEW k \in Keys
    PROVE  /\ last[k] = <<>> => Asked(k) = NoRow
           /\ \A c \in Calls, i \in Nat : last[k] = <<c, i>> => Asked(k) = AskedBy(ops[c][i])
           /\ last[k] # <<>> => \E c \in Calls, i \in Nat : last[k] = <<c, i>>
<1>1. last[k] \in {<<>>} \cup (Calls \X Nat)
  BY DEF Types
<1>2. ASSUME NEW c \in Calls, NEW i \in Nat, last[k] = <<c, i>>
      PROVE  Asked(k) = AskedBy(ops[c][i])
  <2>1. last[k] # <<>>
    BY <1>2
  <2>2. last[k][1] = c /\ last[k][2] = i
    BY <1>2
  <2>. QED BY <2>1, <2>2 DEF Asked
<1>. QED BY <1>1, <1>2 DEF Asked

\* The fields of a call.
Same(d) ==
    /\ kind'[d] = kind[d] /\ ops'[d] = ops[d] /\ hasData'[d] = hasData[d]
    /\ phase'[d] = phase[d] /\ applied'[d] = applied[d] /\ pending'[d] = pending[d]
    /\ flushed'[d] = flushed[d] /\ status'[d] = status[d] /\ value'[d] = value[d]
    /\ succeeded'[d] = succeeded[d]

\* A call no field of which changes.
LEMMA OtherCall ==
    ASSUME NEW d, CallInv(d), Same(d), settable' = settable, keyed' = keyed, Opened => Opened',
           asked'[d] = asked[d] \/ InFlight(d)
    PROVE  CallInv(d)'
<1>. USE DEF Same
<1>1. OpsInv(d)'
  BY DEF CallInv, OpsInv
<1>2. UnsentInv(d)'
  BY DEF CallInv, UnsentInv
<1>3. FlushInv(d)'
  BY DEF CallInv, FlushInv, RowOrder, InSession
<1>4. ReturnInv(d)'
  BY DEF CallInv, ReturnInv, Done, OpsOf, InFlight
<1>. QED BY <1>1, <1>2, <1>3, <1>4 DEF CallInv

\* What a row is asked to hold changes only with the row.
LEMMA AskedSame ==
    ASSUME Types, Types', NEW k \in Keys, last'[k] = last[k],
           \A d \in Calls : phase[d] \in {"flushing", "returned"} => ops'[d] = ops[d],
           \A d \in Calls : LastInv(d, k)
    PROVE  Asked(k)' = Asked(k)
<1>1. CASE last[k] = <<>>
  <2>1. Asked(k)' = NoRow
    BY <1>1 DEF Asked
  <2>. QED BY <1>1, <2>1 DEF Asked
<1>2. CASE last[k] # <<>>
  <2>1. PICK c \in Calls, i \in Nat : last[k] = <<c, i>>
    BY <1>2, LastForm
  <2>2. ops'[c] = ops[c]
    BY <2>1 DEF LastInv
  <2>3. last'[k][1] = c /\ last'[k][2] = i
    BY <2>1
  <2>4. Asked(k)' = AskedBy(ops'[c][i])
    BY <1>2, <2>3 DEF Asked, AskedBy
  <2>. QED BY <2>1, <2>2, <2>4, LastForm
<1>. QED BY <1>1, <1>2

\* A call whose fields stay, on a row whose last write stays or is another's.
LEMMA OtherLast ==
    ASSUME NEW d, NEW k, LastInv(d, k), Same(d), settable' = settable,
           \A i \in Nat : last'[k] = <<d, i>> => last[k] = <<d, i>>
    PROVE  LastInv(d, k)'
BY DEF LastInv, Same, Settled, InSession, Done


\* What a write is.
LEMMA WriteFacts ==
    ASSUME NEW op \in Writes
    PROVE  /\ op \in Operations /\ op.key \in Keys /\ op.type \in {"put", "del"}
           /\ op.type = "put" => op.value \in Values
           /\ AskedBy(op) \in Values \cup {NoRow}
BY DEF Writes, Operations, AskedBy

\* What a row holds after a write that sets the columns it has to.
LEMMA RowAfterFacts ==
    ASSUME Types, NEW op \in Writes, NEW columns
    PROVE  /\ RowAfter(op, columns) \in Values \cup {NULL, NoRow}
           /\ (op.type = "put" /\ op.value # Empty => "value" \in columns) =>
                (AskedBy(op) # Empty => RowAfter(op, columns) = AskedBy(op))
<1>1. op.key \in Keys /\ op.type \in {"put", "del"} /\ (op.type = "put" => op.value \in Values)
  BY WriteFacts
<1>2. table[op.key] \in Values \cup {NULL, NoRow}
  BY <1>1 DEF Types
<1>. QED BY <1>1, <1>2 DEF RowAfter, AskedBy

\* The types of what the server changes.
LEMMA ServerTypes ==
    ASSUME Types, NEW c \in Calls, NEW i \in Nat, NEW columns, NEW ok,
           ops[c][i] \in Writes, ServerWrite(c, i, columns, ok)
    PROVE  /\ table' \in [Keys -> Values \cup {NULL, NoRow}]
           /\ succeeded' \in [Calls -> SUBSET Nat]
           /\ last' \in [Keys -> {<<>>} \cup (Calls \X Nat)]
           /\ asked' \in [Calls -> SUBSET (Values \cup {NoRow})]
<1>1. CASE UNCHANGED <<table, history>>
  BY <1>1 DEF history, Types
<1>2. CASE ~UNCHANGED <<table, history>>
  <2>1. /\ table' = [table EXCEPT ![ops[c][i].key] = RowAfter(ops[c][i], columns)]
        /\ last' = [last EXCEPT ![ops[c][i].key] = <<c, i>>]
        /\ succeeded' = IF ok THEN [succeeded EXCEPT ![c] = @ \cup {i}] ELSE succeeded
        /\ asked' = [d \in Calls |->
                       IF InFlight(d) /\ kind[d] = "get" /\ ops[d][1].key = ops[c][i].key
                       THEN asked[d] \cup {AskedBy(ops[c][i])} ELSE asked[d]]
    BY <1>2 DEF ServerWrite
  <2>2. table' \in [Keys -> Values \cup {NULL, NoRow}]
    BY <2>1, RowAfterFacts DEF Types
  <2>3. succeeded' \in [Calls -> SUBSET Nat]
    BY <2>1 DEF Types
  <2>4. last' \in [Keys -> {<<>>} \cup (Calls \X Nat)]
    BY <2>1 DEF Types
  <2>5. asked' \in [Calls -> SUBSET (Values \cup {NoRow})]
    BY <2>1, WriteFacts DEF Types
  <2>. QED BY <2>2, <2>3, <2>4, <2>5
<1>. QED BY <1>1, <1>2

\* A call that has sent nothing is no row's last writer, and none the step after.
LEMMA UnsentLast ==
    ASSUME NEW c, NEW k, LastInv(c, k), phase[c] \notin {"flushing", "returned"},
           last'[k] = last[k]
    PROVE  LastInv(c, k)'
BY DEF LastInv

\* A step of one call that sends nothing to the server.
LEMMA LocalStep ==
    ASSUME IInv, Types', NEW c \in Calls,
           \A d \in Calls : d # c => Same(d) /\ asked'[d] = asked[d],
           phase[c] \in {"flushing", "returned"} => ops'[c] = ops[c],
           UNCHANGED <<db, table, last>>,
           CallInv(c)', GetInv(c)', \A k \in Keys : LastInv(c, k)'
    PROVE  IInv'
<1>1. StatusKept'
  BY DEF IInv, StatusKept, db
<1>2. \A k \in Keys : Asked(k)' = Asked(k)
  <2>1. \A d \in Calls : phase[d] \in {"flushing", "returned"} => ops'[d] = ops[d]
    BY DEF Same
  <2>. QED BY <2>1, AskedSame DEF IInv
<1>3. ASSUME NEW d \in Calls, d # c
      PROVE  CallInv(d)'
  <2>1. Same(d) /\ asked'[d] = asked[d] /\ CallInv(d)
    BY <1>3 DEF IInv
  <2>2. settable' = settable /\ keyed' = keyed /\ (Opened => Opened')
    BY DEF db, Opened
  <2>. QED BY <2>1, <2>2, OtherCall
<1>4. ASSUME NEW d \in Calls, d # c
      PROVE  GetInv(d)'
  <2>1. Same(d) /\ asked'[d] = asked[d] /\ GetInv(d) /\ CallInv(d)
    BY <1>4 DEF IInv
  <2>2. ASSUME (phase[d] = "called" /\ kind[d] = "get")'
        PROVE  (Asked(ops[d][1].key) \in asked[d])'
    <3>1. phase[d] = "called" /\ kind[d] = "get" /\ ops'[d] = ops[d]
      BY <2>1, <2>2 DEF Same
    <3>2. ops[d][1].key \in Keys
      BY <2>1, <3>1 DEF CallInv, OpsInv, Operations, Writes
    <3>3. Asked(ops[d][1].key) \in asked[d]
      BY <2>1, <3>1 DEF GetInv
    <3>. QED BY <1>2, <2>1, <3>1, <3>2, <3>3
  <2>. QED BY <2>2 DEF GetInv
<1>5. ASSUME NEW k \in Keys
      PROVE  RowInv(k)'
  BY <1>2 DEF IInv, RowInv
<1>6. ASSUME NEW d \in Calls, NEW k \in Keys, d # c
      PROVE  LastInv(d, k)'
  <2>1. LastInv(d, k) /\ Same(d) /\ settable' = settable /\ last'[k] = last[k]
    BY <1>6 DEF IInv, db
  <2>. QED BY <2>1, OtherLast
<1>. QED BY <1>1, <1>3, <1>4, <1>5, <1>6 DEF IInv

\* A step in which the server answers one operation of a call.
LEMMA ServerStep ==
    ASSUME IInv, Types', NEW c \in Calls, NEW i \in Nat, NEW columns, NEW ok,
           ServerWrite(c, i, columns, ok), ops[c][i] \in Writes,
           ops[c][i].type = "put" /\ ops[c][i].value # Empty => "value" \in columns,
           kind[c] # "get", UNCHANGED <<db, request>>,
           \A d \in Calls : d # c => Same(d),
           CallInv(c)', \A k \in Keys : LastInv(c, k)'
    PROVE  IInv'
<1>. DEFINE op == ops[c][i]
            Written ==
                /\ table' = [table EXCEPT ![op.key] = RowAfter(op, columns)]
                /\ last' = [last EXCEPT ![op.key] = <<c, i>>]
                /\ asked' = [d \in Calls |->
                               IF InFlight(d) /\ kind[d] = "get" /\ ops[d][1].key = op.key
                               THEN asked[d] \cup {AskedBy(op)} ELSE asked[d]]
<1>1. \/ UNCHANGED <<table, last, asked>>
      \/ Written
  BY DEF ServerWrite, history
<1>2. StatusKept'
  BY DEF IInv, StatusKept, db
<1>3. op.key \in Keys
  BY WriteFacts
<1>4. \A d \in Calls : phase[d] \in {"flushing", "returned"} => ops'[d] = ops[d]
  BY DEF request
<1>5. ASSUME NEW k \in Keys, last'[k] = last[k]
      PROVE  Asked(k)' = Asked(k)
  BY <1>4, <1>5, AskedSame DEF IInv
<1>6. ASSUME Written, NEW k \in Keys, k = op.key
      PROVE  Asked(k)' = AskedBy(op)
  <2>1. last'[k] = <<c, i>>
    BY <1>3, <1>6 DEF IInv, Types
  <2>2. ops' = ops
    BY DEF request
  <2>3. last'[k] # <<>> /\ last'[k][1] = c /\ last'[k][2] = i
    BY <2>1
  <2>4. Asked(k)' = AskedBy(ops'[c][i])
    BY <2>2, <2>3 DEF Asked, AskedBy
  <2>. QED BY <2>2, <2>4
<1>. HIDE DEF op
<1>7. ASSUME NEW k \in Keys
      PROVE  RowInv(k)'
  <2>1. RowInv(k)
    BY DEF IInv
  <2>2. CASE UNCHANGED <<table, last, asked>>
    BY <1>5, <2>1, <2>2 DEF RowInv
  <2>3. CASE Written /\ k # op.key
    <3>1. last'[k] = last[k] /\ table'[k] = table[k]
      BY <2>3 DEF IInv, Types
    <3>. QED BY <1>5, <2>1, <3>1 DEF RowInv
  <2>4. CASE Written /\ k = op.key
    <3>1. table'[k] = RowAfter(op, columns)
      BY <2>4 DEF IInv, Types
    <3>2. AskedBy(op) # Empty => RowAfter(op, columns) = AskedBy(op)
      BY RowAfterFacts DEF op, IInv
    <3>3. Asked(k)' = AskedBy(op)
      BY <1>6, <2>4
    <3>. QED BY <3>1, <3>2, <3>3 DEF RowInv
  <2>. QED BY <1>1, <2>2, <2>3, <2>4
<1>8. ASSUME NEW d \in Calls, d # c
      PROVE  CallInv(d)'
  <2>1. CallInv(d) /\ Same(d)
    BY <1>8 DEF IInv
  <2>2. settable' = settable /\ keyed' = keyed /\ (Opened => Opened')
    BY DEF db, Opened
  <2>3. asked'[d] = asked[d] \/ InFlight(d)
    BY <1>1
  <2>. QED BY <2>1, <2>2, <2>3, OtherCall
<1>9. ASSUME NEW d \in Calls
      PROVE  GetInv(d)'
  <2>1. CallInv(d) /\ GetInv(d)
    BY DEF IInv
  <2>2. ASSUME (phase[d] = "called" /\ kind[d] = "get")'
        PROVE  (Asked(ops[d][1].key) \in asked[d])'
    <3>1. d # c /\ ops' = ops
      BY <2>2 DEF request
    <3>2. phase[d] = "called" /\ kind[d] = "get"
      BY <2>2, <3>1 DEF Same
    <3>3. ops[d][1].key \in Keys
      BY <2>1, <3>2 DEF CallInv, OpsInv, Operations, Writes
    <3>4. Asked(ops[d][1].key) \in asked[d]
      BY <2>1, <3>2 DEF GetInv
    <3>5. CASE UNCHANGED <<table, last, asked>>
      BY <1>5, <3>1, <3>3, <3>4, <3>5
    <3>6. CASE Written /\ ops[d][1].key # op.key
      <4>1. last'[ops[d][1].key] = last[ops[d][1].key] /\ asked'[d] = asked[d]
        BY <3>3, <3>6 DEF IInv, Types
      <4>. QED BY <1>5, <3>1, <3>3, <3>4, <4>1
    <3>7. CASE Written /\ ops[d][1].key = op.key
      <4>1. AskedBy(op) \in asked'[d]
        BY <3>2, <3>7 DEF InFlight
      <4>2. PICK k \in Keys : k = ops[d][1].key
        BY <3>3
      <4>3. Asked(k)' = AskedBy(op)
        BY <1>6, <3>7, <4>2
      <4>4. Asked(k)' \in asked'[d]
        BY <4>1, <4>3
      <4>. QED BY <3>1, <4>2, <4>4
    <3>. QED BY <1>1, <3>5, <3>6, <3>7
  <2>. QED BY <2>2 DEF GetInv
<1>10. ASSUME NEW d \in Calls, NEW k \in Keys, d # c
       PROVE  LastInv(d, k)'
  <2>1. LastInv(d, k) /\ Same(d) /\ settable' = settable
    BY <1>10 DEF IInv, db
  <2>2. ASSUME NEW j \in Nat, last'[k] = <<d, j>>
        PROVE  last[k] = <<d, j>>
    <3>1. CASE Written /\ k = op.key
      <4>1. last'[k] = <<c, i>>
        BY <3>1 DEF IInv, Types
      <4>. QED BY <1>10, <2>2, <4>1
    <3>2. CASE Written /\ k # op.key
      BY <2>2, <3>2 DEF IInv, Types
    <3>. QED BY <1>1, <2>2, <3>1, <3>2
  <2>. QED BY <2>1, <2>2, OtherLast
<1>. QED BY <1>2, <1>7, <1>8, <1>9, <1>10 DEF IInv

-----------------------------------------------------------------------------
(* The program: each of its actions keeps the invariant                      *)

LEMMA CallStep ==
    ASSUME IInv, NEW c \in Calls, NEW op \in Operations, Call(c, op.type, op),
           asked' \in [Calls -> SUBSET (Values \cup {NoRow})],
           \A d \in Calls : d # c => asked'[d] = asked[d],
           op.type = "get" => Asked(op.key) \in asked'[c]
    PROVE  IInv'
<1>. USE DEF Call, db, session, reply
<1>1. op.type \in {"put", "del", "get"} /\ op.key \in Keys
  BY DEF Operations, Writes
<1>2. Types /\ CallInv(c) /\ phase[c] = "none"
  BY DEF IInv
<1>3. Types'
  BY <1>1, <1>2 DEF Types
<1>4. \A d \in Calls : d # c => Same(d) /\ asked'[d] = asked[d]
  BY <1>2 DEF Same, Types
<1>5. kind'[c] = op.type /\ ops'[c] = <<op>> /\ phase'[c] = "called"
  BY <1>2 DEF Types
<1>6. ops[c] = <<>> /\ kind[c] = "none" /\ ~hasData[c] /\ applied[c] = 0 /\ pending[c] = <<>>
  BY <1>2 DEF CallInv, OpsInv, UnsentInv
<1>7. OpsInv(c)'
  BY <1>1, <1>2, <1>5, <1>6, OpsAssumption DEF CallInv, OpsInv, UnsentInv
<1>8. UnsentInv(c)'
  <2>1. applied'[c] = 0 /\ pending'[c] = <<>> /\ ops'[c] # <<>>
    BY <1>5, <1>6
  <2>2. status'[c] = "none" /\ flushed'[c] /\ succeeded'[c] = {}
    BY <1>2 DEF CallInv, UnsentInv
  <2>. QED BY <1>5, <2>1, <2>2 DEF UnsentInv
<1>9. FlushInv(c)' /\ ReturnInv(c)'
  BY <1>5 DEF FlushInv, ReturnInv, Done
<1>10. \A k \in Keys : LastInv(c, k)'
  BY <1>2, UnsentLast DEF IInv
<1>11. GetInv(c)'
  <2>1. \A d \in Calls : phase[d] \in {"flushing", "returned"} => ops'[d] = ops[d]
    BY <1>2, <1>4 DEF Same
  <2>2. Asked(op.key)' = Asked(op.key)
    BY <1>1, <1>2, <1>3, <2>1, AskedSame DEF IInv
  <2>3. ops'[c][1].key = op.key
    BY <1>5
  <2>4. ASSUME kind'[c] = "get"
        PROVE  Asked(op.key)' \in asked'[c]
    BY <1>5, <2>2, <2>4
  <2>. QED BY <2>3, <2>4 DEF GetInv
<1>12. CallInv(c)'
  BY <1>7, <1>8, <1>9 DEF CallInv
<1>. QED BY <1>2, <1>3, <1>4, <1>10, <1>11, <1>12, LocalStep

LEMMA PutStep ==
    ASSUME IInv, NEW c \in Calls, NEW k \in Keys, NEW v \in Values, Put(c, k, v)
    PROVE  IInv'
<1>. DEFINE op == [type |-> "put", key |-> k, value |-> v]
<1>1. op \in Operations /\ op.type = "put"
  BY DEF Operations, Writes
<1>2. Call(c, op.type, op) /\ asked' = asked
  BY DEF Put
<1>. HIDE DEF op
<1>. QED BY <1>1, <1>2, CallStep DEF IInv, Types

LEMMA DelStep ==
    ASSUME IInv, NEW c \in Calls, NEW k \in Keys, Del(c, k)
    PROVE  IInv'
<1>. DEFINE op == [type |-> "del", key |-> k]
<1>1. op \in Operations /\ op.type = "del"
  BY DEF Operations, Writes
<1>2. Call(c, op.type, op) /\ asked' = asked
  BY DEF Del
<1>. HIDE DEF op
<1>. QED BY <1>1, <1>2, CallStep DEF IInv, Types

LEMMA GetStep ==
    ASSUME IInv, NEW c \in Calls, NEW k \in Keys, Get(c, k)
    PROVE  IInv'
<1>. DEFINE op == [type |-> "get", key |-> k]
<1>1. op \in Operations /\ op.type = "get" /\ op.key = k
  BY DEF Operations, Writes
<1>2. Call(c, op.type, op) /\ asked' = [asked EXCEPT ![c] = {Asked(k)}]
  BY DEF Get
<1>3. Asked(k) \in Values \cup {NoRow}
  <2>1. CASE last[k] = <<>>
    BY <2>1, LastForm DEF IInv
  <2>2. CASE last[k] # <<>>
    <3>1. PICK d \in Calls, i \in Nat : last[k] = <<d, i>>
      BY <2>2, LastForm DEF IInv
    <3>2. ops[d][i] \in Writes
      BY <3>1 DEF IInv, LastInv
    <3>. QED BY <3>1, <3>2, LastForm, WriteFacts DEF IInv
  <2>. QED BY <2>1, <2>2
<1>4. /\ asked' \in [Calls -> SUBSET (Values \cup {NoRow})]
      /\ \A d \in Calls : d # c => asked'[d] = asked[d]
      /\ Asked(k) \in asked'[c]
  BY <1>2, <1>3 DEF IInv, Types
<1>. HIDE DEF op
<1>. QED BY <1>1, <1>2, <1>4, CallStep

LEMMA BatchNewStep ==
    ASSUME IInv, NEW c \in Calls, BatchNew(c)
    PROVE  IInv'
<1>. USE DEF BatchNew, db, session, reply, history
<1>1. Types /\ CallInv(c) /\ phase[c] = "none"
  BY DEF IInv
<1>2. Types'
  BY <1>1 DEF Types
<1>3. \A d \in Calls : d # c => Same(d) /\ asked'[d] = asked[d]
  BY <1>1 DEF Same, Types
<1>4. kind'[c] = "batch" /\ phase'[c] = "building"
  BY <1>1 DEF Types
<1>5. ops[c] = <<>> /\ ~hasData[c] /\ applied[c] = 0 /\ pending[c] = <<>>
  BY <1>1 DEF CallInv, OpsInv, UnsentInv
<1>6. OpsInv(c)'
  BY <1>1, <1>4, <1>5 DEF CallInv, OpsInv, Types
<1>7. UnsentInv(c)' /\ FlushInv(c)' /\ ReturnInv(c)' /\ GetInv(c)'
  BY <1>1, <1>4, <1>5 DEF CallInv, UnsentInv, FlushInv, ReturnInv, GetInv, Done
<1>8. \A k \in Keys : LastInv(c, k)'
  BY <1>1, UnsentLast DEF IInv
<1>9. CallInv(c)'
  BY <1>6, <1>7 DEF CallInv
<1>. QED BY <1>1, <1>2, <1>3, <1>7, <1>8, <1>9, LocalStep

LEMMA BatchAddStep ==
    ASSUME IInv, NEW c \in Calls, NEW op \in Writes, BatchAdd(c, op)
    PROVE  IInv'
<1>. USE DEF BatchAdd, db, session, reply, history
<1>1. Types /\ CallInv(c) /\ phase[c] = "building" /\ op \in Operations
  BY WriteFacts DEF IInv
<1>2. Types'
  BY <1>1 DEF Types
<1>3. \A d \in Calls : d # c => Same(d) /\ asked'[d] = asked[d]
  BY <1>1 DEF Same, Types
<1>4. ops'[c] = Append(ops[c], op) /\ hasData'[c] = TRUE
  BY <1>1 DEF Types
<1>5. /\ kind[c] = "batch" /\ applied[c] = 0 /\ pending[c] = <<>> /\ succeeded[c] = {}
      /\ ops[c] \in Seq(Operations) /\ \A i \in 1 .. Len(ops[c]) : ops[c][i] \in Writes
  BY <1>1 DEF CallInv, OpsInv, UnsentInv
<1>6. /\ ops'[c] \in Seq(Operations) /\ Len(ops'[c]) = Len(ops[c]) + 1 /\ ops'[c] # <<>>
      /\ \A i \in 1 .. Len(ops[c]) + 1 : ops'[c][i] \in Writes
  BY <1>1, <1>4, <1>5
<1>7. OpsInv(c)'
  BY <1>1, <1>4, <1>5, <1>6, OpsAssumption DEF CallInv, OpsInv
<1>8. UnsentInv(c)' /\ FlushInv(c)' /\ ReturnInv(c)' /\ GetInv(c)'
  BY <1>1, <1>5 DEF CallInv, UnsentInv, FlushInv, ReturnInv, GetInv, Done
<1>9. \A k \in Keys : LastInv(c, k)'
  BY <1>1, UnsentLast DEF IInv
<1>10. CallInv(c)'
  BY <1>7, <1>8 DEF CallInv
<1>. QED BY <1>1, <1>2, <1>3, <1>8, <1>9, <1>10, LocalStep

LEMMA BatchClearStep ==
    ASSUME IInv, NEW c \in Calls, BatchClear(c)
    PROVE  IInv'
<1>. USE DEF BatchClear, HasDataAfterClear, db, session, reply, history
<1>1. Types /\ CallInv(c) /\ phase[c] = "building"
  BY DEF IInv
<1>2. Types'
  BY <1>1 DEF Types
<1>3. \A d \in Calls : d # c => Same(d) /\ asked'[d] = asked[d]
  BY <1>1 DEF Same, Types
<1>4. ops'[c] = <<>> /\ hasData'[c] = FALSE
  BY <1>1 DEF Types
<1>5. kind[c] = "batch" /\ applied[c] = 0 /\ pending[c] = <<>> /\ succeeded[c] = {}
  BY <1>1 DEF CallInv, UnsentInv
<1>6. OpsInv(c)'
  BY <1>1, <1>4, <1>5, OpsAssumption DEF CallInv, OpsInv
<1>7. UnsentInv(c)' /\ FlushInv(c)' /\ ReturnInv(c)' /\ GetInv(c)'
  BY <1>1, <1>5 DEF CallInv, UnsentInv, FlushInv, ReturnInv, GetInv, Done
<1>8. \A k \in Keys : LastInv(c, k)'
  BY <1>1, UnsentLast DEF IInv
<1>9. CallInv(c)'
  BY <1>6, <1>7 DEF CallInv
<1>. QED BY <1>1, <1>2, <1>3, <1>7, <1>8, <1>9, LocalStep

LEMMA BatchWriteStep ==
    ASSUME IInv, NEW c \in Calls, BatchWrite(c)
    PROVE  IInv'
<1>. USE DEF BatchWrite, db, request, session, history
<1>1. Types /\ CallInv(c) /\ phase[c] = "building"
  BY DEF IInv
<1>2. Types'
  BY <1>1 DEF Types
<1>3. \A d \in Calls : d # c => Same(d) /\ asked'[d] = asked[d]
  BY <1>1 DEF Same, Types
<1>4. \/ hasData[c] /\ phase'[c] = "called" /\ status'[c] = status[c]
      \/ ~hasData[c] /\ phase'[c] = "returned" /\ status'[c] = "ok"
  BY <1>1 DEF Types
<1>5. /\ kind[c] = "batch" /\ applied[c] = 0 /\ pending[c] = <<>> /\ succeeded[c] = {}
      /\ hasData[c] <=> ops[c] # <<>>
  BY <1>1 DEF CallInv, OpsInv, UnsentInv
<1>6. OpsInv(c)'
  BY <1>1, <1>4 DEF CallInv, OpsInv
<1>7. UnsentInv(c)' /\ FlushInv(c)' /\ GetInv(c)'
  BY <1>1, <1>4, <1>5 DEF CallInv, UnsentInv, FlushInv, GetInv
<1>8. ReturnInv(c)'
  <2>1. ops[c] = <<>> => OpsOf(c) = {}
    BY DEF OpsOf
  <2>. QED BY <1>4, <1>5, <2>1 DEF ReturnInv, Done, OpsOf
<1>9. \A k \in Keys : LastInv(c, k)'
  BY <1>1, UnsentLast DEF IInv
<1>10. CallInv(c)'
  BY <1>6, <1>7, <1>8 DEF CallInv
<1>. QED BY <1>1, <1>2, <1>3, <1>7, <1>9, <1>10, LocalStep

-----------------------------------------------------------------------------
(* The workers: so does each of theirs                                       *)

\* A call that returns an error without sending anything.
LEMMA ErrorStep ==
    ASSUME IInv, Types', NEW c \in Calls, phase[c] = "called",
           Return(c, "error"), UNCHANGED <<db, table, request, value, history, applied, flushed>>,
           pending' = [pending EXCEPT ![c] = <<>>] \/ UNCHANGED pending
    PROVE  IInv'
<1>. USE DEF Return, db, request, history
<1>1. Types /\ CallInv(c)
  BY DEF IInv
<1>2. \A d \in Calls : d # c => Same(d) /\ asked'[d] = asked[d]
  BY <1>1 DEF Same, Types
<1>3. phase'[c] = "returned" /\ status'[c] = "error" /\ (pending'[c] = pending[c] \/ pending'[c] = <<>>)
  BY <1>1 DEF Types
<1>4. OpsInv(c)'
  BY <1>1, <1>3 DEF CallInv, OpsInv
<1>5. UnsentInv(c)'
  BY <1>1, <1>3 DEF CallInv, UnsentInv
<1>6. FlushInv(c)' /\ ReturnInv(c)' /\ GetInv(c)'
  BY <1>3 DEF FlushInv, ReturnInv, GetInv
<1>7. \A k \in Keys : LastInv(c, k)'
  BY <1>1, UnsentLast DEF IInv
<1>8. CallInv(c)'
  BY <1>4, <1>5, <1>6 DEF CallInv
<1>. QED BY <1>2, <1>6, <1>7, <1>8, LocalStep

LEMMA RefuseStep ==
    ASSUME IInv, NEW c \in Calls, Refuse(c)
    PROVE  IInv'
<1>1. Return(c, "error")
  BY DEF Refuse, Status, IInv, StatusKept
<1>2. Types'
  BY <1>1 DEF IInv, Types, Refuse, Return, db, request, session, history
<1>. QED BY <1>1, <1>2, ErrorStep DEF Refuse, session

LEMMA ApplyFailsStep ==
    ASSUME IInv, NEW c \in Calls, ApplyFails(c)
    PROVE  IInv'
<1>1. Return(c, "error")
  BY DEF ApplyFails, ApplyStatus, Status
<1>2. pending' \in [Calls -> Seq(Nat)]
  <2>1. <<>> \in Seq(Nat)
    OBVIOUS
  <2>. QED BY <2>1 DEF IInv, Types, ApplyFails
<1>3. UNCHANGED <<db, table, request, applied, flushed, value, history>>
  BY DEF ApplyFails
<1>4. phase' = [phase EXCEPT ![c] = "returned"] /\ status' = [status EXCEPT ![c] = "error"]
  BY <1>1 DEF Return
<1>5. Types'
  BY <1>2, <1>3, <1>4 DEF IInv, Types, db, request, history
<1>. QED BY <1>1, <1>5, ErrorStep DEF ApplyFails, Working

LEMMA ApplyOperationStep ==
    ASSUME IInv, NEW c \in Calls, ApplyOperation(c)
    PROVE  IInv'
<1>. USE DEF ApplyOperation, Working, NextOperation, db, request, reply, history
<1>1. Types /\ CallInv(c) /\ phase[c] = "called" /\ kind[c] = "batch"
  BY DEF IInv
<1>2. applied[c] \in Nat /\ pending[c] \in Seq(Nat) /\ applied[c] + 1 \in Nat
  BY <1>1 DEF Types
<1>3. applied'[c] = applied[c] + 1 /\ pending'[c] = Append(pending[c], applied[c] + 1)
  BY <1>1 DEF Types
<1>4. Types'
  BY <1>1, <1>2 DEF Types
<1>5. \A d \in Calls : d # c => Same(d) /\ asked'[d] = asked[d]
  BY <1>1 DEF Same, Types
<1>6. /\ Len(pending'[c]) = Len(pending[c]) + 1
      /\ pending'[c][Len(pending[c]) + 1] = applied[c] + 1
      /\ \A n \in 1 .. Len(pending[c]) : pending'[c][n] = pending[c][n]
  BY <1>2, <1>3
<1>7. OpsInv(c)'
  <2>1. applied'[c] <= Len(ops'[c])
    BY <1>1, <1>2, <1>3 DEF Types
  <2>2. ASSUME NEW n \in 1 .. Len(pending'[c])
        PROVE  pending'[c][n] \in 1 .. applied'[c]
    BY <1>1, <1>2, <1>3, <1>6 DEF CallInv, OpsInv
  <2>3. ASSUME NEW n \in 1 .. Len(pending'[c]), NEW m \in 1 .. n - 1
        PROVE  pending'[c][m] < pending'[c][n]
    <3>1. m \in 1 .. Len(pending[c]) /\ pending[c][m] \in 1 .. applied[c]
      BY <1>1, <1>2, <1>6 DEF CallInv, OpsInv
    <3>2. CASE n = Len(pending[c]) + 1
      BY <1>2, <1>6, <3>1, <3>2
    <3>3. CASE n # Len(pending[c]) + 1
      <4>1. n \in 1 .. Len(pending[c])
        BY <1>2, <1>6, <3>3
      <4>. QED BY <1>1, <1>6, <3>1, <4>1 DEF CallInv, OpsInv
    <3>. QED BY <3>2, <3>3
  <2>. QED BY <1>1, <2>1, <2>2, <2>3 DEF CallInv, OpsInv
<1>8. UnsentInv(c)'
  <2>1. ASSUME NEW i \in 1 .. applied'[c]
        PROVE  \E n \in 1 .. Len(pending'[c]) : pending'[c][n] = i
    <3>1. CASE i = applied[c] + 1
      BY <1>2, <1>6, <3>1
    <3>2. CASE i # applied[c] + 1
      <4>1. i \in 1 .. applied[c]
        BY <1>2, <1>3, <3>2
      <4>2. PICK n \in 1 .. Len(pending[c]) : pending[c][n] = i
        BY <1>1, <4>1 DEF CallInv, UnsentInv
      <4>3. n \in 1 .. Len(pending'[c]) /\ pending'[c][n] = i
        BY <1>2, <1>6, <4>2
      <4>. QED BY <4>3
    <3>. QED BY <3>1, <3>2
  <2>. QED BY <1>1, <2>1 DEF CallInv, UnsentInv
<1>9. FlushInv(c)' /\ ReturnInv(c)' /\ GetInv(c)'
  BY <1>1 DEF FlushInv, ReturnInv, Done, GetInv
<1>10. \A k \in Keys : LastInv(c, k)'
  BY <1>1, UnsentLast DEF IInv
<1>11. CallInv(c)'
  BY <1>7, <1>8, <1>9 DEF CallInv
<1>. QED BY <1>1, <1>4, <1>5, <1>9, <1>10, <1>11, LocalStep

LEMMA BeginFlushStep ==
    ASSUME IInv, NEW c \in Calls, BeginFlush(c)
    PROVE  IInv'
<1>. USE DEF BeginFlush, Working, db, request, session, reply, history
<1>1. Types /\ CallInv(c) /\ phase[c] = "called" /\ kind[c] = "batch" /\ Opened
  BY DEF IInv
<1>2. Types'
  BY <1>1 DEF Types
<1>3. \A d \in Calls : d # c => Same(d) /\ asked'[d] = asked[d]
  BY <1>1 DEF Same, Types
<1>4. phase'[c] = "flushing"
  BY <1>1 DEF Types
<1>5. OpsInv(c)' /\ UnsentInv(c)' /\ ReturnInv(c)' /\ GetInv(c)'
  BY <1>1, <1>4 DEF CallInv, OpsInv, UnsentInv, ReturnInv, Done, GetInv
<1>6. \A i \in 1 .. applied[c] : InSession(c, i)
  BY <1>1 DEF CallInv, UnsentInv, InSession
<1>7. settable => applied[c] = Len(ops[c])
  <2>1. applied[c] \in Nat /\ ops[c] \in Seq(Operations)
    BY <1>1 DEF Types
  <2>2. settable => ~(applied[c] < Len(ops[c]))
    BY DEF ColumnsRefused
  <2>. QED BY <1>1, <2>1, <2>2 DEF CallInv, OpsInv
<1>8. FlushInv(c)'
  <2>1. RowOrder(c)'
    BY <1>6 DEF RowOrder, InSession
  <2>2. (\A i \in 1 .. applied[c] : i \in succeeded[c] \/ InSession(c, i))'
    BY <1>6 DEF InSession
  <2>. QED BY <1>1, <1>7, <2>1, <2>2 DEF FlushInv, CallInv, UnsentInv, Opened
<1>9. \A k \in Keys : LastInv(c, k)'
  BY <1>1, UnsentLast DEF IInv
<1>10. CallInv(c)'
  BY <1>5, <1>8 DEF CallInv
<1>. QED BY <1>1, <1>2, <1>3, <1>5, <1>9, <1>10, LocalStep

LEMMA GetFromDatabaseStep ==
    ASSUME IInv, NEW c \in Calls, GetFromDatabase(c)
    PROVE  IInv'
<1>. USE DEF GetFromDatabase, Working, Return, db, request, session, history
<1>1. /\ Types /\ CallInv(c) /\ GetInv(c)
      /\ phase[c] = "called" /\ kind[c] = "get"
  BY DEF IInv
<1>. DEFINE k == ops[c][1].key
<1>2. k \in Keys
  BY <1>1 DEF CallInv, OpsInv, Operations, Writes
<1>3. Asked(k) \in asked[c] /\ (Asked(k) # Empty => table[k] = Asked(k))
  BY <1>1, <1>2 DEF GetInv, IInv, RowInv
<1>4. \/ /\ phase' = [phase EXCEPT ![c] = "returned"]
         /\ status' = [status EXCEPT ![c] = "error"] /\ value' = value
      \/ \E cell \in {table[r] : r \in RowsScanned(c)} \cup {NoRow} :
            /\ phase' = [phase EXCEPT ![c] = "returned"]
            /\ status' = [status EXCEPT ![c] = IF cell = NoRow THEN "notfound" ELSE "ok"]
            /\ value' = [value EXCEPT ![c] = IF cell \in Values THEN cell ELSE Empty]
  BY DEF GetStatus
<1>12. keyed => RowsScanned(c) = {k}
  BY DEF RowsScanned
<1>13. keyed' = keyed
  OBVIOUS
<1>5. Types'
  <2>1. phase' \in [Calls -> {"none", "building", "called", "flushing", "returned"}]
    BY <1>1, <1>4 DEF Types
  <2>2. status' \in [Calls -> {"none", "ok", "error", "notfound"}]
    BY <1>1, <1>4 DEF Types
  <2>3. value' \in [Calls -> Values \cup {NULL}]
    <3>1. Empty \in Values
      BY OpsAssumption
    <3>2. value' = value \/ \E v \in Values : value' = [value EXCEPT ![c] = v]
      BY <1>4, <3>1
    <3>3. value \in [Calls -> Values \cup {NULL}]
      BY <1>1 DEF Types
    <3>. HIDE DEF GetFromDatabase
    <3>. QED BY <3>2, <3>3
  <2>4. UNCHANGED <<db, table, request, session, history>>
    OBVIOUS
  <2>. HIDE DEF GetFromDatabase
  <2>. QED BY <1>1, <2>1, <2>2, <2>3, <2>4 DEF Types
<1>6. \A d \in Calls : d # c => Same(d) /\ asked'[d] = asked[d]
  BY <1>1, <1>4 DEF Same, Types
<1>7. phase'[c] = "returned"
  BY <1>1, <1>4 DEF Types
<1>8. OpsInv(c)' /\ UnsentInv(c)' /\ FlushInv(c)' /\ GetInv(c)'
  BY <1>1, <1>7 DEF CallInv, OpsInv, UnsentInv, FlushInv, GetInv
<1>9. ReturnInv(c)'
  <2>1. ASSUME status'[c] = "ok", keyed, Empty \notin asked[c]
        PROVE  value'[c] \in asked[c]
    <3>1. table[k] # NoRow /\ value'[c] = IF table[k] \in Values THEN table[k] ELSE Empty
      BY <1>1, <1>4, <1>12, <2>1 DEF Types
    <3>2. table[k] = Asked(k)
      BY <1>3, <2>1
    <3>3. Asked(k) \in Values
      BY <1>1, <1>3, <3>1, <3>2 DEF Types
    <3>. QED BY <1>3, <3>1, <3>2, <3>3
  <2>. QED BY <1>1, <1>13, <2>1 DEF ReturnInv, Opened
<1>10. \A r \in Keys : LastInv(c, r)'
  BY <1>1, UnsentLast DEF IInv
<1>11. CallInv(c)'
  BY <1>8, <1>9 DEF CallInv
<1>. QED BY <1>1, <1>5, <1>6, <1>8, <1>10, <1>11, LocalStep

\* The one operation of a put() or del().
LEMMA SingleStep ==
    ASSUME IInv, NEW c \in Calls, phase[c] = "called", kind[c] \in {"put", "del"}, Opened,
           NEW columns, kind[c] = "put" => "value" \in columns, NEW ok,
           NEW st \in {"ok", "error"}, kind[c] = "put" /\ st = "ok" => ok = TRUE,
           ServerWrite(c, 1, columns, ok), Return(c, st),
           UNCHANGED <<db, request, session, value>>
    PROVE  IInv'
<1>. USE DEF Return, db, request, session
<1>1. Types /\ CallInv(c)
  BY DEF IInv
<1>2. Len(ops[c]) = 1 /\ ops[c][1] \in Writes /\ ops[c][1].type = kind[c] /\ ops[c] # <<>>
  BY <1>1 DEF CallInv, OpsInv, UnsentInv, Operations, Writes
<1>3. Types'
  <2>1. /\ table' \in [Keys -> Values \cup {NULL, NoRow}]
        /\ succeeded' \in [Calls -> SUBSET Nat]
        /\ last' \in [Keys -> {<<>>} \cup (Calls \X Nat)]
        /\ asked' \in [Calls -> SUBSET (Values \cup {NoRow})]
    BY <1>1, <1>2, ServerTypes
  <2>. QED BY <1>1, <2>1 DEF Types
<1>4. \A d \in Calls : d # c => Same(d)
  <2>1. \A d \in Calls : d # c => succeeded'[d] = succeeded[d]
    BY <1>1 DEF ServerWrite, history, Types
  <2>. QED BY <1>1, <2>1 DEF Same, Types
<1>5. phase'[c] = "returned" /\ status'[c] = st
  BY <1>1 DEF Types
<1>6. succeeded'[c] \subseteq {1}
  <2>1. succeeded[c] = {}
    BY <1>1 DEF CallInv, UnsentInv
  <2>. QED BY <1>1, <2>1 DEF ServerWrite, history, Types
<1>7. OpsInv(c)'
  BY <1>1, <1>2, <1>5, <1>6 DEF CallInv, OpsInv
<1>8. UnsentInv(c)' /\ FlushInv(c)'
  BY <1>1, <1>5 DEF CallInv, UnsentInv, FlushInv
<1>9. ReturnInv(c)'
  <2>1. ASSUME kind[c] = "put", st = "ok"
        PROVE  succeeded'[c] = OpsOf(c)
    <3>1. 1 \in succeeded'[c]
      BY <1>1, <2>1 DEF ServerWrite, Types
    <3>2. OpsOf(c) = {1}
      BY <1>2 DEF OpsOf
    <3>. QED BY <1>6, <3>1, <3>2
  <2>. QED BY <1>2, <1>5, <2>1 DEF ReturnInv, OpsOf, Opened
<1>10. ASSUME NEW k \in Keys
       PROVE  LastInv(c, k)'
  <2>1. ASSUME NEW i \in Nat, last'[k] = <<c, i>>
        PROVE  i = 1 /\ k = ops[c][1].key
    <3>1. last[k] # <<c, i>>
      BY DEF IInv, LastInv
    <3>2. ops[c][1].key \in Keys
      BY <1>2, WriteFacts
    <3>3. last' = last \/ last' = [last EXCEPT ![ops[c][1].key] = <<c, 1>>]
      BY DEF ServerWrite, history
    <3>4. k = ops[c][1].key /\ last'[k] = <<c, 1>>
      BY <1>1, <2>1, <3>1, <3>2, <3>3 DEF Types
    <3>. QED BY <2>1, <3>4
  <2>. QED BY <1>2, <1>5, <2>1 DEF LastInv
<1>11. CallInv(c)'
  BY <1>7, <1>8, <1>9 DEF CallInv
<1>. QED BY <1>2, <1>3, <1>4, <1>10, <1>11, ServerStep

LEMMA PutToDatabaseStep ==
    ASSUME IInv, NEW c \in Calls, PutToDatabase(c)
    PROVE  IInv'
<1>1. CASE settable
  <2>1. PICK ok \in BOOLEAN :
            ServerWrite(c, 1, {"key", "value"}, ok) /\ Return(c, Status(ok))
    BY <1>1 DEF PutToDatabase, ApplyStatus
  <2>2. Status(ok) \in {"ok", "error"} /\ (Status(ok) = "ok" => ok = TRUE)
    BY DEF Status
  <2>. QED BY <2>1, <2>2, SingleStep DEF PutToDatabase, Working
<1>2. CASE ~settable
  <2>1. Return(c, "error") /\ UNCHANGED <<table, history>>
    BY <1>2 DEF PutToDatabase
  <2>2. Types'
    BY <2>1 DEF IInv, Types, PutToDatabase, Return, db, request, session, history
  <2>. QED BY <2>1, <2>2, ErrorStep DEF PutToDatabase, Working, session
<1>. QED BY <1>1, <1>2

LEMMA DeleteFromDatabaseStep ==
    ASSUME IInv, NEW c \in Calls, DeleteFromDatabase(c)
    PROVE  IInv'
<1>1. PICK ok \in BOOLEAN : ServerWrite(c, 1, {"key"}, ok)
  BY DEF DeleteFromDatabase
<1>. QED BY <1>1, SingleStep DEF DeleteFromDatabase, Working

\* The session after one of its operations has left it.
LEMMA SessionFacts ==
    ASSUME NEW s \in Seq(Nat), NEW n \in 1 .. Len(s),
           \A i \in 1 .. Len(s) : \A m \in 1 .. i - 1 : s[m] < s[i]
    PROVE  /\ RemoveAt(s, n) \in Seq(Nat)
           /\ \A i \in 1 .. Len(RemoveAt(s, n)) : \E m \in 1 .. Len(s) : m # n /\ RemoveAt(s, n)[i] = s[m]
           /\ \A m \in 1 .. Len(s) : m # n => \E i \in 1 .. Len(RemoveAt(s, n)) : RemoveAt(s, n)[i] = s[m]
           /\ \A m \in 1 .. Len(s) : m # n => s[m] # s[n]
           /\ \A i \in 1 .. Len(RemoveAt(s, n)) : \A m \in 1 .. i - 1 :
                RemoveAt(s, n)[m] < RemoveAt(s, n)[i]
<1>. DEFINE r == RemoveAt(s, n)
            idx(i) == IF i < n THEN i ELSE i + 1
<1>1. /\ r \in Seq(Nat) /\ Len(r) = Len(s) - 1
      /\ \A i \in 1 .. Len(s) - 1 : r[i] = IF i < n THEN s[i] ELSE s[i + 1]
  BY RemoveAtFacts
<1>. HIDE DEF r
<1>2. ASSUME NEW i \in 1 .. Len(r)
      PROVE  idx(i) \in 1 .. Len(s) /\ idx(i) # n /\ r[i] = s[idx(i)]
  BY <1>1
<1>3. ASSUME NEW m \in 1 .. Len(s), m # n
      PROVE  \E i \in 1 .. Len(r) : r[i] = s[m]
  <2>1. CASE m < n
    <3>1. m \in 1 .. Len(r)
      BY <1>1, <2>1
    <3>2. r[m] = s[m]
      BY <1>1, <2>1, <3>1
    <3>. QED BY <3>1, <3>2
  <2>2. CASE ~(m < n)
    <3>1. m - 1 \in 1 .. Len(r) /\ ~(m - 1 < n) /\ m - 1 + 1 = m
      BY <1>1, <1>3, <2>2
    <3>2. r[m - 1] = s[m]
      BY <1>1, <3>1
    <3>. QED BY <3>1, <3>2
  <2>. QED BY <2>1, <2>2
<1>4. ASSUME NEW m \in 1 .. Len(s), m # n
      PROVE  s[m] # s[n]
  <2>1. s[m] \in Nat /\ s[n] \in Nat
    OBVIOUS
  <2>2. CASE m < n
    <3>1. m \in 1 .. n - 1
      BY <2>2
    <3>. QED BY <2>1, <3>1
  <2>3. CASE n < m
    <3>1. n \in 1 .. m - 1
      BY <2>3
    <3>. QED BY <2>1, <3>1
  <2>. QED BY <1>4, <2>2, <2>3
<1>5. ASSUME NEW i \in 1 .. Len(r), NEW m \in 1 .. i - 1
      PROVE  r[m] < r[i]
  <2>1. m \in 1 .. Len(r)
    BY <1>1
  <2>2. idx(i) \in 1 .. Len(s) /\ idx(m) \in 1 .. idx(i) - 1
    BY <1>1, <1>2, <2>1
  <2>3. s[idx(m)] < s[idx(i)]
    BY <2>2
  <2>. QED BY <1>2, <2>1, <2>3
<1>6. \A i \in 1 .. Len(r) : \E m \in 1 .. Len(s) : m # n /\ r[i] = s[m]
  BY <1>2
<1>. QED BY <1>1, <1>3, <1>4, <1>5, <1>6 DEF r

LEMMA EndFlushStep ==
    ASSUME IInv, NEW c \in Calls, EndFlush(c)
    PROVE  IInv'
<1>. USE DEF EndFlush, Return, db, request, session, history
<1>1. Types /\ CallInv(c) /\ phase[c] = "flushing" /\ pending[c] = <<>>
  BY DEF IInv
<1>2. Status(flushed[c]) \in {"ok", "error"} /\ (Status(flushed[c]) = "ok" => flushed[c])
  BY DEF Status
<1>3. Types'
  BY <1>1, <1>2 DEF Types
<1>4. \A d \in Calls : d # c => Same(d) /\ asked'[d] = asked[d]
  BY <1>1 DEF Same, Types
<1>5. phase'[c] = "returned" /\ status'[c] = Status(flushed[c])
  BY <1>1 DEF Types
<1>6. ~\E i \in Nat : InSession(c, i)
  BY <1>1 DEF InSession
<1>7. OpsInv(c)' /\ UnsentInv(c)' /\ FlushInv(c)' /\ GetInv(c)'
  BY <1>1, <1>5 DEF CallInv, OpsInv, UnsentInv, FlushInv, GetInv
<1>8. ReturnInv(c)'
  <2>1. /\ kind[c] = "batch" /\ Opened /\ (settable => applied[c] = Len(ops[c]))
        /\ flushed[c] => \A i \in 1 .. applied[c] : i \in succeeded[c]
    BY <1>1, <1>6 DEF CallInv, FlushInv, Types
  <2>2. settable /\ flushed[c] => succeeded[c] = OpsOf(c)
    BY <1>1, <2>1 DEF CallInv, OpsInv, OpsOf
  <2>. QED BY <1>2, <1>5, <2>1, <2>2 DEF ReturnInv, OpsOf, Opened
<1>9. ASSUME NEW k \in Keys
      PROVE  LastInv(c, k)'
  <2>1. LastInv(c, k)
    BY DEF IInv
  <2>2. Settled(c)' => Settled(c)
    BY <1>1, <1>2, <1>5 DEF Settled, Done
  <2>3. \A j \in 1 .. Len(ops[c]) : ~InSession(c, j)
    BY <1>6
  <2>. QED BY <1>5, <2>1, <2>2, <2>3 DEF LastInv
<1>10. CallInv(c)'
  BY <1>7, <1>8 DEF CallInv
<1>. QED BY <1>1, <1>3, <1>4, <1>7, <1>9, <1>10, LocalStep

LEMMA FlushOperationStep ==
    ASSUME IInv, NEW c \in Calls, FlushOperation(c)
    PROVE  IInv'
<1>1. /\ Types /\ CallInv(c) /\ phase[c] = "flushing"
      /\ UNCHANGED <<db, request, phase, applied, reply>>
  BY DEF IInv, FlushOperation
<1>2. PICK n \in Flushable(c), ok \in BOOLEAN :
         /\ ServerWrite(c, pending[c][n], Columns(ops[c][pending[c][n]]), ok)
         /\ pending' = [pending EXCEPT ![c] = RemoveAt(@, n)]
         /\ flushed' = [flushed EXCEPT ![c] = @ /\ ok]
  BY DEF FlushOperation
<1>. DEFINE s == pending[c]
            r == RemoveAt(s, n)
            p == s[n]
            op == ops[c][p]
<1>3. s \in Seq(Nat) /\ n \in 1 .. Len(s) /\ p \in 1 .. applied[c] /\ applied[c] \in Nat
  BY <1>1 DEF Types, Flushable, CallInv, OpsInv
<1>4. p \in 1 .. Len(ops[c]) /\ p \in Nat /\ op \in Writes /\ kind[c] = "batch"
  <2>1. applied[c] <= Len(ops[c]) /\ kind[c] = "batch" /\ ops[c] \in Seq(Operations)
    BY <1>1 DEF CallInv, OpsInv, FlushInv, Types
  <2>2. p \in 1 .. Len(ops[c])
    BY <1>3, <2>1
  <2>. QED BY <1>1, <2>1, <2>2 DEF CallInv, OpsInv
<1>5. /\ r \in Seq(Nat)
      /\ \A i \in 1 .. Len(r) : \E m \in 1 .. Len(s) : m # n /\ r[i] = s[m]
      /\ \A m \in 1 .. Len(s) : m # n => \E i \in 1 .. Len(r) : r[i] = s[m]
      /\ \A m \in 1 .. Len(s) : m # n => s[m] # p
      /\ \A i \in 1 .. Len(r) : \A m \in 1 .. i - 1 : r[m] < r[i]
  <2>1. \A i \in 1 .. Len(s) : \A m \in 1 .. i - 1 : s[m] < s[i]
    BY <1>1 DEF CallInv, OpsInv
  <2>. QED BY <1>3, <2>1, SessionFacts
<1>6. \A m \in 1 .. n - 1 : ops[c][s[m]].key # op.key
  BY DEF Flushable
<1>7. pending'[c] = r /\ (flushed'[c] <=> flushed[c] /\ ok)
  BY <1>1, <1>2 DEF Types
<1>8. succeeded'[c] \subseteq succeeded[c] \cup {p} /\ succeeded[c] \subseteq succeeded'[c]
  BY <1>1, <1>2 DEF ServerWrite, history, Types
<1>9. ok => p \in succeeded'[c]
  BY <1>1, <1>2 DEF ServerWrite, Types
<1>10. /\ \A k \in Keys : k # op.key => last'[k] = last[k]
       /\ last'[op.key] = last[op.key] \/ last'[op.key] = <<c, p>>
       /\ ok => last'[op.key] = <<c, p>>
  <2>1. op.key \in Keys
    BY <1>4, WriteFacts
  <2>2. \/ ~ok /\ last' = last
        \/ last' = [last EXCEPT ![op.key] = <<c, p>>]
    BY <1>2 DEF ServerWrite, history
  <2>. QED BY <1>1, <2>1, <2>2 DEF Types
<1>11. Types'
  <2>1. /\ table' \in [Keys -> Values \cup {NULL, NoRow}]
        /\ succeeded' \in [Calls -> SUBSET Nat]
        /\ last' \in [Keys -> {<<>>} \cup (Calls \X Nat)]
        /\ asked' \in [Calls -> SUBSET (Values \cup {NoRow})]
    BY <1>1, <1>2, <1>4, ServerTypes
  <2>2. pending' \in [Calls -> Seq(Nat)]
    BY <1>1, <1>2, <1>5 DEF Types
  <2>3. flushed' \in [Calls -> BOOLEAN]
    BY <1>1, <1>2 DEF Types
  <2>. QED BY <1>1, <2>1, <2>2, <2>3 DEF Types, db, request, reply
<1>12. ASSUME NEW d \in Calls, d # c
       PROVE  Same(d)
  <2>1. succeeded'[d] = succeeded[d]
    BY <1>1, <1>2, <1>12 DEF ServerWrite, history, Types
  <2>2. pending'[d] = pending[d] /\ flushed'[d] = flushed[d]
    BY <1>1, <1>2, <1>12 DEF Types
  <2>. QED BY <1>1, <2>1, <2>2 DEF Same, request, reply
<1>13. ASSUME NEW i \in Nat
       PROVE  InSession(c, i)' <=> InSession(c, i) /\ i # p
  <2>. HIDE DEF s, r, p
  <2>1. (\E m \in 1 .. Len(r) : r[m] = i) <=> (\E m \in 1 .. Len(s) : s[m] = i) /\ i # p
    <3>1. ASSUME NEW m \in 1 .. Len(r), r[m] = i
          PROVE  i # p /\ \E l \in 1 .. Len(s) : s[l] = i
      BY <1>5, <3>1
    <3>2. ASSUME NEW m \in 1 .. Len(s), s[m] = i, i # p
          PROVE  \E l \in 1 .. Len(r) : r[l] = i
      BY <1>5, <3>2 DEF p
    <3>. QED BY <3>1, <3>2
  <2>2. InSession(c, i) <=> \E m \in 1 .. Len(s) : s[m] = i
    BY DEF InSession, s
  <2>3. InSession(c, i)' <=> \E m \in 1 .. Len(r) : r[m] = i
    BY <1>7 DEF InSession
  <2>. QED BY <2>1, <2>2, <2>3
<1>. HIDE DEF s, r, p, op
<1>14. OpsInv(c)'
  <2>1. \A i \in 1 .. Len(r) : r[i] \in 1 .. applied[c]
    BY <1>1, <1>5 DEF CallInv, OpsInv, s
  <2>2. succeeded'[c] \subseteq 1 .. Len(ops[c])
    BY <1>1, <1>4, <1>8 DEF CallInv, OpsInv
  <2>. QED BY <1>1, <1>5, <1>7, <2>1, <2>2 DEF CallInv, OpsInv, request
<1>15. UnsentInv(c)'
  BY <1>1, <1>4 DEF UnsentInv, request
<1>16. FlushInv(c)'
  <2>1. RowOrder(c)'
    <3>1. ASSUME NEW j \in 1 .. applied[c], NEW i \in 1 .. Len(r),
                 ~InSession(c, j)', ops[c][j].key = ops[c][r[i]].key
          PROVE  j < r[i]
      <4>1. PICK m \in 1 .. Len(s) : m # n /\ r[i] = s[m]
        BY <1>5
      <4>2. CASE ~InSession(c, j)
        BY <1>1, <3>1, <4>1, <4>2 DEF CallInv, FlushInv, RowOrder, s
      <4>3. CASE InSession(c, j)
        <5>1. j = p
          BY <1>3, <1>13, <3>1, <4>3
        <5>2. ~(m \in 1 .. n - 1)
          BY <1>6, <3>1, <4>1, <5>1 DEF op
        <5>3. n \in 1 .. m - 1
          BY <1>3, <4>1, <5>2
        <5>4. s[n] < s[m]
          BY <1>1, <5>3 DEF CallInv, OpsInv, s
        <5>. QED BY <4>1, <5>1, <5>4 DEF p
      <4>. QED BY <4>2, <4>3
    <3>. QED BY <1>1, <1>7, <3>1 DEF RowOrder, request
  <2>2. flushed'[c] => \A i \in 1 .. applied[c] : i \in succeeded'[c] \/ InSession(c, i)'
    BY <1>1, <1>3, <1>7, <1>8, <1>9, <1>13 DEF CallInv, FlushInv
  <2>. QED BY <1>1, <2>1, <2>2 DEF CallInv, FlushInv, Opened, db, request, reply
<1>17. ReturnInv(c)'
  BY <1>1 DEF ReturnInv, Done
<1>18. ASSUME NEW k \in Keys
       PROVE  LastInv(c, k)'
  <2>1. ASSUME NEW i \in Nat, last'[k] = <<c, i>>
        PROVE  i \in 1 .. Len(ops[c]) /\ ops[c][i] \in Writes /\ ops[c][i].key = k
    <3>1. CASE last[k] = <<c, i>>
      BY <3>1 DEF IInv, LastInv
    <3>2. CASE last[k] # <<c, i>>
      <4>1. k = op.key /\ <<c, i>> = <<c, p>>
        BY <1>10, <2>1, <3>2
      <4>2. i = p
        BY <4>1
      <4>. QED BY <1>4, <4>1, <4>2 DEF op
    <3>. QED BY <3>1, <3>2
  <2>2. ASSUME NEW i \in Nat, last'[k] = <<c, i>>, settable, flushed'[c],
               NEW j \in 1 .. Len(ops[c]), ops[c][j].key = k
        PROVE  j <= i \/ InSession(c, j)'
    <3>1. flushed[c] /\ ok /\ Settled(c) /\ applied[c] = Len(ops[c])
      BY <1>1, <1>7, <2>2 DEF Settled, CallInv, FlushInv
    <3>2. CASE k # op.key
      <4>1. j <= i \/ InSession(c, j)
        BY <1>10, <2>2, <3>1, <3>2 DEF IInv, LastInv
      <4>2. j # p
        BY <2>2, <3>2 DEF op
      <4>. QED BY <1>13, <4>1, <4>2
    <3>3. CASE k = op.key
      <4>1. <<c, i>> = <<c, p>>
        BY <1>10, <2>2, <3>1, <3>3
      <4>2. i = p
        BY <4>1
      <4>3. CASE InSession(c, j)
        BY <1>4, <1>13, <4>2, <4>3
      <4>4. CASE ~InSession(c, j)
        <5>1. j \in 1 .. applied[c] /\ ops[c][j].key = ops[c][s[n]].key
          BY <2>2, <3>1, <3>3 DEF op, p
        <5>2. j < p
          BY <1>1, <1>3, <4>4, <5>1 DEF CallInv, FlushInv, RowOrder, s, p
        <5>. QED BY <1>4, <4>2, <5>2
      <4>. QED BY <4>3, <4>4
    <3>. QED BY <3>2, <3>3
  <2>3. Settled(c)' => settable /\ flushed'[c]
    BY <1>1 DEF Settled, Done, db
  <2>4. phase'[c] = "flushing" /\ ops'[c] = ops[c]
    BY <1>1 DEF request
  <2>. QED BY <2>1, <2>2, <2>3, <2>4 DEF LastInv
<1>19. CallInv(c)'
  BY <1>14, <1>15, <1>16, <1>17 DEF CallInv
<1>20. ServerWrite(c, p, Columns(op), ok) /\ ops[c][p] \in Writes
  BY <1>2, <1>4 DEF p, op, s
<1>21. ops[c][p].type = "put" /\ ops[c][p].value # Empty => "value" \in Columns(op)
  BY DEF Columns, op
<1>22. kind[c] # "get" /\ UNCHANGED <<db, request>>
  BY <1>1, <1>4
<1>. QED BY <1>4, <1>11, <1>12, <1>18, <1>19, <1>20, <1>21, <1>22, ServerStep

LEMMA OpenStep ==
    ASSUME IInv, Open
    PROVE  IInv'
<1>. USE DEF request, session, reply, history
<1>1. /\ UNCHANGED <<settable, keyed, table, request, phase, session, reply, history>>
      /\ \/ UNCHANGED <<kuduClientPtr, tablePtr, tableStatus>>
         \/ \E ok \in BOOLEAN :
              kuduClientPtr' = TRUE /\ tablePtr' = (tablePtr \/ ok) /\ tableStatus' = ok
  BY DEF Open, TableStatusAfter
<1>2. Types /\ StatusKept
  BY DEF IInv
<1>3. kuduClientPtr' \in BOOLEAN /\ tablePtr' \in BOOLEAN /\ tableStatus' \in BOOLEAN
  BY <1>1, <1>2 DEF Types
<1>4. Types'
  BY <1>1, <1>2, <1>3 DEF Types
<1>5. StatusKept' /\ (Opened => Opened')
  <2>1. CASE UNCHANGED <<kuduClientPtr, tablePtr, tableStatus>>
    BY <1>2, <2>1 DEF StatusKept, Opened
  <2>2. CASE \E ok \in BOOLEAN :
               kuduClientPtr' = TRUE /\ tablePtr' = (tablePtr \/ ok) /\ tableStatus' = ok
    <3>1. PICK ok \in BOOLEAN :
            kuduClientPtr' = TRUE /\ tablePtr' = (tablePtr \/ ok) /\ tableStatus' = ok
      BY <2>2
    <3>2. CASE ok = TRUE
      BY <3>1, <3>2 DEF StatusKept, Opened
    <3>3. CASE ok = FALSE
      BY <3>1, <3>3 DEF StatusKept, Opened
    <3>. QED BY <3>2, <3>3
  <2>. QED BY <1>1, <2>1, <2>2
<1>6. \A k \in Keys : Asked(k)' = Asked(k)
  BY <1>1 DEF Asked, AskedBy
<1>7. ASSUME NEW d \in Calls
      PROVE  CallInv(d)' /\ GetInv(d)'
  <2>1. CallInv(d) /\ GetInv(d)
    BY DEF IInv
  <2>2. CallInv(d)'
    BY <1>1, <1>5, <2>1, OtherCall DEF Same
  <2>3. GetInv(d)'
    BY <1>1, <2>1 DEF GetInv, Asked, AskedBy
  <2>. QED BY <2>2, <2>3
<1>8. \A k \in Keys : RowInv(k)'
  BY <1>1, <1>6 DEF IInv, RowInv
<1>9. \A d \in Calls, k \in Keys : LastInv(d, k)'
  BY <1>1 DEF IInv, LastInv, Settled, Done, InSession
<1>. QED BY <1>4, <1>5, <1>7, <1>8, <1>9 DEF IInv

-----------------------------------------------------------------------------
(* The invariant                                                             *)

LEMMA InitInv == Init => IInv
<1>. SUFFICES ASSUME Init PROVE IInv
  OBVIOUS
<1>. USE DEF Init
<1>1. <<>> \in Seq(Nat) /\ <<>> \in Seq(Operations)
  OBVIOUS
<1>2. Types
  BY <1>1 DEF Types
<1>3. StatusKept
  BY DEF StatusKept
<1>4. ASSUME NEW c \in Calls
      PROVE  CallInv(c) /\ GetInv(c)
  <2>1. OpsInv(c)
    BY OpsAssumption DEF OpsInv
  <2>2. UnsentInv(c) /\ FlushInv(c) /\ ReturnInv(c) /\ GetInv(c)
    BY DEF UnsentInv, FlushInv, ReturnInv, GetInv, Done
  <2>. QED BY <2>1, <2>2 DEF CallInv
<1>5. ASSUME NEW k \in Keys
      PROVE  RowInv(k)
  BY DEF RowInv, Asked
<1>6. ASSUME NEW c \in Calls, NEW k \in Keys
      PROVE  LastInv(c, k)
  BY DEF LastInv
<1>. QED BY <1>2, <1>3, <1>4, <1>5, <1>6 DEF IInv

LEMMA StutterInv == IInv /\ UNCHANGED vars => IInv'
<1>. SUFFICES ASSUME IInv, UNCHANGED vars PROVE IInv'
  OBVIOUS
<1>. USE DEF vars, db, request, session, reply, history
<1>1. Types' /\ StatusKept'
  BY DEF IInv, Types, StatusKept
<1>2. ASSUME NEW c \in Calls
      PROVE  CallInv(c)' /\ GetInv(c)'
  <2>1. CallInv(c)'
    BY OtherCall DEF IInv, Same, Opened
  <2>2. GetInv(c)'
    BY DEF IInv, GetInv, Asked, AskedBy
  <2>. QED BY <2>1, <2>2
<1>3. \A k \in Keys : RowInv(k)'
  BY DEF IInv, RowInv, Asked, AskedBy
<1>4. \A c \in Calls, k \in Keys : LastInv(c, k)'
  BY DEF IInv, LastInv, Settled, Done, InSession
<1>. QED BY <1>1, <1>2, <1>3, <1>4 DEF IInv

LEMMA NextInv == IInv /\ [Next]_vars => IInv'
<1>. SUFFICES ASSUME IInv, [Next]_vars PROVE IInv'
  OBVIOUS
<1>1. CASE Open
  BY <1>1, OpenStep
<1>2. ASSUME NEW c \in Calls, Program(c)
      PROVE  IInv'
  BY <1>2, PutStep, DelStep, GetStep, BatchNewStep, BatchClearStep, BatchWriteStep, BatchAddStep
     DEF Program
<1>3. ASSUME NEW c \in Calls, Work(c)
      PROVE  IInv'
  BY <1>3, RefuseStep, PutToDatabaseStep, DeleteFromDatabaseStep, GetFromDatabaseStep,
     ApplyOperationStep, ApplyFailsStep, BeginFlushStep, FlushOperationStep, EndFlushStep
     DEF Work
<1>4. CASE UNCHANGED vars
  BY <1>4, StutterInv
<1>. QED BY <1>1, <1>2, <1>3, <1>4 DEF Next

\* The invariant holds in every behaviour of any number of calls.
THEOREM Invariance == Spec => []IInv
BY InitInv, NextInv, PTL DEF Spec

\* A sequence of elements of another set.
LEMMA SeqByElements ==
    ASSUME NEW S, NEW T, NEW s \in Seq(S), \A i \in 1 .. Len(s) : s[i] \in T
    PROVE  s \in Seq(T)
OBVIOUS

LEMMA TypesHold == IInv => TypeOK
<1>. SUFFICES ASSUME IInv PROVE TypeOK
  OBVIOUS
<1>1. Types /\ \A c \in Calls : OpsInv(c)
  BY DEF IInv, CallInv
<1>2. ASSUME NEW c \in Calls
      PROVE  /\ ops[c] \in Seq(Operations) /\ Len(ops[c]) <= MaxOps
             /\ applied[c] \in {0} \cup OpsOf(c)
             /\ pending[c] \in Seq(OpsOf(c))
             /\ succeeded[c] \subseteq OpsOf(c)
  <2>1. OpsInv(c) /\ ops[c] \in Seq(Operations) /\ applied[c] \in Nat /\ pending[c] \in Seq(Nat)
    BY <1>1 DEF Types
  <2>2. applied[c] \in {0} \cup OpsOf(c)
    BY <2>1 DEF OpsInv, OpsOf
  <2>3. \A n \in 1 .. Len(pending[c]) : pending[c][n] \in OpsOf(c)
    <3>1. \A n \in 1 .. Len(pending[c]) : pending[c][n] \in 1 .. applied[c]
      BY <2>1 DEF OpsInv
    <3>2. \A i \in 1 .. applied[c] : i \in OpsOf(c)
      BY <2>1 DEF OpsInv, OpsOf
    <3>. QED BY <3>1, <3>2
  <2>4. pending[c] \in Seq(OpsOf(c))
    BY <2>1, <2>3, SeqByElements
  <2>5. succeeded[c] \subseteq OpsOf(c) /\ Len(ops[c]) <= MaxOps
    BY <2>1 DEF OpsInv, OpsOf
  <2>. QED BY <2>1, <2>2, <2>4, <2>5
<1>3. ASSUME NEW c \in Calls
      PROVE  hasData[c] = (kind[c] = "batch" /\ ops[c] # <<>>)
  <2>1. hasData[c] \in BOOLEAN
    BY <1>1 DEF Types
  <2>2. hasData[c] <=> kind[c] = "batch" /\ ops[c] # <<>>
    BY <1>1 DEF OpsInv
  <2>. QED BY <2>1, <2>2
<1>4. ASSUME NEW k \in Keys, last[k] # <<>>
      PROVE  \E c \in Calls : \E i \in OpsOf(c) : last[k] = <<c, i>>
  <2>1. PICK c \in Calls, i \in Nat : last[k] = <<c, i>>
    BY <1>1, <1>4, LastForm
  <2>2. i \in OpsOf(c)
    BY <2>1 DEF IInv, LastInv, OpsOf
  <2>. QED BY <2>1, <2>2
<1>. QED BY <1>1, <1>2, <1>3, <1>4 DEF TypeOK, Types

\* Whatever the calls and the server do, every field keeps its type, a session
\* holds operations of its own batch only, and hasData is true of a Batch just
\* when it has an operation (batch.cc:89-149).
THEOREM TypeCorrect == Spec => []TypeOK
BY Invariance, TypesHold, PTL

\* No put() and no batch() of any length reports success before the server has
\* reported each of its operations done (database.cc:111-152, 394-499).
THEOREM AckedWritesCarriedOut == Spec => []AckedWritesSucceeded
<1>1. IInv => AckedWritesSucceeded
  BY DEF IInv, CallInv, ReturnInv, AckedWritesSucceeded
<1>. QED BY <1>1, Invariance, PTL

\* The status that openTable leaves in tableStatus acknowledges nothing: a call
\* with an operation succeeds on an opened table only (database.cc:79-92, 397-406).
THEOREM AckedOnlyWhenOpened == Spec => []AckedMeansOpened
<1>1. IInv => AckedMeansOpened
  BY DEF IInv, CallInv, ReturnInv, AckedMeansOpened
<1>. QED BY <1>1, Invariance, PTL

\* However the session reorders a batch of any length, and whatever other calls
\* write, no operation of a successful batch comes after its last one on a row.
THEOREM LastOperationWins == Spec => []LastOfBatchWins
<1>1. IInv => LastOfBatchWins
  <2>. SUFFICES ASSUME IInv, NEW k \in Keys, NEW c \in Calls,
                       NEW i \in OpsOf(c), NEW j \in OpsOf(c),
                       Done(c), status[c] = "ok", settable,
                       last[k] = <<c, i>>, ops[c][j].key = k
                PROVE  j <= i
    BY DEF LastOfBatchWins
  <2>1. Settled(c) /\ i \in Nat /\ j \in 1 .. Len(ops[c]) /\ phase[c] # "flushing"
    BY DEF Settled, OpsOf, Done
  <2>. QED BY <2>1 DEF IInv, LastInv
<1>. QED BY <1>1, Invariance, PTL

\* On a table whose key column is called "key", a value that get() finds is one
\* its row was asked to hold during the call, by whichever calls and in whatever
\* order they reached the server, unless it was asked to hold a zero-length one.
THEOREM GetIsCurrent == Spec => []GetReturnsWhatWasAsked
<1>1. IInv => GetReturnsWhatWasAsked
  BY DEF IInv, CallInv, ReturnInv, GetReturnsWhatWasAsked
<1>. QED BY <1>1, Invariance, PTL

=============================================================================
