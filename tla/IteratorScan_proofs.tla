--------------------------- MODULE IteratorScan_proofs ---------------------------
(***************************************************************************)
(* The safety of IteratorScan for tables of any size, batches, limits and  *)
(* highWaterMarks: an inductive invariant that places the rows fetched in  *)
(* passed, the cache, the result of the running read and the batch.     *)
(* From it follow the invariants, the refinement of CursorContract, and    *)
(* that a next() takes finitely many steps.                                *)
(***************************************************************************)
EXTENDS IteratorScan, TLAPS

\* Where there can be rows, and a scanner, at each point of a next().
PlaceInv ==
    /\ pc \notin {"idle", "js"} => cache = <<>> /\ ~finished
    /\ pc \notin {"emit", "rows", "error"} => result = <<>>
    /\ pc \in {"check", "fetch", "emit", "rows", "eof"} => scanner
    /\ pc \in {"fetch", "emit", "rows", "eof"} => iteratorStatus
    /\ pc = "open" => ~scanner
    /\ pc = "error" => ~iteratorStatus
    /\ ~scanner => fetched = 0 /\ batchRowCount = 0 /\ passed = <<>> /\ cache = <<>>
                   /\ result = <<>> /\ ~finished

\* Counts that hold whether or not a read has failed.
CountInv ==
    /\ totalRowCount = fetched
    /\ batchRowCount <= fetched
    /\ Len(passed) <= fetched
    /\ limit > 0 => fetched < limit + MaxBatch
    /\ pc = "fetch" => batchRowCount = 0 /\ (limit > 0 => fetched < limit)

\* A scanner that failed leaves nothing to deliver.
ErrorInv ==
    scanner /\ ~iteratorStatus =>
        cache = <<>> /\ ~finished /\ pc \in {"idle", "js", "check", "error"}

\* The end, once reached, stays.
EndReached == Len(passed) = scanRows \/ (limit > 0 /\ fetched >= limit)

EndInv ==
    /\ pc = "eof" \/ finished => EndReached
    /\ finished => cache = <<>> /\ pc \in {"idle", "js"}
    /\ answer = "end" => finished

\* The numbers of the rows in the result and in the cache, which starts with
\* the last one and ends with the next to deliver.
CachedRows == Len(cache) \div 2

RowInv ==
    /\ pc \in {"emit", "rows"} => \A j \in 1 .. Len(result) : result[j] = Len(passed) + j
    /\ Len(cache) = 2 * CachedRows
    /\ \A m \in 1 .. CachedRows :
         /\ cache[2 * m] = Key(Len(passed) + CachedRows - m + 1)
         /\ cache[2 * m - 1] = Value(Len(passed) + CachedRows - m + 1)

IInv ==
    /\ TypeOK
    /\ PlaceInv
    /\ CountInv
    /\ ErrorInv
    /\ EndInv
    /\ RowInv
    /\ RowsInOrder
    /\ RowsAccounted

-----------------------------------------------------------------------------
(* The arrays                                                                *)

\* What is left when the end of a sequence is cut off.
LEMMA PrefixFacts ==
    ASSUME NEW S, NEW s \in Seq(S), NEW n \in 0 .. Len(s)
    PROVE  /\ SubSeq(s, 1, n) \in Seq(S) /\ Len(SubSeq(s, 1, n)) = n
           /\ \A i \in 1 .. n : SubSeq(s, 1, n)[i] = s[i]
OBVIOUS

\* Half of a number below 2 * b is below b.
LEMMA HalfBelow ==
    ASSUME NEW b \in Nat, NEW s \in 1 .. 2 * b
    PROVE  (2 * b - s) \div 2 + 1 \in 1 .. b
<1>. DEFINE a == 2 * b - s
<1>1. a \in Nat /\ a < 2 * b
  OBVIOUS
<1>. HIDE DEF a
<1>2. a \div 2 \in Nat /\ a \div 2 < b
  BY <1>1
<1>3. a \div 2 + 1 \in 1 .. b
  BY <1>2
<1>. QED BY <1>3 DEF a

\* Half of an even number, and of the odd one after it.
LEMMA HalfOf ==
    ASSUME NEW k \in Nat
    PROVE  (2 * k) \div 2 = k /\ (2 * k + 1) \div 2 = k
OBVIOUS

\* What a NextWorker's array holds: the rows, last one first.
LEMMA ReturnArrayFacts ==
    ASSUME NEW rows \in Seq(Rows)
    PROVE  /\ ReturnArray(rows) \in Seq(Cells)
           /\ Len(ReturnArray(rows)) = 2 * Len(rows)
           /\ \A m \in 1 .. Len(rows) :
                /\ ReturnArray(rows)[2 * m] = Key(rows[Len(rows) - m + 1])
                /\ ReturnArray(rows)[2 * m - 1] = Value(rows[Len(rows) - m + 1])
<1>. DEFINE n == Len(rows)
            idx(slot) == (2 * n - slot) \div 2
            cell(slot) == IF slot % 2 = 0 THEN Key(rows[idx(slot) + 1])
                                          ELSE Value(rows[idx(slot) + 1])
<1>1. n \in Nat /\ rows \in [1 .. n -> Rows]
  OBVIOUS
<1>2. ReturnArray(rows) = [slot \in 1 .. 2 * n |-> cell(slot)]
  BY DEF ReturnArray
<1>3. ASSUME NEW slot \in 1 .. 2 * n PROVE idx(slot) + 1 \in 1 .. n
  BY <1>1, <1>3, HalfBelow
<1>4. ASSUME NEW slot \in 1 .. 2 * n PROVE cell(slot) \in Cells
  <2>1. rows[idx(slot) + 1] \in Rows
    BY <1>1, <1>3
  <2>. HIDE DEF idx
  <2>. QED BY <2>1 DEF Cells
<1>5. ASSUME NEW m \in 1 .. n
      PROVE  /\ cell(2 * m) = Key(rows[n - m + 1])
             /\ cell(2 * m - 1) = Value(rows[n - m + 1])
  <2>a. n - m \in Nat
    BY <1>1, <1>5
  <2>b. 2 * n - 2 * m = 2 * (n - m) /\ 2 * n - (2 * m - 1) = 2 * (n - m) + 1
    BY <1>1, <1>5
  <2>1. idx(2 * m) = n - m /\ idx(2 * m - 1) = n - m
    BY <2>a, <2>b, HalfOf
  <2>2. (2 * m) % 2 = 0 /\ (2 * m - 1) % 2 # 0
    BY <1>1, <1>5
  <2>. HIDE DEF idx
  <2>. QED BY <2>1, <2>2
<1>. HIDE DEF cell
<1>6. ReturnArray(rows) \in [1 .. 2 * n -> Cells]
  BY <1>2, <1>4
<1>7. ReturnArray(rows) \in Seq(Cells) /\ Len(ReturnArray(rows)) = 2 * n
  BY <1>1, <1>6
<1>. QED BY <1>1, <1>2, <1>5, <1>7

\* What is added when the same thing is appended k times.
LEMMA GapFacts ==
    ASSUME NEW S, NEW s \in Seq(S), NEW x \in S, NEW k \in Nat,
           NEW t, t = s \o [row \in 1 .. k |-> x]
    PROVE  /\ t \in Seq(S) /\ Len(t) = Len(s) + k
           /\ \A i \in 1 .. Len(s) : t[i] = s[i]
           /\ \A i \in Len(s) + 1 .. Len(s) + k : t[i] = x
           /\ k = 0 => t = s
<1>. DEFINE gap == [row \in 1 .. k |-> x]
<1>1. gap \in Seq(S) /\ Len(gap) = k /\ \A i \in 1 .. k : gap[i] = x
  OBVIOUS
<1>. HIDE DEF gap
<1>2. t = s \o gap
  BY DEF gap
<1>3. k = 0 => t = s
  BY <1>1, <1>2
<1>4. t \in Seq(S) /\ Len(t) = Len(s) + k
  BY <1>1, <1>2
<1>5. \A i \in 1 .. Len(s) : t[i] = s[i]
  BY <1>1, <1>2
<1>6. \A i \in Len(s) + 1 .. Len(s) + k : t[i] = x
  BY <1>1, <1>2
<1>. QED BY <1>3, <1>4, <1>5, <1>6

-----------------------------------------------------------------------------
(* Init and the steps                                                        *)

\* A seek() adds to what has been passed, as often as there are rows in the
\* cache, that one was dropped.
LEMMA SeekFacts ==
    ASSUME IInv, Seek
    PROVE  /\ CachedRows \in Nat /\ Len(passed) \in Nat
           /\ passed' \in Seq((Cells \X Cells) \cup {Dropped})
           /\ Len(passed') = Len(passed) + CachedRows
           /\ \A i \in 1 .. Len(passed) : passed'[i] = passed[i]
           /\ \A i \in Len(passed) + 1 .. Len(passed) + CachedRows : passed'[i] = Dropped
           /\ CachedRows = 0 => passed' = passed
           /\ cache = <<>> => CachedRows = 0
<1>. DEFINE S == (Cells \X Cells) \cup {Dropped}
<1>1. passed \in Seq(S) /\ cache \in Seq(Cells)
  BY DEF IInv, TypeOK
<1>2. CachedRows \in Nat
  <2>. DEFINE n == Len(cache)
  <2>1. n \in Nat
    BY <1>1
  <2>. HIDE DEF n
  <2>2. n \div 2 \in Nat
    BY <2>1
  <2>. QED BY <2>2 DEF CachedRows, n
<1>3. cache = <<>> => CachedRows = 0
  BY HalfOf DEF CachedRows
<1>4. passed' = passed \o [row \in 1 .. CachedRows |-> Dropped]
  BY DEF Seek, CachedRows
<1>5. Dropped \in S /\ Len(passed) \in Nat
  BY <1>1
<1>. HIDE DEF S
<1>6. /\ passed' \in Seq(S) /\ Len(passed') = Len(passed) + CachedRows
      /\ \A i \in 1 .. Len(passed) : passed'[i] = passed[i]
      /\ \A i \in Len(passed) + 1 .. Len(passed) + CachedRows : passed'[i] = Dropped
      /\ CachedRows = 0 => passed' = passed
  BY <1>1, <1>2, <1>4, <1>5, GapFacts
<1>. QED BY <1>2, <1>3, <1>5, <1>6 DEF S

\* The cache holds half as many rows as cells.
LEMMA CachedRowsIs ==
    ASSUME NEW k \in Nat, Len(cache) = 2 * k
    PROVE  Len(cache) \div 2 = k
BY HalfOf

\* What can be there while IteratorNext works on a batch.
LEMMA WorkingFacts ==
    ASSUME IInv, pc \in {"fetch", "emit", "rows"} \/ (pc = "eof" /\ iteratorStatus)
    PROVE  /\ cache = <<>> /\ scanner /\ iteratorStatus /\ ~finished
           /\ fetched = Len(passed) + Len(result) + (batchRowCount - currentRowCount)
<1>1. cache = <<>> /\ scanner /\ iteratorStatus /\ ~finished
  BY DEF IInv, PlaceInv
<1>2. Len(cache) \div 2 = 0
  BY <1>1, HalfOf
<1>. QED BY <1>1, <1>2 DEF IInv, RowsAccounted, TypeOK

\* A scan that has not been opened.
LEMMA InitInv == Init => IInv
<1>. SUFFICES ASSUME Init PROVE IInv
  OBVIOUS
<1>1. TypeOK
  <2>1. scanner \in BOOLEAN /\ iteratorStatus \in BOOLEAN /\ finished \in BOOLEAN
    BY DEF Init
  <2>2. result \in Seq(Rows) /\ cache \in Seq(Cells) /\ passed \in Seq((Cells \X Cells) \cup {Dropped})
    BY DEF Init
  <2>. QED BY <2>1, <2>2, ScanAssumption DEF Init, TypeOK
<1>2. CachedRows = 0
  BY HalfOf DEF Init, CachedRows
<1>3. PlaceInv /\ CountInv /\ ErrorInv /\ EndInv
  BY ScanAssumption DEF Init, PlaceInv, CountInv, ErrorInv, EndInv, EndReached
<1>4. RowInv /\ RowsInOrder /\ RowsAccounted
  BY <1>2 DEF Init, RowInv, RowsInOrder, RowsAccounted
<1>. QED BY <1>1, <1>3, <1>4 DEF IInv


\* Every action keeps the invariant.
LEMMA StepInv == IInv /\ [Next]_vars => IInv'
<1>. SUFFICES ASSUME IInv, [Next]_vars PROVE IInv'
  OBVIOUS
<1>. USE ScanAssumption
<1>1. CASE Write
  <2>1. TypeOK'
    BY <1>1 DEF IInv, TypeOK, Rows, Write, options, source, counts, jsState, caller
  <2>2. PlaceInv' /\ ErrorInv'
    BY <1>1 DEF IInv, TypeOK, PlaceInv, ErrorInv, Write, options, source, counts, jsState, caller
  <2>3. CountInv'
    BY <1>1 DEF IInv, TypeOK, CountInv, PlaceInv, Write, options, source, counts, jsState, caller
  <2>4. EndInv'
    BY <1>1 DEF IInv, TypeOK, EndInv, EndReached, CountInv, PlaceInv, Write, options, source, counts, jsState, caller
  <2>5. RowInv'
    BY <1>1 DEF IInv, TypeOK, PlaceInv, RowInv, CachedRows, Write, options, source, counts, jsState, caller
  <2>6. RowsInOrder'
    BY <1>1 DEF IInv, RowsInOrder, Write, options, source, counts, jsState, caller
  <2>7. RowsAccounted'
    BY <1>1 DEF IInv, TypeOK, PlaceInv, CountInv, RowsAccounted, Write, options, source, counts, jsState, caller
  <2>. QED BY <2>1, <2>2, <2>3, <2>4, <2>5, <2>6, <2>7 DEF IInv
<1>2. CASE CallNext
  <2>1. TypeOK'
    BY <1>2 DEF IInv, TypeOK, Rows, CallNext, options, source, counts, jsState, caller
  <2>2. PlaceInv' /\ ErrorInv'
    BY <1>2 DEF IInv, TypeOK, PlaceInv, ErrorInv, CallNext, options, source, counts, jsState, caller
  <2>3. CountInv'
    BY <1>2 DEF IInv, TypeOK, CountInv, PlaceInv, CallNext, options, source, counts, jsState, caller
  <2>4. EndInv'
    BY <1>2 DEF IInv, TypeOK, EndInv, EndReached, CountInv, PlaceInv, CallNext, options, source, counts, jsState, caller
  <2>5. RowInv'
    BY <1>2 DEF IInv, TypeOK, PlaceInv, RowInv, CachedRows, CallNext, options, source, counts, jsState, caller
  <2>6. RowsInOrder'
    BY <1>2 DEF IInv, RowsInOrder, CallNext, options, source, counts, jsState, caller
  <2>7. RowsAccounted'
    BY <1>2 DEF IInv, TypeOK, PlaceInv, CountInv, RowsAccounted, CallNext, options, source, counts, jsState, caller
  <2>. QED BY <2>1, <2>2, <2>3, <2>4, <2>5, <2>6, <2>7 DEF IInv
<1>3. CASE AnswerFromCache
  <2>. DEFINE k == CachedRows
              d == Len(passed)
  <2>a. k \in Nat \ {0} /\ Len(cache) = 2 * k /\ d \in Nat
    BY <1>3 DEF IInv, TypeOK, RowInv, CachedRows, AnswerFromCache
  <2>b. /\ pc = "js" /\ pc' = "idle" /\ answer' = "row"
        /\ cache' = SubSeq(cache, 1, 2 * k - 2)
        /\ passed' = Append(passed, Popped(cache))
        /\ UNCHANGED <<options, table, source, fetched, scanner, iteratorStatus,
                       counts, result, finished>>
    BY <1>3, <2>a DEF AnswerFromCache
  <2>c. cache[2 * k] = Key(d + 1) /\ cache[2 * k - 1] = Value(d + 1)
    <3>1. k \in 1 .. k /\ d + k - k + 1 = d + 1
      BY <2>a
    <3>. QED BY <3>1 DEF IInv, RowInv
  <2>d. Popped(cache) = <<Key(d + 1), Value(d + 1)>>
    BY <2>a, <2>c DEF Popped
  <2>e. Popped(cache) \in Cells \X Cells
    <3>1. cache[2 * k] \in Cells /\ cache[2 * k - 1] \in Cells
      BY <2>a DEF IInv, TypeOK
    <3>. QED BY <3>1, <2>c, <2>d
  <2>f. /\ cache' \in Seq(Cells) /\ Len(cache') = 2 * (k - 1)
        /\ \A i \in 1 .. 2 * (k - 1) : cache'[i] = cache[i]
    <3>1. cache \in Seq(Cells)
      BY DEF IInv, TypeOK
    <3>2. 2 * k - 2 \in 0 .. Len(cache) /\ 2 * k - 2 = 2 * (k - 1)
      BY <2>a
    <3>. HIDE DEF k
    <3>. QED BY <2>b, <3>1, <3>2, PrefixFacts
  <2>g. /\ passed' \in Seq((Cells \X Cells) \cup {Dropped}) /\ Len(passed') = d + 1
        /\ passed'[d + 1] = <<Key(d + 1), Value(d + 1)>>
        /\ \A i \in 1 .. d : passed'[i] = passed[i]
    BY <2>b, <2>d, <2>e DEF IInv, TypeOK
  <2>h. CachedRows' = k - 1 /\ Len(cache') \div 2 = k - 1
    BY <2>a, <2>f, HalfOf DEF CachedRows
  <2>i. scanner /\ iteratorStatus /\ ~finished
    <3>1. cache # <<>>
      BY <1>3 DEF AnswerFromCache
    <3>. QED BY <3>1 DEF IInv, PlaceInv, ErrorInv, EndInv
  <2>j. /\ totalRowCount = fetched
        /\ fetched = d + k + Len(result) + (batchRowCount - currentRowCount)
    BY <2>i DEF IInv, RowsAccounted, CachedRows
  <2>. HIDE DEF k, d
  <2>1. TypeOK'
    BY <2>b, <2>f, <2>g DEF IInv, TypeOK, options, source, counts
  <2>2. PlaceInv' /\ ErrorInv'
    BY <2>b, <2>i DEF IInv, TypeOK, PlaceInv, ErrorInv, options, source, counts
  <2>3. CountInv'
    <3>1. Len(passed') <= fetched'
      BY <2>a, <2>b, <2>g, <2>j DEF IInv, TypeOK
    <3>. QED BY <2>b, <3>1 DEF IInv, CountInv, options, source, counts
  <2>4. EndInv'
    BY <2>b, <2>i DEF IInv, EndInv
  <2>5. RowInv'
    <3>1. ASSUME NEW m \in 1 .. k - 1
          PROVE  /\ cache'[2 * m] = Key(Len(passed') + (k - 1) - m + 1)
                 /\ cache'[2 * m - 1] = Value(Len(passed') + (k - 1) - m + 1)
      <4>1. cache'[2 * m] = cache[2 * m] /\ cache'[2 * m - 1] = cache[2 * m - 1]
        BY <2>a, <2>f
      <4>2. Len(passed') + (k - 1) - m + 1 = d + k - m + 1 /\ m \in 1 .. k
        BY <2>a, <2>g
      <4>. QED BY <4>1, <4>2 DEF IInv, RowInv, k, d
    <3>. QED BY <3>1, <2>b, <2>f, <2>h DEF RowInv
  <2>6. RowsInOrder'
    <3>1. ASSUME NEW i \in 1 .. Len(passed')
          PROVE  passed'[i] \in {<<Key(i), Value(i)>>, Dropped}
      <4>1. i \in 1 .. d \/ i = d + 1
        BY <2>a, <2>g
      <4>. QED BY <4>1, <2>g DEF IInv, RowsInOrder, d
    <3>. QED BY <3>1 DEF RowsInOrder
  <2>7. RowsAccounted'
    <3>1. fetched' = Len(passed') + (k - 1) + Len(result') + (batchRowCount' - currentRowCount')
      BY <2>a, <2>b, <2>g, <2>j DEF IInv, TypeOK, counts
    <3>. QED BY <2>b, <2>h, <2>j, <3>1 DEF RowsAccounted, counts
  <2>. QED BY <2>1, <2>2, <2>3, <2>4, <2>5, <2>6, <2>7 DEF IInv
<1>4. CASE AnswerEnd
  <2>1. TypeOK'
    BY <1>4 DEF IInv, TypeOK, Rows, AnswerEnd, options, source, counts, jsState, caller
  <2>2. PlaceInv' /\ ErrorInv'
    BY <1>4 DEF IInv, TypeOK, PlaceInv, ErrorInv, AnswerEnd, options, source, counts, jsState, caller
  <2>3. CountInv'
    BY <1>4 DEF IInv, TypeOK, CountInv, PlaceInv, AnswerEnd, options, source, counts, jsState, caller
  <2>4. EndInv'
    BY <1>4 DEF IInv, TypeOK, EndInv, EndReached, CountInv, PlaceInv, AnswerEnd, options, source, counts, jsState, caller
  <2>5. RowInv'
    BY <1>4 DEF IInv, TypeOK, PlaceInv, RowInv, CachedRows, AnswerEnd, options, source, counts, jsState, caller
  <2>6. RowsInOrder'
    BY <1>4 DEF IInv, RowsInOrder, AnswerEnd, options, source, counts, jsState, caller
  <2>7. RowsAccounted'
    BY <1>4 DEF IInv, TypeOK, PlaceInv, CountInv, RowsAccounted, AnswerEnd, options, source, counts, jsState, caller
  <2>. QED BY <2>1, <2>2, <2>3, <2>4, <2>5, <2>6, <2>7 DEF IInv
<1>5. CASE BindingNext
  <2>1. TypeOK'
    BY <1>5 DEF IInv, TypeOK, Rows, BindingNext, ReadBegins, options, source, counts, jsState, caller
  <2>2. PlaceInv' /\ ErrorInv'
    BY <1>5 DEF IInv, TypeOK, PlaceInv, ErrorInv, BindingNext, ReadBegins, options, source, counts, jsState, caller
  <2>3. CountInv'
    BY <1>5 DEF IInv, TypeOK, CountInv, PlaceInv, BindingNext, ReadBegins, options, source, counts, jsState, caller
  <2>4. EndInv'
    BY <1>5 DEF IInv, TypeOK, EndInv, EndReached, CountInv, PlaceInv, BindingNext, ReadBegins, options, source, counts, jsState, caller
  <2>5. RowInv'
    BY <1>5 DEF IInv, TypeOK, PlaceInv, RowInv, CachedRows, BindingNext, ReadBegins, options, source, counts, jsState, caller
  <2>6. RowsInOrder'
    BY <1>5 DEF IInv, RowsInOrder, BindingNext, ReadBegins, options, source, counts, jsState, caller
  <2>7. RowsAccounted'
    BY <1>5 DEF IInv, TypeOK, PlaceInv, CountInv, RowsAccounted, BindingNext, ReadBegins, options, source, counts, jsState, caller
  <2>. QED BY <2>1, <2>2, <2>3, <2>4, <2>5, <2>6, <2>7 DEF IInv
<1>6. CASE CreateScanner
  <2>1. TypeOK'
    <3>1. ~scanner /\ fetched = 0
      BY <1>6 DEF IInv, PlaceInv, CreateScanner
    <3>2. scanner' \in BOOLEAN /\ iteratorStatus' \in BOOLEAN /\ finished' \in BOOLEAN
      BY <1>6 DEF IInv, TypeOK, CreateScanner, jsState
    <3>3. scanRows' \in 0 .. table' /\ fetched' \in 0 .. scanRows' /\ empties' \in 0 .. MaxEmpty
      BY <1>6, <3>1 DEF IInv, TypeOK, CreateScanner, source
    <3>. QED BY <1>6, <3>2, <3>3 DEF IInv, TypeOK, CreateScanner, options, source, counts, jsState, caller
  <2>2. PlaceInv' /\ ErrorInv'
    BY <1>6 DEF IInv, TypeOK, PlaceInv, ErrorInv, CreateScanner, options, source, counts, jsState, caller
  <2>3. CountInv'
    BY <1>6 DEF IInv, TypeOK, CountInv, PlaceInv, CreateScanner, options, source, counts, jsState, caller
  <2>4. EndInv'
    BY <1>6 DEF IInv, TypeOK, EndInv, EndReached, CountInv, PlaceInv, CreateScanner, options, source, counts, jsState, caller
  <2>5. RowInv'
    BY <1>6 DEF IInv, TypeOK, PlaceInv, RowInv, CachedRows, CreateScanner, options, source, counts, jsState, caller
  <2>6. RowsInOrder'
    BY <1>6 DEF IInv, RowsInOrder, CreateScanner, options, source, counts, jsState, caller
  <2>7. RowsAccounted'
    BY <1>6 DEF IInv, TypeOK, PlaceInv, CountInv, RowsAccounted, CreateScanner, options, source, counts, jsState, caller
  <2>. QED BY <2>1, <2>2, <2>3, <2>4, <2>5, <2>6, <2>7 DEF IInv
<1>7. CASE Check
  <2>1. TypeOK'
    BY <1>7 DEF IInv, TypeOK, Rows, Check, StatusBad, LimitReached, BatchUsedUp, options, source, counts, jsState, caller
  <2>2. PlaceInv' /\ ErrorInv'
    BY <1>7 DEF IInv, TypeOK, PlaceInv, ErrorInv, Check, StatusBad, LimitReached, BatchUsedUp, options, source, counts, jsState, caller
  <2>3. CountInv'
    BY <1>7 DEF IInv, TypeOK, CountInv, PlaceInv, Check, StatusBad, LimitReached, BatchUsedUp, options, source, counts, jsState, caller
  <2>4. EndInv'
    BY <1>7 DEF IInv, TypeOK, EndInv, EndReached, CountInv, PlaceInv, Check, StatusBad, LimitReached, BatchUsedUp, options, source, counts, jsState, caller
  <2>5. RowInv'
    BY <1>7 DEF IInv, TypeOK, PlaceInv, RowInv, CachedRows, Check, StatusBad, LimitReached, BatchUsedUp, options, source, counts, jsState, caller
  <2>6. RowsInOrder'
    BY <1>7 DEF IInv, RowsInOrder, Check, StatusBad, LimitReached, BatchUsedUp, options, source, counts, jsState, caller
  <2>7. RowsAccounted'
    <3>1. batchRowCount' - currentRowCount' = batchRowCount - currentRowCount
      BY <1>7 DEF IInv, TypeOK, Check, BatchUsedUp, counts
    <3>2. totalRowCount' = totalRowCount
      BY <1>7 DEF Check, counts
    <3>. QED BY <1>7, <3>1, <3>2 DEF IInv, RowsAccounted, Check, jsState, caller
  <2>. QED BY <2>1, <2>2, <2>3, <2>4, <2>5, <2>6, <2>7 DEF IInv
<1>8. CASE Fetch
  <2>1. TypeOK'
    <3>1. PICK n \in BatchSizes \cup (IF empties > 0 THEN {0} ELSE {}) :
            /\ batchRowCount' = n /\ totalRowCount' = totalRowCount + n
            /\ fetched' = fetched + n
            /\ empties' = IF n = 0 THEN empties - 1 ELSE empties
            /\ pc' = AfterBatch(n)
      BY <1>8 DEF Fetch
    <3>2. n \in 0 .. MaxBatch /\ n <= scanRows - fetched /\ (n = 0 => empties > 0)
      BY <3>1 DEF IInv, TypeOK, BatchSizes
    <3>3. currentRowCount = 0 /\ totalRowCount = fetched
      BY <1>8 DEF IInv, TypeOK, CountInv, Fetch
    <3>4. /\ fetched' \in 0 .. scanRows' /\ totalRowCount' \in 0 .. MaxRows
          /\ batchRowCount' \in 0 .. MaxBatch /\ currentRowCount' \in 0 .. batchRowCount'
          /\ empties' \in 0 .. MaxEmpty
      BY <1>8, <3>1, <3>2, <3>3 DEF IInv, TypeOK, Fetch
    <3>5. pc' \in {"fetch", "emit"}
      BY <3>1 DEF AfterBatch
    <3>. QED BY <1>8, <3>4, <3>5 DEF IInv, TypeOK, Fetch, options, jsState, caller
  <2>2. PlaceInv' /\ ErrorInv'
    BY <1>8 DEF IInv, TypeOK, PlaceInv, ErrorInv, Fetch, BatchSizes, AfterBatch, HasMoreRows, options, source, counts, jsState, caller
  <2>3. CountInv'
    BY <1>8 DEF IInv, TypeOK, CountInv, PlaceInv, Fetch, BatchSizes, AfterBatch, HasMoreRows, options, source, counts, jsState, caller
  <2>4. EndInv'
    BY <1>8 DEF IInv, TypeOK, EndInv, EndReached, CountInv, PlaceInv, Fetch, BatchSizes, AfterBatch, HasMoreRows, options, source, counts, jsState, caller
  <2>5. RowInv'
    BY <1>8 DEF IInv, TypeOK, PlaceInv, RowInv, CachedRows, Fetch, BatchSizes, AfterBatch, HasMoreRows, options, source, counts, jsState, caller
  <2>6. RowsInOrder'
    BY <1>8 DEF IInv, RowsInOrder, Fetch, BatchSizes, AfterBatch, HasMoreRows, options, source, counts, jsState, caller
  <2>7. RowsAccounted'
    BY <1>8 DEF IInv, TypeOK, PlaceInv, CountInv, RowsAccounted, Fetch, BatchSizes, AfterBatch, HasMoreRows, options, source, counts, jsState, caller
  <2>. QED BY <2>1, <2>2, <2>3, <2>4, <2>5, <2>6, <2>7 DEF IInv
<1>9. CASE FetchFails
  <2>1. TypeOK'
    BY <1>9 DEF IInv, TypeOK, Rows, FetchFails, HasMoreRows, options, source, counts, jsState, caller
  <2>2. PlaceInv' /\ ErrorInv'
    BY <1>9 DEF IInv, TypeOK, PlaceInv, ErrorInv, FetchFails, HasMoreRows, options, source, counts, jsState, caller
  <2>3. CountInv'
    BY <1>9 DEF IInv, TypeOK, CountInv, PlaceInv, FetchFails, HasMoreRows, options, source, counts, jsState, caller
  <2>4. EndInv'
    BY <1>9 DEF IInv, TypeOK, EndInv, EndReached, CountInv, PlaceInv, FetchFails, HasMoreRows, options, source, counts, jsState, caller
  <2>5. RowInv'
    BY <1>9 DEF IInv, TypeOK, PlaceInv, RowInv, CachedRows, FetchFails, HasMoreRows, options, source, counts, jsState, caller
  <2>6. RowsInOrder'
    BY <1>9 DEF IInv, RowsInOrder, FetchFails, HasMoreRows, options, source, counts, jsState, caller
  <2>7. RowsAccounted'
    BY <1>9 DEF IInv, TypeOK, PlaceInv, CountInv, RowsAccounted, FetchFails, HasMoreRows, options, source, counts, jsState, caller
  <2>. QED BY <2>1, <2>2, <2>3, <2>4, <2>5, <2>6, <2>7 DEF IInv
<1>10. CASE FetchDone
  <2>1. TypeOK'
    BY <1>10 DEF IInv, TypeOK, Rows, FetchDone, HasMoreRows, options, source, counts, jsState, caller
  <2>2. PlaceInv' /\ ErrorInv'
    BY <1>10 DEF IInv, TypeOK, PlaceInv, ErrorInv, FetchDone, HasMoreRows, options, source, counts, jsState, caller
  <2>3. CountInv'
    BY <1>10 DEF IInv, TypeOK, CountInv, PlaceInv, FetchDone, HasMoreRows, options, source, counts, jsState, caller
  <2>4. EndInv'
    <3>1. /\ fetched = Len(passed) + Len(result) + (batchRowCount - currentRowCount)
          /\ ~finished
      BY <1>10, WorkingFacts DEF FetchDone
    <3>2. fetched = scanRows
      BY <1>10 DEF IInv, TypeOK, FetchDone, HasMoreRows
    <3>3. result = <<>> /\ batchRowCount = 0 /\ currentRowCount = 0
      BY <1>10 DEF IInv, TypeOK, PlaceInv, CountInv, FetchDone
    <3>4. Len(passed) = scanRows
      BY <3>1, <3>2, <3>3 DEF IInv, TypeOK
    <3>. QED BY <1>10, <3>1, <3>4 DEF IInv, EndInv, EndReached, FetchDone, source, jsState, caller
  <2>5. RowInv'
    BY <1>10 DEF IInv, TypeOK, PlaceInv, RowInv, CachedRows, FetchDone, HasMoreRows, options, source, counts, jsState, caller
  <2>6. RowsInOrder'
    BY <1>10 DEF IInv, RowsInOrder, FetchDone, HasMoreRows, options, source, counts, jsState, caller
  <2>7. RowsAccounted'
    BY <1>10 DEF IInv, TypeOK, PlaceInv, CountInv, RowsAccounted, FetchDone, HasMoreRows, options, source, counts, jsState, caller
  <2>. QED BY <2>1, <2>2, <2>3, <2>4, <2>5, <2>6, <2>7 DEF IInv
<1>11. CASE Emit
  <2>a. /\ pc = "emit" /\ currentRowCount < batchRowCount
        /\ currentRowCount' = currentRowCount + 1
        /\ result' = Append(result, BatchRow)
        /\ UNCHANGED <<options, table, source, fetched, scanner, iteratorStatus,
                       batchRowCount, totalRowCount, jsState, pc, caller>>
    BY <1>11 DEF Emit, MayEmit
  <2>b. /\ cache = <<>> /\ scanner /\ iteratorStatus /\ ~finished
        /\ fetched = Len(passed) + Len(result) + (batchRowCount - currentRowCount)
    BY <2>a, WorkingFacts
  <2>c. BatchRow = Len(passed) + Len(result) + 1
    BY <2>b DEF BatchRow, IInv, TypeOK
  <2>d. BatchRow \in Rows
    BY <2>a DEF IInv, TypeOK, CountInv, BatchRow, Rows
  <2>e. /\ result' \in Seq(Rows) /\ Len(result') = Len(result) + 1
        /\ result'[Len(result) + 1] = BatchRow
        /\ \A j \in 1 .. Len(result) : result'[j] = result[j]
    BY <2>a, <2>d DEF IInv, TypeOK
  <2>f. Len(result) \in Nat /\ Len(passed) \in Nat
    BY DEF IInv, TypeOK
  <2>1. TypeOK'
    <3>1. currentRowCount' \in 0 .. batchRowCount'
      BY <2>a DEF IInv, TypeOK
    <3>. QED BY <2>a, <2>e, <3>1 DEF IInv, TypeOK, options, source, jsState, caller
  <2>2. PlaceInv' /\ ErrorInv'
    BY <2>a, <2>b DEF IInv, PlaceInv, ErrorInv, jsState, caller
  <2>3. CountInv'
    BY <2>a DEF IInv, CountInv, options, caller
  <2>4. EndInv'
    BY <2>a, <2>b DEF IInv, EndInv, jsState, caller
  <2>5. RowInv'
    <3>1. ASSUME NEW j \in 1 .. Len(result') PROVE result'[j] = Len(passed') + j
      <4>1. j \in 1 .. Len(result) \/ j = Len(result) + 1
        BY <2>e, <2>f
      <4>2. passed' = passed
        BY <2>a DEF caller
      <4>3. CASE j \in 1 .. Len(result)
        BY <2>a, <2>e, <4>2, <4>3 DEF IInv, RowInv
      <4>4. CASE j = Len(result) + 1
        BY <2>c, <2>e, <2>f, <4>2, <4>4
      <4>. QED BY <4>1, <4>3, <4>4
    <3>2. cache' = cache /\ passed' = passed /\ CachedRows' = CachedRows
      BY <2>a DEF jsState, caller, CachedRows
    <3>. QED BY <3>1, <3>2 DEF IInv, RowInv
  <2>6. RowsInOrder'
    BY <2>a DEF IInv, RowsInOrder, caller
  <2>7. RowsAccounted'
    <3>1. cache' = <<>> /\ Len(cache') \div 2 = 0
      BY <2>a, <2>b, HalfOf DEF jsState
    <3>2. fetched' = Len(passed') + Len(result') + (batchRowCount' - currentRowCount')
      BY <2>a, <2>b, <2>e, <2>f DEF IInv, TypeOK, caller
    <3>3. totalRowCount' = fetched'
      BY <2>a DEF IInv, CountInv
    <3>. QED BY <2>a, <2>f, <3>1, <3>2, <3>3 DEF IInv, TypeOK, RowsAccounted, caller
  <2>. QED BY <2>1, <2>2, <2>3, <2>4, <2>5, <2>6, <2>7 DEF IInv
<1>12. CASE EmitFails
  <2>1. TypeOK'
    <3>1. currentRowCount' \in 0 .. batchRowCount'
      BY <1>12 DEF IInv, TypeOK, EmitFails, MayEmit
    <3>2. scanner' \in BOOLEAN /\ iteratorStatus' \in BOOLEAN /\ finished' \in BOOLEAN
      BY <1>12 DEF IInv, TypeOK, EmitFails, jsState
    <3>. QED BY <1>12, <3>1, <3>2 DEF IInv, TypeOK, EmitFails, options, source, jsState, caller
  <2>2. PlaceInv' /\ ErrorInv'
    BY <1>12 DEF IInv, TypeOK, PlaceInv, ErrorInv, EmitFails, MayEmit, options, source, counts, jsState, caller
  <2>3. CountInv'
    BY <1>12 DEF IInv, TypeOK, CountInv, PlaceInv, EmitFails, MayEmit, options, source, counts, jsState, caller
  <2>4. EndInv'
    BY <1>12 DEF IInv, TypeOK, EndInv, EndReached, CountInv, PlaceInv, EmitFails, MayEmit, options, source, counts, jsState, caller
  <2>5. RowInv'
    BY <1>12 DEF IInv, TypeOK, PlaceInv, RowInv, CachedRows, EmitFails, MayEmit, options, source, counts, jsState, caller
  <2>6. RowsInOrder'
    BY <1>12 DEF IInv, RowsInOrder, EmitFails, MayEmit, options, source, counts, jsState, caller
  <2>7. RowsAccounted'
    BY <1>12 DEF IInv, TypeOK, PlaceInv, CountInv, RowsAccounted, EmitFails, MayEmit, options, source, counts, jsState, caller
  <2>. QED BY <2>1, <2>2, <2>3, <2>4, <2>5, <2>6, <2>7 DEF IInv
<1>13. CASE EmitDone
  <2>1. TypeOK'
    BY <1>13 DEF IInv, TypeOK, Rows, EmitDone, MayEmit, options, source, counts, jsState, caller
  <2>2. PlaceInv' /\ ErrorInv'
    BY <1>13 DEF IInv, TypeOK, PlaceInv, ErrorInv, EmitDone, MayEmit, options, source, counts, jsState, caller
  <2>3. CountInv'
    BY <1>13 DEF IInv, TypeOK, CountInv, PlaceInv, EmitDone, MayEmit, options, source, counts, jsState, caller
  <2>4. EndInv'
    BY <1>13 DEF IInv, TypeOK, EndInv, EndReached, CountInv, PlaceInv, EmitDone, MayEmit, options, source, counts, jsState, caller
  <2>5. RowInv'
    BY <1>13 DEF IInv, TypeOK, PlaceInv, RowInv, CachedRows, EmitDone, MayEmit, options, source, counts, jsState, caller
  <2>6. RowsInOrder'
    BY <1>13 DEF IInv, RowsInOrder, EmitDone, MayEmit, options, source, counts, jsState, caller
  <2>7. RowsAccounted'
    BY <1>13 DEF IInv, TypeOK, PlaceInv, CountInv, RowsAccounted, EmitDone, MayEmit, options, source, counts, jsState, caller
  <2>. QED BY <2>1, <2>2, <2>3, <2>4, <2>5, <2>6, <2>7 DEF IInv
<1>14. CASE Complete
  <2>. DEFINE n == Len(result)
              d == Len(passed)
  <2>a. /\ pc \in {"rows", "eof"} /\ pc' = "js"
        /\ cache' = ReturnArray(result) /\ result' = <<>>
        /\ UNCHANGED <<options, table, source, fetched, scanner, iteratorStatus,
                       counts, caller>>
    BY <1>14 DEF Complete
  <2>b. finished' = (pc = "eof")
    BY <1>14 DEF Complete, Finished
  <2>c. result \in Seq(Rows) /\ n \in Nat /\ d \in Nat
    BY DEF IInv, TypeOK
  <2>d. /\ cache' \in Seq(Cells) /\ Len(cache') = 2 * n
        /\ \A m \in 1 .. n : /\ cache'[2 * m] = Key(result[n - m + 1])
                             /\ cache'[2 * m - 1] = Value(result[n - m + 1])
    BY <2>a, <2>c, ReturnArrayFacts
  <2>e. CachedRows' = n /\ Len(cache') \div 2 = n
    BY <2>c, <2>d, HalfOf DEF CachedRows
  <2>f. pc = "eof" => result = <<>> /\ cache' = <<>>
    <3>1. pc = "eof" => result = <<>>
      BY DEF IInv, PlaceInv
    <3>. QED BY <2>d, <3>1
  <2>g. /\ scanner /\ iteratorStatus /\ ~finished
        /\ fetched = d + n + (batchRowCount - currentRowCount)
    BY <2>a, WorkingFacts DEF IInv, PlaceInv
  <2>h. \A j \in 1 .. n : result[j] = d + j
    <3>1. CASE pc = "rows"
      BY <3>1 DEF IInv, RowInv
    <3>2. CASE pc = "eof"
      BY <2>f, <3>2
    <3>. QED BY <2>a, <3>1, <3>2
  <2>. HIDE DEF n, d
  <2>1. TypeOK'
    <3>1. scanner' \in BOOLEAN /\ iteratorStatus' \in BOOLEAN /\ finished' \in BOOLEAN
      BY <2>a, <2>b DEF IInv, TypeOK
    <3>. QED BY <2>a, <2>d, <3>1 DEF IInv, TypeOK, options, source, counts, caller
  <2>2. PlaceInv' /\ ErrorInv'
    BY <2>a, <2>g DEF PlaceInv, ErrorInv
  <2>3. CountInv'
    BY <2>a DEF IInv, CountInv, options, counts, caller
  <2>4. EndInv'
    <3>1. answer' # "end"
      BY <2>a, <2>g DEF IInv, EndInv, caller
    <3>2. pc = "eof" => EndReached'
      BY <2>a DEF IInv, EndInv, EndReached, options, source, caller
    <3>. QED BY <2>a, <2>b, <2>f, <3>1, <3>2 DEF EndInv
  <2>5. RowInv'
    <3>1. ASSUME NEW m \in 1 .. n
          PROVE  /\ cache'[2 * m] = Key(Len(passed') + n - m + 1)
                 /\ cache'[2 * m - 1] = Value(Len(passed') + n - m + 1)
      <4>1. n - m + 1 \in 1 .. n
        BY <2>c
      <4>2. result[n - m + 1] = Len(passed') + n - m + 1
        <5>1. result[n - m + 1] = d + (n - m + 1)
          BY <2>h, <4>1
        <5>2. d = Len(passed')
          BY <2>a DEF caller, d
        <5>. QED BY <2>c, <5>1, <5>2
      <4>. QED BY <2>d, <4>2
    <3>. QED BY <3>1, <2>a, <2>d, <2>e DEF RowInv
  <2>6. RowsInOrder'
    BY <2>a DEF IInv, RowsInOrder, caller
  <2>7. RowsAccounted'
    <3>1. fetched' = Len(passed') + n + Len(result') + (batchRowCount' - currentRowCount')
      BY <2>a, <2>c, <2>g DEF IInv, TypeOK, caller, counts, d
    <3>2. totalRowCount' = fetched'
      BY <2>a DEF IInv, CountInv, counts
    <3>. QED BY <2>e, <3>1, <3>2 DEF RowsAccounted
  <2>. QED BY <2>1, <2>2, <2>3, <2>4, <2>5, <2>6, <2>7 DEF IInv
<1>15. CASE CompleteError
  <2>1. TypeOK'
    BY <1>15 DEF IInv, TypeOK, Rows, CompleteError, options, source, counts, jsState, caller
  <2>2. PlaceInv' /\ ErrorInv'
    BY <1>15 DEF IInv, TypeOK, PlaceInv, ErrorInv, CompleteError, options, source, counts, jsState, caller
  <2>3. CountInv'
    BY <1>15 DEF IInv, TypeOK, CountInv, PlaceInv, CompleteError, options, source, counts, jsState, caller
  <2>4. EndInv'
    BY <1>15 DEF IInv, TypeOK, EndInv, EndReached, CountInv, PlaceInv, CompleteError, options, source, counts, jsState, caller
  <2>5. RowInv'
    BY <1>15 DEF IInv, TypeOK, PlaceInv, RowInv, CachedRows, CompleteError, options, source, counts, jsState, caller
  <2>6. RowsInOrder'
    BY <1>15 DEF IInv, RowsInOrder, CompleteError, options, source, counts, jsState, caller
  <2>7. RowsAccounted'
    <3>1. ~iteratorStatus'
      BY <1>15 DEF IInv, PlaceInv, CompleteError
    <3>. QED BY <3>1 DEF RowsAccounted
  <2>. QED BY <2>1, <2>2, <2>3, <2>4, <2>5, <2>6, <2>7 DEF IInv
<1>17. CASE Seek
  <2>. DEFINE k == CachedRows
              d == Len(passed)
  <2>a. k \in Nat /\ d \in Nat
    BY <1>17, SeekFacts
  <2>b. /\ pc = "idle" /\ pc' = "idle" /\ cache' = <<>>
        /\ UNCHANGED <<options, table, source, fetched, scanner, iteratorStatus,
                       counts, result, finished, answer>>
    BY <1>17 DEF Seek
  <2>d. /\ passed' \in Seq((Cells \X Cells) \cup {Dropped}) /\ Len(passed') = d + k
        /\ \A i \in 1 .. d : passed'[i] = passed[i]
        /\ \A i \in d + 1 .. d + k : passed'[i] = Dropped
    BY <1>17, SeekFacts
  <2>i. cache = <<>> => k = 0 /\ passed' = passed
    BY <1>17, SeekFacts
  <2>. HIDE DEF k, d
  <2>e. CachedRows' = 0 /\ Len(cache') \div 2 = 0
    BY <2>b, HalfOf DEF CachedRows
  <2>f. result = <<>>
    BY <2>b DEF IInv, PlaceInv
  <2>g. cache # <<>> => scanner /\ iteratorStatus /\ ~finished
    BY DEF IInv, PlaceInv, ErrorInv, EndInv
  <2>h. iteratorStatus /\ scanner =>
          fetched = d + k + Len(result) + (batchRowCount - currentRowCount)
    BY DEF IInv, RowsAccounted, CachedRows, k, d
  <2>1. TypeOK'
    BY <2>b, <2>d DEF IInv, TypeOK, options, source, counts
  <2>2. PlaceInv' /\ ErrorInv'
    BY <2>b, <2>g, <2>i DEF IInv, PlaceInv, ErrorInv, counts
  <2>3. CountInv'
    <3>1. Len(passed') <= fetched'
      <4>1. CASE cache = <<>>
        BY <2>b, <2>i, <4>1 DEF IInv, CountInv
      <4>2. CASE cache # <<>>
        BY <2>a, <2>b, <2>d, <2>g, <2>h, <4>2 DEF IInv, TypeOK
      <4>. QED BY <4>1, <4>2
    <3>. QED BY <2>b, <3>1 DEF IInv, CountInv, options, counts
  <2>4. EndInv'
    <3>1. finished => passed' = passed
      BY <2>g, <2>i
    <3>. QED BY <2>b, <3>1 DEF IInv, EndInv, EndReached, options, source
  <2>5. RowInv'
    BY <2>b, <2>e DEF RowInv
  <2>6. RowsInOrder'
    <3>1. ASSUME NEW i \in 1 .. Len(passed')
          PROVE  passed'[i] \in {<<Key(i), Value(i)>>, Dropped}
      <4>1. i \in 1 .. d \/ i \in d + 1 .. d + k
        BY <2>a, <2>d
      <4>. QED BY <4>1, <2>d DEF IInv, RowsInOrder, d
    <3>. QED BY <3>1 DEF RowsInOrder
  <2>7. RowsAccounted'
    BY <2>a, <2>b, <2>d, <2>e, <2>h DEF IInv, RowsAccounted, counts
  <2>. QED BY <2>1, <2>2, <2>3, <2>4, <2>5, <2>6, <2>7 DEF IInv
<1>16. CASE UNCHANGED vars
  BY <1>16 DEF IInv, TypeOK, PlaceInv, CountInv, ErrorInv, EndInv, EndReached, RowInv,
     CachedRows, RowsInOrder, RowsAccounted, vars, options, source, counts, jsState, caller
<1>. QED BY <1>1, <1>2, <1>3, <1>4, <1>5, <1>6, <1>7, <1>8, <1>9, <1>10, <1>11, <1>12, <1>13, <1>14, <1>15, <1>16, <1>17
     DEF Next, Step

-----------------------------------------------------------------------------
(* The theorems                                                              *)

\* The inductive invariant: where the rows are, what the counts are, and what
\* is left of an iterator that failed or ended.
THEOREM Invariance == Spec => []IInv
BY InitInv, StepInv, PTL DEF Spec

\* Every count stays within the batch, the scan and the table, and what is
\* converted is always a row of the batch.
THEOREM TypeCorrect == Spec => []TypeOK
BY Invariance, PTL DEF IInv

\* The callbacks get the rows of the scan in order, each key with its value.
THEOREM RowsComeInOrder == Spec => []RowsInOrder
BY Invariance, PTL DEF IInv

\* No row fetched is lost or kept twice between scanner and callback.
THEOREM RowsAreAccounted == Spec => []RowsAccounted
BY Invariance, PTL DEF IInv

\* next() reports the end only after the last row, or at the limit.
THEOREM EndIsTheEnd == Spec => []EndMeansEnd
<1>1. IInv => EndMeansEnd
  BY DEF IInv, EndInv, EndReached, EndMeansEnd
<1>. QED BY <1>1, Invariance, PTL

\* Whatever the size of the batches, less than one of them passes the limit.
THEOREM LimitPassed == Spec => []LimitPassedByLessThanABatch
<1>1. IInv => LimitPassedByLessThanABatch
  <2>. SUFFICES ASSUME IInv, limit > 0 PROVE Len(passed) < limit + MaxBatch
    BY DEF LimitPassedByLessThanABatch
  <2>1. Len(passed) <= fetched /\ fetched < limit + MaxBatch
    BY DEF IInv, CountInv
  <2>2. Len(passed) \in Int /\ fetched \in Int /\ limit \in Int /\ MaxBatch \in Int
    BY ScanAssumption DEF IInv, TypeOK
  <2>. QED BY <2>1, <2>2
<1>. QED BY <1>1, Invariance, PTL

\* After a failed read nothing more is passed, and no later call reports
\* the end.
THEOREM ErrorStays == Spec => ErrorIsFinal
<1>1. ASSUME IInv, [Next]_vars, scanner, ~iteratorStatus
      PROVE  ~iteratorStatus' /\ passed' = passed /\ answer' # "end"
  <2>1. /\ cache = <<>> /\ ~finished /\ answer # "end"
        /\ pc \in {"idle", "js", "check", "error"}
    BY <1>1 DEF IInv, ErrorInv, EndInv
  <2>2. CASE Next
    <3>1. CASE Write \/ CallNext
      <4>1. iteratorStatus' = iteratorStatus /\ passed' = passed /\ answer' = answer
        BY <3>1 DEF Write, CallNext, caller
      <4>. QED BY <1>1, <2>1, <4>1
    <3>2. CASE AnswerEnd \/ BindingNext \/ AnswerFromCache
      <4>1. ~ AnswerEnd /\ ~ AnswerFromCache
        BY <2>1 DEF AnswerEnd, AnswerFromCache
      <4>2. iteratorStatus' = iteratorStatus /\ passed' = passed /\ answer' = answer
        BY <3>2, <4>1 DEF BindingNext, caller
      <4>. QED BY <1>1, <2>1, <4>2
    <3>3. CASE Check
      BY <1>1, <2>1, <3>3 DEF Check, caller
    <3>4. CASE CompleteError
      BY <1>1, <2>1, <3>4 DEF CompleteError
    <3>5. CASE Seek
      <4>1. passed' = passed
        BY <1>1, <2>1, <3>5, SeekFacts
      <4>. QED BY <1>1, <2>1, <3>5, <4>1 DEF Seek
    <3>. QED BY <2>1, <2>2, <3>1, <3>2, <3>3, <3>4, <3>5 DEF Next, Step, CreateScanner, Fetch,
            FetchFails, FetchDone, Emit, EmitFails, EmitDone, Complete
  <2>3. CASE UNCHANGED vars
    BY <1>1, <2>1, <2>3 DEF vars, caller
  <2>. QED BY <1>1, <2>2, <2>3
<1>2. IInv /\ [Next]_vars =>
        [scanner /\ ~iteratorStatus =>
           ~iteratorStatus' /\ passed' = passed /\ answer' # "end"]_vars
  BY <1>1
<1>. QED BY <1>2, Invariance, PTL DEF Spec, ErrorIsFinal

-----------------------------------------------------------------------------
(* The refinement of CursorContract                                          *)

\* An iterator that has just been created is a cursor nobody has asked.
LEMMA CursorInit == Init => Cursor!Init
<1>. SUFFICES ASSUME Init PROVE Cursor!Init
  OBVIOUS
<1>1. (pc # "idle") = FALSE /\ scanner = FALSE /\ (scanner /\ ~iteratorStatus) = FALSE
  BY DEF Init
<1>. QED BY <1>1 DEF Init, Cursor!Init

\* A row from the cache is the next one of the scan, and neither the scan nor
\* the limit is passed by it.
LEMMA CacheDelivers == IInv /\ IInv' /\ AnswerFromCache => Cursor!Deliver
<1>. SUFFICES ASSUME IInv, IInv', AnswerFromCache PROVE Cursor!Deliver
  OBVIOUS
<1>. DEFINE k == CachedRows
            d == Len(passed)
<1>1. /\ pc = "js" /\ pc' = "idle" /\ answer' = "row" /\ cache # <<>>
      /\ passed' = Append(passed, Popped(cache))
      /\ UNCHANGED <<limit, table, scanRows, fetched, scanner, iteratorStatus>>
  BY DEF AnswerFromCache, options, source
<1>2. k \in Nat \ {0} /\ Len(cache) = 2 * k /\ d \in Nat
  BY <1>1 DEF IInv, TypeOK, RowInv, CachedRows
<1>3. Popped(cache) = Cursor!Row(d + 1)
  <2>1. k \in 1 .. k /\ d + k - k + 1 = d + 1
    BY <1>2
  <2>2. cache[2 * k] = Key(d + 1) /\ cache[2 * k - 1] = Value(d + 1)
    BY <2>1 DEF IInv, RowInv
  <2>. QED BY <1>2, <2>2 DEF Popped, Cursor!Row, Key, Value
<1>4. scanner /\ iteratorStatus /\ answer # "end"
  BY <1>1 DEF IInv, PlaceInv, ErrorInv, EndInv
<1>5. Len(passed') = d + 1
  BY <1>1 DEF IInv, TypeOK
<1>6. d < scanRows /\ (limit > 0 => d + 1 < limit + MaxBatch)
  <2>1. /\ fetched' \in 0 .. scanRows /\ Len(passed') <= fetched'
        /\ limit > 0 => fetched' < limit + MaxBatch
        /\ scanRows \in Nat /\ limit \in Int /\ MaxBatch \in Int
    BY <1>1, ScanAssumption DEF IInv, TypeOK, CountInv
  <2>. QED BY <1>2, <1>5, <2>1
<1>7. (pc # "idle") = TRUE /\ (pc' # "idle") = FALSE
  BY <1>1
<1>8. (scanner /\ ~iteratorStatus) = FALSE
  BY <1>4
<1>9. Cursor!Room(1)
  <2>1. d + 1 <= scanRows
    BY <1>2, <1>6, ScanAssumption DEF IInv, TypeOK
  <2>. QED BY <1>4, <1>6, <1>8, <2>1 DEF Cursor!Room
<1>. QED BY <1>1, <1>3, <1>7, <1>8, <1>9 DEF Cursor!Deliver, Cursor!Answer

\* An iterator that is finished has passed its scan, or all that it has
\* fetched but the rest of the batch with which it passed the limit.
LEMMA FinishedIsEnd == IInv /\ AnswerEnd => Cursor!End
<1>. SUFFICES ASSUME IInv, AnswerEnd PROVE Cursor!End
  OBVIOUS
<1>1. /\ pc = "js" /\ pc' = "idle" /\ answer' = "end" /\ cache = <<>> /\ finished
      /\ UNCHANGED <<limit, table, scanRows, scanner, iteratorStatus, passed>>
  BY DEF AnswerEnd, options, source
<1>2. scanner /\ iteratorStatus /\ result = <<>>
  BY <1>1 DEF IInv, PlaceInv, ErrorInv
<1>3. fetched <= Len(passed) + MaxBatch
  <2>1. Len(cache) \div 2 = 0 /\ Len(result) = 0
    BY <1>1, <1>2, HalfOf
  <2>2. fetched = Len(passed) + (batchRowCount - currentRowCount)
    BY <1>2, <2>1 DEF IInv, RowsAccounted, TypeOK
  <2>. QED BY <2>2, ScanAssumption DEF IInv, TypeOK
<1>4. Len(passed) = scanRows \/ (limit > 0 /\ Len(passed) + MaxBatch >= limit)
  <2>1. EndReached
    BY <1>1 DEF IInv, EndInv
  <2>. QED BY <1>3, <2>1, ScanAssumption DEF EndReached, IInv, TypeOK
<1>5. (pc # "idle") = TRUE /\ (pc' # "idle") = FALSE
  BY <1>1
<1>. QED BY <1>1, <1>2, <1>4, <1>5 DEF Cursor!End, Cursor!Answer

\* A read that fails breaks the cursor for good.
LEMMA FailureBreaks == IInv /\ (FetchFails \/ EmitFails) => Cursor!Break
<1>. SUFFICES ASSUME IInv, FetchFails \/ EmitFails PROVE Cursor!Break
  OBVIOUS
<1>1. /\ pc \in {"fetch", "emit"} /\ pc' = "error" /\ iteratorStatus' = FALSE
      /\ UNCHANGED <<limit, table, scanRows, scanner, answer, passed>>
  BY DEF FetchFails, EmitFails, options, source, caller
<1>2. scanner /\ iteratorStatus /\ answer # "end"
  BY <1>1 DEF IInv, PlaceInv, EndInv
<1>3. /\ (pc # "idle") = TRUE /\ (pc' # "idle") = TRUE
      /\ (scanner /\ ~iteratorStatus) = FALSE /\ (scanner' /\ ~iteratorStatus') = TRUE
  BY <1>1, <1>2
<1>. QED BY <1>1, <1>2, <1>3 DEF Cursor!Break

\* Only a scan that is not open or has failed calls back with an error.
LEMMA ErrorFails == IInv /\ CompleteError => Cursor!Fail
<1>. SUFFICES ASSUME IInv, CompleteError PROVE Cursor!Fail
  OBVIOUS
<1>1. /\ pc = "error" /\ pc' = "idle" /\ answer' = "error"
      /\ UNCHANGED <<limit, table, scanRows, scanner, iteratorStatus, passed>>
  BY DEF CompleteError, options, source
<1>2. ~iteratorStatus
  BY <1>1 DEF IInv, PlaceInv
<1>3. (pc # "idle") = TRUE /\ (pc' # "idle") = FALSE
  BY <1>1
<1>. QED BY <1>1, <1>2, <1>3 DEF Cursor!Fail, Cursor!Answer

\* The scan covers the rows that the table has when its scanner is created.
LEMMA ScannerOpens == IInv /\ CreateScanner => [Cursor!Next]_(Cursor!vars)
<1>. SUFFICES ASSUME IInv, CreateScanner PROVE [Cursor!Next]_(Cursor!vars)
  OBVIOUS
<1>1. /\ pc = "open" /\ pc' # "idle" /\ ~scanner
      /\ UNCHANGED <<limit, table, answer, passed>>
  BY DEF CreateScanner, IInv, PlaceInv, options, caller
<1>2. (pc # "idle") = TRUE /\ (pc' # "idle") = TRUE /\ (scanner /\ ~iteratorStatus) = FALSE
  BY <1>1
<1>3. CASE scanner' = TRUE /\ iteratorStatus' = TRUE /\ scanRows' = table
  <2>1. (scanner' /\ ~iteratorStatus') = FALSE
    BY <1>3
  <2>2. Cursor!Open
    BY <1>1, <1>2, <1>3, <2>1 DEF Cursor!Open
  <2>. QED BY <2>2 DEF Cursor!Next
<1>4. CASE scanner' = scanner /\ scanRows' = scanRows
  <2>1. (scanner' /\ ~iteratorStatus') = FALSE
    BY <1>1, <1>4
  <2>. QED BY <1>1, <1>2, <1>4, <2>1 DEF Cursor!vars
<1>. QED BY <1>3, <1>4 DEF CreateScanner, source

\* What a step that leaves the cursor as it is changes is only how far the
\* read has come.
LEMMA ReadingStutters ==
    ASSUME BindingNext \/ Check \/ Fetch \/ FetchDone \/ Emit \/ EmitDone \/ Complete
    PROVE  UNCHANGED Cursor!vars
<1>1. /\ UNCHANGED <<limit, table, scanRows, scanner, iteratorStatus, answer, passed>>
      /\ pc # "idle" /\ pc' # "idle"
  <2>1. CASE BindingNext
    BY <2>1 DEF BindingNext, ReadBegins, options, source, caller
  <2>2. CASE Check
    BY <2>2 DEF Check, options, source, caller
  <2>3. CASE Fetch
    BY <2>3 DEF Fetch, AfterBatch, options, caller
  <2>4. CASE FetchDone \/ Emit \/ EmitDone \/ Complete
    BY <2>4 DEF FetchDone, Emit, EmitDone, Complete, options, source, caller
  <2>. QED BY <2>1, <2>2, <2>3, <2>4
<1>2. (pc # "idle") = TRUE /\ (pc' # "idle") = TRUE
  BY <1>1
<1>. QED BY <1>1, <1>2 DEF Cursor!vars

\* What seek() takes out of the cache is the next rows of the scan.
LEMMA SeekLoses == IInv /\ IInv' /\ Seek => Cursor!Seek \/ UNCHANGED Cursor!vars
<1>. SUFFICES ASSUME IInv, IInv', Seek PROVE Cursor!Seek \/ UNCHANGED Cursor!vars
  OBVIOUS
<1>. DEFINE n == CachedRows
            d == Len(passed)
<1>1. passed' = passed \o [row \in 1 .. n |-> Cursor!Dropped]
  BY DEF Seek, CachedRows, Dropped, Cursor!Dropped
<1>a. /\ pc = "idle" /\ pc' = "idle"
      /\ UNCHANGED <<limit, table, scanRows, fetched, scanner, iteratorStatus, answer>>
  BY DEF Seek, options, source
<1>2. /\ n \in Nat /\ d \in Nat /\ Len(passed') = d + n
      /\ n = 0 => passed' = passed
      /\ cache = <<>> => n = 0
  BY SeekFacts
<1>. HIDE DEF n, d
<1>3. (pc # "idle") = FALSE /\ (pc' # "idle") = FALSE
  BY <1>a
<1>4. CASE n = 0
  BY <1>a, <1>2, <1>4 DEF Cursor!vars
<1>5. CASE n # 0
  <2>1. scanner /\ iteratorStatus /\ answer # "end"
    <3>1. cache # <<>>
      BY <1>2, <1>5
    <3>. QED BY <3>1 DEF IInv, PlaceInv, ErrorInv, EndInv
  <2>2. (scanner /\ ~iteratorStatus) = FALSE
    BY <2>1
  <2>4. /\ n \in 1 .. scanRows /\ d + n <= scanRows
        /\ limit > 0 => d + n < limit + MaxBatch
    <3>1. /\ fetched' \in 0 .. scanRows /\ Len(passed') <= fetched'
          /\ limit > 0 => fetched' < limit + MaxBatch
          /\ scanRows \in Nat /\ limit \in Int /\ MaxBatch \in Int
      BY <1>a, ScanAssumption DEF IInv, TypeOK, CountInv
    <3>. QED BY <1>2, <1>5, <3>1
  <2>5. Cursor!Room(n)
    BY <2>1, <2>2, <2>4 DEF Cursor!Room, d
  <2>. QED BY <1>1, <1>a, <1>3, <2>2, <2>4, <2>5 DEF Cursor!Seek
<1>. QED BY <1>4, <1>5

\* Every step of the code is one of the cursor, or none.
LEMMA CursorStep == IInv /\ IInv' /\ [Next]_vars => [Cursor!Next]_(Cursor!vars)
<1>. SUFFICES ASSUME IInv, IInv', [Next]_vars PROVE [Cursor!Next]_(Cursor!vars)
  OBVIOUS
<1>1. CASE Write
  <2>1. /\ table' = table + 1
        /\ UNCHANGED <<limit, pc, scanner, scanRows, iteratorStatus, answer, passed>>
    BY <1>1 DEF Write, options, source, caller
  <2>2. Cursor!Write
    BY <2>1 DEF Cursor!Write
  <2>. QED BY <2>2 DEF Cursor!Next
<1>2. CASE CallNext
  <2>1. /\ pc = "idle" /\ pc' = "js"
        /\ UNCHANGED <<limit, table, scanner, scanRows, iteratorStatus, answer, passed>>
    BY <1>2 DEF CallNext, options, source, caller
  <2>2. (pc # "idle") = FALSE /\ (pc' # "idle") = TRUE
    BY <2>1
  <2>3. Cursor!Ask
    BY <2>1, <2>2 DEF Cursor!Ask
  <2>. QED BY <2>3 DEF Cursor!Next
<1>3. CASE AnswerFromCache
  BY <1>3, CacheDelivers DEF Cursor!Next
<1>4. CASE AnswerEnd
  BY <1>4, FinishedIsEnd DEF Cursor!Next
<1>5. CASE FetchFails \/ EmitFails
  BY <1>5, FailureBreaks DEF Cursor!Next
<1>6. CASE CompleteError
  BY <1>6, ErrorFails DEF Cursor!Next
<1>7. CASE CreateScanner
  BY <1>7, ScannerOpens
<1>8. CASE BindingNext \/ Check \/ Fetch \/ FetchDone \/ Emit \/ EmitDone \/ Complete
  BY <1>8, ReadingStutters
<1>9. CASE UNCHANGED vars
  <2>1. UNCHANGED <<limit, table, pc, scanner, scanRows, iteratorStatus, answer, passed>>
    BY <1>9 DEF vars, options, source, caller
  <2>. QED BY <2>1 DEF Cursor!vars
<1>10. CASE Seek
  BY <1>10, SeekLoses DEF Cursor!Next
<1>. QED BY <1>1, <1>2, <1>3, <1>4, <1>5, <1>6, <1>7, <1>8, <1>9, <1>10 DEF Next, Step

\* Whatever the batches, the highWaterMark and the failures: the program gets
\* the rows there were when its first next() opened the scan, one by one and
\* in order, then the end, which like an error of the scan is final.
THEOREM CursorRefinement == Spec => ImplementsCursor
<1>1. Init => Cursor!Init
  BY CursorInit
<1>2. IInv /\ IInv' /\ [Next]_vars => [Cursor!Next]_(Cursor!vars)
  BY CursorStep
<1>. QED BY <1>1, <1>2, Invariance, PTL DEF Spec, ImplementsCursor, Cursor!Spec

-----------------------------------------------------------------------------
(* A next() takes finitely many steps                                        *)

\* How far a next() is from its callback: the steps of a read in the reverse of
\* their order, and within the loops of IteratorNext what they have left.
AnswerAtHand == cache # <<>> \/ finished

Phase ==
    CASE pc = "idle"                   -> 0
      [] pc = "js" /\ AnswerAtHand     -> 1
      [] pc \in {"rows", "eof", "error"} -> 2
      [] pc = "emit"                   -> 3
      [] pc = "fetch"                  -> 4
      [] pc = "check"                  -> 5
      [] pc = "open"                   -> 6
      [] pc = "js" /\ ~AnswerAtHand    -> 7

Left ==
    CASE pc = "fetch" -> scanRows - fetched + empties
      [] pc = "emit"  -> batchRowCount - currentRowCount
      [] OTHER        -> 0

Nearer == Phase' < Phase \/ (Phase' = Phase /\ Left' < Left)

\* With room for a row, each step brings the callback nearer, and rows written
\* meanwhile take nothing back.
NextRunsOut ==
    [][/\ Step /\ highWaterMark > 0 => Nearer
       /\ Write => Phase' = Phase /\ Left' = Left]_vars

\* IteratorNext returns rows only if it has some: iterator.js, which asks again
\* when its cache is empty, asks once.
ReadInv ==
    /\ pc = "emit" => result # <<>> \/ currentRowCount < batchRowCount
    /\ pc = "rows" /\ highWaterMark > 0 => result # <<>>

LEMMA ReadInvStep == IInv /\ ReadInv /\ [Next]_vars => ReadInv'
<1>. SUFFICES ASSUME IInv, ReadInv, [Next]_vars PROVE ReadInv'
  OBVIOUS
<1>1. CASE Check
  <2>1. CASE pc' = "emit"
    <3>1. currentRowCount < batchRowCount /\ UNCHANGED counts
      BY <1>1, <2>1 DEF Check, BatchUsedUp, IInv, TypeOK
    <3>. QED BY <2>1, <3>1 DEF ReadInv, counts
  <2>2. CASE pc' # "emit"
    BY <1>1, <2>2 DEF Check, ReadInv
  <2>. QED BY <2>1, <2>2
<1>2. CASE Fetch
  <2>1. PICK n \in Nat : /\ batchRowCount' = n /\ pc' = AfterBatch(n)
                         /\ currentRowCount' = currentRowCount
    BY <1>2, ScanAssumption DEF Fetch, BatchSizes
  <2>2. currentRowCount = 0
    BY <1>2 DEF Fetch, IInv, CountInv, TypeOK
  <2>. QED BY <2>1, <2>2 DEF ReadInv, AfterBatch
<1>3. CASE Emit
  <2>1. pc' = "emit" /\ result' = Append(result, BatchRow) /\ result \in Seq(Rows)
    BY <1>3 DEF Emit, IInv, TypeOK
  <2>2. result' # <<>>
    BY <2>1
  <2>. QED BY <2>1, <2>2 DEF ReadInv
<1>4. CASE EmitDone
  <2>1. /\ pc = "emit" /\ pc' = "rows" /\ result' = result
        /\ highWaterMark' = highWaterMark
        /\ ~(Len(result) < highWaterMark /\ currentRowCount < batchRowCount)
    BY <1>4 DEF EmitDone, MayEmit, options
  <2>2. highWaterMark \in Nat /\ result \in Seq(Rows)
    BY ScanAssumption DEF IInv, TypeOK
  <2>3. highWaterMark > 0 => result # <<>>
    BY <2>1, <2>2 DEF ReadInv
  <2>. QED BY <2>1, <2>3 DEF ReadInv
<1>5. CASE Write \/ UNCHANGED vars
  BY <1>5 DEF Write, ReadInv, vars, options, counts
<1>6. CASE \/ CallNext \/ Seek \/ AnswerFromCache \/ AnswerEnd \/ BindingNext \/ CreateScanner
           \/ FetchFails \/ FetchDone \/ EmitFails \/ Complete \/ CompleteError
  <2>1. pc' \notin {"emit", "rows"}
    BY <1>6 DEF CallNext, Seek, AnswerFromCache, AnswerEnd, BindingNext, ReadBegins, CreateScanner,
         FetchFails, FetchDone, EmitFails, Complete, CompleteError
  <2>. QED BY <2>1 DEF ReadInv
<1>. QED BY <1>1, <1>2, <1>3, <1>4, <1>5, <1>6 DEF Next, Step

\* What Phase is worth at each point.
LEMMA PhaseIs ==
    /\ pc = "idle" => Phase = 0
    /\ pc = "js" => Phase = IF AnswerAtHand THEN 1 ELSE 7
    /\ pc \in {"rows", "eof", "error"} => Phase = 2
    /\ pc = "emit" => Phase = 3
    /\ pc = "fetch" => Phase = 4
    /\ pc = "check" => Phase = 5
    /\ pc = "open" => Phase = 6
BY DEF Phase

\* Phase and Left are natural numbers, so that they run out.
LEMMA RanksAreNat == IInv => Phase \in 0 .. 7 /\ Left \in Nat
<1>. SUFFICES ASSUME IInv PROVE Phase \in 0 .. 7 /\ Left \in Nat
  OBVIOUS
<1>1. pc \in {"idle", "js", "open", "check", "fetch", "emit", "rows", "eof", "error"}
  BY DEF IInv, TypeOK
<1>2. Phase \in 0 .. 7
  BY <1>1, PhaseIs
<1>3. Left \in Nat
  <2>1. scanRows - fetched + empties \in Nat
    BY ScanAssumption DEF IInv, TypeOK
  <2>2. batchRowCount - currentRowCount \in Nat
    BY ScanAssumption DEF IInv, TypeOK
  <2>. QED BY <2>1, <2>2 DEF Left
<1>. QED BY <1>2, <1>3

LEMMA StepNearer == IInv /\ ReadInv /\ Step /\ highWaterMark > 0 => Nearer
<1>. SUFFICES ASSUME IInv, ReadInv, Step, highWaterMark > 0 PROVE Nearer
  OBVIOUS
<1>p. /\ pc' = "idle" => Phase' = 0
      /\ pc' = "js" => Phase' = IF AnswerAtHand' THEN 1 ELSE 7
      /\ pc' \in {"rows", "eof", "error"} => Phase' = 2
      /\ pc' = "emit" => Phase' = 3
      /\ pc' = "fetch" => Phase' = 4
      /\ pc' = "check" => Phase' = 5
      /\ pc' = "open" => Phase' = 6
  BY DEF Phase
<1>1. CASE AnswerFromCache \/ AnswerEnd
  <2>1. pc = "js" /\ AnswerAtHand /\ pc' = "idle"
    BY <1>1 DEF AnswerFromCache, AnswerEnd, AnswerAtHand
  <2>. QED BY <1>p, <2>1, PhaseIs DEF Nearer
<1>2. CASE BindingNext
  <2>1. pc = "js" /\ ~AnswerAtHand /\ pc' \in {"open", "check"}
    BY <1>2 DEF BindingNext, ReadBegins, AnswerAtHand
  <2>. QED BY <1>p, <2>1, PhaseIs DEF Nearer
<1>3. CASE CreateScanner
  <2>1. pc = "open" /\ pc' \in {"check", "error"}
    BY <1>3 DEF CreateScanner
  <2>. QED BY <1>p, <2>1, PhaseIs DEF Nearer
<1>4. CASE Check
  <2>1. pc = "check" /\ pc' \in {"error", "eof", "fetch", "emit"}
    BY <1>4 DEF Check
  <2>. QED BY <1>p, <2>1, PhaseIs DEF Nearer
<1>5. CASE Fetch
  <2>1. PICK n \in 0 .. MaxBatch :
           /\ n = 0 => empties > 0
           /\ fetched' = fetched + n
           /\ empties' = IF n = 0 THEN empties - 1 ELSE empties
           /\ pc' = AfterBatch(n)
    BY <1>5, ScanAssumption DEF Fetch, BatchSizes
  <2>2. pc = "fetch" /\ scanRows' = scanRows
    BY <1>5 DEF Fetch
  <2>3. CASE n = 0
    <3>1. pc' = "fetch" /\ Phase' = Phase
      BY <1>p, <2>1, <2>2, <2>3, PhaseIs DEF AfterBatch
    <3>2. Left = scanRows - fetched + empties /\ Left' = scanRows' - fetched' + empties'
      BY <2>2, <3>1 DEF Left
    <3>3. Left' < Left
      BY <2>1, <2>2, <2>3, <3>2, ScanAssumption DEF IInv, TypeOK
    <3>. QED BY <3>1, <3>3 DEF Nearer
  <2>4. CASE n # 0
    BY <1>p, <2>1, <2>2, <2>4, PhaseIs DEF AfterBatch, Nearer
  <2>. QED BY <2>3, <2>4
<1>6. CASE FetchFails \/ FetchDone
  <2>1. pc = "fetch" /\ pc' \in {"error", "eof"}
    BY <1>6 DEF FetchFails, FetchDone
  <2>. QED BY <1>p, <2>1, PhaseIs DEF Nearer
<1>7. CASE Emit
  <2>1. /\ pc = "emit" /\ pc' = "emit" /\ batchRowCount' = batchRowCount
        /\ currentRowCount' = currentRowCount + 1
    BY <1>7 DEF Emit
  <2>2. /\ Left = batchRowCount - currentRowCount
        /\ Left' = batchRowCount' - currentRowCount'
    BY <2>1 DEF Left
  <2>3. Left' < Left
    BY <2>1, <2>2 DEF IInv, TypeOK
  <2>. QED BY <1>p, <2>1, <2>3, PhaseIs DEF Nearer
<1>8. CASE EmitFails \/ EmitDone
  <2>1. pc = "emit" /\ pc' \in {"error", "rows"}
    BY <1>8 DEF EmitFails, EmitDone
  <2>. QED BY <1>p, <2>1, PhaseIs DEF Nearer
<1>9. CASE Complete
  <2>1. /\ pc \in {"rows", "eof"} /\ pc' = "js" /\ cache' = ReturnArray(result)
        /\ pc = "eof" => finished'
    BY <1>9 DEF Complete, Finished
  <2>2. CASE pc = "eof"
    BY <1>p, <2>1, <2>2, PhaseIs DEF AnswerAtHand, Nearer
  <2>3. CASE pc = "rows"
    <3>1. result \in Seq(Rows) /\ Len(result) > 0
      BY <2>3 DEF ReadInv, IInv, TypeOK
    <3>2. Len(cache') = 2 * Len(result)
      BY <2>1, <3>1, ReturnArrayFacts
    <3>3. cache' # <<>>
      BY <3>1, <3>2
    <3>. QED BY <1>p, <2>1, <2>3, <3>3, PhaseIs DEF AnswerAtHand, Nearer
  <2>. QED BY <2>1, <2>2, <2>3
<1>10. CASE CompleteError
  <2>1. pc = "error" /\ pc' = "idle"
    BY <1>10 DEF CompleteError
  <2>. QED BY <1>p, <2>1, PhaseIs DEF Nearer
<1>. QED BY <1>1, <1>2, <1>3, <1>4, <1>5, <1>6, <1>7, <1>8, <1>9, <1>10 DEF Step

\* The safety half of NextReturns: if highWaterMark lets a read return rows, a
\* next() can be kept from its callback only by a step that is not taken, never
\* by steps without end, whatever is written to the table meanwhile.
THEOREM NextFinishes == Spec => NextRunsOut /\ [](Phase \in 0 .. 7 /\ Left \in Nat)
<1>1. Init => ReadInv
  BY DEF Init, ReadInv
<1>2. Spec => []ReadInv
  BY <1>1, ReadInvStep, Invariance, PTL DEF Spec
<1>3. Write => Phase' = Phase /\ Left' = Left
  BY DEF Write, Phase, Left, AnswerAtHand, source, counts, jsState
<1>4. IInv /\ ReadInv /\ [Next]_vars =>
        [/\ Step /\ highWaterMark > 0 => Nearer
         /\ Write => Phase' = Phase /\ Left' = Left]_vars
  BY <1>3, StepNearer
<1>. QED BY <1>2, <1>4, RanksAreNat, Invariance, PTL DEF Spec, NextRunsOut

=============================================================================
