----------------------- MODULE IteratorLifecycle_proofs -----------------------
(***************************************************************************)
(* The inductive invariant of IteratorLifecycle and what follows from it,  *)
(* for any number of iterators, close() calls and pool threads.            *)
(***************************************************************************)
EXTENDS IteratorLifecycle, AsyncWork_proofs, FiniteSetTheorems

\* A NextWorker is in the pool exactly while its next() waits for it.
NextWorkerInv ==
    \A i \in Ids :
        /\ NextWorker(i) \in InPool <=> nextCall[i] = "native"
        /\ nextCall[i] # "native" => result[i] = "none"
        /\ i \in Unread => nexting[i]

\* Only created iterators have a history; those not ended are registered.
CreatedInv ==
    /\ \A i \in Ids : ended[i] \/ jsEnded[i] \/ nextCall[i] # "idle" => Created(i)
    /\ \A i \in iterators : Created(i)
    /\ \A i \in Ids : Created(i) /\ ~ended[i] => i \in iterators

\* A CloseWorker exists, waiting or in the pool, only while its call does.
CloseWorkerInv ==
    /\ \A c \in Closes : CloseWorker(c) \in InPool => closeCall[c] = "pending"
    /\ pendingCloseWorker # NULL => closeCall[pendingCloseWorker] = "pending"
    /\ \A c \in Closes : closeMark[c] <= currentIteratorId

IInv ==
    /\ TypeOK
    /\ WorkerInOnePlace
    /\ NextWorkerInv
    /\ CreatedInv
    /\ CloseWorkerInv
    /\ EndedMeansEnding
    /\ EndNeverOvertakesRead
    /\ PendingCloseIsWaiting
    /\ CloseWaitsForIterators

-----------------------------------------------------------------------------
(* Workers, and what NativeEnd queues *)

\* Workers of different kinds, or for different objects, are different.
LEMMA WorkersDistinct ==
    /\ \A i, j \in Ids : NextWorker(i) = NextWorker(j) => i = j
    /\ \A i, j \in Ids : EndWorker(i) = EndWorker(j) => i = j
    /\ \A c, d : CloseWorker(c) = CloseWorker(d) => c = d
    /\ \A i, j \in Ids : NextWorker(i) # EndWorker(j)
    /\ \A i \in Ids : \A c : NextWorker(i) # CloseWorker(c) /\ EndWorker(i) # CloseWorker(c)
    /\ \A i \in Ids : NextWorker(i) \in Workers /\ EndWorker(i) \in Workers
    /\ \A c \in Closes : CloseWorker(c) \in Workers
BY DEF NextWorker, EndWorker, CloseWorker, Workers, NextWorkers, OtherWorkers

\* Queueing one worker that is nowhere in the pool.
QueueOne(w) ==
    /\ PoolTypeOK(Workers)' /\ PlacedOnce'
    /\ InPool' = InPool \cup {w}
    /\ Unexecuted' = Unexecuted \cup {w}

LEMMA QueueOneFacts ==
    ASSUME IInv, NEW w \in Workers, w \notin InPool,
           AsyncQueueWorkers(<<w>>), UNCHANGED <<running, executed, doneQueue>>
    PROVE  QueueOne(w)
<1>1. <<w>> \in Seq(Workers) /\ IsInjective(<<w>>) /\ Range(<<w>>) = {w}
  BY RangeOfSmall
<1>2. PoolTypeOK(Workers) /\ PlacedOnce
  BY DEF IInv, TypeOK, WorkerInOnePlace
<1>3. Range(<<w>>) \cap InPool = {}
  BY <1>1
<1>4. /\ PoolTypeOK(Workers)' /\ PlacedOnce'
      /\ InPool' = InPool \cup Range(<<w>>)
      /\ Unexecuted' = Unexecuted \cup Range(<<w>>)
  BY <1>1, <1>2, <1>3, QueueFacts
<1>. QED BY <1>1, <1>4 DEF QueueOne

\* Completing a worker and queueing at most one that is nowhere else in the
\* pool.
LEMMA TakeQueueOneFacts ==
    ASSUME IInv, NEW w, TakeDone(w), NEW v,
           NEW more \in BOOLEAN, more => v \in Workers /\ v \notin InPool \ {w},
           AsyncQueueWorkers(IF more THEN <<v>> ELSE <<>>),
           UNCHANGED <<running, executed>>
    PROVE  LET added == IF more THEN {v} ELSE {}
           IN  /\ PoolTypeOK(Workers)' /\ PlacedOnce'
               /\ w \in InPool /\ InPool' = (InPool \ {w}) \cup added
               /\ w \notin Unexecuted /\ Unexecuted' = Unexecuted \cup added
<1>. DEFINE ws == IF more THEN <<v>> ELSE <<>>
<1>1. /\ ws \in Seq(Workers) /\ IsInjective(ws)
      /\ Range(ws) = IF more THEN {v} ELSE {}
  <2>1. CASE more
    BY <2>1, RangeOfSmall
  <2>2. CASE ~more
    BY <2>2, RangeOfSmall
  <2>. QED BY <2>1, <2>2
<1>2. PoolTypeOK(Workers) /\ PlacedOnce
  BY DEF IInv, TypeOK, WorkerInOnePlace
<1>3. Range(ws) \cap (InPool \ {w}) = {}
  BY <1>1
<1>. HIDE DEF ws
<1>4. AsyncQueueWorkers(ws)
  BY DEF ws
<1>5. /\ PoolTypeOK(Workers)' /\ PlacedOnce'
      /\ w \in InPool /\ InPool' = (InPool \ {w}) \cup Range(ws)
      /\ w \notin Unexecuted /\ Unexecuted' = Unexecuted \cup Range(ws)
  BY <1>1, <1>2, <1>3, <1>4, TakeQueueFacts
<1>. QED BY <1>1, <1>5

\* Iterator::End on the iterators of S queues the EndWorkers of those that
\* had not ended and are not nexting, each once.
LEMMA NativeEndFacts ==
    ASSUME TypeOK, WorkerInOnePlace, EndedMeansEnding,
           NEW S \in SUBSET Ids, NEW callback \in {"caller", "empty"},
           NativeEnd(S, callback), UNCHANGED <<running, executed, doneQueue>>
    PROVE  LET now == {i \in S : ~ended[i] /\ ~nexting[i]}
           IN  /\ PoolTypeOK(Workers)' /\ PlacedOnce'
               /\ InPool' = InPool \cup {EndWorker(i) : i \in now}
               /\ Unexecuted' = Unexecuted \cup {EndWorker(i) : i \in now}
               /\ \A i \in Ids : EndWorker(i) \in InPool' <=>
                    EndWorker(i) \in InPool \/ i \in now
               /\ ended' = [i \in Ids |-> ended[i] \/ i \in S]
               /\ endWorker' = [i \in Ids |->
                    endWorker[i] \/ (i \in S /\ ~ended[i] /\ nexting[i])]
               /\ endCallback' \in [Ids -> {"none", "caller", "empty"}]
<1>. DEFINE now == {i \in S : ~ended[i] /\ ~nexting[i]}
<1>1. PICK order \in Bijection(1 .. Cardinality(now), now) :
         AsyncQueueWorkers([k \in DOMAIN order |-> EndWorker(order[k])])
  <2>1. now = {i \in S : ~EndIgnored(i)} \ {i \in {j \in S : ~EndIgnored(j)} : EndDeferred(i)}
    BY DEF EndIgnored, EndDeferred
  <2>. QED BY <2>1 DEF NativeEnd
<1>. DEFINE ws == [k \in DOMAIN order |-> EndWorker(order[k])]
<1>2. Cardinality(now) \in Nat
  <2>1. IsFiniteSet(Ids)
    BY FS_Interval, LifecycleAssumption DEF Ids
  <2>2. IsFiniteSet(now)
    BY <2>1, FS_Subset
  <2>. QED BY <2>2, FS_CardinalityType
<1>3. /\ order \in [1 .. Cardinality(now) -> now]
      /\ \A a, b \in DOMAIN order : order[a] = order[b] => a = b
      /\ \A i \in now : \E k \in DOMAIN order : order[k] = i
  BY DEF Bijection, Injection, Surjection, IsInjective
<1>4. ws \in Seq(Workers)
  <2>1. ws \in [1 .. Cardinality(now) -> Workers]
    BY <1>3, WorkersDistinct
  <2>. HIDE DEF ws
  <2>. QED BY <2>1, <1>2, FunctionIsSeq
<1>5. IsInjective(ws)
  BY <1>3, WorkersDistinct DEF IsInjective
<1>6. Range(ws) = {EndWorker(i) : i \in now}
  BY <1>3 DEF Range
<1>7. Range(ws) \cap InPool = {}
  BY <1>6 DEF EndedMeansEnding
<1>8. /\ PoolTypeOK(Workers)' /\ PlacedOnce'
      /\ InPool' = InPool \cup Range(ws)
      /\ Unexecuted' = Unexecuted \cup Range(ws)
  BY <1>1, <1>4, <1>5, <1>7, QueueFacts DEF TypeOK, WorkerInOnePlace
<1>9. /\ ended' = [i \in Ids |-> ended[i] \/ i \in S]
      /\ endWorker' = [i \in Ids |-> endWorker[i] \/ (i \in S /\ ~ended[i] /\ nexting[i])]
  BY DEF NativeEnd, EndIgnored, EndDeferred
<1>10. endCallback' \in [Ids -> {"none", "caller", "empty"}]
  BY DEF NativeEnd, TypeOK
<1>11. \A i \in Ids : EndWorker(i) \in InPool' <=> EndWorker(i) \in InPool \/ i \in now
  BY <1>6, <1>8, WorkersDistinct
<1>. QED BY <1>6, <1>8, <1>9, <1>10, <1>11

-----------------------------------------------------------------------------
(* Every action keeps the invariant *)

USE LifecycleAssumption DEF Ids, Created

\* db.iterator().
LEMMA CreatePool ==
    ASSUME IInv, DatabaseIterator
    PROVE  /\ PoolTypeOK(Workers)' /\ PlacedOnce'
           /\ InPool' = InPool /\ Unexecuted' = Unexecuted
BY UnchangedFacts
DEF IInv, TypeOK, WorkerInOnePlace, DatabaseIterator

LEMMA CreateKeepsInv ==
    ASSUME IInv, DatabaseIterator
    PROVE  IInv'
<1>1. /\ PoolTypeOK(Workers)' /\ PlacedOnce'
      /\ InPool' = InPool /\ Unexecuted' = Unexecuted
  BY CreatePool
<1>2. TypeOK'
  <2>1. PICK mark \in HighWaterMarks[currentIteratorId] :
           highWaterMark' = [highWaterMark EXCEPT ![currentIteratorId] = mark]
    BY DEF DatabaseIterator
  <2>2. currentIteratorId \in Ids
    BY DEF IInv, TypeOK, DatabaseIterator
  <2>3. mark \in {0, 1}
    BY <2>1, <2>2
  <2>4. highWaterMark' \in [Ids -> {0, 1}]
    BY <2>1, <2>3 DEF IInv, TypeOK
  <2>. QED BY <1>1, <2>4 DEF IInv, TypeOK, DatabaseIterator, js, calls
<1>3. CreatedInv'
  BY <1>1, WorkersDistinct
  DEF IInv, TypeOK, CreatedInv, EndedMeansEnding, DatabaseIterator, native,
      js, calls
<1>4. CloseWorkerInv'
  BY <1>1, WorkersDistinct
  DEF IInv, TypeOK, CloseWorkerInv, WorkerInOnePlace, DatabaseIterator,
      native, js, calls
<1>5. EndedMeansEnding'
  BY <1>1, WorkersDistinct
  DEF IInv, TypeOK, EndedMeansEnding, CreatedInv, WorkerInOnePlace,
      DatabaseIterator, native, js, calls
<1>6. PendingCloseIsWaiting'
  BY <1>1, WorkersDistinct
  DEF IInv, TypeOK, PendingCloseIsWaiting, CloseWorkerInv, CreatedInv,
      DatabaseIterator, native, js, calls
<1>7. CloseWaitsForIterators'
  BY <1>1, WorkersDistinct
  DEF IInv, TypeOK, CloseWaitsForIterators, PendingCloseIsWaiting,
      CloseWorkerInv, CreatedInv, DatabaseIterator, native, js, calls
<1>8. WorkerInOnePlace' /\ NextWorkerInv' /\ EndNeverOvertakesRead'
  BY <1>1, WorkersDistinct
  DEF IInv, TypeOK, WorkerInOnePlace, NextWorkerInv,
      EndNeverOvertakesRead, Unread, DatabaseIterator, native, js, calls
<1>. QED BY <1>2, <1>3, <1>4, <1>5, <1>6, <1>7, <1>8 DEF IInv

\* iterator.next() without a native call.
LEMMA CachedNextPool ==
    ASSUME IInv, NEW i \in Ids, NextFromCache(i)
    PROVE  /\ PoolTypeOK(Workers)' /\ PlacedOnce'
           /\ InPool' = InPool /\ Unexecuted' = Unexecuted
BY UnchangedFacts
DEF IInv, TypeOK, WorkerInOnePlace, NextFromCache

LEMMA CachedNextKeepsInv ==
    ASSUME IInv, NEW i \in Ids, NextFromCache(i)
    PROVE  IInv'
<1>1. /\ PoolTypeOK(Workers)' /\ PlacedOnce'
      /\ InPool' = InPool /\ Unexecuted' = Unexecuted
  BY CachedNextPool
<1>2. TypeOK'
  <2>1. cache' \in [Ids -> 0 .. BatchRows]
    <3>1. cache \in [Ids -> 0 .. BatchRows]
      BY DEF IInv, TypeOK
    <3>2. CASE cache[i] > 0 /\ cache' = [cache EXCEPT ![i] = cache[i] - 1]
      <4>1. cache[i] - 1 \in 0 .. BatchRows
        BY <3>1, <3>2
      <4>. QED BY <3>1, <3>2, <4>1
    <3>. QED BY <3>1, <3>2 DEF NextFromCache, CacheHit
  <2>. QED BY <1>1, <2>1
       DEF IInv, TypeOK, NextFromCache, db, native, calls
<1>3. NextWorkerInv'
  BY <1>1, WorkersDistinct
  DEF IInv, TypeOK, NextWorkerInv, Unread, NextFromCache, MayCallNext,
      CacheHit, db, native, calls
<1>4. CreatedInv'
  BY <1>1, WorkersDistinct
  DEF IInv, TypeOK, CreatedInv, EndedMeansEnding, NextFromCache, MayCallNext,
      CacheHit, db, native, calls
<1>5. WorkerInOnePlace' /\ CloseWorkerInv' /\ EndedMeansEnding' /\
      EndNeverOvertakesRead' /\ PendingCloseIsWaiting' /\
      CloseWaitsForIterators'
  BY <1>1, WorkersDistinct
  DEF IInv, TypeOK, WorkerInOnePlace, CloseWorkerInv, EndedMeansEnding,
      EndNeverOvertakesRead, PendingCloseIsWaiting,
      CloseWaitsForIterators, Unread, NextFromCache, MayCallNext, CacheHit,
      db, native, calls
<1>. QED BY <1>2, <1>3, <1>4, <1>5 DEF IInv

\* iterator.next() with a native call.
LEMMA NativeNextPool ==
    ASSUME IInv, NEW i \in Ids, NextFromNative(i)
    PROVE  /\ PoolTypeOK(Workers)' /\ PlacedOnce'
           /\ InPool' = InPool \cup {NextWorker(i)}
           /\ Unexecuted' = Unexecuted \cup {NextWorker(i)}
<1>1. /\ NextWorker(i) \in Workers /\ NextWorker(i) \notin InPool
      /\ AsyncQueueWorkers(<<NextWorker(i)>>)
      /\ UNCHANGED <<running, executed, doneQueue>>
  BY WorkersDistinct DEF IInv, NextWorkerInv, NextFromNative, MayCallNext
<1>2. QueueOne(NextWorker(i))
  BY <1>1, QueueOneFacts
<1>. QED BY <1>2 DEF QueueOne

LEMMA NativeNextKeepsInv ==
    ASSUME IInv, NEW i \in Ids, NextFromNative(i)
    PROVE  IInv'
<1>1. /\ PoolTypeOK(Workers)' /\ PlacedOnce'
      /\ InPool' = InPool \cup {NextWorker(i)}
      /\ Unexecuted' = Unexecuted \cup {NextWorker(i)}
  BY NativeNextPool
<1>2. TypeOK'
  BY <1>1
  DEF IInv, TypeOK, NextFromNative, MayCallNext, NextRefused, CacheHit, db,
      calls
<1>3. NextWorkerInv'
  BY <1>1, WorkersDistinct
  DEF IInv, TypeOK, NextWorkerInv, Unread, NextFromNative, MayCallNext,
      NextRefused, CacheHit, db, calls
<1>4. CreatedInv'
  BY <1>1, WorkersDistinct
  DEF IInv, TypeOK, CreatedInv, EndedMeansEnding, NextFromNative,
      MayCallNext, NextRefused, CacheHit, db, calls
<1>5. EndedMeansEnding'
  BY <1>1, WorkersDistinct
  DEF IInv, TypeOK, EndedMeansEnding, CreatedInv, WorkerInOnePlace,
      NextFromNative, MayCallNext, NextRefused, CacheHit, db, calls
<1>6. EndNeverOvertakesRead'
  BY <1>1, WorkersDistinct
  DEF IInv, TypeOK, EndNeverOvertakesRead, NextWorkerInv,
      EndedMeansEnding, Unread, NextFromNative, MayCallNext, NextRefused,
      CacheHit, db, calls
<1>7. WorkerInOnePlace' /\ CloseWorkerInv' /\ PendingCloseIsWaiting' /\
      CloseWaitsForIterators'
  BY <1>1, WorkersDistinct
  DEF IInv, TypeOK, WorkerInOnePlace, CloseWorkerInv, PendingCloseIsWaiting,
      CloseWaitsForIterators, NextFromNative, MayCallNext, NextRefused,
      CacheHit, db, calls
<1>. QED BY <1>2, <1>3, <1>4, <1>5, <1>6, <1>7 DEF IInv

\* The callback of a next().
LEMMA CallbackPool ==
    ASSUME IInv, NEW i \in Ids, DeferredCallback(i)
    PROVE  /\ PoolTypeOK(Workers)' /\ PlacedOnce'
           /\ InPool' = InPool /\ Unexecuted' = Unexecuted
BY UnchangedFacts
DEF IInv, TypeOK, WorkerInOnePlace, DeferredCallback

LEMMA CallbackKeepsInv ==
    ASSUME IInv, NEW i \in Ids, DeferredCallback(i)
    PROVE  IInv'
<1>1. /\ PoolTypeOK(Workers)' /\ PlacedOnce'
      /\ InPool' = InPool /\ Unexecuted' = Unexecuted
  BY CallbackPool
<1>2. TypeOK'
  BY <1>1
  DEF IInv, TypeOK, DeferredCallback, db, native, calls
<1>3. NextWorkerInv'
  BY <1>1, WorkersDistinct
  DEF IInv, TypeOK, NextWorkerInv, Unread, DeferredCallback, db, native,
      calls
<1>4. CreatedInv'
  BY <1>1, WorkersDistinct
  DEF IInv, TypeOK, CreatedInv, EndedMeansEnding, DeferredCallback, db,
      native, calls
<1>5. WorkerInOnePlace' /\ CloseWorkerInv' /\ EndedMeansEnding' /\
      EndNeverOvertakesRead' /\ PendingCloseIsWaiting' /\
      CloseWaitsForIterators'
  BY <1>1, WorkersDistinct
  DEF IInv, TypeOK, WorkerInOnePlace, CloseWorkerInv, EndedMeansEnding,
      EndNeverOvertakesRead, PendingCloseIsWaiting,
      CloseWaitsForIterators, Unread, DeferredCallback, db, native, calls
<1>. QED BY <1>2, <1>3, <1>4, <1>5 DEF IInv

\* IteratorNext on a pool thread.
LEMMA IteratorNextPool ==
    ASSUME IInv, NEW i \in Ids, IteratorNext(i)
    PROVE  /\ PoolTypeOK(Workers)' /\ PlacedOnce'
           /\ InPool' = InPool /\ Unexecuted' = Unexecuted
           /\ NextWorker(i) \in InPool /\ NextWorker(i) \in Unexecuted
<1>1. UNCHANGED pool /\ NextWorker(i) \in running \ executed
  BY DEF IteratorNext
<1>. QED BY <1>1, UnchangedFacts
     DEF IInv, TypeOK, WorkerInOnePlace, InPool, Unexecuted

\* What IteratorNext writes.
LEMMA IteratorNextWrites ==
    ASSUME IInv, NEW i \in Ids, IteratorNext(i)
    PROVE  \E outcome \in Outcomes :
             /\ result[i] = "none" /\ result' = [result EXCEPT ![i] = outcome]
             /\ \E status \in {"none", "open", "failed"} :
                  scanner' = [scanner EXCEPT ![i] = status]
             /\ \E flag \in BOOLEAN :
                  /\ nexting' = [nexting EXCEPT ![i] = flag]
                  /\ outcome = "eof" => ~flag
<1>1. PICK outcome \in NextOutcomes(i) :
         /\ result[i] = "none" /\ result' = [result EXCEPT ![i] = outcome]
         /\ scanner' = [scanner EXCEPT ![i] = ScannerAfter(outcome)]
         /\ nexting' = [nexting EXCEPT ![i] = NextingAfter(@, outcome)]
  BY DEF IteratorNext
<1>2. outcome \in Outcomes
  BY DEF IInv, TypeOK, NextOutcomes, Outcomes
<1>3. ScannerAfter(outcome) \in {"none", "open", "failed"}
  BY <1>2 DEF Outcomes, ScannerAfter
<1>4. NextingAfter(nexting[i], outcome) \in BOOLEAN
  BY <1>2 DEF IInv, TypeOK, Outcomes, NextingAfter
<1>5. outcome = "eof" => ~NextingAfter(nexting[i], outcome)
  BY DEF NextingAfter
<1>6. nexting' = [nexting EXCEPT ![i] = NextingAfter(nexting[i], outcome)]
  BY <1>1 DEF IInv, TypeOK
<1>. QED BY <1>1, <1>2, <1>3, <1>4, <1>5, <1>6

LEMMA IteratorNextKeepsInv ==
    ASSUME IInv, NEW i \in Ids, IteratorNext(i)
    PROVE  IInv'
<1>1. /\ PoolTypeOK(Workers)' /\ PlacedOnce'
      /\ InPool' = InPool /\ Unexecuted' = Unexecuted
      /\ NextWorker(i) \in InPool
  BY IteratorNextPool
<1>2. PICK outcome \in Outcomes, flag \in BOOLEAN :
         /\ result[i] = "none" /\ result' = [result EXCEPT ![i] = outcome]
         /\ \E status \in {"none", "open", "failed"} :
              scanner' = [scanner EXCEPT ![i] = status]
         /\ nexting' = [nexting EXCEPT ![i] = flag]
  BY IteratorNextWrites
<1>3. TypeOK'
  BY <1>1, <1>2 DEF IInv, TypeOK, IteratorNext, db, js, calls
<1>4. NextWorkerInv'
  <2>1. outcome # "none"
    BY DEF Outcomes
  <2>. QED BY <1>1, <1>2, <2>1, WorkersDistinct
       DEF IInv, TypeOK, NextWorkerInv, Unread, IteratorNext, db, js, calls
<1>5. EndNeverOvertakesRead'
  <2>1. Unread' \subseteq Unread
    BY <1>1, <1>2 DEF IInv, TypeOK, Unread, Outcomes
  <2>. QED BY <1>1, <2>1 DEF IInv, EndNeverOvertakesRead
<1>6. WorkerInOnePlace' /\ CreatedInv' /\ CloseWorkerInv' /\
      EndedMeansEnding' /\ PendingCloseIsWaiting' /\
      CloseWaitsForIterators'
  BY <1>1, WorkersDistinct
  DEF IInv, TypeOK, WorkerInOnePlace, CreatedInv, CloseWorkerInv,
      EndedMeansEnding, PendingCloseIsWaiting, CloseWaitsForIterators,
      IteratorNext, db, js, calls
<1>. QED BY <1>3, <1>4, <1>5, <1>6 DEF IInv

\* The rest of NextWorker::Execute.
LEMMA ExecuteNextPool ==
    ASSUME IInv, NEW i \in Ids, ExecuteNext(i)
    PROVE  /\ PoolTypeOK(Workers)' /\ PlacedOnce'
           /\ InPool' = InPool
           /\ Unexecuted' = Unexecuted \ {NextWorker(i)}
           /\ Unread' = Unread
<1>1. /\ PoolTypeOK(Workers)' /\ PlacedOnce'
      /\ InPool' = InPool
      /\ Unexecuted' = Unexecuted \ {NextWorker(i)}
  BY ExecuteFacts
  DEF IInv, TypeOK, WorkerInOnePlace, ExecuteNext
<1>2. result[i] # "none" /\ result' = result
  BY DEF ExecuteNext
<1>3. Unread' = Unread
  BY <1>1, <1>2, WorkersDistinct DEF Unread
<1>. QED BY <1>1, <1>3

LEMMA ExecuteNextKeepsInv ==
    ASSUME IInv, NEW i \in Ids, ExecuteNext(i)
    PROVE  IInv'
<1>1. /\ PoolTypeOK(Workers)' /\ PlacedOnce'
      /\ InPool' = InPool /\ Unread' = Unread
  BY ExecuteNextPool
<1>2. TypeOK'
  BY <1>1 DEF IInv, TypeOK, ExecuteNext, db, native, js, calls
<1>3. WorkerInOnePlace' /\ NextWorkerInv' /\ CreatedInv' /\ CloseWorkerInv'
      /\ EndedMeansEnding' /\ EndNeverOvertakesRead' /\
      PendingCloseIsWaiting' /\ CloseWaitsForIterators'
  BY <1>1
  DEF IInv, TypeOK, WorkerInOnePlace, NextWorkerInv, CreatedInv,
      CloseWorkerInv, EndedMeansEnding, EndNeverOvertakesRead,
      PendingCloseIsWaiting, CloseWaitsForIterators, ExecuteNext, db,
      native, js, calls
<1>. QED BY <1>2, <1>3 DEF IInv

\* Execute of an EndWorker or a CloseWorker.
LEMMA ExecuteOtherPool ==
    ASSUME IInv, NEW w \in OtherWorkers, ExecuteOther(w)
    PROVE  /\ PoolTypeOK(Workers)' /\ PlacedOnce'
           /\ InPool' = InPool
           /\ Unexecuted' = Unexecuted \ {w}
BY ExecuteFacts
DEF IInv, TypeOK, WorkerInOnePlace, ExecuteOther

LEMMA ExecuteOtherKeepsInv ==
    ASSUME IInv, NEW w \in OtherWorkers, ExecuteOther(w)
    PROVE  IInv'
<1>1. /\ PoolTypeOK(Workers)' /\ PlacedOnce'
      /\ InPool' = InPool
      /\ Unexecuted' = Unexecuted \ {w}
  BY ExecuteOtherPool
<1>2. TypeOK'
  BY <1>1
  DEF IInv, TypeOK, ExecuteOther, db, native, js, calls
<1>3. NextWorkerInv'
  BY <1>1, WorkersDistinct
  DEF IInv, TypeOK, NextWorkerInv, Unread, OtherWorkers, ExecuteOther, db,
      native, js, calls
<1>4. EndNeverOvertakesRead'
  BY <1>1, WorkersDistinct
  DEF IInv, TypeOK, EndNeverOvertakesRead, NextWorkerInv,
      EndedMeansEnding, Unread, ExecuteOther, db, native, js, calls
<1>5. WorkerInOnePlace' /\ CreatedInv' /\ CloseWorkerInv' /\
      EndedMeansEnding' /\ PendingCloseIsWaiting' /\
      CloseWaitsForIterators'
  BY <1>1, WorkersDistinct
  DEF IInv, TypeOK, WorkerInOnePlace, CreatedInv, CloseWorkerInv,
      EndedMeansEnding, PendingCloseIsWaiting, CloseWaitsForIterators,
      ExecuteOther, db, native, js, calls
<1>. QED BY <1>2, <1>3, <1>4, <1>5 DEF IInv

\* A pool thread takes a worker.
LEMMA StartPool ==
    ASSUME IInv, Start
    PROVE  /\ PoolTypeOK(Workers)' /\ PlacedOnce'
           /\ InPool' = InPool /\ Unexecuted' = Unexecuted
BY StartFacts
DEF IInv, TypeOK, WorkerInOnePlace, Start

LEMMA StartKeepsInv ==
    ASSUME IInv, Start
    PROVE  IInv'
<1>1. /\ PoolTypeOK(Workers)' /\ PlacedOnce'
      /\ InPool' = InPool /\ Unexecuted' = Unexecuted
  BY StartPool
<1>2. TypeOK'
  BY <1>1
  DEF IInv, TypeOK, Start, db, native, js, calls
<1>3. WorkerInOnePlace' /\ NextWorkerInv' /\ CreatedInv' /\ CloseWorkerInv'
      /\ EndedMeansEnding' /\ EndNeverOvertakesRead' /\
      PendingCloseIsWaiting' /\ CloseWaitsForIterators'
  BY <1>1, WorkersDistinct
  DEF IInv, TypeOK, WorkerInOnePlace, NextWorkerInv, CreatedInv,
      CloseWorkerInv, EndedMeansEnding, EndNeverOvertakesRead,
      PendingCloseIsWaiting, CloseWaitsForIterators, Unread, Start, db,
      native, js, calls
<1>. QED BY <1>2, <1>3 DEF IInv

\* A pool thread posts a worker.
LEMMA PostPool ==
    ASSUME IInv, NEW w \in Workers, Post(w)
    PROVE  /\ PoolTypeOK(Workers)' /\ PlacedOnce'
           /\ InPool' = InPool /\ Unexecuted' = Unexecuted
BY PostFacts
DEF IInv, TypeOK, WorkerInOnePlace, Post

LEMMA PostKeepsInv ==
    ASSUME IInv, NEW w \in Workers, Post(w)
    PROVE  IInv'
<1>1. /\ PoolTypeOK(Workers)' /\ PlacedOnce'
      /\ InPool' = InPool /\ Unexecuted' = Unexecuted
  BY PostPool
<1>2. TypeOK'
  BY <1>1
  DEF IInv, TypeOK, Post, db, native, js, calls
<1>3. WorkerInOnePlace' /\ NextWorkerInv' /\ CreatedInv' /\ CloseWorkerInv'
      /\ EndedMeansEnding' /\ EndNeverOvertakesRead' /\
      PendingCloseIsWaiting' /\ CloseWaitsForIterators'
  BY <1>1, WorkersDistinct
  DEF IInv, TypeOK, WorkerInOnePlace, NextWorkerInv, CreatedInv,
      CloseWorkerInv, EndedMeansEnding, EndNeverOvertakesRead,
      PendingCloseIsWaiting, CloseWaitsForIterators, Unread, Post, db,
      native, js, calls
<1>. QED BY <1>2, <1>3 DEF IInv

\* A next() completes with an error.
LEMMA NextFailsPool ==
    ASSUME IInv, NEW i \in Ids, NextFails(i)
    PROVE  /\ PoolTypeOK(Workers)' /\ PlacedOnce'
           /\ InPool' = InPool \ {NextWorker(i)}
           /\ NextWorker(i) \notin Unexecuted /\ Unexecuted' = Unexecuted
BY TakeFacts
DEF IInv, TypeOK, WorkerInOnePlace, NextFails, Completing

LEMMA NextFailsKeepsInv ==
    ASSUME IInv, NEW i \in Ids, NextFails(i)
    PROVE  IInv'
<1>1. /\ PoolTypeOK(Workers)' /\ PlacedOnce'
      /\ InPool' = InPool \ {NextWorker(i)}
      /\ NextWorker(i) \notin Unexecuted /\ Unexecuted' = Unexecuted
  BY NextFailsPool
<1>2. TypeOK'
  BY <1>1
  DEF IInv, TypeOK, NextFails, NextCallAfter, db, native, calls
<1>3. NextWorkerInv'
  BY <1>1, WorkersDistinct
  DEF IInv, TypeOK, NextWorkerInv, Unread, NextFails, NextCallAfter, db,
      native, calls
<1>4. CreatedInv'
  BY <1>1, WorkersDistinct
  DEF IInv, TypeOK, CreatedInv, EndedMeansEnding, NextFails, NextCallAfter,
      db, native, calls
<1>5. EndedMeansEnding'
  BY <1>1, WorkersDistinct
  DEF IInv, TypeOK, EndedMeansEnding, CreatedInv, WorkerInOnePlace,
      NextFails, NextCallAfter, db, native, calls
<1>6. WorkerInOnePlace' /\ CloseWorkerInv' /\ EndNeverOvertakesRead' /\
      PendingCloseIsWaiting' /\ CloseWaitsForIterators'
  BY <1>1, WorkersDistinct
  DEF IInv, TypeOK, WorkerInOnePlace, CloseWorkerInv,
      EndNeverOvertakesRead, PendingCloseIsWaiting,
      CloseWaitsForIterators, Unread, NextFails, NextCallAfter, db, native,
      calls
<1>. QED BY <1>2, <1>3, <1>4, <1>5, <1>6 DEF IInv

\* Queueing the EndWorker that waits, or nothing, and nothing after it.
LEMMA NothingAfter ==
    ASSUME NEW w, NEW waits \in BOOLEAN
    PROVE  (IF waits THEN <<w>> ELSE <<>>) \o <<>> = IF waits THEN <<w>> ELSE <<>>
<1>1. <<w>> \in Seq({w}) /\ <<>> \in Seq({w})
  OBVIOUS
<1>2. <<w>> \o <<>> = <<w>> /\ <<>> \o <<>> = <<>>
  BY <1>1, ConcatEmptySeq
<1>. QED BY <1>2

\* A next() completes, and the end() that waited for it is queued.
LEMMA NextSucceedsPool ==
    ASSUME IInv, NEW i \in Ids, NextSucceeds(i)
    PROVE  /\ PoolTypeOK(Workers)' /\ PlacedOnce'
           /\ InPool' = (InPool \ {NextWorker(i)})
                         \cup (IF endWorker[i] THEN {EndWorker(i)} ELSE {})
           /\ NextWorker(i) \in InPool /\ NextWorker(i) \notin Unexecuted
           /\ Unexecuted' = Unexecuted \cup (IF endWorker[i] THEN {EndWorker(i)} ELSE {})
<1>1. endWorker[i] \in BOOLEAN
  BY DEF IInv, TypeOK
<1>2. /\ TakeDone(NextWorker(i))
      /\ AsyncQueueWorkers(IF endWorker[i] THEN <<EndWorker(i)>> ELSE <<>>)
      /\ UNCHANGED <<running, executed>>
  BY <1>1, NothingAfter DEF NextSucceeds, CheckEndCallback, Completing
<1>3. endWorker[i] => EndWorker(i) \in Workers /\ EndWorker(i) \notin InPool
  BY WorkersDistinct DEF IInv, WorkerInOnePlace
<1>. QED BY <1>1, <1>2, <1>3, TakeQueueOneFacts

LEMMA NextSucceedsKeepsInv ==
    ASSUME IInv, NEW i \in Ids, NextSucceeds(i)
    PROVE  IInv'
<1>1. /\ PoolTypeOK(Workers)' /\ PlacedOnce'
      /\ InPool' = (InPool \ {NextWorker(i)})
                    \cup (IF endWorker[i] THEN {EndWorker(i)} ELSE {})
      /\ NextWorker(i) \in InPool /\ NextWorker(i) \notin Unexecuted
      /\ Unexecuted' = Unexecuted \cup (IF endWorker[i] THEN {EndWorker(i)} ELSE {})
  BY NextSucceedsPool
<1>2. TypeOK'
  <2>1. cache' \in [Ids -> 0 .. BatchRows]
    <3>. cache \in [Ids -> 0 .. BatchRows] /\ BatchRows \in Nat \ {0}
      BY LifecycleAssumption DEF IInv, TypeOK
    <3>1. CASE result[i] = "rows"
      <4>1. PICK n \in 1 .. BatchRows : cache' = [cache EXCEPT ![i] = n - 1]
        BY <3>1 DEF NextSucceeds
      <4>2. n - 1 \in 0 .. BatchRows
        OBVIOUS
      <4>. QED BY <4>1, <4>2
    <3>2. CASE result[i] = "eof"
      <4>1. cache' = [cache EXCEPT ![i] = 0]
        BY <3>2 DEF NextSucceeds
      <4>. QED BY <4>1
    <3>. QED BY <3>1, <3>2 DEF NextSucceeds
  <2>. QED BY <1>1, <2>1
       DEF IInv, TypeOK, NextSucceeds, CheckEndCallback, NextCallAfter, db, calls
<1>3. WorkerInOnePlace'
  BY <1>1, WorkersDistinct
  DEF IInv, TypeOK, WorkerInOnePlace, EndedMeansEnding, CloseWorkerInv,
      NextSucceeds, CheckEndCallback, NextCallAfter, db, calls
<1>4. NextWorkerInv'
  BY <1>1, WorkersDistinct
  DEF IInv, TypeOK, NextWorkerInv, Unread, NextSucceeds, CheckEndCallback,
      NextCallAfter, db, calls
<1>5. CreatedInv'
  BY <1>1, WorkersDistinct
  DEF IInv, TypeOK, CreatedInv, EndedMeansEnding, NextWorkerInv,
      NextSucceeds, CheckEndCallback, NextCallAfter, db, calls
<1>6. EndedMeansEnding'
  BY <1>1, WorkersDistinct
  DEF IInv, TypeOK, EndedMeansEnding, CreatedInv, WorkerInOnePlace,
      NextSucceeds, CheckEndCallback, NextCallAfter, db, calls
<1>7. EndNeverOvertakesRead'
  BY <1>1, WorkersDistinct
  DEF IInv, TypeOK, EndNeverOvertakesRead, NextWorkerInv,
      EndedMeansEnding, Unread, NextSucceeds, CheckEndCallback,
      NextCallAfter, db, calls
<1>8. CloseWorkerInv' /\ PendingCloseIsWaiting' /\ CloseWaitsForIterators'
  BY <1>1, WorkersDistinct
  DEF IInv, TypeOK, CloseWorkerInv, PendingCloseIsWaiting,
      CloseWaitsForIterators, NextSucceeds, CheckEndCallback, NextCallAfter,
      db, calls
<1>. QED BY <1>2, <1>3, <1>4, <1>5, <1>6, <1>7, <1>8 DEF IInv

\* A next() completes with no row: it is called again, or refused because the
\* iterator was ended meanwhile, and the end() that waited is queued.
LEMMA RefusedPool ==
    ASSUME IInv, NEW i \in Ids, NextBringsNothing(i), ended[i]
    PROVE  /\ PoolTypeOK(Workers)' /\ PlacedOnce'
           /\ InPool' = (InPool \ {NextWorker(i)})
                         \cup (IF endWorker[i] THEN {EndWorker(i)} ELSE {})
           /\ NextWorker(i) \in InPool /\ NextWorker(i) \notin Unexecuted
           /\ Unexecuted' = Unexecuted \cup (IF endWorker[i] THEN {EndWorker(i)} ELSE {})
           /\ endWorker' = [endWorker EXCEPT ![i] = FALSE]
           /\ nextCall' = [nextCall EXCEPT ![i] = "idle"] /\ nexting' = nexting
           /\ Unread' = Unread
<1>1. endWorker[i] \in BOOLEAN
  BY DEF IInv, TypeOK
<1>2. /\ TakeDone(NextWorker(i))
      /\ AsyncQueueWorkers(IF endWorker[i] THEN <<EndWorker(i)>> ELSE <<>>)
      /\ UNCHANGED <<running, executed>>
      /\ endWorker' = [endWorker EXCEPT ![i] = FALSE]
      /\ nextCall' = [nextCall EXCEPT ![i] = "idle"] /\ nexting' = nexting
      /\ result' = [result EXCEPT ![i] = "none"]
  BY <1>1, NothingAfter DEF NextBringsNothing, NextRefused, CheckEndCallback, Completing
<1>3. endWorker[i] => EndWorker(i) \in Workers /\ EndWorker(i) \notin InPool
  BY WorkersDistinct DEF IInv, WorkerInOnePlace
<1>4. /\ PoolTypeOK(Workers)' /\ PlacedOnce'
      /\ InPool' = (InPool \ {NextWorker(i)})
                    \cup (IF endWorker[i] THEN {EndWorker(i)} ELSE {})
      /\ NextWorker(i) \in InPool /\ NextWorker(i) \notin Unexecuted
      /\ Unexecuted' = Unexecuted \cup (IF endWorker[i] THEN {EndWorker(i)} ELSE {})
  BY <1>1, <1>2, <1>3, TakeQueueOneFacts
<1>5. Unread' = Unread
  BY <1>2, <1>4, WorkersDistinct DEF IInv, TypeOK, Unread
<1>. QED BY <1>2, <1>4, <1>5

LEMMA CalledOncePool ==
    ASSUME IInv, NEW i \in Ids, NextBringsNothing(i), ~ended[i]
    PROVE  /\ PoolTypeOK(Workers)' /\ PlacedOnce'
           /\ InPool' = InPool /\ NextWorker(i) \in InPool
           /\ Unexecuted' = Unexecuted \cup {NextWorker(i)}
           /\ endWorker' = endWorker /\ nextCall' = nextCall
           /\ nexting' = [nexting EXCEPT ![i] = TRUE]
           /\ i \notin Unread /\ Unread' = Unread \cup {i}
           /\ i \in iterators /\ nextCall[i] = "native"
<1>1. TakeDone(NextWorker(i)) /\ UNCHANGED <<running, executed>>
  BY DEF NextBringsNothing, Completing
<1>2. NextWorker(i) \in InPool /\ nextCall[i] = "native"
  <2>1. NextWorker(i) \in InPool
    BY <1>1 DEF IInv, TypeOK, TakeDone, InPool, PoolTypeOK, Range
  <2>. QED BY <2>1 DEF IInv, NextWorkerInv
<1>3. i \in iterators
  BY <1>2 DEF IInv, CreatedInv
<1>4. ~endWorker[i] /\ endWorker \in [Ids -> BOOLEAN]
  BY DEF IInv, EndedMeansEnding, TypeOK
<1>5. <<>> \o <<NextWorker(i)>> = <<NextWorker(i)>>
  <2>1. <<NextWorker(i)>> \in Seq({NextWorker(i)})
    OBVIOUS
  <2>. QED BY <2>1, ConcatEmptySeq
<1>6. /\ AsyncQueueWorkers(IF TRUE THEN <<NextWorker(i)>> ELSE <<>>)
      /\ endWorker' = endWorker /\ nextCall' = nextCall
      /\ nexting' = [nexting EXCEPT ![i] = TRUE]
      /\ result[i] = "empty" /\ result' = [result EXCEPT ![i] = "none"]
  BY <1>4, <1>5 DEF NextBringsNothing, NextRefused, CheckEndCallback
<1>7. /\ PoolTypeOK(Workers)' /\ PlacedOnce'
      /\ InPool' = (InPool \ {NextWorker(i)}) \cup {NextWorker(i)}
      /\ Unexecuted' = Unexecuted \cup {NextWorker(i)}
  BY <1>1, <1>6, WorkersDistinct, TakeQueueOneFacts
<1>8. i \notin Unread /\ Unread' = Unread \cup {i}
  BY <1>6, <1>7, WorkersDistinct DEF IInv, TypeOK, Unread
<1>. QED BY <1>2, <1>3, <1>6, <1>7, <1>8

LEMMA NextBringsNothingKeepsInv ==
    ASSUME IInv, NEW i \in Ids, NextBringsNothing(i)
    PROVE  IInv'
<1>1. CASE ended[i]
  <2>1. /\ PoolTypeOK(Workers)' /\ PlacedOnce'
        /\ InPool' = (InPool \ {NextWorker(i)})
                      \cup (IF endWorker[i] THEN {EndWorker(i)} ELSE {})
        /\ NextWorker(i) \in InPool /\ NextWorker(i) \notin Unexecuted
        /\ endWorker' = [endWorker EXCEPT ![i] = FALSE]
        /\ nextCall' = [nextCall EXCEPT ![i] = "idle"] /\ nexting' = nexting
        /\ Unread' = Unread
    BY <1>1, RefusedPool
  <2>2. i \notin Unread
    BY <2>1 DEF Unread
  <2>3. TypeOK'
    BY <2>1 DEF IInv, TypeOK, NextBringsNothing, db, calls
  <2>4. WorkerInOnePlace'
    BY <2>1, WorkersDistinct
    DEF IInv, TypeOK, WorkerInOnePlace, EndedMeansEnding, CloseWorkerInv,
        NextBringsNothing, db
  <2>5. NextWorkerInv'
    BY <2>1, WorkersDistinct
    DEF IInv, TypeOK, NextWorkerInv, NextBringsNothing
  <2>6. CreatedInv'
    BY <2>1 DEF IInv, TypeOK, CreatedInv, NextBringsNothing, db
  <2>7. EndedMeansEnding'
    BY <2>1, WorkersDistinct
    DEF IInv, TypeOK, EndedMeansEnding, WorkerInOnePlace, NextBringsNothing, db
  <2>8. EndNeverOvertakesRead'
    BY <2>1, <2>2, WorkersDistinct DEF IInv, EndNeverOvertakesRead
  <2>9. CloseWorkerInv' /\ PendingCloseIsWaiting' /\ CloseWaitsForIterators'
    BY <2>1, WorkersDistinct
    DEF IInv, TypeOK, CloseWorkerInv, PendingCloseIsWaiting,
        CloseWaitsForIterators, NextBringsNothing, db, calls
  <2>. QED BY <2>3, <2>4, <2>5, <2>6, <2>7, <2>8, <2>9 DEF IInv
<1>2. CASE ~ended[i]
  <2>1. /\ PoolTypeOK(Workers)' /\ PlacedOnce'
        /\ InPool' = InPool /\ endWorker' = endWorker /\ nextCall' = nextCall
        /\ nexting' = [nexting EXCEPT ![i] = TRUE]
        /\ Unread' = Unread \cup {i} /\ nextCall[i] = "native"
    BY <1>2, CalledOncePool
  <2>2. TypeOK'
    BY <2>1 DEF IInv, TypeOK, NextBringsNothing, db, calls
  <2>3. NextWorkerInv'
    BY <2>1 DEF IInv, TypeOK, NextWorkerInv, NextBringsNothing
  <2>4. EndNeverOvertakesRead'
    <3>1. EndWorker(i) \notin InPool
      BY <1>2 DEF IInv, EndedMeansEnding
    <3>. QED BY <2>1, <3>1 DEF IInv, EndNeverOvertakesRead
  <2>5. WorkerInOnePlace' /\ CreatedInv' /\ CloseWorkerInv' /\
        EndedMeansEnding' /\ PendingCloseIsWaiting' /\
        CloseWaitsForIterators'
    BY <2>1
    DEF IInv, TypeOK, WorkerInOnePlace, CreatedInv, CloseWorkerInv,
        EndedMeansEnding, PendingCloseIsWaiting, CloseWaitsForIterators,
        NextBringsNothing, db, calls
  <2>. QED BY <2>2, <2>3, <2>4, <2>5 DEF IInv
<1>. QED BY <1>1, <1>2

\* An end() completes: the iterator is released, a waiting close() may start.
LEMMA EndCompletesPool ==
    ASSUME IInv, NEW i \in Ids, EndCompletes(i)
    PROVE  /\ PoolTypeOK(Workers)' /\ PlacedOnce'
           /\ i \in iterators /\ iterators' = iterators \ {i}
           /\ EndWorker(i) \in InPool /\ EndWorker(i) \notin Unexecuted
           /\ \/ /\ InPool' = InPool \ {EndWorker(i)}
                 /\ Unexecuted' = Unexecuted
                 /\ pendingCloseWorker' = pendingCloseWorker
                 /\ pendingCloseWorker # NULL => iterators' # {}
              \/ /\ iterators' = {}
                 /\ pendingCloseWorker \in Closes /\ pendingCloseWorker' = NULL
                 /\ InPool' = (InPool \ {EndWorker(i)})
                                \cup {CloseWorker(pendingCloseWorker)}
                 /\ Unexecuted' = Unexecuted \cup {CloseWorker(pendingCloseWorker)}
<1>1. /\ TakeDone(EndWorker(i)) /\ UNCHANGED <<running, executed>>
      /\ iterators' = iterators \ {i}
  BY DEF EndCompletes, ReleaseIterator, Completing
<1>2. CASE CloseMayStart(iterators')
  <2>1. /\ AsyncQueueWorkers(IF TRUE THEN <<CloseWorker(pendingCloseWorker)>> ELSE <<>>)
        /\ pendingCloseWorker \in Closes /\ pendingCloseWorker' = NULL
        /\ iterators' = {}
    BY <1>2 DEF IInv, TypeOK, EndCompletes, ReleaseIterator, CloseMayStart
  <2>2. /\ CloseWorker(pendingCloseWorker) \in Workers
        /\ CloseWorker(pendingCloseWorker) \notin InPool
    BY <2>1, WorkersDistinct DEF IInv, WorkerInOnePlace
  <2>3. /\ PoolTypeOK(Workers)' /\ PlacedOnce'
        /\ EndWorker(i) \in InPool /\ EndWorker(i) \notin Unexecuted
        /\ InPool' = (InPool \ {EndWorker(i)}) \cup {CloseWorker(pendingCloseWorker)}
        /\ Unexecuted' = Unexecuted \cup {CloseWorker(pendingCloseWorker)}
    BY <1>1, <2>1, <2>2, TakeQueueOneFacts
  <2>. QED BY <1>1, <2>1, <2>3 DEF IInv, EndedMeansEnding
<1>3. CASE ~CloseMayStart(iterators')
  <2>1. /\ workQueue' = workQueue /\ pendingCloseWorker' = pendingCloseWorker
        /\ pendingCloseWorker # NULL => iterators' # {}
    BY <1>3 DEF EndCompletes, ReleaseIterator, CloseMayStart
  <2>2. /\ PoolTypeOK(Workers)' /\ PlacedOnce'
        /\ EndWorker(i) \in InPool /\ EndWorker(i) \notin Unexecuted
        /\ InPool' = InPool \ {EndWorker(i)} /\ Unexecuted' = Unexecuted
    BY <1>1, <2>1, TakeFacts DEF IInv, TypeOK, WorkerInOnePlace
  <2>. QED BY <1>1, <2>1, <2>2 DEF IInv, EndedMeansEnding
<1>. QED BY <1>2, <1>3

LEMMA EndCompletesKeepsInv ==
    ASSUME IInv, NEW i \in Ids, EndCompletes(i)
    PROVE  IInv'
<1>1. /\ PoolTypeOK(Workers)' /\ PlacedOnce'
      /\ i \in iterators /\ iterators' = iterators \ {i}
      /\ EndWorker(i) \in InPool /\ EndWorker(i) \notin Unexecuted
      /\ \/ /\ InPool' = InPool \ {EndWorker(i)}
            /\ Unexecuted' = Unexecuted
            /\ pendingCloseWorker' = pendingCloseWorker
            /\ pendingCloseWorker # NULL => iterators' # {}
         \/ /\ iterators' = {}
            /\ pendingCloseWorker \in Closes /\ pendingCloseWorker' = NULL
            /\ InPool' = (InPool \ {EndWorker(i)})
                           \cup {CloseWorker(pendingCloseWorker)}
            /\ Unexecuted' = Unexecuted \cup {CloseWorker(pendingCloseWorker)}
  BY EndCompletesPool
<1>2. TypeOK'
  BY <1>1
  DEF IInv, TypeOK, EndCompletes, native, js
<1>3. WorkerInOnePlace'
  BY <1>1, WorkersDistinct
  DEF IInv, TypeOK, WorkerInOnePlace, EndedMeansEnding, CloseWorkerInv,
      EndCompletes, native, js
<1>4. NextWorkerInv'
  BY <1>1, WorkersDistinct
  DEF IInv, TypeOK, NextWorkerInv, Unread, EndCompletes, native, js
<1>5. CreatedInv'
  BY <1>1, WorkersDistinct
  DEF IInv, TypeOK, CreatedInv, EndedMeansEnding, EndCompletes, native, js
<1>6. CloseWorkerInv'
  BY <1>1, WorkersDistinct
  DEF IInv, TypeOK, CloseWorkerInv, WorkerInOnePlace, EndCompletes, native,
      js
<1>7. EndedMeansEnding'
  BY <1>1, WorkersDistinct
  DEF IInv, TypeOK, EndedMeansEnding, CreatedInv, WorkerInOnePlace,
      EndCompletes, native, js
<1>8. EndNeverOvertakesRead'
  BY <1>1, WorkersDistinct
  DEF IInv, TypeOK, EndNeverOvertakesRead, NextWorkerInv,
      EndedMeansEnding, Unread, EndCompletes, native, js
<1>9. PendingCloseIsWaiting'
  BY <1>1, WorkersDistinct
  DEF IInv, TypeOK, PendingCloseIsWaiting, CloseWorkerInv, CreatedInv,
      EndCompletes, native, js
<1>10. CloseWaitsForIterators'
  BY <1>1, WorkersDistinct
  DEF IInv, TypeOK, CloseWaitsForIterators, PendingCloseIsWaiting,
      CloseWorkerInv, CreatedInv, EndCompletes, native, js
<1>. QED BY <1>2, <1>3, <1>4, <1>5, <1>6, <1>7, <1>8, <1>9, <1>10 DEF IInv

\* A close() completes.
LEMMA CloseCompletesPool ==
    ASSUME IInv, NEW c \in Closes, CloseCompletes(c)
    PROVE  /\ PoolTypeOK(Workers)' /\ PlacedOnce'
           /\ CloseWorker(c) \in InPool /\ InPool' = InPool \ {CloseWorker(c)}
           /\ Unexecuted' = Unexecuted
BY TakeFacts
DEF IInv, TypeOK, WorkerInOnePlace, CloseCompletes, Completing

LEMMA CloseCompletesKeepsInv ==
    ASSUME IInv, NEW c \in Closes, CloseCompletes(c)
    PROVE  IInv'
<1>1. /\ PoolTypeOK(Workers)' /\ PlacedOnce'
      /\ CloseWorker(c) \in InPool /\ InPool' = InPool \ {CloseWorker(c)}
      /\ Unexecuted' = Unexecuted
  BY CloseCompletesPool
<1>2. TypeOK'
  BY <1>1
  DEF IInv, TypeOK, CloseCompletes, db, native, js
<1>3. WorkerInOnePlace'
  BY <1>1, WorkersDistinct
  DEF IInv, TypeOK, WorkerInOnePlace, EndedMeansEnding, CloseWorkerInv,
      CloseCompletes, db, native, js
<1>4. CloseWorkerInv'
  BY <1>1, WorkersDistinct
  DEF IInv, TypeOK, CloseWorkerInv, WorkerInOnePlace, CloseCompletes, db,
      native, js
<1>5. PendingCloseIsWaiting'
  BY <1>1, WorkersDistinct
  DEF IInv, TypeOK, PendingCloseIsWaiting, CloseWorkerInv, CreatedInv,
      CloseCompletes, db, native, js
<1>6. CloseWaitsForIterators'
  BY <1>1, WorkersDistinct
  DEF IInv, TypeOK, CloseWaitsForIterators, PendingCloseIsWaiting,
      CloseWorkerInv, CreatedInv, CloseCompletes, db, native, js
<1>7. NextWorkerInv' /\ CreatedInv' /\ EndedMeansEnding' /\
      EndNeverOvertakesRead'
  BY <1>1, WorkersDistinct
  DEF IInv, TypeOK, NextWorkerInv, CreatedInv, EndedMeansEnding,
      EndNeverOvertakesRead, Unread, CloseCompletes, db, native, js
<1>. QED BY <1>2, <1>3, <1>4, <1>5, <1>6, <1>7 DEF IInv

\* iterator.end().
LEMMA EndPool ==
    ASSUME IInv, NEW i \in Ids, IteratorEnd(i)
    PROVE  /\ PoolTypeOK(Workers)' /\ PlacedOnce'
           /\ LET added == {EndWorker(j) : j \in {k \in {i} : ~ended[k] /\ ~nexting[k]}}
              IN  InPool' = InPool \cup added /\ Unexecuted' = Unexecuted \cup added
           /\ \A j \in Ids : EndWorker(j) \in InPool' <=>
                EndWorker(j) \in InPool \/ (j = i /\ ~ended[j] /\ ~nexting[j])
           /\ ended' = [j \in Ids |-> ended[j] \/ j \in {i}]
           /\ endWorker' = [j \in Ids |->
                endWorker[j] \/ (j \in {i} /\ ~ended[j] /\ nexting[j])]
           /\ endCallback' \in [Ids -> {"none", "caller", "empty"}]
<1>1. /\ NativeEnd({i}, "caller") /\ {i} \in SUBSET Ids
      /\ UNCHANGED <<running, executed, doneQueue>>
  BY DEF IteratorEnd
<1>. QED BY <1>1, NativeEndFacts DEF IInv

LEMMA EndKeepsInv ==
    ASSUME IInv, NEW i \in Ids, IteratorEnd(i)
    PROVE  IInv'
<1>1. /\ PoolTypeOK(Workers)' /\ PlacedOnce'
      /\ LET added == {EndWorker(j) : j \in {k \in {i} : ~ended[k] /\ ~nexting[k]}}
         IN  InPool' = InPool \cup added /\ Unexecuted' = Unexecuted \cup added
      /\ \A j \in Ids : EndWorker(j) \in InPool' <=>
           EndWorker(j) \in InPool \/ (j = i /\ ~ended[j] /\ ~nexting[j])
      /\ ended' = [j \in Ids |-> ended[j] \/ j \in {i}]
      /\ endWorker' = [j \in Ids |->
           endWorker[j] \/ (j \in {i} /\ ~ended[j] /\ nexting[j])]
      /\ endCallback' \in [Ids -> {"none", "caller", "empty"}]
  BY EndPool
<1>2. TypeOK'
  BY <1>1
  DEF IInv, TypeOK, IteratorEnd, db
<1>3. WorkerInOnePlace'
  BY <1>1, WorkersDistinct
  DEF IInv, TypeOK, WorkerInOnePlace, EndedMeansEnding, CloseWorkerInv,
      IteratorEnd, db
<1>4. NextWorkerInv'
  BY <1>1, WorkersDistinct
  DEF IInv, TypeOK, NextWorkerInv, Unread, IteratorEnd, db
<1>5. CreatedInv'
  BY <1>1, WorkersDistinct
  DEF IInv, TypeOK, CreatedInv, EndedMeansEnding, IteratorEnd, db
<1>6. CloseWorkerInv'
  BY <1>1, WorkersDistinct
  DEF IInv, TypeOK, CloseWorkerInv, WorkerInOnePlace, IteratorEnd, db
<1>7. EndedMeansEnding'
  <2>. SUFFICES ASSUME NEW j \in Ids
                PROVE  endWorker'[j] \/ EndWorker(j) \in InPool'
                         <=> ended'[j] /\ j \in iterators'
    BY DEF EndedMeansEnding
  <2>1. endWorker[j] \/ EndWorker(j) \in InPool <=> ended[j] /\ j \in iterators
    BY DEF IInv, EndedMeansEnding
  <2>2. iterators' = iterators
    BY DEF IteratorEnd, db
  <2>3. CASE j # i
    BY <1>1, <2>1, <2>2, <2>3
  <2>4. CASE j = i
    <3>1. ~ended[i] => i \in iterators
      BY DEF IInv, CreatedInv, IteratorEnd
    <3>. QED BY <1>1, <2>1, <2>2, <2>4, <3>1
  <2>. QED BY <2>3, <2>4
<1>8. EndNeverOvertakesRead'
  BY <1>1, WorkersDistinct
  DEF IInv, TypeOK, EndNeverOvertakesRead, NextWorkerInv,
      EndedMeansEnding, Unread, IteratorEnd, db
<1>9. PendingCloseIsWaiting'
  BY <1>1, WorkersDistinct
  DEF IInv, TypeOK, PendingCloseIsWaiting, CloseWorkerInv, CreatedInv,
      IteratorEnd, db
<1>10. CloseWaitsForIterators'
  BY <1>1, WorkersDistinct
  DEF IInv, TypeOK, CloseWaitsForIterators, PendingCloseIsWaiting,
      CloseWorkerInv, CreatedInv, IteratorEnd, db
<1>. QED BY <1>2, <1>3, <1>4, <1>5, <1>6, <1>7, <1>8, <1>9, <1>10 DEF IInv

\* db.close() with iterators registered: every one of them begins to end.
LEMMA ClosePool ==
    ASSUME IInv, NEW c \in Closes, DatabaseClose(c), iterators # {}
    PROVE  /\ PoolTypeOK(Workers)' /\ PlacedOnce'
           /\ LET added == {EndWorker(j) : j \in {k \in iterators : ~ended[k] /\ ~nexting[k]}}
              IN  InPool' = InPool \cup added /\ Unexecuted' = Unexecuted \cup added
           /\ \A j \in Ids : EndWorker(j) \in InPool' <=>
                EndWorker(j) \in InPool \/ (j \in iterators /\ ~ended[j] /\ ~nexting[j])
           /\ ended' = [j \in Ids |-> ended[j] \/ j \in iterators]
           /\ endWorker' = [j \in Ids |->
                endWorker[j] \/ (j \in iterators /\ ~ended[j] /\ nexting[j])]
           /\ endCallback' \in [Ids -> {"none", "caller", "empty"}]
<1>1. /\ NativeEnd(iterators, "empty") /\ iterators \in SUBSET Ids
      /\ UNCHANGED <<running, executed, doneQueue>>
  BY DEF DatabaseClose, IInv, TypeOK
<1>. QED BY <1>1, NativeEndFacts DEF IInv

LEMMA CloseKeepsInv ==
    ASSUME IInv, NEW c \in Closes, DatabaseClose(c), iterators # {}
    PROVE  IInv'
<1>1. /\ PoolTypeOK(Workers)' /\ PlacedOnce'
      /\ LET added == {EndWorker(j) : j \in {k \in iterators : ~ended[k] /\ ~nexting[k]}}
         IN  InPool' = InPool \cup added /\ Unexecuted' = Unexecuted \cup added
      /\ \A j \in Ids : EndWorker(j) \in InPool' <=>
           EndWorker(j) \in InPool \/ (j \in iterators /\ ~ended[j] /\ ~nexting[j])
      /\ ended' = [j \in Ids |-> ended[j] \/ j \in iterators]
      /\ endWorker' = [j \in Ids |->
           endWorker[j] \/ (j \in iterators /\ ~ended[j] /\ nexting[j])]
      /\ endCallback' \in [Ids -> {"none", "caller", "empty"}]
  BY ClosePool
<1>2. TypeOK'
  BY <1>1
  DEF IInv, TypeOK, DatabaseClose, js
<1>3. WorkerInOnePlace'
  BY <1>1, WorkersDistinct
  DEF IInv, TypeOK, WorkerInOnePlace, EndedMeansEnding, CloseWorkerInv,
      DatabaseClose, js
<1>4. NextWorkerInv'
  BY <1>1, WorkersDistinct
  DEF IInv, TypeOK, NextWorkerInv, Unread, DatabaseClose, js
<1>5. CreatedInv'
  BY <1>1, WorkersDistinct
  DEF IInv, TypeOK, CreatedInv, EndedMeansEnding, DatabaseClose, js
<1>6. CloseWorkerInv'
  BY <1>1, WorkersDistinct
  DEF IInv, TypeOK, CloseWorkerInv, WorkerInOnePlace, DatabaseClose, js
<1>7. EndedMeansEnding'
  BY <1>1, WorkersDistinct
  DEF IInv, TypeOK, EndedMeansEnding, CreatedInv, WorkerInOnePlace,
      DatabaseClose, js
<1>8. EndNeverOvertakesRead'
  BY <1>1, WorkersDistinct
  DEF IInv, TypeOK, EndNeverOvertakesRead, NextWorkerInv,
      EndedMeansEnding, Unread, DatabaseClose, js
<1>9. PendingCloseIsWaiting'
  BY <1>1, WorkersDistinct
  DEF IInv, TypeOK, PendingCloseIsWaiting, CloseWorkerInv, CreatedInv,
      DatabaseClose, js
<1>10. CloseWaitsForIterators'
  BY <1>1, WorkersDistinct
  DEF IInv, TypeOK, CloseWaitsForIterators, PendingCloseIsWaiting,
      CloseWorkerInv, CreatedInv, DatabaseClose, js
<1>. QED BY <1>2, <1>3, <1>4, <1>5, <1>6, <1>7, <1>8, <1>9, <1>10 DEF IInv

\* db.close() with no iterator registered.
LEMMA CloseAtOncePool ==
    ASSUME IInv, NEW c \in Closes, DatabaseClose(c), iterators = {}
    PROVE  /\ PoolTypeOK(Workers)' /\ PlacedOnce'
           /\ InPool' = InPool \cup {CloseWorker(c)}
           /\ Unexecuted' = Unexecuted \cup {CloseWorker(c)}
           /\ UNCHANGED <<ended, endWorker, endCallback, pendingCloseWorker>>
<1>1. /\ CloseWorker(c) \in Workers /\ CloseWorker(c) \notin InPool
      /\ AsyncQueueWorkers(<<CloseWorker(c)>>)
      /\ UNCHANGED <<running, executed, doneQueue>>
      /\ UNCHANGED <<ended, endWorker, endCallback, pendingCloseWorker>>
  BY WorkersDistinct DEF IInv, CloseWorkerInv, DatabaseClose
<1>2. QueueOne(CloseWorker(c))
  BY <1>1, QueueOneFacts
<1>. QED BY <1>1, <1>2 DEF QueueOne

LEMMA CloseAtOnceKeepsInv ==
    ASSUME IInv, NEW c \in Closes, DatabaseClose(c), iterators = {}
    PROVE  IInv'
<1>1. /\ PoolTypeOK(Workers)' /\ PlacedOnce'
      /\ InPool' = InPool \cup {CloseWorker(c)}
      /\ Unexecuted' = Unexecuted \cup {CloseWorker(c)}
      /\ UNCHANGED <<ended, endWorker, endCallback, pendingCloseWorker>>
  BY CloseAtOncePool
<1>2. TypeOK'
  BY <1>1
  DEF IInv, TypeOK, DatabaseClose, js
<1>3. WorkerInOnePlace'
  BY <1>1, WorkersDistinct
  DEF IInv, TypeOK, WorkerInOnePlace, EndedMeansEnding, CloseWorkerInv,
      DatabaseClose, js
<1>4. NextWorkerInv'
  BY <1>1, WorkersDistinct
  DEF IInv, TypeOK, NextWorkerInv, Unread, DatabaseClose, js
<1>5. CloseWorkerInv'
  BY <1>1, WorkersDistinct
  DEF IInv, TypeOK, CloseWorkerInv, WorkerInOnePlace, DatabaseClose, js
<1>6. EndedMeansEnding'
  BY <1>1, WorkersDistinct
  DEF IInv, TypeOK, EndedMeansEnding, CreatedInv, WorkerInOnePlace,
      DatabaseClose, js
<1>7. EndNeverOvertakesRead'
  BY <1>1, WorkersDistinct
  DEF IInv, TypeOK, EndNeverOvertakesRead, NextWorkerInv,
      EndedMeansEnding, Unread, DatabaseClose, js
<1>8. PendingCloseIsWaiting'
  BY <1>1, WorkersDistinct
  DEF IInv, TypeOK, PendingCloseIsWaiting, CloseWorkerInv, CreatedInv,
      DatabaseClose, js
<1>9. CloseWaitsForIterators'
  BY <1>1, WorkersDistinct
  DEF IInv, TypeOK, CloseWaitsForIterators, PendingCloseIsWaiting,
      CloseWorkerInv, CreatedInv, DatabaseClose, js
<1>10. CreatedInv'
  BY <1>1, WorkersDistinct
  DEF IInv, TypeOK, CreatedInv, DatabaseClose, js
<1>. QED BY <1>2, <1>3, <1>4, <1>5, <1>6, <1>7, <1>8, <1>9, <1>10 DEF IInv

\* A step that changes nothing.
LEMMA StutterKeepsInv ==
    ASSUME IInv, UNCHANGED vars
    PROVE  IInv'
<1>1. /\ PoolTypeOK(Workers)' /\ PlacedOnce'
      /\ InPool' = InPool /\ Unexecuted' = Unexecuted
  BY UnchangedFacts DEF IInv, TypeOK, WorkerInOnePlace, vars
<1>. QED
  BY <1>1 DEF IInv, TypeOK, WorkerInOnePlace, NextWorkerInv, CreatedInv,
      CloseWorkerInv, EndedMeansEnding, EndNeverOvertakesRead,
      PendingCloseIsWaiting, CloseWaitsForIterators, Unread,
      vars, db, native, js, calls

LEMMA InitInv == Init => IInv
<1>. SUFFICES ASSUME Init PROVE IInv
  OBVIOUS
<1>1. /\ PoolTypeOK(Workers) /\ PlacedOnce
      /\ InPool = {} /\ Unexecuted = {}
  BY RangeOfSmall DEF Init, PoolInit, PoolTypeOK, PlacedOnce, InPool, Unexecuted
<1>2. TypeOK
  BY <1>1 DEF Init, TypeOK
<1>3. WorkerInOnePlace /\ NextWorkerInv /\ CreatedInv /\ CloseWorkerInv
  BY <1>1 DEF Init, WorkerInOnePlace, NextWorkerInv, CreatedInv, CloseWorkerInv, Unread
<1>4. EndedMeansEnding /\ EndNeverOvertakesRead
  BY <1>1 DEF Init, EndedMeansEnding, EndNeverOvertakesRead
<1>5. PendingCloseIsWaiting /\ CloseWaitsForIterators
  BY <1>1 DEF Init, PendingCloseIsWaiting, CloseWaitsForIterators
<1>. QED BY <1>2, <1>3, <1>4, <1>5 DEF IInv

LEMMA NextKeepsInv == IInv /\ [Next]_vars => IInv'
<1>. SUFFICES ASSUME IInv, [Next]_vars PROVE IInv'
  OBVIOUS
<1>1. CASE DatabaseIterator
  BY <1>1, CreateKeepsInv
<1>2. ASSUME NEW i \in Ids, NextFromCache(i) PROVE IInv'
  BY <1>2, CachedNextKeepsInv
<1>3. ASSUME NEW i \in Ids, NextFromNative(i) PROVE IInv'
  BY <1>3, NativeNextKeepsInv
<1>4. ASSUME NEW i \in Ids, IteratorEnd(i) PROVE IInv'
  BY <1>4, EndKeepsInv
<1>5. ASSUME NEW i \in Ids, DeferredCallback(i) PROVE IInv'
  BY <1>5, CallbackKeepsInv
<1>6. ASSUME NEW c \in Closes, DatabaseClose(c) PROVE IInv'
  BY <1>6, CloseKeepsInv, CloseAtOnceKeepsInv
<1>7. CASE Start
  BY <1>7, StartKeepsInv
<1>8. ASSUME NEW i \in Ids, ExecuteNext(i) PROVE IInv'
  BY <1>8, ExecuteNextKeepsInv
<1>9. ASSUME NEW w \in OtherWorkers, ExecuteOther(w) PROVE IInv'
  BY <1>9, ExecuteOtherKeepsInv
<1>10. ASSUME NEW w \in Workers, Post(w) PROVE IInv'
  BY <1>10, PostKeepsInv
<1>11. ASSUME NEW i \in Ids, NextSucceeds(i) PROVE IInv'
  BY <1>11, NextSucceedsKeepsInv
<1>12. ASSUME NEW i \in Ids, NextFails(i) PROVE IInv'
  BY <1>12, NextFailsKeepsInv
<1>13. ASSUME NEW i \in Ids, EndCompletes(i) PROVE IInv'
  BY <1>13, EndCompletesKeepsInv
<1>14. ASSUME NEW c \in Closes, CloseCompletes(c) PROVE IInv'
  BY <1>14, CloseCompletesKeepsInv
<1>15. CASE UNCHANGED vars
  BY <1>15, StutterKeepsInv
<1>16. ASSUME NEW i \in Ids, IteratorNext(i) PROVE IInv'
  BY <1>16, IteratorNextKeepsInv
<1>17. ASSUME NEW i \in Ids, NextBringsNothing(i) PROVE IInv'
  BY <1>17, NextBringsNothingKeepsInv
<1>. QED
  BY <1>1, <1>2, <1>3, <1>4, <1>5, <1>6, <1>7, <1>8, <1>9, <1>10, <1>11,
     <1>12, <1>13, <1>14, <1>15, <1>16, <1>17 DEF Next, Complete

-----------------------------------------------------------------------------
(* The theorems *)

\* The inductive invariant holds in every state of every behaviour.
THEOREM Invariance == Spec => []IInv
BY InitInv, NextKeepsInv, PTL DEF Spec

\* Every variable keeps its type, and every queue holds workers.
THEOREM TypeCorrect == Spec => []TypeOK
<1>1. IInv => TypeOK
  BY DEF IInv
<1>. QED BY <1>1, Invariance, PTL

\* No worker is ever queued, running or posted twice (Nan::AsyncQueueWorker
\* in iterator.cc and database.cc).
THEOREM WorkerPlacedOnce == Spec => []WorkerInOnePlace
<1>1. IInv => WorkerInOnePlace
  BY DEF IInv
<1>. QED BY <1>1, Invariance, PTL

\* An ended iterator that is still registered has exactly one EndWorker
\* (database.cc, Close).
THEOREM EndedIsEnding == Spec => []EndedMeansEnding
<1>1. IInv => EndedMeansEnding
  BY DEF IInv
<1>. QED BY <1>1, Invariance, PTL

\* An iterator is never given up while IteratorNext may still read or write it.
THEOREM EndAfterRead == Spec => []EndNeverOvertakesRead
<1>1. IInv => EndNeverOvertakesRead
  BY DEF IInv
<1>. QED BY <1>1, Invariance, PTL

\* A close() that waits has an iterator to wait for (database.cc, Close and
\* ReleaseIterator).
THEOREM PendingCloseWaits == Spec => []PendingCloseIsWaiting
<1>1. IInv => PendingCloseIsWaiting
  BY DEF IInv
<1>. QED BY <1>1, Invariance, PTL

\* No close() calls back before the iterators it found are released.
THEOREM CloseAfterRelease == Spec => []CloseWaitsForIterators
<1>1. IInv => CloseWaitsForIterators
  BY DEF IInv
<1>. QED BY <1>1, Invariance, PTL

-----------------------------------------------------------------------------

\* The only steps that touch a stranded iterator's EndWorker or queue its
\* NextWorker are next() and the completion of a next(); neither can happen.
LEMMA StrandedStep ==
    ASSUME IInv, [Next]_vars, NEW i \in Ids, Stranded(i)
    PROVE  Stranded(i)'
<1>1. ended[i] /\ endWorker[i] /\ NextWorker(i) \notin InPool
  BY DEF IInv, EndedMeansEnding, Stranded
<1>2. IInv'
  BY NextKeepsInv
<1>3. nextCall[i] # "native"
  BY <1>1 DEF IInv, NextWorkerInv
<1>4. endWorker'[i]
  <2>1. ASSUME NEW j \in Ids, NextSucceeds(j) \/ NextBringsNothing(j)
        PROVE  endWorker'[i]
    <3>1. NextWorker(j) \in InPool
      BY <2>1 DEF IInv, TypeOK, NextSucceeds, NextBringsNothing, TakeDone, InPool,
           PoolTypeOK, Range
    <3>2. i # j
      BY <1>1, <3>1
    <3>3. endWorker' = [endWorker EXCEPT ![j] = FALSE]
      BY <2>1 DEF NextSucceeds, NextBringsNothing, CheckEndCallback
    <3>. QED BY <1>1, <3>2, <3>3 DEF IInv, TypeOK
  <2>2. ASSUME NEW j \in Ids, IteratorEnd(j) PROVE endWorker'[i]
    BY <1>1, <2>2 DEF IteratorEnd, NativeEnd
  <2>3. ASSUME NEW c \in Closes, DatabaseClose(c) PROVE endWorker'[i]
    BY <1>1, <2>3 DEF DatabaseClose, NativeEnd
  <2>4. ASSUME NEW j \in Ids, NextFails(j) \/ EndCompletes(j) \/ NextFromCache(j)
                 \/ NextFromNative(j) \/ DeferredCallback(j) \/ ExecuteNext(j)
                 \/ IteratorNext(j)
        PROVE  endWorker'[i]
    BY <1>1, <2>4 DEF NextFails, EndCompletes, NextFromCache, NextFromNative,
         DeferredCallback, ExecuteNext, IteratorNext, native
  <2>5. ASSUME NEW w, ExecuteOther(w) \/ Post(w) PROVE endWorker'[i]
    BY <1>1, <2>5 DEF ExecuteOther, Post, native
  <2>6. ASSUME NEW c \in Closes, CloseCompletes(c) PROVE endWorker'[i]
    BY <1>1, <2>6 DEF CloseCompletes, native
  <2>7. CASE DatabaseIterator \/ Start \/ UNCHANGED vars
    BY <1>1, <2>7 DEF DatabaseIterator, Start, vars, native
  <2>. QED
    BY <2>1, <2>2, <2>3, <2>4, <2>5, <2>6, <2>7 DEF Next, Complete
<1>5. nextCall'[i] # "native"
  <2>1. ASSUME NEW j \in Ids, NextFromNative(j) PROVE nextCall'[i] # "native"
    <3>1. i # j
      BY <1>1, <2>1 DEF NextFromNative, NextRefused
    <3>. QED BY <1>3, <2>1, <3>1 DEF IInv, TypeOK, NextFromNative
  <2>2. ASSUME NEW j \in Ids, NextSucceeds(j) \/ NextFails(j) \/ NextFromCache(j)
                 \/ NextBringsNothing(j) \/ DeferredCallback(j)
        PROVE  nextCall'[i] # "native"
    BY <1>3, <2>2 DEF IInv, TypeOK, NextSucceeds, NextFails, NextFromCache,
         NextBringsNothing, DeferredCallback, NextCallAfter
  <2>3. ASSUME NEW j \in Ids,
               EndCompletes(j) \/ IteratorEnd(j) \/ ExecuteNext(j) \/ IteratorNext(j)
        PROVE  nextCall'[i] # "native"
    BY <1>3, <2>3 DEF EndCompletes, IteratorEnd, ExecuteNext, IteratorNext, js
  <2>4. ASSUME NEW w, ExecuteOther(w) \/ Post(w) PROVE nextCall'[i] # "native"
    BY <1>3, <2>4 DEF ExecuteOther, Post, js
  <2>5. ASSUME NEW c \in Closes, CloseCompletes(c) \/ DatabaseClose(c)
        PROVE  nextCall'[i] # "native"
    BY <1>3, <2>5 DEF CloseCompletes, DatabaseClose, js
  <2>6. CASE DatabaseIterator \/ Start \/ UNCHANGED vars
    BY <1>3, <2>6 DEF DatabaseIterator, Start, vars, js
  <2>. QED
    BY <2>1, <2>2, <2>3, <2>4, <2>5, <2>6 DEF Next, Complete
<1>. QED BY <1>2, <1>4, <1>5 DEF IInv, NextWorkerInv, Stranded

\* An end() deferred with no next() left to queue it is never queued: what
\* the program and the pool do afterwards cannot bring it back.
THEOREM StrandedIsForever == Spec => StrandedForever
<1>1. IInv /\ [Next]_vars => [\A i \in Ids : Stranded(i) => Stranded(i)']_vars
  BY StrandedStep
<1>. QED BY <1>1, Invariance, PTL DEF Spec, StrandedForever

-----------------------------------------------------------------------------
(* No call is lost                                                           *)

\* The caller of end() is called back by the EndWorker of a registered
\* iterator, unless close() ended the iterator with its empty callback.
EndCallInv ==
    \A i \in Ids :
        /\ endCallback[i] = "none" <=> ~ended[i]
        /\ endCallback[i] = "caller" => jsEnded[i]
        /\ endCall[i] = "pending" => ended[i]
        /\ endCall[i] = "pending" /\ endCallback[i] = "caller" => i \in iterators

\* Reading to the end clears nexting for good, so that no end() waits any more.
FinishedInv ==
    \A i \in Ids :
        /\ result[i] = "eof" => ~nexting[i]
        /\ finished[i] => ~nexting[i] /\ ~endWorker[i] /\ nextCall[i] # "native"

\* A pending close() has its worker, waits, or was replaced by another.
CloseCallInv ==
    \A c \in Closes : closeCall[c] = "pending" =>
        CloseWorker(c) \in InPool \/ pendingCloseWorker = c \/ Superseded(c)

CallInv == EndCallInv /\ FinishedInv /\ CloseCallInv

LEMMA InitCallInv == Init => CallInv
<1>. SUFFICES ASSUME Init PROVE CallInv
  OBVIOUS
<1>1. EndCallInv /\ CloseCallInv
  BY DEF Init, EndCallInv, CloseCallInv
<1>2. FinishedInv
  BY DEF Init, FinishedInv
<1>. QED BY <1>1, <1>2 DEF CallInv

\* Iterator::End, for the callbacks: the first to end an iterator gives its own.
LEMMA NativeEndCallback ==
    ASSUME NEW S \in SUBSET Ids, NEW callback, NativeEnd(S, callback)
    PROVE  /\ endCallback' = [i \in Ids |-> IF i \in S /\ ~ended[i] THEN callback
                                                                  ELSE endCallback[i]]
           /\ ended' = [i \in Ids |-> ended[i] \/ i \in S]
           /\ endWorker' = [i \in Ids |-> endWorker[i] \/ (i \in S /\ ~ended[i] /\ nexting[i])]
BY DEF NativeEnd, EndIgnored, EndDeferred

\* The steps that neither complete a worker nor begin to close.
LEMMA CloseCallStays ==
    ASSUME CloseCallInv, InPool \subseteq InPool',
           UNCHANGED <<pendingCloseWorker, closeCall, replaced>>
    PROVE  CloseCallInv'
BY DEF CloseCallInv, Superseded

LEMMA CallStep ==
    ASSUME IInv, CallInv, [Next]_vars
    PROVE  CallInv'
<1>. USE DEF IInv, CallInv
<1>1. CASE DatabaseIterator
  <2>1. InPool' = InPool /\ Unexecuted' = Unexecuted
    BY <1>1, CreatePool
  <2>2. EndCallInv'
    BY <1>1 DEF EndCallInv, DatabaseIterator, native, js, calls
  <2>3. FinishedInv'
    BY <1>1, <2>1 DEF FinishedInv, Unread, DatabaseIterator, native, js, calls
  <2>4. CloseCallInv'
    BY <1>1, <2>1, CloseCallStays DEF DatabaseIterator, calls
  <2>. QED BY <2>2, <2>3, <2>4
<1>2. ASSUME NEW i \in Ids, NextFromCache(i) PROVE CallInv'
  <2>1. InPool' = InPool /\ Unexecuted' = Unexecuted
    BY <1>2, CachedNextPool
  <2>2. EndCallInv'
    BY <1>2 DEF EndCallInv, NextFromCache, db, native, calls
  <2>3. FinishedInv'
    BY <1>2, <2>1 DEF FinishedInv, Unread, NextFromCache, MayCallNext, TypeOK, db, native, calls
  <2>4. CloseCallInv'
    BY <1>2, <2>1, CloseCallStays DEF NextFromCache, db, calls
  <2>. QED BY <2>2, <2>3, <2>4
<1>3. ASSUME NEW i \in Ids, NextFromNative(i) PROVE CallInv'
  <2>1. /\ InPool' = InPool \cup {NextWorker(i)}
        /\ Unexecuted' = Unexecuted \cup {NextWorker(i)}
    BY <1>3, NativeNextPool
  <2>2. EndCallInv'
    BY <1>3 DEF EndCallInv, NextFromNative, db, calls
  <2>3. FinishedInv'
    BY <1>3, <2>1, WorkersDistinct
    DEF FinishedInv, NextWorkerInv, NextFromNative, MayCallNext, TypeOK, db, calls
  <2>4. CloseCallInv'
    BY <1>3, <2>1, CloseCallStays DEF NextFromNative, db, calls
  <2>. QED BY <2>2, <2>3, <2>4
<1>4. ASSUME NEW i \in Ids, IteratorEnd(i) PROVE CallInv'
  <2>1. InPool \subseteq InPool' /\ Unread' = Unread
    <3>1. LET now == {j \in {i} : ~ended[j] /\ ~nexting[j]}
          IN  /\ InPool' = InPool \cup {EndWorker(j) : j \in now}
              /\ Unexecuted' = Unexecuted \cup {EndWorker(j) : j \in now}
      BY <1>4, EndPool
    <3>2. result' = result
      BY <1>4 DEF IteratorEnd
    <3>. QED BY <3>1, <3>2, WorkersDistinct DEF Unread
  <2>2. /\ endCallback' = [j \in Ids |-> IF j \in {i} /\ ~ended[j] THEN "caller"
                                                                 ELSE endCallback[j]]
        /\ ended' = [j \in Ids |-> ended[j] \/ j \in {i}]
        /\ endWorker' = [j \in Ids |-> endWorker[j] \/ (j \in {i} /\ ~ended[j] /\ nexting[j])]
    <3>1. NativeEnd({i}, "caller") /\ {i} \in SUBSET Ids
      BY <1>4 DEF IteratorEnd
    <3>. QED BY <3>1, NativeEndCallback
  <2>3. EndCallInv'
    <3>1. /\ i \in iterators \/ ended[i]
          /\ endCall' = [endCall EXCEPT ![i] = "pending"]
          /\ jsEnded' = [jsEnded EXCEPT ![i] = TRUE]
          /\ ~jsEnded[i] /\ iterators' = iterators
      BY <1>4 DEF IteratorEnd, CreatedInv, db
    <3>2. /\ \A j \in Ids \ {i} :
               /\ endCallback'[j] = endCallback[j] /\ (ended'[j] <=> ended[j])
               /\ endCall'[j] = endCall[j] /\ (jsEnded'[j] <=> jsEnded[j])
          /\ ended'[i] /\ jsEnded'[i]
          /\ endCallback'[i] = IF ended[i] THEN endCallback[i] ELSE "caller"
      BY <2>2, <3>1 DEF TypeOK
    <3>. QED BY <3>1, <3>2 DEF EndCallInv
  <2>4. FinishedInv'
    BY <1>4, <2>1, <2>2 DEF FinishedInv, IteratorEnd, TypeOK
  <2>5. CloseCallInv'
    BY <1>4, <2>1, CloseCallStays DEF IteratorEnd, db
  <2>. QED BY <2>3, <2>4, <2>5
<1>5. ASSUME NEW i \in Ids, DeferredCallback(i) PROVE CallInv'
  <2>1. InPool' = InPool /\ Unexecuted' = Unexecuted
    BY <1>5, CallbackPool
  <2>2. EndCallInv'
    BY <1>5 DEF EndCallInv, DeferredCallback, db, native, calls
  <2>3. FinishedInv'
    BY <1>5, <2>1 DEF FinishedInv, Unread, DeferredCallback, TypeOK, native
  <2>4. CloseCallInv'
    BY <1>5, <2>1, CloseCallStays DEF DeferredCallback, db, calls
  <2>. QED BY <2>2, <2>3, <2>4
<1>6. ASSUME NEW c \in Closes, DatabaseClose(c) PROVE CallInv'
  <2>1. InPool \subseteq InPool' /\ Unread' = Unread
    <3>1. CASE iterators # {}
      <4>1. LET added == {EndWorker(j) : j \in {k \in iterators : ~ended[k] /\ ~nexting[k]}}
            IN  InPool' = InPool \cup added /\ Unexecuted' = Unexecuted \cup added
        BY <1>6, <3>1, ClosePool
      <4>2. iterators \subseteq Ids
        BY DEF TypeOK
      <4>. QED BY <1>6, <4>1, <4>2, WorkersDistinct DEF Unread, DatabaseClose
    <3>2. CASE iterators = {}
      <4>1. /\ InPool' = InPool \cup {CloseWorker(c)}
            /\ Unexecuted' = Unexecuted \cup {CloseWorker(c)}
        BY <1>6, <3>2, CloseAtOncePool
      <4>. QED BY <1>6, <4>1, WorkersDistinct DEF Unread, DatabaseClose
    <3>. QED BY <3>1, <3>2
  <2>2. /\ endCallback' = [j \in Ids |-> IF j \in iterators /\ ~ended[j] THEN "empty"
                                                                       ELSE endCallback[j]]
        /\ ended' = [j \in Ids |-> ended[j] \/ j \in iterators]
        /\ endWorker' = [j \in Ids |-> endWorker[j] \/ (j \in iterators /\ ~ended[j] /\ nexting[j])]
    <3>1. CASE iterators # {}
      BY <1>6, <3>1, NativeEndCallback DEF DatabaseClose, TypeOK
    <3>2. CASE iterators = {}
      BY <1>6, <3>2 DEF DatabaseClose, TypeOK
    <3>. QED BY <3>1, <3>2
  <2>3. EndCallInv'
    BY <1>6, <2>2 DEF EndCallInv, DatabaseClose, TypeOK, js
  <2>4. FinishedInv'
    BY <1>6, <2>1, <2>2 DEF FinishedInv, DatabaseClose, TypeOK, js
  <2>5. CloseCallInv'
    <3>. SUFFICES ASSUME NEW d \in Closes, closeCall'[d] = "pending"
                  PROVE  \/ CloseWorker(d) \in InPool' \/ pendingCloseWorker' = d
                         \/ Superseded(d)'
      BY DEF CloseCallInv
    <3>1. /\ closeCall[c] = "none"
          /\ closeCall' = [closeCall EXCEPT ![c] = "pending"]
          /\ iterators = {} => UNCHANGED <<pendingCloseWorker, replaced>>
          /\ iterators # {} =>
               replaced' = replaced \cup ({pendingCloseWorker} \ {NULL})
      BY <1>6 DEF DatabaseClose
    <3>2. CASE d = c
      <4>1. CASE iterators = {}
        BY <1>6, <3>2, <4>1, CloseAtOncePool
      <4>2. CASE iterators # {}
        BY <1>6, <3>2, <4>2 DEF DatabaseClose
      <4>. QED BY <4>1, <4>2
    <3>3. CASE d # c
      <4>1. closeCall[d] = "pending" /\ d # NULL
        BY <3>1, <3>3, LifecycleAssumption DEF TypeOK
      <4>2. CASE CloseWorker(d) \in InPool
        BY <2>1, <4>2
      <4>3. CASE Superseded(d)
        BY <3>1, <4>3 DEF Superseded
      <4>4. CASE pendingCloseWorker = d
        BY <3>1, <4>1, <4>4 DEF Superseded
      <4>. QED BY <4>1, <4>2, <4>3, <4>4 DEF CloseCallInv
    <3>. QED BY <3>2, <3>3
  <2>. QED BY <2>3, <2>4, <2>5
<1>7. CASE Start
  <2>1. InPool' = InPool /\ Unexecuted' = Unexecuted
    BY <1>7, StartPool
  <2>2. EndCallInv' /\ FinishedInv'
    BY <1>7, <2>1 DEF EndCallInv, FinishedInv, Unread, Start, db, native, js, calls
  <2>3. CloseCallInv'
    BY <1>7, <2>1, CloseCallStays DEF Start, db, calls
  <2>. QED BY <2>2, <2>3
<1>8. ASSUME NEW i \in Ids, ExecuteNext(i) PROVE CallInv'
  <2>1. InPool' = InPool
    BY <1>8, ExecuteNextPool
  <2>2. EndCallInv' /\ FinishedInv'
    BY <1>8 DEF EndCallInv, FinishedInv, ExecuteNext, db, native, js, calls
  <2>3. CloseCallInv'
    BY <1>8, <2>1, CloseCallStays DEF ExecuteNext, db, calls
  <2>. QED BY <2>2, <2>3
<1>9. ASSUME NEW w \in OtherWorkers, ExecuteOther(w) PROVE CallInv'
  <2>1. InPool' = InPool /\ Unread' \subseteq Unread
    BY <1>9, ExecuteOtherPool DEF Unread, ExecuteOther
  <2>2. EndCallInv' /\ FinishedInv'
    BY <1>9, <2>1 DEF EndCallInv, FinishedInv, ExecuteOther, db, native, js, calls
  <2>3. CloseCallInv'
    BY <1>9, <2>1, CloseCallStays DEF ExecuteOther, db, calls
  <2>. QED BY <2>2, <2>3
<1>10. ASSUME NEW w \in Workers, Post(w) PROVE CallInv'
  <2>1. InPool' = InPool /\ Unexecuted' = Unexecuted
    BY <1>10, PostPool
  <2>2. EndCallInv' /\ FinishedInv'
    BY <1>10, <2>1 DEF EndCallInv, FinishedInv, Unread, Post, db, native, js, calls
  <2>3. CloseCallInv'
    BY <1>10, <2>1, CloseCallStays DEF Post, db, calls
  <2>. QED BY <2>2, <2>3
<1>11. ASSUME NEW i \in Ids, NextSucceeds(i) PROVE CallInv'
  <2>1. /\ InPool' = (InPool \ {NextWorker(i)})
                       \cup (IF endWorker[i] THEN {EndWorker(i)} ELSE {})
        /\ NextWorker(i) \in InPool /\ NextWorker(i) \notin Unexecuted
        /\ Unexecuted' = Unexecuted \cup (IF endWorker[i] THEN {EndWorker(i)} ELSE {})
    BY <1>11, NextSucceedsPool
  <2>2. EndCallInv'
    BY <1>11 DEF EndCallInv, NextSucceeds, db, calls
  <2>3. FinishedInv'
    <3>2. /\ result' = [result EXCEPT ![i] = "none"]
          /\ nextCall' = [nextCall EXCEPT ![i] = "deferred"]
          /\ endWorker' = [endWorker EXCEPT ![i] = FALSE]
          /\ nexting' = nexting
      BY <1>11 DEF NextSucceeds, CheckEndCallback, NextCallAfter
    <3>3. finished'[i] => result[i] = "eof"
      BY <1>11 DEF NextSucceeds, TypeOK
    <3>4. \A j \in Ids \ {i} : finished'[j] <=> finished[j]
      BY <1>11 DEF NextSucceeds, TypeOK
    <3>. QED BY <3>2, <3>3, <3>4 DEF FinishedInv, TypeOK
  <2>4. CloseCallInv'
    <3>1. \A c \in Closes : CloseWorker(c) \in InPool => CloseWorker(c) \in InPool'
      BY <2>1, WorkersDistinct
    <3>2. UNCHANGED <<pendingCloseWorker, closeCall, replaced>>
      BY <1>11 DEF NextSucceeds, db, calls
    <3>. QED BY <3>1, <3>2 DEF CloseCallInv, Superseded
  <2>. QED BY <2>2, <2>3, <2>4
<1>12. ASSUME NEW i \in Ids, NextFails(i) PROVE CallInv'
  <2>1. /\ InPool' = InPool \ {NextWorker(i)}
        /\ NextWorker(i) \notin Unexecuted /\ Unexecuted' = Unexecuted
    BY <1>12, NextFailsPool
  <2>2. EndCallInv'
    BY <1>12 DEF EndCallInv, NextFails, db, native, calls
  <2>3. FinishedInv'
    BY <1>12, <2>1 DEF FinishedInv, Unread, NextFails, NextCallAfter, TypeOK, native
  <2>4. CloseCallInv'
    <3>1. \A c \in Closes : CloseWorker(c) \in InPool => CloseWorker(c) \in InPool'
      BY <2>1, WorkersDistinct
    <3>2. UNCHANGED <<pendingCloseWorker, closeCall, replaced>>
      BY <1>12 DEF NextFails, db, calls
    <3>. QED BY <3>1, <3>2 DEF CloseCallInv, Superseded
  <2>. QED BY <2>2, <2>3, <2>4
<1>13. ASSUME NEW i \in Ids, EndCompletes(i) PROVE CallInv'
  <2>1. /\ iterators' = iterators \ {i}
        /\ \/ /\ InPool' = InPool \ {EndWorker(i)}
              /\ Unexecuted' = Unexecuted
              /\ pendingCloseWorker' = pendingCloseWorker
           \/ /\ pendingCloseWorker \in Closes
              /\ InPool' = (InPool \ {EndWorker(i)})
                             \cup {CloseWorker(pendingCloseWorker)}
              /\ Unexecuted' = Unexecuted \cup {CloseWorker(pendingCloseWorker)}
    BY <1>13, EndCompletesPool
  <2>2. EndCallInv'
    BY <1>13, <2>1 DEF EndCallInv, EndCompletes, TypeOK, native, js
  <2>3. FinishedInv'
    BY <1>13 DEF FinishedInv, EndCompletes, native, js
  <2>4. CloseCallInv'
    <3>1. \A c \in Closes : CloseWorker(c) \in InPool => CloseWorker(c) \in InPool'
      BY <2>1, WorkersDistinct
    <3>2. \A c \in Closes : pendingCloseWorker = c =>
             pendingCloseWorker' = c \/ CloseWorker(c) \in InPool'
      BY <2>1
    <3>3. UNCHANGED <<closeCall, replaced>>
      BY <1>13 DEF EndCompletes
    <3>. QED BY <3>1, <3>2, <3>3 DEF CloseCallInv, Superseded
  <2>. QED BY <2>2, <2>3, <2>4
<1>14. ASSUME NEW c \in Closes, CloseCompletes(c) PROVE CallInv'
  <2>1. InPool' = InPool \ {CloseWorker(c)} /\ Unexecuted' = Unexecuted
    BY <1>14, CloseCompletesPool
  <2>2. EndCallInv' /\ FinishedInv'
    BY <1>14, <2>1 DEF EndCallInv, FinishedInv, Unread, CloseCompletes, db, native, js
  <2>3. CloseCallInv'
    <3>1. /\ closeCall' = [closeCall EXCEPT ![c] = "returned"]
          /\ UNCHANGED <<pendingCloseWorker, replaced>>
      BY <1>14 DEF CloseCompletes, db
    <3>2. ASSUME NEW d \in Closes, closeCall'[d] = "pending"
          PROVE  \/ CloseWorker(d) \in InPool' \/ pendingCloseWorker' = d
                 \/ Superseded(d)'
      <4>1. d # c /\ closeCall[d] = "pending"
        BY <3>1, <3>2 DEF TypeOK
      <4>. QED BY <2>1, <3>1, <4>1, WorkersDistinct DEF CloseCallInv, Superseded
    <3>. QED BY <3>2 DEF CloseCallInv
  <2>. QED BY <2>2, <2>3
<1>15. CASE UNCHANGED vars
  <2>1. InPool' = InPool /\ Unexecuted' = Unexecuted
    BY <1>15, UnchangedFacts DEF TypeOK, WorkerInOnePlace, vars
  <2>2. EndCallInv' /\ FinishedInv'
    BY <1>15, <2>1 DEF EndCallInv, FinishedInv, Unread, vars, db, native, js, calls
  <2>3. CloseCallInv'
    BY <1>15, <2>1, CloseCallStays DEF vars, db, calls
  <2>. QED BY <2>2, <2>3
<1>16. ASSUME NEW i \in Ids, IteratorNext(i) PROVE CallInv'
  <2>1. InPool' = InPool /\ NextWorker(i) \in InPool
    BY <1>16, IteratorNextPool
  <2>2. EndCallInv'
    BY <1>16 DEF EndCallInv, IteratorNext, db, js, calls
  <2>3. FinishedInv'
    <3>1. PICK outcome \in Outcomes, flag \in BOOLEAN :
             /\ result' = [result EXCEPT ![i] = outcome]
             /\ nexting' = [nexting EXCEPT ![i] = flag]
             /\ outcome = "eof" => ~flag
      BY <1>16, IteratorNextWrites
    <3>2. nextCall[i] = "native"
      BY <2>1 DEF NextWorkerInv
    <3>3. UNCHANGED <<nextCall, finished, endWorker>>
      BY <1>16 DEF IteratorNext, js
    <3>. QED BY <3>1, <3>2, <3>3 DEF FinishedInv, TypeOK
  <2>4. CloseCallInv'
    BY <1>16, <2>1, CloseCallStays DEF IteratorNext, db, calls
  <2>. QED BY <2>2, <2>3, <2>4
<1>17. ASSUME NEW i \in Ids, NextBringsNothing(i) PROVE CallInv'
  <2>1. EndCallInv'
    BY <1>17 DEF EndCallInv, NextBringsNothing, db, calls
  <2>2. \A c \in Closes : CloseWorker(c) \in InPool => CloseWorker(c) \in InPool'
    <3>1. CASE ended[i]
      <4>1. InPool' = (InPool \ {NextWorker(i)})
                        \cup (IF endWorker[i] THEN {EndWorker(i)} ELSE {})
        BY <1>17, <3>1, RefusedPool
      <4>. QED BY <4>1, WorkersDistinct
    <3>2. CASE ~ended[i]
      BY <1>17, <3>2, CalledOncePool
    <3>. QED BY <3>1, <3>2
  <2>3. FinishedInv'
    <3>1. /\ result' = [result EXCEPT ![i] = "none"]
          /\ finished' = [finished EXCEPT ![i] = FALSE]
          /\ endWorker' = [endWorker EXCEPT ![i] = FALSE]
          /\ \A j \in Ids \ {i} : (nexting'[j] <=> nexting[j]) /\ nextCall'[j] = nextCall[j]
      BY <1>17 DEF NextBringsNothing, CheckEndCallback, TypeOK
    <3>. QED BY <3>1 DEF FinishedInv, TypeOK
  <2>4. CloseCallInv'
    <3>1. UNCHANGED <<pendingCloseWorker, closeCall, replaced>>
      BY <1>17 DEF NextBringsNothing, db, calls
    <3>. QED BY <2>2, <3>1 DEF CloseCallInv, Superseded
  <2>. QED BY <2>1, <2>3, <2>4
<1>. QED
  BY <1>1, <1>2, <1>3, <1>4, <1>5, <1>6, <1>7, <1>8, <1>9, <1>10, <1>11,
     <1>12, <1>13, <1>14, <1>15, <1>16, <1>17 DEF Next, Complete

\* With an empty pool the invariants leave only what the code gives up.
LEMMA QuietFacts == IInv /\ CallInv => NoCallIsLost
<1>. SUFFICES ASSUME IInv, CallInv, InPool = {}
              PROVE  /\ \A i \in Ids : nextCall[i] # "native"
                     /\ \A i \in Ids : endCall[i] = "pending" =>
                          (Stranded(i) /\ ~finished[i]) \/ EndedByClose(i)
                     /\ \A c \in Closes : closeCall[c] = "pending" =>
                          \/ Superseded(c)
                          \/ \E i \in iterators :
                               Stranded(i) \/ (i >= closeMark[c] /\ ~ended[i])
  BY DEF NoCallIsLost
<1>1. \A i \in Ids : nextCall[i] # "native"
  BY DEF IInv, NextWorkerInv
<1>2. \A i \in Ids : ended[i] /\ i \in iterators => Stranded(i)
  BY DEF IInv, EndedMeansEnding, Stranded
<1>3. ASSUME NEW i \in Ids, endCall[i] = "pending"
      PROVE  (Stranded(i) /\ ~finished[i]) \/ EndedByClose(i)
  <2>1. ended[i] /\ endCallback[i] \in {"caller", "empty"}
    BY <1>3 DEF IInv, TypeOK, CallInv, EndCallInv
  <2>2. CASE endCallback[i] = "caller"
    <3>1. Stranded(i)
      BY <1>2, <1>3, <2>1, <2>2 DEF CallInv, EndCallInv
    <3>2. ~finished[i]
      BY <3>1 DEF CallInv, FinishedInv, Stranded
    <3>. QED BY <3>1, <3>2
  <2>. QED BY <2>1, <2>2 DEF EndedByClose
<1>4. ASSUME NEW c \in Closes, closeCall[c] = "pending", ~Superseded(c)
      PROVE  \E i \in iterators : Stranded(i) \/ (i >= closeMark[c] /\ ~ended[i])
  <2>1. pendingCloseWorker = c /\ c # NULL
    BY <1>4 DEF CallInv, CloseCallInv
  <2>2. PICK i \in iterators : TRUE
    BY <2>1 DEF IInv, PendingCloseIsWaiting
  <2>3. i \in Ids
    BY DEF IInv, TypeOK
  <2>4. ended[i] => Stranded(i)
    BY <1>2, <2>3
  <2>5. ~ended[i] => i >= closeMark[c]
    <3>1. i < closeMark[c] => ended[i]
      BY <1>4 DEF IInv, PendingCloseIsWaiting
    <3>2. i \in Int /\ closeMark[c] \in Int
      BY <2>3 DEF IInv, TypeOK
    <3>. QED BY <3>1, <3>2
  <2>. QED BY <2>4, <2>5
<1>. QED BY <1>1, <1>3, <1>4

\* Nothing is forgotten: once the pool has run dry, only an end() that was
\* stranded or overtaken by close(), and a close() that was replaced or has
\* such an iterator to wait for, are still without their callback.
THEOREM NoCallLost == Spec => []NoCallIsLost
<1>1. Init => CallInv
  BY InitCallInv
<1>2. IInv /\ CallInv /\ [Next]_vars => CallInv'
  BY CallStep
<1>3. Spec => []CallInv
  BY <1>1, <1>2, Invariance, PTL DEF Spec
<1>. QED BY <1>3, QuietFacts, Invariance, PTL

-----------------------------------------------------------------------------
(* IteratorLifecycle implements IteratorContract: every step of the code is  *)
(* one the contract allows, or changes nothing the contract sees.            *)

USE LifecycleAssumption DEF Ids, Created

\* A step that leaves alone everything the contract sees.
LEMMA InvisibleStep ==
    ASSUME IInv, Unread' = Unread,
           UNCHANGED <<iterators, currentIteratorId, ended, closeCall, closeMark>>
    PROVE  UNCHANGED Contract!vars
BY DEF Contract!vars

LEMMA CreateRefines ==
    ASSUME IInv, DatabaseIterator
    PROVE  Contract!Create
<1>1. Unread' = Unread
  BY CreatePool DEF Unread, DatabaseIterator
<1>2. currentIteratorId \notin iterators /\ ~ended[currentIteratorId]
  BY DEF IInv, TypeOK, CreatedInv, DatabaseIterator
<1>3. {i \in iterators : ended[i]}' = {i \in iterators : ended[i]}
  BY <1>2 DEF DatabaseIterator, native
<1>4. [c \in Closes |-> {i \in iterators : i < closeMark[c]}]'
        = [c \in Closes |-> {i \in iterators : i < closeMark[c]}]
  <2>1. \A c \in Closes : closeMark[c] <= currentIteratorId /\ closeMark[c] \in Nat
    BY DEF IInv, TypeOK, CloseWorkerInv
  <2>2. \A c \in Closes : ~(currentIteratorId < closeMark[c])
    BY <2>1 DEF IInv, TypeOK
  <2>. QED BY <2>2 DEF DatabaseIterator, calls
<1>. QED BY <1>1, <1>3, <1>4 DEF Contract!Create, DatabaseIterator, calls

LEMMA NativeNextRefines ==
    ASSUME IInv, NEW i \in Ids, NextFromNative(i)
    PROVE  Contract!StartRead(i)
<1>1. Unread' = Unread \cup {i}
  <2>1. result[i] = "none" /\ result' = result
    BY DEF IInv, NextWorkerInv, NextFromNative, MayCallNext
  <2>. QED BY <2>1, NativeNextPool, WorkersDistinct DEF Unread
<1>2. i \in iterators /\ ~ended[i] /\ i \notin Unread
  <2>1. ~ended[i] /\ nextCall[i] = "idle" /\ Created(i)
    BY DEF NextFromNative, MayCallNext, NextRefused
  <2>2. NextWorker(i) \notin InPool
    BY <2>1 DEF IInv, NextWorkerInv
  <2>. QED BY <2>1, <2>2 DEF IInv, CreatedInv, Unread, InPool, Unexecuted
<1>. QED BY <1>1, <1>2 DEF Contract!StartRead, NextFromNative, db, calls

LEMMA IteratorNextRefines ==
    ASSUME IInv, NEW i \in Ids, IteratorNext(i)
    PROVE  Contract!FinishRead(i)
<1>1. PICK outcome \in Outcomes :
         result[i] = "none" /\ result' = [result EXCEPT ![i] = outcome]
  BY IteratorNextWrites
<1>2. NextWorker(i) \in Unexecuted /\ Unexecuted' = Unexecuted
  BY IteratorNextPool
<1>3. i \in Unread /\ Unread' = Unread \ {i}
  BY <1>1, <1>2 DEF IInv, TypeOK, Unread, Outcomes
<1>. QED BY <1>3 DEF Contract!FinishRead, IteratorNext, db, calls

LEMMA NextBringsNothingRefines ==
    ASSUME IInv, NEW i \in Ids, NextBringsNothing(i)
    PROVE  Contract!StartRead(i) \/ UNCHANGED Contract!vars
<1>1. UNCHANGED <<iterators, currentIteratorId, ended, closeCall, closeMark>>
  BY DEF NextBringsNothing, db, calls
<1>2. CASE ended[i]
  <2>1. Unread' = Unread
    BY <1>2, RefusedPool
  <2>. QED BY <1>1, <2>1, InvisibleStep
<1>3. CASE ~ended[i]
  <2>1. i \in iterators /\ i \notin Unread /\ Unread' = Unread \cup {i}
    BY <1>3, CalledOncePool
  <2>. QED BY <1>1, <1>3, <2>1 DEF Contract!StartRead
<1>. QED BY <1>2, <1>3

LEMMA EndRefines ==
    ASSUME IInv, NEW i \in Ids, IteratorEnd(i)
    PROVE  Contract!BeginEnd(i) \/ UNCHANGED Contract!vars
<1>1. Unread' = Unread
  <2>1. \A j \in Ids : NextWorker(j) \in Unexecuted' <=> NextWorker(j) \in Unexecuted
    BY EndPool, WorkersDistinct
  <2>. QED BY <2>1 DEF Unread, IteratorEnd
<1>2. /\ ended' = [j \in Ids |-> ended[j] \/ j = i]
      /\ UNCHANGED <<iterators, currentIteratorId, closeCall, closeMark>>
  <2>1. ended' = [j \in Ids |-> ended[j] \/ j \in {i}]
    BY EndPool
  <2>2. ended' = [j \in Ids |-> ended[j] \/ j = i]
    BY <2>1
  <2>. QED BY <2>2 DEF IteratorEnd, db
<1>3. iterators \subseteq Ids /\ ended \in [Ids -> BOOLEAN]
  BY DEF IInv, TypeOK
<1>4. CASE ended[i]
  <2>1. ended' = ended
    BY <1>2, <1>3, <1>4
  <2>. QED BY <1>1, <1>2, <2>1, InvisibleStep
<1>5. CASE ~ended[i]
  <2>1. i \in iterators
    BY <1>5 DEF IInv, CreatedInv, IteratorEnd
  <2>2. {j \in iterators : ended[j]}' = {j \in iterators : ended[j]} \cup {i}
    BY <1>2, <1>3, <2>1
  <2>. QED BY <1>1, <1>2, <1>5, <2>1, <2>2 DEF Contract!BeginEnd
<1>. QED BY <1>4, <1>5

LEMMA EndCompletesRefines ==
    ASSUME IInv, NEW i \in Ids, EndCompletes(i)
    PROVE  Contract!Release(i)
<1>1. /\ i \in iterators /\ iterators' = iterators \ {i}
      /\ EndWorker(i) \in InPool
      /\ Unread' = Unread
  BY EndCompletesPool, WorkersDistinct DEF Unread, EndCompletes
<1>2. ended[i] /\ i \notin Unread
  BY <1>1 DEF IInv, EndedMeansEnding, EndNeverOvertakesRead
<1>3. UNCHANGED <<currentIteratorId, ended, closeCall, closeMark>>
  BY DEF EndCompletes, native
<1>4. {j \in iterators : ended[j]}' = {j \in iterators : ended[j]} \ {i}
  BY <1>1, <1>3
<1>5. [c \in Closes |-> {j \in iterators : j < closeMark[c]}]'
        = [c \in Closes |->
             [d \in Closes |-> {j \in iterators : j < closeMark[d]}][c] \ {i}]
  BY <1>1, <1>3
<1>. QED BY <1>1, <1>2, <1>3, <1>4, <1>5 DEF Contract!Release

LEMMA CloseRefines ==
    ASSUME IInv, NEW c \in Closes, DatabaseClose(c)
    PROVE  Contract!CallClose(c)
<1>1. /\ closeCall[c] = "none" /\ closeCall' = [closeCall EXCEPT ![c] = "pending"]
      /\ closeMark' = [closeMark EXCEPT ![c] = currentIteratorId]
      /\ UNCHANGED <<iterators, currentIteratorId>>
  BY DEF DatabaseClose
<1>2. Unread' = Unread
  <2>1. CASE iterators = {}
    BY <2>1, CloseAtOncePool, WorkersDistinct DEF Unread, DatabaseClose
  <2>2. CASE iterators # {}
    <3>. DEFINE added == {EndWorker(j) : j \in {k \in iterators : ~ended[k] /\ ~nexting[k]}}
    <3>1. Unexecuted' = Unexecuted \cup added
      BY <2>2, ClosePool
    <3>2. \A j \in Ids : NextWorker(j) \notin added
      BY WorkersDistinct DEF IInv, TypeOK
    <3>. QED BY <3>1, <3>2 DEF Unread, DatabaseClose
  <2>. QED BY <2>1, <2>2
<1>3. {i \in iterators : ended[i]}' = iterators
  <2>1. CASE iterators = {}
    BY <1>1, <2>1
  <2>2. CASE iterators # {}
    BY <1>1, <2>2, ClosePool DEF IInv, TypeOK
  <2>. QED BY <2>1, <2>2
<1>4. [d \in Closes |-> {i \in iterators : i < closeMark[d]}]'
        = [[d \in Closes |-> {i \in iterators : i < closeMark[d]}]
             EXCEPT ![c] = iterators]
  <2>1. \A i \in iterators : i < currentIteratorId
    BY DEF IInv, CreatedInv
  <2>2. closeMark \in [Closes -> 0 .. MaxIterators]
    BY DEF IInv, TypeOK
  <2>. QED BY <1>1, <2>1, <2>2
<1>. QED BY <1>1, <1>2, <1>3, <1>4 DEF Contract!CallClose

LEMMA CloseCompletesRefines ==
    ASSUME IInv, NEW c \in Closes, CloseCompletes(c)
    PROVE  Contract!ReturnClose(c)
<1>1. CloseWorker(c) \in InPool /\ Unread' = Unread
  BY CloseCompletesPool DEF Unread, CloseCompletes
<1>2. closeCall[c] = "pending"
  BY <1>1 DEF IInv, CloseWorkerInv
<1>3. {i \in iterators : i < closeMark[c]} = {}
  <2>1. \A i \in iterators : i >= closeMark[c]
    BY <1>1 DEF IInv, CloseWaitsForIterators
  <2>2. closeMark[c] \in Nat /\ iterators \subseteq Nat
    BY DEF IInv, TypeOK
  <2>3. \A i \in iterators : ~(i < closeMark[c])
    BY <2>1, <2>2
  <2>. QED BY <2>3
<1>. QED BY <1>1, <1>2, <1>3 DEF Contract!ReturnClose, CloseCompletes, db, native

\* The remaining actions change nothing the contract sees.
LEMMA OthersAreInvisible ==
    ASSUME IInv,
           \/ \E i \in Ids : NextFromCache(i) \/ DeferredCallback(i)
                               \/ ExecuteNext(i) \/ NextSucceeds(i) \/ NextFails(i)
           \/ Start
           \/ \E w \in OtherWorkers : ExecuteOther(w)
           \/ \E w \in Workers : Post(w)
           \/ UNCHANGED vars
    PROVE  UNCHANGED Contract!vars
<1>1. ASSUME NEW i \in Ids, NextFromCache(i) PROVE UNCHANGED Contract!vars
  BY <1>1, CachedNextPool, InvisibleStep DEF Unread, NextFromCache, db, native, calls
<1>2. ASSUME NEW i \in Ids, DeferredCallback(i) PROVE UNCHANGED Contract!vars
  BY <1>2, CallbackPool, InvisibleStep DEF Unread, DeferredCallback, db, native, calls
<1>3. ASSUME NEW i \in Ids, NextSucceeds(i) PROVE UNCHANGED Contract!vars
  <2>1. Unread' = Unread
    <3>1. \A j \in Ids : NextWorker(j) \in Unexecuted' <=> NextWorker(j) \in Unexecuted
      BY <1>3, NextSucceedsPool, WorkersDistinct
    <3>2. NextWorker(i) \notin Unexecuted
      BY <1>3, NextSucceedsPool
    <3>3. result' = [result EXCEPT ![i] = "none"] /\ DOMAIN result = Ids
      BY <1>3 DEF IInv, TypeOK, NextSucceeds
    <3>. QED BY <3>1, <3>2, <3>3 DEF Unread
  <2>. QED BY <1>3, <2>1, InvisibleStep DEF NextSucceeds, db, calls
<1>4. ASSUME NEW i \in Ids, NextFails(i) PROVE UNCHANGED Contract!vars
  <2>1. Unread' = Unread
    BY <1>4, NextFailsPool DEF IInv, TypeOK, Unread, NextFails
  <2>. QED BY <1>4, <2>1, InvisibleStep DEF NextFails, db, native, calls
<1>5. CASE Start
  BY <1>5, StartPool, InvisibleStep DEF Unread, Start, db, native, calls
<1>6. ASSUME NEW w \in OtherWorkers, ExecuteOther(w) PROVE UNCHANGED Contract!vars
  <2>1. Unread' = Unread
    BY <1>6, ExecuteOtherPool, WorkersDistinct DEF Unread, OtherWorkers, ExecuteOther
  <2>. QED BY <1>6, <2>1, InvisibleStep DEF ExecuteOther, db, native, calls
<1>7. ASSUME NEW w \in Workers, Post(w) PROVE UNCHANGED Contract!vars
  BY <1>7, PostPool, InvisibleStep DEF Unread, Post, db, native, calls
<1>8. CASE UNCHANGED vars
  <2>1. Unread' = Unread
    BY <1>8, UnchangedFacts DEF IInv, TypeOK, WorkerInOnePlace, Unread, vars
  <2>. QED BY <1>8, <2>1, InvisibleStep DEF vars, db, native, calls
<1>9. ASSUME NEW i \in Ids, ExecuteNext(i) PROVE UNCHANGED Contract!vars
  BY <1>9, ExecuteNextPool, InvisibleStep DEF ExecuteNext, db, native, calls
<1>. QED BY <1>1, <1>2, <1>3, <1>4, <1>5, <1>6, <1>7, <1>8, <1>9

LEMMA StepRefines ==
    ASSUME IInv, [Next]_vars
    PROVE  [Contract!Next]_(Contract!vars)
<1>1. CASE DatabaseIterator
  BY <1>1, CreateRefines DEF Contract!Next
<1>2. ASSUME NEW i \in Ids,
             \/ NextFromNative(i) \/ IteratorNext(i) \/ NextBringsNothing(i)
             \/ IteratorEnd(i) \/ EndCompletes(i)
      PROVE  [Contract!Next]_(Contract!vars)
  BY <1>2, NativeNextRefines, IteratorNextRefines, NextBringsNothingRefines,
     EndRefines, EndCompletesRefines
     DEF Contract!Next
<1>3. ASSUME NEW c \in Closes, DatabaseClose(c) \/ CloseCompletes(c)
      PROVE  [Contract!Next]_(Contract!vars)
  BY <1>3, CloseRefines, CloseCompletesRefines DEF Contract!Next
<1>. QED BY <1>1, <1>2, <1>3, OthersAreInvisible DEF Next, Complete

LEMMA InitRefines == Init => Contract!Init
<1>. SUFFICES ASSUME Init PROVE Contract!Init
  OBVIOUS
<1>1. Unread = {}
  BY RangeOfSmall DEF Init, PoolInit, Unread, Unexecuted
<1>. QED BY <1>1 DEF Init, Contract!Init

\* Whatever the pool does and whenever the program calls next(), end() and
\* close(), an iterator is released once, never under a read, and a close()
\* calls back only when the iterators it found are gone.
THEOREM Refinement == Spec => ImplementsContract
BY InitRefines, StepRefines, Invariance, PTL DEF Spec, ImplementsContract, Contract!Spec

=============================================================================
