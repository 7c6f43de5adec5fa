-------------------------- MODULE IteratorLifecycle --------------------------
(***************************************************************************)
(* Iterators from db.iterator() to the callbacks of iterator.end() and     *)
(* db.close(): iterator.js over the native Iterator (iterator.cc), its     *)
(* NextWorker and EndWorker (iterator_async.cc), the Database's registry   *)
(* of iterators and its pendingCloseWorker (database.cc).                  *)
(*                                                                         *)
(* The rows themselves are abstracted: IteratorNext returns with rows,     *)
(* with no row and more to come, at the end of the data, or with an error, *)
(* and what matters here is what each outcome does to the flags.           *)
(* IteratorScan models the rows, and so which outcomes can follow which;   *)
(* here every order is possible.                                           *)
(***************************************************************************)
EXTENDS AsyncWork

CONSTANTS
    MaxIterators,         \* bound: how many iterators are created
    Closes,               \* the calls of db.close()
    BatchRows,            \* bound: rows one native next() brings to the cache
    HighWaterMarks,       \* the highWaterMarks each iterator may be created with
    NULL                  \* the C++ null pointer

ASSUME LifecycleAssumption ==
    /\ MaxIterators \in Nat
    /\ BatchRows \in Nat \ {0}
    /\ HighWaterMarks \in [0 .. MaxIterators - 1 -> SUBSET {0, 1}]
    /\ NULL \notin Closes

Ids == 0 .. MaxIterators - 1

VARIABLES
    \* Database, database.h
    iterators,            \* ids registered in the map
    currentIteratorId,    \* the next id
    pendingCloseWorker,   \* the close whose worker waits for the iterators
    \* native Iterator, iterator.h
    nexting,
    ended,
    endWorker,            \* TRUE when the pointer holds a deferred EndWorker
    endCallback,          \* whose callback the EndWorker was given
    scanner,              \* "none", "open", or "failed": iteratorStatus bad
    highWaterMark,        \* the option: 0, or 1 for any other
    \* NextWorker, iterator_async.h
    result,               \* what IteratorNext left: ok, status and rows
    \* AbstractIterator and iterator.js
    jsEnded,              \* _ended
    nextCall,             \* _nexting, and what the call waits for
    cache,                \* how many rows are left in it
    finished,
    \* callers
    endCall,              \* what became of the caller's end()
    closeCall,            \* what became of each close()
    closeMark,            \* history: ids given out when close() was called
    replaced              \* history: the closes another close() replaced

db     == <<iterators, currentIteratorId, pendingCloseWorker>>
native == <<nexting, ended, endWorker, endCallback, scanner, highWaterMark>>
js     == <<jsEnded, nextCall, cache, finished>>
calls  == <<endCall, closeCall, closeMark, replaced>>

vars == <<pool, db, native, result, js, calls>>

NextWorker(i)  == <<"next", i>>
EndWorker(i)   == <<"end", i>>
CloseWorker(c) == <<"close", c>>

NextWorkers  == {NextWorker(i) : i \in Ids}
OtherWorkers == {EndWorker(i) : i \in Ids} \cup {CloseWorker(c) : c \in Closes}
Workers      == NextWorkers \cup OtherWorkers

Outcomes == {"rows", "empty", "eof", "error", "openError"}

TypeOK ==
    /\ PoolTypeOK(Workers)
    /\ iterators \subseteq Ids
    /\ currentIteratorId \in 0 .. MaxIterators
    /\ pendingCloseWorker \in Closes \cup {NULL}
    /\ nexting \in [Ids -> BOOLEAN]
    /\ ended \in [Ids -> BOOLEAN]
    /\ endWorker \in [Ids -> BOOLEAN]
    /\ endCallback \in [Ids -> {"none", "caller", "empty"}]
    /\ scanner \in [Ids -> {"none", "open", "failed"}]
    /\ highWaterMark \in [Ids -> {0, 1}]
    /\ result \in [Ids -> Outcomes \cup {"none"}]
    /\ jsEnded \in [Ids -> BOOLEAN]
    /\ nextCall \in [Ids -> {"idle", "native", "deferred"}]
    /\ cache \in [Ids -> 0 .. BatchRows]
    /\ finished \in [Ids -> BOOLEAN]
    /\ endCall \in [Ids -> {"none", "pending", "returned"}]
    /\ closeCall \in [Closes -> {"none", "pending", "returned"}]
    /\ closeMark \in [Closes -> 0 .. MaxIterators]
    /\ replaced \subseteq Closes

Init ==
    /\ PoolInit
    /\ iterators = {}
    /\ currentIteratorId = 0
    /\ pendingCloseWorker = NULL
    /\ nexting = [i \in Ids |-> FALSE]
    /\ ended = [i \in Ids |-> FALSE]
    /\ endWorker = [i \in Ids |-> FALSE]
    /\ endCallback = [i \in Ids |-> "none"]
    /\ scanner = [i \in Ids |-> "none"]
    /\ highWaterMark = [i \in Ids |-> 1]
    /\ result = [i \in Ids |-> "none"]
    /\ jsEnded = [i \in Ids |-> FALSE]
    /\ nextCall = [i \in Ids |-> "idle"]
    /\ cache = [i \in Ids |-> 0]
    /\ finished = [i \in Ids |-> FALSE]
    /\ endCall = [i \in Ids |-> "none"]
    /\ closeCall = [c \in Closes |-> "none"]
    /\ closeMark = [c \in Closes |-> 0]
    /\ replaced = {}

-----------------------------------------------------------------------------
(* The main thread: calls from the program *)

Created(i) == i < currentIteratorId

\* db.iterator(options): a fresh id, a fresh object, registered under that id.
DatabaseIterator ==
    /\ currentIteratorId < MaxIterators
    /\ iterators' = iterators \cup {currentIteratorId}
    /\ currentIteratorId' = currentIteratorId + 1
    /\ \E mark \in HighWaterMarks[currentIteratorId] :
         highWaterMark' = [highWaterMark EXCEPT ![currentIteratorId] = mark]
    /\ UNCHANGED <<pool, pendingCloseWorker, nexting, ended, endWorker, endCallback,
                   scanner, result, js, calls>>

\* AbstractIterator answers a call after end(), or during another next(),
\* with an error and changes nothing.
MayCallNext(i) == Created(i) /\ ~jsEnded[i] /\ nextCall[i] = "idle"

CacheHit_OffByOne(i) == cache[i] >= 0
CacheHit(i)          == cache[i] > 0

\* iterator.next() answered from the cache, or at the known end of the data.
NextFromCache(i) ==
    /\ MayCallNext(i)
    /\ \/ CacheHit(i) /\ cache' = [cache EXCEPT ![i] = @ - 1]
       \/ ~CacheHit(i) /\ finished[i] /\ UNCHANGED cache
    /\ nextCall' = [nextCall EXCEPT ![i] = "deferred"]
    /\ UNCHANGED <<pool, db, native, result, jsEnded, finished, calls>>

NextRefused_Unchecked(i) == FALSE
NextRefused(i)           == ended[i]

\* iterator.next() with an empty cache.  On an iterator that db.close() ended
\* the native call answers "iterator has ended" at once: no state changes.
NextFromNative(i) ==
    /\ MayCallNext(i)
    /\ ~CacheHit(i)
    /\ ~finished[i]
    /\ ~NextRefused(i)
    /\ nexting' = [nexting EXCEPT ![i] = TRUE]
    /\ AsyncQueueWorkers(<<NextWorker(i)>>)
    /\ nextCall' = [nextCall EXCEPT ![i] = "native"]
    /\ UNCHANGED <<running, executed, doneQueue, db, ended, endWorker, endCallback,
                   scanner, highWaterMark, result, jsEnded, cache, finished, calls>>

\* fast-future runs the callback of a next() that needed no native call.
DeferredCallback(i) ==
    /\ nextCall[i] = "deferred"
    /\ nextCall' = [nextCall EXCEPT ![i] = "idle"]
    /\ UNCHANGED <<pool, db, native, result, jsEnded, cache, finished, calls>>

\* Iterator::End on an iterator: nothing when it has ended already.
EndIgnored_Unchecked(i) == FALSE
EndIgnored(i)           == ended[i]

EndDeferred_Never(i) == FALSE
EndDeferred(i)       == nexting[i]

\* Iterator::End on every iterator of S, in the order of the ids: the
\* EndWorker is queued, or kept in endWorker when a next() is thought to run.
NativeEnd(S, callback) ==
    LET begun == {i \in S : ~EndIgnored(i)}
        later == {i \in begun : EndDeferred(i)}
        now   == begun \ later
    IN  /\ \E order \in Bijection(1 .. Cardinality(now), now) :
             /\ \A a, b \in DOMAIN order : a < b => order[a] < order[b]
             /\ AsyncQueueWorkers([k \in DOMAIN order |-> EndWorker(order[k])])
        /\ ended' = [i \in Ids |-> ended[i] \/ i \in begun]
        /\ endWorker' = [i \in Ids |-> endWorker[i] \/ i \in later]
        /\ endCallback' = [i \in Ids |-> IF i \in begun THEN callback ELSE endCallback[i]]

\* iterator.end(callback); the callback goes with the EndWorker, and nowhere
\* when the native iterator has ended already.
IteratorEnd(i) ==
    /\ Created(i)
    /\ ~jsEnded[i]
    /\ jsEnded' = [jsEnded EXCEPT ![i] = TRUE]
    /\ cache' = [cache EXCEPT ![i] = 0]
    /\ NativeEnd({i}, "caller")
    /\ endCall' = [endCall EXCEPT ![i] = "pending"]
    /\ UNCHANGED <<running, executed, doneQueue, db, nexting, scanner, highWaterMark,
                   result, nextCall, finished, closeCall, closeMark, replaced>>

\* db.close(callback): with iterators registered the worker waits, in place of
\* the one that waited, and every iterator is ended with an empty callback.
DatabaseClose(c) ==
    /\ closeCall[c] = "none"
    /\ closeCall' = [closeCall EXCEPT ![c] = "pending"]
    /\ closeMark' = [closeMark EXCEPT ![c] = currentIteratorId]
    /\ \/ /\ iterators = {}
          /\ AsyncQueueWorkers(<<CloseWorker(c)>>)
          /\ UNCHANGED <<pendingCloseWorker, replaced, ended, endWorker, endCallback>>
       \/ /\ iterators # {}
          /\ pendingCloseWorker' = c
          /\ replaced' = replaced \cup ({pendingCloseWorker} \ {NULL})
          /\ NativeEnd(iterators, "empty")
    /\ UNCHANGED <<running, executed, doneQueue, iterators, currentIteratorId,
                   nexting, scanner, highWaterMark, result, js, endCall>>

-----------------------------------------------------------------------------
(* The pool threads *)

\* How Iterator::IteratorNext can return: CreateScanner opens the scanner on
\* the first call and again after it failed to; a bad iteratorStatus stays.
\* With a highWaterMark of 0 it takes no row out of a batch and returns TRUE.
NextOutcomes(i) ==
    LET read == {IF highWaterMark[i] = 0 THEN "empty" ELSE "rows", "eof", "error"}
    IN  CASE scanner[i] = "none"   -> read \cup {"openError"}
          [] scanner[i] = "open"   -> read
          [] scanner[i] = "failed" -> {"error"}

ScannerAfter(outcome) ==
    CASE outcome \in {"rows", "empty", "eof"} -> "open"
      [] outcome = "error"                    -> "failed"
      [] outcome = "openError"                -> "none"

\* What IteratorNext leaves in nexting: set again with a batch in hand, cleared
\* at the end and on an error, and not touched when CreateScanner fails.
NextingAfter(before, outcome) ==
    CASE outcome \in {"rows", "empty"} -> TRUE
      [] outcome \in {"eof", "error"}  -> FALSE
      [] outcome = "openError"         -> before

\* Iterator::IteratorNext up to its last write, which is to nexting: Execute
\* still runs, but the main thread may already see the flag cleared.
IteratorNext(i) ==
    /\ NextWorker(i) \in running \ executed
    /\ result[i] = "none"
    /\ \E outcome \in NextOutcomes(i) :
         /\ result' = [result EXCEPT ![i] = outcome]
         /\ scanner' = [scanner EXCEPT ![i] = ScannerAfter(outcome)]
         /\ nexting' = [nexting EXCEPT ![i] = NextingAfter(@, outcome)]
    /\ UNCHANGED <<pool, db, ended, endWorker, endCallback, highWaterMark, js, calls>>

\* The rest of NextWorker::Execute: it reads the status and returns.
ExecuteNext(i) ==
    /\ result[i] # "none"
    /\ ExecuteWork(NextWorker(i))
    /\ UNCHANGED <<db, native, result, js, calls>>

\* EndWorker::Execute logs, CloseWorker::Execute runs an empty CloseDatabase.
ExecuteOther(w) ==
    /\ ExecuteWork(w)
    /\ UNCHANGED <<db, native, result, js, calls>>

Start   == StartWork   /\ UNCHANGED <<db, native, result, js, calls>>
Post(w) == PostWork(w) /\ UNCHANGED <<db, native, result, js, calls>>

-----------------------------------------------------------------------------
(* The main thread: completed workers *)

Completing == UNCHANGED <<running, executed>>

CheckEndCallback_ClearedFirst(i, after) ==
    /\ AsyncQueueWorkers(after)
    /\ endWorker' = [endWorker EXCEPT ![i] = FALSE]

\* checkEndCallback: the EndWorker that waited is queued, once, before what
\* the JavaScript callback then queues.
CheckEndCallback(i, after) ==
    /\ AsyncQueueWorkers((IF endWorker[i] THEN <<EndWorker(i)>> ELSE <<>>) \o after)
    /\ endWorker' = [endWorker EXCEPT ![i] = FALSE]

\* iterator.js, the callback of binding.next(): with rows, or at the end,
\* _next() runs again and answers through fast-future; an error at once.
NextCallAfter_ErrorLost(outcome) ==
    IF outcome \in {"rows", "eof"} THEN "deferred" ELSE "native"
NextCallAfter(outcome) ==
    IF outcome \in {"rows", "eof"} THEN "deferred" ELSE "idle"

\* NextWorker::HandleOKCallback, then iterator.js: the rows go to the cache
\* and the waiting next() takes the first.
NextSucceeds(i) ==
    /\ TakeDone(NextWorker(i))
    /\ result[i] \in {"rows", "eof"}
    /\ CheckEndCallback(i, <<>>)
    /\ finished' = [finished EXCEPT ![i] = result[i] = "eof"]
    /\ IF result[i] = "rows"
       THEN \E n \in 1 .. BatchRows : cache' = [cache EXCEPT ![i] = n - 1]
       ELSE cache' = [cache EXCEPT ![i] = 0]
    /\ nextCall' = [nextCall EXCEPT ![i] = NextCallAfter(result[i])]
    /\ result' = [result EXCEPT ![i] = "none"]
    /\ Completing
    /\ UNCHANGED <<db, nexting, ended, endCallback, scanner, highWaterMark, jsEnded, calls>>

\* The same with no row and not finished: iterator.js calls binding.next()
\* again, which an iterator ended meanwhile answers with an error.
NextBringsNothing(i) ==
    /\ TakeDone(NextWorker(i))
    /\ result[i] = "empty"
    /\ \/ /\ NextRefused(i)
          /\ CheckEndCallback(i, <<>>)
          /\ nextCall' = [nextCall EXCEPT ![i] = "idle"]
          /\ UNCHANGED nexting
       \/ /\ ~NextRefused(i)
          /\ CheckEndCallback(i, <<NextWorker(i)>>)
          /\ nexting' = [nexting EXCEPT ![i] = TRUE]
          /\ UNCHANGED nextCall
    /\ finished' = [finished EXCEPT ![i] = FALSE]
    /\ cache' = [cache EXCEPT ![i] = 0]
    /\ result' = [result EXCEPT ![i] = "none"]
    /\ Completing
    /\ UNCHANGED <<db, ended, endCallback, scanner, highWaterMark, jsEnded, calls>>

\* Nan's HandleErrorCallback: the callback, and nothing about endWorker.
NextFails(i) ==
    /\ TakeDone(NextWorker(i))
    /\ result[i] \in {"error", "openError"}
    /\ nextCall' = [nextCall EXCEPT ![i] = NextCallAfter(result[i])]
    /\ result' = [result EXCEPT ![i] = "none"]
    /\ Completing
    /\ UNCHANGED <<workQueue, db, native, jsEnded, cache, finished, calls>>

\* Database::ReleaseIterator: the last iterator out queues the waiting close.
CloseMayStart_TestedFirst(registered) == iterators = {} /\ pendingCloseWorker # NULL
CloseMayStart_NotTested(registered)   == pendingCloseWorker # NULL
CloseMayStart(registered)             == registered = {} /\ pendingCloseWorker # NULL

ReleaseIterator(i) ==
    /\ iterators' = iterators \ {i}
    /\ IF CloseMayStart(iterators')
       THEN /\ AsyncQueueWorkers(<<CloseWorker(pendingCloseWorker)>>)
            /\ pendingCloseWorker' = NULL
       ELSE UNCHANGED <<workQueue, pendingCloseWorker>>

\* EndWorker::HandleOKCallback.
EndCompletes(i) ==
    /\ TakeDone(EndWorker(i))
    /\ ReleaseIterator(i)
    /\ endCall' = [endCall EXCEPT ![i] = IF endCallback[i] = "caller" THEN "returned" ELSE @]
    /\ Completing
    /\ UNCHANGED <<currentIteratorId, native, result, js, closeCall, closeMark, replaced>>

\* CloseWorker::WorkComplete.
CloseCompletes(c) ==
    /\ TakeDone(CloseWorker(c))
    /\ closeCall' = [closeCall EXCEPT ![c] = "returned"]
    /\ Completing
    /\ UNCHANGED <<workQueue, db, native, result, js, endCall, closeMark, replaced>>

-----------------------------------------------------------------------------

Complete ==
    \/ \E i \in Ids : NextSucceeds(i) \/ NextBringsNothing(i) \/ NextFails(i)
    \/ \E i \in Ids : EndCompletes(i)
    \/ \E c \in Closes : CloseCompletes(c)

Next ==
    \/ DatabaseIterator
    \/ \E i \in Ids : NextFromCache(i) \/ NextFromNative(i) \/ IteratorEnd(i)
    \/ \E i \in Ids : DeferredCallback(i)
    \/ \E c \in Closes : DatabaseClose(c)
    \/ Start
    \/ \E i \in Ids : IteratorNext(i) \/ ExecuteNext(i)
    \/ \E w \in OtherWorkers : ExecuteOther(w)
    \/ \E w \in Workers : Post(w)
    \/ Complete

\* The pool runs every worker it is given and the event loop runs every
\* callback it is given; the program need not call anything.
Fairness ==
    /\ WF_vars(Start)
    /\ \A i \in Ids : WF_vars(IteratorNext(i)) /\ WF_vars(ExecuteNext(i))
    /\ \A i \in Ids : WF_vars(DeferredCallback(i))
    /\ \A w \in OtherWorkers : WF_vars(ExecuteOther(w))
    /\ \A w \in Workers : WF_vars(Post(w))
    /\ WF_vars(Complete)

Spec     == Init /\ [][Next]_vars
FairSpec == Spec /\ Fairness

-----------------------------------------------------------------------------
(* Safety *)

\* The EndWorker of i is deferred and no next() is left that could queue it.
Stranded(i) == endWorker[i] /\ NextWorker(i) \notin InPool

\* The iterators IteratorNext is still to read and write: queued, or running
\* and before its last write.
Unread == {i \in Ids : NextWorker(i) \in Unexecuted /\ result[i] = "none"}

\* A worker is in one place: never queued again while it waits, runs or is
\* posted, whichever of next(), end(), close() and the release of the last
\* iterator queued it.  libuv requires that of a uv_work_t, and Nan destroys
\* a worker when it completes (AsyncQueueWorker in iterator.cc, database.cc).
WorkerInOnePlace ==
    /\ PlacedOnce
    /\ \A i \in Ids : endWorker[i] => EndWorker(i) \notin InPool
    /\ pendingCloseWorker # NULL => CloseWorker(pendingCloseWorker) \notin InPool

\* database.cc, Close: "ended==true means an async End() is in progress".  A
\* registered iterator is ended exactly when its EndWorker exists, deferred
\* or in the pool; once it is released no EndWorker of it is left.
EndedMeansEnding ==
    \A i \in Ids : (endWorker[i] \/ EndWorker(i) \in InPool) <=> (ended[i] /\ i \in iterators)

\* The EndWorker is never given to the pool before the last write of the
\* IteratorNext of a next(), so the scanner is never read on an iterator being
\* released, although end() may be called while a next() is queued or running.
\* The pool may have the EndWorker while the Execute of that next() has still
\* to read the status and return: nexting is cleared before it does.
EndNeverOvertakesRead ==
    \A i \in Ids : EndWorker(i) \in InPool => i \notin Unread

\* A close that waits has something to wait for, and db.close() has begun the
\* end of all of it: every iterator that existed at the call is ending.
PendingCloseIsWaiting ==
    /\ pendingCloseWorker # NULL => iterators # {}
    /\ \A c \in Closes : closeCall[c] = "pending" =>
         \A i \in iterators : i < closeMark[c] => ended[i]

\* The CloseWorker is queued only "once they are all cleaned up": when it is
\* in the pool or has called back, no iterator that existed when close() was
\* called is registered any more, even if others were created since.
CloseWaitsForIterators ==
    \A c \in Closes :
        closeCall[c] = "returned" \/ CloseWorker(c) \in InPool =>
            \A i \in iterators : i >= closeMark[c]

\* db.close() ended iterator i before the program did.
EndedByClose(i) == endCallback[i] = "empty"

\* A later close() took the place of this one in pendingCloseWorker, which is
\* overwritten without a look at what it holds (database.cc, Close).
Superseded(c) == c \in replaced

\* When the pool has nothing left to run and nothing to call back, a call that
\* still waits is one that the code gives up: an end() that stranded, which
\* one of an iterator read to its end never does, or that came after close();
\* a close() that another replaced in pendingCloseWorker, or whose iterators
\* are stranded or have been created since and not ended.
NoCallIsLost ==
    InPool = {} =>
        /\ \A i \in Ids : nextCall[i] # "native"
        /\ \A i \in Ids : endCall[i] = "pending" =>
             (Stranded(i) /\ ~finished[i]) \/ EndedByClose(i)
        /\ \A c \in Closes : closeCall[c] = "pending" =>
             \/ Superseded(c)
             \/ \E i \in iterators : Stranded(i) \/ (i >= closeMark[c] /\ ~ended[i])

-----------------------------------------------------------------------------
(* What a step may never do *)

\* A deferred end() that has no next() left to queue it is lost for good: no
\* later call can rescue it, since next() refuses an ended iterator and end()
\* and close() ignore it.
StrandedForever == [][\A i \in Ids : Stranded(i) => Stranded(i)']_vars


-----------------------------------------------------------------------------
(* Liveness *)

\* Every next() calls back, whatever end() and close() do meanwhile; with a
\* highWaterMark of 0, once the iterator is ended.
NextReturns ==
    \A i \in Ids :
        nextCall[i] # "idle" /\ (highWaterMark[i] > 0 \/ ended[i]) ~> nextCall[i] = "idle"

\* An end() calls back unless it strands, or db.close() came first.
EndReturnsUnlessStranded ==
    \A i \in Ids : endCall[i] = "pending" ~>
        endCall[i] = "returned" \/ Stranded(i) \/ EndedByClose(i)

\* What can keep a close() from calling back: a later close() that replaced
\* it, an iterator whose end is stranded, or one created after the call that
\* the program has not ended.
CloseBlocked(c) ==
    \/ Superseded(c)
    \/ \E i \in iterators : Stranded(i) \/ (i >= closeMark[c] /\ ~ended[i])

\* Nothing else keeps a close() from calling back: the release of the last
\* iterator queues the worker that waits, and only a close() takes its place.
CloseReturnsUnlessBlocked ==
    \A c \in Closes :
        closeCall[c] = "pending" ~> closeCall[c] = "returned" \/ CloseBlocked(c)

-----------------------------------------------------------------------------
(* The promise this implements *)

Contract == INSTANCE IteratorContract WITH
    created <- currentIteratorId,
    live    <- iterators,
    ending  <- {i \in iterators : ended[i]},
    reading <- Unread,
    close   <- closeCall,
    waits   <- [c \in Closes |-> {i \in iterators : i < closeMark[c]}]

\* Every behaviour of the code is one the contract allows.
ImplementsContract == Contract!Spec

=============================================================================
