# kududown in TLA+

`kududown` is a Node.js binding that puts the leveldown interface (`open`,
`put`, `get`, `del`, `batch`, `iterator`, `close`) in front of a Kudu table.  It
is C++ on two kinds of thread (Node's main thread and libuv's pool) with a thin
JavaScript layer on top, and most of what can go wrong in it is what happens
when those two kinds of thread, the program's calls and a fallible server take
their steps in an order nobody tested.

This directory is a TLA+ development of that code: models of its parts, TLC runs
over small instances, and TLAPS proofs about them for every instance.  Paths in this file are relative to the repository's root.

## 1. Inventory

| Component | State | Operations | Talks to |
|---|---|---|---|
| **Iterator life cycle**: `iterator.js`, `src/iterator.cc`, `src/iterator_async.cc`, and the registry in `src/database.cc` | `nexting`, `ended`, `endWorker` of a native iterator; `_nexting`, `_ended` of the JavaScript one; the `iterators` map, `currentIteratorId`, `pendingCloseWorker` of the Database | `iterator()`, `next()`, `end()`, `close()`; `Execute` and the completion callbacks of NextWorker, EndWorker, CloseWorker | the pool (workers), each other through the flags, which both kinds of thread write |
| **Iterator data path**: `IteratorNext`, `CreateScanner`, `NextWorker::HandleOKCallback`, `_next` | the scanner and its batch, `batchRowCount`, `currentRowCount`, `totalRowCount`, `iteratorStatus`; `cache`, `finished` | read of up to `highWaterMark`, conversion of a result to an array, answers from the cache | a KuduScanner |
| **Database operations**: `src/database.cc`, `src/database_async.cc` | `kuduClientPtr`, `tablePtr`, `tableStatus` | OpenDatabase, PutToDatabase, GetFromDatabase, DeleteFromDatabase, WriteBatchToDatabase | a Kudu session and table; the pool |
| **Write batches**: `src/write_batch.*`, `src/batch.cc`, `src/batch_async.cc`, `chained-batch.js` | the list of operations, `hasData` | put, del, clear, write | WriteBatchToDatabase |
| **Thread pool**: libuv and `Nan::AsyncWorker` (external), `src/async.h` | two FIFO queues, the running workers | queue, start, execute, post, complete | all of the above |
| **Tracer**: `src/tracer.cpp`, `src/threadsafe_queue.h`, `src/uvasync.*` | the log queue, the level and lengths, the logger, the async handle | Log, Flush, RegisterLogger, the setters, init, deinit | every component logs, from every thread; the main loop flushes into JavaScript |
| **Arguments and their memory**: `src/kududown.h`, the workers of `src/database_async.cc`, the registry | slices of strings and Buffers, persistent handles, raw pointers to iterators | making a slice, saving to a persistent handle, reading on the pool, disposing | the collector, which runs whenever it likes |
| **Avro records**: `src/avro/*.h` | none of its own | `encode` and `decode` of each record, into an object in use | the Avro library |
| Column conversion: `getSliceAsString` | none | one `switch` over the column type | reads and iterators |
| Stubs: `approximateSize`, `compactRange`, `getProperty`, `destroy`, `repair` | none | none that change state | |
| Addon registration | none | | |
| TypeScript schema tools, benchmarks, tests | none the addon uses | | |
| LevelDB, Snappy, the Kudu headers (`deps/`) | vendored | | |

### What makes each of them correct, and what is hard about it

*Life cycle.*  An iterator may not be released while a read of it runs; each
worker is queued once; `close()` waits for every iterator there was; every call
calls back.  Hard, because `nexting` is written by pool threads and read by the
main thread, `end()` can come from the program or from `close()`, at any point
of a `next()`, and an `end()` that has to wait is passed on by a completion
callback that runs on success only.

*Data path.*  Every row comes once, in order, with its own value; the end means
the end; the limit is passed by no more than is known; an error is not taken for
the end.  Hard, because four boundaries cross one another: the batches of the scanner (some empty),
`highWaterMark`, the limit, and the array that is filled from its far end.

*Operations and batches.*  What is acknowledged has been done, in the order that
was asked for.  Hard, because every error path overwrites, ignores or remembers
a status in its own way, the server may do a thing and lose its answer, and the
calls of a program run side by side.

*Tracer.*  The queue stays bounded, overwriting is announced but in ways that are
known, the messages not lost arrive once and in order, and none waits for ever.  Hard, because the length of the queue is tested outside its lock, so
several threads can find it full together; because `uv_async_send` coalesces;
and because a logger may log, flush and register a logger in the middle of a
flush.

*Arguments.*  What a pool thread reads is still there, nothing is freed twice,
and nothing is kept for ever.  Hard, because a string is copied and a Buffer is
not, a batch copies again, the classes of a worker dispose of its arguments in
turn, each of its own, and the registry of iterators keeps nothing alive.

*Avro records.*  What is read is what was written, whatever the object held; what
is out of bounds or incomplete is refused; and an object whose decoding stopped
half way is still one of its type.  Hard, because unions, enums and field orders
nest, and every level can throw.

`PROJECT.json` lists the single hazards, each at its line, with the property
that is about it or the reason why there is none.

## 2. The modules

```
   AsyncWork                     IteratorContract     LossyLog      AvroRecords
      |  EXTENDS                    |  INSTANCE          | INSTANCE     | EXTENDS
      v                             v                    v              v
   IteratorLifecycle  -- Contract!Spec --             Tracer        AvroExchange
      |        \                                       |    \          |
   MCIterator-  AsyncWork_proofs                   MCTracer  \      MCAvroExchange
   Lifecycle    IteratorLifecycle_proofs              Tracer_proofs AvroExchange_proofs

   CursorContract          TableContract
      |  INSTANCE             |  INSTANCE
      v                       v
   IteratorScan            DatabaseOps                  Ownership
      |       \                |    \                       |
   MCIterator- IteratorScan_ MCData- DatabaseOps_        Ownership_proofs
   Scan        proofs        baseOps proofs
                                     DatabaseRefinement_
                                     proofs
```

IteratorLifecycle, IteratorScan, DatabaseOps and Ownership cut the same code
along different lines and do not share variables.  What one leaves out is where
another begins: IteratorScan's `next()` is one outcome of `NextOutcomes` in
IteratorLifecycle; the table that a `put()` changes is DatabaseOps's, the memory
of its key Ownership's; the iterator that Ownership lets the collector take goes
through the flags of IteratorLifecycle, reduced to what keeps it alive.

**AsyncWork** is the pool, an external part: `workQueue` and `doneQueue` are
FIFO, `running` holds at most `Threads` workers, `executed` those of them whose
`Execute` has returned.  `ExecuteWork` and `PostWork` are separate steps, because
what `Execute` wrote into the iterator can be seen by the main thread before the
worker's callback runs, and another thread can post its worker in between.

**IteratorLifecycle** is the first component.  A worker is a pair of its class
and its iterator or `close()` call.  One action is one run of the code between
two points where something else can happen:

| Action | Code |
|---|---|
| `DatabaseIterator` | `Database::Iterator` |
| `NextFromCache`, `NextFromNative`, `DeferredCallback` | `_next` in `iterator.js`, `Iterator::Next`, fast-future |
| `IteratorEnd` | `_end`, `Iterator::End` |
| `DatabaseClose` | `Database::Close`, with its loop over the map |
| `IteratorNext` | `Iterator::IteratorNext`, up to its last write |
| `ExecuteNext`, `ExecuteOther` | the rest of `NextWorker::Execute`; `EndWorker` and `CloseWorker::Execute` |
| `NextSucceeds`, `NextBringsNothing`, `NextFails` | `NextWorker::HandleOKCallback` with `checkEndCallback` and the callback in `iterator.js`, which calls the native `next()` again when there was no row and no end; Nan's `HandleErrorCallback` |
| `EndCompletes` | `EndWorker::HandleOKCallback`, `Database::ReleaseIterator` |
| `CloseCompletes` | `CloseWorker::WorkComplete` |

The rows are abstracted to an outcome (`rows`, `empty`, `eof`, `error`,
`openError`) and a number of rows in the cache.  What each outcome does to
`nexting` is `NextingAfter`: it stays TRUE after rows, which is the root of
several results below.  `highWaterMark` is kept as 0 or 1: with 0 a read takes no
row out of its batch and returns TRUE all the same (`src/iterator.cc:149`), which is
the outcome `empty`, and `iterator.js` then calls the native `next()` again.

`IteratorNext` writes `nexting` in more than one place; the model takes its last
write, since a worker that has not come to it keeps `nexting` TRUE until then
anyway.  What follows that write is a step of its own, `ExecuteNext`: the pool
thread has yet to leave `IteratorNext` and to read `iteratorStatus`
(`src/iterator_async.cc:29`), while the main thread may already see the flag cleared
and queue an EndWorker.

`replaced` is a history variable: the closes whose place in `pendingCloseWorker`
another `close()` took.  It is written in `DatabaseClose` and nowhere else, so that a
close lost in any other way is not taken for one that was replaced.

**IteratorContract** says what iterators and `close()` promise each other,
with no pool, worker or flag: an iterator is released once, after its end has
begun, and while no read of it may run; no read starts after that; `close()`
begins the end of all there are and returns when they are released.
`IteratorLifecycle!ImplementsContract` instantiates it with a refinement mapping
(`reading` is the set of iterators whose NextWorker is queued, or runs and has the
last write of `IteratorNext` before it; `waits` of a close is what is registered of the iterators created before it).

**IteratorScan** is one iterator with its rows.  `pc` walks a `next()` through
`iterator.js`, `CreateScanner`, the tests of `IteratorNext`, the batches, the
rows and the completion; a row is a number, its key and value a tagged pair.
The scanner is external: it reads the table as it was when opened, in batches of
any size up to `MaxBatch`, some empty, and may fail at any point.  Every row
counts 1 against `highWaterMark` where the code counts bytes; that keeps the
boundary and its off-by-ones and drops only the arithmetic.  `passed` is the history
of what left the cache: the pairs called back and, between them, a mark for each
row that `Seek` threw away, because `seek()` sets `cache` to null before the native
`seek()` throws (`iterator.js:28`).  The options `gt`, `gte`, `lt` and `lte` are not in
the model, because nothing in the code reads them once they are parsed.

**CursorContract** says what the program may take an iterator for: a cursor over
the rows that the table has when the first `next()` opens the scan.  Each
`next()` gives the row after the last one given, unless a `seek()` lost some; the end
comes after the last row or near the limit; an error is final.  Near the limit
means what the code does: no more than a batch below it, and up to a batch less one
row *above* it, so the limit is not the maximum the documentation speaks of
(`scan_limit` below).  The contract has no batch, result, cache or `highWaterMark`.  `IteratorScan!ImplementsCursor` maps it: `asked` is "the call is
not idle", `opened` is `scanner`, `rows` is `scanRows`, and the cursor is `broken`
when there is a scanner whose status is bad.

**DatabaseOps** is `open`, `put`, `get`, `del` and `batch` against one table.  A
call is a record spread over functions (`kind`, `ops`, `phase`, `status`,
`value`); `WriteBatchToDatabase` takes one step per `Apply` and one per row
operation of the flush.  The server applies one row operation at a time and may
refuse it, or do it and lose the answer; a session keeps the order of the
operations on one row and no other.  `settable` says whether the table's value
column is a STRING: the code sets columns with `SetString` whatever the schema.
`keyed` says whether its key column is called "key": if not, the predicate of a
`get()` cannot be added, which `GetFromDatabase` only logs (`src/database.cc:178-187`),
and the scan is one of the whole table (`RowsScanned`), of which the last row read is
the answer.
An upsert leaves a column that it does not set as it was.

**TableContract** is that table as the program sees it, with no session, batch or
pool: a call has a set `left` of operations that may still reach the table, which
empties with its answer; those on one row are carried out in their order, each at
most once; a write that is answered "ok" was carried out in full; a `get()` gives
what the row was last asked to hold, unless that was a zero-length value, or the
table is not `keyed`: then it gives what some row was.  A batch is no unit in it: its
operations are carried out one by one, with other calls in between, and a batch
that failed may have been carried out in part (`database_batch_atomic` below).
`DatabaseOps!ImplementsContract` maps it: `rows` is the value last asked for of each
row (not the value it holds, which a zero-length value leaves as it was), `left`
is what a written batch has still in its list or its session, and a batch is a
call of the contract only when it is written.  `Believable` names what an "ok" is
worth: nothing for a `del()`, nor for a batch on a table that cannot hold its
values.

**Tracer** is `tracer::Log` on any thread, one step for each operation of the
queue and for the test and the use of `_logger_async`, and the main thread's
`flush_log_messages`, whose calls nest in `frames` because a logger may call
`Flush`.  `signalled` is all there is of uv: signals sent before the loop looks
are one.  Messages are numbered as they are queued (`sent`), so that the queue is
a channel of numbers; `loss` records of messages that were cleared for want of
room whether a notice of it is still owed, or was `dropped`: taken from the queue
for nobody, by a flush that ends with it (`src/tracer.cpp:167`), by one that has no
logger (`:170`) or by `RegisterLogger` without one (`:154`).  `Deinit` may
come between a thread's test and its signal; that thread is then `crashed`, which
stands for whatever using a reset pointer does.

**LossyLog** is the contract of the tracer: a channel that may lose its oldest
message or all that wait, and delivers the others once and in order.
`Tracer!ImplementsLossyLog` maps the queue to the channel.

**Ownership** is the memory the main thread, the pool and the collector share.  A
call takes null, a string or a Buffer for each argument; `Slice` makes of it what
`LD_STRING_OR_BUFFER_TO_SLICE` does, `handle` is what its worker saved under which
name, `heap` what became of each argument's memory, and `read` what `Execute` found.
The `WorkComplete` methods of the classes are operators of their own, each of which
disposes of its own members and then calls its parent's
(`WriteWorker_WorkComplete`, `IOWorker_WorkComplete`, `CompactRangeWorker_WorkComplete`);
`Free` of what is not allocated gives `misfreed`, so an argument that two of them
disposed of would show.
The program rewrites and drops Buffers, and the collector takes what nothing
keeps, between any two steps.  The iterators are there for the one thing the
life cycle leaves out: `iterators` holds raw pointers, `WorkersOf` is what keeps an
iterator alive, `NextExecutes` (on a pool thread) and `NextCompletes` are apart, and
`Close` looks at every one registered.

**AvroRecords** is the generated `codec_traits`: each record is a value that
describes its type (`KuduScan`, `KuduInsert`, ...), and `Encode` and `Decode` follow
it the way the generated code does, with its tests of enums, its two-step
setting of unions, and its loop over the field order of a ResolvingDecoder.  The
code of a type calls that of the types it is made of, which are declared before
it, so there is no recursion to model: the operators are defined level by level
(`Encode0` for enums and atoms, `Encode1` for what is made of those, up to
`Encode`), with one operator (`EncodeOf`) that says what a level does with the one
below.  A reader of a type into an object is a function of the tokens that are
left, and `ReadAll` runs one after the other until one throws.  A negative enum
is written as the `size_t` it is converted to; `MaxInt` and `Width` are the widths of
an `int` and of a `size_t`.
**AvroExchange** sends one value, perhaps cut short or with a number replaced,
into an object that already holds another.

The chained batch passes its callback to `Batch::Write` as the first argument,
as `AbstractChainedBatch` calls it; how that library forwards its arguments is
external.

## 3. The runs

All of them are in `PROJECT.json`.  `pass`:

| Run | Instance | What it shows |
|---|---|---|
| `lifecycle_safety` | 2 iterators with a highWaterMark of 0 or more, 2 closes, 2 threads, up to 2 rows per read; 2 780 000 states | the type invariant; a worker is in one place (`WorkerInOnePlace`); a registered iterator has ended exactly when its EndWorker exists (`EndedMeansEnding`); no EndWorker in the pool before the last write of a queued or running read (`EndNeverOvertakesRead`); a waiting close has something to wait for, and all of it is ending (`PendingCloseIsWaiting`); it is queued only when all of it is gone (`CloseWaitsForIterators`); when the pool is empty only the calls that the code is known to give up are without a callback (`NoCallIsLost`); a stranded end stays stranded (`StrandedForever`); the contract (`ImplementsContract`) |
| `lifecycle_liveness` | 2 iterators, one with a positive highWaterMark and one with 0, 2 closes, 1 thread; 298 000 states | every `next()` calls back, with a highWaterMark of 0 once the iterator is ended; an `end()` does unless it is stranded or `close()` came first; a `close()` does unless another replaced it, or it waits for a stranded or a later, un-ended iterator: this is the complete list |
| `scan` | up to 6 rows, batches up to 3, limits -1, 0, 2, 3, highWaterMark 0, 1, 2, 9, `seek()` between any two calls; 90 000 states | rows in order and paired (`RowsInOrder`), all accounted for (`RowsAccounted`), the end is one (`EndMeansEnd`), an error is final (`ErrorIsFinal`), every `next()` calls back for a positive highWaterMark (`NextReturns`); the cursor's contract (`ImplementsCursor`) |
| `database_ops` | 2 calls, 2 keys, 2 values, batches up to 2 operations, tables of both kinds of key and of value column; 1 201 000 states up to symmetry | an acknowledged put or batch was done in full; nothing is acknowledged without a table; the last operation of a batch on a row wins; a `get()` finds what the row was asked to hold meanwhile, on a table whose key column is called "key"; the table's contract (`ImplementsContract`) |
| `tracer` | a pool thread and the main thread, a queue for 1 message, batches of 1 or 1000, 4 logs, 1 Flush, 2 other calls; 984 000 states | the queue stays near its length (`QueueBounded`), the notice of overwriting is queued until something takes it (`LossIsAnnounced`), no wake-up is lost (`WakeUpPending`), the queue drains while the addon lives (`Drained`), the channel's contract (`ImplementsLossyLog`) |
| `ownership` | 1 call, 1 Buffer, 1 iterator, 3 contents; 342 000 states | a worker finds its arguments (`ArgumentsAlive`), nothing is freed twice by the classes that share the disposing (`FreedOnce`), the leaks are the two known ones (`LeaksAreKnown`), only Buffers are read late, and not those of a batch (`OnlyBuffersAreReadLate`), an ended iterator is not collected while registered (`EndedIteratorsLeave`) |
| `avro` | 7 types, every sample that differs from a new object in one place, one cut or one replaced number; 660 000 states | what was sent arrives (`RoundTrip`), nothing out of bounds or cut does (`NothingBrokenArrives`), the object keeps its shape (`TargetStaysWellFormed`) |

`violation`: the code does not do what its documentation or a comment says.

| Run | What the documentation says | What the code does |
|---|---|---|
| `lifecycle_end_deferred` | an `end()` waits for a `next()` to return (`src/iterator.cc:341`) | `nexting` stays TRUE after a `next()` that returned rows (`src/iterator.cc:177`), so `end()` waits for nothing, and for ever |
| `scan_limit` | the limit is a maximum (`README.md:277`) | it is tested before a read, against the rows of whole batches (`src/iterator.cc:104`, `134`), and the batch it falls into is returned in full |
| `ownership_hanging_iterators` | `close()` copes with iterators that were dropped (`test/cleanup-hanging-iterators-test.js:32`) | the registry keeps a raw pointer (`src/database.cc:912`), which `close()` follows after the collector took the iterator |
| `database_batch_failure` | the callback gets an error if the operation failed (`README.md:219`) | the status of the Flush replaces the error of `SetString` (`src/database.cc:454`) |
| `database_batch_atomic` | a batch is "performed as an atomic operation" (`README.md:209`) | its operations are applied and flushed one by one (`src/database.cc:394`), and what was written before one failed stays |

Others have no run of their own, because a property or a contract of a passing run
already says exactly what happens instead:

* a `next()` that fails does not run `checkEndCallback` (`src/iterator_async.cc:79`),
  so an `end()` deferred to it is stranded: `EndReturnsUnlessStranded`;
* the pool thread clears `nexting` before the `next()` has returned
  (`src/iterator.cc:141`), so an `end()` need not wait for it, and the pool may have
  the EndWorker while `NextWorker::Execute` still has to read the status and return:
  `EndNeverOvertakesRead` is about the last write of `IteratorNext`, neither about
  the return of `Execute` nor about the callback;
* with a `highWaterMark` of 0 a `next()` goes round between `iterator.js` and the native
  iterator until the iterator is ended (`src/iterator.cc:149`, `iterator.js:56`):
  the premises of the two `NextReturns`;
* a second `close()` overwrites `pendingCloseWorker` (`src/database.cc:655`) and
  the first never calls back: the exception `Superseded` of
  `CloseReturnsUnlessBlocked`;
* an `end()` after `close()` drops its callback (`src/iterator.cc:331`):
  `EndReturnsUnlessStranded` names it as `EndedByClose`;
* the limit is held against rows fetched, not returned (`src/iterator.cc:134`), so
  rows of the last batch may never be returned if `highWaterMark` cut it:
  `EndMeansEnd` speaks of `fetched`;
* `gt`, `gte`, `lt` and `lte` are parsed and no predicate is made of them
  (`src/iterator.cc:188`), where `README.md:265` and `267` promise records of the range
  only: the rows of CursorContract are all those of the table;
* `seek()` is not supported (`src/iterator.cc:237`), although `README.md:306` describes it
  and `test/iterator-test.js:35` tests it, and before it throws the cached rows are
  lost: `Seek` of CursorContract;
* the scanner is opened by the first `next()` (`src/iterator.cc:193`), not by
  `iterator()` as the snapshots of `README.md:353` would have it: `Open` of
  CursorContract takes the rows of that moment, and no later ones;
* a flush loses the message that ends it (`src/tracer.cpp:167`), the notice of
  overwriting as well as any other, and with a level above WARN it loses every
  notice: `Lose` in LossyLog, the value `dropped` of `loss`;
* the key predicate of a `get()` that cannot be added is only logged
  (`src/database.cc:179`), so on a table whose key column is not called "key" a `get()`
  answers with the last row of the table, where `README.md:175` says that it fetches
  an individual entry: the premise `keyed` of `GetReturnsWhatWasAsked`;
* a batch stores no zero-length value: the row keeps what it held
  (`src/write_batch.cc:30`), where `README.md:211` says that it holds a zero-length
  array: the premise about `Empty` of `GetReturnsWhatWasAsked`, and `Read` in
  TableContract;
* `del()` reports success for every failure (`src/database.cc:383`, where
  `find_first_of` matches any one character), and `get()` answers "not found" when
  `NextBatch` failed (`src/database.cc:204`): `AckedWritesSucceeded` leaves out the
  one and `GetReturnsWhatWasAsked` is silent about the other.

### Bounds

Named bounds are constants: `MaxIterators`, `BatchRows`, `MaxRows`, `MaxBatch`,
`MaxEmpty`, `MaxOps`, `MaxLogs`, `MaxFlushes`, `MaxRegisters`, `Replacements`.
`HighWaterMarks` gives the marks each iterator may have.
`MaxInt` (15) and `Width` (64) stand for the largest `int` and the number of `size_t`s;
all that matters is that the one is beyond every enum and the other leaves the
converted negative numbers above it.  Two iterators and two threads are enough for an EndWorker
of one iterator to overtake the NextWorker of the same, and for one iterator to
keep another's `close()` waiting; the second `close()` is there for the
overwritten `pendingCloseWorker`.  `lifecycle_liveness` has one thread, one mark for
each iterator and one row per read, because checking liveness over the states of
`lifecycle_safety` takes too long: what the second thread adds, a worker posted
before another that was started first, is left to `NoCallIsLost` there, which is the
safety half of these properties.  In the scan, six rows in batches of up to
three give a first, a middle and a last batch, limits inside a batch, at its end
and beyond, and a highWaterMark below, at and above a batch.  In DatabaseOps two
operations are the least that can be partly applied or reordered, two calls the
least that can interleave, and two keys the least on which a flush may
reorder.  Tracer has two threads, the least that can find the queue full together, and four
messages, enough to overwrite one that was itself the notice of overwriting; that
more threads bring nothing new is what the proof of `QueueBounded` shows for all
of them.  The calls of Ownership do not meet except in a Buffer they share, and
its iterators only in `close()`; one of each keeps the run short, and the proofs
cover any number.  The replaced numbers of AvroExchange name each branch of a
union, lengths that are too short and too long, and one (11) past every enum; its
samples are at and past each bound.  Symmetry is used for safety runs only (the closes; the calls and the
keys), and only over constants that the modules compare for equality.

### Fairness and deadlock

`IteratorLifecycle!Fairness` has weak fairness of the pool (start, execute,
post) and of the main loop's completions and callbacks: libuv runs every
worker it is given, in FIFO order, and every callback that is due.  There is
none for the program's calls, nor between the outcomes of a read.
`IteratorScan!FairSpec` has it for the steps of a `next()` that was called,
for the same reason.  Its `NextReturns` also rests on the scanner having no
endless supply of empty batches (`MaxEmpty`).  `Tracer!Fairness` has it for each thread inside `Log`, for the loop's callback and
for the steps of a flush: the scheduler runs threads, the loop serves a handle
that was signalled, and a logger returns.  Nobody has to log or to flush for
`Drained`.  DatabaseOps and Ownership state no liveness.
`CHECK_DEADLOCK FALSE` is given where the program may simply have made all its
calls.

## 4. The proofs

TLAPS proves, for all values of the constants (assumptions: the named `ASSUME`s of
the modules, which TLC evaluates on each run):

| Module | Theorems |
|---|---|
| `IteratorLifecycle_proofs` | `Invariance` (`Spec => []IInv`); `TypeCorrect`, `WorkerPlacedOnce`, `EndedIsEnding`, `EndAfterRead`, `PendingCloseWaits`, `CloseAfterRelease`: the invariants of `lifecycle_safety`; `NoCallLost` (`Spec => []NoCallIsLost`), with an invariant of its own; `StrandedIsForever`, its action property; `Refinement`: `Spec => Contract!Spec` |
| `IteratorScan_proofs` | `Invariance`; `TypeCorrect`, `RowsComeInOrder`, `RowsAreAccounted`, `EndIsTheEnd`: the invariants of `scan`; `LimitPassed`; `ErrorStays`, its action property; `CursorRefinement`: `Spec => Cursor!Spec`; `NextFinishes`: a measure that every step of a `next()` lowers |
| `Tracer_proofs` | `TypeCorrect`, `WakeUpIsPending`, `LossAnnounced`, `QueueIsBounded`: the invariants of `tracer`; `Refinement`: `Spec => Lossy!Spec`; `ReceivedInOrder`, which the channel's contract gives |
| `Ownership_proofs` | `Invariance`; `TypeCorrect`, `ArgumentsStayAlive`, `NothingMisfreed`, `LeaksKnown`, `LateReads`, `EndedLeave`: the invariants of `ownership` |
| `DatabaseOps_proofs` | `Invariance`; `TypeCorrect`, `AckedWritesCarriedOut`, `AckedOnlyWhenOpened`, `LastOperationWins`, `GetIsCurrent`: the invariants of `database_ops` |
| `DatabaseRefinement_proofs` | `Refinement`: `Spec => Contract!Spec`, the contract of the table |
| `AvroExchange_proofs` | `RoundTripHolds`, `NothingBrokenArrivesHolds`, `TargetStaysWellFormedHolds`: the invariants of `avro` |

### Life cycle

None of the safety invariants is inductive alone.  That an EndWorker does not
overtake a read needs that `nexting` is TRUE while a read has its last write before it,
and that an ended iterator gets no new NextWorker; that a worker is in one
place needs that an iterator's EndWorker exists only if it has ended, because
`End` tests only `ended`; and that in turn needs that a released iterator is
never ended again, which rests on ids being handed out once and on `ended`
staying TRUE.  `IInv` is the type invariant, the safety invariants and these
links.  `AsyncWork_proofs` has the lemmas about the queues that all of it rests
on: what appending, taking and posting do to `InPool`, `Unexecuted` and
`PlacedOnce`.

`NoCallLost` has a second inductive invariant, `CallInv`, on top of it.
`EndCallInv` says that an `end()` without a callback is that of an ended iterator,
registered unless `close()` ended it, and so one with an EndWorker; `FinishedInv`
that an iterator read to its end has `nexting` FALSE and no deferred EndWorker;
`CloseCallInv` that a `close()` without a callback is in the pool, is the pending
one, or was replaced by another in `pendingCloseWorker`.  Its step for `NextSucceeds` is where
`checkEndCallback` must take the deferred worker before it forgets it; in
`NextBringsNothing` it goes to the pool in front of the NextWorker of the next round.  The
theorem is what safety can say of the three liveness properties of
`lifecycle_liveness`: a state in which nothing is left to run has lost no call
but those they except.

### Scan

`IInv` places every row.  The rows delivered or dropped by `seek()`, those in the
cache (two cells each, last row first), those in the result, and those of the batch that are unread
follow one another without a gap from 1 to `fetched`; so `RowsInOrder` is the
first part of one numbering, and `RowsAccounted` its length.  What breaks that order
is an error, after which `iteratorStatus` stays false and nothing reads the
parts again; the cache is empty whenever the native iterator is asked, which is
why `Complete` may replace it.

The refinement (`CursorRefinement`) needs no more than that invariant.  The steps
that create the scanner, make it fail, call back and drop the cache are steps of the
cursor, all others stutter: that the row called back is the next one is `RowsInOrder`, that
there is one left, or that the end may be reported, is the numbering.

That no `next()` runs for ever is a liveness property, but its core is not: with
`Phase` (how far the call is from its answer) and `Left` (how often it may stay where
it is: the batches still to fetch, or the rows of this one to convert), each
`Step` lowers `Phase`, or keeps it and lowers `Left`, if `highWaterMark` is
positive, and `Write` raises neither.  `NextFinishes` proves this and that both
are natural numbers; it needs `ReadInv`: a read that says it has rows has some.
What fairness adds, that a step that can be taken is, is left to TLC
(`NextReturns`).

### Tracer

`QueueBounded` is not inductive: a thread past the length test will add a
message, or clear the queue and then add two.  `QueueAndOwedBounded` counts what the
threads owe with what is queued.  Its step for `LogBegin` is where the length test
is used, that for `LogClear` where it pays back.  `LossIsAnnounced` holds because
a thread that clears goes on to queue a notice, and a notice is lost only to another
clear, after which that thread owes one of its own, or taken from the queue by
what calls a logger with it or by what is known to lose it.  `WakeUpPending` follows `LogEnqueue` to `LogTest` to
`LogSignal`, and the callback of the loop to the end of its flush; each hands on the
wake-up before it lets go of its own.  The refinement needs that the queue is a
run of consecutive numbers that ends at `sent` and begins after `received`.

### Ownership

`IInv` ties the state of the heap to the stage of the call: memory is
`allocated` exactly for the copied slices of a call that has not completed.  From
there the chain of `WorkComplete` methods of each class is followed argument by
argument: each is disposed of by one of them at most, under the name its handle was
saved under, which gives `FreedOnce`, and by one at least where `LeaksAreKnown` says
so; the Buffers of a pending call are in its
`Persistent`, so the collector has not taken them, which gives `ArgumentsAlive`;
and an iterator whose end is deferred or queued has a worker, which gives
`EndedIteratorsLeave`.

### Operations and batches

`IInv` follows each operation of a batch from the list to the session and to the
server: while nothing is sent the session holds every applied operation, in
order; while it is flushed, of the operations on one row those that have left the
session come first (`RowOrder`), and unless there was an error those that have
left it succeeded.  So an acknowledged batch lost none, and the last write of a
row is followed only by operations of its batch still in the session
(`LastInv`), of which none is left when the flush ends.  `AckedMeansOpened` is not
inductive: it needs that without a table the status kept is an error
(`StatusKept`).  `GetIsCurrent` needs that a row holds what it was last asked to
(`RowInv`), unless that was a zero-length value, that only this row is scanned if
the table is `keyed`, and that a `get()` in flight counts
it among what was asked (`GetInv`); a step of one call changes neither for another,
which `LocalStep` and `ServerStep` show once for all actions.

The refinement maps each step of one call to one of the contract or to a stutter.
A call begins when it is made, a batch when it is written; `Apply` and the start of
the flush are stutters; a row operation of the flush is `Carry`, which may take it
because the session lets an operation leave only when no earlier one on its row is
left; a `put()` or `del()` is `Carry` together with its answer; a batch ends in
`GiveUp`, where `FlushInv`, which says that what left the session without an error
succeeded, makes its "ok" believable; a `get()` is `Read`, where `RowInv` says that
what the row holds is what it was last asked to hold, or that this was empty.

### Avro records

`ExchangeInv` is the inductive invariant: while the message is under way it is what
`Encode` gave, or a proper beginning of it if it was cut; the object is well formed;
and the two properties of what arrives.  Its step for `DecodeMessage` needs what
`Encode` and `Decode` compute for values of any size, which two facts about a
reader say, each proved for the types of one level from those of the level below:

* `Sound`: a reader of a well-formed object leaves it well formed, whatever tokens
  it is given and wherever it throws (`SoundEverywhere`).  This is where a union is
  set only when its branch is complete, a vector is emptied first, and an enum
  is tested before it is assigned.
* `Faithful`: given what an encoder wrote and perhaps more, or a beginning of it, a
  reader finishes exactly when all was written and all of it is there and no number
  is out of bounds, consumes just that, and leaves the object equal to the value
  (`FaithfulEverywhere`).  `Comparable` and `Agrees` are the two halves of that
  statement; `ThenAgrees` composes it for two parts, `ReadAllFaithful` for the items
  of a vector and the fields of a record, in either order.

The loops are as long as a vector is, so `WriteAll` and `ReadAll` need an induction
over numbers.  The induction theorems of the library take a predicate as a
parameter; `SetInduction` states the same of a set (one that has 0, and n when it has
n - 1) and follows from `LeastNat`, which the well-foundedness of the naturals
gives.  `RunExists` gets from it that a function defined by recursion on 0 .. m
exists.  The levels are few and are gone through by the same lemma.  `TypesAre` shows
that the records of the messages are of at most six levels, that their field
names differ, and that a constructor makes all their members; it is what lets the
outermost operators stand for all of them.

The assumptions are `AvroAssumption`, that a `size_t` has room for the conversion of
every negative `int` beyond every positive one, and `ExchangeAssumption`, that the
samples are values an object of their type can hold, in or out of bounds, and that
a replaced number is one a decoder can return.

### Only model-checked

The liveness properties (`NextReturns`, `EndReturnsUnlessStranded`,
`CloseReturnsUnlessBlocked`, `Drained`) are out of the prover's reach.  Their safety
halves are not, and are theorems: `NoCallLost` for the calls of the life cycle,
`NextFinishes` for the scan, `WakeUpIsPending` for the tracer.  What is left to TLC
is that fair steps, taken for ever, get there.  The violations are TLC's.

## 5. Not modelled

* The wrap of the 32-bit `currentIteratorId`: ids are never reused in the model.
* `open()` with other calls in flight: the repository's README leaves that to
  levelup ("levelup currently tracks and manages state"); on its own it is a race on
  two smart pointers, whose outcomes the language does not bound.  The same goes
  for `deinit` beside a thread that logs, of which the model says only that it can
  happen.
* The formats `getSliceAsString` writes; only whether it succeeds is modelled.
* The range options of an iterator, which the code parses and does not use.
* What `std::stoi` does with a `TRACER_BUFFER_LENGTH` that is no number, and the
  values of `log_level` outside the enumeration.
* `KuduPredicate.h` and `KuduComparisonPredicate.h`, which name a field `operator`
  and do not compile; `KuduScan.h` holds the same types with that corrected.  The
  headers of single types repeat what the four modelled ones contain.
* `getProperty`, `destroy`, `repair`: stubs that keep no state.  The results of
  `approximateSize` and `compactRange`: constants.
* Schema tools, benchmarks, tests and vendored code.

## 6. Plan

In the order of importance; what is done is marked.

1. (done) `AsyncWork`, `IteratorLifecycle`, `IteratorContract`: safety,
   liveness, refinement, proofs.
2. (done) `IteratorScan` and `CursorContract`: rows, limit, errors, refinement,
   by TLC and by proof.
3. (done) `Tracer` and `LossyLog`: safety, liveness, refinement, proofs.
4. (done) `Ownership`: arguments, leaks, collected iterators, by TLC and by proof.
5. (done) `AvroRecords` and `AvroExchange`, by TLC and by proof.
6. (done) `DatabaseOps`: operations and batches, by TLC and by proof.
7. (done) `TableContract`, which DatabaseOps implements, by TLC and by proof.
8. `getSliceAsString` by column type, as an operator checked against a
   reference, if the integer widths turn out to matter.
