------------------------------ MODULE Ownership -------------------------------
(***************************************************************************)
(* Who owns the memory the main thread, the pool and the garbage collector *)
(* share: the arguments of a call, which the macros of kududown.h turn     *)
(* into slices that a worker reads later, and the native iterators, which  *)
(* Database::iterators points to without keeping them alive.               *)
(*                                                                         *)
(* A string argument is copied to memory of the addon; of a Buffer only    *)
(* the address is taken, and the worker's persistent handle keeps the      *)
(* Buffer alive.  The arguments of the write batches are copied before the *)
(* call returns.  What the calls do to the table is DatabaseOps's, and how *)
(* next() and end() proceed IteratorLifecycle's.                           *)
(***************************************************************************)
EXTENDS FiniteSets

CONSTANTS
    Calls,                \* the calls that queue a worker
    Buffers,              \* the Buffers of the program
    Iterators,            \* the iterators it creates
    Contents, EMPTY,      \* what strings and Buffers hold; EMPTY has no bytes
    NULL

ASSUME OwnershipAssumption == EMPTY \in Contents /\ NULL \notin Contents \cup Buffers

\* What a method is called with: null, a string, or a Buffer.
Strings == [buffer : {NULL}, content : Contents]
Values  == Strings \cup [buffer : Buffers, content : {NULL}] \cup {NULL}

VARIABLES
    content, held, collected,  \* Buffers: bytes, those the program refers to, those gone
    call,                      \* the calls and their workers
    heap,                      \* what became of the memory of each argument
    iterator,                  \* the native iterators and their workers
    iterators,                 \* Database::iterators
    crashed                    \* memory was used after it had been freed

buffers == <<content, held, collected>>
native  == <<iterator, iterators>>
vars    == <<buffers, call, heap, native, crashed>>

\* The arguments of each method, and those Execute reads.
Args == [put |-> {"key", "value"}, get |-> {"key"}, del |-> {"key"},
         batch |-> {"key", "value"}, approximateSize |-> {"start", "end"},
         compactRange |-> {"start", "end"}]
Ops   == DOMAIN Args
Names == {"key", "value", "start", "end"}
Read  == [op \in Ops |-> IF op \in {"approximateSize", "compactRange"} THEN {} ELSE Args[op]]

\* The names under which the constructors keep the arguments: CompactRangeWorker
\* has names of its own, BatchWorker keeps none.
Handles == [op \in Ops |-> CASE op = "batch"        -> {}
                             [] op = "compactRange" -> {"compactStart", "compactEnd"}
                             [] OTHER               -> Args[op]]

\* A slice points to nothing, to memory the macro allocated, or into a Buffer.
Slices == [at : {"null"}, buffer : {NULL}, text : {EMPTY}]
          \cup [at : {"new", "copy"}, buffer : {NULL}, text : Contents]
          \cup [at : {"buffer"}, buffer : Buffers, text : Contents]

NoCall     == [op |-> "none", stage |-> "none", slice |-> <<>>, handle |-> <<>>, read |-> <<>>]
NoIterator == [stage |-> "none", held |-> FALSE, nexting |-> FALSE, next |-> "none", end |-> "none"]

\* How IteratorNext ends: with rows, at the end of the data, with a bad status,
\* or with no scanner.
Outcomes == {"rows", "eof", "error", "openError"}

CallsOf(op) ==
    [op : {op}, stage : {"queued", "executed", "callback", "done"},
     slice : [Args[op] -> Slices], handle : [Handles[op] -> Buffers \cup {NULL}],
     read : [Args[op] -> Contents \cup {NULL}]]

HeapStates == {"none", "allocated", "freed", "misfreed"}

TypeOK ==
    /\ content \in [Buffers -> Contents] /\ held \subseteq Buffers /\ collected \subseteq Buffers \ held
    /\ call = [c \in Calls |-> call[c]]
    /\ \A c \in Calls : call[c] = NoCall \/ \E op \in Ops : call[c] \in CallsOf(op)
    /\ heap \in [Calls -> [Names -> HeapStates]]
    /\ iterator \in [Iterators -> [stage : {"none", "alive", "collected"}, held : BOOLEAN,
                                   nexting : BOOLEAN, next : Outcomes \cup {"none", "queued"},
                                   end : {"none", "deferred", "queued", "done"}]]
    /\ iterators \subseteq Iterators
    /\ crashed \in BOOLEAN

Init ==
    /\ content \in [Buffers -> Contents] /\ held = Buffers /\ collected = {}
    /\ call = [c \in Calls |-> NoCall]
    /\ heap = [c \in Calls |-> [a \in Names |-> "none"]]
    /\ iterator = [i \in Iterators |-> NoIterator]
    /\ iterators = {}
    /\ crashed = FALSE

-----------------------------------------------------------------------------
(* The macros of kududown.h.                                                 *)

\* LD_STRING_OR_BUFFER_TO_SLICE
Slice(v) ==
    IF v = NULL THEN [at |-> "null", buffer |-> NULL, text |-> EMPTY]
    ELSE IF v.buffer = NULL THEN [at |-> "new", buffer |-> NULL, text |-> v.content]
    ELSE [at |-> "buffer", buffer |-> v.buffer, text |-> content[v.buffer]]

\* DisposeStringOrBufferFromSlice passes over the slices of no bytes, and those
\* whose handle, the Buffer or NULL, is a Buffer's.
Disposed_EvenOfBuffers(handle, s) == s.text # EMPTY
Disposed(handle, s)               == s.text # EMPTY /\ handle = NULL

\* A free of memory that is not the addon's, or not any more.
Free(state) == IF state = "allocated" THEN "freed" ELSE "misfreed"

\* A call's part of the heap h, when its slices have been made and when one of
\* them has been disposed of.
Allocated(slice) ==
    [a \in Names |-> IF a \in DOMAIN slice /\ slice[a].at = "new" THEN "allocated" ELSE "none"]
Dispose(h, handle, slice, a) ==
    IF Disposed(handle, slice[a]) THEN [h EXCEPT ![a] = Free(@)] ELSE h

-----------------------------------------------------------------------------
(* Calls.                                                                    *)

\* What AbstractLevelDOWN and kududown.js let through: keys that are not empty,
\* values that are not null, bounds of approximateSize that are not null.
Accepted(op, arg) ==
    /\ \A a \in DOMAIN arg : arg[a] # NULL => arg[a].buffer \in held \cup {NULL}
    /\ "key" \in DOMAIN arg => arg["key"] # NULL /\ Slice(arg["key"]).text # EMPTY
    /\ op # "compactRange" => \A a \in DOMAIN arg : arg[a] # NULL

\* What is read of a copied slice is what the batch keeps, a std::string.
Kept_Slices(slice) == slice
Kept(slice)        == [a \in DOMAIN slice |-> [at |-> "copy", buffer |-> NULL, text |-> slice[a].text]]

\* The constructor of the worker, SaveToPersistent.
Saved(op, slice) ==
    CASE op = "batch"        -> <<>>
      [] op = "compactRange" -> [n \in Handles[op] |->
                                   slice[IF n = "compactStart" THEN "start" ELSE "end"].buffer]
      [] OTHER               -> [n \in Handles[op] |-> slice[n].buffer]

\* A batch disposes of what it has copied.
Batched(slice) ==
    LET keyDone == Dispose(Allocated(slice), slice["key"].buffer, slice, "key")
    IN  Dispose(keyDone, slice["value"].buffer, slice, "value")

\* put, get, del, batch, approximateSize and compactRange queue a worker.
Call(c, op, arg) ==
    LET slice == [a \in Args[op] |-> Slice(arg[a])] IN
    /\ call[c] = NoCall
    /\ Accepted(op, arg)
    /\ call' = [call EXCEPT ![c] =
                  [op |-> op, stage |-> "queued",
                   slice |-> IF op = "batch" THEN Kept(slice) ELSE slice,
                   handle |-> Saved(op, slice),
                   read |-> [a \in Args[op] |-> NULL]]]
    /\ heap' = [heap EXCEPT ![c] =
                  IF op = "batch" THEN Batched(slice) ELSE Allocated(slice)]
    /\ UNCHANGED <<buffers, native, crashed>>

\* On a pool thread, while the main thread goes on.
Content(s) == IF s.at = "buffer" THEN content[s.buffer] ELSE s.text

Gone(c, a) == LET s == call[c].slice[a] IN
    \/ s.at = "buffer" /\ s.buffer \in collected
    \/ s.at = "new" /\ heap[c][a] # "allocated"

ExecuteRead(c, a) ==
    /\ call[c].stage = "queued"
    /\ a \in Read[call[c].op] /\ call[c].read[a] = NULL
    /\ call' = [call EXCEPT ![c].read[a] = Content(call[c].slice[a])]
    /\ crashed' = (crashed \/ Gone(c, a))
    /\ UNCHANGED <<buffers, heap, native>>

\* Execute may also return before it has read anything: no connection.
ExecuteEnds(c) ==
    /\ call[c].stage = "queued"
    /\ call' = [call EXCEPT ![c].stage = "executed"]
    /\ UNCHANGED <<buffers, heap, native, crashed>>

\* GetFromPersistent: undefined, and no Buffer, under a name nobody saved.
GetFromPersistent(cl, name) == IF name \in DOMAIN cl.handle THEN cl.handle[name] ELSE NULL

\* WorkComplete of the classes, each for its own members and then its parent's.
IOWorker_WorkComplete(h, cl) ==
    Dispose(h, GetFromPersistent(cl, "key"), cl.slice, "key")

WriteWorker_WorkComplete_BothMembers(h, cl) ==
    LET valueDone == Dispose(h, GetFromPersistent(cl, "value"), cl.slice, "value")
    IN  IOWorker_WorkComplete(Dispose(valueDone, GetFromPersistent(cl, "key"), cl.slice, "key"), cl)

WriteWorker_WorkComplete_Inherited(h, cl) == IOWorker_WorkComplete(h, cl)

WriteWorker_WorkComplete(h, cl) ==
    IOWorker_WorkComplete(Dispose(h, GetFromPersistent(cl, "value"), cl.slice, "value"), cl)

CompactRangeWorker_WorkComplete(h, cl) ==
    LET startDone == Dispose(h, GetFromPersistent(cl, "compactStart"), cl.slice, "start")
    IN  Dispose(startDone, GetFromPersistent(cl, "compactEnd"), cl.slice, "end")

\* The class of the worker decides: put's is a WriteWorker, get's a ReadWorker and
\* del's a DeleteWorker with IOWorker's; ApproximateSizeWorker's disposes of
\* nothing and BatchWorker has none of its own.
HeapAfter(h, cl) ==
    CASE cl.op = "put"                          -> WriteWorker_WorkComplete(h, cl)
      [] cl.op \in {"get", "del"}               -> IOWorker_WorkComplete(h, cl)
      [] cl.op = "compactRange"                 -> CompactRangeWorker_WorkComplete(h, cl)
      [] cl.op \in {"batch", "approximateSize"} -> h

\* The arguments are disposed of before the callback is called.
WorkComplete(c) ==
    /\ call[c].stage = "executed"
    /\ call' = [call EXCEPT ![c].stage = "callback"]
    /\ heap' = [heap EXCEPT ![c] = HeapAfter(@, call[c])]
    /\ UNCHANGED <<buffers, native, crashed>>

\* The worker is deleted, its persistent handles with it.
Destroy_Resets(c) ==
    /\ call[c].stage = "callback"
    /\ call' = [call EXCEPT ![c].stage = "none"]
    /\ UNCHANGED <<buffers, heap, native, crashed>>

Destroy(c) ==
    /\ call[c].stage = "callback"
    /\ call' = [call EXCEPT ![c].stage = "done"]
    /\ UNCHANGED <<buffers, heap, native, crashed>>

\* What the worker's persistent handle keeps alive until it is deleted.
HandleOf(c) == {call[c].handle[n] : n \in DOMAIN call[c].handle}
Persistent_UntilExecuted(c) ==
    IF call[c].stage = "queued" /\ call[c].op # "put" THEN HandleOf(c) ELSE {}
Persistent(c) ==
    IF call[c].stage \in {"queued", "executed", "callback"} THEN HandleOf(c) ELSE {}

-----------------------------------------------------------------------------
(* Iterators.                                                                *)

NewIterator(i) ==
    /\ iterator[i].stage = "none"
    /\ iterator' = [iterator EXCEPT ![i].stage = "alive", ![i].held = TRUE]
    /\ iterators' = iterators \cup {i}
    /\ UNCHANGED <<buffers, call, heap, crashed>>

\* One next() at a time, and none after end() (AbstractIterator).
IteratorNext(i) ==
    /\ iterator[i].held /\ iterator[i].next = "none" /\ iterator[i].end = "none"
    /\ iterator' = [iterator EXCEPT ![i].next = "queued", ![i].nexting = TRUE]
    /\ UNCHANGED <<buffers, call, heap, iterators, crashed>>

\* NextWorker::Execute, on a pool thread: a read that returned rows leaves nexting
\* set, one that ended or failed clears it, and one without a scanner leaves it.
NextExecutes(i, outcome) ==
    /\ iterator[i].next = "queued"
    /\ iterator' = [iterator EXCEPT
         ![i].next = outcome,
         ![i].nexting = IF outcome = "openError" THEN @ ELSE outcome = "rows"]
    /\ UNCHANGED <<buffers, call, heap, iterators, crashed>>

\* checkEndCallback is not called when it failed.
NextCompletes(i) ==
    /\ iterator[i].next \in Outcomes
    /\ iterator' = [iterator EXCEPT
         ![i].next = "none",
         ![i].end = IF @ = "deferred" /\ iterator[i].next \in {"rows", "eof"} THEN "queued" ELSE @]
    /\ UNCHANGED <<buffers, call, heap, iterators, crashed>>

End(it) == IF it.end # "none" THEN it
           ELSE [it EXCEPT !.end = IF it.nexting THEN "deferred" ELSE "queued"]

IteratorEnd(i) ==
    /\ iterator[i].held /\ iterator[i].end = "none"
    /\ iterator' = [iterator EXCEPT ![i] = End(@)]
    /\ UNCHANGED <<buffers, call, heap, iterators, crashed>>

EndCompletes(i) ==
    /\ iterator[i].end = "queued"
    /\ iterator' = [iterator EXCEPT ![i].end = "done"]
    /\ iterators' = iterators \ {i}
    /\ UNCHANGED <<buffers, call, heap, crashed>>

\* Database::Close looks at every iterator registered and ends it.
Close ==
    /\ iterator' = [i \in Iterators |-> IF i \in iterators THEN End(iterator[i]) ELSE iterator[i]]
    /\ crashed' = (crashed \/ \E i \in iterators : iterator[i].stage = "collected")
    /\ UNCHANGED <<buffers, call, heap, iterators>>

\* A NextWorker and an EndWorker keep the iterator in a persistent handle.
WorkersOf_NextOnly(i) == IF iterator[i].next # "none" THEN {"next"} ELSE {}
WorkersOf(i) == (IF iterator[i].next # "none" THEN {"next"} ELSE {})
                \cup (IF iterator[i].end \in {"deferred", "queued"} THEN {"end"} ELSE {})

-----------------------------------------------------------------------------
(* The program and the collector.                                            *)

\* A Buffer keeps its length.
WriteBuffer(b, v) ==
    /\ b \in held /\ content[b] # EMPTY /\ v # EMPTY
    /\ content' = [content EXCEPT ![b] = v]
    /\ UNCHANGED <<held, collected, call, heap, native, crashed>>

DropBuffer(b) ==
    /\ b \in held
    /\ held' = held \ {b}
    /\ UNCHANGED <<content, collected, call, heap, native, crashed>>

DropIterator(i) ==
    /\ iterator[i].held
    /\ iterator' = [iterator EXCEPT ![i].held = FALSE]
    /\ UNCHANGED <<buffers, call, heap, iterators, crashed>>

CollectBuffer(b) ==
    /\ b \notin held \cup collected
    /\ \A c \in Calls : b \notin Persistent(c)
    /\ collected' = collected \cup {b}
    /\ UNCHANGED <<content, held, call, heap, native, crashed>>

\* ~Iterator runs; nobody tells the Database.
CollectIterator(i) ==
    /\ iterator[i].stage = "alive" /\ ~iterator[i].held /\ WorkersOf(i) = {}
    /\ iterator' = [iterator EXCEPT ![i].stage = "collected"]
    /\ UNCHANGED <<buffers, call, heap, iterators, crashed>>

CallStep ==
    \E c \in Calls :
        \/ \E op \in Ops : \E arg \in [Args[op] -> Values] : Call(c, op, arg)
        \/ \E a \in DOMAIN call[c].slice : ExecuteRead(c, a)
        \/ ExecuteEnds(c) \/ WorkComplete(c) \/ Destroy(c)

IteratorStep ==
    \/ Close
    \/ \E i \in Iterators :
        \/ NewIterator(i) \/ IteratorNext(i) \/ IteratorEnd(i) \/ EndCompletes(i)
        \/ NextCompletes(i) \/ \E outcome \in Outcomes : NextExecutes(i, outcome)
        \/ DropIterator(i) \/ CollectIterator(i)

BufferStep ==
    \E b \in Buffers :
        DropBuffer(b) \/ CollectBuffer(b) \/ \E v \in Contents : WriteBuffer(b, v)

Next == CallStep \/ IteratorStep \/ BufferStep

Spec == Init /\ [][Next]_vars

-----------------------------------------------------------------------------
(* Properties                                                                *)

Pending(c) == call[c].stage \in {"queued", "executed"}

\* A worker finds its arguments whenever the pool gets to it, however the
\* program dropped them (SaveToPersistent, database_async.cc:80, 104, 169).
ArgumentsAlive ==
    \A c \in Calls : Pending(c) => \A a \in Read[call[c].op] : ~Gone(c, a)

\* No argument is freed twice, though the classes of a worker dispose of them in
\* turn, each what it takes for its own (WriteWorker::WorkComplete and then
\* IOWorker's, database_async.cc:181-186), and no Buffer's memory is freed by the
\* addon, which knows it only by the name its handle was saved under.
FreedOnce ==
    \A c \in Calls : \A a \in Names : heap[c][a] # "misfreed"

\* What is left of a call that completed: the strings of no bytes, which
\* Dispose passes over (kududown.h:48), and all of approximateSize's
\* (database_async.cc:234).
LeaksAreKnown ==
    \A c \in Calls : call[c].stage \in {"callback", "done"} =>
        \A a \in DOMAIN call[c].slice :
            heap[c][a] = "allocated" =>
                call[c].slice[a].text = EMPTY \/ call[c].op = "approximateSize"

\* What a worker reads is what the call was given, of strings and by batches of
\* Buffers too, which WriteBatch copies (write_batch.cc:24-42); a Buffer of any
\* other call is read late, and the program may have changed it.
OnlyBuffersAreReadLate ==
    \A c \in Calls : \A a \in DOMAIN call[c].read :
        call[c].read[a] \notin {NULL, call[c].slice[a].text} =>
            call[c].slice[a].at = "buffer" /\ call[c].op # "batch"

\* An iterator whose end() was called is not collected before it has left the
\* registry, wherever its EndWorker waits (iterator.cc:334-346, 103-106 of
\* iterator_async.cc).
EndedIteratorsLeave ==
    ~crashed => \A i \in iterators : iterator[i].end # "none" => iterator[i].stage = "alive"

\* cleanup-hanging-iterators-test.js: close() copes with iterators the program
\* dropped without calling end().
HangingIteratorsSurvive == ~crashed

=============================================================================
