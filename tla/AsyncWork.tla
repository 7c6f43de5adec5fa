------------------------------ MODULE AsyncWork ------------------------------
(***************************************************************************)
(* The libuv thread pool as Nan::AsyncWorker uses it.  External code,      *)
(* modelled from what src/ relies on: Nan::AsyncQueueWorker appends a      *)
(* worker to one FIFO queue, at most Threads pool threads take workers     *)
(* from it in order, a thread runs Execute and then posts the worker to a  *)
(* second FIFO, and the main loop completes the posted workers in order.   *)
(* Execute and the post are separate steps: whatever Execute wrote is      *)
(* visible to the main thread before the worker's callback can run, and    *)
(* another thread may post in between.                                     *)
(***************************************************************************)
EXTENDS Integers, Sequences, FiniteSets, Functions

CONSTANT Threads          \* size of the pool (UV_THREADPOOL_SIZE)

ASSUME ThreadsAssumption == Threads \in Nat \ {0}

VARIABLES
    workQueue,            \* workers queued and not yet taken by a thread
    running,              \* workers a thread has taken and not yet posted
    executed,             \* those of running whose Execute has returned
    doneQueue             \* workers posted to the main loop

pool == <<workQueue, running, executed, doneQueue>>

PoolInit ==
    /\ workQueue = <<>>
    /\ running = {}
    /\ executed = {}
    /\ doneQueue = <<>>

\* The workers that have been queued and not yet completed.
InPool == Range(workQueue) \cup running \cup Range(doneQueue)

\* Those whose Execute has not returned.
Unexecuted == Range(workQueue) \cup (running \ executed)

AsyncQueueWorkers(workers) == workQueue' = workQueue \o workers

\* A pool thread takes the oldest queued worker.
StartWork ==
    /\ workQueue # <<>>
    /\ Cardinality(running) < Threads
    /\ running' = running \cup {Head(workQueue)}
    /\ workQueue' = Tail(workQueue)
    /\ UNCHANGED <<executed, doneQueue>>

\* The pool's part of running Execute of worker w.
ExecuteWork(w) ==
    /\ w \in running \ executed
    /\ executed' = executed \cup {w}
    /\ UNCHANGED <<workQueue, running, doneQueue>>

\* The thread that ran w hands it to the main loop.
PostWork(w) ==
    /\ w \in executed
    /\ running' = running \ {w}
    /\ executed' = executed \ {w}
    /\ doneQueue' = Append(doneQueue, w)
    /\ UNCHANGED workQueue

\* The main loop takes the oldest posted worker; the component that extends
\* this module adds what WorkComplete does.
TakeDone(w) ==
    /\ doneQueue # <<>>
    /\ w = Head(doneQueue)
    /\ doneQueue' = Tail(doneQueue)

-----------------------------------------------------------------------------

\* A queued worker is in one place until it completes: in one of the queues,
\* once, or on a thread.  libuv requires that of a uv_work_t.
PlacedOnce ==
    /\ IsInjective(workQueue)
    /\ IsInjective(doneQueue)
    /\ Range(workQueue) \cap (running \cup Range(doneQueue)) = {}
    /\ running \cap Range(doneQueue) = {}
    /\ executed \subseteq running

\* Every worker in the pool is one of workers.
PoolTypeOK(workers) ==
    /\ workQueue \in Seq(workers)
    /\ doneQueue \in Seq(workers)
    /\ running \subseteq workers
    /\ executed \subseteq running

=============================================================================
