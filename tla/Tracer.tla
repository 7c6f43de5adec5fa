-------------------------------- MODULE Tracer --------------------------------
(***************************************************************************)
(* The tracer (tracer.cpp): any thread logs into a queue behind a mutex    *)
(* (threadsafe_queue.h) and signals the main thread's event loop, which    *)
(* flushes the queue into the logger that JavaScript registered.           *)
(*                                                                         *)
(* Every operation of the queue is one step.  length() reads a counter     *)
(* without the mutex, but the counter changes once in an operation, and    *)
(* nobody sees the queue but through the operations.  uv_async_send        *)
(* (uvasync.cpp) is external: the loop calls back once for the signals     *)
(* sent since it last did.  A logger may log, flush and register a logger. *)
(***************************************************************************)
EXTENDS Naturals, Sequences, FiniteSets, SequencesExt

CONSTANTS
    Pool,                 \* the threads of the pool
    Main,                 \* the thread of the event loop
    Loggers,              \* the functions given to RegisterLogger
    NULL,                 \* no function
    Levels,               \* the levels messages have and log_level is set to
    BatchLengths,         \* what batch_length is set to, 0 among them or not
    BufferLengths,        \* what TRACER_BUFFER_LENGTH is
    MaxLogs,              \* bound: calls of Log
    MaxFlushes,           \* bound: calls of Flush
    MaxRegisters          \* bound: calls of RegisterLogger and of the setters

\* enum LogLevel
TRACE == 0
DEBUG == 1
INFO  == 2
WARN  == 3
ERROR == 4
FATAL == 5

ASSUME TracerAssumption ==
    /\ Main \notin Pool /\ IsFiniteSet(Pool)
    /\ NULL \notin Loggers
    /\ Levels \subseteq TRACE .. FATAL
    /\ BatchLengths \subseteq Nat
    /\ BufferLengths \subseteq Nat
    /\ MaxLogs \in Nat /\ MaxFlushes \in Nat /\ MaxRegisters \in Nat

Threads == Pool \cup {Main}

VARIABLES
    log_messages,         \* the queue
    log_level, batch_length, buffer_length,
    logger,               \* the function registered
    logger_async,         \* whether the pointer holds a uvasync
    signalled,            \* the loop will call _async_logger_callback
    pc, level,            \* where each thread is in Log, and the level it logs
    frames,               \* the calls of flush_log_messages, innermost last
    calls,                \* the calls of Log, Flush and the rest so far
    \* history
    sent,                 \* how many messages have been queued
    received,             \* the number of the last one a logger was given
    loss                  \* of messages overwritten: whether a notice of it is owed

queue    == <<log_messages, sent>>
settings == <<log_level, batch_length, buffer_length>>
async    == <<logger_async, signalled>>
log      == <<pc, level>>

vars == <<queue, settings, logger, async, log, frames, calls, received, loss>>

Message == [number : Nat, level : TRACE .. FATAL, notice : BOOLEAN]

Frame == [callback : Loggers \cup {NULL}, max_in_batch : Nat,
          at : {"dequeue", "call", "signal"}]

TypeOK ==
    /\ log_messages \in Seq(Message)
    /\ log_level \in TRACE .. FATAL
    /\ batch_length \in Nat \ {0} /\ buffer_length \in Nat \ {0}
    /\ logger \in Loggers \cup {NULL}
    /\ logger_async \in BOOLEAN /\ signalled \in BOOLEAN
    /\ pc \in [Threads -> {"idle", "clear", "notice", "enqueue", "test", "signal", "crashed"}]
    /\ level \in [Threads -> TRACE .. FATAL]
    /\ frames \in Seq(Frame)
    /\ calls \in [{"Log", "Flush", "Register"} -> Nat]
    /\ sent \in Nat /\ received \in Nat
    /\ loss \in {"none", "owed", "dropped"}

\* Init of the addon: an environment variable that is not set reads as 0.
AtLeastOne_Unchecked(n) == n
AtLeastOne(n) == IF n < 1 THEN 1 ELSE n
FromEnvironment(n) == IF n < 1 THEN 1000 ELSE n

Init ==
    /\ log_messages = <<>>
    /\ log_level \in Levels
    /\ batch_length \in {FromEnvironment(n) : n \in BatchLengths}
    /\ buffer_length \in {FromEnvironment(n) : n \in BufferLengths}
    /\ logger = NULL
    /\ logger_async = TRUE /\ signalled = FALSE
    /\ pc = [t \in Threads |-> "idle"] /\ level = [t \in Threads |-> TRACE]
    /\ frames = <<>>
    /\ calls = [k \in {"Log", "Flush", "Register"} |-> 0]
    /\ sent = 0 /\ received = 0 /\ loss = "none"

-----------------------------------------------------------------------------
(* tracer::Log, on any thread.  The level and the length are read together.  *)

\* JavaScript runs, outside a flush or as the logger of the innermost one.
JavaScriptRuns ==
    /\ logger_async /\ pc[Main] = "idle"
    /\ frames # <<>> => Last(frames).at = "call"

Call(k, max) == calls[k] < max /\ calls' = [calls EXCEPT ![k] = @ + 1]

Goto(t, stage) == pc' = [pc EXCEPT ![t] = stage]

\* A stack in the place of the queue.
Enqueued_InFront(l, isNotice) ==
    /\ log_messages' = <<[number |-> sent + 1, level |-> l, notice |-> isNotice]>> \o log_messages
    /\ sent' = sent + 1

Enqueued(l, isNotice) ==
    /\ log_messages' = Append(log_messages, [number |-> sent + 1, level |-> l, notice |-> isNotice])
    /\ sent' = sent + 1

Dequeued == log_messages # <<>> /\ log_messages' = Tail(log_messages) /\ UNCHANGED sent

Cleared == log_messages' = <<>> /\ UNCHANGED sent

NoticeQueued == \E i \in DOMAIN log_messages : log_messages[i].notice

\* A notice has left the queue, for a logger that was called with it or for
\* nobody: only the first tells of the loss.
NoticeTaken(called) ==
    loss' = IF called THEN "none" ELSE IF loss = "owed" THEN "dropped" ELSE loss

LogBegin(t, l) ==
    /\ pc[t] = "idle" /\ (t = Main => JavaScriptRuns)
    /\ Call("Log", MaxLogs)
    /\ l >= log_level
    /\ Goto(t, IF Len(log_messages) > buffer_length THEN "clear" ELSE "enqueue")
    /\ level' = [level EXCEPT ![t] = l]
    /\ UNCHANGED <<queue, settings, logger, async, frames, received, loss>>

\* The messages stay.
LogClear_Kept(t) ==
    /\ pc[t] = "clear"
    /\ loss' = "owed"
    /\ Goto(t, "notice")
    /\ UNCHANGED <<queue, settings, logger, async, level, frames, calls, received>>

LogClear(t) ==
    /\ pc[t] = "clear"
    /\ Cleared
    /\ loss' = "owed"
    /\ Goto(t, "notice")
    /\ UNCHANGED <<settings, logger, async, level, frames, calls, received>>

\* The notice is queued only by a thread that finds the queue still empty.
LogNotice_OnlyIntoEmpty(t) ==
    /\ pc[t] = "notice"
    /\ IF log_messages = <<>> THEN Enqueued(WARN, TRUE) ELSE UNCHANGED queue
    /\ Goto(t, "enqueue")
    /\ UNCHANGED <<settings, logger, async, level, frames, calls, received, loss>>

LogNotice(t) ==
    /\ pc[t] = "notice"
    /\ Enqueued(WARN, TRUE)
    /\ Goto(t, "enqueue")
    /\ UNCHANGED <<settings, logger, async, level, frames, calls, received, loss>>

LogEnqueue(t) ==
    /\ pc[t] = "enqueue"
    /\ Enqueued(level[t], FALSE)
    /\ Goto(t, "test")
    /\ UNCHANGED <<settings, logger, async, level, frames, calls, received, loss>>

\* Only the message that found the queue empty is signalled.
LogTest_FirstOnly(t) ==
    /\ pc[t] = "test"
    /\ Goto(t, IF logger_async /\ Len(log_messages) = 1 THEN "signal" ELSE "idle")
    /\ UNCHANGED <<queue, settings, logger, async, level, frames, calls, received, loss>>

LogTest(t) ==
    /\ pc[t] = "test"
    /\ Goto(t, IF logger_async THEN "signal" ELSE "idle")
    /\ UNCHANGED <<queue, settings, logger, async, level, frames, calls, received, loss>>

\* deinit may have reset the pointer since it was tested.
LogSignal(t) ==
    /\ pc[t] = "signal"
    /\ Goto(t, IF logger_async THEN "idle" ELSE "crashed")
    /\ signalled' = (signalled \/ logger_async)
    /\ UNCHANGED <<queue, settings, logger, logger_async, level, frames, calls, received, loss>>

LogStep(t) ==
    LogClear(t) \/ LogNotice(t) \/ LogEnqueue(t) \/ LogTest(t) \/ LogSignal(t)

-----------------------------------------------------------------------------
(* The main thread: the exports, and flush_log_messages.                     *)

RegisterLogger(f) ==
    /\ JavaScriptRuns /\ Call("Register", MaxRegisters)
    /\ logger' = f
    /\ \/ f # NULL /\ UNCHANGED <<queue, loss>>
       \/ f = NULL /\ Cleared /\ (IF NoticeQueued THEN NoticeTaken(FALSE) ELSE UNCHANGED loss)
    /\ UNCHANGED <<settings, async, log, frames, received>>

SetLogLevel(l) ==
    /\ JavaScriptRuns /\ Call("Register", MaxRegisters)
    /\ log_level' = l
    /\ UNCHANGED <<queue, batch_length, buffer_length, logger, async, log, frames, received, loss>>

SetBatchLength(n) ==
    /\ JavaScriptRuns /\ Call("Register", MaxRegisters)
    /\ batch_length' = AtLeastOne(n)
    /\ UNCHANGED <<queue, log_level, buffer_length, logger, async, log, frames, received, loss>>

flush_log_messages ==
    frames' = Append(frames, [callback |-> logger, max_in_batch |-> batch_length, at |-> "dequeue"])

Flush ==
    /\ JavaScriptRuns /\ Call("Flush", MaxFlushes)
    /\ flush_log_messages
    /\ UNCHANGED <<queue, settings, logger, async, log, received, loss>>

\* The loop runs no JavaScript while a call of it has not returned.
AsyncLoggerCallback ==
    /\ logger_async /\ signalled /\ pc[Main] = "idle" /\ frames = <<>>
    /\ signalled' = FALSE
    /\ flush_log_messages
    /\ UNCHANGED <<queue, settings, logger, logger_async, log, calls, received, loss>>

Top == Last(frames)
TopAt(stage) == frames # <<>> /\ pc[Main] = "idle" /\ Top.at = stage
SetTop(frame) == frames' = [frames EXCEPT ![Len(frames)] = frame]

\* A call of the logger, or a message nobody is called for.
Deliver(message) ==
    LET called == Top.callback # NULL /\ logger # NULL /\ logger_async IN
    /\ SetTop([Top EXCEPT !.max_in_batch = @ - 1, !.at = IF called THEN "call" ELSE "dequeue"])
    /\ received' = IF called THEN message.number ELSE received
    /\ (IF message.notice THEN NoticeTaken(called) ELSE UNCHANGED loss)

\* The message that ends the loop has left the queue all the same, a notice
\* or not: the budget is spent, or its level has been masked.
Drop(message) ==
    /\ SetTop([Top EXCEPT !.at = "signal"])
    /\ UNCHANGED received
    /\ (IF message.notice THEN NoticeTaken(FALSE) ELSE UNCHANGED loss)

Dequeue ==
    /\ TopAt("dequeue") /\ Dequeued
    /\ IF Top.max_in_batch > 0 /\ Head(log_messages).level >= log_level
          THEN Deliver(Head(log_messages))
          ELSE Drop(Head(log_messages))
    /\ UNCHANGED <<settings, logger, async, log, calls>>

DequeueEmpty ==
    /\ TopAt("dequeue") /\ log_messages = <<>>
    /\ SetTop([Top EXCEPT !.at = "signal"])
    /\ UNCHANGED <<queue, settings, logger, async, log, calls, received, loss>>

LoggerReturns ==
    /\ TopAt("call")
    /\ SetTop([Top EXCEPT !.at = "dequeue"])
    /\ UNCHANGED <<queue, settings, logger, async, log, calls, received, loss>>

\* No signal for what one flush leaves in the queue.
FlushEnd_NoSignal ==
    /\ TopAt("signal")
    /\ frames' = Front(frames)
    /\ UNCHANGED <<queue, settings, logger, async, log, calls, received, loss>>

FlushEnd ==
    /\ TopAt("signal")
    /\ signalled' = (signalled \/ (log_messages # <<>> /\ logger_async))
    /\ frames' = Front(frames)
    /\ UNCHANGED <<queue, settings, logger, logger_async, log, calls, received, loss>>

\* deinit, at the end of the process or in process.exit(): nothing returns to
\* JavaScript, while the threads of the pool go on.
Deinit ==
    /\ JavaScriptRuns
    /\ logger_async' = FALSE /\ signalled' = FALSE
    /\ frames' = <<>>
    /\ UNCHANGED <<queue, settings, logger, log, calls, received, loss>>

FlushStep == Dequeue \/ DequeueEmpty \/ LoggerReturns \/ FlushEnd

Next ==
    \/ \E t \in Threads : LogStep(t) \/ \E l \in Levels : LogBegin(t, l)
    \/ \E f \in Loggers \cup {NULL} : RegisterLogger(f)
    \/ \E l \in Levels : SetLogLevel(l)
    \/ \E n \in BatchLengths : SetBatchLength(n)
    \/ Flush \/ AsyncLoggerCallback \/ FlushStep \/ Deinit

Spec == Init /\ [][Next]_vars

\* The scheduler runs every thread, the loop serves what was signalled, and
\* loggers return.
Fairness ==
    /\ \A t \in Threads : WF_vars(LogStep(t))
    /\ WF_vars(AsyncLoggerCallback)
    /\ WF_vars(FlushStep)

FairSpec == Spec /\ Fairness

-----------------------------------------------------------------------------
(* Properties                                                                *)

In(stage) == {t \in Threads : pc[t] = stage}

\* The queue stays near TRACER_BUFFER_LENGTH although its length is tested
\* outside the lock (tracer.cpp:45): at the worst every other thread has
\* found it full and owes a notice and a message, and one more a message.
QueueBounded == Len(log_messages) < buffer_length + 2 * Cardinality(Threads)

\* The inductive form: what the threads owe the queue is counted with it.
QueueAndOwedBounded ==
    Len(log_messages) + Cardinality(In("enqueue")) + 2 * Cardinality(In("notice"))
        < buffer_length + 2 * Cardinality(Threads)

\* Threads that overwrite each other's messages, and notices with them, never
\* lose the last notice among themselves (tracer.cpp:45-48): until a logger has
\* been called with one, or one was taken from the queue for nobody (a flush
\* whose budget is spent or whose level is above WARN, tracer.cpp:167, no logger,
\* :170, or RegisterLogger with none, :154), it is in the queue or about to be.
LossIsAnnounced == loss = "owed" => In("notice") # {} \/ NoticeQueued

\* No wake-up is lost: while messages wait, the loop has been signalled, or a
\* thread is about to, or a flush that has yet to look at the queue (tracer.cpp:52, 180).
WakeUpPending ==
    logger_async /\ log_messages # <<>> =>
        signalled \/ frames # <<>> \/ In("test") \cup In("signal") \cup In("enqueue") # {}

\* Loggers get the messages in the order they were queued, none twice, and miss
\* the oldest or all that wait at a time (tracer.cpp:46, 154, 167).
Lossy == INSTANCE LossyLog WITH channel <- [i \in DOMAIN log_messages |-> log_messages[i].number]
ImplementsLossyLog == Lossy!Spec

\* Messages do not stay in the queue until somebody logs again (tracer.cpp:180).
Drained == log_messages # <<>> ~> log_messages = <<>> \/ ~logger_async

=============================================================================
