---------------------------- MODULE Tracer_proofs -----------------------------
(***************************************************************************)
(* What holds of the tracer for any number of threads, loggers, messages   *)
(* and nested flushes: the types, the bound of the queue, the notice of    *)
(* what was overwritten, the wake-up, and that it is a lossy log.          *)
(***************************************************************************)
EXTENDS Tracer, FiniteSetTheorems, TLAPS

\* What the assumptions say of the constants.
LEMMA ConstantsFacts ==
    /\ IsFiniteSet(Threads) /\ Main \in Threads
    /\ Levels \subseteq Nat /\ BatchLengths \subseteq Nat /\ BufferLengths \subseteq Nat
    /\ WARN \in TRACE .. FATAL /\ TRACE \in TRACE .. FATAL
<1>1. IsFiniteSet(Threads)
  BY TracerAssumption, FS_AddElement DEF Threads
<1>. QED BY <1>1, TracerAssumption DEF Threads, TRACE, FATAL, WARN

LEMMA AtLeastOneFacts ==
    \A n \in Nat : AtLeastOne(n) \in Nat \ {0} /\ FromEnvironment(n) \in Nat \ {0}
BY DEF AtLeastOne, FromEnvironment

\* What an operation of the queue leaves of its type.
LEMMA EnqueuedType ==
    ASSUME TypeOK, NEW l \in TRACE .. FATAL, NEW isNotice \in BOOLEAN, Enqueued(l, isNotice)
    PROVE  log_messages' \in Seq(Message) /\ sent' \in Nat
BY DEF Enqueued, TypeOK, Message

LEMMA TypeInit == Init => TypeOK
<1>. SUFFICES ASSUME Init PROVE TypeOK
  OBVIOUS
<1>1. batch_length \in Nat \ {0} /\ buffer_length \in Nat \ {0}
  BY ConstantsFacts, AtLeastOneFacts DEF Init
<1>2. log_level \in TRACE .. FATAL
  BY TracerAssumption DEF Init
<1>3. log_messages \in Seq(Message) /\ frames \in Seq(Frame)
  BY DEF Init
<1>4. /\ pc \in [Threads -> {"idle", "clear", "notice", "enqueue", "test", "signal", "crashed"}]
      /\ level \in [Threads -> TRACE .. FATAL]
      /\ calls \in [{"Log", "Flush", "Register"} -> Nat]
  BY ConstantsFacts DEF Init
<1>5. /\ logger \in Loggers \cup {NULL} /\ sent \in Nat /\ received \in Nat
      /\ logger_async \in BOOLEAN /\ signalled \in BOOLEAN
      /\ loss \in {"none", "owed", "dropped"}
  BY DEF Init
<1>. QED BY <1>1, <1>2, <1>3, <1>4, <1>5 DEF TypeOK

LEMMA LossType ==
    ASSUME TypeOK, NEW called \in BOOLEAN, NEW message \in Message,
           (IF message.notice THEN NoticeTaken(called) ELSE UNCHANGED loss)
    PROVE  loss' \in {"none", "owed", "dropped"}
BY DEF NoticeTaken, TypeOK, Message

LEMMA TypeStep == TypeOK /\ [Next]_vars => TypeOK'
<1>. SUFFICES ASSUME TypeOK, [Next]_vars PROVE TypeOK'
  OBVIOUS
<1>. USE DEF queue, settings, async, log
<1>1. ASSUME NEW t \in Threads, NEW l \in Levels, LogBegin(t, l) PROVE TypeOK'
  <2>1. l \in TRACE .. FATAL
    BY TracerAssumption
  <2>2. calls' \in [{"Log", "Flush", "Register"} -> Nat]
    BY <1>1 DEF LogBegin, Call, TypeOK
  <2>. QED BY <1>1, <2>1, <2>2 DEF LogBegin, Goto, TypeOK
<1>2. ASSUME NEW t \in Threads, LogClear(t) PROVE TypeOK'
  BY <1>2 DEF LogClear, Cleared, Goto, TypeOK
<1>3. ASSUME NEW t \in Threads, LogNotice(t) PROVE TypeOK'
  <2>1. log_messages' \in Seq(Message) /\ sent' \in Nat
    BY <1>3, ConstantsFacts, EnqueuedType DEF LogNotice
  <2>. QED BY <1>3, <2>1 DEF LogNotice, Goto, TypeOK
<1>4. ASSUME NEW t \in Threads, LogEnqueue(t) PROVE TypeOK'
  <2>1. level[t] \in TRACE .. FATAL
    BY DEF TypeOK
  <2>2. log_messages' \in Seq(Message) /\ sent' \in Nat
    BY <1>4, <2>1, EnqueuedType DEF LogEnqueue
  <2>. QED BY <1>4, <2>2 DEF LogEnqueue, Goto, TypeOK
<1>5. ASSUME NEW t \in Threads, LogTest(t) PROVE TypeOK'
  BY <1>5 DEF LogTest, Goto, TypeOK
<1>6. ASSUME NEW t \in Threads, LogSignal(t) PROVE TypeOK'
  BY <1>6 DEF LogSignal, Goto, TypeOK
<1>7. ASSUME NEW f \in Loggers \cup {NULL}, RegisterLogger(f) PROVE TypeOK'
  <2>1. calls' \in [{"Log", "Flush", "Register"} -> Nat]
    BY <1>7 DEF RegisterLogger, Call, TypeOK
  <2>2. CASE UNCHANGED <<queue, loss>>
    BY <1>7, <2>1, <2>2 DEF RegisterLogger, TypeOK
  <2>3. CASE Cleared /\ (IF NoticeQueued THEN NoticeTaken(FALSE) ELSE UNCHANGED loss)
    <3>1. log_messages' \in Seq(Message)
      BY <2>3 DEF Cleared
    <3>2. loss' \in {"none", "owed", "dropped"}
      BY <2>3 DEF NoticeTaken, TypeOK
    <3>. QED BY <1>7, <2>1, <2>3, <3>1, <3>2 DEF RegisterLogger, Cleared, TypeOK
  <2>. QED BY <1>7, <2>2, <2>3 DEF RegisterLogger
<1>8. ASSUME NEW l \in Levels, SetLogLevel(l) PROVE TypeOK'
  <2>1. calls' \in [{"Log", "Flush", "Register"} -> Nat]
    BY <1>8 DEF SetLogLevel, Call, TypeOK
  <2>. QED BY <1>8, <2>1, TracerAssumption DEF SetLogLevel, TypeOK
<1>9. ASSUME NEW n \in BatchLengths, SetBatchLength(n) PROVE TypeOK'
  <2>1. calls' \in [{"Log", "Flush", "Register"} -> Nat]
    BY <1>9 DEF SetBatchLength, Call, TypeOK
  <2>2. batch_length' \in Nat \ {0}
    BY <1>9, ConstantsFacts, AtLeastOneFacts DEF SetBatchLength
  <2>. QED BY <1>9, <2>1, <2>2 DEF SetBatchLength, TypeOK
<1>10. ASSUME TypeOK, flush_log_messages PROVE frames' \in Seq(Frame)
  BY <1>10 DEF flush_log_messages, TypeOK, Frame
<1>11. CASE Flush
  <2>1. calls' \in [{"Log", "Flush", "Register"} -> Nat]
    BY <1>11 DEF Flush, Call, TypeOK
  <2>. QED BY <1>10, <1>11, <2>1 DEF Flush, TypeOK
<1>12. CASE AsyncLoggerCallback
  BY <1>10, <1>12 DEF AsyncLoggerCallback, TypeOK
<1>13. ASSUME frames # <<>> PROVE Top \in Frame /\ Front(frames) \in Seq(Frame)
  BY <1>13 DEF TypeOK, Top, Last, Front
<1>14. ASSUME frames # <<>>, NEW frame \in Frame, SetTop(frame) PROVE frames' \in Seq(Frame)
  BY <1>14 DEF TypeOK, SetTop
<1>15. CASE Dequeue
  <2>1. log_messages' \in Seq(Message) /\ Head(log_messages) \in Message
    BY <1>15 DEF Dequeue, Dequeued, TypeOK
  <2>2. frames # <<>> /\ Top \in Frame
    BY <1>13, <1>15 DEF Dequeue, Dequeued, TopAt
  <2>3. [Top EXCEPT !.at = "signal"] \in Frame
    BY <2>2 DEF Frame
  <2>4. ASSUME Top.max_in_batch > 0, Deliver(Head(log_messages))
        PROVE  /\ frames' \in Seq(Frame) /\ received' \in Nat
               /\ loss' \in {"none", "owed", "dropped"}
    <3>1. \A stage \in {"call", "dequeue"} :
            [Top EXCEPT !.max_in_batch = @ - 1, !.at = stage] \in Frame
      <4>1. Top.max_in_batch - 1 \in Nat
        BY <2>2, <2>4 DEF Frame
      <4>. QED BY <2>2, <4>1 DEF Frame
    <3>. DEFINE called == Top.callback # NULL /\ logger # NULL /\ logger_async
    <3>2. SetTop([Top EXCEPT !.max_in_batch = @ - 1, !.at = IF called THEN "call" ELSE "dequeue"])
      BY <2>4 DEF Deliver
    <3>3. frames' \in Seq(Frame)
      BY <1>14, <2>2, <3>1, <3>2
    <3>4. called \in BOOLEAN
      BY DEF TypeOK
    <3>5. loss' \in {"none", "owed", "dropped"}
      BY <2>1, <2>4, <3>4, LossType DEF Deliver
    <3>. QED BY <2>1, <2>4, <3>3, <3>5 DEF Deliver, Message, TypeOK
  <2>5. ASSUME Drop(Head(log_messages))
        PROVE  /\ frames' \in Seq(Frame) /\ received' \in Nat
               /\ loss' \in {"none", "owed", "dropped"}
    BY <1>14, <2>1, <2>2, <2>3, <2>5, LossType DEF Drop, TypeOK
  <2>6. /\ frames' \in Seq(Frame) /\ received' \in Nat
        /\ loss' \in {"none", "owed", "dropped"}
    BY <1>15, <2>4, <2>5 DEF Dequeue
  <2>. QED BY <1>15, <2>1, <2>6 DEF Dequeue, Dequeued, TypeOK
<1>16. CASE DequeueEmpty
  <2>1. frames # <<>> /\ [Top EXCEPT !.at = "signal"] \in Frame
    BY <1>13, <1>16 DEF DequeueEmpty, TopAt, Frame
  <2>. QED BY <1>14, <1>16, <2>1 DEF DequeueEmpty, TypeOK
<1>17. CASE LoggerReturns
  <2>1. frames # <<>> /\ [Top EXCEPT !.at = "dequeue"] \in Frame
    BY <1>13, <1>17 DEF LoggerReturns, TopAt, Frame
  <2>. QED BY <1>14, <1>17, <2>1 DEF LoggerReturns, TypeOK
<1>18. CASE FlushEnd
  <2>1. frames' \in Seq(Frame)
    BY <1>13, <1>18 DEF FlushEnd, TopAt
  <2>2. signalled' \in BOOLEAN
    BY <1>18 DEF FlushEnd
  <2>. QED BY <1>18, <2>1, <2>2 DEF FlushEnd, TypeOK
<1>19. CASE Deinit
  <2>1. frames' = <<>> /\ frames' \in Seq(Frame)
    BY <1>19 DEF Deinit
  <2>2. logger_async' \in BOOLEAN /\ signalled' \in BOOLEAN
    BY <1>19 DEF Deinit
  <2>. QED BY <1>19, <2>1, <2>2 DEF Deinit, TypeOK
<1>20. CASE UNCHANGED vars
  BY <1>20 DEF vars, TypeOK
<1>. QED
  BY <1>1, <1>2, <1>3, <1>4, <1>5, <1>6, <1>7, <1>8, <1>9, <1>11, <1>12, <1>15,
     <1>16, <1>17, <1>18, <1>19, <1>20 DEF Next, LogStep, FlushStep

\* The queue, the settings and the frames of nested flushes stay of their types.
THEOREM TypeCorrect == Spec => []TypeOK
BY TypeInit, TypeStep, PTL DEF Spec

-----------------------------------------------------------------------------
(* The wake-up                                                               *)

\* The threads that will signal: those between the queue and uv_async_send.
Signallers == In("test") \cup In("signal") \cup In("enqueue")

LEMMA WakeUpInit == Init => WakeUpPending
BY DEF Init, WakeUpPending

LEMMA WakeUpStep == TypeOK /\ WakeUpPending /\ [Next]_vars => WakeUpPending'
<1>. SUFFICES ASSUME TypeOK, WakeUpPending, [Next]_vars, logger_async', log_messages' # <<>>
              PROVE  signalled' \/ frames' # <<>> \/ Signallers' # {}
  BY DEF WakeUpPending, Signallers
<1>. USE DEF queue, settings, async, log
\* A thread that stays a signaller, or becomes one.
<1>1. ASSUME NEW t \in Threads, NEW stage \in {"test", "signal", "enqueue"}, Goto(t, stage)
      PROVE  Signallers' # {}
  <2>1. t \in In(stage)'
    BY <1>1 DEF Goto, In, TypeOK
  <2>. QED BY <2>1 DEF Signallers, In
\* What the queue's waiting rested on before, when the queue was as it is.
<1>2. ASSUME logger_async, log_messages # <<>>
      PROVE  signalled \/ frames # <<>> \/ Signallers # {}
  BY <1>2 DEF WakeUpPending, Signallers
<1>3. ASSUME NEW t \in Threads, NEW l \in Levels, LogBegin(t, l)
      PROVE  signalled' \/ frames' # <<>> \/ Signallers' # {}
  <2>1. CASE Goto(t, "enqueue")
    BY <1>1, <2>1
  <2>2. CASE Goto(t, "clear")
    <3>1. t \notin Signallers
      BY <1>3 DEF LogBegin, Signallers, In
    <3>2. Signallers \subseteq Signallers'
      BY <2>2, <3>1 DEF Goto, Signallers, In, TypeOK
    <3>. QED BY <1>2, <1>3, <3>2 DEF LogBegin
  <2>. QED BY <1>3, <2>1, <2>2 DEF LogBegin
<1>4. ASSUME NEW t \in Threads, LogClear(t) PROVE FALSE
  BY <1>4 DEF LogClear, Cleared
<1>5. ASSUME NEW t \in Threads, LogNotice(t) PROVE Signallers' # {}
  BY <1>1, <1>5 DEF LogNotice
<1>6. ASSUME NEW t \in Threads, LogEnqueue(t) PROVE Signallers' # {}
  BY <1>1, <1>6 DEF LogEnqueue
<1>7. ASSUME NEW t \in Threads, LogTest(t) PROVE Signallers' # {}
  BY <1>1, <1>7 DEF LogTest
<1>8. ASSUME NEW t \in Threads, LogSignal(t) PROVE signalled'
  BY <1>8 DEF LogSignal
<1>9. CASE UNCHANGED <<logger_async, log_messages, signalled, frames, pc>>
  BY <1>2, <1>9 DEF Signallers, In
<1>10. ASSUME NEW f \in Loggers \cup {NULL}, RegisterLogger(f)
       PROVE  signalled' \/ frames' # <<>> \/ Signallers' # {}
  <2>1. UNCHANGED queue
    BY <1>10 DEF RegisterLogger, Cleared
  <2>. QED BY <1>9, <1>10, <2>1 DEF RegisterLogger
<1>11. ASSUME flush_log_messages PROVE frames' # <<>>
  BY <1>11 DEF flush_log_messages, TypeOK
<1>12. ASSUME frames # <<>>, NEW frame, SetTop(frame) PROVE frames' # <<>>
  BY <1>12 DEF SetTop, TypeOK
<1>13. CASE Dequeue
  BY <1>12, <1>13 DEF Dequeue, Dequeued, TopAt, Deliver, Drop
<1>14. CASE DequeueEmpty
  BY <1>12, <1>14 DEF DequeueEmpty, TopAt
<1>15. CASE LoggerReturns
  BY <1>12, <1>15 DEF LoggerReturns, TopAt
<1>16. CASE FlushEnd
  BY <1>16 DEF FlushEnd
<1>17. CASE Deinit
  BY <1>17 DEF Deinit
<1>18. CASE Flush \/ AsyncLoggerCallback
  BY <1>11, <1>18 DEF Flush, AsyncLoggerCallback
<1>19. CASE \/ \E l \in Levels : SetLogLevel(l)
            \/ \E n \in BatchLengths : SetBatchLength(n)
            \/ UNCHANGED vars
  BY <1>9, <1>19 DEF SetLogLevel, SetBatchLength, vars
<1>. QED
  BY <1>3, <1>4, <1>5, <1>6, <1>7, <1>8, <1>10, <1>13, <1>14, <1>15, <1>16, <1>17,
     <1>18, <1>19 DEF Next, LogStep, FlushStep

\* No wake-up is lost, whatever the threads and the nested flushes do.
THEOREM WakeUpIsPending == Spec => []WakeUpPending
BY TypeInit, TypeStep, WakeUpInit, WakeUpStep, PTL DEF Spec

-----------------------------------------------------------------------------
(* The notice                                                                *)

LEMMA NoticeInit == Init => LossIsAnnounced
BY DEF Init, LossIsAnnounced

\* Queueing loses no notice, and a notice queued is there.
LEMMA EnqueuedNotice ==
    ASSUME TypeOK, NEW l, NEW isNotice \in BOOLEAN, Enqueued(l, isNotice),
           NoticeQueued \/ isNotice
    PROVE  NoticeQueued'
<1>. DEFINE message == [number |-> sent + 1, level |-> l, notice |-> isNotice]
            n == Len(log_messages) + 1
<1>1. log_messages' = Append(log_messages, message) /\ message.notice = isNotice
  BY DEF Enqueued
<1>. HIDE DEF message
<1>2. /\ DOMAIN log_messages' = 1 .. n /\ log_messages'[n] = message
      /\ \A i \in DOMAIN log_messages : i \in 1 .. n /\ log_messages'[i] = log_messages[i]
  BY <1>1 DEF TypeOK
<1>3. CASE NoticeQueued
  BY <1>2, <1>3 DEF NoticeQueued
<1>4. CASE isNotice
  <2>1. n \in DOMAIN log_messages'
    BY <1>2 DEF TypeOK
  <2>2. log_messages'[n].notice
    BY <1>1, <1>2, <1>4, Zenon
  <2>. QED BY <2>1, <2>2 DEF NoticeQueued
<1>. QED BY <1>3, <1>4

\* A message that is no notice leaves those behind it.
LEMMA TailNotice ==
    ASSUME TypeOK, log_messages # <<>>, log_messages' = Tail(log_messages),
           NoticeQueued, ~Head(log_messages).notice
    PROVE  NoticeQueued'
<1>1. PICK i \in DOMAIN log_messages : log_messages[i].notice
  BY DEF NoticeQueued
<1>2. i # 1 /\ i \in 1 .. Len(log_messages)
  BY <1>1 DEF TypeOK
<1>3. i - 1 \in DOMAIN log_messages' /\ log_messages'[i - 1] = log_messages[i]
  BY <1>2 DEF TypeOK
<1>. QED BY <1>1, <1>3 DEF NoticeQueued

LEMMA NoticeStep == TypeOK /\ LossIsAnnounced /\ [Next]_vars => LossIsAnnounced'
<1>. SUFFICES ASSUME TypeOK, LossIsAnnounced, [Next]_vars, loss' = "owed"
              PROVE  In("notice")' # {} \/ NoticeQueued'
  BY DEF LossIsAnnounced, NoticeQueued
<1>. USE DEF queue, settings, async, log
<1>1. ASSUME loss = "owed" PROVE In("notice") # {} \/ NoticeQueued
  BY <1>1 DEF LossIsAnnounced, NoticeQueued
\* Threads that are about to queue a notice stay so while another moves.
<1>2. ASSUME NEW t \in Threads, NEW stage, Goto(t, stage), pc[t] # "notice"
      PROVE  In("notice") \subseteq In("notice")'
  BY <1>2 DEF Goto, In, TypeOK
<1>3. ASSUME UNCHANGED log_messages, NoticeQueued PROVE NoticeQueued'
  BY <1>3 DEF NoticeQueued
<1>4. ASSUME NEW t \in Threads, NEW l \in Levels, LogBegin(t, l)
      PROVE  In("notice")' # {} \/ NoticeQueued'
  <2>1. pc[t] # "notice" /\ UNCHANGED <<log_messages, loss>>
    BY <1>4 DEF LogBegin
  <2>2. In("notice") \subseteq In("notice")'
    BY <1>2, <1>4, <2>1 DEF LogBegin
  <2>. QED BY <1>1, <1>3, <2>1, <2>2
<1>5. ASSUME NEW t \in Threads, LogClear(t) PROVE In("notice")' # {}
  BY <1>5 DEF LogClear, Goto, In, TypeOK
<1>6. ASSUME NEW t \in Threads, LogNotice(t) PROVE NoticeQueued'
  BY <1>6, EnqueuedNotice DEF LogNotice
<1>7. ASSUME NEW t \in Threads, LogEnqueue(t) PROVE In("notice")' # {} \/ NoticeQueued'
  <2>1. NoticeQueued => NoticeQueued'
    BY <1>7, EnqueuedNotice DEF LogEnqueue
  <2>. QED BY <1>1, <1>2, <1>7, <2>1 DEF LogEnqueue
<1>8. ASSUME NEW t \in Threads, LogTest(t) \/ LogSignal(t)
      PROVE  In("notice")' # {} \/ NoticeQueued'
  BY <1>1, <1>2, <1>3, <1>8 DEF LogTest, LogSignal
<1>9. CASE UNCHANGED <<log_messages, loss, pc>>
  BY <1>1, <1>3, <1>9 DEF In
<1>10. ASSUME NEW f \in Loggers \cup {NULL}, RegisterLogger(f)
       PROVE  In("notice")' # {} \/ NoticeQueued'
  <2>1. CASE UNCHANGED <<log_messages, loss>>
    BY <1>9, <1>10, <2>1 DEF RegisterLogger
  <2>2. CASE Cleared /\ (IF NoticeQueued THEN NoticeTaken(FALSE) ELSE UNCHANGED loss)
    <3>1. ~NoticeQueued /\ loss = "owed"
      BY <2>2 DEF NoticeTaken
    <3>. QED BY <1>1, <1>10, <3>1 DEF RegisterLogger, In
  <2>. QED BY <1>10, <2>1, <2>2 DEF RegisterLogger
<1>11. CASE Dequeue
  <2>1. loss = "owed" /\ ~Head(log_messages).notice
    BY <1>11 DEF Dequeue, Deliver, Drop, NoticeTaken
  <2>2. NoticeQueued => NoticeQueued'
    BY <1>11, <2>1, TailNotice DEF Dequeue, Dequeued
  <2>. QED BY <1>1, <1>11, <2>1, <2>2 DEF Dequeue, Dequeued, In
<1>12. CASE \/ \E l \in Levels : SetLogLevel(l)
            \/ \E n \in BatchLengths : SetBatchLength(n)
            \/ Flush \/ AsyncLoggerCallback \/ DequeueEmpty \/ LoggerReturns \/ FlushEnd
            \/ Deinit \/ UNCHANGED vars
  BY <1>9, <1>12 DEF SetLogLevel, SetBatchLength, Flush, AsyncLoggerCallback, DequeueEmpty,
                     LoggerReturns, FlushEnd, Deinit, vars
<1>. QED
  BY <1>4, <1>5, <1>6, <1>7, <1>8, <1>10, <1>11, <1>12 DEF Next, LogStep, FlushStep

\* Whichever threads clear the queue over one another, the last notice of it is
\* left until it is taken from the queue, for a logger or, then for good, for nobody.
THEOREM LossAnnounced == Spec => []LossIsAnnounced
BY TypeInit, TypeStep, NoticeInit, NoticeStep, PTL DEF Spec

-----------------------------------------------------------------------------
(* The bound                                                                 *)

\* The pool owes the queue one message for a thread here, and two for one there.
Owed == Cardinality(In("enqueue")) + 2 * Cardinality(In("notice"))

LEMMA InFinite ==
    /\ \A s : In(s) \in SUBSET Threads /\ IsFiniteSet(In(s)) /\ Cardinality(In(s)) \in Nat
    /\ Cardinality(Threads) \in Nat
BY ConstantsFacts, FS_Subset, FS_CardinalityType DEF In

\* What is owed when a thread that owes nothing takes its turn.
LEMMA OwedByOthers ==
    ASSUME NEW t \in Threads, pc[t] \notin {"enqueue", "notice"}
    PROVE  Owed + 2 <= 2 * Cardinality(Threads)
<1>. DEFINE owing == In("enqueue") \cup In("notice")
<1>1. owing \subseteq Threads \ {t}
  BY DEF In
<1>2. /\ IsFiniteSet(Threads \ {t})
      /\ Cardinality(Threads \ {t}) = Cardinality(Threads) - 1
  BY ConstantsFacts, FS_RemoveElement
<1>3. Cardinality(owing) <= Cardinality(Threads) - 1
  BY <1>1, <1>2, FS_Subset
<1>4. In("enqueue") \cap In("notice") = {}
  BY DEF In
<1>5. Cardinality(owing) = Cardinality(In("enqueue")) + Cardinality(In("notice"))
  <2>1. IsFiniteSet(In("enqueue")) /\ IsFiniteSet(In("notice"))
    BY InFinite
  <2>2. Cardinality(owing) = Cardinality(In("enqueue")) + Cardinality(In("notice")) - Cardinality({})
    BY <1>4, <2>1, FS_Union
  <2>. QED BY <2>2, InFinite, FS_EmptySet
<1>. QED BY <1>3, <1>5, InFinite DEF Owed

\* How many are in a stage after one thread went from one stage to another.
Counted(t, stage, s) ==
    /\ pc[t] = s /\ stage # s => Cardinality(In(s))' = Cardinality(In(s)) - 1
    /\ pc[t] # s /\ stage = s => Cardinality(In(s))' = Cardinality(In(s)) + 1
    /\ pc[t] # s /\ stage # s => Cardinality(In(s))' = Cardinality(In(s))

LEMMA CountedAfterGoto ==
    ASSUME TypeOK, NEW t \in Threads, NEW stage, Goto(t, stage), NEW s
    PROVE  Counted(t, stage, s)
<1>1. t \in In(s) <=> pc[t] = s
  BY DEF In
<1>2. CASE pc[t] = s /\ stage # s
  <2>1. In(s)' = In(s) \ {t}
    BY <1>2 DEF Goto, In, TypeOK
  <2>2. Cardinality(In(s) \ {t}) = Cardinality(In(s)) - 1
    BY <1>1, <1>2, InFinite, FS_RemoveElement
  <2>. QED BY <1>2, <2>1, <2>2 DEF Counted
<1>3. CASE pc[t] # s /\ stage = s
  <2>1. In(s)' = In(s) \cup {t}
    BY <1>3 DEF Goto, In, TypeOK
  <2>2. Cardinality(In(s) \cup {t}) = Cardinality(In(s)) + 1
    BY <1>1, <1>3, InFinite, FS_AddElement
  <2>. QED BY <1>3, <2>1, <2>2 DEF Counted
<1>4. CASE pc[t] # s /\ stage # s
  <2>1. In(s)' = In(s)
    BY <1>4 DEF Goto, In, TypeOK
  <2>. QED BY <1>4, <2>1 DEF Counted
<1>. QED BY <1>2, <1>3, <1>4 DEF Counted

LEMMA BoundInit == Init => QueueAndOwedBounded
<1>. SUFFICES ASSUME Init PROVE QueueAndOwedBounded
  OBVIOUS
<1>1. In("enqueue") = {} /\ In("notice") = {}
  BY DEF Init, In
<1>2. buffer_length \in Nat \ {0}
  BY TypeInit DEF TypeOK
<1>. QED BY <1>1, <1>2, InFinite, FS_EmptySet DEF Init, QueueAndOwedBounded

LEMMA BoundStep == TypeOK /\ QueueAndOwedBounded /\ [Next]_vars => QueueAndOwedBounded'
<1>. SUFFICES ASSUME TypeOK, QueueAndOwedBounded, [Next]_vars PROVE QueueAndOwedBounded'
  OBVIOUS
<1>. USE DEF queue, settings, async, log
<1>. DEFINE e == Cardinality(In("enqueue"))
            n == Cardinality(In("notice"))
            T == Cardinality(Threads)
<1>1. /\ e \in Nat /\ n \in Nat /\ T \in Nat
      /\ Len(log_messages) \in Nat /\ buffer_length \in Nat \ {0}
      /\ Len(log_messages) + e + 2 * n < buffer_length + 2 * T
  BY InFinite DEF TypeOK, QueueAndOwedBounded
<1>2. SUFFICES buffer_length' = buffer_length =>
                 Len(log_messages') + e' + 2 * n' < buffer_length + 2 * T
  <2>1. buffer_length' = buffer_length
    BY DEF Next, vars, LogStep, LogBegin, LogClear, LogNotice, LogEnqueue, LogTest, LogSignal,
           RegisterLogger, SetLogLevel, SetBatchLength, Flush, AsyncLoggerCallback, FlushStep,
           Dequeue, Dequeued, DequeueEmpty, LoggerReturns, FlushEnd, Deinit
  <2>. QED BY <1>2, <2>1 DEF QueueAndOwedBounded
<1>3. ASSUME UNCHANGED pc, log_messages' = log_messages \/ Len(log_messages') <= Len(log_messages),
             Len(log_messages') \in Nat
      PROVE  Len(log_messages') + e' + 2 * n' < buffer_length + 2 * T
  <2>1. e' = e /\ n' = n
    BY <1>3 DEF In
  <2>. QED BY <1>1, <1>3, <2>1
<1>4. ASSUME NEW t \in Threads, NEW l \in Levels, LogBegin(t, l)
      PROVE  Len(log_messages') + e' + 2 * n' < buffer_length + 2 * T
  <2>1. pc[t] \notin {"enqueue", "notice"} /\ log_messages' = log_messages
    BY <1>4 DEF LogBegin
  <2>2. e + 2 * n + 2 <= 2 * T
    BY <2>1, OwedByOthers DEF Owed
  <2>3. CASE Goto(t, "clear")
    <3>1. e' = e /\ n' = n
      BY <1>1, <2>1, <2>3, CountedAfterGoto DEF Counted
    <3>. QED BY <1>1, <2>1, <3>1
  <2>4. CASE Goto(t, "enqueue") /\ Len(log_messages) <= buffer_length
    <3>1. e' = e + 1 /\ n' = n
      BY <1>1, <2>1, <2>4, CountedAfterGoto DEF Counted
    <3>. QED BY <1>1, <2>1, <2>2, <2>4, <3>1
  <2>. QED BY <1>1, <1>4, <2>3, <2>4 DEF LogBegin
<1>5. ASSUME NEW t \in Threads, LogClear(t)
      PROVE  Len(log_messages') + e' + 2 * n' < buffer_length + 2 * T
  <2>1. pc[t] \notin {"enqueue", "notice"} /\ pc[t] = "clear" /\ Len(log_messages') = 0
    BY <1>5 DEF LogClear, Cleared
  <2>2. e' = e /\ n' = n + 1
    <3>1. Goto(t, "notice")
      BY <1>5 DEF LogClear
    <3>. QED BY <1>1, <2>1, <3>1, CountedAfterGoto DEF Counted
  <2>3. e + 2 * n + 2 <= 2 * T
    BY <2>1, OwedByOthers DEF Owed
  <2>. QED BY <1>1, <2>1, <2>2, <2>3
<1>6. ASSUME NEW t \in Threads, LogNotice(t)
      PROVE  Len(log_messages') + e' + 2 * n' < buffer_length + 2 * T
  <2>1. e' = e + 1 /\ n' = n - 1
    <3>1. Goto(t, "enqueue") /\ pc[t] = "notice"
      BY <1>6 DEF LogNotice
    <3>. QED BY <1>1, <3>1, CountedAfterGoto DEF Counted
  <2>2. Len(log_messages') = Len(log_messages) + 1
    BY <1>6 DEF LogNotice, Enqueued, TypeOK
  <2>. QED BY <1>1, <2>1, <2>2
<1>7. ASSUME NEW t \in Threads, LogEnqueue(t)
      PROVE  Len(log_messages') + e' + 2 * n' < buffer_length + 2 * T
  <2>1. e' = e - 1 /\ n' = n
    <3>1. Goto(t, "test") /\ pc[t] = "enqueue"
      BY <1>7 DEF LogEnqueue
    <3>2. Counted(t, "test", "enqueue") /\ Counted(t, "test", "notice")
      BY <3>1, CountedAfterGoto
    <3>. QED BY <1>1, <3>1, <3>2 DEF Counted
  <2>2. Len(log_messages') = Len(log_messages) + 1
    BY <1>7 DEF LogEnqueue, Enqueued, TypeOK
  <2>. QED BY <1>1, <2>1, <2>2
<1>8. ASSUME NEW t \in Threads, LogTest(t) \/ LogSignal(t)
      PROVE  Len(log_messages') + e' + 2 * n' < buffer_length + 2 * T
  <2>1. PICK stage \in {"signal", "idle", "crashed"} : Goto(t, stage)
    BY <1>8 DEF LogTest, LogSignal
  <2>2. pc[t] \notin {"enqueue", "notice"} /\ log_messages' = log_messages
    BY <1>8 DEF LogTest, LogSignal
  <2>3. e' = e /\ n' = n
    BY <1>1, <2>1, <2>2, CountedAfterGoto DEF Counted
  <2>. QED BY <1>1, <2>2, <2>3
<1>9. ASSUME NEW f \in Loggers \cup {NULL}, RegisterLogger(f)
      PROVE  UNCHANGED pc /\ Len(log_messages') \in Nat /\ Len(log_messages') <= Len(log_messages)
  <2>1. log_messages' = log_messages \/ log_messages' = <<>>
    BY <1>9 DEF RegisterLogger, Cleared
  <2>2. Len(<<>>) = 0 /\ UNCHANGED pc
    BY <1>9 DEF RegisterLogger
  <2>. QED BY <1>1, <2>1, <2>2
<1>10. ASSUME Dequeue
       PROVE  UNCHANGED pc /\ Len(log_messages') \in Nat /\ Len(log_messages') <= Len(log_messages)
  BY <1>10 DEF Dequeue, Dequeued, TypeOK
<1>11. ASSUME \/ \E l \in Levels : SetLogLevel(l)
              \/ \E m \in BatchLengths : SetBatchLength(m)
              \/ Flush \/ AsyncLoggerCallback \/ DequeueEmpty \/ LoggerReturns \/ FlushEnd
              \/ Deinit \/ UNCHANGED vars
       PROVE  UNCHANGED <<pc, log_messages>>
  BY <1>11 DEF SetLogLevel, SetBatchLength, Flush, AsyncLoggerCallback, DequeueEmpty,
               LoggerReturns, FlushEnd, Deinit, vars
<1>. HIDE DEF e, n, T
<1>. QED
  BY <1>1, <1>3, <1>4, <1>5, <1>6, <1>7, <1>8, <1>9, <1>10, <1>11 DEF Next, LogStep, FlushStep

\* However many threads find the queue full together, it stays within the bound.
THEOREM QueueIsBounded == Spec => []QueueBounded
<1>1. TypeOK /\ QueueAndOwedBounded => QueueBounded
  BY InFinite DEF TypeOK, QueueAndOwedBounded, QueueBounded
<1>. QED BY <1>1, TypeInit, TypeStep, BoundInit, BoundStep, PTL DEF Spec

-----------------------------------------------------------------------------
(* The lossy log                                                             *)

\* Each step of the tracer is a step of the lossy log, or none of its affair.
LEMMA StepMaps == TypeOK /\ [Next]_vars => [Lossy!Next]_(Lossy!vars)
<1>. DEFINE numbers == [i \in DOMAIN log_messages |-> log_messages[i].number]
<1>. USE DEF queue, settings, async, log
<1>. SUFFICES ASSUME TypeOK, [Next]_vars PROVE Lossy!Next \/ UNCHANGED Lossy!vars
  OBVIOUS
<1>1. numbers = <<>> <=> log_messages = <<>>
  BY DEF TypeOK
<1>2. ASSUME log_messages' = <<>>, UNCHANGED <<sent, received>>
      PROVE  Lossy!Lose \/ UNCHANGED Lossy!vars
  BY <1>1, <1>2 DEF Lossy!Lose, Lossy!vars
<1>3. ASSUME NEW l, NEW isNotice, Enqueued(l, isNotice), UNCHANGED received
      PROVE  Lossy!Send
  <2>1. numbers' = Append(numbers, sent + 1)
    BY <1>3 DEF Enqueued, TypeOK
  <2>. QED BY <1>3, <2>1 DEF Enqueued, Lossy!Send
<1>4. ASSUME UNCHANGED <<log_messages, sent, received>> PROVE UNCHANGED Lossy!vars
  BY <1>4 DEF Lossy!vars
<1>5. ASSUME Dequeue PROVE Lossy!Receive \/ Lossy!Lose
  <2>1. numbers # <<>> /\ numbers' = Tail(numbers) /\ Head(numbers) = Head(log_messages).number
    BY <1>5 DEF Dequeue, Dequeued, TypeOK
  <2>2. received' \in {received, Head(numbers)} /\ UNCHANGED sent
    BY <1>5, <2>1 DEF Dequeue, Dequeued, Deliver, Drop
  <2>. QED BY <2>1, <2>2 DEF Lossy!Receive, Lossy!Lose
<1>6. ASSUME NEW f \in Loggers \cup {NULL}, RegisterLogger(f)
      PROVE  Lossy!Lose \/ UNCHANGED Lossy!vars
  BY <1>2, <1>4, <1>6 DEF RegisterLogger, Cleared
<1>7. ASSUME NEW t \in Threads, LogStep(t) \/ \E l \in Levels : LogBegin(t, l)
      PROVE  Lossy!Next \/ UNCHANGED Lossy!vars
  <2>1. CASE LogClear(t)
    BY <1>2, <2>1 DEF LogClear, Cleared, Lossy!Next
  <2>2. CASE LogNotice(t) \/ LogEnqueue(t)
    BY <1>3, <2>2 DEF LogNotice, LogEnqueue, Lossy!Next
  <2>3. CASE LogTest(t) \/ LogSignal(t) \/ \E l \in Levels : LogBegin(t, l)
    BY <1>4, <2>3 DEF LogTest, LogSignal, LogBegin
  <2>. QED BY <1>7, <2>1, <2>2, <2>3 DEF LogStep
<1>8. ASSUME \/ \E l \in Levels : SetLogLevel(l)
             \/ \E n \in BatchLengths : SetBatchLength(n)
             \/ Flush \/ AsyncLoggerCallback \/ DequeueEmpty \/ LoggerReturns \/ FlushEnd
             \/ Deinit \/ UNCHANGED vars
      PROVE  UNCHANGED Lossy!vars
  BY <1>4, <1>8 DEF SetLogLevel, SetBatchLength, Flush, AsyncLoggerCallback, DequeueEmpty,
                    LoggerReturns, FlushEnd, Deinit, vars
<1>. QED BY <1>5, <1>6, <1>7, <1>8 DEF Next, FlushStep, Lossy!Next

\* Every behaviour of the tracer is one of a log that loses from its old end.
THEOREM Refinement == Spec => ImplementsLossyLog
<1>1. Init => Lossy!Init
  BY DEF Init, Lossy!Init
<1>2. TypeOK /\ [Next]_vars => [Lossy!Next]_(Lossy!vars)
  BY StepMaps
<1>. QED BY <1>1, <1>2, TypeInit, TypeStep, PTL DEF Spec, ImplementsLossyLog, Lossy!Spec

\* Nothing added is nothing changed.
LEMMA ZeroPlus == ASSUME NEW r \in Nat PROVE 0 + r = r
OBVIOUS

\* The numbers of the messages of a queue are a sequence.
LEMMA NumbersType ==
    ASSUME NEW q \in Seq(Message)
    PROVE  [i \in DOMAIN q |-> q[i].number] \in Seq(Nat)
<1>1. Len(q) \in Nat /\ DOMAIN q = 1 .. Len(q)
  OBVIOUS
<1>2. ASSUME NEW i \in 1 .. Len(q) PROVE q[i].number \in Nat
  <2>1. q[i] \in Message
    BY <1>1, <1>2
  <2>. QED BY <2>1 DEF Message
<1>3. [i \in DOMAIN q |-> q[i].number] \in [1 .. Len(q) -> Nat]
  BY <1>1, <1>2
<1>. QED BY <1>1, <1>3

\* What waits in the queue are the messages queued last, in order, and all of
\* them later than what a logger was given.
LEMMA SuffixInvariant == Spec => []Lossy!Suffix
<1>. DEFINE numbers == [i \in DOMAIN log_messages |-> log_messages[i].number]
<1>1. Init => Lossy!Suffix
  BY DEF Init, Lossy!Suffix
<1>2. TypeOK /\ TypeOK' /\ Lossy!Suffix /\ [Next]_vars => Lossy!Suffix'
  <2>. SUFFICES ASSUME TypeOK, TypeOK', Lossy!Suffix, [Next]_vars PROVE Lossy!Suffix'
    OBVIOUS
  <2>0. sent' \in Nat /\ received' \in Nat
    BY DEF TypeOK
  <2>1. /\ numbers \in Seq(Nat) /\ numbers' \in Seq(Nat)
        /\ sent \in Nat /\ received \in Nat /\ sent' \in Nat /\ received' \in Nat
    BY NumbersType DEF TypeOK
  <2>2. /\ Len(numbers) + received <= sent
        /\ \A i \in DOMAIN numbers : numbers[i] = sent - Len(numbers) + i
    BY DEF Lossy!Suffix
  <2>3. Lossy!Send \/ Lossy!Receive \/ Lossy!Lose \/ UNCHANGED Lossy!vars
    BY StepMaps DEF Lossy!Next
  <2>4. CASE Lossy!Send
    <3>1. numbers' = Append(numbers, sent + 1) /\ sent' = sent + 1 /\ received' = received
      BY <2>4 DEF Lossy!Send
    <3>. HIDE DEF numbers
    <3>2. /\ Len(numbers') + received' <= sent'
          /\ \A i \in DOMAIN numbers' : numbers'[i] = sent' - Len(numbers') + i
      BY <2>1, <2>2, <3>1
    <3>. QED BY <3>2 DEF Lossy!Suffix, numbers
  <2>5. CASE Lossy!Receive \/ Lossy!Lose
    <3>1. /\ numbers # <<>> /\ numbers' \in {<<>>, Tail(numbers)} /\ sent' = sent
          /\ received' = received \/ (received' = Head(numbers) /\ numbers' = Tail(numbers))
      BY <2>5 DEF Lossy!Receive, Lossy!Lose
    <3>. SUFFICES /\ Len(numbers') + received' <= sent'
                  /\ \A i \in DOMAIN numbers' : numbers'[i] = sent' - Len(numbers') + i
      BY DEF Lossy!Suffix
    <3>. HIDE DEF numbers
    <3>2. CASE numbers' = <<>>
      <4>1. Head(numbers) = sent - Len(numbers) + 1 /\ Len(numbers) \in Nat \ {0}
        BY <2>1, <2>2, <3>1
      <4>2. received' <= sent'
        BY <2>1, <2>2, <3>1, <4>1
      <4>3. Len(numbers') = 0 /\ DOMAIN numbers' = {}
        BY <3>2
      <4>4. 0 + received' = received'
        BY <2>0, ZeroPlus
      <4>. QED BY <2>0, <4>2, <4>3, <4>4
    <3>3. CASE numbers' = Tail(numbers)
      <4>1. Head(numbers) = sent - Len(numbers) + 1 /\ Len(numbers) \in Nat \ {0}
        BY <2>1, <2>2, <3>1
      <4>2. Len(numbers') = Len(numbers) - 1 /\ DOMAIN numbers' = 1 .. Len(numbers) - 1
        BY <2>1, <3>1, <3>3
      <4>3. \A i \in 1 .. Len(numbers) - 1 : numbers'[i] = numbers[i + 1]
        BY <2>1, <3>1, <3>3
      <4>4. Len(numbers') + received' <= sent'
        BY <2>1, <2>2, <3>1, <4>1, <4>2
      <4>5. ASSUME NEW i \in DOMAIN numbers' PROVE numbers'[i] = sent' - Len(numbers') + i
        <5>1. i \in 1 .. Len(numbers) - 1 /\ i + 1 \in DOMAIN numbers
          BY <2>1, <4>1, <4>2
        <5>2. numbers'[i] = sent - Len(numbers) + (i + 1)
          BY <2>2, <4>3, <5>1
        <5>. QED BY <2>1, <3>1, <4>1, <4>2, <5>1, <5>2
      <4>. QED BY <4>4, <4>5
    <3>. QED BY <3>1, <3>2, <3>3
  <2>6. CASE UNCHANGED Lossy!vars
    BY <2>2, <2>6 DEF Lossy!vars, Lossy!Suffix
  <2>. QED BY <2>3, <2>4, <2>5, <2>6
<1>. QED BY <1>1, <1>2, TypeInit, TypeStep, PTL DEF Spec

\* No logger is given a message twice, or an older one after a newer one.
THEOREM ReceivedInOrder == Spec => Lossy!InOrder
<1>. DEFINE numbers == [i \in DOMAIN log_messages |-> log_messages[i].number]
<1>1. ASSUME TypeOK, Lossy!Suffix, [Next]_vars, received' # received
      PROVE  received' > received
  <2>1. numbers \in Seq(Nat) /\ sent \in Nat /\ received \in Nat
    BY <1>1, NumbersType DEF TypeOK
  <2>2. numbers # <<>> /\ received' = Head(numbers)
    BY <1>1, StepMaps DEF Lossy!Next, Lossy!Send, Lossy!Receive, Lossy!Lose, Lossy!vars
  <2>3. /\ Len(numbers) + received <= sent
        /\ \A i \in DOMAIN numbers : numbers[i] = sent - Len(numbers) + i
    BY <1>1 DEF Lossy!Suffix
  <2>. HIDE DEF numbers
  <2>. QED BY <2>1, <2>2, <2>3
<1>2. TypeOK /\ Lossy!Suffix /\ [Next]_vars =>
        [received' # received => received' > received]_(Lossy!vars)
  BY <1>1
<1>3. Spec => []TypeOK
  BY TypeCorrect
<1>. QED BY <1>2, <1>3, SuffixInvariant, PTL DEF Spec, Lossy!InOrder

=============================================================================
