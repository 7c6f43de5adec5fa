-------------------------- MODULE AsyncWork_proofs --------------------------
(***************************************************************************)
(* What each operation of AsyncWork does to the sets of queued, running    *)
(* and posted workers.  The components' proofs use these facts and never   *)
(* open a queue.                                                           *)
(***************************************************************************)
EXTENDS AsyncWork, SequenceTheorems, TLAPS

LEMMA FunctionIsSeq ==
    ASSUME NEW S, NEW n \in Nat, NEW f \in [1 .. n -> S]
    PROVE  f \in Seq(S)
BY SeqDef

\* Appending adds the range and keeps a queue free of duplicates.
LEMMA RangeOfConcat ==
    ASSUME NEW S, NEW s \in Seq(S), NEW t \in Seq(S)
    PROVE  /\ s \o t \in Seq(S)
           /\ Range(s \o t) = Range(s) \cup Range(t)
           /\ IsInjective(s) /\ IsInjective(t) /\ Range(s) \cap Range(t) = {}
                => IsInjective(s \o t)
<1>1. s \o t \in Seq(S) /\ Len(s \o t) = Len(s) + Len(t)
  OBVIOUS
<1>2. \A k \in 1 .. Len(s) : (s \o t)[k] = s[k]
  OBVIOUS
<1>3. \A k \in 1 .. Len(t) : (s \o t)[Len(s) + k] = t[k]
  OBVIOUS
<1>4. \A k \in 1 .. Len(s \o t) :
         \/ k \in 1 .. Len(s) /\ (s \o t)[k] = s[k]
         \/ k - Len(s) \in 1 .. Len(t) /\ (s \o t)[k] = t[k - Len(s)]
  OBVIOUS
<1>5. Range(s \o t) = Range(s) \cup Range(t)
  <2>1. Range(s \o t) \subseteq Range(s) \cup Range(t)
    BY <1>1, <1>4 DEF Range
  <2>2. Range(s) \subseteq Range(s \o t)
    BY <1>1, <1>2 DEF Range
  <2>3. ASSUME NEW x \in Range(t) PROVE x \in Range(s \o t)
    <3>1. PICK k \in 1 .. Len(t) : x = t[k]
      BY DEF Range
    <3>2. Len(s) + k \in DOMAIN (s \o t) /\ (s \o t)[Len(s) + k] = x
      BY <1>1, <1>3, <3>1
    <3>. QED BY <3>2 DEF Range
  <2>. QED BY <2>1, <2>2, <2>3
<1>6. ASSUME IsInjective(s), IsInjective(t), Range(s) \cap Range(t) = {}
      PROVE  IsInjective(s \o t)
  <2>. SUFFICES ASSUME NEW a \in DOMAIN (s \o t), NEW b \in DOMAIN (s \o t),
                       (s \o t)[a] = (s \o t)[b]
                PROVE  a = b
    BY DEF IsInjective
  <2>1. a \in 1 .. Len(s \o t) /\ b \in 1 .. Len(s \o t)
    BY <1>1
  <2>. DOMAIN s = 1 .. Len(s) /\ DOMAIN t = 1 .. Len(t)
    OBVIOUS
  <2>2. CASE a \in 1 .. Len(s) /\ b \in 1 .. Len(s)
    BY <2>2, <1>2, <1>6 DEF IsInjective
  <2>3. CASE a \in 1 .. Len(s) /\ b \notin 1 .. Len(s)
    <3>1. (s \o t)[a] \in Range(s)
      BY <2>3, <1>2 DEF Range
    <3>2. b - Len(s) \in 1 .. Len(t) /\ (s \o t)[b] = t[b - Len(s)]
      BY <2>1, <2>3, <1>4
    <3>. QED BY <3>1, <3>2, <1>6 DEF Range
  <2>4. CASE a \notin 1 .. Len(s) /\ b \in 1 .. Len(s)
    <3>1. (s \o t)[b] \in Range(s)
      BY <2>4, <1>2 DEF Range
    <3>2. a - Len(s) \in 1 .. Len(t) /\ (s \o t)[a] = t[a - Len(s)]
      BY <2>1, <2>4, <1>4
    <3>. QED BY <3>1, <3>2, <1>6 DEF Range
  <2>5. CASE a \notin 1 .. Len(s) /\ b \notin 1 .. Len(s)
    <3>1. /\ a - Len(s) \in 1 .. Len(t) /\ (s \o t)[a] = t[a - Len(s)]
          /\ b - Len(s) \in 1 .. Len(t) /\ (s \o t)[b] = t[b - Len(s)]
      BY <2>1, <2>5, <1>4
    <3>2. a - Len(s) = b - Len(s)
      BY <3>1, <1>6 DEF IsInjective
    <3>. QED BY <3>2, <2>1
  <2>. QED BY <2>2, <2>3, <2>4, <2>5
<1>. QED BY <1>1, <1>5, <1>6

\* Taking the head of a queue without duplicates removes it from the range.
LEMMA RangeOfTail ==
    ASSUME NEW S, NEW s \in Seq(S), s # <<>>
    PROVE  /\ Head(s) \in S /\ Tail(s) \in Seq(S)
           /\ Head(s) \in Range(s)
           /\ IsInjective(s) => /\ IsInjective(Tail(s))
                                /\ Range(Tail(s)) = Range(s) \ {Head(s)}
<1>1. /\ Head(s) = s[1] /\ 1 \in DOMAIN s
      /\ Tail(s) \in Seq(S) /\ Len(Tail(s)) = Len(s) - 1
      /\ \A k \in 1 .. Len(Tail(s)) : Tail(s)[k] = s[k + 1]
  OBVIOUS
<1>2. Head(s) \in S /\ Head(s) \in Range(s)
  BY <1>1 DEF Range
<1>3. ASSUME IsInjective(s) PROVE IsInjective(Tail(s))
  <2>. SUFFICES ASSUME NEW a \in 1 .. Len(Tail(s)), NEW b \in 1 .. Len(Tail(s)),
                       Tail(s)[a] = Tail(s)[b]
                PROVE  a = b
    BY <1>1 DEF IsInjective
  <2>1. a + 1 \in DOMAIN s /\ b + 1 \in DOMAIN s /\ s[a + 1] = s[b + 1]
    BY <1>1
  <2>2. a + 1 = b + 1
    BY <2>1, <1>3 DEF IsInjective
  <2>. QED BY <2>2
<1>4. ASSUME IsInjective(s) PROVE Range(Tail(s)) = Range(s) \ {Head(s)}
  <2>1. ASSUME NEW x \in Range(Tail(s)) PROVE x \in Range(s) \ {Head(s)}
    <3>1. PICK k \in 1 .. Len(Tail(s)) : x = s[k + 1]
      BY <1>1 DEF Range
    <3>2. k + 1 \in DOMAIN s /\ k + 1 # 1
      BY <1>1
    <3>. QED BY <3>1, <3>2, <1>1, <1>4 DEF Range, IsInjective
  <2>2. ASSUME NEW x \in Range(s) \ {Head(s)} PROVE x \in Range(Tail(s))
    <3>1. PICK k \in DOMAIN s : x = s[k]
      BY DEF Range
    <3>2. k \in 2 .. Len(s)
      BY <3>1, <1>1
    <3>3. k - 1 \in 1 .. Len(Tail(s)) /\ Tail(s)[k - 1] = x
      BY <3>1, <3>2, <1>1
    <3>. QED BY <3>3, <1>1 DEF Range
  <2>. QED BY <2>1, <2>2
<1>. QED BY <1>1, <1>2, <1>3, <1>4

LEMMA RangeOfSmall ==
    /\ Range(<<>>) = {}
    /\ IsInjective(<<>>)
    /\ \A x : Range(<<x>>) = {x} /\ IsInjective(<<x>>)
BY DEF Range, IsInjective

-----------------------------------------------------------------------------
(* One lemma for each operation of the pool *)

LEMMA UnchangedFacts ==
    ASSUME NEW W, PoolTypeOK(W), PlacedOnce, UNCHANGED pool
    PROVE  /\ PoolTypeOK(W)' /\ PlacedOnce'
           /\ InPool' = InPool /\ Unexecuted' = Unexecuted
BY DEF pool, PoolTypeOK, PlacedOnce, InPool, Unexecuted

\* Queueing workers that are nowhere in the pool.
LEMMA QueueFacts ==
    ASSUME NEW W, PoolTypeOK(W), PlacedOnce,
           NEW ws \in Seq(W), IsInjective(ws), Range(ws) \cap InPool = {},
           AsyncQueueWorkers(ws), UNCHANGED <<running, executed, doneQueue>>
    PROVE  /\ PoolTypeOK(W)' /\ PlacedOnce'
           /\ InPool' = InPool \cup Range(ws)
           /\ Unexecuted' = Unexecuted \cup Range(ws)
<1>1. /\ workQueue' \in Seq(W)
      /\ Range(workQueue') = Range(workQueue) \cup Range(ws)
      /\ IsInjective(workQueue')
  BY RangeOfConcat DEF AsyncQueueWorkers, PoolTypeOK, PlacedOnce, InPool
<1>. QED BY <1>1 DEF PoolTypeOK, PlacedOnce, InPool, Unexecuted

LEMMA StartFacts ==
    ASSUME NEW W, PoolTypeOK(W), PlacedOnce, StartWork
    PROVE  /\ PoolTypeOK(W)' /\ PlacedOnce'
           /\ InPool' = InPool /\ Unexecuted' = Unexecuted
<1>1. /\ Head(workQueue) \in W /\ workQueue' \in Seq(W)
      /\ Head(workQueue) \in Range(workQueue)
      /\ IsInjective(workQueue')
      /\ Range(workQueue') = Range(workQueue) \ {Head(workQueue)}
  BY RangeOfTail DEF StartWork, PoolTypeOK, PlacedOnce
<1>2. running' = running \cup {Head(workQueue)} /\ UNCHANGED <<executed, doneQueue>>
  BY DEF StartWork
<1>3. Head(workQueue) \notin running \cup Range(doneQueue)
  BY <1>1 DEF PlacedOnce
<1>. QED BY <1>1, <1>2, <1>3 DEF PoolTypeOK, PlacedOnce, InPool, Unexecuted

LEMMA ExecuteFacts ==
    ASSUME NEW W, PoolTypeOK(W), PlacedOnce, NEW w, ExecuteWork(w)
    PROVE  /\ PoolTypeOK(W)' /\ PlacedOnce' /\ InPool' = InPool
           /\ w \in InPool /\ w \in Unexecuted
           /\ Unexecuted' = Unexecuted \ {w}
BY DEF PoolTypeOK, PlacedOnce, InPool, Unexecuted, ExecuteWork

LEMMA PostFacts ==
    ASSUME NEW W, PoolTypeOK(W), PlacedOnce, NEW w, PostWork(w)
    PROVE  /\ PoolTypeOK(W)' /\ PlacedOnce'
           /\ InPool' = InPool /\ Unexecuted' = Unexecuted
<1>1. w \in W /\ w \in running /\ w \notin Range(doneQueue)
  BY DEF PostWork, PoolTypeOK, PlacedOnce
<1>2. <<w>> \in Seq(W) /\ doneQueue' = doneQueue \o <<w>>
  BY <1>1 DEF PostWork, PoolTypeOK
<1>3. /\ doneQueue' \in Seq(W)
      /\ Range(doneQueue') = Range(doneQueue) \cup {w}
      /\ IsInjective(doneQueue')
  <2>1. PICK t \in Seq(W) : t = <<w>>
    BY <1>2, Zenon
  <2>2. Range(t) = {w} /\ IsInjective(t)
    BY <2>1, RangeOfSmall, Zenon
  <2>3. doneQueue \in Seq(W) /\ IsInjective(doneQueue)
    BY DEF PoolTypeOK, PlacedOnce
  <2>4. Range(doneQueue) \cap Range(t) = {}
    BY <1>1, <2>2
  <2>5. doneQueue' = doneQueue \o t
    BY <1>2, <2>1, Zenon
  <2>. QED BY <2>2, <2>3, <2>4, <2>5, RangeOfConcat
<1>4. /\ running' = running \ {w} /\ executed' = executed \ {w}
      /\ workQueue' = workQueue
  BY DEF PostWork
<1>. QED BY <1>1, <1>3, <1>4 DEF PoolTypeOK, PlacedOnce, InPool, Unexecuted, PostWork

\* Completing w and queueing nothing.
LEMMA TakeFacts ==
    ASSUME NEW W, PoolTypeOK(W), PlacedOnce, NEW w, TakeDone(w),
           UNCHANGED <<workQueue, running, executed>>
    PROVE  /\ PoolTypeOK(W)' /\ PlacedOnce'
           /\ w \in InPool /\ InPool' = InPool \ {w}
           /\ w \notin Unexecuted /\ Unexecuted' = Unexecuted
<1>1. /\ w \in Range(doneQueue) /\ doneQueue' \in Seq(W)
      /\ IsInjective(doneQueue')
      /\ Range(doneQueue') = Range(doneQueue) \ {w}
  BY RangeOfTail DEF TakeDone, PoolTypeOK, PlacedOnce
<1>. QED BY <1>1 DEF PoolTypeOK, PlacedOnce, InPool, Unexecuted

\* Completing w and queueing workers that are nowhere else in the pool.
LEMMA TakeQueueFacts ==
    ASSUME NEW W, PoolTypeOK(W), PlacedOnce, NEW w, TakeDone(w),
           NEW ws \in Seq(W), IsInjective(ws), Range(ws) \cap (InPool \ {w}) = {},
           AsyncQueueWorkers(ws), UNCHANGED <<running, executed>>
    PROVE  /\ PoolTypeOK(W)' /\ PlacedOnce'
           /\ w \in InPool /\ InPool' = (InPool \ {w}) \cup Range(ws)
           /\ w \notin Unexecuted /\ Unexecuted' = Unexecuted \cup Range(ws)
<1>1. /\ w \in Range(doneQueue) /\ doneQueue' \in Seq(W)
      /\ IsInjective(doneQueue')
      /\ Range(doneQueue') = Range(doneQueue) \ {w}
  BY RangeOfTail DEF TakeDone, PoolTypeOK, PlacedOnce
<1>2. /\ workQueue' \in Seq(W)
      /\ Range(workQueue') = Range(workQueue) \cup Range(ws)
      /\ IsInjective(workQueue')
  <2>1. Range(workQueue) \cap Range(ws) = {}
    BY <1>1 DEF PlacedOnce, InPool
  <2>. QED BY <2>1, RangeOfConcat DEF AsyncQueueWorkers, PoolTypeOK, PlacedOnce
<1>. QED BY <1>1, <1>2 DEF PoolTypeOK, PlacedOnce, InPool, Unexecuted

=============================================================================
