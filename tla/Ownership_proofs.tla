---------------------------- MODULE Ownership_proofs ----------------------------
(***************************************************************************)
(* Ownership's safety for any number of calls, Buffers and iterators.      *)
(***************************************************************************)
EXTENDS Ownership, TLAPS

\* The name an argument's handle is saved under.
HandleName(op, a) ==
    IF op # "compactRange" THEN a ELSE IF a = "start" THEN "compactStart" ELSE "compactEnd"

\* The memory of a call is what its slices say until WorkComplete, what a
\* write batch leaves allocated are strings of no bytes, the handles are those of
\* the slices' Buffers, which are there, and what was read is what the slices hold.
CallInv(c) ==
    LET cl == call[c] IN
    /\ \A a \in Names : heap[c][a] # "misfreed"
    /\ cl # NoCall =>
        /\ cl.stage \in {"queued", "executed"} /\ cl.op # "batch" =>
             \A a \in Args[cl.op] :
                 heap[c][a] = IF cl.slice[a].at = "new" THEN "allocated" ELSE "none"
        /\ cl.op = "batch" => \A a \in Args[cl.op] :
                 /\ cl.slice[a].at = "copy"
                 /\ heap[c][a] = "allocated" => cl.slice[a].text = EMPTY
        /\ cl.op # "batch" => \A a \in Args[cl.op] :
                 cl.slice[a].at # "copy" /\ cl.handle[HandleName(cl.op, a)] = cl.slice[a].buffer
        /\ cl.stage \in {"queued", "executed", "callback"} => \A a \in Args[cl.op] :
                 cl.slice[a].at = "buffer" => cl.slice[a].buffer \notin collected
        /\ cl.stage \in {"callback", "done"} => \A a \in Args[cl.op] :
                 heap[c][a] = "allocated" =>
                     cl.slice[a].text = EMPTY \/ cl.op = "approximateSize"
        /\ \A a \in Args[cl.op] :
                 cl.read[a] \notin {NULL, cl.slice[a].text} => cl.slice[a].at = "buffer"

\* What the program and the registry hold of an iterator.
IteratorInv(i) ==
    /\ iterator[i].held => iterator[i].stage = "alive"
    /\ iterator[i].stage = "none" => iterator[i].end = "none"
    /\ iterator[i].end = "done" => i \notin iterators
    /\ i \in iterators => iterator[i].stage # "none"
    /\ ~crashed /\ i \in iterators /\ iterator[i].end # "none" => iterator[i].stage = "alive"

IInv ==
    /\ TypeOK
    /\ \A c \in Calls : CallInv(c)
    /\ \A i \in Iterators : IteratorInv(i)

-----------------------------------------------------------------------------
(* Calls                                                                     *)

LEMMA OpsFacts ==
    /\ Ops = {"put", "get", "del", "batch", "approximateSize", "compactRange"}
    /\ \A op \in Ops :
         /\ Args[op] \subseteq Names /\ Read[op] \subseteq Args[op]
         /\ op # "batch" => /\ \A a \in Args[op] : HandleName(op, a) \in Handles[op]
                            /\ \A n \in Handles[op] : \E a \in Args[op] : n = HandleName(op, a)
         /\ op = "batch" => Handles[op] = {}
BY DEF Ops, Args, Names, Read, Handles, HandleName

\* The fields of a call that was made.
LEMMA CallFields ==
    ASSUME TypeOK, NEW c \in Calls, call[c] # NoCall
    PROVE  /\ call[c].op \in Ops
           /\ call[c].stage \in {"queued", "executed", "callback", "done"}
           /\ call[c].slice \in [Args[call[c].op] -> Slices]
           /\ call[c].handle \in [Handles[call[c].op] -> Buffers \cup {NULL}]
           /\ call[c].read \in [Args[call[c].op] -> Contents \cup {NULL}]
           /\ call[c] \in CallsOf(call[c].op)
<1>1. PICK op \in Ops : call[c] \in CallsOf(op)
  BY DEF TypeOK
<1>. QED BY <1>1 DEF CallsOf

LEMMA StageMeansCall ==
    ASSUME NEW c \in Calls, call[c].stage # "none"
    PROVE  call[c] # NoCall
BY DEF NoCall

\* A step that changes the calls of one c at most to a call keeps their type.
LEMMA CallType ==
    ASSUME TypeOK, NEW c \in Calls, NEW op \in Ops, NEW x \in CallsOf(op),
           call' = [call EXCEPT ![c] = x]
    PROVE  /\ call' = [d \in Calls |-> call'[d]]
           /\ \A d \in Calls : call'[d] = NoCall \/ \E o \in Ops : call'[d] \in CallsOf(o)
           /\ call'[c] = x /\ \A d \in Calls \ {c} : call'[d] = call[d]
BY DEF TypeOK

LEMMA SliceFacts ==
    \A s \in Slices :
        /\ s.text \in Contents
        /\ [at |-> "copy", buffer |-> NULL, text |-> s.text] \in Slices
        /\ s.at = "buffer" => s.buffer \in Buffers
BY OwnershipAssumption DEF Slices

LEMMA SliceType ==
    ASSUME TypeOK, NEW v \in Values, v # NULL => v.buffer \in held \cup {NULL}
    PROVE  /\ Slice(v) \in Slices
           /\ Slice(v).at # "copy"
           /\ Slice(v).at = "buffer" => Slice(v).buffer \notin collected
<1>1. CASE v = NULL
  BY <1>1, OwnershipAssumption DEF Slice, Slices
<1>2. CASE v # NULL /\ v.buffer = NULL
  <2>1. v.content \in Contents
    BY <1>2, OwnershipAssumption DEF Values, Strings
  <2>. QED BY <1>2, <2>1 DEF Slice, Slices
<1>3. CASE v # NULL /\ v.buffer # NULL
  <2>1. v.buffer \in Buffers /\ v.buffer \notin collected /\ content[v.buffer] \in Contents
    BY <1>3 DEF TypeOK
  <2>. QED BY <1>3, <2>1 DEF Slice, Slices
<1>. QED BY <1>1, <1>2, <1>3

\* A step that leaves a call, its memory and the Buffers leaves its invariant.
LEMMA CallInvFrame ==
    ASSUME NEW c, CallInv(c), call'[c] = call[c], heap'[c] = heap[c], collected' = collected
    PROVE  CallInv(c)'
BY DEF CallInv

\* What has to be shown of a step of one call.
LEMMA OneCallStep ==
    ASSUME IInv, NEW c \in Calls, NEW op \in Ops, NEW x \in CallsOf(op),
           NEW h \in [Names -> HeapStates],
           call' = [call EXCEPT ![c] = x], heap' = [heap EXCEPT ![c] = h],
           CallInv(c)', crashed' \in BOOLEAN, crashed => crashed', UNCHANGED <<buffers, native>>
    PROVE  IInv'
<1>1. TypeOK'
  BY CallType DEF IInv, TypeOK, buffers, native
<1>2. ASSUME NEW d \in Calls PROVE CallInv(d)'
  <2>1. CASE d # c
    <3>1. CallInv(d) /\ call'[d] = call[d] /\ heap'[d] = heap[d] /\ collected' = collected
      BY <2>1 DEF IInv, TypeOK, buffers
    <3>. QED BY <3>1, CallInvFrame
  <2>. QED BY <2>1
<1>3. ASSUME NEW i \in Iterators PROVE IteratorInv(i)'
  BY DEF IInv, IteratorInv, native
<1>. QED BY <1>1, <1>2, <1>3 DEF IInv

\* What disposing of one argument does to the memory of a call.
LEMMA DisposeFact ==
    ASSUME NEW h \in [Names -> HeapStates], NEW slice, NEW a \in Names,
           slice[a] \in Slices, slice[a].at # "copy"
    PROVE  LET d == Dispose(h, slice[a].buffer, slice, a) IN
           /\ d \in [Names -> HeapStates]
           /\ \A b \in Names :
                d[b] = IF b = a /\ slice[a].text # EMPTY /\ slice[a].at = "new"
                          THEN Free(h[b]) ELSE h[b]
<1>1. Disposed(slice[a].buffer, slice[a]) <=> slice[a].text # EMPTY /\ slice[a].at = "new"
  BY OwnershipAssumption DEF Disposed, Slices
<1>2. \A state \in HeapStates : Free(state) \in HeapStates
  BY DEF Free, HeapStates
<1>. QED BY <1>1, <1>2 DEF Dispose

LEMMA AllocatedFact ==
    ASSUME NEW op \in Ops, NEW slice, DOMAIN slice = Args[op]
    PROVE  /\ Allocated(slice) \in [Names -> HeapStates]
           /\ \A a \in Names : Allocated(slice)[a] =
                IF a \in Args[op] /\ slice[a].at = "new" THEN "allocated" ELSE "none"
BY DEF Allocated, HeapStates

\* What a batch leaves of its arguments' memory.
LEMMA BatchedFact ==
    ASSUME NEW slice \in [Args["batch"] -> Slices], \A a \in Args["batch"] : slice[a].at # "copy"
    PROVE  /\ Batched(slice) \in [Names -> HeapStates]
           /\ \A a \in Names : Batched(slice)[a] =
                IF a \in Args["batch"] /\ slice[a].at = "new"
                   THEN IF slice[a].text = EMPTY THEN "allocated" ELSE "freed" ELSE "none"
<1>. DEFINE h1 == Allocated(slice)
            h2 == Dispose(h1, slice["key"].buffer, slice, "key")
            h3 == Dispose(h2, slice["value"].buffer, slice, "value")
<1>1. Args["batch"] = {"key", "value"} /\ {"key", "value"} \subseteq Names /\ "batch" \in Ops
  BY DEF Args, Names, Ops
<1>2. /\ h1 \in [Names -> HeapStates]
      /\ \A a \in Names : h1[a] =
           IF a \in Args["batch"] /\ slice[a].at = "new" THEN "allocated" ELSE "none"
  BY <1>1, AllocatedFact
<1>. HIDE DEF h1
<1>3. /\ h2 \in [Names -> HeapStates]
      /\ \A b \in Names : h2[b] = IF b = "key" /\ slice["key"].text # EMPTY /\ slice["key"].at = "new"
                                     THEN Free(h1[b]) ELSE h1[b]
  BY <1>1, <1>2, DisposeFact
<1>. HIDE DEF h2
<1>4. /\ h3 \in [Names -> HeapStates]
      /\ \A b \in Names : h3[b] = IF b = "value" /\ slice["value"].text # EMPTY /\ slice["value"].at = "new"
                                     THEN Free(h2[b]) ELSE h2[b]
  BY <1>1, <1>3, DisposeFact
<1>5. Batched(slice) = h3
  BY DEF Batched, h1, h2
<1>. HIDE DEF h3
<1>6. \A b \in Names : h3[b] = IF b \in Args["batch"] /\ slice[b].at = "new"
                   THEN IF slice[b].text = EMPTY THEN "allocated" ELSE "freed" ELSE "none"
  BY <1>1, <1>2, <1>3, <1>4 DEF Free
<1>. QED BY <1>4, <1>5, <1>6

\* The handles saved are those of the slices' Buffers.
LEMMA SavedFact ==
    ASSUME NEW op \in Ops, NEW slice \in [Args[op] -> Slices]
    PROVE  /\ Saved(op, slice) \in [Handles[op] -> Buffers \cup {NULL}]
           /\ op # "batch" => \A a \in Args[op] :
                Saved(op, slice)[HandleName(op, a)] = slice[a].buffer
<1>1. \A a \in Args[op] : slice[a].buffer \in Buffers \cup {NULL}
  BY DEF Slices
<1>2. CASE op = "batch"
  BY <1>2 DEF Saved, Handles, Ops, Args
<1>3. CASE op = "compactRange"
  <2>1. Saved(op, slice) = [n \in Handles[op] |->
                                   slice[IF n = "compactStart" THEN "start" ELSE "end"].buffer]
    BY <1>3 DEF Saved
  <2>2. Handles[op] = {"compactStart", "compactEnd"} /\ Args[op] = {"start", "end"}
    BY <1>3 DEF Handles, Args, Ops
  <2>. QED BY <1>1, <1>3, <2>1, <2>2 DEF HandleName
<1>4. CASE op \notin {"batch", "compactRange"}
  <2>1. Saved(op, slice) = [n \in Handles[op] |-> slice[n].buffer]
    BY <1>4 DEF Saved
  <2>2. Handles[op] = Args[op]
    BY <1>4 DEF Handles
  <2>. QED BY <1>1, <1>4, <2>1, <2>2 DEF HandleName
<1>. QED BY <1>2, <1>3, <1>4

LEMMA CallMade ==
    ASSUME IInv, NEW c \in Calls, NEW op \in Ops, NEW arg \in [Args[op] -> Values], Call(c, op, arg)
    PROVE  IInv'
<1>. DEFINE slice == [a \in Args[op] |-> Slice(arg[a])]
            kept  == IF op = "batch" THEN Kept(slice) ELSE slice
            saved == Saved(op, slice)
            x == [op |-> op, stage |-> "queued", slice |-> kept, handle |-> saved,
                  read |-> [a \in Args[op] |-> NULL]]
            h == IF op = "batch" THEN Batched(slice) ELSE Allocated(slice)
<1>1. \A a \in Args[op] : /\ slice[a] \in Slices /\ slice[a].at # "copy"
                          /\ slice[a].at = "buffer" => slice[a].buffer \notin collected
  BY SliceType DEF Call, Accepted, IInv
<1>2. slice \in [Args[op] -> Slices] /\ DOMAIN slice = Args[op]
  BY <1>1
<1>3. call' = [call EXCEPT ![c] = x] /\ heap' = [heap EXCEPT ![c] = h] /\ UNCHANGED <<buffers, native, crashed>>
  BY DEF Call
<1>. HIDE DEF slice
<1>4. kept \in [Args[op] -> Slices]
  BY <1>2, SliceFacts DEF Kept
<1>5. /\ saved \in [Handles[op] -> Buffers \cup {NULL}]
      /\ op # "batch" => \A a \in Args[op] : saved[HandleName(op, a)] = slice[a].buffer
  BY <1>2, SavedFact
<1>6. h \in [Names -> HeapStates]
  BY <1>1, <1>2, AllocatedFact, BatchedFact
<1>7. op # "batch" => \A a \in Names :
        h[a] = IF a \in Args[op] /\ slice[a].at = "new" THEN "allocated" ELSE "none"
  BY <1>2, AllocatedFact
<1>8. op = "batch" => \A a \in Names :
        h[a] = IF a \in Args[op] /\ slice[a].at = "new"
                  THEN IF slice[a].text = EMPTY THEN "allocated" ELSE "freed" ELSE "none"
  BY <1>1, <1>2, BatchedFact
<1>. HIDE DEF saved
<1>9. x \in CallsOf(op)
  BY <1>4, <1>5 DEF CallsOf
<1>10. CallInv(c)'
  <2>1. call'[c] = x /\ heap'[c] = h /\ collected' = collected
    BY <1>3 DEF IInv, TypeOK, buffers
  <2>2. \A a \in Names : h[a] # "misfreed"
    BY <1>7, <1>8
  <2>3. op # "batch" => \A a \in Args[op] :
          /\ h[a] = IF kept[a].at = "new" THEN "allocated" ELSE "none"
          /\ kept[a].at # "copy" /\ saved[HandleName(op, a)] = kept[a].buffer
    BY <1>1, <1>5, <1>7, OpsFacts
  <2>4. op = "batch" => \A a \in Args[op] :
          kept[a].at = "copy" /\ (h[a] = "allocated" => kept[a].text = EMPTY)
    BY <1>2, <1>8, OpsFacts DEF Kept
  <2>5. \A a \in Args[op] : kept[a].at = "buffer" => kept[a].buffer \notin collected
    BY <1>1, <1>2 DEF Kept
  <2>. HIDE DEF kept, h
  <2>. QED BY <2>1, <2>2, <2>3, <2>4, <2>5 DEF CallInv
<1>. HIDE DEF x, h
<1>. QED BY <1>3, <1>6, <1>9, <1>10, OneCallStep DEF IInv, TypeOK

\* What CallInv says of the arguments of a worker that has not completed.
LEMMA NothingGone ==
    ASSUME IInv, NEW c \in Calls, call[c].stage \in {"queued", "executed"},
           NEW a \in Read[call[c].op]
    PROVE  ~Gone(c, a)
<1>1. call[c] # NoCall /\ call[c].op \in Ops /\ a \in Args[call[c].op] /\ CallInv(c)
  BY StageMeansCall, CallFields, OpsFacts DEF IInv
<1>. QED BY <1>1 DEF CallInv, Gone

LEMMA ArgumentRead ==
    ASSUME IInv, NEW c \in Calls, NEW a \in DOMAIN call[c].slice, ExecuteRead(c, a)
    PROVE  IInv'
<1>. DEFINE cl == call[c]
            op == call[c].op
            text == Content(call[c].slice[a])
            x == [cl EXCEPT !.read[a] = text]
<1>1. /\ cl # NoCall /\ cl \in CallsOf(op) /\ op \in Ops /\ CallInv(c)
      /\ cl.slice \in [Args[op] -> Slices] /\ cl.read \in [Args[op] -> Contents \cup {NULL}]
      /\ a \in Args[op] /\ cl.stage = "queued"
  BY StageMeansCall, CallFields DEF ExecuteRead, IInv
<1>2. text \in Contents
  <2>1. cl.slice[a] \in Slices
    BY <1>1
  <2>2. /\ cl.slice[a].text \in Contents
        /\ cl.slice[a].at = "buffer" => cl.slice[a].buffer \in Buffers
    BY <2>1, SliceFacts
  <2>. QED BY <2>2 DEF Content, IInv, TypeOK
<1>3. x \in CallsOf(op)
  BY <1>1, <1>2 DEF CallsOf
<1>4. /\ call' = [call EXCEPT ![c] = x] /\ heap' = [heap EXCEPT ![c] = heap[c]]
      /\ UNCHANGED <<buffers, native>>
  BY DEF ExecuteRead, IInv, TypeOK
<1>5. heap[c] \in [Names -> HeapStates]
  BY DEF IInv, TypeOK
<1>6. crashed' \in BOOLEAN /\ (crashed => crashed')
  BY DEF ExecuteRead
<1>7. CallInv(c)'
  <2>1. call'[c] = x /\ heap'[c] = heap[c] /\ collected' = collected
    BY <1>4, <1>5 DEF IInv, TypeOK, buffers
  <2>2. /\ x.op = op /\ x.stage = cl.stage /\ x.slice = cl.slice /\ cl.op = op
        /\ x.handle = cl.handle
        /\ \A b \in Args[op] : x.read[b] = IF b = a THEN text ELSE cl.read[b]
    BY <1>1 DEF CallsOf
  <2>3. text # cl.slice[a].text => cl.slice[a].at = "buffer"
    BY DEF Content
  <2>4. x # NoCall
    BY <1>1, <2>2 DEF NoCall
  <2>. HIDE DEF x, text, op
  <2>. QED BY <1>1, <2>1, <2>2, <2>3, <2>4 DEF CallInv
<1>. HIDE DEF x
<1>. QED BY <1>1, <1>3, <1>4, <1>5, <1>6, <1>7, OneCallStep

\* The class chain frees what was allocated for the slices with bytes, once,
\* and passes over the Buffers.
LEMMA HeapAfterFact ==
    ASSUME IInv, NEW c \in Calls, call[c] # NoCall, call[c].stage = "executed"
    PROVE  LET op == call[c].op
               slice == call[c].slice
               h == HeapAfter(heap[c], call[c])
           IN  /\ h \in [Names -> HeapStates]
               /\ \A b \in Names : h[b] =
                    IF /\ op \notin {"batch", "approximateSize"} /\ b \in Args[op]
                       /\ slice[b].text # EMPTY /\ slice[b].at = "new"
                       THEN "freed" ELSE heap[c][b]
<1>. DEFINE cl == call[c]
            op == cl.op
            slice == cl.slice
            h0 == heap[c]
            gone(b) == slice[b].text # EMPTY /\ slice[b].at = "new"
<1>1. /\ op \in Ops /\ slice \in [Args[op] -> Slices] /\ h0 \in [Names -> HeapStates]
      /\ cl.handle \in [Handles[op] -> Buffers \cup {NULL}]
  BY CallFields DEF IInv, TypeOK
<1>2. op # "batch" => \A a \in Args[op] :
        /\ a \in Names /\ slice[a] \in Slices /\ slice[a].at # "copy"
        /\ GetFromPersistent(cl, HandleName(op, a)) = slice[a].buffer
        /\ slice[a].at = "new" => h0[a] = "allocated"
  <2>1. CallInv(c)
    BY DEF IInv
  <2>2. op # "batch" => \A a \in Args[op] :
          cl.slice[a].at # "copy" /\ cl.handle[HandleName(op, a)] = slice[a].buffer
    BY <1>1, <2>1 DEF CallInv
  <2>3. op # "batch" => \A a \in Args[op] : slice[a].at = "new" => h0[a] = "allocated"
    BY <1>1, <2>1 DEF CallInv
  <2>. QED BY <1>1, <2>2, <2>3, OpsFacts DEF GetFromPersistent
<1>3. \A h \in [Names -> HeapStates] : \A a \in Args[op] :
        op # "batch" =>
           LET d == Dispose(h, slice[a].buffer, slice, a) IN
           /\ d \in [Names -> HeapStates]
           /\ \A b \in Names : d[b] = IF b = a /\ gone(a) THEN Free(h[b]) ELSE h[b]
  BY <1>2, DisposeFact
<1>. HIDE DEF gone
<1>4. CASE op = "put"
  <2>. DEFINE h1 == Dispose(h0, slice["value"].buffer, slice, "value")
              h2 == Dispose(h1, slice["key"].buffer, slice, "key")
  <2>1. Args[op] = {"key", "value"} /\ HandleName(op, "key") = "key" /\ HandleName(op, "value") = "value"
    BY <1>4 DEF Args, HandleName
  <2>2. HeapAfter(heap[c], cl) = h2
    BY <1>2, <1>4, <2>1 DEF HeapAfter, WriteWorker_WorkComplete, IOWorker_WorkComplete
  <2>3. /\ h1 \in [Names -> HeapStates]
        /\ \A b \in Names : h1[b] = IF b = "value" /\ gone("value") THEN Free(h0[b]) ELSE h0[b]
    BY <1>1, <1>3, <1>4, <2>1
  <2>. HIDE DEF h1
  <2>4. /\ h2 \in [Names -> HeapStates]
        /\ \A b \in Names : h2[b] = IF b = "key" /\ gone("key") THEN Free(h1[b]) ELSE h1[b]
    BY <1>3, <1>4, <2>1, <2>3
  <2>. HIDE DEF h2
  <2>5. \A b \in Names : h2[b] = IF b \in Args[op] /\ gone(b) THEN Free(h0[b]) ELSE h0[b]
    BY <2>1, <2>3, <2>4
  <2>. QED BY <1>2, <1>4, <2>2, <2>4, <2>5 DEF Free, gone
<1>5. CASE op \in {"get", "del"}
  <2>. DEFINE h1 == Dispose(h0, slice["key"].buffer, slice, "key")
  <2>1. Args[op] = {"key"} /\ HandleName(op, "key") = "key"
    BY <1>5 DEF Args, HandleName
  <2>2. HeapAfter(heap[c], cl) = h1
    BY <1>2, <1>5, <2>1 DEF HeapAfter, IOWorker_WorkComplete
  <2>3. /\ h1 \in [Names -> HeapStates]
        /\ \A b \in Names : h1[b] = IF b = "key" /\ gone("key") THEN Free(h0[b]) ELSE h0[b]
    BY <1>1, <1>3, <1>5, <2>1
  <2>. HIDE DEF h1
  <2>. QED BY <1>2, <1>5, <2>1, <2>2, <2>3 DEF Free, gone
<1>6. CASE op = "compactRange"
  <2>. DEFINE h1 == Dispose(h0, slice["start"].buffer, slice, "start")
              h2 == Dispose(h1, slice["end"].buffer, slice, "end")
  <2>1. /\ Args[op] = {"start", "end"}
        /\ HandleName(op, "start") = "compactStart" /\ HandleName(op, "end") = "compactEnd"
    BY <1>6 DEF Args, HandleName
  <2>2. HeapAfter(heap[c], cl) = h2
    BY <1>2, <1>6, <2>1 DEF HeapAfter, CompactRangeWorker_WorkComplete
  <2>3. /\ h1 \in [Names -> HeapStates]
        /\ \A b \in Names : h1[b] = IF b = "start" /\ gone("start") THEN Free(h0[b]) ELSE h0[b]
    BY <1>1, <1>3, <1>6, <2>1
  <2>. HIDE DEF h1
  <2>4. /\ h2 \in [Names -> HeapStates]
        /\ \A b \in Names : h2[b] = IF b = "end" /\ gone("end") THEN Free(h1[b]) ELSE h1[b]
    BY <1>3, <1>6, <2>1, <2>3
  <2>. HIDE DEF h2
  <2>5. \A b \in Names : h2[b] = IF b \in Args[op] /\ gone(b) THEN Free(h0[b]) ELSE h0[b]
    BY <2>1, <2>3, <2>4
  <2>. QED BY <1>2, <1>6, <2>2, <2>4, <2>5 DEF Free, gone
<1>7. CASE op \in {"batch", "approximateSize"}
  BY <1>1, <1>7 DEF HeapAfter
<1>. QED BY <1>1, <1>4, <1>5, <1>6, <1>7, OpsFacts

\* The steps of a worker that change its stage, with what they leave of its memory.
StageStep(c, stage, h) ==
    /\ call[c] # NoCall
    /\ \/ stage = "executed" /\ call[c].stage = "queued" /\ h = heap[c]
       \/ stage = "callback" /\ call[c].stage = "executed" /\ h = HeapAfter(heap[c], call[c])
       \/ stage = "done" /\ call[c].stage = "callback" /\ h = heap[c]
    /\ call' = [call EXCEPT ![c].stage = stage]
    /\ heap' = [heap EXCEPT ![c] = h]
    /\ UNCHANGED <<buffers, native, crashed>>

LEMMA StageStepInv ==
    ASSUME IInv, NEW c \in Calls, NEW stage, NEW h, StageStep(c, stage, h)
    PROVE  IInv'
<1>. DEFINE cl == call[c]
            op == call[c].op
            x == [cl EXCEPT !.stage = stage]
<1>1. /\ cl # NoCall /\ cl \in CallsOf(op) /\ op \in Ops /\ CallInv(c)
      /\ cl.slice \in [Args[op] -> Slices] /\ cl.read \in [Args[op] -> Contents \cup {NULL}]
      /\ stage \in {"executed", "callback", "done"}
  BY CallFields DEF IInv, StageStep
<1>2. x \in CallsOf(op)
  BY <1>1 DEF CallsOf
<1>3. call' = [call EXCEPT ![c] = x] /\ heap' = [heap EXCEPT ![c] = h]
  BY DEF IInv, TypeOK, StageStep
<1>4. heap[c] \in [Names -> HeapStates]
  BY DEF IInv, TypeOK
<1>5. \A a \in Names : h[a] =
        IF /\ stage = "callback" /\ op \notin {"batch", "approximateSize"} /\ a \in Args[op]
           /\ cl.slice[a].text # EMPTY /\ cl.slice[a].at = "new"
           THEN "freed" ELSE heap[c][a]
  BY <1>1, HeapAfterFact DEF StageStep
<1>6. h \in [Names -> HeapStates]
  BY <1>1, <1>4, HeapAfterFact DEF StageStep
<1>7. /\ x.op = op /\ x.stage = stage /\ x.slice = cl.slice /\ x.read = cl.read /\ x # NoCall
      /\ x.handle = cl.handle
  BY <1>1 DEF CallsOf, NoCall
<1>8. CallInv(c)'
  <2>1. call'[c] = x /\ heap'[c] = h /\ collected' = collected
    BY <1>3 DEF IInv, TypeOK, buffers, StageStep
  <2>2. \A a \in Names : h[a] # "misfreed"
    BY <1>1, <1>5 DEF CallInv
  <2>3. op = "batch" => \A a \in Args[op] :
          cl.slice[a].at = "copy" /\ (h[a] = "allocated" => cl.slice[a].text = EMPTY)
    BY <1>1, <1>5, OpsFacts DEF CallInv
  <2>4. op # "batch" => \A a \in Args[op] :
          cl.slice[a].at # "copy" /\ cl.handle[HandleName(op, a)] = cl.slice[a].buffer
    BY <1>1 DEF CallInv
  <2>5. stage = "executed" /\ op # "batch" => \A a \in Args[op] :
          h[a] = IF cl.slice[a].at = "new" THEN "allocated" ELSE "none"
    BY <1>1, <1>5, OpsFacts DEF CallInv, StageStep
  <2>6. stage \in {"callback", "done"} => \A a \in Args[op] :
          h[a] = "allocated" => cl.slice[a].text = EMPTY \/ op = "approximateSize"
    <3>1. CASE stage = "callback" /\ op \notin {"batch", "approximateSize"}
      <4>2. ASSUME NEW a \in Args[op], h[a] = "allocated" PROVE cl.slice[a].text = EMPTY
        <5>1. a \in Names /\ cl.stage = "executed"
          BY <1>1, <3>1, OpsFacts DEF StageStep
        <5>2. heap[c][a] = IF cl.slice[a].at = "new" THEN "allocated" ELSE "none"
          BY <1>1, <3>1, <5>1 DEF CallInv
        <5>. QED BY <1>5, <3>1, <4>2, <5>1, <5>2
      <4>. QED BY <4>2
    <3>2. CASE op = "batch"
      BY <2>3, <3>2
    <3>3. CASE stage = "done"
      <4>1. \A a \in Args[op] : h[a] = heap[c][a]
        BY <1>1, <3>3, OpsFacts DEF StageStep
      <4>. QED BY <1>1, <3>3, <4>1 DEF CallInv, StageStep
    <3>. QED BY <3>1, <3>2, <3>3
  <2>7. stage \in {"executed", "callback"} => \A a \in Args[op] :
          cl.slice[a].at = "buffer" => cl.slice[a].buffer \notin collected
    BY <1>1 DEF CallInv, StageStep
  <2>8. \A a \in Args[op] :
          cl.read[a] \notin {NULL, cl.slice[a].text} => cl.slice[a].at = "buffer"
    BY <1>1 DEF CallInv, StageStep
  <2>. HIDE DEF x, op, cl
  <2>. QED BY <1>1, <1>7, <2>1, <2>2, <2>3, <2>4, <2>5, <2>6, <2>7, <2>8 DEF CallInv
<1>. HIDE DEF x
<1>. QED BY <1>1, <1>2, <1>3, <1>6, <1>8, OneCallStep DEF IInv, TypeOK, StageStep

LEMMA CallInvariant == IInv /\ CallStep => IInv'
<1>. SUFFICES ASSUME IInv, NEW c \in Calls,
                     \/ \E op \in Ops : \E arg \in [Args[op] -> Values] : Call(c, op, arg)
                     \/ \E a \in DOMAIN call[c].slice : ExecuteRead(c, a)
                     \/ ExecuteEnds(c) \/ WorkComplete(c) \/ Destroy(c)
              PROVE  IInv'
  BY DEF CallStep
<1>1. ASSUME UNCHANGED heap PROVE heap' = [heap EXCEPT ![c] = heap[c]]
  BY <1>1 DEF IInv, TypeOK
<1>2. CASE ExecuteEnds(c)
  <2>1. StageStep(c, "executed", heap[c])
    BY <1>1, <1>2, StageMeansCall DEF ExecuteEnds, StageStep
  <2>. QED BY <2>1, StageStepInv
<1>3. CASE WorkComplete(c)
  <2>1. StageStep(c, "callback", HeapAfter(heap[c], call[c]))
    BY <1>3, StageMeansCall DEF WorkComplete, StageStep
  <2>. QED BY <2>1, StageStepInv
<1>4. CASE Destroy(c)
  <2>1. StageStep(c, "done", heap[c])
    BY <1>1, <1>4, StageMeansCall DEF Destroy, StageStep
  <2>. QED BY <2>1, StageStepInv
<1>. QED BY <1>2, <1>3, <1>4, CallMade, ArgumentRead

-----------------------------------------------------------------------------
(* Iterators and Buffers                                                     *)

\* Steps of the iterators leave the calls alone.
LEMMA IteratorStepFrame ==
    ASSUME IInv, UNCHANGED <<buffers, call, heap>>,
           iterator' \in [Iterators -> [stage : {"none", "alive", "collected"}, held : BOOLEAN,
                                        nexting : BOOLEAN, next : Outcomes \cup {"none", "queued"},
                                        end : {"none", "deferred", "queued", "done"}]],
           iterators' \subseteq Iterators, crashed' \in BOOLEAN,
           \A i \in Iterators : IteratorInv(i)'
    PROVE  IInv'
<1>1. TypeOK'
  BY DEF IInv, TypeOK, buffers
<1>2. \A c \in Calls : CallInv(c)'
  BY CallInvFrame DEF IInv, buffers
<1>. QED BY <1>1, <1>2 DEF IInv

LEMMA IteratorInvariant == IInv /\ IteratorStep => IInv'
<1>. SUFFICES ASSUME IInv, IteratorStep PROVE IInv'
  OBVIOUS
<1>. USE DEF native
<1>1. /\ UNCHANGED <<buffers, call, heap>>
      /\ crashed' \in BOOLEAN /\ iterators' \subseteq Iterators
  BY DEF IteratorStep, Close, NewIterator, IteratorNext, IteratorEnd, EndCompletes, NextExecutes, NextCompletes,
         DropIterator, CollectIterator, IInv, TypeOK
<1>. DEFINE T == [stage : {"none", "alive", "collected"}, held : BOOLEAN,
                  nexting : BOOLEAN, next : Outcomes \cup {"none", "queued"},
                  end : {"none", "deferred", "queued", "done"}]
<1>2. iterator \in [Iterators -> T] /\ \A i \in Iterators : IteratorInv(i)
  BY DEF IInv, TypeOK
<1>3. \A it \in T : /\ End(it) \in T
                    /\ End(it).stage = it.stage /\ End(it).held = it.held
                    /\ End(it).end # "none" /\ (End(it).end = "done" => it.end = "done")
  BY DEF End
<1>4. CASE Close
  <2>1. iterator' \in [Iterators -> T]
    BY <1>2, <1>3, <1>4 DEF Close
  <2>2. ASSUME NEW i \in Iterators PROVE IteratorInv(i)'
    <3>1. CASE i \in iterators
      <4>1. iterator'[i] = End(iterator[i]) /\ iterators' = iterators
            /\ (iterator[i].stage = "collected" => crashed') /\ (crashed => crashed')
        BY <1>4, <3>1 DEF Close
      <4>. QED BY <1>2, <1>3, <3>1, <4>1 DEF IteratorInv
    <3>2. CASE i \notin iterators
      BY <1>2, <1>4, <3>2 DEF Close, IteratorInv
    <3>. QED BY <3>1, <3>2
  <2>. QED BY <1>1, <2>1, <2>2, IteratorStepFrame
\* Every other step changes one iterator.
<1>5. ASSUME NEW i \in Iterators, NEW it \in T, iterator' = [iterator EXCEPT ![i] = it],
             crashed' = crashed, iterators' \ {i} = iterators \ {i}, IteratorInv(i)'
      PROVE  IInv'
  <2>1. iterator' \in [Iterators -> T]
    BY <1>2, <1>5
  <2>2. ASSUME NEW j \in Iterators, j # i PROVE IteratorInv(j)'
    BY <1>2, <1>5, <2>2 DEF IteratorInv
  <2>. QED BY <1>1, <1>5, <2>1, <2>2, IteratorStepFrame
<1>6. ASSUME NEW i \in Iterators,
             \/ NewIterator(i) \/ IteratorNext(i) \/ IteratorEnd(i) \/ EndCompletes(i)
             \/ NextCompletes(i) \/ \E outcome \in Outcomes : NextExecutes(i, outcome)
             \/ DropIterator(i) \/ CollectIterator(i)
      PROVE  IInv'
  <2>1. iterator[i] \in T /\ IteratorInv(i)
    BY <1>2
  <2>2. \A it \in T : iterator' = [iterator EXCEPT ![i] = it] => iterator'[i] = it
    BY <1>2
  <2>3. CASE NewIterator(i)
    <3>. DEFINE it == [iterator[i] EXCEPT !.stage = "alive", !.held = TRUE]
    <3>1. it \in T /\ iterator' = [iterator EXCEPT ![i] = it]
      BY <1>2, <2>1, <2>3 DEF NewIterator
    <3>2. IteratorInv(i)'
      BY <2>1, <2>2, <2>3, <3>1 DEF NewIterator, IteratorInv
    <3>. QED BY <1>5, <2>3, <3>1, <3>2 DEF NewIterator
  <2>4. CASE IteratorNext(i)
    <3>. DEFINE it == [iterator[i] EXCEPT !.next = "queued", !.nexting = TRUE]
    <3>1. it \in T /\ iterator' = [iterator EXCEPT ![i] = it]
      BY <1>2, <2>1, <2>4 DEF IteratorNext
    <3>2. IteratorInv(i)'
      BY <2>1, <2>2, <2>4, <3>1 DEF IteratorNext, IteratorInv
    <3>. QED BY <1>5, <2>4, <3>1, <3>2 DEF IteratorNext
  <2>5. CASE IteratorEnd(i)
    <3>1. End(iterator[i]) \in T /\ iterator' = [iterator EXCEPT ![i] = End(iterator[i])]
      BY <1>2, <1>3, <2>1, <2>5 DEF IteratorEnd
    <3>2. IteratorInv(i)'
      BY <1>3, <2>1, <2>2, <2>5, <3>1 DEF IteratorEnd, IteratorInv
    <3>. QED BY <1>5, <2>5, <3>1, <3>2 DEF IteratorEnd
  <2>6. CASE EndCompletes(i)
    <3>. DEFINE it == [iterator[i] EXCEPT !.end = "done"]
    <3>1. it \in T /\ iterator' = [iterator EXCEPT ![i] = it]
      BY <1>2, <2>1, <2>6 DEF EndCompletes
    <3>2. IteratorInv(i)'
      BY <2>1, <2>2, <2>6, <3>1 DEF EndCompletes, IteratorInv
    <3>. QED BY <1>5, <2>6, <3>1, <3>2 DEF EndCompletes
  <2>7. CASE NextCompletes(i)
    <3>. DEFINE end == IF iterator[i].end = "deferred" /\ iterator[i].next \in {"rows", "eof"}
                          THEN "queued" ELSE iterator[i].end
                it == [iterator[i] EXCEPT !.next = "none", !.end = end]
    <3>1. it \in T /\ iterator' = [iterator EXCEPT ![i] = it]
      BY <1>2, <2>1, <2>7 DEF NextCompletes
    <3>2. IteratorInv(i)'
      BY <2>1, <2>2, <2>7, <3>1 DEF NextCompletes, IteratorInv
    <3>. QED BY <1>5, <2>7, <3>1, <3>2 DEF NextCompletes
  <2>10. ASSUME NEW outcome \in Outcomes, NextExecutes(i, outcome) PROVE IInv'
    <3>. DEFINE after == IF outcome = "openError" THEN iterator[i].nexting ELSE outcome = "rows"
                it == [iterator[i] EXCEPT !.next = outcome, !.nexting = after]
    <3>1. it \in T /\ iterator' = [iterator EXCEPT ![i] = it]
      BY <1>2, <2>1, <2>10 DEF NextExecutes
    <3>2. IteratorInv(i)'
      BY <2>1, <2>2, <2>10, <3>1 DEF NextExecutes, IteratorInv
    <3>. QED BY <1>5, <2>10, <3>1, <3>2 DEF NextExecutes
  <2>8. CASE DropIterator(i)
    <3>. DEFINE it == [iterator[i] EXCEPT !.held = FALSE]
    <3>1. it \in T /\ iterator' = [iterator EXCEPT ![i] = it]
      BY <1>2, <2>1, <2>8 DEF DropIterator
    <3>2. IteratorInv(i)'
      BY <2>1, <2>2, <2>8, <3>1 DEF DropIterator, IteratorInv
    <3>. QED BY <1>5, <2>8, <3>1, <3>2 DEF DropIterator
  <2>9. CASE CollectIterator(i)
    <3>. DEFINE it == [iterator[i] EXCEPT !.stage = "collected"]
    <3>1. it \in T /\ iterator' = [iterator EXCEPT ![i] = it]
      BY <1>2, <2>1, <2>9 DEF CollectIterator
    <3>2. iterator[i].end \notin {"deferred", "queued"}
      BY <2>9 DEF CollectIterator, WorkersOf
    <3>3. IteratorInv(i)'
      BY <2>1, <2>2, <2>9, <3>1, <3>2 DEF CollectIterator, IteratorInv
    <3>. QED BY <1>5, <2>9, <3>1, <3>3 DEF CollectIterator
  <2>. QED BY <1>6, <2>3, <2>4, <2>5, <2>6, <2>7, <2>8, <2>9, <2>10
<1>. QED BY <1>4, <1>6 DEF IteratorStep

LEMMA BufferInvariant == IInv /\ BufferStep => IInv'
<1>. SUFFICES ASSUME IInv, NEW b \in Buffers,
                     DropBuffer(b) \/ CollectBuffer(b) \/ \E v \in Contents : WriteBuffer(b, v)
              PROVE  IInv'
  BY DEF BufferStep
<1>1. UNCHANGED <<call, heap, native, crashed>>
  BY DEF DropBuffer, CollectBuffer, WriteBuffer
<1>2. TypeOK'
  BY <1>1 DEF DropBuffer, CollectBuffer, WriteBuffer, native, IInv, TypeOK
<1>3. ASSUME NEW i \in Iterators PROVE IteratorInv(i)'
  BY <1>1 DEF IInv, IteratorInv, native
<1>4. ASSUME NEW c \in Calls PROVE CallInv(c)'
  <2>1. CASE UNCHANGED collected
    BY <1>1, <2>1, CallInvFrame DEF IInv
  <2>2. CASE CollectBuffer(b)
    <3>1. CASE call[c] = NoCall
      BY <1>1, <3>1 DEF IInv, CallInv
    <3>2. CASE call[c] # NoCall
      <4>1. call[c].slice \in [Args[call[c].op] -> Slices]
        BY <3>2, CallFields DEF IInv
      <4>2. call[c].stage \in {"queued", "executed", "callback"} =>
              \A a \in Args[call[c].op] :
                call[c].slice[a].at = "buffer" => call[c].slice[a].buffer # b
        <5>1. CASE call[c].op = "batch"
          BY <3>2, <5>1 DEF IInv, CallInv
        <5>2. CASE call[c].op # "batch"
          <6>1. \A a \in Args[call[c].op] :
                  /\ HandleName(call[c].op, a) \in DOMAIN call[c].handle
                  /\ call[c].handle[HandleName(call[c].op, a)] = call[c].slice[a].buffer
            BY <3>2, <5>2, CallFields, OpsFacts DEF IInv, CallInv
          <6>. QED BY <2>2, <6>1 DEF CollectBuffer, Persistent, HandleOf
        <5>. QED BY <5>1, <5>2
      <4>3. collected' = collected \cup {b}
        BY <2>2 DEF CollectBuffer
      <4>. QED BY <1>1, <3>2, <4>2, <4>3 DEF IInv, CallInv
    <3>. QED BY <3>1, <3>2
  <2>. QED BY <2>1, <2>2 DEF DropBuffer, WriteBuffer
<1>. QED BY <1>2, <1>3, <1>4 DEF IInv

-----------------------------------------------------------------------------
(* The theorems                                                              *)

LEMMA InvInit == Init => IInv
<1>. SUFFICES ASSUME Init PROVE IInv
  OBVIOUS
<1>1. TypeOK
  BY DEF Init, TypeOK, NoIterator, HeapStates, Outcomes
<1>2. \A c \in Calls : CallInv(c)
  BY DEF Init, CallInv
<1>3. \A i \in Iterators : IteratorInv(i)
  BY DEF Init, IteratorInv, NoIterator
<1>. QED BY <1>1, <1>2, <1>3 DEF IInv

LEMMA InvStep == IInv /\ [Next]_vars => IInv'
<1>1. IInv /\ UNCHANGED vars => IInv'
  <2>. SUFFICES ASSUME IInv, UNCHANGED vars PROVE IInv'
    OBVIOUS
  <2>1. UNCHANGED <<buffers, call, heap, native, crashed>>
    BY DEF vars
  <2>2. \A i \in Iterators : IteratorInv(i)'
    BY <2>1 DEF IInv, IteratorInv, native
  <2>. QED BY <2>1, <2>2, IteratorStepFrame DEF native, IInv, TypeOK
<1>. QED BY <1>1, CallInvariant, IteratorInvariant, BufferInvariant DEF Next

\* The inductive invariant: each call with its memory, each iterator.
THEOREM Invariance == Spec => []IInv
BY InvInit, InvStep, PTL DEF Spec

\* Every call, its memory and every iterator stay of their types.
THEOREM TypeCorrect == Spec => []TypeOK
BY Invariance, PTL DEF IInv

\* No worker finds an argument gone, however many calls share a Buffer.
THEOREM ArgumentsStayAlive == Spec => []ArgumentsAlive
<1>1. IInv => ArgumentsAlive
  BY NothingGone DEF ArgumentsAlive, Pending
<1>. QED BY <1>1, Invariance, PTL

\* Nothing is freed that is not the addon's, nor twice, by the classes in turn.
THEOREM NothingMisfreed == Spec => []FreedOnce
<1>1. IInv => FreedOnce
  BY DEF IInv, CallInv, FreedOnce
<1>. QED BY <1>1, Invariance, PTL

\* The two leaks are all there are.
THEOREM LeaksKnown == Spec => []LeaksAreKnown
<1>1. IInv => LeaksAreKnown
  <2>. SUFFICES ASSUME IInv, NEW c \in Calls, call[c].stage \in {"callback", "done"},
                       NEW a \in DOMAIN call[c].slice, heap[c][a] = "allocated"
                PROVE  call[c].slice[a].text = EMPTY \/ call[c].op = "approximateSize"
    BY DEF LeaksAreKnown
  <2>1. call[c] # NoCall /\ a \in Args[call[c].op] /\ CallInv(c)
    BY StageMeansCall, CallFields DEF IInv
  <2>. QED BY <2>1 DEF CallInv
<1>. QED BY <1>1, Invariance, PTL

\* Strings and batches are read as they were when the call was made.
THEOREM LateReads == Spec => []OnlyBuffersAreReadLate
<1>1. IInv => OnlyBuffersAreReadLate
  <2>. SUFFICES ASSUME IInv, NEW c \in Calls, NEW a \in DOMAIN call[c].read,
                       call[c].read[a] \notin {NULL, call[c].slice[a].text}
                PROVE  call[c].slice[a].at = "buffer" /\ call[c].op # "batch"
    BY DEF OnlyBuffersAreReadLate
  <2>1. call[c] # NoCall
    BY DEF NoCall
  <2>2. a \in Args[call[c].op] /\ CallInv(c)
    BY <2>1, CallFields DEF IInv
  <2>. QED BY <2>1, <2>2 DEF CallInv
<1>. QED BY <1>1, Invariance, PTL

\* Only an iterator that was never ended can be collected while registered.
THEOREM EndedLeave == Spec => []EndedIteratorsLeave
<1>1. IInv => EndedIteratorsLeave
  BY DEF IInv, TypeOK, IteratorInv, EndedIteratorsLeave
<1>. QED BY <1>1, Invariance, PTL

=============================================================================
