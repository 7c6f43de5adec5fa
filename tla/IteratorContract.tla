-------------------------- MODULE IteratorContract --------------------------
(***************************************************************************)
(* What the iterators and db.close() promise each other, whatever pool,    *)
(* workers and flags keep it:                                              *)
(*  - an iterator is released once, after its end has begun, and while no  *)
(*    read of it may still touch it;                                       *)
(*  - no read of it starts once its end has begun;                         *)
(*  - close() begins the end of every iterator there is, and calls back    *)
(*    once all of those are released.                                      *)
(* It says nothing of when: the liveness of the code is in                 *)
(* IteratorLifecycle.                                                      *)
(***************************************************************************)
EXTENDS Integers

CONSTANTS
    MaxIterators,         \* bound: how many iterators are created
    Closes                \* the calls of close()

VARIABLES
    created,              \* how many iterators there have been
    live,                 \* those not released
    ending,               \* the live ones whose end has begun
    reading,              \* those a read may still touch
    close,                \* the state of each close()
    waits                 \* the iterators each close() still waits for

vars == <<created, live, ending, reading, close, waits>>

Init ==
    /\ created = 0
    /\ live = {}
    /\ ending = {}
    /\ reading = {}
    /\ close = [c \in Closes |-> "none"]
    /\ waits = [c \in Closes |-> {}]

Create ==
    /\ created < MaxIterators
    /\ created' = created + 1
    /\ live' = live \cup {created}
    /\ UNCHANGED <<ending, reading, close, waits>>

StartRead(i) ==
    /\ i \in live \ ending
    /\ i \notin reading
    /\ reading' = reading \cup {i}
    /\ UNCHANGED <<created, live, ending, close, waits>>

FinishRead(i) ==
    /\ i \in reading
    /\ reading' = reading \ {i}
    /\ UNCHANGED <<created, live, ending, close, waits>>

BeginEnd(i) ==
    /\ i \in live \ ending
    /\ ending' = ending \cup {i}
    /\ UNCHANGED <<created, live, reading, close, waits>>

Release(i) ==
    /\ i \in ending \ reading
    /\ live' = live \ {i}
    /\ ending' = ending \ {i}
    /\ waits' = [c \in Closes |-> waits[c] \ {i}]
    /\ UNCHANGED <<created, reading, close>>

CallClose(c) ==
    /\ close[c] = "none"
    /\ close' = [close EXCEPT ![c] = "pending"]
    /\ ending' = live
    /\ waits' = [waits EXCEPT ![c] = live]
    /\ UNCHANGED <<created, live, reading>>

ReturnClose(c) ==
    /\ close[c] = "pending"
    /\ waits[c] = {}
    /\ close' = [close EXCEPT ![c] = "returned"]
    /\ UNCHANGED <<created, live, ending, reading, waits>>

Next ==
    \/ Create
    \/ \E i \in 0 .. MaxIterators - 1 :
         StartRead(i) \/ FinishRead(i) \/ BeginEnd(i) \/ Release(i)
    \/ \E c \in Closes : CallClose(c) \/ ReturnClose(c)

Spec == Init /\ [][Next]_vars

=============================================================================
