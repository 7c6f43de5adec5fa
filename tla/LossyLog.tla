------------------------------- MODULE LossyLog -------------------------------
(***************************************************************************)
(* What the tracer promises to those who log and to the logger: messages   *)
(* may be lost, the oldest one at a time or all that wait, but those that  *)
(* arrive do so once and in the order in which they were sent.             *)
(***************************************************************************)
EXTENDS Naturals, Sequences

VARIABLES
    sent,                 \* how many messages were sent; they are numbered from 1
    channel,              \* the numbers of those on their way
    received              \* the number of the last one received

vars == <<sent, channel, received>>

Init == sent = 0 /\ channel = <<>> /\ received = 0

Send ==
    /\ sent' = sent + 1
    /\ channel' = Append(channel, sent + 1)
    /\ UNCHANGED received

Receive ==
    /\ channel # <<>>
    /\ received' = Head(channel)
    /\ channel' = Tail(channel)
    /\ UNCHANGED sent

Lose ==
    /\ channel # <<>>
    /\ channel' \in {<<>>, Tail(channel)}
    /\ UNCHANGED <<sent, received>>

Next == Send \/ Receive \/ Lose

Spec == Init /\ [][Next]_vars

-----------------------------------------------------------------------------

\* What waits is what was sent last, in order, and later than all received.
Suffix ==
    /\ Len(channel) + received <= sent
    /\ \A i \in DOMAIN channel : channel[i] = sent - Len(channel) + i

\* Nothing is received twice or out of order.
InOrder == [][received' # received => received' > received]_vars

=============================================================================
