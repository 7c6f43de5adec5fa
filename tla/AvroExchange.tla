----------------------------- MODULE AvroExchange -----------------------------
(***************************************************************************)
(* One value on its way from a writer to a reader that reads it into an    *)
(* object it has used before (AvroRecords).  On the way the message may be *)
(* cut short, or a number in it replaced.                                  *)
(***************************************************************************)
EXTENDS AvroRecords

CONSTANTS Samples,             \* values of a type, some with numbers out of bounds
          Replacements         \* the numbers that take the place of another

\* The records of the messages, and those whose unions an object is reused with.
Types == {KuduScan, KuduInsert, KuduScanResult, KuduMessage,
          KuduPredicate, KuduColumnDef, KuduDataValue}

ASSUME ExchangeAssumption ==
    /\ Replacements \subseteq Nat
    /\ \A t \in Types : \A v \in Samples[t] : Holds(t, v, FALSE)

VARIABLES
    type, sent, reversed,      \* what is written, and the order of the writer's fields
    target, old,               \* the reader's object, and what it held before
    message, encoded,          \* the tokens written, and whether all of them were
    intact, cut,               \* what became of the message
    pc, arrived                \* whether decode returned, leaving nothing to read

vars == <<type, sent, reversed, target, old, message, encoded, intact, cut, pc, arrived>>

Init ==
    /\ type \in Types /\ reversed \in BOOLEAN
    /\ sent \in Samples[type]
    /\ target \in {v \in Samples[type] : WellFormed(type, v)} /\ old = target
    /\ message = <<>> /\ encoded = FALSE
    /\ intact = TRUE /\ cut = FALSE
    /\ pc = "encode" /\ arrived = FALSE

EncodeMessage ==
    /\ pc = "encode"
    /\ LET result == Encode(type, sent, reversed) IN
       /\ message' = result.tokens
       /\ encoded' = result.ok
    /\ pc' = "transport"
    /\ UNCHANGED <<type, sent, reversed, target, old, intact, cut, arrived>>

Cut ==
    /\ pc = "transport" /\ intact
    /\ \E n \in 0 .. Len(message) - 1 : message' = SubSeq(message, 1, n)
    /\ intact' = FALSE /\ cut' = TRUE
    /\ UNCHANGED <<type, sent, reversed, target, old, encoded, pc, arrived>>

Replace ==
    /\ pc = "transport" /\ intact
    /\ \E i \in DOMAIN message : \E n \in Replacements :
         /\ message[i].token = "number"
         /\ message' = [message EXCEPT ![i].of = n]
    /\ intact' = FALSE
    /\ UNCHANGED <<type, sent, reversed, target, old, encoded, cut, pc, arrived>>

DecodeMessage ==
    /\ pc = "transport"
    /\ LET result == Decode(type, message, target, reversed) IN
       /\ target' = result.object
       /\ arrived' = (result.ok /\ result.rest = <<>>)
    /\ pc' = "done"
    /\ UNCHANGED <<type, sent, reversed, old, message, encoded, intact, cut>>

Next == EncodeMessage \/ Cut \/ Replace \/ DecodeMessage

Spec == Init /\ [][Next]_vars

-----------------------------------------------------------------------------
(* Properties                                                                *)

\* What is read is what was written, whatever the object held before: vectors
\* do not grow, unions do not keep an earlier branch, no field is passed over
\* in either order of the fields (codec_traits, KuduScan.h:212-582).
RoundTrip ==
    pc = "done" /\ intact /\ encoded /\ WellFormed(type, sent) => arrived /\ target = sent

\* A value with a number out of bounds reaches no reader: encode refuses it, or,
\* where it tests one bound only, decode does (KuduScan.h:404-424).  Nor does a
\* message that was cut short.
NothingBrokenArrives ==
    arrived => ~cut /\ (intact => encoded /\ WellFormed(type, sent))

\* Whatever is read, and wherever reading stops, the object keeps the shape of
\* its type: no number out of bounds, no union whose value is of another branch
\* than its index (KuduScan.h:341-358, 492-515).
TargetStaysWellFormed == pc = "done" => WellFormed(type, target)

=============================================================================
