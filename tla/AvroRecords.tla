----------------------------- MODULE AvroRecords ------------------------------
(***************************************************************************)
(* The Avro records of src/avro: how codec_traits writes a value of each   *)
(* type to an Encoder and reads it from a Decoder into an object that may  *)
(* hold an earlier value.                                                  *)
(*                                                                         *)
(* The generated code has one shape for each kind of type; here a type is  *)
(* a value that says which, and Encode and Decode follow it.  The code of  *)
(* a type calls that of its parts, which are of types declared before it;  *)
(* so the operators are defined here level by level, as many levels as the *)
(* types are deep.  The encoder and decoder of the Avro library are        *)
(* external: what is written is a sequence of tokens, numbers keep their   *)
(* value, and strings and bytes are atoms.  A decoder may be told to       *)
(* expect the fields in another order than the reader's                    *)
(* (ResolvingDecoder), and what it reads may have been cut short, or hold  *)
(* numbers no encoder wrote.                                               *)
(***************************************************************************)
EXTENDS Integers, Sequences, SequencesExt

CONSTANTS
    Atoms, NoAtom,        \* strings, bytes and booleans; the one of a new object
    MaxInt,               \* the largest number of an int
    Width                 \* how many numbers a size_t has

ASSUME AvroAssumption ==
    /\ MaxInt \in Nat /\ MaxInt >= 10
    /\ Width \in Nat /\ Width > 2 * MaxInt + 1

-----------------------------------------------------------------------------
(* Types.                                                                    *)

\* An enum class compares as an int, a plain enum as an unsigned one, so that a
\* negative value is above every bound; lower says what encode compares with.
Enum(last)         == [kind |-> "enum", last |-> last, lower |-> TRUE]
Atom               == [kind |-> "atom"]
Union(branches)    == [kind |-> "union", branches |-> branches]   \* after null
Vector(item)       == [kind |-> "vector", item |-> item]
Record(fields)     == [kind |-> "record", fields |-> fields]
Field(name, type)  == [name |-> name, type |-> type]

KuduOperationType  == Enum(2)
KuduPredicateType  == Enum(3)
KuduDataType       == Enum(10)
KuduColumnEncoding == Enum(5)
KuduSchemaType     == Enum(2)

\* Edited by hand: encode tests the upper bound only.
KuduComparisonOperator == [kind |-> "enum", last |-> 6, lower |-> FALSE]

KuduOperation ==
    Record(<<Field("id", Atom), Field("operationType", KuduOperationType)>>)

Encoding == Union(<<KuduColumnEncoding>>)

KuduColumnDef ==
    Record(<<Field("columnName", Atom), Field("dataType", KuduDataType), Field("allowNull", Atom),
             Field("encoding", Encoding), Field("isPrimaryKey", Atom)>>)

KuduComparisonPredicate ==
    Record(<<Field("op", KuduComparisonOperator), Field("dataValue", Atom)>>)

KuduInListPredicate == Record(<<Field("valueList", Vector(Atom))>>)

Predicate == Union(<<KuduComparisonPredicate, KuduInListPredicate>>)

KuduPredicate ==
    Record(<<Field("type", KuduPredicateType), Field("column", KuduColumnDef),
             Field("predicate", Predicate)>>)

KuduScan ==
    Record(<<Field("op", KuduOperation), Field("tableName", Atom),
             Field("predicateList", Vector(KuduPredicate))>>)

DataValue     == Union(<<Atom, Atom>>)
KuduDataValue == Record(<<Field("dataType", KuduDataType), Field("value", DataValue)>>)
KuduRow       == Record(<<Field("values", Vector(KuduDataValue))>>)

KuduInsert ==
    Record(<<Field("op", KuduOperation), Field("tableName", Atom),
             Field("columns", Vector(KuduColumnDef)), Field("row", KuduRow)>>)

KuduScanResult == Record(<<Field("scanId", Atom), Field("rows", Vector(KuduRow))>>)

KuduMessage == Record(<<Field("schemaType", KuduSchemaType), Field("obj", Atom)>>)

Names(type) == {type.fields[i].name : i \in DOMAIN type.fields}

TypeOf(type, name) ==
    type.fields[CHOOSE i \in DOMAIN type.fields : type.fields[i].name = name].type

\* What a constructor makes: records are members of records two deep.
NewMember(type) ==
    CASE type.kind = "enum"   -> 0
      [] type.kind = "atom"   -> NoAtom
      [] type.kind = "union"  -> [idx |-> 0, value |-> NoAtom]
      [] type.kind = "vector" -> <<>>
      [] OTHER                -> NoAtom

NewOf(N(_), type) ==
    IF type.kind = "record" THEN [n \in Names(type) |-> N(TypeOf(type, n))] ELSE NewMember(type)

NewFlat(type) == NewOf(NewMember, type)
New(type)     == NewOf(NewFlat, type)

Ints == -MaxInt - 1 .. MaxInt

\* A value that an object of the type can have; of an exact one each number
\* names a constant, and nothing later has to check it.  What a union holds is
\* of the branch its idx names.
Holds0(type, v, exact) ==
    CASE type.kind = "enum" -> v \in IF exact THEN 0 .. type.last ELSE Ints
      [] type.kind = "atom" -> v \in Atoms \cup {NoAtom}
      [] OTHER              -> FALSE

HoldsOf(H(_, _, _), type, v, exact) ==
    CASE type.kind = "union"  ->
           /\ v = [idx |-> v.idx, value |-> v.value]
           /\ v.idx \in 0 .. Len(type.branches)
           /\ IF v.idx = 0 THEN v.value = NoAtom ELSE H(type.branches[v.idx], v.value, exact)
      [] type.kind = "vector" ->
           /\ v \in Seq({v[i] : i \in DOMAIN v})
           /\ \A i \in DOMAIN v : H(type.item, v[i], exact)
      [] type.kind = "record" ->
           /\ v = [n \in Names(type) |-> v[n]]
           /\ \A n \in Names(type) : H(TypeOf(type, n), v[n], exact)
      [] OTHER                -> Holds0(type, v, exact)

Holds1(type, v, exact) == HoldsOf(Holds0, type, v, exact)
Holds2(type, v, exact) == HoldsOf(Holds1, type, v, exact)
Holds3(type, v, exact) == HoldsOf(Holds2, type, v, exact)
Holds4(type, v, exact) == HoldsOf(Holds3, type, v, exact)
Holds5(type, v, exact) == HoldsOf(Holds4, type, v, exact)
Holds(type, v, exact)  == HoldsOf(Holds5, type, v, exact)

WellFormed(type, v) == Holds(type, v, TRUE)

-----------------------------------------------------------------------------
(* Encode.                                                                   *)

Number(n) == [token |-> "number", of |-> n]
Bytes(a)  == [token |-> "bytes", of |-> a]
Token     == [token : {"number"}, of : Nat] \cup [token : {"bytes"}, of : Atoms \cup {NoAtom}]

\* The order in which the writer's schema has the fields of a record.
FieldOrder(type, reversed) ==
    IF reversed THEN Reverse(type.fields) ELSE type.fields

Wrote(tokens) == [ok |-> TRUE, tokens |-> tokens]
Refused       == [ok |-> FALSE, tokens |-> <<>>]

EnumEncodes(type, n) == n <= type.last /\ (type.lower => n >= 0)

\* What was written before an exception stays written.
Then(first, second) ==
    IF first.ok THEN [ok |-> second.ok, tokens |-> first.tokens \o second.tokens] ELSE first

WriteAll(parts) ==
    LET written[n \in 0 .. Len(parts)] ==
          IF n = 0 THEN Wrote(<<>>) ELSE Then(written[n - 1], parts[n])
    IN  written[Len(parts)]

\* A negative number is written as the size_t it is converted to.
Encode0(type, v, reversed) ==
    CASE type.kind = "enum" -> IF EnumEncodes(type, v) THEN Wrote(<<Number(v % Width)>>) ELSE Refused
      [] type.kind = "atom" -> Wrote(<<Bytes(v)>>)
      [] OTHER              -> Refused

EncodeOf(E(_, _, _), type, v, reversed) ==
    CASE type.kind = "union"  ->
           Then(Wrote(<<Number(v.idx)>>),
                IF v.idx = 0 THEN Wrote(<<>>) ELSE E(type.branches[v.idx], v.value, reversed))
      [] type.kind = "vector" ->
           Then(Wrote(<<Number(Len(v))>>),
                WriteAll([i \in 1 .. Len(v) |-> E(type.item, v[i], reversed)]))
      [] type.kind = "record" ->
           LET order == FieldOrder(type, reversed)
           IN  WriteAll([i \in 1 .. Len(order) |-> E(order[i].type, v[order[i].name], reversed)])
      [] OTHER                -> Encode0(type, v, reversed)

Encode1(type, v, reversed) == EncodeOf(Encode0, type, v, reversed)
Encode2(type, v, reversed) == EncodeOf(Encode1, type, v, reversed)
Encode3(type, v, reversed) == EncodeOf(Encode2, type, v, reversed)
Encode4(type, v, reversed) == EncodeOf(Encode3, type, v, reversed)
Encode5(type, v, reversed) == EncodeOf(Encode4, type, v, reversed)
Encode(type, v, reversed)  == EncodeOf(Encode5, type, v, reversed)

-----------------------------------------------------------------------------
(* Decode.  A reader of a type into an object is a function of the tokens    *)
(* there are: the object afterwards, what is left to read, and whether no    *)
(* exception was thrown.                                                     *)

Thrown(v, tokens)  == [ok |-> FALSE, object |-> v, rest |-> tokens]
Decoded(v, tokens) == [ok |-> TRUE, object |-> v, rest |-> tokens]

NextIs(tokens, kind) == tokens # <<>> /\ Head(tokens).token = kind

EnumDecodes_Unchecked(type, index) == TRUE
EnumDecodes(type, index)           == index <= type.last

\* One reader after the other, until one throws; its object is the last.
ReadAll(readers, tokens) ==
    LET after[n \in 0 .. Len(readers)] ==
          IF n = 0 THEN [ok |-> TRUE, objects |-> <<>>, rest |-> tokens]
          ELSE LET sofar == after[n - 1] IN
               IF ~sofar.ok THEN sofar
               ELSE LET next == readers[n][sofar.rest]
                    IN  [ok |-> next.ok, rest |-> next.rest,
                         objects |-> Append(sofar.objects, next.object)]
    IN  after[Len(readers)]

\* The branch is read into a variable of its own, and set when it is complete.
SetUnion_OnlyIfNew(v, n, branch) ==
    [ok |-> branch.ok, rest |-> branch.rest,
     object |-> IF branch.ok /\ v.idx # n THEN [idx |-> n, value |-> branch.object] ELSE v]
SetUnion(v, n, branch) ==
    [ok |-> branch.ok, rest |-> branch.rest,
     object |-> IF branch.ok THEN [idx |-> n, value |-> branch.object] ELSE v]

\* The vector is emptied first, and an item joins it when it is complete (the
\* Avro library's codec_traits).
Emptied == <<>>
SetVector(items) ==
    [ok |-> items.ok, rest |-> items.rest,
     object |-> IF items.ok THEN items.objects ELSE Front(items.objects)]

\* The field that throws has been assigned as far as it got, those before it wholly.
SetFields(v, order, fields) ==
    [ok |-> fields.ok, rest |-> fields.rest,
     object |-> [n \in DOMAIN v |->
        IF \E i \in DOMAIN fields.objects : order[i].name = n
        THEN fields.objects[CHOOSE i \in DOMAIN fields.objects : order[i].name = n]
        ELSE v[n]]]

Reader0(type, v, reversed) == [tokens \in Seq(Token) |->
    CASE type.kind = "enum" ->
           IF ~NextIs(tokens, "number") THEN Thrown(v, tokens)
           ELSE IF ~EnumDecodes(type, Head(tokens).of) THEN Thrown(v, Tail(tokens))
           ELSE Decoded(Head(tokens).of, Tail(tokens))
      [] type.kind = "atom" ->
           IF NextIs(tokens, "bytes") THEN Decoded(Head(tokens).of, Tail(tokens))
                                      ELSE Thrown(v, tokens)
      [] OTHER -> Thrown(v, tokens)]

ReaderOf(R(_, _, _), type, v, reversed) == [tokens \in Seq(Token) |->
    CASE type.kind = "union" ->
           IF ~NextIs(tokens, "number") THEN Thrown(v, tokens)
           ELSE LET n == Head(tokens).of IN
                CASE n = 0 -> Decoded([idx |-> 0, value |-> NoAtom], Tail(tokens))
                  [] n > Len(type.branches) -> Thrown(v, Tail(tokens))
                  [] OTHER -> LET branch == type.branches[n]
                              IN  SetUnion(v, n, R(branch, New(branch), reversed)[Tail(tokens)])
      [] type.kind = "vector" ->
           IF ~NextIs(tokens, "number") THEN Thrown(Emptied, tokens)
           ELSE SetVector(ReadAll(
                  [i \in 1 .. Head(tokens).of |-> R(type.item, New(type.item), reversed)], Tail(tokens)))
      [] type.kind = "record" ->
           LET order == FieldOrder(type, reversed)
           IN  SetFields(v, order,
                 ReadAll([i \in 1 .. Len(order) |->
                            R(order[i].type, v[order[i].name], reversed)], tokens))
      [] OTHER -> Reader0(type, v, reversed)[tokens]]

Reader1(type, v, reversed) == ReaderOf(Reader0, type, v, reversed)
Reader2(type, v, reversed) == ReaderOf(Reader1, type, v, reversed)
Reader3(type, v, reversed) == ReaderOf(Reader2, type, v, reversed)
Reader4(type, v, reversed) == ReaderOf(Reader3, type, v, reversed)
Reader5(type, v, reversed) == ReaderOf(Reader4, type, v, reversed)
Reader(type, v, reversed)  == ReaderOf(Reader5, type, v, reversed)

Decode(type, tokens, v, reversed) == Reader(type, v, reversed)[tokens]

=============================================================================
