---------------------------- MODULE MCAvroExchange ----------------------------
(***************************************************************************)
(* Samples of every type: the value of the constructor, and the values     *)
(* that differ from it in one place, with a number at and past each bound  *)
(* of an enum, the atoms, every branch of a union and vectors of up to    *)
(* two elements.                                                           *)
(***************************************************************************)
EXTENDS AvroExchange

RECURSIVE Variants(_)
Variants(t) ==
    CASE t.kind = "enum"   -> {-1, 0, t.last, t.last + 1}
      [] t.kind = "atom"   -> Atoms \cup {NoAtom}
      [] t.kind = "union"  -> {New(t)} \cup
           UNION {{[idx |-> i, value |-> v] : v \in Variants(t.branches[i])} : i \in DOMAIN t.branches}
      [] t.kind = "vector" -> {<<>>} \cup UNION {{<<v>>, <<New(t.item), v>>} : v \in Variants(t.item)}
      [] t.kind = "record" ->
           UNION {{[New(t) EXCEPT ![t.fields[i].name] = v] : v \in Variants(t.fields[i].type)} :
                    i \in DOMAIN t.fields}

MCSamples == [t \in Types |-> Variants(t)]

=============================================================================
