------------------------- MODULE AvroExchange_proofs -------------------------
(***************************************************************************)
(* What is sent arrives, nothing broken does, and the reader's object      *)
(* keeps its shape: for vectors of any length, any strings, any message    *)
(* that is cut anywhere or has any number replaced.                        *)
(***************************************************************************)
EXTENDS AvroExchange, SequenceTheorems, WellFoundedInduction, TLAPS

-----------------------------------------------------------------------------
(* Induction, stated of sets: a set of numbers with 0 that has n when it has *)
(* n - 1 has them all.                                                       *)

Less == {p \in Nat \X Nat : p[1] < p[2]}

LEMMA LeastNat ==
    ASSUME NEW T \in SUBSET Nat, T # {}
    PROVE  \E n \in T : \A m \in T : n <= m
<1>1. OpToRel(<, Nat) = Less
  BY DEF OpToRel, Less
<1>2. IsWellFoundedOn(Less, Nat)
  BY <1>1, NatLessThanWellFounded
<1>3. PICK n \in T : \A m \in T : <<m, n>> \notin Less
  BY <1>2, WFMin
<1>4. \A m \in T : ~(m < n)
  <2>. TAKE m \in T
  <2>1. m \in Nat /\ n \in Nat /\ <<m, n>> \notin Less
    BY <1>3
  <2>. QED BY <2>1 DEF Less
<1>5. \A m \in T : n <= m
  BY <1>4
<1>. QED BY <1>5

LEMMA SetInduction ==
    ASSUME NEW m \in Nat, NEW P, 0 \in P, \A n \in 1 .. m : n - 1 \in P => n \in P
    PROVE  \A n \in 0 .. m : n \in P
<1>. DEFINE T == (0 .. m) \ P
<1>. SUFFICES ASSUME T # {} PROVE FALSE
  OBVIOUS
<1>1. T \in SUBSET Nat
  OBVIOUS
<1>2. \E n \in T : \A k \in T : n <= k
  <2>. HIDE DEF T
  <2>. QED BY <1>1, LeastNat
<1>3. PICK n \in T : \A k \in T : n <= k
  BY <1>2
<1>4. n \in 1 .. m
  BY <1>3
<1>. QED BY <1>3, <1>4

\* What is defined by recursion on 0 .. m exists: a run of moves from a.
Moves(m, S) == [1 .. m -> [S -> S]]

Run(r, m, S, a, F) ==
    r \in [0 .. m -> S] /\ r[0] = a /\ \A n \in 1 .. m : r[n] = F[n][r[n - 1]]

LEMMA RunExists ==
    ASSUME NEW m \in Nat, NEW S, NEW a \in S, NEW F \in Moves(m, S)
    PROVE  \E r : Run(r, m, S, a, F)
<1>. USE DEF Moves
<1>. DEFINE Upto(k, r) == r[0] = a /\ \A n \in 1 .. k : r[n] = F[n][r[n - 1]]
            P == {k \in 0 .. m : \E r \in [0 .. k -> S] : Upto(k, r)}
<1>1. 0 \in P
  <2>1. [n \in 0 .. 0 |-> a] \in [0 .. 0 -> S] /\ Upto(0, [n \in 0 .. 0 |-> a])
    OBVIOUS
  <2>. HIDE DEF Upto
  <2>. QED BY <2>1
<1>2. ASSUME NEW n \in 1 .. m, n - 1 \in P PROVE n \in P
  <2>1. PICK r \in [0 .. n - 1 -> S] : Upto(n - 1, r)
    BY <1>2
  <2>. DEFINE q == [k \in 0 .. n |-> IF k = n THEN F[n][r[n - 1]] ELSE r[k]]
  <2>2. q \in [0 .. n -> S]
    OBVIOUS
  <2>3. Upto(n, q)
    BY <2>1
  <2>. HIDE DEF Upto, q
  <2>. QED BY <2>2, <2>3
<1>3. \A n \in 0 .. m : n \in P
  <2>. HIDE DEF P
  <2>. QED BY <1>1, <1>2, SetInduction
<1>4. m \in P
  BY <1>3
<1>. QED BY <1>4 DEF Run

-----------------------------------------------------------------------------
(* The two loops.                                                            *)

Tokens    == Seq(Token)
Part      == [ok : BOOLEAN, tokens : Tokens]
Result(O) == [ok : BOOLEAN, object : O, rest : Tokens]
State(O)  == [ok : BOOLEAN, objects : Seq(O), rest : Tokens]

LEMMA ThenIsPart == \A p, q \in Part : Then(p, q) \in Part
BY DEF Then, Part, Tokens

LEMMA WriteAllRun ==
    ASSUME NEW parts \in Seq(Part)
    PROVE  \E w \in [0 .. Len(parts) -> Part] :
             /\ w[0] = Wrote(<<>>)
             /\ \A n \in 1 .. Len(parts) : w[n] = Then(w[n - 1], parts[n])
             /\ WriteAll(parts) = w[Len(parts)]
<1>. DEFINE m == Len(parts)
            F == [n \in 1 .. m |-> [p \in Part |-> Then(p, parts[n])]]
            IsRun(w) ==
                w = [n \in 0 .. m |-> IF n = 0 THEN Wrote(<<>>) ELSE Then(w[n - 1], parts[n])]
            written == CHOOSE w : IsRun(w)
<1>1. m \in Nat /\ Wrote(<<>>) \in Part
  BY DEF Wrote, Part, Tokens
<1>2. F \in [1 .. m -> [Part -> Part]]
  BY ThenIsPart
<1>3. PICK r \in [0 .. m -> Part] : r[0] = Wrote(<<>>) /\ \A n \in 1 .. m : r[n] = F[n][r[n - 1]]
  <2>1. F \in Moves(m, Part)
    BY <1>2 DEF Moves
  <2>2. \E r : Run(r, m, Part, Wrote(<<>>), F)
    <3>. HIDE DEF F, m
    <3>. QED BY <1>1, <2>1, RunExists
  <2>. HIDE DEF F, m
  <2>. QED BY <2>2 DEF Run
<1>4. \A n \in 1 .. m : r[n] = Then(r[n - 1], parts[n])
  <2>. TAKE n \in 1 .. m
  <2>1. r[n - 1] \in Part
    BY <1>1
  <2>. QED BY <1>3, <2>1
<1>5. IsRun(r)
  <2>. HIDE DEF m
  <2>. QED BY <1>1, <1>3, <1>4
<1>6. IsRun(written)
  <2>. HIDE DEF IsRun
  <2>. QED BY <1>5
<1>7. WriteAll(parts) = written[m]
  BY DEF WriteAll
<1>8. written[0] = Wrote(<<>>) /\ \A n \in 1 .. m : written[n] = Then(written[n - 1], parts[n])
  <2>. HIDE DEF written, m
  <2>. QED BY <1>1, <1>6
<1>9. \A n \in 0 .. m : written[n] \in Part
  <2>. DEFINE P == {n \in 0 .. m : written[n] \in Part}
  <2>. HIDE DEF written, m
  <2>1. 0 \in P
    BY <1>1, <1>8
  <2>2. ASSUME NEW n \in 1 .. m, n - 1 \in P PROVE n \in P
    <3>1. parts[n] \in Part
      BY ElementOfSeq DEF m
    <3>. QED BY <1>8, <2>2, <3>1, ThenIsPart
  <2>3. \A n \in 0 .. m : n \in P
    <3>. HIDE DEF P
    <3>. QED BY <1>1, <2>1, <2>2, SetInduction
  <2>. QED BY <2>3
<1>10. written \in [0 .. m -> Part]
  <2>1. written = [n \in 0 .. m |-> IF n = 0 THEN Wrote(<<>>) ELSE Then(written[n - 1], parts[n])]
    BY <1>6
  <2>. HIDE DEF written, m
  <2>. QED BY <1>9, <2>1
<1>. HIDE DEF written
<1>. QED BY <1>7, <1>8, <1>10

Step(sofar, reader) ==
    IF ~sofar.ok THEN sofar
    ELSE LET next == reader[sofar.rest]
         IN  [ok |-> next.ok, rest |-> next.rest, objects |-> Append(sofar.objects, next.object)]

LEMMA StepIsState ==
    ASSUME NEW O, NEW s \in State(O), NEW reader \in [Tokens -> Result(O)]
    PROVE  Step(s, reader) \in State(O)
<1>1. reader[s.rest] \in Result(O)
  BY DEF State
<1>2. Append(s.objects, reader[s.rest].object) \in Seq(O)
  BY <1>1 DEF State, Result
<1>. QED BY <1>1, <1>2 DEF Step, State, Result

ReaderTo(O) == [Tokens -> Result(O)]

RunsThrough(a, readers, m, tokens) ==
    /\ a[0] = [ok |-> TRUE, objects |-> <<>>, rest |-> tokens]
    /\ \A n \in 1 .. m : a[n] = Step(a[n - 1], readers[n])
    /\ ReadAll(readers, tokens) = a[m]

LEMMA ReadAllRun ==
    ASSUME NEW O, NEW readers \in Seq(ReaderTo(O)), NEW tokens \in Tokens
    PROVE  \E a \in [0 .. Len(readers) -> State(O)] : RunsThrough(a, readers, Len(readers), tokens)
<1>. DEFINE m == Len(readers)
            start == [ok |-> TRUE, objects |-> <<>>, rest |-> tokens]
            F == [n \in 1 .. m |-> [s \in State(O) |-> Step(s, readers[n])]]
            IsRun(a) == a = [n \in 0 .. m |-> IF n = 0 THEN start ELSE Step(a[n - 1], readers[n])]
            after == CHOOSE a : IsRun(a)
<1>1. m \in Nat /\ start \in State(O) /\ \A n \in 1 .. m : readers[n] \in [Tokens -> Result(O)]
  BY ElementOfSeq DEF State, ReaderTo
<1>2. F \in [1 .. m -> [State(O) -> State(O)]]
  <2>. HIDE DEF m
  <2>. QED BY <1>1, StepIsState
<1>3. PICK r \in [0 .. m -> State(O)] : r[0] = start /\ \A n \in 1 .. m : r[n] = F[n][r[n - 1]]
  <2>1. F \in Moves(m, State(O))
    BY <1>2 DEF Moves
  <2>2. \E r : Run(r, m, State(O), start, F)
    <3>. HIDE DEF F, m, start
    <3>. QED BY <1>1, <2>1, RunExists
  <2>. HIDE DEF F, m, start
  <2>. QED BY <2>2 DEF Run
<1>4. \A n \in 1 .. m : r[n] = Step(r[n - 1], readers[n])
  <2>. TAKE n \in 1 .. m
  <2>1. r[n - 1] \in State(O)
    BY <1>1
  <2>. QED BY <1>3, <2>1
<1>5. IsRun(r)
  <2>. HIDE DEF m, start
  <2>. QED BY <1>1, <1>3, <1>4
<1>6. IsRun(after)
  <2>. HIDE DEF IsRun
  <2>. QED BY <1>5
<1>7. ReadAll(readers, tokens) = after[m]
  BY DEF ReadAll, Step
<1>8. after[0] = start /\ \A n \in 1 .. m : after[n] = Step(after[n - 1], readers[n])
  <2>. HIDE DEF after, m, start
  <2>. QED BY <1>1, <1>6
<1>9. \A n \in 0 .. m : after[n] \in State(O)
  <2>. DEFINE P == {n \in 0 .. m : after[n] \in State(O)}
  <2>. HIDE DEF after, m, start
  <2>1. 0 \in P
    BY <1>1, <1>8
  <2>2. ASSUME NEW n \in 1 .. m, n - 1 \in P PROVE n \in P
    BY <1>1, <1>8, <2>2, StepIsState
  <2>3. \A n \in 0 .. m : n \in P
    <3>. HIDE DEF P
    <3>. QED BY <1>1, <2>1, <2>2, SetInduction
  <2>. QED BY <2>3
<1>10. after \in [0 .. m -> State(O)]
  <2>1. after = [n \in 0 .. m |-> IF n = 0 THEN start ELSE Step(after[n - 1], readers[n])]
    BY <1>6
  <2>. HIDE DEF after, m, start
  <2>. QED BY <1>9, <2>1
<1>. HIDE DEF after
<1>. QED BY <1>7, <1>8, <1>10 DEF RunsThrough


-----------------------------------------------------------------------------
(* Messages compared with what was written.                                  *)

LEMMA TokensConcat ==
    /\ <<>> \in Tokens
    /\ \A x, y \in Tokens : x \o y \in Tokens
    /\ \A x \in Tokens : x \o <<>> = x /\ <<>> \o x = x
    /\ \A x, y, z \in Tokens : (x \o y) \o z = x \o (y \o z)
<1>1. \A x, y, z \in Tokens : (x \o y) \o z = x \o (y \o z)
  BY ConcatAssociative DEF Tokens
<1>2. \A x \in Tokens : x \o <<>> = x /\ <<>> \o x = x
  BY ConcatEmptySeq DEF Tokens
<1>3. \A x, y \in Tokens : x \o y \in Tokens
  BY ConcatProperties DEF Tokens
<1>. QED BY <1>1, <1>2, <1>3 DEF Tokens

LEMMA TokensCancel ==
    /\ \A x, y, z \in Tokens : x \o y = x \o z => y = z
    /\ \A x, y \in Tokens : x \o y = x => y = <<>>
    /\ \A x, y \in Tokens : x \o y = <<>> => x = <<>> /\ y = <<>>
<1>1. \A x, y, z \in Tokens : x \o y = x \o z => y = z
  BY ConcatSimplifications, Zenon DEF Tokens
<1>2. \A x, y \in Tokens : x \o y = x => y = <<>>
  BY ConcatSimplifications, Zenon DEF Tokens
<1>3. \A x, y \in Tokens : x \o y = <<>> => x = <<>> /\ y = <<>>
  BY ConcatSimplifications, Zenon DEF Tokens
<1>. QED BY <1>1, <1>2, <1>3

Begins(x, ts) == \E y \in Tokens : ts = x \o y

\* Of two beginnings of one message the longer one begins with the other.
LEMMA Beginnings ==
    ASSUME NEW a \in Tokens, NEW b \in Tokens, NEW c \in Tokens, NEW d \in Tokens,
           a \o b = c \o d
    PROVE  Begins(c, a) \/ Begins(a, c)
<1>1. ASSUME NEW p \in Tokens, NEW q \in Tokens, NEW r \in Tokens, NEW s \in Tokens,
             p \o q = r \o s, Len(r) <= Len(p)
      PROVE  Begins(r, p)
  <2>. DEFINE x == SubSeq(p, Len(r) + 1, Len(p))
  <2>1. /\ Len(p) \in Nat /\ Len(r) \in Nat /\ Len(q) \in Nat /\ Len(s) \in Nat
        /\ \A i \in 1 .. Len(p) : p[i] \in Token
    BY LenProperties, ElementOfSeq DEF Tokens
  <2>2. /\ x \in Seq(Token) /\ Len(x) = Len(p) - Len(r)
        /\ \A i \in 1 .. Len(p) - Len(r) : x[i] = p[Len(r) + i]
    BY <1>1, <2>1, SubSeqProperties
  <2>. HIDE DEF x
  <2>3. /\ r \o x \in Seq(Token) /\ Len(r \o x) = Len(p)
        /\ \A i \in 1 .. Len(p) : (r \o x)[i] = IF i <= Len(r) THEN r[i] ELSE x[i - Len(r)]
    BY <1>1, <2>1, <2>2, ConcatProperties DEF Tokens
  <2>4. /\ \A i \in 1 .. Len(p) : (p \o q)[i] = p[i]
        /\ \A i \in 1 .. Len(r) : (r \o s)[i] = r[i]
    BY <2>1, ConcatProperties DEF Tokens
  <2>5. \A i \in 1 .. Len(p) : (r \o x)[i] = p[i]
    <3>. TAKE i \in 1 .. Len(p)
    <3>1. CASE i <= Len(r)
      BY <1>1, <2>1, <2>3, <2>4, <3>1
    <3>2. CASE ~(i <= Len(r))
      <4>1. i - Len(r) \in 1 .. Len(p) - Len(r) /\ Len(r) + (i - Len(r)) = i
        BY <1>1, <2>1, <3>2
      <4>. QED BY <2>2, <2>3, <3>2, <4>1
    <3>. QED BY <3>1, <3>2
  <2>6. p = r \o x
    BY <2>3, <2>5, SeqEqual DEF Tokens
  <2>. QED BY <2>2, <2>6 DEF Tokens, Begins
<1>2. Len(a) \in Nat /\ Len(c) \in Nat
  BY LenProperties DEF Tokens
<1>3. CASE Len(c) <= Len(a)
  BY <1>1, <1>3, Zenon
<1>4. CASE Len(a) <= Len(c)
  BY <1>1, <1>4, Zenon
<1>. QED BY <1>2, <1>3, <1>4

\* A reader is given what an encoder wrote and more, or the beginning of it.
Comparable(ts, e) == (e.ok /\ Begins(e.tokens, ts)) \/ Begins(ts, e.tokens)

\* It reads to the end what is complete and good, and throws on anything else.
Agrees(ok, rest, e, good, ts) ==
    /\ ok => e.ok /\ good /\ ts = e.tokens \o rest
    /\ e.ok /\ good /\ Begins(e.tokens, ts) => ok

Faithful(r, e, w, good) ==
    \A ts \in Tokens : Comparable(ts, e) =>
       /\ Agrees(r[ts].ok, r[ts].rest, e, good, ts)
       /\ r[ts].ok => r[ts].object = w

LEMMA BeginsTransitive ==
    ASSUME NEW x \in Tokens, NEW y \in Tokens, NEW z \in Tokens, Begins(x, y), Begins(y, z)
    PROVE  Begins(x, z)
<1>1. PICK u \in Tokens : y = x \o u
  BY DEF Begins
<1>2. PICK v \in Tokens : z = y \o v
  BY DEF Begins
<1>3. z = x \o (u \o v) /\ u \o v \in Tokens
  BY <1>1, <1>2, TokensConcat
<1>. QED BY <1>3 DEF Begins

LEMMA ThenFirst ==
    ASSUME NEW p \in Part, NEW q \in Part, NEW ts \in Tokens, Comparable(ts, Then(p, q))
    PROVE  Comparable(ts, p)
<1>1. /\ p.tokens \in Tokens /\ q.tokens \in Tokens
      /\ p.ok \in BOOLEAN /\ q.ok \in BOOLEAN
  BY DEF Part
<1>2. CASE ~p.ok
  BY <1>2 DEF Then
<1>3. CASE p.ok
  <2>1. Then(p, q).ok = q.ok /\ Then(p, q).tokens = p.tokens \o q.tokens
    BY <1>3 DEF Then
  <2>2. Begins(p.tokens, p.tokens \o q.tokens) /\ p.tokens \o q.tokens \in Tokens
    BY <1>1, TokensConcat DEF Begins
  <2>3. CASE Begins(p.tokens \o q.tokens, ts)
    BY <1>1, <1>3, <2>2, <2>3, BeginsTransitive DEF Comparable
  <2>4. CASE Begins(ts, p.tokens \o q.tokens)
    <3>1. PICK y \in Tokens : p.tokens \o q.tokens = ts \o y
      BY <2>4 DEF Begins
    <3>2. Begins(ts, p.tokens) \/ Begins(p.tokens, ts)
      BY <1>1, <3>1, Beginnings, Zenon
    <3>. QED BY <1>3, <3>2 DEF Comparable
  <2>. QED BY <2>1, <2>3, <2>4 DEF Comparable
<1>. QED BY <1>1, <1>2, <1>3

LEMMA ThenSecond ==
    ASSUME NEW p \in Part, NEW q \in Part, NEW ts \in Tokens, Comparable(ts, Then(p, q)),
           p.ok, NEW x \in Tokens, ts = p.tokens \o x
    PROVE  Comparable(x, q)
<1>1. /\ p.tokens \in Tokens /\ q.tokens \in Tokens
      /\ p.ok \in BOOLEAN /\ q.ok \in BOOLEAN
  BY DEF Part
<1>2. Then(p, q).ok = q.ok /\ Then(p, q).tokens = p.tokens \o q.tokens
  BY DEF Then
<1>3. CASE q.ok /\ Begins(p.tokens \o q.tokens, ts)
  <2>1. PICK y \in Tokens : ts = (p.tokens \o q.tokens) \o y
    BY <1>3 DEF Begins
  <2>2. p.tokens \o x = p.tokens \o (q.tokens \o y) /\ q.tokens \o y \in Tokens
    BY <1>1, <2>1, TokensConcat
  <2>3. x = q.tokens \o y
    <3>1. \A u \in Tokens : p.tokens \o x = p.tokens \o u => x = u
      BY <1>1, TokensCancel
    <3>. QED BY <2>2, <3>1, Zenon
  <2>. QED BY <1>3, <2>3 DEF Comparable, Begins
<1>4. CASE Begins(ts, p.tokens \o q.tokens)
  <2>1. PICK y \in Tokens : p.tokens \o q.tokens = (p.tokens \o x) \o y
    BY <1>4 DEF Begins
  <2>2. p.tokens \o q.tokens = p.tokens \o (x \o y) /\ x \o y \in Tokens
    BY <1>1, <2>1, TokensConcat
  <2>3. q.tokens = x \o y
    BY <1>1, <2>2, TokensCancel, Zenon
  <2>. QED BY <2>3 DEF Comparable, Begins
<1>. QED BY <1>2, <1>3, <1>4 DEF Comparable

\* Two readers, one after the other.
LEMMA ThenAgrees ==
    ASSUME NEW p \in Part, NEW q \in Part, NEW ts \in Tokens,
           NEW ok1 \in BOOLEAN, NEW rest1 \in Tokens, NEW good1 \in BOOLEAN,
           Agrees(ok1, rest1, p, good1, ts),
           NEW ok \in BOOLEAN, NEW rest \in Tokens, NEW good2 \in BOOLEAN,
           ~ok1 => ~ok,
           ok1 => Agrees(ok, rest, q, good2, rest1),
           NEW good \in BOOLEAN, good <=> good1 /\ good2
    PROVE  Agrees(ok, rest, Then(p, q), good, ts)
<1>1. /\ p.tokens \in Tokens /\ q.tokens \in Tokens
      /\ p.ok \in BOOLEAN /\ q.ok \in BOOLEAN
  BY DEF Part
<1>2. CASE ~p.ok
  <2>1. Then(p, q) = p
    BY <1>2 DEF Then
  <2>. QED BY <1>2, <2>1 DEF Agrees
<1>3. CASE p.ok
  <2>1. Then(p, q).ok = q.ok /\ Then(p, q).tokens = p.tokens \o q.tokens
    BY <1>3 DEF Then
  <2>2. ASSUME ok
        PROVE  q.ok /\ good1 /\ good2 /\ ts = (p.tokens \o q.tokens) \o rest
    <3>1. ok1 /\ good1 /\ ts = p.tokens \o rest1
      BY <2>2 DEF Agrees
    <3>2. q.ok /\ good2 /\ rest1 = q.tokens \o rest
      BY <2>2, <3>1 DEF Agrees
    <3>. QED BY <1>1, <3>1, <3>2, TokensConcat
  <2>3. ASSUME q.ok, good1, good2, Begins(p.tokens \o q.tokens, ts)
        PROVE  ok
    <3>1. PICK y \in Tokens : ts = (p.tokens \o q.tokens) \o y
      BY <2>3 DEF Begins
    <3>2. ts = p.tokens \o (q.tokens \o y) /\ q.tokens \o y \in Tokens
      BY <1>1, <3>1, TokensConcat
    <3>3. ok1 /\ ts = p.tokens \o rest1
      BY <1>3, <2>3, <3>2 DEF Agrees, Begins
    <3>4. rest1 = q.tokens \o y
      <4>1. \A u \in Tokens : p.tokens \o rest1 = p.tokens \o u => rest1 = u
        BY <1>1, TokensCancel
      <4>2. p.tokens \o rest1 = p.tokens \o (q.tokens \o y)
        BY <3>2, <3>3, Zenon
      <4>. QED BY <3>2, <4>1, <4>2, Zenon
    <3>. QED BY <2>3, <3>3, <3>4 DEF Agrees, Begins
  <2>. QED BY <2>1, <2>2, <2>3 DEF Agrees
<1>. QED BY <1>1, <1>2, <1>3

-----------------------------------------------------------------------------
(* Readers, one after the other.                                             *)

Objects(r)  == {r[ts].object : ts \in Tokens}
IsReader(r) == r \in [Tokens -> Result(Objects(r))]

Readers(m, readers) ==
    /\ readers = [i \in 1 .. m |-> readers[i]]
    /\ \A i \in 1 .. m : IsReader(readers[i])

LEMMA ReaderResult ==
    ASSUME NEW r, IsReader(r), NEW ts \in Tokens
    PROVE  /\ r[ts].ok \in BOOLEAN /\ r[ts].rest \in Tokens /\ r[ts].object \in Objects(r)
           /\ r[ts] = [ok |-> r[ts].ok, object |-> r[ts].object, rest |-> r[ts].rest]
<1>1. r[ts] \in Result(Objects(r))
  BY DEF IsReader
<1>. QED BY <1>1 DEF Result

LEMMA ReadersRun ==
    ASSUME NEW m \in Nat, NEW readers, Readers(m, readers), NEW ts \in Tokens
    PROVE  \E O : \E a \in [0 .. m -> State(O)] : RunsThrough(a, readers, m, ts)
<1>. DEFINE O == UNION {Objects(readers[i]) : i \in 1 .. m}
<1>1. ASSUME NEW i \in 1 .. m PROVE readers[i] \in [Tokens -> Result(O)]
  <2>1. Objects(readers[i]) \subseteq O
    OBVIOUS
  <2>2. readers[i] \in [Tokens -> Result(Objects(readers[i]))]
    BY DEF Readers, IsReader
  <2>. HIDE DEF O
  <2>3. Result(Objects(readers[i])) \subseteq Result(O)
    BY <2>1 DEF Result
  <2>. QED BY <2>2, <2>3
<1>2. readers \in Seq(ReaderTo(O)) /\ Len(readers) = m
  <2>. HIDE DEF O
  <2>1. readers \in [1 .. m -> [Tokens -> Result(O)]]
    BY <1>1 DEF Readers
  <2>. QED BY <2>1 DEF ReaderTo
<1>. HIDE DEF O
<1>3. \E a \in [0 .. m -> State(O)] : RunsThrough(a, readers, m, ts)
  BY <1>2, ReadAllRun
<1>. QED BY <1>3

\* The objects are those of the readers, in their order, as far as they got.
LEMMA ReadAllObjects ==
    ASSUME NEW m \in Nat, NEW readers, Readers(m, readers), NEW ts \in Tokens
    PROVE  LET a == ReadAll(readers, ts) IN
             /\ a.ok \in BOOLEAN /\ a.rest \in Tokens
             /\ a.objects \in Seq({a.objects[i] : i \in DOMAIN a.objects})
             /\ Len(a.objects) \in 0 .. m
             /\ a.ok => Len(a.objects) = m
             /\ ~a.ok => Len(a.objects) # 0
             /\ \A i \in 1 .. Len(a.objects) : a.objects[i] \in Objects(readers[i])
<1>0. PICK O : \E a \in [0 .. m -> State(O)] : RunsThrough(a, readers, m, ts)
  BY ReadersRun
<1>1. PICK a \in [0 .. m -> State(O)] :
             /\ a[0] = [ok |-> TRUE, objects |-> <<>>, rest |-> ts]
             /\ \A n \in 1 .. m : a[n] = Step(a[n - 1], readers[n])
             /\ ReadAll(readers, ts) = a[m]
  BY <1>0 DEF RunsThrough
<1>2. \A n \in 0 .. m : a[n].ok \in BOOLEAN /\ a[n].rest \in Tokens /\ a[n].objects \in Seq(O)
  BY DEF State
<1>. DEFINE Good(s, n) == /\ Len(s.objects) \in 0 .. n
                          /\ s.ok => Len(s.objects) = n
                          /\ ~s.ok => Len(s.objects) # 0
                          /\ \A i \in 1 .. Len(s.objects) : s.objects[i] \in Objects(readers[i])
            P == {n \in 0 .. m : Good(a[n], n)}
<1>3. 0 \in P
  BY <1>1
<1>4. ASSUME NEW n \in 1 .. m, n - 1 \in P PROVE n \in P
  <2>. DEFINE s == a[n - 1]
  <2>1. /\ Good(s, n - 1) /\ s.ok \in BOOLEAN /\ s.rest \in Tokens /\ s.objects \in Seq(O)
        /\ a[n] = Step(s, readers[n]) /\ a[n].objects \in Seq(O)
    BY <1>1, <1>2, <1>4
  <2>. HIDE DEF s
  <2>2. CASE ~s.ok
    BY <2>1, <2>2 DEF Step
  <2>3. CASE s.ok
    <3>. DEFINE x == readers[n][s.rest].object
    <3>1. x \in Objects(readers[n]) /\ readers[n][s.rest].ok \in BOOLEAN
      BY <2>1, ReaderResult DEF Readers
    <3>2. a[n].objects = Append(s.objects, x)
      BY <2>1, <2>3 DEF Step
    <3>. HIDE DEF x
    <3>3. s.objects \in Seq(O \cup {x}) /\ Len(s.objects) = n - 1
      BY <2>1, <2>3
    <3>4. /\ Len(a[n].objects) = n /\ a[n].objects[n] = x
          /\ \A i \in 1 .. n - 1 : a[n].objects[i] = s.objects[i]
      BY <3>2, <3>3, AppendProperties
    <3>5. \A i \in 1 .. n - 1 : s.objects[i] \in Objects(readers[i])
      BY <2>1, <3>3
    <3>6. \A i \in 1 .. n : a[n].objects[i] \in Objects(readers[i])
      BY <3>1, <3>4, <3>5
    <3>. QED BY <3>4, <3>6
  <2>. QED BY <2>1, <2>2, <2>3
<1>5. m \in P
  <2>. HIDE DEF P
  <2>1. \A n \in 0 .. m : n \in P
    BY <1>3, <1>4, SetInduction
  <2>. QED BY <2>1
<1>6. a[m].objects \in Seq({a[m].objects[i] : i \in DOMAIN a[m].objects})
  <2>. DEFINE s == a[m].objects
  <2>1. s \in Seq(O)
    BY <1>2
  <2>. HIDE DEF s
  <2>2. s \in Seq({s[i] : i \in DOMAIN s})
    BY <2>1, LenProperties
  <2>. QED BY <2>2 DEF s
<1>. QED BY <1>1, <1>2, <1>5, <1>6

AllFaithful(m, readers, parts, ws, goods) ==
    /\ goods \in [1 .. m -> BOOLEAN]
    /\ \A i \in 1 .. m : Faithful(readers[i], parts[i], ws[i], goods[i])

AllGood(m, goods) == \A i \in 1 .. m : goods[i]

Together(m, a, body, ws, good, ts) ==
    /\ Agrees(a.ok, a.rest, body, good, ts)
    /\ a.ok => \A i \in 1 .. m : a.objects[i] = ws[i]

\* Faithful readers are faithful together.
LEMMA ReadAllFaithful ==
    ASSUME NEW m \in Nat, NEW parts \in Seq(Part), Len(parts) = m,
           NEW readers, Readers(m, readers), NEW ws, NEW good,
           AllFaithful(m, readers, parts, ws, good),
           NEW g \in BOOLEAN, g <=> AllGood(m, good),
           NEW ts \in Tokens, Comparable(ts, WriteAll(parts))
    PROVE  Together(m, ReadAll(readers, ts), WriteAll(parts), ws, g, ts)
<1>. /\ good \in [1 .. m -> BOOLEAN]
     /\ \A i \in 1 .. m : Faithful(readers[i], parts[i], ws[i], good[i])
  BY DEF AllFaithful
<1>0. PICK O : \E a \in [0 .. m -> State(O)] : RunsThrough(a, readers, m, ts)
  BY ReadersRun
<1>1. PICK a \in [0 .. m -> State(O)] :
             /\ a[0] = [ok |-> TRUE, objects |-> <<>>, rest |-> ts]
             /\ \A n \in 1 .. m : a[n] = Step(a[n - 1], readers[n])
             /\ ReadAll(readers, ts) = a[m]
  BY <1>0 DEF RunsThrough
<1>2. \A n \in 0 .. m : a[n].ok \in BOOLEAN /\ a[n].rest \in Tokens /\ a[n].objects \in Seq(O)
  BY DEF State
<1>3. PICK w \in [0 .. m -> Part] :
             /\ w[0] = Wrote(<<>>)
             /\ \A n \in 1 .. m : w[n] = Then(w[n - 1], parts[n])
             /\ WriteAll(parts) = w[m]
  BY WriteAllRun
<1>4. \A n \in 1 .. m : parts[n] \in Part
  BY ElementOfSeq
<1>5. \A n \in 0 .. m : Comparable(ts, w[n])
  <2>. DEFINE P == {n \in 0 .. m : Comparable(ts, w[m - n])}
  <2>1. 0 \in P
    BY <1>3
  <2>2. ASSUME NEW n \in 1 .. m, n - 1 \in P PROVE n \in P
    <3>. DEFINE k == m - n + 1
    <3>1. k \in 1 .. m /\ k - 1 = m - n /\ m - (n - 1) = k /\ k - 1 \in 0 .. m
      OBVIOUS
    <3>. HIDE DEF k
    <3>2. Comparable(ts, w[k]) /\ w[k] = Then(w[k - 1], parts[k])
      BY <1>3, <2>2, <3>1
    <3>3. Comparable(ts, Then(w[k - 1], parts[k])) /\ w[k - 1] \in Part /\ parts[k] \in Part
      BY <1>4, <3>1, <3>2
    <3>4. Comparable(ts, w[k - 1])
      BY <3>3, ThenFirst
    <3>. QED BY <3>1, <3>4
  <2>3. \A n \in 0 .. m : n \in P
    <3>. HIDE DEF P
    <3>. QED BY <2>1, <2>2, SetInduction
  <2>4. \A n \in 0 .. m : m - n \in 0 .. m /\ m - (m - n) = n
    OBVIOUS
  <2>. QED BY <2>3, <2>4
<1>. DEFINE Goods(n) == \A i \in 1 .. n : good[i]
            Same(n)  == a[n].ok => Len(a[n].objects) = n /\ \A i \in 1 .. n : a[n].objects[i] = ws[i]
            P == {n \in 0 .. m : Agrees(a[n].ok, a[n].rest, w[n], Goods(n), ts) /\ Same(n)}
<1>6. 0 \in P
  <2>1. Agrees(TRUE, ts, Wrote(<<>>), TRUE, ts)
    BY TokensConcat DEF Agrees, Wrote
  <2>2. Goods(0) <=> TRUE
    OBVIOUS
  <2>3. a[0].ok = TRUE /\ a[0].rest = ts /\ w[0] = Wrote(<<>>)
    BY <1>1, <1>3
  <2>4. Agrees(a[0].ok, a[0].rest, w[0], Goods(0), ts)
    <3>. HIDE DEF Goods
    <3>. QED BY <2>1, <2>2, <2>3
  <2>5. Same(0)
    BY <1>1
  <2>. QED BY <2>4, <2>5
<1>7. ASSUME NEW n \in 1 .. m, n - 1 \in P PROVE n \in P
  <2>. DEFINE s == a[n - 1]
              next == readers[n][s.rest]
  <2>1. /\ n - 1 \in 0 .. m /\ n \in 0 .. m
        /\ Agrees(s.ok, s.rest, w[n - 1], Goods(n - 1), ts) /\ Same(n - 1)
    <3>. HIDE DEF Goods, Same
    <3>. QED BY <1>7
  <2>2. /\ s.ok \in BOOLEAN /\ s.rest \in Tokens /\ s.objects \in Seq(O)
        /\ a[n] = Step(s, readers[n])
        /\ a[n].ok \in BOOLEAN /\ a[n].rest \in Tokens /\ a[n].objects \in Seq(O)
    BY <1>1, <1>2, <2>1
  <2>3. /\ w[n - 1] \in Part /\ parts[n] \in Part /\ w[n] = Then(w[n - 1], parts[n])
        /\ Comparable(ts, Then(w[n - 1], parts[n]))
    BY <1>3, <1>4, <1>5, <2>1
  <2>4. good[n] \in BOOLEAN /\ Goods(n - 1) \in BOOLEAN
    OBVIOUS
  <2>5. Goods(n) <=> Goods(n - 1) /\ good[n]
    OBVIOUS
  <2>6. ~s.ok => ~a[n].ok
    BY <2>2 DEF Step
  <2>7. ASSUME s.ok
        PROVE  /\ a[n].ok = next.ok /\ a[n].rest = next.rest
               /\ a[n].objects = Append(s.objects, next.object)
               /\ Agrees(next.ok, next.rest, parts[n], good[n], s.rest)
               /\ next.ok => next.object = ws[n]
    <3>. HIDE DEF Goods
    <3>1. w[n - 1].ok /\ ts = w[n - 1].tokens \o s.rest
      BY <2>1, <2>7 DEF Agrees
    <3>2. Comparable(s.rest, parts[n])
      <4>. HIDE DEF s
      <4>. QED BY <2>2, <2>3, <3>1, ThenSecond
    <3>3. Faithful(readers[n], parts[n], ws[n], good[n])
      OBVIOUS
    <3>4. /\ Agrees(next.ok, next.rest, parts[n], good[n], s.rest)
          /\ next.ok => next.object = ws[n]
      <4>. HIDE DEF s
      <4>. QED BY <2>2, <3>2, <3>3 DEF Faithful
    <3>5. /\ a[n].ok = next.ok /\ a[n].rest = next.rest
          /\ a[n].objects = Append(s.objects, next.object)
      <4>. HIDE DEF s
      <4>. QED BY <2>2, <2>7 DEF Step
    <3>. QED BY <3>4, <3>5
  <2>8. s.ok => Agrees(a[n].ok, a[n].rest, parts[n], good[n], s.rest)
    <3>. HIDE DEF s, next
    <3>. QED BY <2>7
  <2>9. Agrees(a[n].ok, a[n].rest, Then(w[n - 1], parts[n]), Goods(n - 1) /\ good[n], ts)
    <3>. HIDE DEF s, next, Goods
    <3>1. s.ok => Agrees(a[n].ok, a[n].rest, parts[n], good[n], s.rest)
      BY <2>8
    <3>2. s.ok \in BOOLEAN /\ s.rest \in Tokens /\ a[n].ok \in BOOLEAN /\ a[n].rest \in Tokens
      BY <2>2
    <3>3. w[n - 1] \in Part /\ parts[n] \in Part
      BY <2>3
    <3>4. Agrees(s.ok, s.rest, w[n - 1], Goods(n - 1), ts)
      BY <2>1
    <3>5. PICK g1 \in BOOLEAN : g1 <=> Goods(n - 1)
      BY <2>4
    <3>6. Agrees(s.ok, s.rest, w[n - 1], g1, ts)
      BY <3>4, <3>5 DEF Agrees
    <3>7. PICK h \in BOOLEAN : h <=> g1 /\ good[n]
      BY <2>4
    <3>8. ASSUME NEW p, NEW q, NEW ok1, NEW rest1, NEW ok, NEW rest, NEW good2,
                 p = w[n - 1], q = parts[n], ok1 = s.ok, rest1 = s.rest,
                 ok = a[n].ok, rest = a[n].rest, good2 = good[n]
          PROVE  Agrees(ok, rest, Then(p, q), h, ts)
      <4>1. /\ p \in Part /\ q \in Part /\ ok1 \in BOOLEAN /\ rest1 \in Tokens
            /\ ok \in BOOLEAN /\ rest \in Tokens /\ good2 \in BOOLEAN
        BY <2>4, <3>2, <3>3, <3>8
      <4>2. (~ok1 => ~ok) /\ (ok1 => Agrees(ok, rest, q, good2, rest1))
        BY <2>6, <3>1, <3>8
      <4>3. Agrees(ok1, rest1, p, g1, ts) /\ (h <=> g1 /\ good2)
        BY <3>6, <3>7, <3>8
      <4>. QED BY <4>1, <4>2, <4>3, ThenAgrees
    <3>9. Agrees(a[n].ok, a[n].rest, Then(w[n - 1], parts[n]), h, ts)
      BY <3>8, Zenon
    <3>. QED BY <3>5, <3>7, <3>9 DEF Agrees
  <2>10. Agrees(a[n].ok, a[n].rest, w[n], Goods(n), ts)
    <3>. HIDE DEF s, next, Goods
    <3>. QED BY <2>3, <2>5, <2>9 DEF Agrees
  <2>11. Same(n)
    <3>. SUFFICES ASSUME a[n].ok
                  PROVE  Len(a[n].objects) = n /\ \A i \in 1 .. n : a[n].objects[i] = ws[i]
      OBVIOUS
    <3>1. s.ok
      BY <2>2, <2>6
    <3>. DEFINE x == next.object
    <3>2. a[n].objects = Append(s.objects, x) /\ x = ws[n]
      BY <2>7, <3>1
    <3>3. Len(s.objects) = n - 1 /\ \A i \in 1 .. n - 1 : s.objects[i] = ws[i]
      BY <2>1, <3>1
    <3>. HIDE DEF s, next, x, Goods
    <3>4. s.objects \in Seq(O \cup {x})
      BY <2>2
    <3>5. /\ Len(a[n].objects) = n /\ a[n].objects[n] = x
          /\ \A i \in 1 .. n - 1 : a[n].objects[i] = s.objects[i]
      BY <3>2, <3>3, <3>4, AppendProperties
    <3>. QED BY <3>2, <3>3, <3>5
  <2>. QED BY <2>1, <2>10, <2>11
<1>8. m \in P
  <2>. HIDE DEF P
  <2>1. \A n \in 0 .. m : n \in P
    BY <1>6, <1>7, SetInduction
  <2>. QED BY <2>1
<1>9. Agrees(a[m].ok, a[m].rest, w[m], Goods(m), ts) /\ Same(m)
  BY <1>8
<1>. HIDE DEF P
<1>10. Agrees(a[m].ok, a[m].rest, w[m], g, ts)
  <2>1. g <=> Goods(m)
    BY DEF AllGood
  <2>. HIDE DEF Goods
  <2>. QED BY <1>9, <2>1 DEF Agrees
<1>11. a[m].ok => \A i \in 1 .. m : a[m].objects[i] = ws[i]
  BY <1>9, Zenon
<1>12. Together(m, a[m], w[m], ws, g, ts)
  BY <1>10, <1>11, Zenon DEF Together
<1>. QED BY <1>1, <1>3, <1>12

-----------------------------------------------------------------------------
(* Types, by what they are made of: those of UpTo(n) have at most n levels   *)
(* of unions, vectors and records above an enum or an atom.                  *)

Leaves == [kind : {"enum"}, last : 0 .. 10, lower : BOOLEAN] \cup {Atom}

\* Records of which New makes all the members.
Buildable(t) ==
    t.kind = "record" =>
       \A i \in DOMAIN t.fields : t.fields[i].type.kind = "record" =>
          \A j \in DOMAIN t.fields[i].type.fields :
             t.fields[i].type.fields[j].type.kind # "record"

Distinct(fields) ==
    \A i, j \in DOMAIN fields : fields[i].name = fields[j].name => i = j

FieldNames ==
    {"id", "operationType", "columnName", "dataType", "allowNull", "encoding", "isPrimaryKey",
     "op", "dataValue", "valueList", "type", "column", "predicate", "tableName",
     "predicateList", "value", "values", "columns", "row", "scanId", "rows", "schemaType", "obj"}

Unions(S)  == [kind : {"union"}, branches : Seq({t \in S : Buildable(t)})]
Vectors(S) == [kind : {"vector"}, item : {t \in S : Buildable(t)}]
Records(S) ==
    {t \in [kind : {"record"}, fields : Seq([name : FieldNames, type : S])] : Distinct(t.fields)}
Above(S)   == Leaves \cup Unions(S) \cup Vectors(S) \cup Records(S)

Types1 == Above(Leaves)
Types2 == Above(Types1)
Types3 == Above(Types2)
Types4 == Above(Types3)
Types5 == Above(Types4)
Types6 == Above(Types5)

UpTo(n) ==
    CASE n = 0 -> Leaves
      [] n = 1 -> Types1
      [] n = 2 -> Types2
      [] n = 3 -> Types3
      [] n = 4 -> Types4
      [] n = 5 -> Types5
      [] n = 6 -> Types6

LEMMA UpToIs ==
    /\ UpTo(0) = Leaves
    /\ \A n \in 1 .. 6 : UpTo(n) = Above(UpTo(n - 1))
<1>1. UpTo(0) = Leaves
  BY DEF UpTo
<1>2. ASSUME NEW n \in 1 .. 6 PROVE UpTo(n) = Above(UpTo(n - 1))
  <2>1. CASE n = 1
    BY <2>1 DEF UpTo, Types1
  <2>2. CASE n = 2
    BY <2>2 DEF UpTo, Types2
  <2>3. CASE n = 3
    BY <2>3 DEF UpTo, Types3
  <2>4. CASE n = 4
    BY <2>4 DEF UpTo, Types4
  <2>5. CASE n = 5
    BY <2>5 DEF UpTo, Types5
  <2>6. CASE n = 6
    BY <2>6 DEF UpTo, Types6
  <2>. QED BY <2>1, <2>2, <2>3, <2>4, <2>5, <2>6
<1>. QED BY <1>1, <1>2

-----------------------------------------------------------------------------
(* The operators of AvroRecords, with the level as a number.                 *)

HoldsAt(n, t, v, exact) ==
    CASE n = 0 -> Holds0(t, v, exact)
      [] n = 1 -> Holds1(t, v, exact)
      [] n = 2 -> Holds2(t, v, exact)
      [] n = 3 -> Holds3(t, v, exact)
      [] n = 4 -> Holds4(t, v, exact)
      [] n = 5 -> Holds5(t, v, exact)
      [] n = 6 -> Holds(t, v, exact)

EncodeAt(n, t, v, rev) ==
    CASE n = 0 -> Encode0(t, v, rev)
      [] n = 1 -> Encode1(t, v, rev)
      [] n = 2 -> Encode2(t, v, rev)
      [] n = 3 -> Encode3(t, v, rev)
      [] n = 4 -> Encode4(t, v, rev)
      [] n = 5 -> Encode5(t, v, rev)
      [] n = 6 -> Encode(t, v, rev)

ReaderAt(n, t, v, rev) ==
    CASE n = 0 -> Reader0(t, v, rev)
      [] n = 1 -> Reader1(t, v, rev)
      [] n = 2 -> Reader2(t, v, rev)
      [] n = 3 -> Reader3(t, v, rev)
      [] n = 4 -> Reader4(t, v, rev)
      [] n = 5 -> Reader5(t, v, rev)
      [] n = 6 -> Reader(t, v, rev)


\* What each kind of type has at the level above k.
IsLeaf(t)   == t.kind \in {"enum", "atom"}
IsUnion(t)  == t.kind = "union"
IsVector(t) == t.kind = "vector"
IsRecord(t) == t.kind = "record"

UnionHolds(k, t, v, exact) ==
    /\ v = [idx |-> v.idx, value |-> v.value]
    /\ v.idx \in 0 .. Len(t.branches)
    /\ IF v.idx = 0 THEN v.value = NoAtom ELSE HoldsAt(k, t.branches[v.idx], v.value, exact)
VectorHolds(k, t, v, exact) ==
    /\ v \in Seq({v[i] : i \in DOMAIN v})
    /\ \A i \in DOMAIN v : HoldsAt(k, t.item, v[i], exact)
RecordHolds(k, t, v, exact) ==
    /\ v = [f \in Names(t) |-> v[f]]
    /\ \A f \in Names(t) : HoldsAt(k, TypeOf(t, f), v[f], exact)

UnionBody(k, t, v, rev) ==
    IF v.idx = 0 THEN Wrote(<<>>) ELSE EncodeAt(k, t.branches[v.idx], v.value, rev)
VectorBody(k, t, v, rev) ==
    WriteAll([i \in 1 .. Len(v) |-> EncodeAt(k, t.item, v[i], rev)])
RecordBody(k, order, v, rev) ==
    WriteAll([i \in 1 .. Len(order) |-> EncodeAt(k, order[i].type, v[order[i].name], rev)])

LeafReader(t, v, rev) == [ts \in Tokens |-> Reader0(t, v, rev)[ts]]
UnionReader(k, t, v, rev) == [ts \in Tokens |->
    IF ~NextIs(ts, "number") THEN Thrown(v, ts)
    ELSE LET b == Head(ts).of IN
         CASE b = 0 -> Decoded([idx |-> 0, value |-> NoAtom], Tail(ts))
           [] b > Len(t.branches) -> Thrown(v, Tail(ts))
           [] OTHER -> LET branch == t.branches[b]
                       IN  SetUnion(v, b, ReaderAt(k, branch, New(branch), rev)[Tail(ts)])]
ItemReaders(k, t, rev, m) == [i \in 1 .. m |-> ReaderAt(k, t.item, New(t.item), rev)]
VectorReader(k, t, rev) == [ts \in Tokens |->
    IF ~NextIs(ts, "number") THEN Thrown(Emptied, ts)
    ELSE SetVector(ReadAll(ItemReaders(k, t, rev, Head(ts).of), Tail(ts)))]
FieldReaders(k, order, v, rev) ==
    [i \in 1 .. Len(order) |-> ReaderAt(k, order[i].type, v[order[i].name], rev)]
RecordReader(k, order, v, rev) == [ts \in Tokens |->
    SetFields(v, order, ReadAll(FieldReaders(k, order, v, rev), ts))]

LEMMA HoldsLeaf ==
    ASSUME NEW n \in 1 .. 6, NEW t, IsLeaf(t), NEW v, NEW exact \in BOOLEAN
    PROVE  HoldsAt(n, t, v, exact) <=> Holds0(t, v, exact)
<1>1. CASE n = 1
  BY <1>1 DEF HoldsAt, Holds1, HoldsOf, IsLeaf
<1>2. CASE n = 2
  BY <1>2 DEF HoldsAt, Holds2, HoldsOf, IsLeaf
<1>3. CASE n = 3
  BY <1>3 DEF HoldsAt, Holds3, HoldsOf, IsLeaf
<1>4. CASE n = 4
  BY <1>4 DEF HoldsAt, Holds4, HoldsOf, IsLeaf
<1>5. CASE n = 5
  BY <1>5 DEF HoldsAt, Holds5, HoldsOf, IsLeaf
<1>6. CASE n = 6
  BY <1>6 DEF HoldsAt, Holds, HoldsOf, IsLeaf
<1>7. n = 1 \/ n = 2 \/ n = 3 \/ n = 4 \/ n = 5 \/ n = 6
  OBVIOUS
<1>. QED BY <1>1, <1>2, <1>3, <1>4, <1>5, <1>6, <1>7, Zenon

LEMMA HoldsUnion ==
    ASSUME NEW n \in 1 .. 6, NEW t, IsUnion(t), NEW v, NEW exact \in BOOLEAN
    PROVE  HoldsAt(n, t, v, exact) <=> UnionHolds(n - 1, t, v, exact)
<1>1. CASE n = 1
  BY <1>1 DEF HoldsAt, Holds1, HoldsOf, IsUnion, UnionHolds
<1>2. CASE n = 2
  BY <1>2 DEF HoldsAt, Holds2, HoldsOf, IsUnion, UnionHolds
<1>3. CASE n = 3
  BY <1>3 DEF HoldsAt, Holds3, HoldsOf, IsUnion, UnionHolds
<1>4. CASE n = 4
  BY <1>4 DEF HoldsAt, Holds4, HoldsOf, IsUnion, UnionHolds
<1>5. CASE n = 5
  BY <1>5 DEF HoldsAt, Holds5, HoldsOf, IsUnion, UnionHolds
<1>6. CASE n = 6
  BY <1>6 DEF HoldsAt, Holds, HoldsOf, IsUnion, UnionHolds
<1>7. n = 1 \/ n = 2 \/ n = 3 \/ n = 4 \/ n = 5 \/ n = 6
  OBVIOUS
<1>. QED BY <1>1, <1>2, <1>3, <1>4, <1>5, <1>6, <1>7, Zenon

LEMMA HoldsVector ==
    ASSUME NEW n \in 1 .. 6, NEW t, IsVector(t), NEW v, NEW exact \in BOOLEAN
    PROVE  HoldsAt(n, t, v, exact) <=> VectorHolds(n - 1, t, v, exact)
<1>1. CASE n = 1
  BY <1>1 DEF HoldsAt, Holds1, HoldsOf, IsVector, VectorHolds
<1>2. CASE n = 2
  BY <1>2 DEF HoldsAt, Holds2, HoldsOf, IsVector, VectorHolds
<1>3. CASE n = 3
  BY <1>3 DEF HoldsAt, Holds3, HoldsOf, IsVector, VectorHolds
<1>4. CASE n = 4
  BY <1>4 DEF HoldsAt, Holds4, HoldsOf, IsVector, VectorHolds
<1>5. CASE n = 5
  BY <1>5 DEF HoldsAt, Holds5, HoldsOf, IsVector, VectorHolds
<1>6. CASE n = 6
  BY <1>6 DEF HoldsAt, Holds, HoldsOf, IsVector, VectorHolds
<1>7. n = 1 \/ n = 2 \/ n = 3 \/ n = 4 \/ n = 5 \/ n = 6
  OBVIOUS
<1>. QED BY <1>1, <1>2, <1>3, <1>4, <1>5, <1>6, <1>7, Zenon

LEMMA HoldsRecord ==
    ASSUME NEW n \in 1 .. 6, NEW t, IsRecord(t), NEW v, NEW exact \in BOOLEAN
    PROVE  HoldsAt(n, t, v, exact) <=> RecordHolds(n - 1, t, v, exact)
<1>1. CASE n = 1
  BY <1>1 DEF HoldsAt, Holds1, HoldsOf, IsRecord, RecordHolds
<1>2. CASE n = 2
  BY <1>2 DEF HoldsAt, Holds2, HoldsOf, IsRecord, RecordHolds
<1>3. CASE n = 3
  BY <1>3 DEF HoldsAt, Holds3, HoldsOf, IsRecord, RecordHolds
<1>4. CASE n = 4
  BY <1>4 DEF HoldsAt, Holds4, HoldsOf, IsRecord, RecordHolds
<1>5. CASE n = 5
  BY <1>5 DEF HoldsAt, Holds5, HoldsOf, IsRecord, RecordHolds
<1>6. CASE n = 6
  BY <1>6 DEF HoldsAt, Holds, HoldsOf, IsRecord, RecordHolds
<1>7. n = 1 \/ n = 2 \/ n = 3 \/ n = 4 \/ n = 5 \/ n = 6
  OBVIOUS
<1>. QED BY <1>1, <1>2, <1>3, <1>4, <1>5, <1>6, <1>7, Zenon

LEMMA EncodeLeaf ==
    ASSUME NEW n \in 1 .. 6, NEW t, IsLeaf(t), NEW v, NEW rev \in BOOLEAN
    PROVE  EncodeAt(n, t, v, rev) = Encode0(t, v, rev)
<1>1. CASE n = 1
  BY <1>1 DEF EncodeAt, Encode1, EncodeOf, IsLeaf
<1>2. CASE n = 2
  BY <1>2 DEF EncodeAt, Encode2, EncodeOf, IsLeaf
<1>3. CASE n = 3
  BY <1>3 DEF EncodeAt, Encode3, EncodeOf, IsLeaf
<1>4. CASE n = 4
  BY <1>4 DEF EncodeAt, Encode4, EncodeOf, IsLeaf
<1>5. CASE n = 5
  BY <1>5 DEF EncodeAt, Encode5, EncodeOf, IsLeaf
<1>6. CASE n = 6
  BY <1>6 DEF EncodeAt, Encode, EncodeOf, IsLeaf
<1>7. n = 1 \/ n = 2 \/ n = 3 \/ n = 4 \/ n = 5 \/ n = 6
  OBVIOUS
<1>. QED BY <1>1, <1>2, <1>3, <1>4, <1>5, <1>6, <1>7, Zenon

LEMMA EncodeUnion ==
    ASSUME NEW n \in 1 .. 6, NEW t, IsUnion(t), NEW v, NEW rev \in BOOLEAN
    PROVE  EncodeAt(n, t, v, rev) = Then(Wrote(<<Number(v.idx)>>), UnionBody(n - 1, t, v, rev))
<1>1. CASE n = 1
  BY <1>1 DEF EncodeAt, Encode1, EncodeOf, IsUnion, UnionBody
<1>2. CASE n = 2
  BY <1>2 DEF EncodeAt, Encode2, EncodeOf, IsUnion, UnionBody
<1>3. CASE n = 3
  BY <1>3 DEF EncodeAt, Encode3, EncodeOf, IsUnion, UnionBody
<1>4. CASE n = 4
  BY <1>4 DEF EncodeAt, Encode4, EncodeOf, IsUnion, UnionBody
<1>5. CASE n = 5
  BY <1>5 DEF EncodeAt, Encode5, EncodeOf, IsUnion, UnionBody
<1>6. CASE n = 6
  BY <1>6 DEF EncodeAt, Encode, EncodeOf, IsUnion, UnionBody
<1>7. n = 1 \/ n = 2 \/ n = 3 \/ n = 4 \/ n = 5 \/ n = 6
  OBVIOUS
<1>. QED BY <1>1, <1>2, <1>3, <1>4, <1>5, <1>6, <1>7, Zenon

LEMMA EncodeVector ==
    ASSUME NEW n \in 1 .. 6, NEW t, IsVector(t), NEW v, NEW rev \in BOOLEAN
    PROVE  EncodeAt(n, t, v, rev) = Then(Wrote(<<Number(Len(v))>>), VectorBody(n - 1, t, v, rev))
<1>1. CASE n = 1
  BY <1>1 DEF EncodeAt, Encode1, EncodeOf, IsVector, VectorBody
<1>2. CASE n = 2
  BY <1>2 DEF EncodeAt, Encode2, EncodeOf, IsVector, VectorBody
<1>3. CASE n = 3
  BY <1>3 DEF EncodeAt, Encode3, EncodeOf, IsVector, VectorBody
<1>4. CASE n = 4
  BY <1>4 DEF EncodeAt, Encode4, EncodeOf, IsVector, VectorBody
<1>5. CASE n = 5
  BY <1>5 DEF EncodeAt, Encode5, EncodeOf, IsVector, VectorBody
<1>6. CASE n = 6
  BY <1>6 DEF EncodeAt, Encode, EncodeOf, IsVector, VectorBody
<1>7. n = 1 \/ n = 2 \/ n = 3 \/ n = 4 \/ n = 5 \/ n = 6
  OBVIOUS
<1>. QED BY <1>1, <1>2, <1>3, <1>4, <1>5, <1>6, <1>7, Zenon

LEMMA EncodeRecord ==
    ASSUME NEW n \in 1 .. 6, NEW t, IsRecord(t), NEW v, NEW rev \in BOOLEAN
    PROVE  EncodeAt(n, t, v, rev) = RecordBody(n - 1, FieldOrder(t, rev), v, rev)
<1>1. CASE n = 1
  BY <1>1 DEF EncodeAt, Encode1, EncodeOf, IsRecord, RecordBody
<1>2. CASE n = 2
  BY <1>2 DEF EncodeAt, Encode2, EncodeOf, IsRecord, RecordBody
<1>3. CASE n = 3
  BY <1>3 DEF EncodeAt, Encode3, EncodeOf, IsRecord, RecordBody
<1>4. CASE n = 4
  BY <1>4 DEF EncodeAt, Encode4, EncodeOf, IsRecord, RecordBody
<1>5. CASE n = 5
  BY <1>5 DEF EncodeAt, Encode5, EncodeOf, IsRecord, RecordBody
<1>6. CASE n = 6
  BY <1>6 DEF EncodeAt, Encode, EncodeOf, IsRecord, RecordBody
<1>7. n = 1 \/ n = 2 \/ n = 3 \/ n = 4 \/ n = 5 \/ n = 6
  OBVIOUS
<1>. QED BY <1>1, <1>2, <1>3, <1>4, <1>5, <1>6, <1>7, Zenon

LEMMA ReaderLeaf ==
    ASSUME NEW n \in 1 .. 6, NEW t, IsLeaf(t), NEW v, NEW rev \in BOOLEAN
    PROVE  ReaderAt(n, t, v, rev) = LeafReader(t, v, rev)
<1>1. CASE n = 1
  BY <1>1 DEF ReaderAt, Reader1, ReaderOf, IsLeaf, LeafReader, Tokens
<1>2. CASE n = 2
  BY <1>2 DEF ReaderAt, Reader2, ReaderOf, IsLeaf, LeafReader, Tokens
<1>3. CASE n = 3
  BY <1>3 DEF ReaderAt, Reader3, ReaderOf, IsLeaf, LeafReader, Tokens
<1>4. CASE n = 4
  BY <1>4 DEF ReaderAt, Reader4, ReaderOf, IsLeaf, LeafReader, Tokens
<1>5. CASE n = 5
  BY <1>5 DEF ReaderAt, Reader5, ReaderOf, IsLeaf, LeafReader, Tokens
<1>6. CASE n = 6
  BY <1>6 DEF ReaderAt, Reader, ReaderOf, IsLeaf, LeafReader, Tokens
<1>7. n = 1 \/ n = 2 \/ n = 3 \/ n = 4 \/ n = 5 \/ n = 6
  OBVIOUS
<1>. QED BY <1>1, <1>2, <1>3, <1>4, <1>5, <1>6, <1>7, Zenon

LEMMA ReaderUnion ==
    ASSUME NEW n \in 1 .. 6, NEW t, IsUnion(t), NEW v, NEW rev \in BOOLEAN
    PROVE  ReaderAt(n, t, v, rev) = UnionReader(n - 1, t, v, rev)
<1>1. CASE n = 1
  BY <1>1 DEF ReaderAt, Reader1, ReaderOf, IsUnion, UnionReader, Tokens
<1>2. CASE n = 2
  BY <1>2 DEF ReaderAt, Reader2, ReaderOf, IsUnion, UnionReader, Tokens
<1>3. CASE n = 3
  BY <1>3 DEF ReaderAt, Reader3, ReaderOf, IsUnion, UnionReader, Tokens
<1>4. CASE n = 4
  BY <1>4 DEF ReaderAt, Reader4, ReaderOf, IsUnion, UnionReader, Tokens
<1>5. CASE n = 5
  BY <1>5 DEF ReaderAt, Reader5, ReaderOf, IsUnion, UnionReader, Tokens
<1>6. CASE n = 6
  BY <1>6 DEF ReaderAt, Reader, ReaderOf, IsUnion, UnionReader, Tokens
<1>7. n = 1 \/ n = 2 \/ n = 3 \/ n = 4 \/ n = 5 \/ n = 6
  OBVIOUS
<1>. QED BY <1>1, <1>2, <1>3, <1>4, <1>5, <1>6, <1>7, Zenon

LEMMA ReaderVector ==
    ASSUME NEW n \in 1 .. 6, NEW t, IsVector(t), NEW v, NEW rev \in BOOLEAN
    PROVE  ReaderAt(n, t, v, rev) = VectorReader(n - 1, t, rev)
<1>1. CASE n = 1
  BY <1>1 DEF ReaderAt, Reader1, ReaderOf, IsVector, VectorReader, ItemReaders, Tokens
<1>2. CASE n = 2
  BY <1>2 DEF ReaderAt, Reader2, ReaderOf, IsVector, VectorReader, ItemReaders, Tokens
<1>3. CASE n = 3
  BY <1>3 DEF ReaderAt, Reader3, ReaderOf, IsVector, VectorReader, ItemReaders, Tokens
<1>4. CASE n = 4
  BY <1>4 DEF ReaderAt, Reader4, ReaderOf, IsVector, VectorReader, ItemReaders, Tokens
<1>5. CASE n = 5
  BY <1>5 DEF ReaderAt, Reader5, ReaderOf, IsVector, VectorReader, ItemReaders, Tokens
<1>6. CASE n = 6
  BY <1>6 DEF ReaderAt, Reader, ReaderOf, IsVector, VectorReader, ItemReaders, Tokens
<1>7. n = 1 \/ n = 2 \/ n = 3 \/ n = 4 \/ n = 5 \/ n = 6
  OBVIOUS
<1>. QED BY <1>1, <1>2, <1>3, <1>4, <1>5, <1>6, <1>7, Zenon

LEMMA ReaderRecord ==
    ASSUME NEW n \in 1 .. 6, NEW t, IsRecord(t), NEW v, NEW rev \in BOOLEAN
    PROVE  ReaderAt(n, t, v, rev) = RecordReader(n - 1, FieldOrder(t, rev), v, rev)
<1>1. CASE n = 1
  BY <1>1 DEF ReaderAt, Reader1, ReaderOf, IsRecord, RecordReader, FieldReaders, Tokens
<1>2. CASE n = 2
  BY <1>2 DEF ReaderAt, Reader2, ReaderOf, IsRecord, RecordReader, FieldReaders, Tokens
<1>3. CASE n = 3
  BY <1>3 DEF ReaderAt, Reader3, ReaderOf, IsRecord, RecordReader, FieldReaders, Tokens
<1>4. CASE n = 4
  BY <1>4 DEF ReaderAt, Reader4, ReaderOf, IsRecord, RecordReader, FieldReaders, Tokens
<1>5. CASE n = 5
  BY <1>5 DEF ReaderAt, Reader5, ReaderOf, IsRecord, RecordReader, FieldReaders, Tokens
<1>6. CASE n = 6
  BY <1>6 DEF ReaderAt, Reader, ReaderOf, IsRecord, RecordReader, FieldReaders, Tokens
<1>7. n = 1 \/ n = 2 \/ n = 3 \/ n = 4 \/ n = 5 \/ n = 6
  OBVIOUS
<1>. QED BY <1>1, <1>2, <1>3, <1>4, <1>5, <1>6, <1>7, Zenon

\* At level 0 there are the leaves, and at the others a leaf is the same.
LEMMA Leaf ==
    ASSUME NEW n \in 0 .. 6, NEW t, IsLeaf(t), NEW v, NEW rev \in BOOLEAN, NEW exact \in BOOLEAN
    PROVE  /\ HoldsAt(n, t, v, exact) <=> Holds0(t, v, exact)
           /\ EncodeAt(n, t, v, rev) = Encode0(t, v, rev)
           /\ ReaderAt(n, t, v, rev) = LeafReader(t, v, rev)
<1>1. CASE n = 0
  <2>1. /\ HoldsAt(n, t, v, exact) <=> Holds0(t, v, exact)
        /\ EncodeAt(n, t, v, rev) = Encode0(t, v, rev)
        /\ ReaderAt(n, t, v, rev) = Reader0(t, v, rev)
    BY <1>1 DEF HoldsAt, EncodeAt, ReaderAt
  <2>2. Reader0(t, v, rev) = LeafReader(t, v, rev)
    BY DEF LeafReader, Reader0, Tokens
  <2>. QED BY <2>1, <2>2
<1>2. CASE n # 0
  <2>1. n \in 1 .. 6
    BY <1>2
  <2>. QED BY <2>1, HoldsLeaf, EncodeLeaf, ReaderLeaf
<1>. QED BY <1>1, <1>2

\* A type is made of types of the level below.
UnionParts(k, t) ==
    /\ Len(t.branches) \in Nat
    /\ \A i \in 1 .. Len(t.branches) : t.branches[i] \in UpTo(k) /\ Buildable(t.branches[i])
VectorParts(k, t) == t.item \in UpTo(k) /\ Buildable(t.item)
RecordParts(k, t) ==
    /\ Len(t.fields) \in Nat /\ DOMAIN t.fields = 1 .. Len(t.fields)
    /\ \A i \in 1 .. Len(t.fields) : t.fields[i].type \in UpTo(k)
    /\ \A i, j \in 1 .. Len(t.fields) : t.fields[i].name = t.fields[j].name => i = j

LEMMA TypeParts ==
    ASSUME NEW n \in 0 .. 6, NEW t \in UpTo(n)
    PROVE  \/ IsLeaf(t) /\ t \in Leaves
           \/ n \in 1 .. 6 /\ n - 1 \in 0 .. 6 /\ IsUnion(t) /\ UnionParts(n - 1, t)
           \/ n \in 1 .. 6 /\ n - 1 \in 0 .. 6 /\ IsVector(t) /\ VectorParts(n - 1, t)
           \/ n \in 1 .. 6 /\ n - 1 \in 0 .. 6 /\ IsRecord(t) /\ RecordParts(n - 1, t)
<1>1. CASE t \in Leaves
  BY <1>1 DEF Leaves, Atom, IsLeaf
<1>2. CASE t \notin Leaves
  <2>1. n \in 1 .. 6 /\ n - 1 \in 0 .. 6 /\ t \in Above(UpTo(n - 1))
    BY <1>2, UpToIs
  <2>. DEFINE S == UpTo(n - 1)
  <2>. HIDE DEF S
  <2>2. CASE t \in Unions(S)
    <3>1. IsUnion(t) /\ t.branches \in Seq({u \in S : Buildable(u)})
      BY <2>2 DEF Unions, IsUnion
    <3>2. \A i \in 1 .. Len(t.branches) : t.branches[i] \in {u \in S : Buildable(u)}
      BY <3>1, ElementOfSeq
    <3>3. Len(t.branches) \in Nat
      BY <3>1, LenProperties
    <3>4. UnionParts(n - 1, t)
      BY <3>2, <3>3 DEF UnionParts, S
    <3>. QED BY <2>1, <3>1, <3>4
  <2>3. CASE t \in Vectors(S)
    <3>1. IsVector(t) /\ VectorParts(n - 1, t)
      BY <2>3 DEF Vectors, S, IsVector, VectorParts
    <3>. QED BY <2>1, <3>1
  <2>4. CASE t \in Records(S)
    <3>1. /\ IsRecord(t) /\ t.fields \in Seq([name : FieldNames, type : S])
          /\ Distinct(t.fields)
      BY <2>4 DEF Records, IsRecord
    <3>2. \A i \in 1 .. Len(t.fields) : t.fields[i] \in [name : FieldNames, type : S]
      BY <3>1, ElementOfSeq
    <3>3. Len(t.fields) \in Nat /\ DOMAIN t.fields = 1 .. Len(t.fields)
      BY <3>1, LenProperties
    <3>4. RecordParts(n - 1, t)
      BY <3>1, <3>2, <3>3 DEF RecordParts, S, Distinct
    <3>. QED BY <2>1, <3>1, <3>4
  <2>. QED BY <1>2, <2>1, <2>2, <2>3, <2>4 DEF Above, S
<1>. QED BY <1>1, <1>2

LEMMA OneKind ==
    ASSUME NEW t
    PROVE  /\ IsRecord(t) => ~IsLeaf(t) /\ ~IsUnion(t) /\ ~IsVector(t)
           /\ ~IsRecord(t) <=> t.kind # "record"
BY DEF IsRecord, IsLeaf, IsUnion, IsVector

\* In either order the fields are those of the record, each once.
Fields(k, t, order) ==
    /\ Len(order) \in Nat /\ DOMAIN order = 1 .. Len(order)
    /\ \A i \in 1 .. Len(order) :
         /\ order[i].name \in Names(t)
         /\ order[i].type = TypeOf(t, order[i].name)
         /\ order[i].type \in UpTo(k)
    /\ \A f \in Names(t) : \E i \in 1 .. Len(order) : order[i].name = f
    /\ \A i, j \in 1 .. Len(order) : order[i].name = order[j].name => i = j

LEMMA RecordFields ==
    ASSUME NEW k, NEW t, RecordParts(k, t), NEW rev \in BOOLEAN
    PROVE  Fields(k, t, FieldOrder(t, rev))
<1>. DEFINE m == Len(t.fields)
            order == FieldOrder(t, rev)
<1>1. /\ m \in Nat /\ DOMAIN t.fields = 1 .. m
      /\ \A i \in 1 .. m : t.fields[i].type \in UpTo(k)
      /\ \A i, j \in 1 .. m : t.fields[i].name = t.fields[j].name => i = j
  BY DEF RecordParts
<1>2. Names(t) = {t.fields[i].name : i \in 1 .. m}
  BY <1>1 DEF Names
<1>3. \A i \in 1 .. m : t.fields[i].type = TypeOf(t, t.fields[i].name)
  BY <1>1 DEF TypeOf
<1>4. \/ order = t.fields
      \/ order = [i \in 1 .. m |-> t.fields[m - i + 1]]
  BY DEF FieldOrder, Reverse
<1>. HIDE DEF m, order
<1>5. ASSUME order = t.fields PROVE Fields(k, t, order)
  BY <1>1, <1>2, <1>3, <1>5 DEF m, Fields
<1>6. ASSUME order = [i \in 1 .. m |-> t.fields[m - i + 1]] PROVE Fields(k, t, order)
  <2>1. Len(order) = m /\ DOMAIN order = 1 .. m
    BY <1>1, <1>6
  <2>2. \A i \in 1 .. m : m - i + 1 \in 1 .. m /\ order[i] = t.fields[m - i + 1]
    BY <1>1, <1>6
  <2>3. \A i \in 1 .. m : m - (m - i + 1) + 1 = i
    BY <1>1
  <2>4. \A f \in Names(t) : \E i \in 1 .. m : order[i].name = f
    <3>. TAKE f \in Names(t)
    <3>1. PICK j \in 1 .. m : t.fields[j].name = f
      BY <1>2
    <3>2. m - j + 1 \in 1 .. m /\ order[m - j + 1] = t.fields[j]
      BY <1>1, <2>2, <2>3
    <3>. QED BY <3>1, <3>2
  <2>5. ASSUME NEW i \in 1 .. m, NEW j \in 1 .. m, order[i].name = order[j].name
        PROVE  i = j
    <3>. DEFINE a == m - i + 1
                b == m - j + 1
    <3>1. a \in 1 .. m /\ b \in 1 .. m /\ order[i] = t.fields[a] /\ order[j] = t.fields[b]
      BY <2>2
    <3>2. a = b => i = j
      BY <1>1
    <3>. HIDE DEF a, b
    <3>3. t.fields[a].name = t.fields[b].name
      BY <2>5, <3>1
    <3>. QED BY <1>1, <3>1, <3>2, <3>3
  <2>6. \A i \in 1 .. m : /\ order[i].name \in Names(t)
                          /\ order[i].type = TypeOf(t, order[i].name)
                          /\ order[i].type \in UpTo(k)
    <3>. TAKE i \in 1 .. m
    <3>. DEFINE a == m - i + 1
    <3>1. a \in 1 .. m /\ order[i] = t.fields[a]
      BY <2>2
    <3>. HIDE DEF a
    <3>. QED BY <1>1, <1>2, <1>3, <3>1
  <2>. QED BY <1>1, <2>1, <2>4, <2>5, <2>6 DEF Fields
<1>. QED BY <1>4, <1>5, <1>6 DEF order

LEMMA TypeOfField ==
    ASSUME NEW k, NEW t, RecordParts(k, t), NEW f \in Names(t)
    PROVE  /\ TypeOf(t, f) \in UpTo(k)
           /\ \E i \in DOMAIN t.fields : TypeOf(t, f) = t.fields[i].type
<1>1. Fields(k, t, t.fields)
  BY RecordFields DEF FieldOrder
<1>2. PICK i \in 1 .. Len(t.fields) : t.fields[i].name = f
  BY <1>1 DEF Fields
<1>. QED BY <1>1, <1>2 DEF Fields

-----------------------------------------------------------------------------
(* What a constructor makes is well formed.                                  *)

LEMMA NewMemberHolds ==
    ASSUME NEW n \in 0 .. 6, NEW t \in UpTo(n), ~IsRecord(t)
    PROVE  HoldsAt(n, t, NewMember(t), TRUE)
<1>1. CASE IsLeaf(t) /\ t \in Leaves
  <2>1. Holds0(t, NewMember(t), TRUE)
    BY <1>1 DEF Leaves, Atom, NewMember, Holds0
  <2>. QED BY <1>1, <2>1, Leaf
<1>2. CASE n \in 1 .. 6 /\ IsUnion(t) /\ UnionParts(n - 1, t)
  <2>1. UnionHolds(n - 1, t, NewMember(t), TRUE)
    BY <1>2 DEF UnionParts, IsUnion, NewMember, UnionHolds
  <2>. QED BY <1>2, <2>1, HoldsUnion
<1>3. CASE n \in 1 .. 6 /\ IsVector(t)
  <2>1. VectorHolds(n - 1, t, NewMember(t), TRUE)
    BY <1>3 DEF IsVector, NewMember, VectorHolds
  <2>. QED BY <1>3, <2>1, HoldsVector
<1>. QED BY <1>1, <1>2, <1>3, TypeParts

LEMMA NewFlatHolds ==
    ASSUME NEW n \in 0 .. 6, NEW t \in UpTo(n),
           IsRecord(t) => \A i \in DOMAIN t.fields : ~IsRecord(t.fields[i].type)
    PROVE  HoldsAt(n, t, NewFlat(t), TRUE)
<1>1. CASE ~IsRecord(t)
  <2>1. NewFlat(t) = NewMember(t)
    BY <1>1 DEF NewFlat, NewOf, IsRecord
  <2>. QED BY <1>1, <2>1, NewMemberHolds
<1>2. CASE IsRecord(t)
  <2>1. NewFlat(t) = [f \in Names(t) |-> NewMember(TypeOf(t, f))]
    BY <1>2 DEF NewFlat, NewOf, IsRecord
  <2>2. n \in 1 .. 6 /\ n - 1 \in 0 .. 6 /\ RecordParts(n - 1, t)
    BY <1>2, TypeParts, OneKind
  <2>3. ASSUME NEW f \in Names(t)
        PROVE  HoldsAt(n - 1, TypeOf(t, f), NewMember(TypeOf(t, f)), TRUE)
    <3>1. TypeOf(t, f) \in UpTo(n - 1) /\ ~IsRecord(TypeOf(t, f))
      BY <1>2, <2>2, TypeOfField
    <3>. QED BY <2>2, <3>1, NewMemberHolds
  <2>4. RecordHolds(n - 1, t, NewFlat(t), TRUE)
    BY <2>1, <2>3 DEF RecordHolds
  <2>. QED BY <1>2, <2>2, <2>4, HoldsRecord
<1>. QED BY <1>1, <1>2

LEMMA NewHolds ==
    ASSUME NEW n \in 0 .. 6, NEW t \in UpTo(n), Buildable(t)
    PROVE  HoldsAt(n, t, New(t), TRUE)
<1>1. CASE ~IsRecord(t)
  <2>1. New(t) = NewMember(t)
    BY <1>1 DEF New, NewOf, IsRecord
  <2>. QED BY <1>1, <2>1, NewMemberHolds
<1>2. CASE IsRecord(t)
  <2>1. New(t) = [f \in Names(t) |-> NewFlat(TypeOf(t, f))]
    BY <1>2 DEF New, NewOf, IsRecord
  <2>2. n \in 1 .. 6 /\ n - 1 \in 0 .. 6 /\ RecordParts(n - 1, t)
    BY <1>2, TypeParts, OneKind
  <2>3. ASSUME NEW f \in Names(t) PROVE HoldsAt(n - 1, TypeOf(t, f), NewFlat(TypeOf(t, f)), TRUE)
    <3>1. /\ TypeOf(t, f) \in UpTo(n - 1)
          /\ \E i \in DOMAIN t.fields : TypeOf(t, f) = t.fields[i].type
      BY <1>2, <2>2, TypeOfField
    <3>2. IsRecord(TypeOf(t, f)) =>
            \A j \in DOMAIN TypeOf(t, f).fields : ~IsRecord(TypeOf(t, f).fields[j].type)
      BY <1>2, <3>1 DEF Buildable, IsRecord
    <3>. HIDE DEF IsRecord
    <3>. QED BY <2>2, <3>1, <3>2, NewFlatHolds
  <2>4. RecordHolds(n - 1, t, New(t), TRUE)
    BY <2>1, <2>3 DEF RecordHolds
  <2>. QED BY <1>2, <2>2, <2>4, HoldsRecord
<1>. QED BY <1>1, <1>2

-----------------------------------------------------------------------------
(* A reader of a well-formed object leaves it well formed, whatever it reads *)
(* and wherever it stops.                                                    *)

LEMMA NextToken ==
    ASSUME NEW ts \in Tokens
    PROVE  /\ NextIs(ts, "number") => Head(ts).of \in Nat
           /\ NextIs(ts, "bytes") => Head(ts).of \in Atoms \cup {NoAtom}
           /\ \A kind : NextIs(ts, kind) => Tail(ts) \in Tokens
<1>1. CASE ts = <<>>
  BY <1>1 DEF NextIs
<1>2. CASE ts # <<>>
  <2>1. Head(ts) \in Token /\ Tail(ts) \in Tokens
    BY <1>2, HeadTailProperties DEF Tokens
  <2>2. Head(ts).token = "number" => Head(ts).of \in Nat
    BY <2>1 DEF Token
  <2>3. Head(ts).token = "bytes" => Head(ts).of \in Atoms \cup {NoAtom}
    BY <2>1 DEF Token
  <2>. QED BY <2>1, <2>2, <2>3 DEF NextIs
<1>. QED BY <1>1, <1>2

IsResult(x) ==
    /\ x.ok \in BOOLEAN /\ x.rest \in Tokens
    /\ x = [ok |-> x.ok, object |-> x.object, rest |-> x.rest]

LEMMA ReaderIntro ==
    ASSUME NEW r, r = [ts \in Tokens |-> r[ts]], \A ts \in Tokens : IsResult(r[ts])
    PROVE  IsReader(r)
<1>1. ASSUME NEW ts \in Tokens PROVE r[ts] \in Result(Objects(r))
  <2>1. r[ts].object \in Objects(r)
    BY DEF Objects
  <2>2. IsResult(r[ts])
    OBVIOUS
  <2>. DEFINE x == r[ts]
  <2>. HIDE DEF x
  <2>3. x.object \in Objects(r) /\ IsResult(x)
    BY <2>1, <2>2 DEF x
  <2>4. x \in Result(Objects(r))
    BY <2>3 DEF IsResult, Result
  <2>. QED BY <2>4 DEF x
<1>. QED BY <1>1 DEF IsReader

LEMMA ReaderElim ==
    ASSUME NEW r, IsReader(r), NEW ts \in Tokens
    PROVE  IsResult(r[ts])
BY ReaderResult DEF IsResult

LEMMA OneResult ==
    ASSUME NEW v, NEW ts \in Tokens
    PROVE  /\ IsResult(Thrown(v, ts)) /\ Thrown(v, ts).object = v /\ ~Thrown(v, ts).ok
           /\ IsResult(Decoded(v, ts)) /\ Decoded(v, ts).object = v
           /\ Decoded(v, ts).ok /\ Decoded(v, ts).rest = ts
BY DEF Thrown, Decoded, IsResult

LEMMA FrontIs ==
    ASSUME NEW S, NEW s \in Seq(S), Len(s) # 0
    PROVE  /\ Front(s) \in Seq(S) /\ Len(Front(s)) = Len(s) - 1
           /\ \A i \in 1 .. Len(s) - 1 : Front(s)[i] = s[i]
<1>1. Len(s) \in Nat /\ \A i \in 1 .. Len(s) - 1 : s[i] \in S
  BY LenProperties, ElementOfSeq
<1>2. Len(s) - 1 \in Nat
  BY <1>1
<1>. DEFINE m == Len(s) - 1
<1>. HIDE DEF m
<1>3. /\ SubSeq(s, 1, m) \in Seq(S) /\ Len(SubSeq(s, 1, m)) = m
      /\ \A i \in 1 .. m : SubSeq(s, 1, m)[i] = s[i]
  <2>1. m \in Nat /\ \A i \in 1 .. m : s[i] \in S
    BY <1>1, <1>2 DEF m
  <2>2. /\ SubSeq(s, 1, m) \in Seq(S)
        /\ Len(SubSeq(s, 1, m)) = IF 1 <= m THEN m - 1 + 1 ELSE 0
        /\ \A i \in 1 .. m - 1 + 1 : SubSeq(s, 1, m)[i] = s[1 + i - 1]
    BY <2>1, SubSeqProperties
  <2>. QED BY <2>1, <2>2
<1>. QED BY <1>3 DEF Front, m

Sound(k, t, r) == IsReader(r) /\ \A ts \in Tokens : HoldsAt(k, t, r[ts].object, TRUE)

SoundAt(k) ==
    \A t \in UpTo(k) : \A v : \A rev \in BOOLEAN :
       HoldsAt(k, t, v, TRUE) => Sound(k, t, ReaderAt(k, t, v, rev))

LEMMA SoundLeaf ==
    ASSUME NEW n \in 0 .. 6, NEW t \in Leaves, IsLeaf(t), NEW v, NEW rev \in BOOLEAN,
           HoldsAt(n, t, v, TRUE)
    PROVE  Sound(n, t, ReaderAt(n, t, v, rev))
<1>. DEFINE r == ReaderAt(n, t, v, rev)
<1>1. r = [ts \in Tokens |-> Reader0(t, v, rev)[ts]] /\ Holds0(t, v, TRUE)
  <2>1. ReaderAt(n, t, v, rev) = LeafReader(t, v, rev) /\ Holds0(t, v, TRUE)
    BY Leaf
  <2>. QED BY <2>1 DEF LeafReader
<1>2. ASSUME NEW ts \in Tokens PROVE IsResult(r[ts]) /\ Holds0(t, r[ts].object, TRUE)
  <2>1. r[ts] = Reader0(t, v, rev)[ts]
    BY <1>1
  <2>. DEFINE x == r[ts]
  <2>. HIDE DEF r
  <2>2. CASE t.kind = "enum"
    <3>1. t.last \in 0 .. 10
      BY <2>2 DEF Leaves, Atom
    <3>2. x = IF ~NextIs(ts, "number") THEN Thrown(v, ts)
              ELSE IF ~(Head(ts).of <= t.last) THEN Thrown(v, Tail(ts))
              ELSE Decoded(Head(ts).of, Tail(ts))
      BY <2>1, <2>2 DEF Reader0, Tokens, EnumDecodes
    <3>. HIDE DEF x
    <3>3. CASE ~NextIs(ts, "number")
      <4>1. x = Thrown(v, ts)
        BY <3>2, <3>3
      <4>2. IsResult(x) /\ x.object = v
        BY <4>1, OneResult
      <4>. QED BY <1>1, <4>2 DEF x
    <3>4. CASE NextIs(ts, "number") /\ ~(Head(ts).of <= t.last)
      <4>1. x = Thrown(v, Tail(ts)) /\ Tail(ts) \in Tokens
        BY <3>2, <3>4, NextToken
      <4>2. IsResult(x) /\ x.object = v
        BY <4>1, OneResult
      <4>. QED BY <1>1, <4>2 DEF x
    <3>5. CASE NextIs(ts, "number") /\ Head(ts).of <= t.last
      <4>1. Head(ts).of \in 0 .. t.last /\ Tail(ts) \in Tokens
        BY <3>1, <3>5, NextToken
      <4>2. x = Decoded(Head(ts).of, Tail(ts))
        BY <3>2, <3>5
      <4>3. IsResult(x) /\ x.object = Head(ts).of
        BY <4>1, <4>2, OneResult
      <4>4. Holds0(t, x.object, TRUE)
        BY <2>2, <4>1, <4>3 DEF Holds0
      <4>. QED BY <4>3, <4>4 DEF x
    <3>. QED BY <3>3, <3>4, <3>5
  <2>3. CASE t.kind = "atom"
    <3>1. x = IF NextIs(ts, "bytes") THEN Decoded(Head(ts).of, Tail(ts)) ELSE Thrown(v, ts)
      BY <2>1, <2>3 DEF Reader0, Tokens
    <3>. HIDE DEF x
    <3>2. CASE ~NextIs(ts, "bytes")
      <4>1. x = Thrown(v, ts)
        BY <3>1, <3>2
      <4>2. IsResult(x) /\ x.object = v
        BY <4>1, OneResult
      <4>. QED BY <1>1, <4>2 DEF x
    <3>3. CASE NextIs(ts, "bytes")
      <4>1. Head(ts).of \in Atoms \cup {NoAtom} /\ Tail(ts) \in Tokens
        BY <3>3, NextToken
      <4>2. IsResult(x) /\ x.object = Head(ts).of
        BY <3>1, <3>3, <4>1, OneResult
      <4>3. Holds0(t, x.object, TRUE)
        BY <2>3, <4>1, <4>2 DEF Holds0
      <4>. QED BY <4>2, <4>3 DEF x
    <3>. QED BY <3>2, <3>3
  <2>. QED BY <2>2, <2>3 DEF IsLeaf
<1>3. IsReader(r)
  <2>1. r = [ts \in Tokens |-> r[ts]]
    BY <1>1
  <2>. HIDE DEF r
  <2>. QED BY <1>2, <2>1, ReaderIntro
<1>4. \A ts \in Tokens : HoldsAt(n, t, r[ts].object, TRUE)
  <2>. HIDE DEF r
  <2>. QED BY <1>2, Leaf
<1>. QED BY <1>3, <1>4 DEF Sound

LEMMA SoundUnion ==
    ASSUME NEW k \in 0 .. 5, NEW t, UnionParts(k, t), NEW v, NEW rev \in BOOLEAN,
           UnionHolds(k, t, v, TRUE), SoundAt(k)
    PROVE  /\ IsReader(UnionReader(k, t, v, rev))
           /\ \A ts \in Tokens : UnionHolds(k, t, UnionReader(k, t, v, rev)[ts].object, TRUE)
<1>. DEFINE r == UnionReader(k, t, v, rev)
<1>1. ASSUME NEW ts \in Tokens PROVE IsResult(r[ts]) /\ UnionHolds(k, t, r[ts].object, TRUE)
  <2>. DEFINE x == r[ts]
              b == Head(ts).of
              branch == t.branches[b]
              y == ReaderAt(k, branch, New(branch), rev)[Tail(ts)]
  <2>1. CASE ~NextIs(ts, "number")
    <3>1. x = Thrown(v, ts)
      BY <2>1 DEF UnionReader
    <3>. HIDE DEF x
    <3>2. IsResult(x) /\ x.object = v
      BY <3>1, OneResult
    <3>. QED BY <3>2 DEF x
  <2>2. CASE NextIs(ts, "number")
    <3>1. b \in Nat /\ Tail(ts) \in Tokens
      BY <2>2, NextToken
    <3>2. CASE b = 0
      <4>1. x = Decoded([idx |-> 0, value |-> NoAtom], Tail(ts))
        BY <2>2, <3>2 DEF UnionReader
      <4>. HIDE DEF x
      <4>2. IsResult(x) /\ x.object = [idx |-> 0, value |-> NoAtom]
        BY <3>1, <4>1, OneResult
      <4>3. UnionHolds(k, t, x.object, TRUE)
        BY <4>2 DEF UnionHolds, UnionParts
      <4>. QED BY <4>2, <4>3 DEF x
    <3>3. CASE b > Len(t.branches)
      <4>1. x = Thrown(v, Tail(ts))
        BY <2>2, <3>1, <3>3 DEF UnionReader, UnionParts
      <4>. HIDE DEF x
      <4>2. IsResult(x) /\ x.object = v
        BY <3>1, <4>1, OneResult
      <4>. QED BY <4>2 DEF x
    <3>4. CASE b # 0 /\ ~(b > Len(t.branches))
      <4>1. x = SetUnion(v, b, y)
        BY <2>2, <3>1, <3>4 DEF UnionReader
      <4>2. b \in 1 .. Len(t.branches) /\ branch \in UpTo(k) /\ Buildable(branch)
        BY <3>1, <3>4 DEF UnionParts
      <4>3. HoldsAt(k, branch, New(branch), TRUE)
        <5>. HIDE DEF branch
        <5>1. k \in 0 .. 6
          OBVIOUS
        <5>. QED BY <4>2, <5>1, NewHolds
      <4>4. Sound(k, branch, ReaderAt(k, branch, New(branch), rev))
        <5>. HIDE DEF branch
        <5>. QED BY <4>2, <4>3 DEF SoundAt
      <4>5. IsResult(y) /\ HoldsAt(k, branch, y.object, TRUE)
        <5>. HIDE DEF branch
        <5>. QED BY <3>1, <4>4, ReaderElim DEF Sound
      <4>. HIDE DEF x, y
      <4>6. IsResult(x) /\ x.object = IF y.ok THEN [idx |-> b, value |-> y.object] ELSE v
        BY <4>1, <4>5 DEF SetUnion, IsResult
      <4>7. CASE ~y.ok
        BY <4>6, <4>7 DEF x
      <4>8. CASE y.ok
        <5>1. UnionHolds(k, t, [idx |-> b, value |-> y.object], TRUE)
          <6>. DEFINE u == [idx |-> b, value |-> y.object]
          <6>1. u.idx = b /\ u.value = y.object /\ u = [idx |-> u.idx, value |-> u.value]
            OBVIOUS
          <6>2. HoldsAt(k, t.branches[u.idx], u.value, TRUE)
            BY <4>5, <6>1
          <6>3. u.idx \in 0 .. Len(t.branches) /\ u.idx # 0
            BY <3>1, <4>2, <6>1
          <6>. HIDE DEF u
          <6>4. UnionHolds(k, t, u, TRUE)
            BY <6>1, <6>2, <6>3 DEF UnionHolds
          <6>. QED BY <6>4 DEF u
        <5>. QED BY <4>6, <4>8, <5>1 DEF x
      <4>. QED BY <4>7, <4>8
    <3>. QED BY <3>2, <3>3, <3>4
  <2>. QED BY <2>1, <2>2
<1>2. r = [ts \in Tokens |-> r[ts]]
  BY DEF UnionReader
<1>. HIDE DEF r
<1>3. IsReader(r)
  BY <1>1, <1>2, ReaderIntro
<1>. QED BY <1>1, <1>3 DEF r

LEMMA SoundObjects ==
    ASSUME NEW k, NEW t, NEW r, Sound(k, t, r), NEW o \in Objects(r)
    PROVE  HoldsAt(k, t, o, TRUE)
<1>1. PICK ts \in Tokens : o = r[ts].object
  BY DEF Objects
<1>. QED BY <1>1 DEF Sound

LEMMA ItemReadersAre ==
    ASSUME NEW k \in 0 .. 5, NEW t, VectorParts(k, t), NEW rev \in BOOLEAN, SoundAt(k),
           NEW m \in Nat
    PROVE  /\ Readers(m, ItemReaders(k, t, rev, m))
           /\ \A i \in 1 .. m : Sound(k, t.item, ItemReaders(k, t, rev, m)[i])
<1>. DEFINE item == t.item
            r == ReaderAt(k, item, New(item), rev)
<1>1. item \in UpTo(k) /\ Buildable(item) /\ k \in 0 .. 6
  BY DEF VectorParts
<1>2. HoldsAt(k, item, New(item), TRUE)
  <2>. HIDE DEF item
  <2>. QED BY <1>1, NewHolds
<1>3. Sound(k, item, r)
  <2>. HIDE DEF item
  <2>. QED BY <1>1, <1>2 DEF SoundAt
<1>4. ItemReaders(k, t, rev, m) = [i \in 1 .. m |-> r]
  BY DEF ItemReaders
<1>. HIDE DEF r, item
<1>5. \A i \in 1 .. m : ItemReaders(k, t, rev, m)[i] = r
  BY <1>4
<1>6. Readers(m, ItemReaders(k, t, rev, m))
  BY <1>3, <1>4, <1>5 DEF Readers, Sound
<1>. QED BY <1>3, <1>5, <1>6 DEF item

LEMMA SoundVector ==
    ASSUME NEW k \in 0 .. 5, NEW t, VectorParts(k, t), NEW rev \in BOOLEAN, SoundAt(k)
    PROVE  /\ IsReader(VectorReader(k, t, rev))
           /\ \A ts \in Tokens : VectorHolds(k, t, VectorReader(k, t, rev)[ts].object, TRUE)
<1>. DEFINE r == VectorReader(k, t, rev)
<1>1. ASSUME NEW ts \in Tokens PROVE IsResult(r[ts]) /\ VectorHolds(k, t, r[ts].object, TRUE)
  <2>. DEFINE x == r[ts]
              m == Head(ts).of
              readers == ItemReaders(k, t, rev, m)
              a == ReadAll(readers, Tail(ts))
  <2>1. CASE ~NextIs(ts, "number")
    <3>1. x = Thrown(Emptied, ts)
      BY <2>1 DEF VectorReader
    <3>. HIDE DEF x
    <3>2. IsResult(x) /\ x.object = <<>>
      BY <3>1, OneResult DEF Emptied
    <3>3. VectorHolds(k, t, x.object, TRUE)
      BY <3>2 DEF VectorHolds
    <3>. QED BY <3>2, <3>3 DEF x
  <2>2. CASE NextIs(ts, "number")
    <3>1. m \in Nat /\ Tail(ts) \in Tokens
      BY <2>2, NextToken
    <3>2. x = SetVector(a)
      BY <2>2 DEF VectorReader
    <3>. HIDE DEF m
    <3>3. Readers(m, readers) /\ \A i \in 1 .. m : Sound(k, t.item, readers[i])
      BY <3>1, ItemReadersAre
    <3>. HIDE DEF readers
    <3>4. /\ a.ok \in BOOLEAN /\ a.rest \in Tokens
          /\ a.objects \in Seq({a.objects[i] : i \in DOMAIN a.objects})
          /\ Len(a.objects) \in 0 .. m
          /\ ~a.ok => Len(a.objects) # 0
          /\ \A i \in 1 .. Len(a.objects) : a.objects[i] \in Objects(readers[i])
      BY <3>1, <3>3, ReadAllObjects
    <3>. HIDE DEF a, x
    <3>5. \A i \in 1 .. Len(a.objects) : HoldsAt(k, t.item, a.objects[i], TRUE)
      <4>. TAKE i \in 1 .. Len(a.objects)
      <4>1. i \in 1 .. m
        BY <3>1, <3>4
      <4>2. Sound(k, t.item, readers[i]) /\ a.objects[i] \in Objects(readers[i])
        BY <3>3, <3>4, <4>1
      <4>. QED BY <4>2, SoundObjects
    <3>6. IsResult(x) /\ x.object = IF a.ok THEN a.objects ELSE Front(a.objects)
      BY <3>2, <3>4 DEF SetVector, IsResult
    <3>7. VectorHolds(k, t, x.object, TRUE)
      <4>. DEFINE s == a.objects
                  o == x.object
                  S == {s[i] : i \in DOMAIN s}
      <4>1. s \in Seq(S) /\ Len(s) \in Nat
        BY <3>4
      <4>2. \A i \in 1 .. Len(s) : HoldsAt(k, t.item, s[i], TRUE)
        BY <3>5
      <4>3. (o = s) \/ (Len(s) # 0 /\ o = Front(s))
        BY <3>4, <3>6
      <4>. HIDE DEF s, o, S
      <4>4. /\ o \in Seq(S) /\ Len(o) \in Nat /\ Len(o) <= Len(s)
            /\ \A i \in 1 .. Len(o) : o[i] = s[i]
        BY <4>1, <4>3, FrontIs
      <4>5. /\ DOMAIN o = 1 .. Len(o)
            /\ o \in Seq({o[i] : i \in DOMAIN o})
        BY <4>4, LenProperties
      <4>6. \A i \in DOMAIN o : HoldsAt(k, t.item, o[i], TRUE)
        <5>. TAKE i \in DOMAIN o
        <5>1. i \in 1 .. Len(o) /\ i \in 1 .. Len(s)
          BY <4>1, <4>4, <4>5
        <5>2. o[i] = s[i] /\ HoldsAt(k, t.item, s[i], TRUE)
          BY <4>2, <4>4, <5>1
        <5>. QED BY <5>2
      <4>7. VectorHolds(k, t, o, TRUE)
        BY <4>5, <4>6 DEF VectorHolds
      <4>. QED BY <4>7 DEF o
    <3>. QED BY <3>6, <3>7 DEF x
  <2>. QED BY <2>1, <2>2
<1>2. r = [ts \in Tokens |-> r[ts]]
  BY DEF VectorReader
<1>. HIDE DEF r
<1>3. IsReader(r)
  BY <1>1, <1>2, ReaderIntro
<1>. QED BY <1>1, <1>3 DEF r

LEMMA FieldReadersAre ==
    ASSUME NEW k \in 0 .. 5, NEW t, NEW order, Fields(k, t, order),
           NEW v, RecordHolds(k, t, v, TRUE), NEW rev \in BOOLEAN, SoundAt(k)
    PROVE  /\ Readers(Len(order), FieldReaders(k, order, v, rev))
           /\ \A i \in 1 .. Len(order) : Sound(k, order[i].type, FieldReaders(k, order, v, rev)[i])
<1>. DEFINE m == Len(order)
            readers == FieldReaders(k, order, v, rev)
<1>1. \A i \in 1 .. m : Sound(k, order[i].type, readers[i])
  <2>. TAKE i \in 1 .. m
  <2>. DEFINE ty == order[i].type
              u == v[order[i].name]
  <2>1. ty \in UpTo(k) /\ order[i].name \in Names(t) /\ ty = TypeOf(t, order[i].name)
    BY DEF Fields
  <2>2. HoldsAt(k, ty, u, TRUE)
    BY <2>1 DEF RecordHolds
  <2>3. readers[i] = ReaderAt(k, ty, u, rev)
    BY DEF FieldReaders
  <2>. HIDE DEF ty, u, readers
  <2>4. Sound(k, ty, readers[i])
    BY <2>1, <2>2, <2>3 DEF SoundAt
  <2>. QED BY <2>4 DEF ty
<1>2. readers = [i \in 1 .. m |-> readers[i]]
  BY DEF FieldReaders
<1>. HIDE DEF readers, m
<1>3. Readers(m, readers)
  BY <1>1, <1>2 DEF Readers, Sound
<1>. QED BY <1>1, <1>3 DEF readers, m

LEMMA SoundRecord ==
    ASSUME NEW k \in 0 .. 5, NEW t, NEW order, Fields(k, t, order),
           NEW v, RecordHolds(k, t, v, TRUE), NEW rev \in BOOLEAN, SoundAt(k)
    PROVE  /\ IsReader(RecordReader(k, order, v, rev))
           /\ \A ts \in Tokens : RecordHolds(k, t, RecordReader(k, order, v, rev)[ts].object, TRUE)
<1>. DEFINE r == RecordReader(k, order, v, rev)
            m == Len(order)
            readers == FieldReaders(k, order, v, rev)
<1>1. /\ m \in Nat /\ Readers(m, readers)
      /\ \A i \in 1 .. m : Sound(k, order[i].type, readers[i])
  BY FieldReadersAre DEF Fields
<1>2. ASSUME NEW ts \in Tokens PROVE IsResult(r[ts]) /\ RecordHolds(k, t, r[ts].object, TRUE)
  <2>. DEFINE x == r[ts]
              a == ReadAll(readers, ts)
  <2>1. x = SetFields(v, order, a)
    BY DEF RecordReader
  <2>. HIDE DEF readers, m
  <2>2. /\ a.ok \in BOOLEAN /\ a.rest \in Tokens
        /\ a.objects \in Seq({a.objects[i] : i \in DOMAIN a.objects})
        /\ Len(a.objects) \in 0 .. m
        /\ \A i \in 1 .. Len(a.objects) : a.objects[i] \in Objects(readers[i])
    BY <1>1, ReadAllObjects
  <2>. HIDE DEF a, x
  <2>3. DOMAIN a.objects = 1 .. Len(a.objects)
    BY <2>2, LenProperties
  <2>4. \A i \in 1 .. Len(a.objects) : HoldsAt(k, order[i].type, a.objects[i], TRUE)
    <3>. TAKE i \in 1 .. Len(a.objects)
    <3>1. i \in 1 .. m
      BY <1>1, <2>2
    <3>2. Sound(k, order[i].type, readers[i]) /\ a.objects[i] \in Objects(readers[i])
      BY <1>1, <2>2, <3>1
    <3>. QED BY <3>2, SoundObjects
  <2>5. /\ IsResult(x)
        /\ x.object = [n \in DOMAIN v |->
             IF \E i \in DOMAIN a.objects : order[i].name = n
             THEN a.objects[CHOOSE i \in DOMAIN a.objects : order[i].name = n]
             ELSE v[n]]
    BY <2>1, <2>2 DEF SetFields, IsResult
  <2>6. DOMAIN v = Names(t) /\ \A f \in Names(t) : HoldsAt(k, TypeOf(t, f), v[f], TRUE)
    BY DEF RecordHolds
  <2>. DEFINE o == x.object
  <2>7. ASSUME NEW f \in Names(t) PROVE HoldsAt(k, TypeOf(t, f), o[f], TRUE)
    <3>1. CASE \E i \in DOMAIN a.objects : order[i].name = f
      <4>1. PICK i \in DOMAIN a.objects : order[i].name = f /\ o[f] = a.objects[i]
        BY <2>5, <2>6, <3>1
      <4>2. i \in 1 .. Len(a.objects) /\ i \in 1 .. m
        BY <1>1, <2>2, <2>3
      <4>4. HoldsAt(k, order[i].type, a.objects[i], TRUE)
        BY <2>4, <4>2
      <4>3. order[i].type = TypeOf(t, f)
        BY <4>1, <4>2 DEF Fields, m
      <4>. QED BY <4>1, <4>3, <4>4
    <3>2. CASE ~(\E i \in DOMAIN a.objects : order[i].name = f)
      <4>1. o[f] = v[f]
        BY <2>5, <2>6, <3>2
      <4>. QED BY <2>6, <4>1
    <3>. QED BY <3>1, <3>2
  <2>8. o = [f \in Names(t) |-> o[f]]
    BY <2>5, <2>6
  <2>. HIDE DEF o
  <2>9. RecordHolds(k, t, o, TRUE)
    BY <2>7, <2>8 DEF RecordHolds
  <2>. QED BY <2>5, <2>9 DEF o, x
<1>3. r = [ts \in Tokens |-> r[ts]]
  BY DEF RecordReader
<1>. HIDE DEF r
<1>4. IsReader(r)
  BY <1>2, <1>3, ReaderIntro
<1>. QED BY <1>2, <1>4 DEF r

LEMMA SoundStep ==
    ASSUME NEW n \in 1 .. 6, SoundAt(n - 1)
    PROVE  SoundAt(n)
<1>. SUFFICES ASSUME NEW t \in UpTo(n), NEW v, NEW rev \in BOOLEAN, HoldsAt(n, t, v, TRUE)
              PROVE  Sound(n, t, ReaderAt(n, t, v, rev))
  BY DEF SoundAt
<1>1. n \in 0 .. 6 /\ n - 1 \in 0 .. 5
  OBVIOUS
<1>2. CASE IsLeaf(t) /\ t \in Leaves
  BY <1>1, <1>2, SoundLeaf
<1>3. CASE IsUnion(t) /\ UnionParts(n - 1, t)
  <2>1. UnionHolds(n - 1, t, v, TRUE) /\ ReaderAt(n, t, v, rev) = UnionReader(n - 1, t, v, rev)
    BY <1>3, HoldsUnion, ReaderUnion
  <2>2. /\ IsReader(UnionReader(n - 1, t, v, rev))
        /\ \A ts \in Tokens : UnionHolds(n - 1, t, UnionReader(n - 1, t, v, rev)[ts].object, TRUE)
    BY <1>1, <1>3, <2>1, SoundUnion
  <2>3. \A ts \in Tokens : HoldsAt(n, t, UnionReader(n - 1, t, v, rev)[ts].object, TRUE)
    BY <1>3, <2>2, HoldsUnion
  <2>. QED BY <2>1, <2>2, <2>3 DEF Sound
<1>4. CASE IsVector(t) /\ VectorParts(n - 1, t)
  <2>1. ReaderAt(n, t, v, rev) = VectorReader(n - 1, t, rev)
    BY <1>4, ReaderVector
  <2>2. /\ IsReader(VectorReader(n - 1, t, rev))
        /\ \A ts \in Tokens : VectorHolds(n - 1, t, VectorReader(n - 1, t, rev)[ts].object, TRUE)
    BY <1>1, <1>4, SoundVector
  <2>3. \A ts \in Tokens : HoldsAt(n, t, VectorReader(n - 1, t, rev)[ts].object, TRUE)
    BY <1>4, <2>2, HoldsVector
  <2>. QED BY <2>1, <2>2, <2>3 DEF Sound
<1>5. CASE IsRecord(t) /\ RecordParts(n - 1, t)
  <2>. DEFINE order == FieldOrder(t, rev)
  <2>1. /\ RecordHolds(n - 1, t, v, TRUE)
        /\ ReaderAt(n, t, v, rev) = RecordReader(n - 1, order, v, rev)
    BY <1>5, HoldsRecord, ReaderRecord
  <2>2. Fields(n - 1, t, order)
    BY <1>5, RecordFields
  <2>. HIDE DEF order
  <2>3. /\ IsReader(RecordReader(n - 1, order, v, rev))
        /\ \A ts \in Tokens :
              RecordHolds(n - 1, t, RecordReader(n - 1, order, v, rev)[ts].object, TRUE)
    BY <1>1, <2>1, <2>2, SoundRecord
  <2>4. \A ts \in Tokens : HoldsAt(n, t, RecordReader(n - 1, order, v, rev)[ts].object, TRUE)
    BY <1>5, <2>3, HoldsRecord
  <2>. QED BY <2>1, <2>3, <2>4 DEF Sound
<1>. QED BY <1>1, <1>2, <1>3, <1>4, <1>5, TypeParts

LEMMA SoundEverywhere == \A n \in 0 .. 6 : SoundAt(n)
<1>. DEFINE P == {n \in 0 .. 6 : SoundAt(n)}
<1>1. 0 \in P
  <2>1. SoundAt(0)
    <3>. SUFFICES ASSUME NEW t \in UpTo(0), NEW v, NEW rev \in BOOLEAN, HoldsAt(0, t, v, TRUE)
                  PROVE  Sound(0, t, ReaderAt(0, t, v, rev))
      BY DEF SoundAt
    <3>1. 0 \in 0 .. 6 /\ ~(0 \in 1 .. 6)
      OBVIOUS
    <3>2. IsLeaf(t) /\ t \in Leaves
      BY <3>1, TypeParts
    <3>. QED BY <3>1, <3>2, SoundLeaf
  <2>. QED BY <2>1
<1>2. ASSUME NEW n \in 1 .. 6, n - 1 \in P PROVE n \in P
  BY <1>2, SoundStep
<1>3. \A n \in 0 .. 6 : n \in P
  <2>. HIDE DEF P
  <2>. QED BY <1>1, <1>2, SetInduction
<1>. QED BY <1>3

-----------------------------------------------------------------------------
(* A reader is faithful: it reads what was written, and of what was refused, *)
(* is out of bounds or was cut short it reads nothing to the end.            *)

LEMMA OneToken ==
    ASSUME NEW tok \in Token
    PROVE  <<tok>> \in Tokens /\ Wrote(<<tok>>) \in Part
BY DEF Tokens, Wrote, Part

LEMMA FirstToken ==
    ASSUME NEW tok \in Token, NEW ts \in Tokens, Comparable(ts, Wrote(<<tok>>))
    PROVE  \/ ts = <<>>
           \/ ts # <<>> /\ Head(ts) = tok /\ Tail(ts) \in Tokens /\ ts = <<tok>> \o Tail(ts)
<1>1. ASSUME NEW x \in Tokens, ts = <<tok>> \o x
      PROVE  ts # <<>> /\ Head(ts) = tok /\ Tail(ts) \in Tokens /\ ts = <<tok>> \o Tail(ts)
  <2>1. <<tok>> \in Seq(Token) /\ x \in Seq(Token) /\ Len(<<tok>>) = 1 /\ Len(x) \in Nat
    BY LenProperties DEF Tokens
  <2>2. /\ Len(ts) = 1 + Len(x) /\ ts[1] = tok /\ ts \in Seq(Token)
        /\ \A i \in 1 .. Len(x) : ts[i + 1] = x[i]
    BY <1>1, <2>1, ConcatProperties
  <2>3. ts # <<>>
    BY <2>1, <2>2
  <2>4. /\ Tail(ts) \in Seq(Token) /\ Len(Tail(ts)) = Len(x)
        /\ \A i \in 1 .. Len(x) : Tail(ts)[i] = x[i]
    BY <2>1, <2>2, <2>3, HeadTailProperties
  <2>5. Tail(ts) = x
    BY <2>1, <2>4, SeqEqual
  <2>6. Head(ts) = tok
    BY <2>2, <2>3
  <2>. QED BY <1>1, <2>3, <2>5, <2>6
<1>2. CASE Begins(<<tok>>, ts)
  BY <1>1, <1>2 DEF Begins
<1>3. CASE Begins(ts, <<tok>>)
  <2>1. PICK x \in Tokens : <<tok>> = ts \o x
    BY <1>3 DEF Begins
  <2>2. CASE x = <<>>
    <3>1. ts = <<tok>> \o <<>>
      BY <2>1, <2>2, TokensConcat
    <3>2. <<>> \in Tokens
      BY TokensConcat
    <3>. QED BY <1>1, <3>1, <3>2
  <2>3. CASE x # <<>>
    <3>1. /\ Len(ts) \in Nat /\ Len(x) \in Nat /\ Len(x) # 0
          /\ Len(ts \o x) = Len(ts) + Len(x) /\ Len(<<tok>>) = 1
      BY <2>3, LenProperties, EmptySeq, ConcatProperties DEF Tokens
    <3>2. Len(ts) = 0
      BY <2>1, <3>1
    <3>. QED BY <3>2, EmptySeq DEF Tokens
  <2>. QED BY <2>2, <2>3
<1>4. Wrote(<<tok>>).tokens = <<tok>>
  BY DEF Wrote
<1>. QED BY <1>2, <1>3, <1>4 DEF Comparable

LEMMA TokenThen ==
    ASSUME NEW tok \in Token, NEW body \in Part, NEW ts \in Tokens,
           Comparable(ts, Then(Wrote(<<tok>>), body))
    PROVE  \/ /\ ts = <<>>
              /\ \A rest, good : Agrees(FALSE, rest, Then(Wrote(<<tok>>), body), good, ts)
           \/ /\ ts # <<>> /\ Head(ts) = tok /\ Tail(ts) \in Tokens
              /\ Comparable(Tail(ts), body)
              /\ \A ok \in BOOLEAN, rest \in Tokens, good \in BOOLEAN :
                    Agrees(ok, rest, body, good, Tail(ts))
                      => Agrees(ok, rest, Then(Wrote(<<tok>>), body), good, ts)
<1>. DEFINE p == Wrote(<<tok>>)
            e == Then(p, body)
<1>1. <<tok>> \in Tokens /\ p \in Part /\ p.ok /\ p.tokens = <<tok>>
  BY OneToken DEF Wrote
<1>2. body.tokens \in Tokens /\ body.ok \in BOOLEAN
  BY DEF Part
<1>3. e.ok = body.ok /\ e.tokens = <<tok>> \o body.tokens
  BY <1>1 DEF Then
<1>4. Comparable(ts, Then(p, body)) /\ Comparable(ts, p)
  <2>1. Comparable(ts, Then(p, body))
    OBVIOUS
  <2>. HIDE DEF p
  <2>. QED BY <1>1, <2>1, ThenFirst
<1>. HIDE DEF p
<1>5. CASE ts = <<>>
  <2>1. ~Begins(e.tokens, ts)
    <3>. SUFFICES ASSUME NEW x \in Tokens, <<>> = e.tokens \o x PROVE FALSE
      BY <1>5 DEF Begins
    <3>1. e.tokens \in Tokens
      BY <1>1, <1>2, <1>3, TokensConcat
    <3>2. e.tokens = <<>>
      BY <3>1, TokensCancel
    <3>3. <<tok>> = <<>>
      BY <1>1, <1>2, <1>3, <3>2, TokensCancel
    <3>. QED BY <3>3
  <2>. QED BY <1>5, <2>1 DEF Agrees, p
<1>6. CASE ts # <<>>
  <2>1. Head(ts) = tok /\ Tail(ts) \in Tokens /\ ts = <<tok>> \o Tail(ts)
    BY <1>4, <1>6, FirstToken DEF p
  <2>. DEFINE u == Tail(ts)
  <2>. HIDE DEF u
  <2>2. u \in Tokens /\ ts = p.tokens \o u
    BY <1>1, <2>1 DEF u
  <2>3. Comparable(u, body)
    BY <1>1, <1>4, <2>2, ThenSecond
  <2>4. Agrees(TRUE, u, p, TRUE, ts)
    BY <1>1, <2>2 DEF Agrees
  <2>5. ASSUME NEW ok \in BOOLEAN, NEW rest \in Tokens, NEW good \in BOOLEAN,
               Agrees(ok, rest, body, good, u)
        PROVE  Agrees(ok, rest, e, good, ts)
    <3>1. PICK yes \in BOOLEAN : yes
      OBVIOUS
    <3>2. Agrees(yes, u, p, yes, ts)
      BY <2>4, <3>1
    <3>3. good <=> yes /\ good
      BY <3>1
    <3>4. Agrees(ok, rest, Then(p, body), good, ts)
      <4>1. p \in Part /\ u \in Tokens
        BY <1>1, <2>2
      <4>2. ~yes => ~ok
        BY <3>1
      <4>3. yes => Agrees(ok, rest, body, good, u)
        BY <2>5
      <4>. QED BY <3>2, <3>3, <4>1, <4>2, <4>3, ThenAgrees
    <3>. QED BY <3>4
  <2>. QED BY <1>6, <2>1, <2>3, <2>5 DEF u, p
<1>. QED BY <1>5, <1>6

Exact(k, t, w) == IF HoldsAt(k, t, w, TRUE) THEN TRUE ELSE FALSE

FaithfulAt(k) ==
    \A t \in UpTo(k) : \A w : \A v : \A rev \in BOOLEAN :
       HoldsAt(k, t, w, FALSE) /\ HoldsAt(k, t, v, TRUE) =>
          /\ EncodeAt(k, t, w, rev) \in Part
          /\ Faithful(ReaderAt(k, t, v, rev), EncodeAt(k, t, w, rev), w, Exact(k, t, w))

LEMMA SizeOf ==
    ASSUME NEW w \in Ints
    PROVE  /\ w % Width \in Nat
           /\ w >= 0 => w % Width = w
           /\ w < 0 => w % Width > MaxInt
<1>1. /\ MaxInt \in Nat /\ Width \in Nat /\ Width > 2 * MaxInt + 1
      /\ w \in Int /\ -MaxInt - 1 <= w /\ w <= MaxInt
  BY AvroAssumption DEF Ints
<1>. QED BY <1>1

LEMMA TokenAlone ==
    ASSUME NEW tok \in Token, NEW ts \in Tokens, Comparable(ts, Wrote(<<tok>>))
    PROVE  \/ ts = <<>> /\ \A rest, good : Agrees(FALSE, rest, Wrote(<<tok>>), good, ts)
           \/ /\ ts # <<>> /\ Head(ts) = tok /\ Tail(ts) \in Tokens
              /\ Agrees(TRUE, Tail(ts), Wrote(<<tok>>), TRUE, ts)
<1>1. Wrote(<<>>) \in Part /\ Then(Wrote(<<tok>>), Wrote(<<>>)) = Wrote(<<tok>>)
  <2>1. <<tok>> \in Tokens /\ <<tok>> \o <<>> = <<tok>>
    BY OneToken, TokensConcat
  <2>. QED BY <2>1, TokensConcat DEF Wrote, Then, Part
<1>2. ASSUME NEW u \in Tokens PROVE Agrees(TRUE, u, Wrote(<<>>), TRUE, u)
  BY TokensConcat DEF Agrees, Wrote
<1>3. \/ /\ ts = <<>>
         /\ \A rest, good : Agrees(FALSE, rest, Wrote(<<tok>>), good, ts)
      \/ /\ ts # <<>> /\ Head(ts) = tok /\ Tail(ts) \in Tokens
         /\ \A ok \in BOOLEAN, rest \in Tokens, good \in BOOLEAN :
               Agrees(ok, rest, Wrote(<<>>), good, Tail(ts))
                 => Agrees(ok, rest, Wrote(<<tok>>), good, ts)
  <2>. DEFINE body == Wrote(<<>>)
              e == Wrote(<<tok>>)
  <2>1. Then(e, body) = e /\ body \in Part /\ Comparable(ts, Then(Wrote(<<tok>>), body))
    BY <1>1
  <2>. HIDE DEF body
  <2>2. \/ /\ ts = <<>>
           /\ \A rest, good : Agrees(FALSE, rest, Then(e, body), good, ts)
        \/ /\ ts # <<>> /\ Head(ts) = tok /\ Tail(ts) \in Tokens
           /\ \A ok \in BOOLEAN, rest \in Tokens, good \in BOOLEAN :
                 Agrees(ok, rest, body, good, Tail(ts)) => Agrees(ok, rest, Then(e, body), good, ts)
    BY <2>1, TokenThen
  <2>. QED BY <2>1, <2>2 DEF body
<1>. QED BY <1>2, <1>3

LEMMA RefusedIs ==
    /\ Refused \in Part /\ ~Refused.ok
    /\ \A ts \in Tokens : Comparable(ts, Refused) => ts = <<>>
<1>1. Refused \in Part /\ ~Refused.ok /\ Refused.tokens = <<>>
  BY TokensConcat DEF Refused, Part
<1>2. ASSUME NEW ts \in Tokens, Comparable(ts, Refused) PROVE ts = <<>>
  <2>1. PICK x \in Tokens : <<>> = ts \o x
    BY <1>1, <1>2 DEF Comparable, Begins
  <2>. QED BY <2>1, TokensCancel
<1>. QED BY <1>1, <1>2

EnumReads(t, v, ts) ==
    IF ~NextIs(ts, "number") THEN Thrown(v, ts)
    ELSE IF ~(Head(ts).of <= t.last) THEN Thrown(v, Tail(ts))
    ELSE Decoded(Head(ts).of, Tail(ts))

AtomReads(v, ts) ==
    IF NextIs(ts, "bytes") THEN Decoded(Head(ts).of, Tail(ts)) ELSE Thrown(v, ts)

LEMMA LeafReads ==
    ASSUME NEW n \in 0 .. 6, NEW t, IsLeaf(t), NEW v, NEW rev \in BOOLEAN, NEW ts \in Tokens
    PROVE  /\ t.kind = "enum" => ReaderAt(n, t, v, rev)[ts] = EnumReads(t, v, ts)
           /\ t.kind = "atom" => ReaderAt(n, t, v, rev)[ts] = AtomReads(v, ts)
<1>1. ReaderAt(n, t, v, rev) = LeafReader(t, v, rev)
  <2>1. TRUE \in BOOLEAN
    OBVIOUS
  <2>. QED BY <2>1, Leaf
<1>2. LeafReader(t, v, rev)[ts] = Reader0(t, v, rev)[ts]
  BY DEF LeafReader
<1>3. t.kind = "enum" => Reader0(t, v, rev)[ts] = EnumReads(t, v, ts)
  BY DEF Reader0, Tokens, EnumDecodes, EnumReads
<1>4. t.kind = "atom" => Reader0(t, v, rev)[ts] = AtomReads(v, ts)
  BY DEF Reader0, Tokens, AtomReads
<1>. QED BY <1>1, <1>2, <1>3, <1>4

LEMMA EnumFaithful ==
    ASSUME NEW n \in 0 .. 6, NEW t \in Leaves, IsLeaf(t), t.kind = "enum",
           NEW w, NEW v, NEW rev \in BOOLEAN, HoldsAt(n, t, w, FALSE)
    PROVE  /\ EncodeAt(n, t, w, rev) \in Part
           /\ Faithful(ReaderAt(n, t, v, rev), EncodeAt(n, t, w, rev), w, Exact(n, t, w))
<1>. DEFINE r == ReaderAt(n, t, v, rev)
            e == EncodeAt(n, t, w, rev)
            good == Exact(n, t, w)
            q == w % Width
<1>1. t.last \in 0 .. 10 /\ t.lower \in BOOLEAN
  BY DEF Leaves, Atom
<1>2. FALSE \in BOOLEAN /\ TRUE \in BOOLEAN
  OBVIOUS
<1>3. /\ Holds0(t, w, FALSE) /\ (HoldsAt(n, t, w, TRUE) <=> Holds0(t, w, TRUE))
      /\ e = Encode0(t, w, rev)
  BY <1>2, Leaf
<1>4. w \in Ints /\ (good <=> w \in 0 .. t.last) /\ good \in BOOLEAN
  BY <1>3 DEF Holds0, Exact
<1>5. e = IF w <= t.last /\ (t.lower => w >= 0) THEN Wrote(<<Number(q)>>) ELSE Refused
  BY <1>3 DEF Encode0, EnumEncodes
<1>6. /\ w \in Int /\ q \in Nat /\ (w >= 0 => q = w) /\ (w < 0 => q > MaxInt)
      /\ MaxInt \in Nat /\ MaxInt >= 10
  BY <1>4, SizeOf, AvroAssumption DEF Ints
<1>7. \A ts \in Tokens : r[ts] = EnumReads(t, v, ts)
  BY LeafReads
<1>. HIDE DEF r, e, good, q
<1>8. CASE w <= t.last /\ (t.lower => w >= 0)
  <2>. DEFINE tok == Number(q)
  <2>1. tok \in Token /\ tok.token = "number" /\ tok.of = q
    BY <1>6 DEF Number, Token
  <2>2. e = Wrote(<<tok>>)
    BY <1>5, <1>8
  <2>. HIDE DEF tok
  <2>3. e \in Part
    BY <2>1, <2>2, OneToken
  <2>4. ASSUME NEW ts \in Tokens, Comparable(ts, e)
        PROVE  Agrees(r[ts].ok, r[ts].rest, e, good, ts) /\ (r[ts].ok => r[ts].object = w)
    <3>. DEFINE x == r[ts]
    <3>1. x = EnumReads(t, v, ts)
      BY <1>7
    <3>. HIDE DEF x
    <3>2. \/ ts = <<>> /\ \A rest, g : Agrees(FALSE, rest, e, g, ts)
          \/ /\ ts # <<>> /\ Head(ts) = tok /\ Tail(ts) \in Tokens
             /\ Agrees(TRUE, Tail(ts), e, TRUE, ts)
      BY <2>1, <2>2, <2>4, TokenAlone
    <3>3. CASE ts = <<>> /\ \A rest, g : Agrees(FALSE, rest, e, g, ts)
      <4>1. ~x.ok
        BY <3>1, <3>3 DEF EnumReads, NextIs, Thrown
      <4>. QED BY <3>3, <4>1 DEF Agrees, x
    <3>4. CASE /\ ts # <<>> /\ Head(ts) = tok /\ Tail(ts) \in Tokens
               /\ Agrees(TRUE, Tail(ts), e, TRUE, ts)
      <4>1. NextIs(ts, "number") /\ Head(ts).of = q
        BY <2>1, <3>4 DEF NextIs
      <4>2. CASE q <= t.last
        <5>1. good /\ q = w
          BY <1>1, <1>4, <1>6, <4>2
        <5>2. x = Decoded(q, Tail(ts))
          BY <3>1, <4>1, <4>2 DEF EnumReads
        <5>3. x.ok /\ x.object = w /\ x.rest = Tail(ts)
          BY <5>1, <5>2 DEF Decoded
        <5>. QED BY <3>4, <5>1, <5>3 DEF Agrees, x
      <4>3. CASE ~(q <= t.last)
        <5>1. ~good
          BY <1>1, <1>4, <1>6, <4>3
        <5>2. x = Thrown(v, Tail(ts))
          BY <3>1, <4>1, <4>3 DEF EnumReads
        <5>3. ~x.ok
          BY <5>2 DEF Thrown
        <5>. QED BY <5>1, <5>3 DEF Agrees, x
      <4>. QED BY <4>2, <4>3
    <3>. QED BY <3>2, <3>3, <3>4
  <2>. QED BY <2>3, <2>4 DEF Faithful, r, e, good
<1>9. CASE ~(w <= t.last /\ (t.lower => w >= 0))
  <2>1. e = Refused
    BY <1>5, <1>9
  <2>2. ASSUME NEW ts \in Tokens, Comparable(ts, e)
        PROVE  Agrees(r[ts].ok, r[ts].rest, e, good, ts) /\ (r[ts].ok => r[ts].object = w)
    <3>. DEFINE x == r[ts]
    <3>1. x = EnumReads(t, v, ts) /\ ts = <<>> /\ ~e.ok
      BY <1>7, <2>1, <2>2, RefusedIs
    <3>. HIDE DEF x
    <3>2. ~x.ok
      BY <3>1 DEF EnumReads, NextIs, Thrown
    <3>. QED BY <3>1, <3>2 DEF Agrees, x
  <2>. QED BY <2>1, <2>2, RefusedIs DEF Faithful, r, e, good
<1>. QED BY <1>8, <1>9

LEMMA AtomFaithful ==
    ASSUME NEW n \in 0 .. 6, NEW t \in Leaves, IsLeaf(t), t.kind = "atom",
           NEW w, NEW v, NEW rev \in BOOLEAN, HoldsAt(n, t, w, FALSE)
    PROVE  /\ EncodeAt(n, t, w, rev) \in Part
           /\ Faithful(ReaderAt(n, t, v, rev), EncodeAt(n, t, w, rev), w, Exact(n, t, w))
<1>. DEFINE r == ReaderAt(n, t, v, rev)
            e == EncodeAt(n, t, w, rev)
            good == Exact(n, t, w)
            tok == Bytes(w)
<1>1. FALSE \in BOOLEAN /\ TRUE \in BOOLEAN
  OBVIOUS
<1>2. /\ Holds0(t, w, FALSE) /\ (HoldsAt(n, t, w, TRUE) <=> Holds0(t, w, TRUE))
      /\ e = Encode0(t, w, rev)
  BY <1>1, Leaf
<1>3. w \in Atoms \cup {NoAtom} /\ good
  BY <1>2 DEF Holds0, Exact
<1>4. e = Wrote(<<tok>>)
  BY <1>2 DEF Encode0
<1>5. tok \in Token /\ tok.token = "bytes" /\ tok.of = w
  BY <1>3 DEF Bytes, Token
<1>6. \A ts \in Tokens : r[ts] = AtomReads(v, ts)
  BY LeafReads
<1>. HIDE DEF r, e, good, tok
<1>7. e \in Part
  BY <1>4, <1>5, OneToken
<1>8. ASSUME NEW ts \in Tokens, Comparable(ts, e)
      PROVE  Agrees(r[ts].ok, r[ts].rest, e, good, ts) /\ (r[ts].ok => r[ts].object = w)
  <2>. DEFINE x == r[ts]
  <2>1. x = AtomReads(v, ts)
    BY <1>6
  <2>. HIDE DEF x
  <2>2. \/ ts = <<>> /\ \A rest, g : Agrees(FALSE, rest, e, g, ts)
        \/ /\ ts # <<>> /\ Head(ts) = tok /\ Tail(ts) \in Tokens
           /\ Agrees(TRUE, Tail(ts), e, TRUE, ts)
    BY <1>4, <1>5, <1>8, TokenAlone
  <2>3. CASE ts = <<>> /\ \A rest, g : Agrees(FALSE, rest, e, g, ts)
    <3>1. ~x.ok
      BY <2>1, <2>3 DEF AtomReads, NextIs, Thrown
    <3>. QED BY <2>3, <3>1 DEF Agrees, x
  <2>4. CASE /\ ts # <<>> /\ Head(ts) = tok /\ Tail(ts) \in Tokens
             /\ Agrees(TRUE, Tail(ts), e, TRUE, ts)
    <3>1. x = Decoded(w, Tail(ts))
      BY <1>5, <2>1, <2>4 DEF AtomReads, NextIs
    <3>2. x.ok /\ x.object = w /\ x.rest = Tail(ts)
      BY <3>1 DEF Decoded
    <3>. QED BY <1>3, <2>4, <3>2 DEF Agrees, x
  <2>. QED BY <2>2, <2>3, <2>4
<1>. QED BY <1>7, <1>8 DEF Faithful, r, e, good

\* A formula as a Boolean.
Good(P) == IF P THEN TRUE ELSE FALSE

\* What is left of a message that begins with a token.
Begun(ts, tok, body, e) ==
    \/ ts = <<>> /\ \A rest, g : Agrees(FALSE, rest, e, g, ts)
    \/ /\ ts # <<>> /\ Head(ts) = tok /\ Tail(ts) \in Tokens /\ Comparable(Tail(ts), body)
       /\ \A ok \in BOOLEAN, rest \in Tokens, g \in BOOLEAN :
             Agrees(ok, rest, body, g, Tail(ts)) => Agrees(ok, rest, e, g, ts)

LEMMA BegunIs ==
    ASSUME NEW tok \in Token, NEW body \in Part, NEW e, e = Then(Wrote(<<tok>>), body),
           NEW ts \in Tokens, Comparable(ts, e)
    PROVE  Begun(ts, tok, body, e)
<1>1. ASSUME Comparable(ts, Then(Wrote(<<tok>>), body))
      PROVE  Begun(ts, tok, body, Then(Wrote(<<tok>>), body))
  BY <1>1, TokenThen DEF Begun
<1>. QED BY <1>1, Zenon

LEMMA UnionFaithful ==
    ASSUME NEW k \in 0 .. 5, NEW t, UnionParts(k, t), NEW w, UnionHolds(k, t, w, FALSE),
           NEW v, NEW rev \in BOOLEAN, SoundAt(k), FaithfulAt(k),
           NEW e, e = Then(Wrote(<<Number(w.idx)>>), UnionBody(k, t, w, rev))
    PROVE  /\ e \in Part
           /\ Faithful(UnionReader(k, t, v, rev), e, w, Good(UnionHolds(k, t, w, TRUE)))
<1>. DEFINE r == UnionReader(k, t, v, rev)
            good == Good(UnionHolds(k, t, w, TRUE))
            b == w.idx
            tok == Number(b)
            body == UnionBody(k, t, w, rev)
            branch == t.branches[b]
            d == ReaderAt(k, branch, New(branch), rev)
            bgood == IF b = 0 THEN TRUE ELSE Exact(k, branch, w.value)
<1>1. /\ w = [idx |-> b, value |-> w.value] /\ b \in 0 .. Len(t.branches) /\ b \in Nat
      /\ Len(t.branches) \in Nat
      /\ b = 0 => w.value = NoAtom
      /\ b # 0 => HoldsAt(k, branch, w.value, FALSE)
  <2>. HIDE DEF r, good, tok, body, d, bgood
  <2>1. /\ w = [idx |-> b, value |-> w.value]
        /\ b \in 0 .. Len(t.branches)
        /\ IF b = 0 THEN w.value = NoAtom ELSE HoldsAt(k, branch, w.value, FALSE)
    BY DEF UnionHolds
  <2>2. Len(t.branches) \in Nat
    BY DEF UnionParts
  <2>. HIDE DEF b, branch
  <2>3. b \in Nat
    BY <2>1, <2>2
  <2>4. b = 0 => w.value = NoAtom
    BY <2>1
  <2>5. b # 0 => HoldsAt(k, branch, w.value, FALSE)
    BY <2>1
  <2>. QED BY <2>1, <2>2, <2>3, <2>4, <2>5
<1>2. good \in BOOLEAN /\ bgood \in BOOLEAN /\ (good <=> bgood)
  BY <1>1 DEF UnionHolds, Good, Exact
<1>3. tok \in Token /\ tok.token = "number" /\ tok.of = b
  BY <1>1 DEF Number, Token
<1>4. b # 0 => /\ branch \in UpTo(k) /\ Buildable(branch) /\ HoldsAt(k, branch, New(branch), TRUE)
  <2>. SUFFICES ASSUME b # 0
                PROVE  branch \in UpTo(k) /\ Buildable(branch) /\ HoldsAt(k, branch, New(branch), TRUE)
    OBVIOUS
  <2>1. branch \in UpTo(k) /\ Buildable(branch) /\ k \in 0 .. 6
    BY <1>1 DEF UnionParts
  <2>. HIDE DEF branch
  <2>. QED BY <2>1, NewHolds
<1>5. b # 0 => body \in Part /\ Faithful(d, body, w.value, bgood) /\ IsReader(d)
  <2>. SUFFICES ASSUME b # 0 PROVE body \in Part /\ Faithful(d, body, w.value, bgood) /\ IsReader(d)
    OBVIOUS
  <2>1. body = EncodeAt(k, branch, w.value, rev) /\ bgood = Exact(k, branch, w.value)
    BY DEF UnionBody
  <2>. DEFINE u == w.value
  <2>2. HoldsAt(k, branch, u, FALSE)
    BY <1>1
  <2>. HIDE DEF branch, body, bgood, u, b
  <2>3. /\ EncodeAt(k, branch, u, rev) \in Part
        /\ Faithful(d, EncodeAt(k, branch, u, rev), u, Exact(k, branch, u))
    BY <1>4, <2>2 DEF FaithfulAt
  <2>4. Sound(k, branch, d)
    BY <1>4 DEF SoundAt
  <2>. QED BY <2>1, <2>3, <2>4 DEF Sound, u
<1>6. b = 0 => body = Wrote(<<>>) /\ body \in Part
  BY TokensConcat DEF UnionBody, Wrote, Part
<1>7. e = Then(Wrote(<<tok>>), body) /\ e \in Part /\ body \in Part
  <2>1. body \in Part
    BY <1>5, <1>6
  <2>2. e = Then(Wrote(<<tok>>), body)
    OBVIOUS
  <2>. HIDE DEF tok, body
  <2>. QED BY <1>3, <2>1, <2>2, OneToken, ThenIsPart
<1>8. ASSUME NEW ts \in Tokens, Comparable(ts, e)
      PROVE  Agrees(r[ts].ok, r[ts].rest, e, good, ts) /\ (r[ts].ok => r[ts].object = w)
  <2>. DEFINE x == r[ts]
              y == d[Tail(ts)]
  <2>1. x = IF ~NextIs(ts, "number") THEN Thrown(v, ts)
            ELSE CASE Head(ts).of = 0 -> Decoded([idx |-> 0, value |-> NoAtom], Tail(ts))
                   [] Head(ts).of > Len(t.branches) -> Thrown(v, Tail(ts))
                   [] OTHER -> SetUnion(v, Head(ts).of,
                                 ReaderAt(k, t.branches[Head(ts).of],
                                          New(t.branches[Head(ts).of]), rev)[Tail(ts)])
    BY DEF UnionReader
  <2>2. Begun(ts, tok, body, e)
    <3>. HIDE DEF tok, body
    <3>. QED BY <1>3, <1>7, <1>8, BegunIs
  <2>. HIDE DEF x
  <2>3. CASE ts = <<>> /\ \A rest, g : Agrees(FALSE, rest, e, g, ts)
    <3>1. ~x.ok
      BY <2>1, <2>3 DEF NextIs, Thrown
    <3>. HIDE DEF good, r
    <3>. QED BY <2>3, <3>1 DEF Agrees, x
  <2>4. CASE /\ ts # <<>> /\ Head(ts) = tok /\ Tail(ts) \in Tokens /\ Comparable(Tail(ts), body)
             /\ \A ok \in BOOLEAN, rest \in Tokens, g \in BOOLEAN :
                   Agrees(ok, rest, body, g, Tail(ts)) => Agrees(ok, rest, e, g, ts)
    <3>1. NextIs(ts, "number") /\ Head(ts).of = b
      BY <1>3, <2>4 DEF NextIs
    <3>2. CASE b = 0
      <4>1. x = Decoded(w, Tail(ts))
        BY <1>1, <2>1, <3>1, <3>2
      <4>2. x.ok /\ x.object = w /\ x.rest = Tail(ts)
        BY <4>1 DEF Decoded
      <4>3. bgood
        BY <3>2
      <4>. HIDE DEF good, bgood, body, r
      <4>4. Agrees(TRUE, Tail(ts), body, TRUE, Tail(ts))
        BY <1>6, <2>4, <3>2, TokensConcat DEF Agrees, Wrote
      <4>5. Agrees(TRUE, Tail(ts), e, TRUE, ts)
        BY <2>4, <4>4
      <4>. QED BY <1>2, <4>2, <4>3, <4>5 DEF Agrees, x
    <3>3. CASE b # 0
      <4>1. x = SetUnion(v, b, y)
        BY <1>1, <2>1, <3>1, <3>3
      <4>. HIDE DEF good, bgood, body, d
      <4>2. IsResult(y)
        BY <1>5, <2>4, <3>3, ReaderElim
      <4>3. Agrees(y.ok, y.rest, body, bgood, Tail(ts)) /\ (y.ok => y.object = w.value)
        BY <1>5, <2>4, <3>3 DEF Faithful
      <4>. HIDE DEF y
      <4>4. x.ok = y.ok /\ x.rest = y.rest /\ (y.ok => x.object = [idx |-> b, value |-> y.object])
        BY <4>1 DEF SetUnion
      <4>5. Agrees(y.ok, y.rest, e, bgood, ts)
        BY <1>2, <2>4, <4>2, <4>3 DEF IsResult
      <4>6. x.ok => x.object = w
        BY <1>1, <4>3, <4>4
      <4>7. Agrees(x.ok, x.rest, e, good, ts)
        BY <1>2, <4>4, <4>5 DEF Agrees
      <4>. QED BY <4>6, <4>7 DEF x
    <3>. QED BY <3>2, <3>3
  <2>. QED BY <2>2, <2>3, <2>4 DEF Begun
<1>. HIDE DEF r, good
<1>. QED BY <1>7, <1>8 DEF Faithful, r, good

LEMMA SeqOfParts ==
    ASSUME NEW m \in Nat, NEW parts, parts = [i \in 1 .. m |-> parts[i]],
           \A i \in 1 .. m : parts[i] \in Part
    PROVE  parts \in Seq(Part) /\ Len(parts) = m
<1>1. parts \in [1 .. m -> Part]
  OBVIOUS
<1>. QED BY <1>1

LEMMA VectorFaithful ==
    ASSUME NEW k \in 0 .. 5, NEW t, VectorParts(k, t), NEW w, VectorHolds(k, t, w, FALSE),
           NEW rev \in BOOLEAN, SoundAt(k), FaithfulAt(k),
           NEW e, e = Then(Wrote(<<Number(Len(w))>>), VectorBody(k, t, w, rev))
    PROVE  /\ e \in Part
           /\ Faithful(VectorReader(k, t, rev), e, w, Good(VectorHolds(k, t, w, TRUE)))
<1>. DEFINE r == VectorReader(k, t, rev)
            good == Good(VectorHolds(k, t, w, TRUE))
            m == Len(w)
            tok == Number(m)
            item == t.item
            parts == [i \in 1 .. m |-> EncodeAt(k, item, w[i], rev)]
            body == WriteAll(parts)
            goods == [i \in 1 .. m |-> Exact(k, item, w[i])]
            readers == ItemReaders(k, t, rev, m)
<1>1. /\ w \in Seq({w[i] : i \in DOMAIN w}) /\ m \in Nat /\ DOMAIN w = 1 .. m
      /\ \A i \in 1 .. m : HoldsAt(k, item, w[i], FALSE)
  <2>1. w \in Seq({w[i] : i \in DOMAIN w}) /\ \A i \in DOMAIN w : HoldsAt(k, item, w[i], FALSE)
    BY DEF VectorHolds
  <2>. QED BY <2>1, LenProperties
<1>2. /\ goods \in [1 .. m -> BOOLEAN]
      /\ good <=> \A i \in 1 .. m : goods[i]
  <2>1. \A i \in 1 .. m : goods[i] \in BOOLEAN /\ (goods[i] <=> HoldsAt(k, item, w[i], TRUE))
    BY DEF Exact
  <2>2. VectorHolds(k, t, w, TRUE) <=> \A i \in 1 .. m : HoldsAt(k, item, w[i], TRUE)
    BY <1>1 DEF VectorHolds
  <2>3. goods \in [1 .. m -> BOOLEAN]
    BY <2>1
  <2>. HIDE DEF goods
  <2>. QED BY <2>1, <2>2, <2>3 DEF Good
<1>3. tok \in Token /\ tok.token = "number" /\ tok.of = m
  BY <1>1 DEF Number, Token
<1>4. item \in UpTo(k) /\ HoldsAt(k, item, New(item), TRUE)
  <2>1. item \in UpTo(k) /\ Buildable(item) /\ k \in 0 .. 6
    BY DEF VectorParts
  <2>. HIDE DEF item
  <2>. QED BY <2>1, NewHolds
<1>5. ASSUME NEW i \in 1 .. m
      PROVE  parts[i] \in Part /\ Faithful(readers[i], parts[i], w[i], goods[i])
  <2>. DEFINE u == w[i]
  <2>1. readers[i] = ReaderAt(k, item, New(item), rev)
    BY DEF ItemReaders
  <2>2. parts[i] = EncodeAt(k, item, u, rev) /\ goods[i] = Exact(k, item, u)
    OBVIOUS
  <2>3. HoldsAt(k, item, u, FALSE)
    BY <1>1
  <2>. HIDE DEF u, item, parts, goods, readers
  <2>4. /\ EncodeAt(k, item, u, rev) \in Part
        /\ Faithful(ReaderAt(k, item, New(item), rev), EncodeAt(k, item, u, rev), u, Exact(k, item, u))
    BY <1>4, <2>3 DEF FaithfulAt
  <2>. QED BY <2>1, <2>2, <2>4 DEF u
<1>6. parts \in Seq(Part) /\ Len(parts) = m
  <2>1. parts = [i \in 1 .. m |-> parts[i]]
    OBVIOUS
  <2>. HIDE DEF parts, m
  <2>. QED BY <1>1, <1>5, <2>1, SeqOfParts
<1>7. Readers(m, readers)
  BY <1>1, ItemReadersAre
<1>8. VectorBody(k, t, w, rev) = body
  BY DEF VectorBody
<1>9. e = Then(Wrote(<<tok>>), body)
  BY <1>8
<1>. HIDE DEF r, good, m, tok, item, parts, goods, readers
<1>10. body \in Part
  <2>1. PICK f \in [0 .. Len(parts) -> Part] : body = f[Len(parts)]
    BY <1>6, WriteAllRun
  <2>. QED BY <1>1, <1>6, <2>1
<1>11. e \in Part
  BY <1>3, <1>9, <1>10, OneToken, ThenIsPart
<1>12. ASSUME NEW ts \in Tokens, Comparable(ts, e)
       PROVE  Agrees(r[ts].ok, r[ts].rest, e, good, ts) /\ (r[ts].ok => r[ts].object = w)
  <2>. DEFINE x == r[ts]
              a == ReadAll(readers, Tail(ts))
  <2>1. x = IF ~NextIs(ts, "number") THEN Thrown(Emptied, ts)
            ELSE SetVector(ReadAll(ItemReaders(k, t, rev, Head(ts).of), Tail(ts)))
    BY DEF VectorReader, r
  <2>2. Begun(ts, tok, body, e)
    <3>. HIDE DEF body
    <3>. QED BY <1>3, <1>9, <1>10, <1>12, BegunIs
  <2>. HIDE DEF x
  <2>3. CASE ts = <<>> /\ \A rest, g : Agrees(FALSE, rest, e, g, ts)
    <3>1. ~x.ok
      BY <2>1, <2>3 DEF NextIs, Thrown
    <3>. QED BY <2>3, <3>1 DEF Agrees, x
  <2>4. CASE /\ ts # <<>> /\ Head(ts) = tok /\ Tail(ts) \in Tokens /\ Comparable(Tail(ts), body)
             /\ \A ok \in BOOLEAN, rest \in Tokens, g \in BOOLEAN :
                   Agrees(ok, rest, body, g, Tail(ts)) => Agrees(ok, rest, e, g, ts)
    <3>1. NextIs(ts, "number") /\ Head(ts).of = m
      BY <1>3, <2>4 DEF NextIs
    <3>2. x = SetVector(a)
      BY <2>1, <3>1 DEF readers
    <3>3. Agrees(a.ok, a.rest, body, good, Tail(ts))
          /\ (a.ok => \A i \in 1 .. m : a.objects[i] = w[i])
      <4>1. AllFaithful(m, readers, parts, w, goods)
        BY <1>2, <1>5 DEF AllFaithful
      <4>2. good \in BOOLEAN /\ (good <=> AllGood(m, goods))
        BY <1>2 DEF AllGood, good, Good
      <4>. DEFINE u == Tail(ts)
      <4>3. u \in Tokens /\ Comparable(u, WriteAll(parts))
        BY <2>4
      <4>. HIDE DEF u
      <4>4. Together(m, ReadAll(readers, u), WriteAll(parts), w, good, u)
        BY <1>1, <1>6, <1>7, <4>1, <4>2, <4>3, ReadAllFaithful
      <4>. QED BY <4>4 DEF Together, u
    <3>4. /\ a.ok \in BOOLEAN /\ a.rest \in Tokens
          /\ a.objects \in Seq({a.objects[i] : i \in DOMAIN a.objects})
          /\ a.ok => Len(a.objects) = m
      BY <1>1, <1>7, <2>4, ReadAllObjects
    <3>. HIDE DEF a, body
    <3>5. Agrees(a.ok, a.rest, body, good, Tail(ts)) /\ good \in BOOLEAN
      BY <3>3 DEF good, Good
    <3>6. Agrees(a.ok, a.rest, e, good, ts)
      BY <2>4, <3>4, <3>5
    <3>7. x.ok = a.ok /\ x.rest = a.rest /\ (a.ok => x.object = a.objects)
      BY <3>2 DEF SetVector
    <3>8. a.ok => a.objects = w
      <4>. SUFFICES ASSUME a.ok PROVE a.objects = w
        OBVIOUS
      <4>. DEFINE s == a.objects
      <4>1. s \in Seq({s[i] : i \in DOMAIN s}) /\ Len(s) = m /\ \A i \in 1 .. m : s[i] = w[i]
        BY <3>3, <3>4
      <4>. HIDE DEF s
      <4>2. s = [i \in 1 .. m |-> s[i]] /\ w = [i \in 1 .. m |-> w[i]]
        BY <1>1, <4>1, LenProperties DEF m
      <4>3. s = w
        BY <4>1, <4>2
      <4>. QED BY <4>3 DEF s
    <3>. QED BY <3>6, <3>7, <3>8 DEF x
  <2>. QED BY <2>2, <2>3, <2>4 DEF Begun
<1>. QED BY <1>11, <1>12 DEF Faithful, r, good

\* Every field has been read.
AllRead(order, a, w) ==
    /\ DOMAIN a.objects = 1 .. Len(order)
    /\ \A i \in 1 .. Len(order) : a.objects[i] = w[order[i].name]

Gives(x, w) == x.object = w

LEMMA SetAllFields ==
    ASSUME NEW k, NEW t, NEW order, Fields(k, t, order),
           NEW w, RecordHolds(k, t, w, FALSE), NEW v, RecordHolds(k, t, v, TRUE),
           NEW a, AllRead(order, a, w), NEW x, x = SetFields(v, order, a)
    PROVE  Gives(x, w)
<1>. DEFINE o == [f \in DOMAIN v |->
                   IF \E i \in DOMAIN a.objects : order[i].name = f
                   THEN a.objects[CHOOSE i \in DOMAIN a.objects : order[i].name = f]
                   ELSE v[f]]
<1>1. x.object = o
  BY DEF SetFields
<1>0. /\ DOMAIN a.objects = 1 .. Len(order)
      /\ \A i \in 1 .. Len(order) : a.objects[i] = w[order[i].name]
  BY DEF AllRead
<1>2. DOMAIN v = Names(t) /\ w = [f \in Names(t) |-> w[f]]
  BY DEF RecordHolds
<1>3. ASSUME NEW f \in Names(t) PROVE o[f] = w[f]
  <2>1. \E i \in DOMAIN a.objects : order[i].name = f
    BY <1>0 DEF Fields
  <2>. DEFINE i == CHOOSE j \in DOMAIN a.objects : order[j].name = f
  <2>2. i \in 1 .. Len(order) /\ order[i].name = f
    BY <1>0, <2>1
  <2>3. o[f] = a.objects[i]
    BY <1>2, <2>1
  <2>. HIDE DEF i, o
  <2>. QED BY <1>0, <2>2, <2>3
<1>4. o = [f \in Names(t) |-> o[f]]
  BY <1>2
<1>. HIDE DEF o
<1>. QED BY <1>1, <1>2, <1>3, <1>4 DEF Gives

LEMMA RecordFaithful ==
    ASSUME NEW k \in 0 .. 5, NEW t, NEW order, Fields(k, t, order),
           NEW w, RecordHolds(k, t, w, FALSE), NEW v, RecordHolds(k, t, v, TRUE),
           NEW rev \in BOOLEAN, SoundAt(k), FaithfulAt(k),
           NEW e, e = RecordBody(k, order, w, rev)
    PROVE  /\ e \in Part
           /\ Faithful(RecordReader(k, order, v, rev), e, w, Good(RecordHolds(k, t, w, TRUE)))
<1>. DEFINE r == RecordReader(k, order, v, rev)
            good == Good(RecordHolds(k, t, w, TRUE))
            m == Len(order)
            parts == [i \in 1 .. m |-> EncodeAt(k, order[i].type, w[order[i].name], rev)]
            ws == [i \in 1 .. m |-> w[order[i].name]]
            goods == [i \in 1 .. m |-> Exact(k, order[i].type, w[order[i].name])]
            readers == FieldReaders(k, order, v, rev)
<1>1. /\ m \in Nat
      /\ \A i \in 1 .. m : /\ order[i].name \in Names(t) /\ order[i].type \in UpTo(k)
                           /\ order[i].type = TypeOf(t, order[i].name)
      /\ \A f \in Names(t) : \E i \in 1 .. m : order[i].name = f
  BY DEF Fields
<1>2. \A i \in 1 .. m : HoldsAt(k, order[i].type, w[order[i].name], FALSE)
                     /\ HoldsAt(k, order[i].type, v[order[i].name], TRUE)
  BY <1>1 DEF RecordHolds
<1>3. good \in BOOLEAN /\ (good <=> AllGood(m, goods)) /\ goods \in [1 .. m -> BOOLEAN]
  <2>1. \A i \in 1 .. m : /\ goods[i] \in BOOLEAN
                          /\ goods[i] <=> HoldsAt(k, order[i].type, w[order[i].name], TRUE)
    BY DEF Exact
  <2>2. goods \in [1 .. m -> BOOLEAN]
    BY <2>1
  <2>3. w = [f \in Names(t) |-> w[f]]
    BY DEF RecordHolds
  <2>4. RecordHolds(k, t, w, TRUE) <=> \A f \in Names(t) : HoldsAt(k, TypeOf(t, f), w[f], TRUE)
    BY <2>3 DEF RecordHolds
  <2>. HIDE DEF goods, m
  <2>5. RecordHolds(k, t, w, TRUE) <=> AllGood(m, goods)
    <3>1. ASSUME RecordHolds(k, t, w, TRUE) PROVE AllGood(m, goods)
      BY <1>1, <2>1, <2>4, <3>1 DEF AllGood
    <3>2. ASSUME AllGood(m, goods) PROVE \A f \in Names(t) : HoldsAt(k, TypeOf(t, f), w[f], TRUE)
      <4>. TAKE f \in Names(t)
      <4>1. PICK i \in 1 .. m : order[i].name = f
        BY <1>1
      <4>2. order[i].type = TypeOf(t, f) /\ HoldsAt(k, order[i].type, w[order[i].name], TRUE)
        BY <1>1, <2>1, <3>2, <4>1 DEF AllGood
      <4>. QED BY <4>1, <4>2
    <3>. QED BY <2>4, <3>1, <3>2
  <2>. QED BY <2>2, <2>5 DEF Good
<1>4. ASSUME NEW i \in 1 .. m
      PROVE  parts[i] \in Part /\ Faithful(readers[i], parts[i], ws[i], goods[i])
  <2>. DEFINE ty == order[i].type
              u == w[order[i].name]
              x == v[order[i].name]
  <2>1. readers[i] = ReaderAt(k, ty, x, rev)
    BY DEF FieldReaders
  <2>2. parts[i] = EncodeAt(k, ty, u, rev) /\ goods[i] = Exact(k, ty, u) /\ ws[i] = u
    OBVIOUS
  <2>3. ty \in UpTo(k) /\ HoldsAt(k, ty, u, FALSE) /\ HoldsAt(k, ty, x, TRUE)
    BY <1>1, <1>2
  <2>. HIDE DEF ty, u, x, parts, goods, readers, ws
  <2>4. /\ EncodeAt(k, ty, u, rev) \in Part
        /\ Faithful(ReaderAt(k, ty, x, rev), EncodeAt(k, ty, u, rev), u, Exact(k, ty, u))
    BY <2>3 DEF FaithfulAt
  <2>. QED BY <2>1, <2>2, <2>4
<1>5. parts \in Seq(Part) /\ Len(parts) = m
  <2>1. parts = [i \in 1 .. m |-> parts[i]]
    OBVIOUS
  <2>. HIDE DEF parts, m
  <2>. QED BY <1>1, <1>4, <2>1, SeqOfParts
<1>6. Readers(m, readers)
  BY FieldReadersAre
<1>7. e = WriteAll(parts)
  BY DEF RecordBody
<1>8. \A i \in 1 .. m : ws[i] = w[order[i].name]
  OBVIOUS
<1>9. r = [ts \in Tokens |-> SetFields(v, order, ReadAll(readers, ts))]
  BY DEF RecordReader
<1>. HIDE DEF r, good, m, parts, ws, goods, readers
<1>10. e \in Part
  <2>1. PICK f \in [0 .. Len(parts) -> Part] : WriteAll(parts) = f[Len(parts)]
    BY <1>5, WriteAllRun
  <2>. QED BY <1>1, <1>5, <1>7, <2>1
<1>11. AllFaithful(m, readers, parts, ws, goods)
  BY <1>3, <1>4 DEF AllFaithful
<1>12. ASSUME NEW ts \in Tokens, Comparable(ts, e)
       PROVE  Agrees(r[ts].ok, r[ts].rest, e, good, ts) /\ (r[ts].ok => r[ts].object = w)
  <2>. DEFINE x == r[ts]
              a == ReadAll(readers, ts)
  <2>1. x = SetFields(v, order, a)
    BY <1>9
  <2>2. Comparable(ts, WriteAll(parts))
    BY <1>7, <1>12
  <2>3. Together(m, a, WriteAll(parts), ws, good, ts)
    BY <1>1, <1>3, <1>5, <1>6, <1>11, <2>2, ReadAllFaithful
  <2>4. /\ a.objects \in Seq({a.objects[i] : i \in DOMAIN a.objects})
        /\ a.ok => Len(a.objects) = m
    BY <1>1, <1>6, ReadAllObjects
  <2>. HIDE DEF a, x
  <2>5. x.ok = a.ok /\ x.rest = a.rest
    BY <2>1 DEF SetFields
  <2>6. ASSUME a.ok PROVE x.object = w
    <3>1. DOMAIN a.objects = 1 .. m
      BY <2>4, <2>6, LenProperties
    <3>2. \A i \in 1 .. m : a.objects[i] = w[order[i].name]
      BY <1>8, <2>3, <2>6 DEF Together
    <3>3. AllRead(order, a, w)
      BY <3>1, <3>2 DEF AllRead, m
    <3>4. Gives(x, w)
      BY <2>1, <3>3, SetAllFields
    <3>. QED BY <3>4 DEF Gives
  <2>7. Agrees(x.ok, x.rest, e, good, ts)
    BY <1>7, <2>3, <2>5 DEF Together
  <2>. QED BY <2>5, <2>6, <2>7 DEF x
<1>. QED BY <1>10, <1>12 DEF Faithful, r, good

LEMMA FaithfulLeaf ==
    ASSUME NEW n \in 0 .. 6, NEW t \in Leaves, IsLeaf(t), NEW w, NEW v, NEW rev \in BOOLEAN,
           HoldsAt(n, t, w, FALSE), HoldsAt(n, t, v, TRUE)
    PROVE  /\ EncodeAt(n, t, w, rev) \in Part
           /\ Faithful(ReaderAt(n, t, v, rev), EncodeAt(n, t, w, rev), w, Exact(n, t, w))
BY EnumFaithful, AtomFaithful DEF IsLeaf

LEMMA FaithfulStep ==
    ASSUME NEW n \in 1 .. 6, SoundAt(n - 1), FaithfulAt(n - 1)
    PROVE  FaithfulAt(n)
<1>. SUFFICES ASSUME NEW t \in UpTo(n), NEW w, NEW v, NEW rev \in BOOLEAN,
                     HoldsAt(n, t, w, FALSE), HoldsAt(n, t, v, TRUE)
              PROVE  /\ EncodeAt(n, t, w, rev) \in Part
                     /\ Faithful(ReaderAt(n, t, v, rev), EncodeAt(n, t, w, rev), w, Exact(n, t, w))
  BY DEF FaithfulAt
<1>1. n \in 0 .. 6 /\ n - 1 \in 0 .. 5 /\ FALSE \in BOOLEAN /\ TRUE \in BOOLEAN
  OBVIOUS
<1>. DEFINE k == n - 1
<1>2. CASE IsLeaf(t) /\ t \in Leaves
  BY <1>1, <1>2, FaithfulLeaf
<1>3. CASE IsUnion(t) /\ UnionParts(k, t)
  <2>. DEFINE e == Then(Wrote(<<Number(w.idx)>>), UnionBody(k, t, w, rev))
  <2>1. UnionHolds(k, t, w, FALSE) /\ (HoldsAt(n, t, w, TRUE) <=> UnionHolds(k, t, w, TRUE))
    BY <1>1, <1>3, HoldsUnion
  <2>2. EncodeAt(n, t, w, rev) = e /\ ReaderAt(n, t, v, rev) = UnionReader(k, t, v, rev)
    BY <1>3, EncodeUnion, ReaderUnion
  <2>3. Exact(n, t, w) = Good(UnionHolds(k, t, w, TRUE))
    BY <2>1 DEF Exact, Good
  <2>4. k \in 0 .. 5 /\ e = Then(Wrote(<<Number(w.idx)>>), UnionBody(k, t, w, rev))
        /\ SoundAt(k) /\ FaithfulAt(k)
    BY <1>1
  <2>. HIDE DEF e, k
  <2>5. e \in Part /\ Faithful(UnionReader(k, t, v, rev), e, w, Good(UnionHolds(k, t, w, TRUE)))
    BY <1>3, <2>1, <2>4, UnionFaithful
  <2>. QED BY <2>2, <2>3, <2>5
<1>4. CASE IsVector(t) /\ VectorParts(k, t)
  <2>. DEFINE e == Then(Wrote(<<Number(Len(w))>>), VectorBody(k, t, w, rev))
  <2>1. VectorHolds(k, t, w, FALSE) /\ (HoldsAt(n, t, w, TRUE) <=> VectorHolds(k, t, w, TRUE))
    BY <1>1, <1>4, HoldsVector
  <2>2. EncodeAt(n, t, w, rev) = e /\ ReaderAt(n, t, v, rev) = VectorReader(k, t, rev)
    BY <1>4, EncodeVector, ReaderVector
  <2>3. Exact(n, t, w) = Good(VectorHolds(k, t, w, TRUE))
    BY <2>1 DEF Exact, Good
  <2>4. k \in 0 .. 5 /\ e = Then(Wrote(<<Number(Len(w))>>), VectorBody(k, t, w, rev))
        /\ SoundAt(k) /\ FaithfulAt(k)
    BY <1>1
  <2>. HIDE DEF e, k
  <2>5. e \in Part /\ Faithful(VectorReader(k, t, rev), e, w, Good(VectorHolds(k, t, w, TRUE)))
    BY <1>4, <2>1, <2>4, VectorFaithful
  <2>. QED BY <2>2, <2>3, <2>5
<1>5. CASE IsRecord(t) /\ RecordParts(k, t)
  <2>. DEFINE order == FieldOrder(t, rev)
              e == RecordBody(k, order, w, rev)
  <2>1. /\ RecordHolds(k, t, w, FALSE) /\ RecordHolds(k, t, v, TRUE)
        /\ HoldsAt(n, t, w, TRUE) <=> RecordHolds(k, t, w, TRUE)
    BY <1>1, <1>5, HoldsRecord
  <2>2. EncodeAt(n, t, w, rev) = e /\ ReaderAt(n, t, v, rev) = RecordReader(k, order, v, rev)
    BY <1>5, EncodeRecord, ReaderRecord
  <2>3. Exact(n, t, w) = Good(RecordHolds(k, t, w, TRUE))
    BY <2>1 DEF Exact, Good
  <2>4. k \in 0 .. 5 /\ e = RecordBody(k, order, w, rev) /\ SoundAt(k) /\ FaithfulAt(k)
    BY <1>1
  <2>5. Fields(k, t, order)
    BY <1>5, RecordFields
  <2>. HIDE DEF e, k, order
  <2>6. e \in Part /\ Faithful(RecordReader(k, order, v, rev), e, w, Good(RecordHolds(k, t, w, TRUE)))
    BY <2>1, <2>4, <2>5, RecordFaithful
  <2>. QED BY <2>2, <2>3, <2>6
<1>. QED BY <1>1, <1>2, <1>3, <1>4, <1>5, TypeParts

LEMMA FaithfulEverywhere == \A n \in 0 .. 6 : FaithfulAt(n)
<1>. DEFINE P == {n \in 0 .. 6 : FaithfulAt(n)}
<1>1. 0 \in P
  <2>1. FaithfulAt(0)
    <3>. SUFFICES ASSUME NEW t \in UpTo(0), NEW w, NEW v, NEW rev \in BOOLEAN,
                         HoldsAt(0, t, w, FALSE), HoldsAt(0, t, v, TRUE)
                  PROVE  /\ EncodeAt(0, t, w, rev) \in Part
                         /\ Faithful(ReaderAt(0, t, v, rev), EncodeAt(0, t, w, rev), w, Exact(0, t, w))
      BY DEF FaithfulAt
    <3>1. 0 \in 0 .. 6 /\ ~(0 \in 1 .. 6)
      OBVIOUS
    <3>2. IsLeaf(t) /\ t \in Leaves
      BY <3>1, TypeParts
    <3>. QED BY <3>1, <3>2, FaithfulLeaf
  <2>. QED BY <2>1
<1>2. ASSUME NEW n \in 1 .. 6, n - 1 \in P PROVE n \in P
  <2>1. n - 1 \in 0 .. 6 /\ n \in 0 .. 6 /\ FaithfulAt(n - 1)
    BY <1>2
  <2>2. SoundAt(n - 1)
    BY <2>1, SoundEverywhere
  <2>3. FaithfulAt(n)
    BY <2>1, <2>2, FaithfulStep
  <2>. QED BY <2>1, <2>3
<1>3. \A n \in 0 .. 6 : n \in P
  <2>. HIDE DEF P
  <2>. QED BY <1>1, <1>2, SetInduction
<1>. QED BY <1>3

-----------------------------------------------------------------------------
(* The records of the messages are of at most six levels.                    *)

LEMMA SeqGrows ==
    ASSUME NEW A, NEW B, A \subseteq B
    PROVE  Seq(A) \subseteq Seq(B)
<1>. SUFFICES ASSUME NEW s \in Seq(A) PROVE s \in Seq(B)
  OBVIOUS
<1>1. Len(s) \in Nat /\ s \in [1 .. Len(s) -> A]
  BY LenProperties
<1>2. s \in [1 .. Len(s) -> B]
  BY <1>1
<1>. QED BY <1>1, <1>2

LEMMA AboveGrows ==
    ASSUME NEW S, NEW T, S \subseteq T
    PROVE  Above(S) \subseteq Above(T)
<1>1. Unions(S) \subseteq Unions(T)
  <2>1. {t \in S : Buildable(t)} \subseteq {t \in T : Buildable(t)}
    OBVIOUS
  <2>2. Seq({t \in S : Buildable(t)}) \subseteq Seq({t \in T : Buildable(t)})
    BY <2>1, SeqGrows
  <2>. QED BY <2>2 DEF Unions
<1>2. Vectors(S) \subseteq Vectors(T)
  BY DEF Vectors
<1>3. Records(S) \subseteq Records(T)
  <2>. DEFINE A == [name : FieldNames, type : S]
              B == [name : FieldNames, type : T]
  <2>1. A \subseteq B
    OBVIOUS
  <2>. HIDE DEF A, B
  <2>2. Seq(A) \subseteq Seq(B)
    BY <2>1, SeqGrows
  <2>3. [kind : {"record"}, fields : Seq(A)] \subseteq [kind : {"record"}, fields : Seq(B)]
    BY <2>2
  <2>. QED BY <2>3 DEF Records, A, B
<1>. QED BY <1>1, <1>2, <1>3 DEF Above

LEMMA LevelsGrow ==
    /\ Leaves \subseteq Types1 /\ Types1 \subseteq Types2 /\ Types2 \subseteq Types3
    /\ Types3 \subseteq Types4 /\ Types4 \subseteq Types5 /\ Types5 \subseteq Types6
<1>1. Leaves \subseteq Types1
  BY DEF Types1, Above
<1>2. Types1 \subseteq Types2
  <2>1. Above(Leaves) \subseteq Above(Types1)
    BY <1>1, AboveGrows
  <2>. QED BY <2>1 DEF Types1, Types2
<1>3. Types2 \subseteq Types3
  BY <1>2, AboveGrows DEF Types2, Types3
<1>4. Types3 \subseteq Types4
  BY <1>3, AboveGrows DEF Types3, Types4
<1>5. Types4 \subseteq Types5
  BY <1>4, AboveGrows DEF Types4, Types5
<1>6. Types5 \subseteq Types6
  BY <1>5, AboveGrows DEF Types5, Types6
<1>. QED BY <1>1, <1>2, <1>3, <1>4, <1>5, <1>6

FieldsOf(S) == [name : FieldNames, type : S]

LEMMA FieldIs ==
    ASSUME NEW S, NEW t \in S, NEW name \in FieldNames
    PROVE  Field(name, t) \in FieldsOf(S) /\ Field(name, t).name = name
BY DEF Field, FieldsOf

LEMMA RecordIs ==
    ASSUME NEW S, NEW fields \in Seq(FieldsOf(S)), Distinct(fields)
    PROVE  Record(fields) \in Above(S)
BY DEF Record, Above, Records, FieldsOf

LEMMA VectorIs ==
    ASSUME NEW S, NEW t \in S, Buildable(t)
    PROVE  Vector(t) \in Above(S)
BY DEF Vector, Above, Vectors

LEMMA UnionIs ==
    ASSUME NEW S, NEW branches \in Seq(S), \A i \in 1 .. Len(branches) : Buildable(branches[i])
    PROVE  Union(branches) \in Above(S)
<1>. DEFINE B == {t \in S : Buildable(t)}
<1>1. Len(branches) \in Nat /\ branches \in [1 .. Len(branches) -> S]
  BY LenProperties
<1>2. branches \in [1 .. Len(branches) -> B]
  BY <1>1
<1>. HIDE DEF B
<1>3. branches \in Seq(B)
  BY <1>1, <1>2
<1>. QED BY <1>3 DEF Union, Above, Unions, B

LEMMA EnumsAre ==
    {KuduOperationType, KuduPredicateType, KuduDataType, KuduColumnEncoding, KuduSchemaType,
     KuduComparisonOperator, Atom} \subseteq Leaves
BY DEF KuduOperationType, KuduPredicateType, KuduDataType, KuduColumnEncoding, KuduSchemaType,
       KuduComparisonOperator, Atom, Enum, Leaves

LEMMA RecordOfTwo ==
    ASSUME NEW S, NEW n1 \in FieldNames, NEW n2 \in FieldNames, n1 # n2, NEW t1 \in S, NEW t2 \in S
    PROVE  Record(<<Field(n1, t1), Field(n2, t2)>>) \in Above(S)
<1>. DEFINE fields == <<Field(n1, t1), Field(n2, t2)>>
<1>1. fields \in Seq(FieldsOf(S))
  BY FieldIs
<1>2. Distinct(fields)
  BY DEF Distinct, Field
<1>. HIDE DEF fields
<1>3. Record(fields) \in Above(S)
  BY <1>1, <1>2, RecordIs
<1>. QED BY <1>3 DEF fields

LEMMA RecordOfOne ==
    ASSUME NEW S, NEW n1 \in FieldNames, NEW t1 \in S
    PROVE  Record(<<Field(n1, t1)>>) \in Above(S)
<1>. DEFINE fields == <<Field(n1, t1)>>
<1>1. fields \in Seq(FieldsOf(S))
  BY FieldIs
<1>2. Distinct(fields)
  BY DEF Distinct, Field
<1>. HIDE DEF fields
<1>3. Record(fields) \in Above(S)
  BY <1>1, <1>2, RecordIs
<1>. QED BY <1>3 DEF fields

LEMMA RecordOfThree ==
    ASSUME NEW S, NEW n1 \in FieldNames, NEW n2 \in FieldNames, NEW n3 \in FieldNames,
           n1 # n2, n1 # n3, n2 # n3, NEW t1 \in S, NEW t2 \in S, NEW t3 \in S
    PROVE  Record(<<Field(n1, t1), Field(n2, t2), Field(n3, t3)>>) \in Above(S)
<1>. DEFINE fields == <<Field(n1, t1), Field(n2, t2), Field(n3, t3)>>
<1>1. fields \in Seq(FieldsOf(S))
  BY FieldIs
<1>2. Distinct(fields)
  BY DEF Distinct, Field
<1>. HIDE DEF fields
<1>3. Record(fields) \in Above(S)
  BY <1>1, <1>2, RecordIs
<1>. QED BY <1>3 DEF fields

LEMMA ColumnDefIs == KuduColumnDef \in Types2 /\ Encoding \in Types1 /\ Buildable(KuduColumnDef)
<1>. DEFINE fields == <<Field("columnName", Atom), Field("dataType", KuduDataType),
                        Field("allowNull", Atom), Field("encoding", Encoding),
                        Field("isPrimaryKey", Atom)>>
<1>1. Encoding \in Types1
  <2>1. <<KuduColumnEncoding>> \in Seq(Leaves)
    BY EnumsAre
  <2>2. \A i \in 1 .. Len(<<KuduColumnEncoding>>) : Buildable(<<KuduColumnEncoding>>[i])
    BY DEF Buildable, KuduColumnEncoding, Enum
  <2>. QED BY <2>1, <2>2, UnionIs DEF Encoding, Types1
<1>2. Atom \in Types1 /\ KuduDataType \in Types1
  BY EnumsAre, LevelsGrow
<1>3. /\ "columnName" \in FieldNames /\ "dataType" \in FieldNames /\ "allowNull" \in FieldNames
      /\ "encoding" \in FieldNames /\ "isPrimaryKey" \in FieldNames
  BY DEF FieldNames
<1>4. fields \in Seq(FieldsOf(Types1))
  BY <1>1, <1>2, <1>3, FieldIs
<1>5. Distinct(fields)
  BY DEF Distinct, Field
<1>6. Buildable(KuduColumnDef)
  BY DEF Buildable, KuduColumnDef, Record, Field, Atom, Encoding, Union, KuduDataType, Enum
<1>7. KuduColumnDef = Record(fields)
  BY DEF KuduColumnDef
<1>. HIDE DEF fields
<1>8. Record(fields) \in Above(Types1)
  BY <1>4, <1>5, RecordIs
<1>. QED BY <1>1, <1>6, <1>7, <1>8 DEF Types2

LEMMA PredicateIs == KuduPredicate \in Types4 /\ Buildable(KuduPredicate)
<1>1. KuduComparisonPredicate \in Types1
  <2>1. /\ "op" \in FieldNames /\ "dataValue" \in FieldNames
        /\ "op" # "dataValue"
    BY DEF FieldNames
  <2>. QED BY <2>1, EnumsAre, RecordOfTwo DEF KuduComparisonPredicate, Types1
<1>2. Vector(Atom) \in Types1
  BY EnumsAre, VectorIs DEF Types1, Buildable, Atom
<1>3. KuduInListPredicate \in Types2
  <2>1. /\ "valueList" \in FieldNames
    BY DEF FieldNames
  <2>. QED BY <1>2, <2>1, RecordOfOne DEF KuduInListPredicate, Types2
<1>4. Predicate \in Types3
  <2>. DEFINE branches == <<KuduComparisonPredicate, KuduInListPredicate>>
  <2>1. branches \in Seq(Types2)
    BY <1>1, <1>3, LevelsGrow
  <2>2. Buildable(KuduComparisonPredicate)
    BY DEF Buildable, KuduComparisonPredicate, Record, Field, Atom, KuduComparisonOperator
  <2>3. Buildable(KuduInListPredicate)
    BY DEF Buildable, KuduInListPredicate, Record, Field, Atom, Vector
  <2>4. \A i \in 1 .. Len(branches) : Buildable(branches[i])
    BY <2>2, <2>3
  <2>5. Predicate = Union(branches)
    BY DEF Predicate
  <2>. HIDE DEF branches
  <2>. QED BY <2>1, <2>4, <2>5, UnionIs DEF Types3
<1>5. KuduPredicateType \in Types3 /\ KuduColumnDef \in Types3
  BY EnumsAre, LevelsGrow, ColumnDefIs
<1>6. KuduPredicate \in Types4
  <2>1. /\ "type" \in FieldNames /\ "column" \in FieldNames /\ "predicate" \in FieldNames
        /\ "type" # "column" /\ "type" # "predicate" /\ "column" # "predicate"
    BY DEF FieldNames
  <2>. QED BY <1>4, <1>5, <2>1, RecordOfThree DEF KuduPredicate, Types4
<1>7. Buildable(KuduPredicate)
  BY DEF Buildable, KuduPredicate, Record, Field, Atom, Vector, KuduPredicateType, KuduColumnDef,
         Encoding, Union, KuduDataType, Enum, Predicate
<1>. QED BY <1>6, <1>7

LEMMA OperationIs == KuduOperation \in Types1
<1>1. /\ "id" \in FieldNames /\ "operationType" \in FieldNames
      /\ "id" # "operationType"
  BY DEF FieldNames
<1>. QED BY <1>1, EnumsAre, RecordOfTwo DEF KuduOperation, Types1

LEMMA ScanIs == KuduScan \in Types6
<1>1. Vector(KuduPredicate) \in Types5
  BY PredicateIs, VectorIs DEF Types5
<1>2. KuduOperation \in Types5 /\ Atom \in Types5
  BY OperationIs, EnumsAre, LevelsGrow
<1>3. /\ "op" \in FieldNames /\ "tableName" \in FieldNames /\ "predicateList" \in FieldNames
      /\ "op" # "tableName" /\ "op" # "predicateList" /\ "tableName" # "predicateList"
  BY DEF FieldNames
<1>. QED BY <1>1, <1>2, <1>3, RecordOfThree DEF KuduScan, Types6

LEMMA RowIs == KuduRow \in Types4 /\ KuduDataValue \in Types2 /\ Buildable(KuduRow)
<1>1. DataValue \in Types1
  <2>1. <<Atom, Atom>> \in Seq(Leaves)
    BY EnumsAre
  <2>2. \A i \in 1 .. Len(<<Atom, Atom>>) : Buildable(<<Atom, Atom>>[i])
    BY DEF Buildable, Atom
  <2>. QED BY <2>1, <2>2, UnionIs DEF DataValue, Types1
<1>2. KuduDataType \in Types1
  BY EnumsAre, LevelsGrow
<1>3. KuduDataValue \in Types2
  <2>1. /\ "dataType" \in FieldNames /\ "value" \in FieldNames
        /\ "dataType" # "value"
    BY DEF FieldNames
  <2>. QED BY <1>1, <1>2, <2>1, RecordOfTwo DEF KuduDataValue, Types2
<1>4. Buildable(KuduDataValue)
  BY DEF Buildable, KuduDataValue, Record, Field, KuduDataType, Enum, DataValue, Union
<1>5. Vector(KuduDataValue) \in Types3
  BY <1>3, <1>4, VectorIs DEF Types3
<1>6. KuduRow \in Types4
  <2>1. /\ "values" \in FieldNames
    BY DEF FieldNames
  <2>. QED BY <1>5, <2>1, RecordOfOne DEF KuduRow, Types4
<1>7. Buildable(KuduRow)
  BY DEF Buildable, KuduRow, Record, Field, Vector
<1>. QED BY <1>3, <1>6, <1>7

LEMMA InsertIs == KuduInsert \in Types6
<1>. DEFINE fields == <<Field("op", KuduOperation), Field("tableName", Atom),
                        Field("columns", Vector(KuduColumnDef)), Field("row", KuduRow)>>
<1>1. Vector(KuduColumnDef) \in Types3
  BY ColumnDefIs, VectorIs DEF Types3
<1>2. /\ KuduOperation \in Types5 /\ Atom \in Types5
      /\ Vector(KuduColumnDef) \in Types5 /\ KuduRow \in Types5
  BY <1>1, OperationIs, RowIs, EnumsAre, LevelsGrow
<1>3. /\ "op" \in FieldNames /\ "tableName" \in FieldNames /\ "columns" \in FieldNames
      /\ "row" \in FieldNames
  BY DEF FieldNames
<1>4. fields \in Seq(FieldsOf(Types5))
  BY <1>2, <1>3, FieldIs
<1>5. Distinct(fields)
  BY DEF Distinct, Field
<1>6. KuduInsert = Record(fields)
  BY DEF KuduInsert
<1>. HIDE DEF fields
<1>. QED BY <1>4, <1>5, <1>6, RecordIs DEF Types6

LEMMA ScanResultIs == KuduScanResult \in Types6
<1>1. Vector(KuduRow) \in Types5
  BY RowIs, VectorIs DEF Types5
<1>2. Atom \in Types5
  BY EnumsAre, LevelsGrow
<1>3. /\ "scanId" \in FieldNames /\ "rows" \in FieldNames
      /\ "scanId" # "rows"
  BY DEF FieldNames
<1>. QED BY <1>1, <1>2, <1>3, RecordOfTwo DEF KuduScanResult, Types6

LEMMA MessageIs == KuduMessage \in Types1
<1>1. /\ "schemaType" \in FieldNames /\ "obj" \in FieldNames
      /\ "schemaType" # "obj"
  BY DEF FieldNames
<1>. QED BY <1>1, EnumsAre, RecordOfTwo DEF KuduMessage, Types1

LEMMA TypesAre == Types \subseteq UpTo(6)
<1>1. Types \subseteq Types6
  BY ScanIs, InsertIs, ScanResultIs, MessageIs, PredicateIs, ColumnDefIs, RowIs, LevelsGrow DEF Types
<1>. QED BY <1>1 DEF UpTo

-----------------------------------------------------------------------------
(* The exchange.                                                             *)

LEMMA TopLevel ==
    ASSUME NEW n, n = 6, NEW t, NEW v, NEW exact \in BOOLEAN
    PROVE  HoldsAt(n, t, v, exact) <=> Holds(t, v, exact)
BY DEF HoldsAt

LEMMA CodecIs ==
    ASSUME NEW t \in Types, NEW rev \in BOOLEAN,
           NEW w, Holds(t, w, FALSE), NEW v, Holds(t, v, TRUE)
    PROVE  /\ Encode(t, w, rev) \in Part
           /\ Faithful(Reader(t, v, rev), Encode(t, w, rev), w, Good(WellFormed(t, w)))
           /\ Sound(6, t, Reader(t, v, rev))
<1>1. t \in UpTo(6) /\ 6 \in 0 .. 6
  BY TypesAre
<1>2. HoldsAt(6, t, w, FALSE) /\ HoldsAt(6, t, v, TRUE)
  BY TopLevel
<1>3. /\ EncodeAt(6, t, w, rev) \in Part
      /\ Faithful(ReaderAt(6, t, v, rev), EncodeAt(6, t, w, rev), w, Exact(6, t, w))
  BY <1>1, <1>2, FaithfulEverywhere DEF FaithfulAt
<1>4. Sound(6, t, ReaderAt(6, t, v, rev))
  BY <1>1, <1>2, SoundEverywhere DEF SoundAt
<1>5. /\ EncodeAt(6, t, w, rev) = Encode(t, w, rev)
      /\ ReaderAt(6, t, v, rev) = Reader(t, v, rev)
  BY DEF EncodeAt, ReaderAt
<1>6. Exact(6, t, w) = Good(WellFormed(t, w))
  BY TopLevel DEF Exact, Good, WellFormed
<1>. QED BY <1>3, <1>4, <1>5, <1>6

\* What a reader leaves of the object, and how its result goes with what was written.
Sane(t, x) == IsResult(x) /\ Holds(t, x.object, TRUE)

Follows(x, e, w, good, ts) ==
    /\ Agrees(x.ok, x.rest, e, good, ts)
    /\ x.ok => x.object = w

LEMMA DecodeIs ==
    ASSUME NEW t \in Types, NEW rev \in BOOLEAN,
           NEW w, Holds(t, w, FALSE), NEW v, Holds(t, v, TRUE), NEW ts \in Tokens
    PROVE  /\ Sane(t, Decode(t, ts, v, rev))
           /\ Comparable(ts, Encode(t, w, rev)) =>
                Follows(Decode(t, ts, v, rev), Encode(t, w, rev), w, Good(WellFormed(t, w)), ts)
<1>. DEFINE r == Reader(t, v, rev)
            e == Encode(t, w, rev)
            good == Good(WellFormed(t, w))
<1>1. e \in Part /\ Faithful(r, e, w, good) /\ Sound(6, t, r)
  BY CodecIs
<1>2. Decode(t, ts, v, rev) = r[ts]
  BY DEF Decode
<1>. HIDE DEF r, e, good
<1>3. IsResult(r[ts])
  BY <1>1, ReaderElim DEF Sound
<1>4. Holds(t, r[ts].object, TRUE)
  <2>1. HoldsAt(6, t, r[ts].object, TRUE)
    BY <1>1 DEF Sound
  <2>. QED BY <2>1, TopLevel
<1>5. Comparable(ts, e) => Follows(r[ts], e, w, good, ts)
  BY <1>1 DEF Faithful, Follows
<1>6. Sane(t, r[ts])
  BY <1>3, <1>4 DEF Sane
<1>. QED BY <1>2, <1>5, <1>6 DEF e, good

\* The message of an encoder, whole, cut short or with a number replaced.
Written(e, m, whole, short) ==
    /\ encoded = e.ok
    /\ whole => m = e.tokens
    /\ short => \E rest \in Tokens : rest # <<>> /\ e.tokens = m \o rest

ExchangeInv ==
    /\ type \in Types /\ reversed \in BOOLEAN
    /\ Holds(type, sent, FALSE)
    /\ Holds(type, target, TRUE)
    /\ message \in Tokens
    /\ encoded \in BOOLEAN /\ arrived \in BOOLEAN
    /\ cut => ~intact
    /\ pc \in {"encode", "transport", "done"}
    /\ pc = "encode" => intact
    /\ pc # "encode" => Written(Encode(type, sent, reversed), message, intact, cut)
    /\ pc # "done" => ~arrived
    /\ RoundTrip
    /\ NothingBrokenArrives

LEMMA ExchangeInit == Init => ExchangeInv
<1>. SUFFICES ASSUME Init PROVE ExchangeInv
  OBVIOUS
<1>1. type \in Types /\ reversed \in BOOLEAN /\ sent \in Samples[type]
  BY DEF Init
<1>2. Holds(type, sent, FALSE)
  BY <1>1, ExchangeAssumption
<1>3. Holds(type, target, TRUE)
  BY DEF Init, WellFormed
<1>4. message \in Tokens
  BY TokensConcat DEF Init
<1>. QED BY <1>1, <1>2, <1>3, <1>4 DEF Init, ExchangeInv, RoundTrip, NothingBrokenArrives

LEMMA EncodeKeeps == ASSUME ExchangeInv, EncodeMessage PROVE ExchangeInv'
<1>. DEFINE e == Encode(type, sent, reversed)
<1>1. e \in Part
  BY CodecIs DEF ExchangeInv
<1>2. e' = e
  BY DEF EncodeMessage
<1>3. message' = e.tokens /\ encoded' = e.ok
  BY DEF EncodeMessage
<1>. HIDE DEF e
<1>4. message' \in Tokens /\ encoded' \in BOOLEAN
  BY <1>1, <1>3 DEF Part
<1>5. intact /\ ~cut /\ ~arrived
  BY DEF ExchangeInv, EncodeMessage
<1>6. Written(e, message, intact, cut)'
  BY <1>2, <1>3, <1>5 DEF Written, EncodeMessage
<1>. QED BY <1>4, <1>5, <1>6 DEF ExchangeInv, EncodeMessage, RoundTrip, NothingBrokenArrives, e

BeginningOf(m, short) ==
    short \in Tokens /\ \E rest \in Tokens : rest # <<>> /\ m = short \o rest

LEMMA CutIs ==
    ASSUME NEW m \in Tokens, NEW n \in 0 .. Len(m) - 1
    PROVE  BeginningOf(m, SubSeq(m, 1, n))
<1>. DEFINE a == SubSeq(m, 1, n)
            b == SubSeq(m, n + 1, Len(m))
<1>1. m \in Seq(Token) /\ Len(m) \in Nat /\ \A i \in 1 .. Len(m) : m[i] \in Token
  BY LenProperties, ElementOfSeq DEF Tokens
<1>2. /\ a \in Seq(Token) /\ Len(a) = n
      /\ \A i \in 1 .. n : a[i] = m[i]
  BY <1>1, SubSeqProperties
<1>3. /\ b \in Seq(Token) /\ Len(b) = Len(m) - n
      /\ \A i \in 1 .. Len(m) - n : b[i] = m[n + i]
  BY <1>1, SubSeqProperties
<1>. HIDE DEF a, b
<1>4. /\ a \o b \in Seq(Token) /\ Len(a \o b) = Len(m)
      /\ \A i \in 1 .. Len(m) : (a \o b)[i] = IF i <= n THEN a[i] ELSE b[i - n]
  <2>1. /\ a \o b \in Seq(Token) /\ Len(a \o b) = Len(a) + Len(b)
        /\ \A i \in 1 .. Len(a) + Len(b) : (a \o b)[i] = IF i <= Len(a) THEN a[i] ELSE b[i - Len(a)]
    BY <1>2, <1>3, ConcatProperties
  <2>2. Len(a) + Len(b) = Len(m)
    BY <1>1, <1>2, <1>3
  <2>. QED BY <1>2, <2>1, <2>2
<1>5. \A i \in 1 .. Len(m) : (a \o b)[i] = m[i]
  <2>. TAKE i \in 1 .. Len(m)
  <2>1. CASE i <= n
    BY <1>1, <1>2, <1>4, <2>1
  <2>2. CASE ~(i <= n)
    <3>1. i - n \in 1 .. Len(m) - n /\ n + (i - n) = i
      BY <1>1, <2>2
    <3>. QED BY <1>3, <1>4, <2>2, <3>1
  <2>. QED BY <2>1, <2>2
<1>6. m = a \o b
  BY <1>1, <1>4, <1>5, SeqEqual
<1>7. b # <<>>
  BY <1>1, <1>3
<1>. QED BY <1>2, <1>3, <1>6, <1>7 DEF BeginningOf, Tokens, a

LEMMA CutKeeps == ASSUME ExchangeInv, Cut PROVE ExchangeInv'
<1>. DEFINE e == Encode(type, sent, reversed)
<1>1. message = e.tokens /\ encoded = e.ok /\ message \in Tokens
  BY DEF ExchangeInv, Cut, Written
<1>2. PICK n \in 0 .. Len(message) - 1 : message' = SubSeq(message, 1, n)
  BY DEF Cut
<1>3. e' = e
  BY DEF Cut
<1>. HIDE DEF e
<1>4. message' \in Tokens /\ \E rest \in Tokens : rest # <<>> /\ e.tokens = message' \o rest
  <2>1. BeginningOf(message, message')
    BY <1>1, <1>2, CutIs
  <2>. QED BY <1>1, <2>1 DEF BeginningOf
<1>5. Written(e, message, intact, cut)'
  BY <1>1, <1>3, <1>4 DEF Written, Cut
<1>. QED BY <1>4, <1>5 DEF ExchangeInv, Cut, RoundTrip, NothingBrokenArrives, e

LEMMA ReplaceKeeps == ASSUME ExchangeInv, Replace PROVE ExchangeInv'
<1>. DEFINE e == Encode(type, sent, reversed)
<1>1. PICK i \in DOMAIN message, n \in Replacements :
         message[i].token = "number" /\ message' = [message EXCEPT ![i].of = n]
  BY DEF Replace
<1>2. message' \in Tokens
  <2>1. message \in Seq(Token) /\ n \in Nat
    BY ExchangeAssumption DEF ExchangeInv, Tokens
  <2>2. message[i] \in Token /\ i \in 1 .. Len(message) /\ Len(message) \in Nat
        /\ message \in [1 .. Len(message) -> Token]
    BY <2>1, LenProperties
  <2>. DEFINE tok == [message[i] EXCEPT !.of = n]
  <2>3. tok \in Token
    BY <1>1, <2>1, <2>2 DEF Token
  <2>4. message' = [message EXCEPT ![i] = tok]
    BY <1>1
  <2>. HIDE DEF tok
  <2>5. message' \in [1 .. Len(message) -> Token]
    BY <2>2, <2>3, <2>4
  <2>. QED BY <2>2, <2>5 DEF Tokens
<1>3. e' = e
  BY DEF Replace
<1>4. encoded = e.ok
  BY DEF ExchangeInv, Replace, Written
<1>5. ~cut /\ ~intact' /\ ~cut'
  BY DEF ExchangeInv, Replace
<1>. HIDE DEF e
<1>6. Written(e, message, intact, cut)'
  BY <1>3, <1>4, <1>5 DEF Written, Replace
<1>. QED BY <1>2, <1>5, <1>6 DEF ExchangeInv, Replace, RoundTrip, NothingBrokenArrives, e

LEMMA DecodeKeeps == ASSUME ExchangeInv, DecodeMessage PROVE ExchangeInv'
<1>. DEFINE e == Encode(type, sent, reversed)
            x == Decode(type, message, target, reversed)
            good == Good(WellFormed(type, sent))
<1>1. /\ type \in Types /\ reversed \in BOOLEAN /\ message \in Tokens
      /\ Holds(type, sent, FALSE) /\ Holds(type, target, TRUE)
      /\ Written(e, message, intact, cut)
  BY DEF ExchangeInv, DecodeMessage
<1>2. e \in Part
  BY <1>1, CodecIs
<1>3. Sane(type, x) /\ (Comparable(message, e) => Follows(x, e, sent, good, message))
  BY <1>1, DecodeIs
<1>4. target' = x.object /\ arrived' = (x.ok /\ x.rest = <<>>)
  BY DEF DecodeMessage
<1>5. e' = e
  BY DEF DecodeMessage
<1>6. good <=> WellFormed(type, sent)
  BY DEF Good
<1>. HIDE DEF e, x, good
<1>7. e.tokens \in Tokens /\ e.ok \in BOOLEAN
  BY <1>2 DEF Part
<1>8. x.ok \in BOOLEAN /\ x.rest \in Tokens /\ Holds(type, x.object, TRUE)
  BY <1>3 DEF Sane, IsResult
<1>9. ASSUME intact
      PROVE  /\ arrived' => encoded /\ WellFormed(type, sent)
             /\ encoded /\ WellFormed(type, sent) => arrived' /\ target' = sent
  <2>1. message = e.tokens /\ encoded = e.ok
    BY <1>1, <1>9 DEF Written
  <2>2. Begins(e.tokens, message) /\ Begins(message, e.tokens)
    BY <1>7, <2>1, TokensConcat DEF Begins
  <2>3. Follows(x, e, sent, good, message)
    BY <1>3, <2>2 DEF Comparable
  <2>4. arrived' => encoded /\ WellFormed(type, sent)
    BY <1>4, <1>6, <2>1, <2>3 DEF Follows, Agrees
  <2>5. ASSUME encoded, WellFormed(type, sent) PROVE arrived' /\ target' = sent
    <3>1. x.ok /\ x.object = sent /\ message = e.tokens \o x.rest
      BY <1>6, <2>1, <2>2, <2>3, <2>5 DEF Follows, Agrees
    <3>2. x.rest = <<>>
      BY <1>7, <1>8, <2>1, <3>1, TokensCancel
    <3>. QED BY <1>4, <3>1, <3>2
  <2>. QED BY <2>4, <2>5
<1>10. ASSUME cut PROVE ~arrived'
  <2>1. PICK rest \in Tokens : rest # <<>> /\ e.tokens = message \o rest
    BY <1>1, <1>10 DEF Written
  <2>2. Begins(message, e.tokens)
    BY <2>1 DEF Begins
  <2>3. Follows(x, e, sent, good, message)
    BY <1>3, <2>2 DEF Comparable
  <2>4. ASSUME x.ok PROVE FALSE
    <3>1. message = e.tokens \o x.rest
      BY <2>3, <2>4 DEF Follows, Agrees
    <3>2. message = message \o (rest \o x.rest) /\ rest \o x.rest \in Tokens
      <4>1. message = (message \o rest) \o x.rest
        BY <2>1, <3>1
      <4>2. (message \o rest) \o x.rest = message \o (rest \o x.rest) /\ rest \o x.rest \in Tokens
        BY <1>1, <1>8, TokensConcat
      <4>. QED BY <4>1, <4>2, Zenon
    <3>. DEFINE more == rest \o x.rest
    <3>3. message \o more = message /\ more \in Tokens
      BY <3>2
    <3>. HIDE DEF more
    <3>4. more = <<>>
      BY <1>1, <3>3, TokensCancel
    <3>5. rest = <<>>
      BY <1>8, <3>4, TokensCancel DEF more
    <3>. QED BY <2>1, <3>5
  <2>. QED BY <1>4, <2>4
<1>11. Written(e, message, intact, cut)'
  BY <1>1, <1>5 DEF Written, DecodeMessage
<1>12. /\ type' = type /\ reversed' = reversed /\ sent' = sent /\ message' = message
       /\ encoded' = encoded /\ intact' = intact /\ cut' = cut /\ pc' = "done"
  BY DEF DecodeMessage
<1>13. RoundTrip' /\ NothingBrokenArrives'
  BY <1>9, <1>10, <1>12 DEF RoundTrip, NothingBrokenArrives
<1>14. Holds(type, target, TRUE)' /\ arrived' \in BOOLEAN
  BY <1>4, <1>8, <1>12
<1>. QED BY <1>11, <1>12, <1>13, <1>14 DEF ExchangeInv, e

LEMMA ExchangeNext == ASSUME ExchangeInv, [Next]_vars PROVE ExchangeInv'
<1>1. CASE UNCHANGED vars
  BY <1>1 DEF ExchangeInv, vars, Written, RoundTrip, NothingBrokenArrives
<1>. QED BY <1>1, EncodeKeeps, CutKeeps, ReplaceKeeps, DecodeKeeps DEF Next

LEMMA Exchanged == Spec => []ExchangeInv
<1>1. Init => ExchangeInv
  BY ExchangeInit
<1>2. ExchangeInv /\ [Next]_vars => ExchangeInv'
  BY ExchangeNext
<1>. QED BY <1>1, <1>2, PTL DEF Spec

\* What is read is what was written (codec_traits, KuduScan.h:212-582), for
\* values of any size, any atoms and any earlier value of the object.
THEOREM RoundTripHolds == Spec => []RoundTrip
<1>1. ExchangeInv => RoundTrip
  BY DEF ExchangeInv
<1>. QED BY <1>1, Exchanged, PTL

\* No reader gets to the end of a message that was cut short, or of a value with
\* a number out of bounds (the tests of KuduScan.h:404-424), whatever its size.
THEOREM NothingBrokenArrivesHolds == Spec => []NothingBrokenArrives
<1>1. ExchangeInv => NothingBrokenArrives
  BY DEF ExchangeInv
<1>. QED BY <1>1, Exchanged, PTL

\* A reader that throws leaves its object well formed, and one that does not
\* makes it so (the decode of KuduScan.h:341-358, 492-515), whatever the tokens
\* and wherever it stops.
THEOREM TargetStaysWellFormedHolds == Spec => []TargetStaysWellFormed
<1>1. ExchangeInv => TargetStaysWellFormed
  BY DEF ExchangeInv, TargetStaysWellFormed, WellFormed
<1>. QED BY <1>1, Exchanged, PTL

=============================================================================
