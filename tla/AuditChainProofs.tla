-------------------------- MODULE AuditChainProofs --------------------------
(***************************************************************************)
(* Proofs about AuditChain, for every set of writers and payloads, every   *)
(* hash function and every bound.  The argument: the committed rows are    *)
(* always 1 .. n, an open unit of work extends some row of them, and of    *)
(* the units that were let in by the primary key no two hold one number.   *)
(***************************************************************************)
EXTENDS AuditChain, SequenceTheorems, TLAPS

\* The committed rows have the numbers 1 .. n.
Contiguous == \E n \in 0 .. MaxRows : DOMAIN table = 1 .. n

\* Every committed row carries the hash of the row numbered one less.
Linked ==
  \A s \in DOMAIN table :
    /\ table[s].prev = HashAt(s - 1)
    /\ table[s].hash = Hash(s, HashAt(s - 1), table[s].payload)

\* An open unit of work follows a row that is committed, with that row's hash.
Follows(w) ==
  pc[w] \in {"built", "inserted"} =>
    /\ seq[w] \in 1 .. MaxRows
    /\ seq[w] - 1 \in DOMAIN table \cup {0}
    /\ prev[w] = HashAt(seq[w] - 1)

\* A unit that was let in holds a number nobody has committed or holds.
Holds(w) ==
  pc[w] = "inserted" =>
    /\ seq[w] \notin DOMAIN table
    /\ \A v \in Writers : v # w /\ pc[v] = "inserted" => seq[v] # seq[w]

Inv ==
  /\ TypeOK
  /\ Contiguous
  /\ Linked
  /\ \A w \in Writers : Follows(w)
  /\ \A w \in Writers : Holds(w)

-----------------------------------------------------------------------------
(* What the read of the latest row finds *)

\* Of rows 1 .. n the newest one below b is the one numbered one less, or the
\* last one.
LEMMA NewestBelow ==
  ASSUME NEW n \in Nat, NEW b \in Nat \ {0}
  PROVE  (CHOOSE s \in (1 .. n \cap 1 .. b - 1) \cup {0} :
            \A t \in 1 .. n \cap 1 .. b - 1 : t <= s)
         = IF b - 1 <= n THEN b - 1 ELSE n
<1> DEFINE Below == (1 .. n \cap 1 .. b - 1) \cup {0}
           Newest(s) == \A t \in 1 .. n \cap 1 .. b - 1 : t <= s
           top == IF b - 1 <= n THEN b - 1 ELSE n
<1>1. top \in Below /\ Newest(top)
  OBVIOUS
<1>2. \A s \in Below : Newest(s) => s = top
  OBVIOUS
<1> HIDE DEF Below, Newest, top
<1>3. (CHOOSE s \in Below : Newest(s)) = top
  BY <1>1, <1>2
<1> QED BY <1>3 DEF Below, Newest, top

LEMMA LastBelowIs ==
  ASSUME NEW n \in Nat, NEW b \in Nat \ {0}
  PROVE  /\ DOMAIN table = 1 .. n =>
              LastBelow(b) = IF b - 1 <= n THEN b - 1 ELSE n
         /\ DOMAIN table' = 1 .. n =>
              LastBelow(b)' = IF b - 1 <= n THEN b - 1 ELSE n
BY NewestBelow DEF LastBelow

\* A function on 1 .. n + 1 that agrees with one on 1 .. n appends its last value.
LEMMA ExtensionAppends ==
  ASSUME NEW S, NEW n \in Nat, NEW f \in [1 .. n -> S],
         NEW g \in [1 .. n + 1 -> S], \A i \in 1 .. n : g[i] = f[i]
  PROVE  g = Append(f, g[n + 1])
<1>1. f \in Seq(S) /\ g \in Seq(S)
  BY SeqDef
<1>2. Len(f) = n
  <2>1. DOMAIN f = 1 .. Len(f) /\ DOMAIN f = 1 .. n /\ Len(f) \in Nat
    BY <1>1, LenProperties
  <2> QED BY <2>1
<1>3. Len(g) = n + 1
  <2>1. DOMAIN g = 1 .. Len(g) /\ DOMAIN g = 1 .. n + 1 /\ Len(g) \in Nat
    BY <1>1, LenProperties
  <2>2. n + 1 \in 1 .. Len(g) /\ Len(g) \in 0 .. n + 1
    BY <2>1
  <2> QED BY <2>1, <2>2
<1>4. g[n + 1] \in S
  OBVIOUS
<1>5. \A i \in 1 .. n + 1 : g[i] = Append(f, g[n + 1])[i]
  BY <1>1, <1>2, <1>4, AppendProperties
<1>6. Append(f, g[n + 1]) \in Seq(S) /\ Len(Append(f, g[n + 1])) = n + 1
  BY <1>1, <1>2, <1>4, AppendProperties
<1> QED BY <1>1, <1>3, <1>5, <1>6, SeqEqual

LEMMA InitInv == ASSUME Init PROVE Inv
<1>1. TypeOK
  BY ChainAssumption DEF Init, TypeOK
<1>2. DOMAIN table = 1 .. 0 /\ 0 \in 0 .. MaxRows
  BY ChainAssumption DEF Init
<1>3. Contiguous
  BY <1>2 DEF Contiguous
<1>4. Linked
  BY <1>2 DEF Linked
<1>5. \A w \in Writers : Follows(w) /\ Holds(w)
  BY DEF Init, Follows, Holds
<1> QED BY <1>1, <1>3, <1>4, <1>5 DEF Inv

\* A step that leaves the table alone leaves what is said of it alone.
LEMMA TableUntouched ==
  ASSUME Inv, UNCHANGED table
  PROVE  Contiguous' /\ Linked'
BY DEF Inv, Contiguous, Linked, HashAt

LEMMA BuildInv ==
  ASSUME Inv, NEW w \in Writers, NEW x \in Payloads, Build(w, x)
  PROVE  Inv'
<1>1. PICK n \in 0 .. MaxRows : DOMAIN table = 1 .. n
  BY DEF Inv, Contiguous
<1>2. LastBelow(MaxRows + 1) = n
  BY <1>1, LastBelowIs, ChainAssumption
<1>3. /\ pc[w] = "idle" /\ n < MaxRows
      /\ seq' = [seq EXCEPT ![w] = n + 1]
      /\ prev' = [prev EXCEPT ![w] = HashAt(n)]
      /\ payload' = [payload EXCEPT ![w] = x]
      /\ pc' = [pc EXCEPT ![w] = "built"]
      /\ UNCHANGED <<table, rollbacks>>
  BY <1>2 DEF Build
<1>4. TypeOK'
  <2>1. seq' \in [Writers -> 0 .. MaxRows]
    BY <1>3, ChainAssumption DEF Inv, TypeOK
  <2>2. prev' = [v \in Writers |-> prev'[v]]
    BY <1>3 DEF Inv, TypeOK
  <2>3. /\ pc' \in [Writers -> {"idle", "built", "inserted"}]
        /\ payload' \in [Writers -> Payloads]
    BY <1>3 DEF Inv, TypeOK
  <2> QED BY <1>3, <2>1, <2>2, <2>3 DEF Inv, TypeOK
<1>5. ASSUME NEW v \in Writers PROVE Follows(v)'
  BY <1>1, <1>3, ChainAssumption DEF Inv, TypeOK, Follows, HashAt
<1>6. ASSUME NEW v \in Writers PROVE Holds(v)'
  BY <1>3 DEF Inv, TypeOK, Holds
<1> QED BY <1>3, <1>4, <1>5, <1>6, TableUntouched DEF Inv

LEMMA InsertInv ==
  ASSUME Inv, NEW w \in Writers, Insert(w)
  PROVE  Inv'
<1>1. TypeOK'
  BY DEF Inv, TypeOK, Insert, unit
<1>2. ASSUME NEW v \in Writers PROVE Follows(v)'
  BY DEF Inv, TypeOK, Follows, HashAt, Insert, unit
<1>3. ASSUME NEW v \in Writers PROVE Holds(v)'
  BY DEF Inv, TypeOK, Holds, KeyFree, Insert, unit
<1> QED BY <1>1, <1>2, <1>3, TableUntouched DEF Inv, Insert

\* A unit that ends without a row, by a refused insert or a rollback.
LEMMA AbandonInv ==
  ASSUME Inv, NEW w \in Writers, Refuse(w) \/ Rollback(w)
  PROVE  Inv'
<1>1. /\ pc' = [pc EXCEPT ![w] = "idle"]
      /\ UNCHANGED <<table, seq, prev, payload>>
      /\ rollbacks' \in 0 .. MaxRollbacks
  BY ChainAssumption DEF Inv, TypeOK, Refuse, Rollback, unit
<1>2. TypeOK'
  BY <1>1 DEF Inv, TypeOK
<1>3. ASSUME NEW v \in Writers PROVE Follows(v)'
  BY <1>1 DEF Inv, TypeOK, Follows, HashAt
<1>4. ASSUME NEW v \in Writers PROVE Holds(v)'
  BY <1>1 DEF Inv, TypeOK, Holds
<1> QED BY <1>1, <1>2, <1>3, <1>4, TableUntouched DEF Inv

\* A commit puts row n + 1 behind the rows 1 .. n.
LEMMA CommitExtends ==
  ASSUME Inv, NEW w \in Writers, Commit(w),
         NEW n \in 0 .. MaxRows, DOMAIN table = 1 .. n
  PROVE  /\ seq[w] = n + 1 /\ n < MaxRows
         /\ DOMAIN table' = 1 .. n + 1
         /\ \A s \in 1 .. n : table'[s] = table[s]
         /\ table'[n + 1] = [prev |-> prev[w], payload |-> payload[w],
                             hash |-> Hash(n + 1, prev[w], payload[w])]
         /\ prev[w] = HashAt(n)
<1>1. seq[w] = n + 1 /\ n < MaxRows /\ prev[w] = HashAt(n)
  BY ChainAssumption DEF Inv, TypeOK, Follows, Holds, Commit
<1>2. table' = [s \in 1 .. n + 1 |->
                  IF s = n + 1
                  THEN [prev |-> prev[w], payload |-> payload[w],
                        hash |-> Hash(n + 1, prev[w], payload[w])]
                  ELSE table[s]]
  <2>1. 1 .. n \cup {n + 1} = 1 .. n + 1
    OBVIOUS
  <2> QED BY <1>1, <2>1 DEF Commit
<1> QED BY <1>1, <1>2

LEMMA CommitInv ==
  ASSUME Inv, NEW w \in Writers, Commit(w)
  PROVE  Inv'
<1>1. PICK n \in 0 .. MaxRows : DOMAIN table = 1 .. n
  BY DEF Inv, Contiguous
<1>2. /\ seq[w] = n + 1 /\ n < MaxRows
      /\ DOMAIN table' = 1 .. n + 1
      /\ \A s \in 1 .. n : table'[s] = table[s]
      /\ table'[n + 1] = [prev |-> prev[w], payload |-> payload[w],
                          hash |-> Hash(n + 1, prev[w], payload[w])]
      /\ prev[w] = HashAt(n)
  BY <1>1, CommitExtends
<1>3. pc' = [pc EXCEPT ![w] = "idle"] /\ UNCHANGED <<seq, prev, payload, rollbacks>>
  BY DEF Commit, unit
<1>4. \A s \in 0 .. n : HashAt(s)' = HashAt(s)
  BY <1>2 DEF HashAt
<1>5. TypeOK'
  <2>1. table' = [s \in DOMAIN table' |-> table'[s]]
    BY DEF Commit
  <2>2. ASSUME NEW s \in DOMAIN table' PROVE table'[s].payload \in Payloads
    <3>1. CASE s = n + 1
      <4>1. payload[w] \in Payloads
        BY DEF Inv, TypeOK
      <4> QED BY <1>2, <3>1, <4>1
    <3>2. CASE s \in 1 .. n
      <4>1. table[s].payload \in Payloads
        BY <1>1, <3>2 DEF Inv, TypeOK
      <4> QED BY <1>2, <3>2, <4>1
    <3> QED BY <1>2, <3>1, <3>2
  <2> QED BY <1>2, <1>3, <2>1, <2>2, ChainAssumption DEF Inv, TypeOK
<1>6. Contiguous'
  BY <1>2, ChainAssumption DEF Contiguous
<1>7. Linked'
  <2> SUFFICES ASSUME NEW s \in 1 .. n + 1
               PROVE  /\ table'[s].prev = HashAt(s - 1)'
                      /\ table'[s].hash = Hash(s, HashAt(s - 1)', table'[s].payload)
    BY <1>2 DEF Linked
  <2>1. HashAt(s - 1)' = HashAt(s - 1)
    BY <1>4
  <2>2. CASE s = n + 1
    BY <1>2, <2>1, <2>2
  <2>3. CASE s \in 1 .. n
    BY <1>1, <1>2, <2>1, <2>3 DEF Inv, Linked
  <2> QED BY <2>2, <2>3
<1>8. ASSUME NEW v \in Writers PROVE Follows(v)'
  <2> SUFFICES ASSUME pc'[v] \in {"built", "inserted"}
               PROVE  /\ seq[v] \in 1 .. MaxRows
                      /\ seq[v] - 1 \in DOMAIN table' \cup {0}
                      /\ prev[v] = HashAt(seq[v] - 1)'
    BY <1>3 DEF Follows
  <2>1. /\ seq[v] \in 1 .. MaxRows
        /\ seq[v] - 1 \in 0 .. n
        /\ prev[v] = HashAt(seq[v] - 1)
    BY <1>1, <1>3 DEF Inv, TypeOK, Follows
  <2>2. HashAt(seq[v] - 1)' = HashAt(seq[v] - 1)
    BY <1>2, <1>3, <2>1 DEF HashAt
  <2> QED BY <1>2, <2>1, <2>2
<1>9. ASSUME NEW v \in Writers PROVE Holds(v)'
  <2> SUFFICES ASSUME v # w, pc[v] = "inserted"
               PROVE  /\ seq[v] \notin 1 .. n + 1
                      /\ \A u \in Writers :
                           u # v /\ pc[u] = "inserted" => seq[u] # seq[v]
    BY <1>2, <1>3 DEF Inv, TypeOK, Holds
  <2>1. seq[v] # seq[w] /\ seq[v] \notin 1 .. n
    BY <1>1 DEF Inv, Holds, Commit
  <2>2. seq[v] \in Nat
    BY DEF Inv, TypeOK
  <2> QED BY <1>2, <2>1, <2>2 DEF Inv, Holds
<1> QED BY <1>5, <1>6, <1>7, <1>8, <1>9 DEF Inv

LEMMA StutterInv == ASSUME Inv, UNCHANGED vars PROVE Inv'
BY DEF Inv, TypeOK, Contiguous, Linked, Follows, Holds, HashAt, vars, unit

LEMMA NextInv == ASSUME Inv, [Next]_vars PROVE Inv'
BY BuildInv, InsertInv, AbandonInv, CommitInv, StutterInv DEF Next, Work

LEMMA InvAlways == Spec => []Inv
BY InitInv, NextInv, PTL DEF Spec

-----------------------------------------------------------------------------
(* The theorems *)

\* Rows are numbered 1 .. MaxRows and no unit of work leaves its types.
THEOREM TypeCorrect == Spec => []TypeOK
<1>1. Inv => TypeOK
  BY DEF Inv
<1> QED BY <1>1, InvAlways, PTL

\* Rolled back and refused units of work leave no gap in the numbers.
THEOREM NumbersHaveNoGap == Spec => []NoGap
<1>1. Inv => NoGap
  BY DEF Inv, Contiguous, NoGap
<1> QED BY <1>1, InvAlways, PTL

\* verify_chain returns True in every committed state.
THEOREM ChainAlwaysVerifies == Spec => []ChainVerifies
<1>1. ASSUME Inv PROVE ChainVerifies
  <2>1. PICK n \in 0 .. MaxRows : DOMAIN table = 1 .. n
    BY <1>1 DEF Inv, Contiguous
  <2>2. \A s \in DOMAIN table : LastBelow(s) = s - 1
    BY <2>1, LastBelowIs
  <2> QED BY <1>1, <2>2 DEF Inv, Linked, ChainVerifies
<1> QED BY <1>1, InvAlways, PTL

\* No appender overwrites or removes a committed row.
THEOREM CommittedRowsAreFinal == Spec => RowsAreFinal
<1> DEFINE Final ==
      \A s \in DOMAIN table : s \in DOMAIN table' /\ table'[s] = table[s]
<1>1. ASSUME Inv, [Next]_vars PROVE Final
  <2>1. PICK n \in 0 .. MaxRows : DOMAIN table = 1 .. n
    BY <1>1 DEF Inv, Contiguous
  <2>2. ASSUME NEW w \in Writers, Commit(w) PROVE Final
    <3>1. DOMAIN table' = 1 .. n + 1 /\ \A s \in 1 .. n : table'[s] = table[s]
      BY <1>1, <2>1, <2>2, CommitExtends
    <3> QED BY <2>1, <3>1
  <2>3. CASE UNCHANGED table
    BY <2>3
  <2> QED
    BY <1>1, <2>2, <2>3 DEF Next, Work, Build, Insert, Refuse, Rollback, vars
<1> QED BY <1>1, InvAlways, PTL DEF Spec, RowsAreFinal

\* The chain implements the append-only log: the payloads of the committed rows
\* only ever grow by one, at the end.
THEOREM ChainImplementsLog == Spec => ImplementsLog
<1> DEFINE log == [s \in 1 .. LastBelow(MaxRows + 1) |-> table[s].payload]
<1>1. ASSUME Init PROVE Log!Init
  <2>1. DOMAIN table = 1 .. 0
    BY <1>1 DEF Init
  <2>2. LastBelow(MaxRows + 1) = 0
    BY <2>1, LastBelowIs, ChainAssumption
  <2> QED BY <2>2 DEF Log!Init
<1>2. ASSUME Inv, [Next]_vars PROVE [Log!Next]_log
  <2>1. PICK n \in 0 .. MaxRows : DOMAIN table = 1 .. n
    BY <1>2 DEF Inv, Contiguous
  <2>2. LastBelow(MaxRows + 1) = n
    BY <2>1, LastBelowIs, ChainAssumption
  <2>3. ASSUME NEW w \in Writers, Commit(w) PROVE Log!Next
    <3> DEFINE before == [s \in 1 .. n |-> table[s].payload]
               after == [s \in 1 .. n + 1 |-> table'[s].payload]
    <3>1. /\ DOMAIN table' = 1 .. n + 1
          /\ \A s \in 1 .. n : table'[s] = table[s]
          /\ table'[n + 1] = [prev |-> prev[w], payload |-> payload[w],
                              hash |-> Hash(n + 1, prev[w], payload[w])]
          /\ n < MaxRows
      BY <1>2, <2>1, <2>3, CommitExtends
    <3>2. LastBelow(MaxRows + 1)' = n + 1
      BY <3>1, LastBelowIs, ChainAssumption
    <3>3. log = before /\ log' = after
      BY <2>2, <3>2
    <3>4. payload[w] \in Payloads
      BY <1>2 DEF Inv, TypeOK
    <3>5. after = Append(before, payload[w])
      <4>1. before \in [1 .. n -> Payloads]
        BY <1>2, <2>1 DEF Inv, TypeOK
      <4>2. \A s \in 1 .. n : after[s] = before[s]
        BY <3>1
      <4>3. after[n + 1] = payload[w]
        BY <3>1
      <4>4. \A s \in 1 .. n + 1 : after[s] \in Payloads
        <5> SUFFICES ASSUME NEW s \in 1 .. n + 1 PROVE after[s] \in Payloads
          OBVIOUS
        <5> HIDE DEF before, after
        <5>1. s = n + 1 \/ s \in 1 .. n
          OBVIOUS
        <5> QED BY <3>4, <4>1, <4>2, <4>3, <5>1
      <4>5. after = [s \in 1 .. n + 1 |-> after[s]]
        OBVIOUS
      <4> HIDE DEF before, after
      <4>6. after \in [1 .. n + 1 -> Payloads]
        BY <4>4, <4>5
      <4> QED BY <4>1, <4>2, <4>3, <4>6, ExtensionAppends
    <3>6. log' = Append(log, payload[w])
      BY <3>3, <3>5
    <3> QED BY <3>4, <3>6 DEF Log!Next, Log!Record
  <2>4. CASE UNCHANGED table
    BY <2>4 DEF LastBelow
  <2> QED
    BY <1>2, <2>3, <2>4 DEF Next, Work, Build, Insert, Refuse, Rollback, vars
<1> QED BY <1>1, <1>2, InvAlways, PTL DEF Spec, ImplementsLog, Log!Spec

=============================================================================
