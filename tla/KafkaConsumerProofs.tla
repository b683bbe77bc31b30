------------------------ MODULE KafkaConsumerProofs ------------------------
(* Proofs about KafkaConsumer, for any group, any partitions and any faults. *)
EXTENDS KafkaConsumer, FiniteSetTheorems, TLAPS

\* What makes the commit safe: all records up to a position have ended, but for
\* the one in the owner's handler, and no commit is sent from inside a handler.
PositionEnded ==
  \A p \in Partitions : \A o \in 1 .. position[p] :
    <<p, o>> \in Ended \cup current[owner[p]]

OneAtATime == \A m \in Members : pc[m] # "handle" => current[m] = {}

CommittedBehind == \A p \in Partitions : committed[p] <= position[p]

Inv == TypeOK /\ NoRecordSkipped /\ PositionEnded /\ OneAtATime /\ CommittedBehind

LEMMA InitInv == Init => Inv
BY ConsumerAssumption
DEF Init, Inv, TypeOK, NoRecordSkipped, PositionEnded, OneAtATime, CommittedBehind,
    Ended, Records

LEMMA TypeStep == TypeOK /\ [Next]_vars => TypeOK'
<1> SUFFICES ASSUME TypeOK, [Next]_vars PROVE TypeOK'
  OBVIOUS
<1> USE ConsumerAssumption DEF TypeOK, broker, results, faults
<1>1. ASSUME NEW p \in Partitions, Produce(p) PROVE TypeOK'
  BY <1>1 DEF Produce
<1>2. ASSUME NEW m \in Members, NEW p \in Partitions, Take(m, p) PROVE TypeOK'
  BY <1>2 DEF Take, Records
<1>3. ASSUME NEW m \in Members, HandlerReturns(m) PROVE TypeOK'
  BY <1>3 DEF HandlerReturns
<1>4. ASSUME NEW m \in Members, HandlerRaises(m) PROVE TypeOK'
  BY <1>4 DEF HandlerRaises, EndOfBody, Assign, Alive
<1>5. ASSUME NEW m \in Members, Commit(m) PROVE TypeOK'
  BY <1>5 DEF Commit, EndOfBody, Assign, Alive
<1>6. ASSUME NEW m \in Members, CommitRaises(m) PROVE TypeOK'
  BY <1>6 DEF CommitRaises, EndOfBody, Assign, Alive
<1>7. ASSUME NEW m \in Members, RequestStop(m) PROVE TypeOK'
  BY <1>7 DEF RequestStop
<1>8. ASSUME NEW m \in Members, Crash(m) PROVE TypeOK'
  BY <1>8 DEF Crash, Assign, Alive
<1>9. CASE Rebalance
  BY <1>9 DEF Rebalance, Assign, Alive
<1>10. CASE UNCHANGED vars
  BY <1>10 DEF vars
<1>11. QED
  BY <1>1, <1>2, <1>3, <1>4, <1>5, <1>6, <1>7, <1>8, <1>9, <1>10 DEF Next, Loop

-----------------------------------------------------------------------------

\* Handing the partitions out at the committed offsets gives the invariant back,
\* whatever the positions were.
LEMMA AssignKeeps ==
  ASSUME TypeOK', NoRecordSkipped', OneAtATime', NEW S, Assign(S)
  PROVE  Inv'
BY DEF Inv, TypeOK, NoRecordSkipped, PositionEnded, CommittedBehind, Assign

\* No record that ended is forgotten.
LEMMA EndedGrows == [Next]_vars => Ended \subseteq Ended'
BY DEF Next, Loop, Produce, Take, HandlerReturns, HandlerRaises, Commit, CommitRaises,
       RequestStop, Crash, Rebalance, vars, results, Ended

LEMMA TakeStep ==
  ASSUME Inv, TypeOK', NEW m \in Members, NEW p \in Partitions, Take(m, p)
  PROVE  Inv'
<1>1. current[m] = {} /\ UNCHANGED Ended
  BY DEF Inv, OneAtATime, Take, results, Ended
<1>2. NoRecordSkipped' /\ CommittedBehind'
  BY <1>1 DEF Inv, TypeOK, NoRecordSkipped, CommittedBehind, Take
<1>3. OneAtATime'
  BY DEF Inv, TypeOK, OneAtATime, Take
<1>4. PositionEnded'
  <2> SUFFICES ASSUME NEW q \in Partitions, NEW o \in 1 .. position'[q]
               PROVE  <<q, o>> \in Ended' \cup current'[owner'[q]]
    BY DEF PositionEnded
  <2>1. CASE q = p /\ o = position[p] + 1
    BY <2>1 DEF Inv, TypeOK, Take
  <2>2. CASE ~(q = p /\ o = position[p] + 1)
    <3>1. o \in 1 .. position[q]
      BY <2>2 DEF Inv, TypeOK, Take
    <3>2. <<q, o>> \in Ended \cup current[owner[q]]
      BY <3>1 DEF Inv, PositionEnded
    <3>3. QED
      BY <1>1, <3>2 DEF Inv, TypeOK, Take
  <2>3. QED
    BY <2>1, <2>2
<1>5. QED
  BY <1>2, <1>3, <1>4 DEF Inv

\* The two ways a loop body ends, once its record has ended.
LEMMA EndOfBodyStep ==
  ASSUME Inv, TypeOK', NEW m \in Members, EndOfBody(m), Ended \subseteq Ended',
         current[m] \subseteq Ended', current' = [current EXCEPT ![m] = {}],
         NoRecordSkipped',
         \A p \in Partitions : committed'[p] \in {committed[p], position[p]}
  PROVE  Inv'
<1>1. OneAtATime'
  BY DEF Inv, TypeOK, OneAtATime, EndOfBody, Assign
<1>2. CASE m \in stopping
  BY <1>1, <1>2, AssignKeeps DEF EndOfBody
<1>3. CASE m \notin stopping
  <2>1. UNCHANGED <<owner, position>>
    BY <1>3 DEF EndOfBody
  <2>2. PositionEnded'
    BY <2>1 DEF Inv, TypeOK, PositionEnded
  <2>3. CommittedBehind'
    BY <2>1 DEF Inv, TypeOK, CommittedBehind
  <2>4. QED
    BY <1>1, <2>2, <2>3 DEF Inv
<1>4. QED
  BY <1>2, <1>3

LEMMA CommitStep ==
  ASSUME Inv, TypeOK', NEW m \in Members, Commit(m)
  PROVE  Inv'
<1>1. current[m] = {} /\ current' = [current EXCEPT ![m] = {}] /\ UNCHANGED Ended
  BY DEF Inv, TypeOK, OneAtATime, Commit, results, Ended
<1>2. \A p \in Partitions :
        committed'[p] = IF owner[p] = m THEN position[p] ELSE committed[p]
  BY DEF Commit
<1>3. NoRecordSkipped'
  BY <1>1, <1>2 DEF Inv, NoRecordSkipped, PositionEnded
<1>4. QED
  BY <1>1, <1>2, <1>3, EndOfBodyStep DEF Commit

LEMMA InvStep == Inv /\ [Next]_vars => Inv'
<1> SUFFICES ASSUME Inv, [Next]_vars PROVE Inv'
  OBVIOUS
<1>0. TypeOK' /\ Ended \subseteq Ended'
  BY TypeStep, EndedGrows DEF Inv
<1>a. ASSUME UNCHANGED committed PROVE NoRecordSkipped'
  BY <1>0, <1>a DEF Inv, NoRecordSkipped
<1>1. ASSUME NEW p \in Partitions, Produce(p) PROVE Inv'
  BY <1>0, <1>1
  DEF Inv, NoRecordSkipped, PositionEnded, OneAtATime, CommittedBehind, Produce,
      results, Ended
<1>2. ASSUME NEW m \in Members, NEW p \in Partitions, Take(m, p) PROVE Inv'
  BY <1>0, <1>2, TakeStep
<1>3. ASSUME NEW m \in Members, HandlerReturns(m) PROVE Inv'
  <2>1. PositionEnded'
    BY <1>3 DEF HandlerReturns, Inv, TypeOK, PositionEnded, broker, Ended
  <2>2. OneAtATime'
    BY <1>3 DEF HandlerReturns, Inv, TypeOK, OneAtATime
  <2>3. UNCHANGED <<committed, position>>
    BY <1>3 DEF HandlerReturns, broker
  <2>4. QED
    BY <1>0, <1>a, <2>1, <2>2, <2>3 DEF Inv, CommittedBehind
<1>4. ASSUME NEW m \in Members, HandlerRaises(m) PROVE Inv'
  <2>1. current[m] \subseteq Ended'
    BY <1>4 DEF HandlerRaises, Ended
  <2>2. QED
    BY <1>0, <1>4, <1>a, <2>1, EndOfBodyStep DEF HandlerRaises
<1>5. ASSUME NEW m \in Members, Commit(m) PROVE Inv'
  BY <1>0, <1>5, CommitStep
<1>6. ASSUME NEW m \in Members, CommitRaises(m) PROVE Inv'
  <2>1. current[m] = {} /\ current' = [current EXCEPT ![m] = {}]
    BY <1>6 DEF CommitRaises, Inv, TypeOK, OneAtATime
  <2>2. QED
    BY <1>0, <1>6, <1>a, <2>1, EndOfBodyStep DEF CommitRaises
<1>7. ASSUME NEW m \in Members, RequestStop(m) PROVE Inv'
  BY <1>0, <1>7
  DEF Inv, NoRecordSkipped, PositionEnded, OneAtATime, CommittedBehind, RequestStop,
      broker, results, Ended
<1>8. ASSUME NEW m \in Members, Crash(m) PROVE Inv'
  <2>1. OneAtATime'
    BY <1>8 DEF Crash, Inv, TypeOK, OneAtATime
  <2>2. QED
    BY <1>0, <1>8, <1>a, <2>1, AssignKeeps DEF Crash
<1>9. CASE Rebalance
  <2>1. OneAtATime'
    BY <1>9 DEF Rebalance, Inv, OneAtATime
  <2>2. QED
    BY <1>0, <1>9, <1>a, <2>1, AssignKeeps DEF Rebalance
<1>10. CASE UNCHANGED vars
  BY <1>0, <1>10
  DEF Inv, NoRecordSkipped, PositionEnded, OneAtATime, CommittedBehind, vars, broker,
      results, Ended
<1>11. QED
  BY <1>1, <1>2, <1>3, <1>4, <1>5, <1>6, <1>7, <1>8, <1>9, <1>10 DEF Next, Loop

LEMMA InvHolds == Spec => []Inv
BY InitInv, InvStep, PTL DEF Spec

\* No committed offset ever passes a record that no handler was given and ended,
\* in any group, under any number of crashes, rebalances and failures.
THEOREM NothingIsSkipped == Spec => []NoRecordSkipped
<1>1. Inv => NoRecordSkipped
  BY DEF Inv
<1>2. QED
  BY <1>1, InvHolds, PTL

\* The committed offset of a partition never moves backwards.
THEOREM CommitsMoveForward == Spec => CommittedMonotone
<1>1. Inv /\ [Next]_vars => [\A p \in Partitions : committed'[p] >= committed[p]]_vars
  <2> SUFFICES ASSUME Inv, Next, NEW p \in Partitions
               PROVE  committed'[p] >= committed[p]
    BY DEF CommittedMonotone
  <2>0. committed[p] \in Nat /\ position[p] \in Nat /\ committed[p] <= position[p]
    BY ConsumerAssumption DEF Inv, TypeOK, CommittedBehind
  <2>1. ASSUME NEW m \in Members, Commit(m) PROVE committed'[p] >= committed[p]
    BY <2>0, <2>1 DEF Commit
  <2>2. UNCHANGED committed \/ \E m \in Members : Commit(m)
    BY DEF Next, Loop, Produce, Take, HandlerReturns, HandlerRaises, CommitRaises,
           RequestStop, Crash, Rebalance, broker
  <2>3. QED
    BY <2>0, <2>1, <2>2
<1>2. QED
  BY <1>1, InvHolds, PTL DEF Spec, CommittedMonotone

\* The records of a partition are given to handlers in order, across members.
THEOREM RecordsComeInOrder == Spec => PartitionOrder
<1>1. Inv /\ [Next]_vars =>
        [\A p \in Partitions, o \in 1 .. Capacity :
           tries'[<<p, o>>] # tries[<<p, o>>] =>
             \A q \in 1 .. o - 1 : <<p, q>> \in Ended]_vars
  <2> SUFFICES ASSUME Inv, Next, NEW p \in Partitions, NEW o \in 1 .. Capacity,
                      tries'[<<p, o>>] # tries[<<p, o>>], NEW q \in 1 .. o - 1
               PROVE  <<p, q>> \in Ended
    OBVIOUS
  <2>1. \E m \in Members, r \in Partitions : Take(m, r)
    BY DEF Next, Loop, Produce, HandlerReturns, HandlerRaises, Commit, CommitRaises,
           RequestStop, Crash, Rebalance
  <2>2. PICK m \in Members, r \in Partitions : Take(m, r)
    BY <2>1
  <2>3. r = p /\ o = position[p] + 1
    BY <2>2 DEF Take, Inv, TypeOK, Records
  <2>4. owner[p] = m /\ current[m] = {} /\ q \in 1 .. position[p]
    BY <2>2, <2>3 DEF Take, Inv, OneAtATime, TypeOK
  <2>5. QED
    BY <2>4 DEF Inv, PositionEnded
<1>2. QED
  BY <1>1, InvHolds, PTL DEF Spec, PartitionOrder

\* Offsets, assignments and members keep their types.
THEOREM TypeCorrect == Spec => []TypeOK
<1>1. Inv => TypeOK
  BY DEF Inv
<1>2. QED
  BY <1>1, InvHolds, PTL

-----------------------------------------------------------------------------
(* Redeliveries *)

Stopped == Members \ Alive
Resets  == resets + Cardinality(Stopped)

\* A record was given out once for each reset of the positions, and once more when
\* its partition's position is behind it.
TriesInv ==
  /\ IsFiniteSet(Stopped)
  /\ \A p \in Partitions, o \in 1 .. Capacity :
       tries[<<p, o>>] <= Resets + IF o <= position[p] THEN 1 ELSE 0

LEMMA StoppedSet == Stopped = {m \in Members : pc[m] = "stopped"}
BY DEF Stopped, Alive

LEMMA ResetsType ==
  ASSUME TypeOK, TriesInv
  PROVE  /\ Resets \in Nat /\ resets \in Nat /\ Cardinality(Stopped) \in Nat
         /\ \A p \in Partitions, o \in 1 .. Capacity : tries[<<p, o>>] \in Nat
<1>1. Cardinality(Stopped) \in Nat
  BY FS_CardinalityType DEF TriesInv
<1>2. resets \in Nat
  BY ConsumerAssumption DEF TypeOK
<1>3. ASSUME NEW p \in Partitions, NEW o \in 1 .. Capacity PROVE tries[<<p, o>>] \in Nat
  BY DEF TypeOK, Records
<1>4. QED
  BY <1>1, <1>2, <1>3 DEF Resets

\* One more reset pays for every record that comes again.
LEMMA ResetPays ==
  ASSUME TypeOK, TypeOK', TriesInv, UNCHANGED tries, IsFiniteSet(Stopped'),
         Resets' = Resets + 1
  PROVE  TriesInv'
<1> SUFFICES ASSUME NEW p \in Partitions, NEW o \in 1 .. Capacity
             PROVE  tries'[<<p, o>>] <= Resets' + IF o <= position'[p] THEN 1 ELSE 0
  BY DEF TriesInv
<1>1. tries[<<p, o>>] <= Resets + IF o <= position[p] THEN 1 ELSE 0
  BY DEF TriesInv
<1>2. tries[<<p, o>>] \in Nat /\ Resets \in Nat
  BY ResetsType
<1>3. tries[<<p, o>>] <= Resets + 1
  BY <1>1, <1>2
<1>4. QED
  BY <1>2, <1>3

LEMMA QuietTries ==
  ASSUME TriesInv, UNCHANGED <<tries, position, resets>>, Stopped' = Stopped
  PROVE  TriesInv'
BY DEF TriesInv, Resets

LEMMA EndOfBodyTries ==
  ASSUME TypeOK, TypeOK', TriesInv, NEW m \in Members, pc[m] # "stopped", EndOfBody(m),
         UNCHANGED <<tries, resets>>
  PROVE  TriesInv'
<1>1. CASE m \in stopping
  <2>1. Stopped' = Stopped \cup {m} /\ m \notin Stopped
    BY <1>1, StoppedSet DEF EndOfBody, TypeOK, Stopped, Alive
  <2>2. IsFiniteSet(Stopped') /\ Cardinality(Stopped') = Cardinality(Stopped) + 1
    BY <2>1, FS_AddElement DEF TriesInv
  <2>3. Resets' = Resets + 1
    BY <2>2, ResetsType DEF Resets
  <2>4. QED
    BY <2>2, <2>3, ResetPays
<1>2. CASE m \notin stopping
  <2>1. Stopped' = Stopped
    BY <1>2 DEF EndOfBody, TypeOK, Stopped, Alive
  <2>2. QED
    BY <1>2, <2>1, QuietTries DEF EndOfBody
<1>3. QED
  BY <1>1, <1>2

LEMMA TakeTries ==
  ASSUME TypeOK, TriesInv, NEW m \in Members, NEW p \in Partitions, Take(m, p)
  PROVE  TriesInv'
<1>1. Stopped' = Stopped /\ UNCHANGED resets
  BY DEF Take, TypeOK, Stopped, Alive, faults
<1>2. position[p] \in Nat /\ position'[p] = position[p] + 1
      /\ \A q \in Partitions \ {p} : position'[q] = position[q]
  BY ConsumerAssumption DEF Take, TypeOK
<1>3. <<p, position[p] + 1>> \in Records
  BY ConsumerAssumption DEF Take, TypeOK, Records
<1> SUFFICES ASSUME NEW q \in Partitions, NEW o \in 1 .. Capacity
             PROVE  tries'[<<q, o>>] <= Resets + IF o <= position'[q] THEN 1 ELSE 0
  BY <1>1 DEF TriesInv, Resets
<1>4. tries[<<q, o>>] <= Resets + IF o <= position[q] THEN 1 ELSE 0
  BY DEF TriesInv
<1>5. tries[<<q, o>>] \in Nat /\ Resets \in Nat
  BY ResetsType
<1>6. CASE q = p /\ o = position[p] + 1
  <2>1. tries'[<<q, o>>] = tries[<<q, o>>] + 1
    BY <1>3, <1>6 DEF Take, TypeOK
  <2>2. QED
    BY <1>2, <1>4, <1>5, <1>6, <2>1
<1>7. CASE ~(q = p /\ o = position[p] + 1)
  <2>1. <<q, o>> # <<p, position[p] + 1>> /\ <<q, o>> \in Records
    BY <1>7 DEF Records
  <2>2. tries'[<<q, o>>] = tries[<<q, o>>]
    BY <2>1 DEF Take, TypeOK
  <2>3. (o <= position'[q]) <=> (o <= position[q])
    BY <1>2, <1>7
  <2>4. QED
    BY <1>4, <2>2, <2>3
<1>8. QED
  BY <1>6, <1>7

LEMMA TriesStep == TypeOK /\ TriesInv /\ [Next]_vars => TriesInv'
<1> SUFFICES ASSUME TypeOK, TriesInv, [Next]_vars PROVE TriesInv'
  OBVIOUS
<1>0. TypeOK'
  BY TypeStep
<1>1. ASSUME NEW p \in Partitions, Produce(p) PROVE TriesInv'
  BY <1>1, QuietTries DEF Produce, Stopped, Alive, faults
<1>2. ASSUME NEW m \in Members, NEW p \in Partitions, Take(m, p) PROVE TriesInv'
  BY <1>2, TakeTries
<1>3. ASSUME NEW m \in Members, HandlerReturns(m) PROVE TriesInv'
  <2>1. Stopped' = Stopped
    BY <1>3 DEF HandlerReturns, TypeOK, Stopped, Alive
  <2>2. QED
    BY <1>3, <2>1, QuietTries DEF HandlerReturns, broker, faults
<1>4. ASSUME NEW m \in Members, HandlerRaises(m) \/ Commit(m) \/ CommitRaises(m)
      PROVE  TriesInv'
  <2>1. pc[m] # "stopped" /\ EndOfBody(m) /\ UNCHANGED <<tries, resets>>
    BY <1>4 DEF HandlerRaises, Commit, CommitRaises, faults
  <2>2. QED
    BY <1>0, <2>1, EndOfBodyTries
<1>5. ASSUME NEW m \in Members, RequestStop(m) PROVE TriesInv'
  BY <1>5, QuietTries DEF RequestStop, broker, Stopped, Alive, faults
<1>6. ASSUME NEW m \in Members, Crash(m) PROVE TriesInv'
  <2>1. Stopped' = Stopped /\ resets' = resets + 1 /\ UNCHANGED tries
    BY <1>6 DEF Crash, TypeOK, Stopped, Alive
  <2>2. Resets' = Resets + 1
    BY <2>1, ResetsType DEF Resets
  <2>3. QED
    BY <1>0, <2>1, <2>2, ResetPays DEF TriesInv
<1>7. CASE Rebalance
  <2>1. Stopped' = Stopped /\ resets' = resets + 1 /\ UNCHANGED tries
    BY <1>7 DEF Rebalance, Stopped, Alive
  <2>2. Resets' = Resets + 1
    BY <2>1, ResetsType DEF Resets
  <2>3. QED
    BY <1>0, <2>1, <2>2, ResetPays DEF TriesInv
<1>8. CASE UNCHANGED vars
  BY <1>8, QuietTries DEF vars, broker, Stopped, Alive, faults
<1>9. QED
  BY <1>1, <1>2, <1>3, <1>4, <1>5, <1>6, <1>7, <1>8 DEF Next, Loop

\* No handler is given a record again unless a crash, a rebalance or a member that left
\* reset the positions, for any group and any number of failures: an exception alone,
\* of the handler or of the commit, does not bring its record back.
THEOREM RedeliveryIsAReset == Spec => []RedeliveryNeedsReset
<1>1. Init => TriesInv
  <2> SUFFICES ASSUME Init PROVE TriesInv
    OBVIOUS
  <2>1. Stopped = {}
    BY DEF Init, Stopped, Alive
  <2>2. IsFiniteSet(Stopped) /\ Resets = 0
    BY <2>1, FS_EmptySet DEF Init, Resets
  <2>3. ASSUME NEW p \in Partitions, NEW o \in 1 .. Capacity
        PROVE  tries[<<p, o>>] <= Resets + IF o <= position[p] THEN 1 ELSE 0
    <3>1. tries[<<p, o>>] = 0 /\ position[p] = 0
      BY DEF Init, Records
    <3>2. QED
      BY <2>2, <3>1
  <2>4. QED
    BY <2>2, <2>3 DEF TriesInv
<1>2. TypeOK /\ TriesInv => RedeliveryNeedsReset
  <2> SUFFICES ASSUME TypeOK, TriesInv, NEW r \in Records
               PROVE  tries[r] <= 1 + resets + Cardinality(Members \ Alive)
    BY DEF RedeliveryNeedsReset
  <2>0. PICK p \in Partitions, o \in 1 .. Capacity : r = <<p, o>>
    BY DEF Records
  <2>1. tries[<<p, o>>] <= Resets + IF o <= position[p] THEN 1 ELSE 0
    BY DEF TriesInv
  <2>2. Resets = resets + Cardinality(Members \ Alive)
    BY DEF Resets, Stopped
  <2>3. /\ tries[<<p, o>>] \in Nat /\ resets \in Nat
        /\ Cardinality(Members \ Alive) \in Nat
    BY ResetsType DEF Stopped
  <2>4. QED
    BY <2>0, <2>1, <2>2, <2>3
<1>3. QED
  BY <1>1, <1>2, InvHolds, TypeCorrect, TriesStep, PTL DEF Spec

-----------------------------------------------------------------------------
(* The contract of Delivery                                                *)

\* A handler has one record.
OneRecord == \A m \in Members : \A r \in current[m], s \in current[m] : r = s

LEMMA OneRecordStep == TypeOK /\ OneRecord /\ [Next]_vars => OneRecord'
<1> SUFFICES ASSUME TypeOK, OneRecord, [Next]_vars PROVE OneRecord'
  OBVIOUS
<1>1. ASSUME NEW m \in Members, NEW p \in Partitions, Take(m, p) PROVE OneRecord'
  BY <1>1 DEF TypeOK, OneRecord, Take
<1>2. ASSUME NEW m \in Members, HandlerReturns(m) \/ HandlerRaises(m) \/ Crash(m)
      PROVE  OneRecord'
  BY <1>2 DEF TypeOK, OneRecord, HandlerReturns, HandlerRaises, Crash
<1>3. CASE UNCHANGED current
  BY <1>3 DEF OneRecord
<1> QED
  BY <1>1, <1>2, <1>3
  DEF Next, Loop, Produce, Commit, CommitRaises, RequestStop, Rebalance, vars

LEMMA OneRecordHolds == Spec => []OneRecord
<1>1. Init => OneRecord
  BY DEF Init, OneRecord
<1>2. Spec => []TypeOK
  BY InvHolds, PTL DEF Inv
<1> QED BY <1>1, <1>2, OneRecordStep, PTL DEF Spec

\* The group as its contract sees it.
Running == [p \in Partitions |->
              {o \in 1 .. Capacity : \E m \in Members : <<p, o>> \in current[m]}]
EndedIn == [p \in Partitions |-> {o \in 1 .. Capacity : <<p, o>> \in Ended}]

LEMMA RecordIsPair ==
  ASSUME TypeOK, NEW m \in Members, current[m] # {}
  PROVE  \E p \in Partitions, o \in 1 .. Capacity : <<p, o>> \in current[m]
<1>1. PICK r \in Records : r \in current[m]
  BY DEF TypeOK
<1>2. PICK p \in Partitions, o \in 1 .. Capacity : r = <<p, o>>
  BY DEF Records
<1> QED BY <1>1, <1>2

\* A handler gives up its record, which another one may have too.
LEMMA LeaveHandler ==
  ASSUME TypeOK, OneRecord, NEW m \in Members, NEW p \in Partitions, NEW o \in 1 .. Capacity,
         <<p, o>> \in current[m], current' = [current EXCEPT ![m] = {}]
  PROVE  Running' \in {Running, [Running EXCEPT ![p] = @ \ {o}]}
<1>1. current[m] = {<<p, o>>}
  BY DEF OneRecord
<1>2. /\ current'[m] = {}
      /\ \A n \in Members \ {m} : current'[n] = current[n]
  BY DEF TypeOK
<1>3. CASE \E n \in Members \ {m} : <<p, o>> \in current[n]
  <2>1. ASSUME NEW q \in Partitions, NEW k \in 1 .. Capacity
        PROVE  (\E n \in Members : <<q, k>> \in current'[n])
                 <=> (\E n \in Members : <<q, k>> \in current[n])
    BY <1>1, <1>2, <1>3
  <2> QED BY <2>1 DEF Running
<1>4. CASE \A n \in Members \ {m} : <<p, o>> \notin current[n]
  <2>1. ASSUME NEW q \in Partitions, NEW k \in 1 .. Capacity
        PROVE  (\E n \in Members : <<q, k>> \in current'[n])
                 <=> (\E n \in Members : <<q, k>> \in current[n]) /\ ~ (q = p /\ k = o)
    BY <1>1, <1>2, <1>4
  <2>2. ASSUME NEW q \in Partitions
        PROVE  Running'[q] = [Running EXCEPT ![p] = @ \ {o}][q]
    BY <2>1 DEF Running
  <2>3. Running' = [Running EXCEPT ![p] = @ \ {o}]
    BY <2>2 DEF Running
  <2> QED BY <2>3
<1> QED BY <1>3, <1>4

\* The record of a handler that returns or raises has ended.
LEMMA EndsRecord ==
  ASSUME TypeOK, NEW m \in Members, NEW p \in Partitions, NEW o \in 1 .. Capacity,
         current[m] = {<<p, o>>}, Ended' = Ended \cup current[m]
  PROVE  EndedIn' = [EndedIn EXCEPT ![p] = @ \cup {o}]
<1>1. ASSUME NEW q \in Partitions
      PROVE  EndedIn'[q] = [EndedIn EXCEPT ![p] = @ \cup {o}][q]
  BY DEF EndedIn
<1> QED BY <1>1 DEF EndedIn

LEMMA TakeGives ==
  ASSUME Inv, NEW m \in Members, NEW p \in Partitions, Take(m, p)
  PROVE  \E o \in 1 .. Capacity : Contract!Give(p, o)
<1>0. PICK o \in 1 .. Capacity : o = position[p] + 1
  BY ConsumerAssumption DEF Inv, TypeOK, Take
<1>1. /\ owner[p] = m
      /\ current[m] = {} /\ committed[p] <= position[p] /\ committed[p] \in Nat
      /\ UNCHANGED <<Ended, committed>>
      /\ current' = [current EXCEPT ![m] = {<<p, o>>}]
  BY <1>0 DEF Inv, TypeOK, OneAtATime, CommittedBehind, Take, results, Ended
<1>2. committed[p] < o
  BY <1>0, <1>1 DEF Inv, TypeOK
<1>3. 1 .. o - 1 \subseteq EndedIn[p]
  <2>1. o - 1 = position[p] /\ 1 .. position[p] \subseteq 1 .. Capacity
    BY <1>0, ConsumerAssumption DEF Inv, TypeOK
  <2> QED BY <1>1, <2>1 DEF Inv, PositionEnded, EndedIn
<1>4. Running' = [Running EXCEPT ![p] = @ \cup {o}]
  <2>1. ASSUME NEW q \in Partitions
        PROVE  Running'[q] = [Running EXCEPT ![p] = @ \cup {o}][q]
    <3>1. /\ current'[m] = {<<p, o>>}
          /\ \A n \in Members \ {m} : current'[n] = current[n]
      BY <1>1 DEF Inv, TypeOK
    <3>2. ASSUME NEW k \in 1 .. Capacity
          PROVE  (\E n \in Members : <<q, k>> \in current'[n])
                   <=> (\E n \in Members : <<q, k>> \in current[n]) \/ (q = p /\ k = o)
      BY <1>1, <3>1
    <3> QED BY <1>1, <3>2 DEF Running
  <2> QED BY <2>1 DEF Running
<1>5. EndedIn' = EndedIn
  BY <1>1 DEF EndedIn
<1>6. Contract!Give(p, o)
  BY <1>1, <1>2, <1>3, <1>4, <1>5 DEF Contract!Give, Running, EndedIn
<1> QED BY <1>6

\* The record in a handler, if there is one, ends with it.
LEMMA HandlerEnds ==
  ASSUME Inv, OneRecord, NEW m \in Members, Ended' = Ended \cup current[m],
         current' = [current EXCEPT ![m] = {}], UNCHANGED committed
  PROVE  [Contract!Next]_(Contract!vars)
<1>1. CASE current[m] = {}
  <2>1. current' = current /\ Ended' = Ended
    BY <1>1 DEF Inv, TypeOK
  <2> QED BY <2>1 DEF Contract!vars
<1>2. CASE current[m] # {}
  <2>1. PICK p \in Partitions, o \in 1 .. Capacity : <<p, o>> \in current[m]
    BY <1>2, RecordIsPair DEF Inv
  <2>2. current[m] = {<<p, o>>}
    BY <2>1 DEF OneRecord
  <2>3. Running' \in {Running, [Running EXCEPT ![p] = @ \ {o}]}
    BY <2>1, LeaveHandler DEF Inv
  <2>4. EndedIn' = [EndedIn EXCEPT ![p] = @ \cup {o}]
    BY <2>2, EndsRecord DEF Inv
  <2>5. o \in Running[p]
    BY <2>1 DEF Running
  <2>6. Contract!End(p, o)
    BY <2>3, <2>4, <2>5 DEF Contract!End, Running, EndedIn
  <2> QED BY <2>6 DEF Contract!Next
<1> QED BY <1>1, <1>2

LEMMA CrashDies ==
  ASSUME Inv, OneRecord, NEW m \in Members, Crash(m)
  PROVE  [Contract!Next]_(Contract!vars)
<1>1. current' = [current EXCEPT ![m] = {}] /\ UNCHANGED <<Ended, committed>>
  BY DEF Crash, results, Ended
<1>2. CASE current[m] = {}
  <2>1. current' = current
    BY <1>1, <1>2 DEF Inv, TypeOK
  <2> QED BY <1>1, <2>1 DEF Contract!vars
<1>3. CASE current[m] # {}
  <2>1. PICK p \in Partitions, o \in 1 .. Capacity : <<p, o>> \in current[m]
    BY <1>3, RecordIsPair DEF Inv
  <2>2. Running' \in {Running, [Running EXCEPT ![p] = @ \ {o}]}
    BY <1>1, <2>1, LeaveHandler DEF Inv
  <2>3. EndedIn' = EndedIn
    BY <1>1 DEF EndedIn
  <2>4. CASE Running' = Running
    BY <1>1, <2>3, <2>4 DEF Contract!vars, Running, EndedIn
  <2>5. CASE Running' = [Running EXCEPT ![p] = @ \ {o}]
    <3>1. o \in Running[p]
      BY <2>1 DEF Running
    <3>2. Contract!Die(p, o)
      BY <1>1, <2>3, <2>5, <3>1 DEF Contract!Die, Running, EndedIn
    <3> QED BY <3>2 DEF Contract!Next
  <2> QED BY <2>2, <2>4, <2>5
<1> QED BY <1>2, <1>3

LEMMA CommitKeepsContract ==
  ASSUME Inv, Inv', NEW m \in Members, Commit(m)
  PROVE  [Contract!Next]_(Contract!vars)
<1>1. UNCHANGED <<current, Ended>>
  BY DEF Commit, results, Ended
<1>2. committed' \in [Partitions -> 0 .. Capacity]
  BY DEF Inv, TypeOK
<1>3. ASSUME NEW p \in Partitions
      PROVE  committed[p] <= committed'[p] /\ 1 .. committed'[p] \subseteq EndedIn[p]
  <2>1. committed[p] <= committed'[p]
    BY DEF Commit, Inv, TypeOK, CommittedBehind
  <2>2. 1 .. committed'[p] \subseteq 1 .. Capacity
    BY <1>2, ConsumerAssumption
  <2>3. \A o \in 1 .. committed'[p] : <<p, o>> \in Ended
    BY <1>1 DEF Inv, NoRecordSkipped
  <2> QED BY <2>1, <2>2, <2>3 DEF EndedIn
<1>4. Contract!Commit
  BY <1>1, <1>2, <1>3 DEF Contract!Commit, EndedIn
<1> QED BY <1>4 DEF Contract!Next

LEMMA ContractStep ==
  ASSUME Inv, Inv', OneRecord, [Next]_vars
  PROVE  [Contract!Next]_(Contract!vars)
<1>1. ASSUME NEW m \in Members, NEW p \in Partitions, Take(m, p)
      PROVE  Contract!Next
  <2>1. \E o \in 1 .. Capacity : Contract!Give(p, o)
    BY <1>1, TakeGives DEF Inv
  <2> QED BY <2>1 DEF Contract!Next
<1>2. ASSUME NEW m \in Members, HandlerReturns(m)
      PROVE  [Contract!Next]_(Contract!vars)
  <2>1. /\ Ended' = Ended \cup current[m]
        /\ current' = [current EXCEPT ![m] = {}] /\ UNCHANGED committed
    BY <1>2 DEF HandlerReturns, broker, Ended
  <2> QED BY <2>1, HandlerEnds
<1>3. ASSUME NEW m \in Members, HandlerRaises(m)
      PROVE  [Contract!Next]_(Contract!vars)
  <2>1. /\ Ended' = Ended \cup current[m]
        /\ current' = [current EXCEPT ![m] = {}] /\ UNCHANGED committed
    BY <1>3 DEF HandlerRaises, Ended
  <2> QED BY <2>1, HandlerEnds
<1>4. ASSUME NEW m \in Members, Commit(m)
      PROVE  [Contract!Next]_(Contract!vars)
  BY <1>4, CommitKeepsContract
<1>5. ASSUME NEW m \in Members, Crash(m)
      PROVE  [Contract!Next]_(Contract!vars)
  BY <1>5, CrashDies
<1>6. CASE UNCHANGED <<current, handled, failed, committed>>
  BY <1>6 DEF Contract!vars, Ended
<1> QED
  BY <1>1, <1>2, <1>3, <1>4, <1>5, <1>6
  DEF Next, Loop, Produce, CommitRaises, RequestStop, Rebalance, vars, broker, results

\* The loop keeps the contract its handlers rely on, for every group, partitioning and
\* schedule of failures, crashes, rebalances and stops.
THEOREM GroupImplementsDelivery == Spec => ImplementsDelivery
<1>1. Init => Contract!Init
  BY ConsumerAssumption DEF Init, Contract!Init, Ended
<1>2. Inv /\ Inv' /\ OneRecord /\ [Next]_vars => [Contract!Next]_(Contract!vars)
  BY ContractStep
<1> QED
  BY <1>1, <1>2, InvHolds, OneRecordHolds, PTL DEF Spec, ImplementsDelivery, Contract!Spec

=============================================================================
