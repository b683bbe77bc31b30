----------------------------- MODULE EdgeProofs -----------------------------
(***************************************************************************)
(* Theorems about the two ends at which clients meet the pipeline.         *)
(* Ingestion: for every number of requests and fingerprints, all batches,  *)
(* and any number of retries, expiries and faults.  Console: for every     *)
(* number of connections, events, rejoins and faults.                     *)
(***************************************************************************)
EXTENDS Ingestion, Console, FiniteSetTheorems, SequenceTheorems, TLAPS

-----------------------------------------------------------------------------
(* Ingestion: the operators of the loop *)

LEMMA BatchFacts ==
  ASSUME NEW r \in Requests
  PROVE  /\ End(r) \in Nat \ {0}
         /\ Signals(r) \subseteq Nat \ {0}
         /\ \A k \in Signals(r) : k < End(r) /\ Batch[r][k].print \in Prints
<1>1. Batch[r] \in Seq(Alerts) BY IngestionAssumption
<1>2. Len(Batch[r]) \in Nat /\ DOMAIN Batch[r] = 1 .. Len(Batch[r])
  BY <1>1
<1>3. \A k \in DOMAIN Batch[r] : Batch[r][k] \in Alerts BY <1>1
<1> QED BY <1>2, <1>3 DEF End, Signals, Alerts

\* The loop goes on, in its batch, and leaves no signal out.
LEMMA AdvanceFacts ==
  ASSUME NEW r \in Requests, NEW k \in Nat, at \in [Requests -> Nat], Advance(r, k)
  PROVE  /\ at' \in [Requests -> Nat]
         /\ at'[r] \in Signals(r) \cup {End(r)}
         /\ k < at'[r]
         /\ \A i \in Signals(r) : i < at'[r] => i <= k
         /\ \A q \in Requests \ {r} : at'[q] = at[q]
<1>1. PICK j \in Signals(r) \cup {End(r)} :
        /\ k < j /\ \A i \in Signals(r) : k < i => j <= i
        /\ at' = [at EXCEPT ![r] = j]
  BY DEF Advance
<1>2. j \in Nat /\ \A i \in Signals(r) : i \in Nat BY BatchFacts
<1>3. at'[r] = j BY <1>1
<1>4. \A i \in Signals(r) : i < j => i <= k BY <1>1, <1>2
<1> QED BY <1>1, <1>2, <1>3, <1>4

-----------------------------------------------------------------------------
(* Type correctness *)

LEMMA PrintType ==
  ASSUME TypeOK, NEW r \in Requests, at[r] \in Signals(r)
  PROVE  Current(r) \in Prints
BY BatchFacts DEF Current

LEMMA AtSignal ==
  ASSUME TypeOK, NEW r \in Requests, pc[r] = "check", at[r] # End(r)
  PROVE  at[r] \in Signals(r) /\ Current(r) \in Prints
<1>1. at[r] \in Signals(r) BY DEF TypeOK
<1> QED BY <1>1, PrintType

LEMMA TypeInit == Init => TypeOK
BY IngestionAssumption DEF Init, TypeOK

LEMMA BeginType ==
  ASSUME TypeOK, NEW r \in Requests, Begin(r),
         UNCHANGED <<marked, topic, expired, lost>>,
         retries' \in [Requests -> 0 .. MaxRetries], faults' = faults
  PROVE  TypeOK'
<1>1. /\ at' \in [Requests -> Nat] /\ at'[r] \in Signals(r) \cup {End(r)}
      /\ \A q \in Requests \ {r} : at'[q] = at[q]
  BY AdvanceFacts DEF TypeOK, Begin
<1>2. /\ pc' \in [Requests -> {"unsent", "check", "publish", "answered", "error"}]
      /\ accepted' \in [Requests -> Nat]
      /\ pc'[r] = "check" /\ accepted'[r] = 0
      /\ \A q \in Requests \ {r} : pc'[q] = pc[q] /\ accepted'[q] = accepted[q]
  BY DEF TypeOK, Begin, Goto
<1> QED BY <1>1, <1>2 DEF TypeOK

LEMMA TypeStep == TypeOK /\ [Next]_vars => TypeOK'
<1> SUFFICES ASSUME TypeOK, [Next]_vars PROVE TypeOK'
  OBVIOUS
<1> USE IngestionAssumption
<1>1. ASSUME NEW r \in Requests, Send(r) PROVE TypeOK'
  BY <1>1, BeginType DEF Send, TypeOK
<1>2. ASSUME NEW r \in Requests, Retry(r) PROVE TypeOK'
  <2>1. retries' \in [Requests -> 0 .. MaxRetries] BY <1>2 DEF Retry, TypeOK
  <2> QED BY <1>2, <2>1, BeginType DEF Retry
<1>3. ASSUME NEW r \in Requests, Mark(r) PROVE TypeOK'
  <2>1. at[r] \in Signals(r) /\ Current(r) \in Prints BY <1>3, AtSignal DEF Mark
  <2> QED BY <1>3, <2>1 DEF Mark, Goto, TypeOK
<1>4. ASSUME NEW r \in Requests, Duplicate(r) PROVE TypeOK'
  <2>1. /\ at' \in [Requests -> Nat] /\ at'[r] \in Signals(r) \cup {End(r)}
        /\ at[r] < at'[r] /\ \A q \in Requests \ {r} : at'[q] = at[q]
    BY <1>4, AdvanceFacts DEF Duplicate, TypeOK
  <2>2. accepted'[r] = 0 \/ accepted'[r] < at'[r] BY <1>4, <2>1 DEF Duplicate, TypeOK
  <2> QED BY <1>4, <2>1, <2>2 DEF Duplicate, TypeOK
<1>5. ASSUME NEW r \in Requests, Publish(r) PROVE TypeOK'
  <2>1. /\ at' \in [Requests -> Nat] /\ at'[r] \in Signals(r) \cup {End(r)}
        /\ at[r] < at'[r] /\ \A q \in Requests \ {r} : at'[q] = at[q]
    BY <1>5, AdvanceFacts DEF Publish, TypeOK
  <2>2. /\ accepted' \in [Requests -> Nat] /\ accepted'[r] = accepted[r] + 1
        /\ \A q \in Requests \ {r} : accepted'[q] = accepted[q]
    BY <1>5 DEF Publish, TypeOK
  <2>3. at[r] # 0
    BY <1>5, BatchFacts DEF Publish, TypeOK
  <2>4. accepted'[r] < at'[r] BY <2>1, <2>2, <2>3 DEF TypeOK
  <2>5. Current(r) \in Prints BY <1>5, PrintType DEF Publish, TypeOK
  <2>6. topic' \in [Prints -> Nat] BY <1>5, <2>5 DEF Publish, TypeOK
  <2> QED BY <1>5, <2>1, <2>2, <2>4, <2>6 DEF Publish, Goto, TypeOK
<1>6. ASSUME NEW r \in Requests, Answer(r) PROVE TypeOK'
  BY <1>6 DEF Answer, Goto, TypeOK
<1>7. ASSUME NEW r \in Requests, FailCheck(r) PROVE TypeOK'
  <2>1. at[r] # End(r) => Current(r) \in Prints BY <1>7, AtSignal DEF FailCheck
  <2>2. marked' \in SUBSET Prints /\ lost' \in [Prints -> Nat]
    BY <1>7, <2>1 DEF FailCheck, TypeOK
  <2> QED BY <1>7, <2>2 DEF FailCheck, Goto, TypeOK
<1>8. ASSUME NEW r \in Requests, FailPublish(r) PROVE TypeOK'
  <2>1. Current(r) \in Prints BY <1>8, PrintType DEF FailPublish, TypeOK
  <2>2. topic[Current(r)] + 1 \in Nat /\ lost[Current(r)] + 1 \in Nat
    BY <2>1 DEF TypeOK
  <2>3. topic' \in [Prints -> Nat] /\ lost' \in [Prints -> Nat]
    <3>1. CASE topic' = [topic EXCEPT ![Current(r)] = @ + 1] /\ UNCHANGED lost
      BY <2>2, <3>1 DEF TypeOK
    <3>2. CASE lost' = [lost EXCEPT ![Current(r)] = @ + 1] /\ UNCHANGED topic
      BY <2>2, <3>2 DEF TypeOK
    <3> QED BY <1>8, <3>1, <3>2 DEF FailPublish
  <2> QED BY <1>8, <2>3 DEF FailPublish, Goto, TypeOK
<1>9. ASSUME NEW f \in Prints, Expire(f) PROVE TypeOK'
  BY <1>9 DEF Expire, TypeOK
<1>10. CASE UNCHANGED vars BY <1>10 DEF vars, TypeOK
<1> QED BY <1>1, <1>2, <1>3, <1>4, <1>5, <1>6, <1>7, <1>8, <1>9, <1>10 DEF Next

\* Every request is at an alert of its batch that fires, or at its end, and counts no
\* more than it has passed, for all batches and every number of requests.
THEOREM TypeCorrect == Spec => []TypeOK
BY TypeInit, TypeStep, PTL DEF Spec

-----------------------------------------------------------------------------
(* One record per window *)

\* The requests that won a mark of f and have not published yet.
Publishers(f) == {r \in Requests : pc[r] = "publish" /\ Current(r) = f}

Live(f)     == IF f \in marked THEN 1 ELSE 0
Holds(r, f) == IF r \in Publishers(f) THEN 1 ELSE 0
About(r, f) == IF Current(r) = f THEN 1 ELSE 0

\* Every mark that was ever set is on the topic, was lost, or is in the hands of one
\* request; and the marks that were set are those that expired and the live one.
WindowInv ==
  \A f \in Prints :
    /\ IsFiniteSet(Publishers(f))
    /\ topic[f] + lost[f] + Cardinality(Publishers(f)) = expired[f] + Live(f)

\* A step of one request makes it a publisher of f, or no longer one.
LEMMA PublishersChange ==
  ASSUME NEW f, NEW r \in Requests, IsFiniteSet(Publishers(f)),
         \A q \in Requests \ {r} : pc'[q] = pc[q] /\ at'[q] = at[q]
  PROVE  /\ IsFiniteSet(Publishers(f)')
         /\ Cardinality(Publishers(f)) \in Nat /\ Cardinality(Publishers(f)') \in Nat
         /\ Cardinality(Publishers(f)') + Holds(r, f)
              = Cardinality(Publishers(f)) + Holds(r, f)'
<1>1. Cardinality(Publishers(f)) \in Nat BY FS_CardinalityType
<1>2. \A q \in Requests \ {r} : q \in Publishers(f)' <=> q \in Publishers(f)
  BY DEF Publishers, Current
<1>3. Publishers(f) \subseteq Requests /\ Publishers(f)' \subseteq Requests
  BY DEF Publishers
<1>4. CASE (r \in Publishers(f)') = (r \in Publishers(f))
  <2>1. Publishers(f)' = Publishers(f) BY <1>2, <1>3, <1>4
  <2> QED BY <1>1, <1>4, <2>1 DEF Holds
<1>5. CASE r \in Publishers(f)' /\ r \notin Publishers(f)
  <2>1. Publishers(f)' = Publishers(f) \cup {r} BY <1>2, <1>3, <1>5
  <2>2. /\ IsFiniteSet(Publishers(f) \cup {r})
        /\ Cardinality(Publishers(f) \cup {r}) = Cardinality(Publishers(f)) + 1
    BY <1>5, FS_AddElement
  <2> QED BY <1>1, <1>5, <2>1, <2>2 DEF Holds
<1>6. CASE r \notin Publishers(f)' /\ r \in Publishers(f)
  <2>1. Publishers(f)' = Publishers(f) \ {r} BY <1>2, <1>3, <1>6
  <2>2. /\ IsFiniteSet(Publishers(f) \ {r})
        /\ Cardinality(Publishers(f) \ {r}) = Cardinality(Publishers(f)) - 1
    BY <1>6, FS_RemoveElement
  <2>3. Cardinality(Publishers(f) \ {r}) \in Nat BY <2>2, FS_CardinalityType
  <2> QED BY <1>1, <1>6, <2>1, <2>2, <2>3 DEF Holds
<1> QED BY <1>4, <1>5, <1>6

\* A step that leaves the records and marks alone, and at which no request begins or
\* ends to publish.
LEMMA WindowKeeps ==
  ASSUME TypeOK, WindowInv, NEW r \in Requests,
         \A q \in Requests \ {r} : pc'[q] = pc[q] /\ at'[q] = at[q],
         pc[r] # "publish", pc'[r] # "publish",
         UNCHANGED <<topic, lost, expired, marked>>
  PROVE  WindowInv'
<1> SUFFICES ASSUME NEW f \in Prints
             PROVE  /\ IsFiniteSet(Publishers(f)')
                    /\ topic'[f] + lost'[f] + Cardinality(Publishers(f)')
                         = expired'[f] + Live(f)'
  BY DEF WindowInv
<1>1. r \notin Publishers(f) /\ r \notin Publishers(f)' BY DEF Publishers
<1>2. /\ IsFiniteSet(Publishers(f)')
      /\ Cardinality(Publishers(f)) \in Nat /\ Cardinality(Publishers(f)') \in Nat
      /\ Cardinality(Publishers(f)') + Holds(r, f)
           = Cardinality(Publishers(f)) + Holds(r, f)'
  BY PublishersChange DEF WindowInv
<1> QED BY <1>1, <1>2 DEF WindowInv, Holds, Live

LEMMA WindowStep == TypeOK /\ WindowInv /\ [Next]_vars => WindowInv'
<1> SUFFICES ASSUME TypeOK, WindowInv, [Next]_vars PROVE WindowInv'
  OBVIOUS
<1>1. ASSUME NEW r \in Requests, Send(r) \/ Retry(r) PROVE WindowInv'
  <2>1. Begin(r) BY <1>1 DEF Send, Retry
  <2>2. \A q \in Requests \ {r} : at'[q] = at[q]
    BY <2>1, AdvanceFacts DEF Begin, TypeOK
  <2> QED BY <1>1, <2>1, <2>2, WindowKeeps DEF Send, Retry, Begin, Goto, TypeOK
<1>2. ASSUME NEW r \in Requests, Duplicate(r) PROVE WindowInv'
  <2>1. \A q \in Requests \ {r} : at'[q] = at[q]
    BY <1>2, AdvanceFacts DEF Duplicate, TypeOK
  <2> QED BY <1>2, <2>1, WindowKeeps DEF Duplicate
<1>3. ASSUME NEW r \in Requests, Answer(r) PROVE WindowInv'
  BY <1>3, WindowKeeps DEF Answer, Goto, TypeOK
<1>4. ASSUME NEW r \in Requests,
             Mark(r) \/ Publish(r) \/ FailCheck(r) \/ FailPublish(r)
      PROVE  WindowInv'
  <2> SUFFICES ASSUME NEW f \in Prints
               PROVE  /\ IsFiniteSet(Publishers(f)')
                      /\ topic'[f] + lost'[f] + Cardinality(Publishers(f)')
                           = expired'[f] + Live(f)'
    BY DEF WindowInv
  <2>1. \A q \in Requests \ {r} : pc'[q] = pc[q] /\ at'[q] = at[q]
    <3>1. CASE Publish(r) BY <3>1, AdvanceFacts DEF Publish, Goto, TypeOK
    <3> QED BY <1>4, <3>1 DEF Mark, FailCheck, FailPublish, Goto, TypeOK
  <2>2. /\ IsFiniteSet(Publishers(f)')
        /\ Cardinality(Publishers(f)) \in Nat /\ Cardinality(Publishers(f)') \in Nat
        /\ Cardinality(Publishers(f)') + Holds(r, f)
             = Cardinality(Publishers(f)) + Holds(r, f)'
    BY <2>1, PublishersChange DEF WindowInv
  <2>3. /\ Cardinality(Publishers(f)) \in Nat /\ Cardinality(Publishers(f)') \in Nat
        /\ topic[f] \in Nat /\ lost[f] \in Nat /\ expired[f] \in Nat
        /\ topic[f] + lost[f] + Cardinality(Publishers(f)) = expired[f] + Live(f)
    BY <2>2, IngestionAssumption DEF TypeOK, WindowInv
  <2>4. /\ Live(f) \in Nat /\ Live(f)' \in Nat
        /\ About(r, f) \in Nat
    BY DEF Live, About
  <2>5. CASE Mark(r)
    <3>1. r \notin Publishers(f) /\ (r \in Publishers(f)' <=> Current(r) = f)
      BY <2>5 DEF Mark, Goto, TypeOK, Publishers, Current
    <3>2. Live(f)' = Live(f) + About(r, f) BY <2>5 DEF Mark, Live, About
    <3>3. Cardinality(Publishers(f)') = Cardinality(Publishers(f)) + About(r, f)
      BY <2>2, <3>1 DEF Holds, About
    <3>4. topic[f] + lost[f] + Cardinality(Publishers(f)') = expired[f] + Live(f)'
      BY <2>3, <2>4, <3>2, <3>3
    <3> QED BY <2>2, <2>5, <3>4 DEF Mark
  <2>6. CASE Publish(r)
    <3>1. r \notin Publishers(f)' /\ (r \in Publishers(f) <=> Current(r) = f)
      BY <2>6 DEF Publish, Goto, TypeOK, Publishers
    <3>2. /\ lost'[f] = lost[f] /\ expired'[f] = expired[f] /\ Live(f)' = Live(f)
          /\ topic'[f] = topic[f] + About(r, f)
      BY <2>3, <2>6 DEF Publish, About, Live, TypeOK
    <3>3. Cardinality(Publishers(f)') + About(r, f) = Cardinality(Publishers(f))
      BY <2>2, <3>1 DEF Holds, About
    <3>4. topic'[f] + lost'[f] + Cardinality(Publishers(f)') = expired'[f] + Live(f)'
      BY <2>3, <2>4, <3>2, <3>3
    <3> QED BY <2>2, <3>4
  <2>7. CASE FailCheck(r)
    <3>1. r \notin Publishers(f)' /\ r \notin Publishers(f)
      BY <2>7 DEF FailCheck, Goto, TypeOK, Publishers
    <3>2. \/ lost'[f] = lost[f] /\ Live(f)' = Live(f)
          \/ lost'[f] = lost[f] + 1 /\ Live(f)' = Live(f) + 1
      <4>1. CASE UNCHANGED <<marked, lost>>
        BY <2>3, <2>7, <4>1 DEF FailCheck, Live
      <4>2. CASE /\ Current(r) \notin marked
                 /\ marked' = marked \cup {Current(r)}
                 /\ lost' = [lost EXCEPT ![Current(r)] = @ + 1]
        BY <2>3, <2>7, <4>2 DEF FailCheck, Live, TypeOK
      <4> QED BY <2>7, <4>1, <4>2 DEF FailCheck
    <3>3. Cardinality(Publishers(f)') = Cardinality(Publishers(f))
      BY <2>2, <3>1 DEF Holds, About
    <3>4. topic[f] + lost'[f] + Cardinality(Publishers(f)) = expired[f] + Live(f)'
      BY <2>3, <2>4, <3>2
    <3> QED BY <2>2, <2>7, <3>3, <3>4 DEF FailCheck
  <2>8. CASE FailPublish(r)
    <3>1. r \notin Publishers(f)' /\ (r \in Publishers(f) <=> Current(r) = f)
      BY <2>8 DEF FailPublish, Goto, TypeOK, Publishers
    <3>2. /\ expired'[f] = expired[f] /\ Live(f)' = Live(f)
          /\ \/ topic'[f] = topic[f] + About(r, f) /\ lost'[f] = lost[f]
             \/ lost'[f] = lost[f] + About(r, f) /\ topic'[f] = topic[f]
      BY <2>3, <2>8 DEF FailPublish, About, Live, TypeOK
    <3>3. Cardinality(Publishers(f)') + About(r, f) = Cardinality(Publishers(f))
      BY <2>2, <3>1 DEF Holds, About
    <3>4. topic'[f] + lost'[f] + Cardinality(Publishers(f)') = expired'[f] + Live(f)'
      BY <2>3, <2>4, <3>2, <3>3
    <3> QED BY <2>2, <3>4
  <2> QED BY <1>4, <2>5, <2>6, <2>7, <2>8
<1>5. ASSUME NEW f \in Prints, Expire(f) PROVE WindowInv'
  <2> SUFFICES ASSUME NEW g \in Prints
               PROVE  /\ IsFiniteSet(Publishers(g)')
                      /\ topic'[g] + lost'[g] + Cardinality(Publishers(g)')
                           = expired'[g] + Live(g)'
    BY DEF WindowInv
  <2>1. Publishers(g)' = Publishers(g) BY <1>5 DEF Expire, Publishers, Current
  <2>2. /\ UNCHANGED <<topic, lost>> /\ expired[g] \in Nat
        /\ expired'[g] + Live(g)' = expired[g] + Live(g)
    BY <1>5, IngestionAssumption DEF Expire, Live, TypeOK
  <2> QED BY <2>1, <2>2 DEF WindowInv
<1>6. CASE UNCHANGED vars
  BY <1>6 DEF vars, WindowInv, Live, Publishers, Current
<1> QED BY <1>1, <1>2, <1>3, <1>4, <1>5, <1>6 DEF Next

LEMMA WindowInit == Init => WindowInv
<1> SUFFICES ASSUME Init, NEW f \in Prints
             PROVE  IsFiniteSet(Publishers(f))
                    /\ topic[f] + lost[f] + Cardinality(Publishers(f))
                         = expired[f] + Live(f)
  BY DEF WindowInv
<1>1. Publishers(f) = {} BY DEF Init, Publishers
<1>2. IsFiniteSet({}) /\ Cardinality({}) = 0 BY FS_EmptySet
<1> QED BY <1>1, <1>2 DEF Init, Live

LEMMA WindowImplies == TypeOK /\ WindowInv => OncePerWindow
<1> SUFFICES ASSUME TypeOK, WindowInv, NEW f \in Prints PROVE topic[f] <= 1 + expired[f]
  BY DEF OncePerWindow
<1>1. Cardinality(Publishers(f)) \in Nat BY FS_CardinalityType DEF WindowInv
<1>2. topic[f] \in Nat /\ lost[f] \in Nat /\ expired[f] \in Nat
  BY IngestionAssumption DEF TypeOK
<1>3. Live(f) \in {0, 1} BY DEF Live
<1> QED BY <1>1, <1>2, <1>3 DEF WindowInv

\* A fingerprint is on the topic at most once for each window of its mark, for every
\* number of requests that overlap, are retried and fail.
THEOREM OneRecordPerWindow == Spec => []OncePerWindow
BY TypeInit, TypeStep, WindowInit, WindowStep, WindowImplies, PTL DEF Spec

-----------------------------------------------------------------------------
(* What an answer means *)

\* A request that answered is at the end of its batch, and for every signal it has
\* passed a mark is set, or was until it expired.
PassedInv ==
  \A r \in Requests :
    /\ pc[r] = "answered" => at[r] = End(r)
    /\ \A k \in Signals(r) : k < at[r] =>
         LET f == Batch[r][k].print IN f \in marked \/ expired[f] > 0

\* Marks are set, and expire, but are never forgotten.
LEMMA MarksKept ==
  ASSUME TypeOK, [Next]_vars, NEW f \in Prints, f \in marked \/ expired[f] > 0
  PROVE  f \in marked' \/ expired'[f] > 0
<1> USE IngestionAssumption
<1>1. ASSUME NEW r \in Requests, Send(r) \/ Retry(r) \/ Mark(r) \/ Duplicate(r)
      PROVE  f \in marked' \/ expired'[f] > 0
  BY <1>1 DEF Send, Retry, Mark, Duplicate
<1>2. ASSUME NEW r \in Requests,
             Publish(r) \/ Answer(r) \/ FailCheck(r) \/ FailPublish(r)
      PROVE  f \in marked' \/ expired'[f] > 0
  BY <1>2 DEF Publish, Answer, FailCheck, FailPublish
<1>3. ASSUME NEW g \in Prints, Expire(g) PROVE f \in marked' \/ expired'[f] > 0
  BY <1>3 DEF Expire, TypeOK
<1> QED BY <1>1, <1>2, <1>3 DEF Next, vars

LEMMA PassedStep == TypeOK /\ WindowInv /\ PassedInv /\ [Next]_vars => PassedInv'
<1> SUFFICES ASSUME TypeOK, WindowInv, PassedInv, [Next]_vars,
                    NEW r \in Requests
             PROVE  /\ pc'[r] = "answered" => at'[r] = End(r)
                    /\ \A k \in Signals(r) : k < at'[r] =>
                         LET f == Batch[r][k].print IN f \in marked' \/ expired'[f] > 0
  BY DEF PassedInv, End, Signals
<1>1. \A k \in Signals(r) : k \in Nat /\ k < End(r) /\ Batch[r][k].print \in Prints
  BY BatchFacts
<1>2. at \in [Requests -> Nat] BY DEF TypeOK
<1>3. \A k \in Signals(r) : k < at[r] =>
        LET f == Batch[r][k].print IN f \in marked' \/ expired'[f] > 0
  BY <1>1, MarksKept DEF PassedInv
<1>4. CASE pc'[r] = pc[r] /\ at'[r] = at[r] BY <1>3, <1>4 DEF PassedInv
<1>5. CASE Send(r) \/ Retry(r)
  <2>1. /\ pc'[r] = "check" /\ \A k \in Signals(r) : k < at'[r] => k <= 0
    BY <1>2, <1>5, AdvanceFacts DEF Send, Retry, Begin, Goto, TypeOK
  <2>2. \A k \in Signals(r) : k # 0 BY BatchFacts
  <2> QED BY <1>1, <2>1, <2>2
<1>6. CASE Duplicate(r)
  <2>1. /\ pc'[r] = "check" /\ at[r] \in Signals(r)
        /\ Batch[r][at[r]].print \in marked'
        /\ \A k \in Signals(r) : k < at'[r] => k <= at[r]
    BY <1>2, <1>6, AdvanceFacts, AtSignal DEF Duplicate, Current
  <2>2. \A k \in Signals(r) : k < at'[r] => k < at[r] \/ k = at[r]
    BY <1>1, <1>2, <2>1
  <2> QED BY <1>3, <2>1, <2>2
<1>7. CASE Publish(r)
  <2>1. /\ pc'[r] = "check" /\ at[r] \in Signals(r) /\ Current(r) \in Prints
        /\ \A k \in Signals(r) : k < at'[r] => k <= at[r]
    BY <1>2, <1>7, AdvanceFacts, PrintType DEF Publish, Goto, TypeOK
  <2>2. Current(r) \in marked \/ expired[Current(r)] > 0
    <3>1. Cardinality(Publishers(Current(r))) > 0
      <4>1. r \in Publishers(Current(r)) BY <1>7 DEF Publish, Publishers
      <4>2. IsFiniteSet(Publishers(Current(r))) BY <2>1 DEF WindowInv
      <4>3. /\ Cardinality(Publishers(Current(r))) \in Nat
            /\ Cardinality(Publishers(Current(r))) # 0
        BY <4>1, <4>2, FS_CardinalityType, FS_EmptySet
      <4> QED BY <4>3
    <3>2. /\ topic[Current(r)] \in Nat /\ lost[Current(r)] \in Nat
          /\ expired[Current(r)] \in Nat
      BY <2>1, IngestionAssumption DEF TypeOK
    <3>3. Cardinality(Publishers(Current(r))) \in Nat
      BY <2>1, FS_CardinalityType DEF WindowInv
    <3>4. topic[Current(r)] + lost[Current(r)] + Cardinality(Publishers(Current(r)))
            = expired[Current(r)] + Live(Current(r))
      BY <2>1 DEF WindowInv
    <3>5. Live(Current(r)) \in Nat /\ (Current(r) \notin marked => Live(Current(r)) = 0)
      BY DEF Live
    <3> QED BY <3>1, <3>2, <3>3, <3>4, <3>5
  <2>3. LET f == Batch[r][at[r]].print IN f \in marked' \/ expired'[f] > 0
    BY <2>1, <2>2, MarksKept DEF Current
  <2>4. \A k \in Signals(r) : k < at'[r] => k < at[r] \/ k = at[r]
    BY <1>1, <1>2, <2>1
  <2> QED BY <1>3, <2>1, <2>3, <2>4
<1>8. CASE Answer(r) BY <1>3, <1>8 DEF Answer, Goto, TypeOK
<1>9. CASE Mark(r) \/ FailCheck(r) \/ FailPublish(r)
  <2>1. at' = at /\ pc'[r] # "answered"
    BY <1>9 DEF Mark, FailCheck, FailPublish, Goto, TypeOK
  <2> QED BY <1>3, <2>1
<1>10. ASSUME NEW q \in Requests \ {r},
              \/ Send(q) \/ Retry(q) \/ Mark(q) \/ Duplicate(q)
              \/ Publish(q) \/ Answer(q) \/ FailCheck(q) \/ FailPublish(q)
       PROVE  pc'[r] = pc[r] /\ at'[r] = at[r]
  <2>1. CASE Send(q) \/ Retry(q)
    BY <1>2, <2>1, AdvanceFacts DEF Send, Retry, Begin, Goto, TypeOK
  <2>2. CASE Duplicate(q) \/ Publish(q)
    BY <1>2, <2>2, AdvanceFacts DEF Duplicate, Publish, Goto, TypeOK
  <2> QED BY <1>10, <2>1, <2>2 DEF Mark, Answer, FailCheck, FailPublish, Goto, TypeOK
<1>11. ASSUME NEW f \in Prints, Expire(f) PROVE pc'[r] = pc[r] /\ at'[r] = at[r]
  BY <1>11 DEF Expire
<1>12. CASE UNCHANGED vars BY <1>4, <1>12 DEF vars
<1> QED BY <1>4, <1>5, <1>6, <1>7, <1>8, <1>9, <1>10, <1>11, <1>12 DEF Next

LEMMA PassedInit == Init => PassedInv
<1> SUFFICES ASSUME Init, NEW r \in Requests
             PROVE  /\ pc[r] # "answered" /\ at[r] = 0
                    /\ \A k \in Signals(r) : ~ k < 0
  BY DEF PassedInv, Init
<1>1. \A k \in Signals(r) : k \in Nat BY BatchFacts
<1> QED BY <1>1 DEF Init

LEMMA PassedImplies == TypeOK /\ WindowInv /\ PassedInv => AcknowledgedAccounted
<1> SUFFICES ASSUME TypeOK, WindowInv, PassedInv,
                    NEW r \in Requests, pc[r] = "answered",
                    NEW k \in Signals(r), NEW f, f = Batch[r][k].print
             PROVE  topic[f] > 0 \/ Publishing(f) \/ lost[f] > 0
  BY DEF AcknowledgedAccounted
<1>1. f \in Prints /\ k < End(r) BY BatchFacts
<1>2. f \in marked \/ expired[f] > 0 BY <1>1 DEF PassedInv
<1>3. topic[f] \in Nat /\ lost[f] \in Nat /\ expired[f] \in Nat
  BY <1>1, IngestionAssumption DEF TypeOK
<1>4. Live(f) \in Nat /\ (f \in marked => Live(f) = 1) BY DEF Live
<1>5. /\ IsFiniteSet(Publishers(f))
      /\ topic[f] + lost[f] + Cardinality(Publishers(f)) = expired[f] + Live(f)
  BY <1>1 DEF WindowInv
<1>6. CASE Publishers(f) = {}
  <2>1. Cardinality(Publishers(f)) = 0 BY <1>6, FS_EmptySet
  <2>2. topic[f] + lost[f] > 0 BY <1>2, <1>3, <1>4, <1>5, <2>1
  <2> QED BY <1>3, <2>2
<1>7. CASE Publishers(f) # {} BY <1>7 DEF Publishers, Publishing
<1> QED BY <1>6, <1>7

\* A signal whose client was told that it is accepted or deduplicated is on the topic,
\* at another request's publish, or was lost behind a mark, for every number of
\* requests, retries, expiries and faults.
THEOREM AnswersAreAccounted == Spec => []AcknowledgedAccounted
BY TypeInit, TypeStep, WindowInit, WindowStep, PassedInit, PassedStep, PassedImplies,
   PTL DEF Spec

-----------------------------------------------------------------------------
(* Console: the lock's queue *)

LEMMA TaskFacts ==
  ASSUME NEW c \in Conns, NEW d \in Conns
  PROVE  /\ Broadcast \in Tasks /\ <<"add", c>> \in Tasks /\ <<"discard", c>> \in Tasks
         /\ Broadcast # <<"add", c>> /\ Broadcast # <<"discard", c>>
         /\ <<"add", c>> # <<"discard", d>>
         /\ c # d => <<"add", c>> # <<"add", d>> /\ <<"discard", c>> # <<"discard", d>>
<1>1. /\ Broadcast \in Tasks /\ <<"add", c>> \in Tasks /\ <<"discard", c>> \in Tasks
  BY DEF Tasks
<1>2. Broadcast # <<"add", c>> /\ Broadcast # <<"discard", c>> BY DEF Broadcast
<1> QED BY <1>1, <1>2

\* A task that was not waiting waits at the end.
LEMMA QueueAppend ==
  ASSUME NEW q \in Seq(Tasks), IsInjective(q), NEW x \in Tasks, ~ Contains(q, x)
  PROVE  /\ Append(q, x) \in Seq(Tasks) /\ IsInjective(Append(q, x))
         /\ \A y : Contains(Append(q, x), y) <=> Contains(q, y) \/ y = x
<1> DEFINE e == Append(q, x)
<1>1. /\ e \in Seq(Tasks) /\ Len(q) \in Nat /\ Len(e) = Len(q) + 1
      /\ DOMAIN q = 1 .. Len(q) /\ DOMAIN e = 1 .. Len(q) + 1
      /\ \A k \in 1 .. Len(q) : e[k] = q[k]
      /\ e[Len(q) + 1] = x
  OBVIOUS
<1> HIDE DEF e
<1>2. \A k \in 1 .. Len(q) + 1 : k \in 1 .. Len(q) \/ k = Len(q) + 1 BY <1>1
<1>3. 1 .. Len(q) \subseteq 1 .. Len(q) + 1 /\ Len(q) + 1 \in 1 .. Len(q) + 1 BY <1>1
<1>4. \A k \in 1 .. Len(q) : q[k] # x BY DEF Contains
<1>5. IsInjective(e)
  <2> SUFFICES ASSUME NEW i \in 1 .. Len(q) + 1, NEW j \in 1 .. Len(q) + 1, e[i] = e[j]
               PROVE  i = j
    BY <1>1 DEF IsInjective
  <2>1. CASE i \in 1 .. Len(q) /\ j \in 1 .. Len(q)
    <3>1. q[i] = q[j] BY <1>1, <2>1
    <3> QED BY <1>1, <2>1, <3>1 DEF IsInjective
  <2>2. CASE i = Len(q) + 1 /\ j \in 1 .. Len(q) BY <1>1, <1>4, <2>2
  <2>3. CASE i \in 1 .. Len(q) /\ j = Len(q) + 1 BY <1>1, <1>4, <2>3
  <2> QED BY <1>2, <2>1, <2>2, <2>3
<1>6. ASSUME NEW y PROVE Contains(e, y) <=> Contains(q, y) \/ y = x
  BY <1>1, <1>2, <1>3 DEF Contains
<1> QED BY <1>1, <1>5, <1>6 DEF e

\* The task at the head goes, and no other.
LEMMA QueueTail ==
  ASSUME NEW q \in Seq(Tasks), IsInjective(q), q # <<>>
  PROVE  /\ Tail(q) \in Seq(Tasks) /\ IsInjective(Tail(q))
         /\ Head(q) \in Tasks /\ Contains(q, Head(q))
         /\ \A y : Contains(Tail(q), y) <=> Contains(q, y) /\ y # Head(q)
<1> DEFINE t == Tail(q)
           n == Len(q)
<1>1. n \in Nat \ {0} BY q # <<>>
<1>2. /\ t \in Seq(Tasks) /\ Len(t) + 1 = n /\ DOMAIN q = 1 .. n /\ DOMAIN t = 1 .. Len(t)
      /\ Len(t) \in Nat
      /\ \A k \in 1 .. Len(t) : t[k] = q[k + 1]
      /\ Head(q) = q[1] /\ q[1] \in Tasks
  BY <1>1
<1> HIDE DEF t, n
<1>3. 1 \in 1 .. n /\ \A k \in 1 .. Len(t) : k + 1 \in 1 .. n /\ k + 1 # 1 BY <1>1, <1>2
<1>4. IsInjective(t)
  <2> SUFFICES ASSUME NEW i \in 1 .. Len(t), NEW j \in 1 .. Len(t), t[i] = t[j]
               PROVE  i = j
    BY <1>2 DEF IsInjective
  <2>1. q[i + 1] = q[j + 1] BY <1>2
  <2>2. i + 1 = j + 1 BY <1>2, <1>3, <2>1 DEF IsInjective
  <2> QED BY <1>2, <2>2
<1>5. ASSUME NEW y, Contains(t, y) PROVE Contains(q, y) /\ y # q[1]
  <2>1. PICK k \in 1 .. Len(t) : t[k] = y BY <1>5 DEF Contains
  <2>2. q[k + 1] = y /\ k + 1 \in 1 .. n /\ k + 1 # 1 BY <1>2, <1>3, <2>1
  <2>3. y # q[1] BY <1>2, <1>3, <2>2 DEF IsInjective
  <2> QED BY <2>2, <2>3 DEF Contains, n
<1>6. ASSUME NEW y, Contains(q, y), y # q[1] PROVE Contains(t, y)
  <2>1. PICK k \in 1 .. n : q[k] = y BY <1>6 DEF Contains, n
  <2>2. PICK j \in 1 .. Len(t) : k = j + 1
    <3>1. k # 1 BY <1>6, <2>1
    <3>2. k - 1 \in 1 .. Len(t) /\ k = (k - 1) + 1 BY <1>1, <1>2, <3>1
    <3> QED BY <3>2
  <2>3. t[j] = y BY <1>2, <2>1, <2>2
  <2> QED BY <2>3 DEF Contains
<1>7. Contains(q, q[1]) BY <1>3 DEF Contains, n
<1> QED BY <1>2, <1>4, <1>5, <1>6, <1>7 DEF t

-----------------------------------------------------------------------------
(* Console: the events that were shown, in order *)

\* One more of them, the last.
LEMMA SubSeqGrows ==
  ASSUME NEW S, NEW s \in Seq(S), NEW j \in Nat, NEW n \in Nat, j <= n, n + 1 = Len(s)
  PROVE  Append(SubSeq(s, j + 1, n), Last(s)) = SubSeq(s, j + 1, Len(s))
<1> DEFINE t == SubSeq(s, j + 1, n)
           u == SubSeq(s, j + 1, Len(s))
<1>1. \A i \in 1 .. Len(s) : s[i] \in S BY ElementOfSeq
<1>2. /\ j + 1 .. n \subseteq 1 .. Len(s) /\ j + 1 .. Len(s) \subseteq 1 .. Len(s)
      /\ n - (j + 1) + 1 = n - j /\ Len(s) - (j + 1) + 1 = n - j + 1
      /\ n - j \in Nat /\ (j + 1 <= n <=> n - j # 0) /\ j + 1 <= Len(s)
  OBVIOUS
<1>3. /\ t \in Seq(S) /\ Len(t) = n - j
      /\ \A i \in 1 .. n - j : t[i] = s[j + 1 + i - 1]
  <2>1. \A i \in j + 1 .. n : s[i] \in S BY <1>1, <1>2
  <2> QED BY <1>2, <2>1, SubSeqProperties
<1>4. /\ u \in Seq(S) /\ Len(u) = n - j + 1
      /\ \A i \in 1 .. n - j + 1 : u[i] = s[j + 1 + i - 1]
  <2>1. \A i \in j + 1 .. Len(s) : s[i] \in S BY <1>1, <1>2
  <2>2. j + 1 \in Int /\ Len(s) \in Int OBVIOUS
  <2>3. /\ u \in Seq(S)
        /\ Len(u) = (IF j + 1 <= Len(s) THEN Len(s) - (j + 1) + 1 ELSE 0)
        /\ \A i \in 1 .. Len(s) - (j + 1) + 1 : u[i] = s[j + 1 + i - 1]
    BY <2>1, <2>2, SubSeqProperties
  <2> QED BY <1>2, <2>3
<1> HIDE DEF t, u
<1>5. Last(s) \in S /\ Last(s) = s[j + 1 + (n - j + 1) - 1] BY <1>1, <1>2 DEF Last
<1>6. /\ Append(t, Last(s)) \in Seq(S) /\ Len(Append(t, Last(s))) = n - j + 1
      /\ \A i \in 1 .. n - j : Append(t, Last(s))[i] = t[i]
      /\ Append(t, Last(s))[n - j + 1] = Last(s)
  BY <1>3, <1>5
<1>7. \A i \in 1 .. n - j + 1 : i \in 1 .. n - j \/ i = n - j + 1 BY <1>2
<1>8. n - j + 1 \in 1 .. n - j + 1 BY <1>2
<1>9. ASSUME NEW i \in 1 .. n - j + 1 PROVE Append(t, Last(s))[i] = u[i]
  <2>1. CASE i \in 1 .. n - j BY <1>3, <1>4, <1>6, <2>1
  <2>2. CASE i = n - j + 1 BY <1>4, <1>5, <1>6, <1>8, <2>2
  <2> QED BY <1>7, <2>1, <2>2
<1>10. Append(t, Last(s)) = u BY <1>4, <1>6, <1>9, SeqEqual
<1> QED BY <1>10 DEF t, u

\* What comes behind them leaves them as they are.
LEMMA SubSeqKept ==
  ASSUME NEW S, NEW s \in Seq(S), NEW x \in S, NEW j \in Nat, NEW n \in 0 .. Len(s)
  PROVE  SubSeq(Append(s, x), j + 1, n) = SubSeq(s, j + 1, n)
<1> DEFINE e == Append(s, x)
           t == SubSeq(s, j + 1, n)
           u == SubSeq(e, j + 1, n)
<1>1. \A i \in 1 .. Len(s) : s[i] \in S /\ e[i] = s[i] BY ElementOfSeq
<1>2. n \in Nat /\ \A i \in j + 1 .. n : i \in 1 .. Len(s) OBVIOUS
<1>3. \A i \in j + 1 .. n : s[i] \in S /\ e[i] \in S BY <1>1, <1>2
<1> HIDE DEF e
<1>4. /\ t \in Seq(S) /\ Len(t) = (IF j + 1 <= n THEN n - (j + 1) + 1 ELSE 0)
      /\ \A i \in 1 .. n - (j + 1) + 1 : t[i] = s[j + 1 + i - 1]
  BY <1>2, <1>3, SubSeqProperties
<1>5. /\ u \in Seq(S) /\ Len(u) = (IF j + 1 <= n THEN n - (j + 1) + 1 ELSE 0)
      /\ \A i \in 1 .. n - (j + 1) + 1 : u[i] = e[j + 1 + i - 1]
  BY <1>2, <1>3, SubSeqProperties
<1> HIDE DEF t, u
<1>6. ASSUME NEW i \in 1 .. Len(u) PROVE u[i] = t[i]
  <2>1. i \in 1 .. n - (j + 1) + 1 BY <1>2, <1>5
  <2>2. j + 1 + i - 1 \in 1 .. Len(s) BY <1>2, <2>1
  <2> QED BY <1>1, <1>4, <1>5, <2>1, <2>2
<1>7. u = t BY <1>4, <1>5, <1>6, SeqEqual
<1> QED BY <1>7 DEF e, t, u

-----------------------------------------------------------------------------
(* Console: the invariant *)

\* The consumer task and its place on the topic.
PlaceInv ==
  /\ end \in 0 .. MaxEvents /\ position \in 0 .. end
  /\ oldest \in 0 .. position /\ fresh \in BOOLEAN
  /\ live \in Running \cup {"start", "dead"}
  /\ breaks \in Nat /\ rejoins \in Nat /\ breaks + rejoins <= MaxBreaks
  /\ shown \in Seq(1 .. end) /\ skipped \subseteq 1 .. end
  /\ live \in {"wait", "send"} => shown # <<>>
  /\ live = "start" => shown = <<>>

\* A consumer that is not behind the event it showed last has a jump to come, and
\* wherever its group may find it again, what lies between was skipped.
ShownInv ==
  /\ ShownInOrder
  /\ live \in Running /\ shown # <<>> =>
       /\ position # Last(shown) => Cardinality(Jumps) < rejoins
       /\ \A n \in oldest .. position : Last(shown) + 1 .. n \subseteq skipped

\* What a broadcast works on.
FanInv ==
  /\ live = "send" => todo # {}
  /\ todo \subseteq clients /\ dead \subseteq clients \ todo
  /\ clients \subseteq Conns
  /\ live # "send" => todo = {} /\ dead = {}

\* Each task waits for the lock at most once, and exactly while its owner says so.
LockInv ==
  /\ queue \in Seq(Tasks) /\ IsInjective(queue)
  /\ live = "wait" <=> Contains(queue, Broadcast)
  /\ handler \in [Conns -> {"none", "adding", "open", "leaving", "gone"}]
  /\ \A c \in Conns : /\ handler[c] = "adding" <=> Contains(queue, <<"add", c>>)
                      /\ handler[c] = "leaving" <=> Contains(queue, <<"discard", c>>)

\* Only a connection that was registered is a client, and one that was not yet has
\* been sent nothing.
ClientInv ==
  /\ peer \in [Conns -> {"up", "lost", "closed"}]
  /\ joined \in [Conns -> Nat] /\ sent \in [Conns -> Seq(1 .. end)]
  /\ \A c \in Conns : /\ c \in clients => handler[c] \in {"open", "leaving", "gone"}
                      /\ handler[c] \in {"none", "adding"} => sent[c] = <<>>

\* The broadcasts whose send to the client is over.
Sends(c) == IF live = "send" /\ c \notin todo THEN Len(shown) ELSE Done

\* A client was registered behind the broadcasts before it, and was sent those since.
FlowInv ==
  \A c \in clients :
    /\ joined[c] <= Done
    /\ c \notin dead => sent[c] = SubSeq(shown, joined[c] + 1, Sends(c))

ConsoleInv == PlaceInv /\ ShownInv /\ FanInv /\ LockInv /\ ClientInv /\ FlowInv

LEMMA InvImplies == ConsoleInv => ConsoleTypeOK /\ InStep
<1>1. ConsoleInv => ConsoleTypeOK
  BY DEF ConsoleInv, PlaceInv, FanInv, LockInv, ClientInv, ConsoleTypeOK
<1>2. ConsoleInv => SentAsShown BY DEF ConsoleInv, FlowInv, SentAsShown, Sends
<1> QED BY <1>1, <1>2 DEF ConsoleInv, ShownInv, InStep

LEMMA PlaceFacts ==
  ASSUME PlaceInv
  PROVE  /\ end \in Nat /\ position \in Nat /\ oldest \in Nat
         /\ Len(shown) \in Nat /\ Done \in 0 .. Len(shown)
         /\ live \in {"wait", "send"} => Done + 1 = Len(shown)
         /\ live \notin {"wait", "send"} => Done = Len(shown)
         /\ shown # <<>> => Len(shown) # 0 /\ Last(shown) \in 1 .. end
<1>1. end \in Nat /\ position \in Nat /\ oldest \in Nat
  BY ConsoleAssumption DEF PlaceInv
<1>2. /\ Len(shown) \in Nat
      /\ shown # <<>> => Len(shown) # 0 /\ shown[Len(shown)] \in 1 .. end
  BY EmptySeq, LenProperties, ElementOfSeq DEF PlaceInv
<1>3. live \in {"wait", "send"} => Len(shown) # 0 BY <1>2 DEF PlaceInv
<1> QED BY <1>1, <1>2, <1>3 DEF Done, Last

LEMMA JumpsFacts ==
  ASSUME PlaceInv PROVE IsFiniteSet(Jumps) /\ Cardinality(Jumps) \in Nat
<1>1. Len(shown) - 1 \in Int /\ 1 \in Int BY PlaceFacts
<1>2. IsFiniteSet(1 .. Len(shown) - 1) BY <1>1, FS_Interval
<1>3. Jumps \in SUBSET (1 .. Len(shown) - 1) BY DEF Jumps
<1>4. IsFiniteSet(Jumps) BY <1>2, <1>3, FS_Subset
<1> QED BY <1>4, FS_CardinalityType

\* A step of which the consumer knows nothing keeps the order of what it showed.
LEMMA ShownUnchanged ==
  ASSUME ShownInv, UNCHANGED <<live, position, oldest, stream>>
  PROVE  ShownInv'
BY DEF ShownInv, ShownInOrder, Jumps, stream, Running

LEMMA PlaceUnchanged ==
  ASSUME PlaceInv, ShownInv, UNCHANGED <<consumer, stream, breaks>>
  PROVE  PlaceInv' /\ ShownInv'
BY ShownUnchanged DEF PlaceInv, consumer, stream

LEMMA InvInit == ASSUME ConsoleInit PROVE ConsoleInv
<1>1. PlaceInv BY ConsoleAssumption, EmptySeq DEF ConsoleInit, PlaceInv
<1>2. ShownInv
  <2>1. Jumps = {} BY EmptySeq DEF ConsoleInit, Jumps
  <2>2. Cardinality(Jumps) = 0 BY <2>1, FS_EmptySet
  <2> QED BY <2>1, <2>2 DEF ConsoleInit, ShownInv, ShownInOrder, Running
<1>3. FanInv BY DEF ConsoleInit, FanInv
<1>4. LockInv
  <2>1. queue \in Seq(Tasks) /\ DOMAIN queue = {} BY DEF ConsoleInit
  <2>2. \A y : ~ Contains(queue, y) BY DEF ConsoleInit, Contains
  <2>3. IsInjective(queue) BY <2>1 DEF IsInjective
  <2> QED BY <2>1, <2>2, <2>3 DEF ConsoleInit, LockInv
<1>5. ClientInv BY EmptySeq DEF ConsoleInit, ClientInv
<1>6. FlowInv BY DEF ConsoleInit, FlowInv
<1> QED BY <1>1, <1>2, <1>3, <1>4, <1>5, <1>6 DEF ConsoleInv

-----------------------------------------------------------------------------
(* The consumer task *)

LEMMA PublishStep ==
  ASSUME ConsoleInv, PublishEvent PROVE ConsoleInv'
<1> USE DEF ConsoleInv
<1>1. end \in Nat /\ end' = end + 1 /\ 1 .. end \subseteq 1 .. end'
  BY PlaceFacts DEF PublishEvent
<1>2. PlaceInv'
  <2>1. shown \in Seq(1 .. end') BY <1>1, SeqMonotonic DEF PlaceInv
  <2> QED BY <1>1, <2>1, PlaceFacts, ConsoleAssumption DEF PublishEvent, place, stream, PlaceInv
<1>3. ShownInv' BY ShownUnchanged DEF PublishEvent, place
<1>4. FanInv' BY DEF PublishEvent, fanout, FanInv
<1>5. LockInv' BY DEF PublishEvent, sockets, LockInv
<1>6. ClientInv'
  <2>1. \A c \in Conns : sent[c] \in Seq(1 .. end') BY <1>1, SeqMonotonic DEF ClientInv
  <2>2. sent \in [Conns -> Seq(1 .. end')] BY <2>1 DEF ClientInv
  <2> QED BY <2>2 DEF PublishEvent, fanout, sockets, ClientInv
<1>7. FlowInv' BY DEF PublishEvent, fanout, sockets, stream, FlowInv, Done, Sends
<1> QED BY <1>2, <1>3, <1>4, <1>5, <1>6, <1>7

LEMMA StartStep ==
  ASSUME ConsoleInv, Start PROVE ConsoleInv'
<1> USE DEF ConsoleInv
<1>1. shown = <<>> BY DEF Start, PlaceInv
<1>2. PlaceInv' BY <1>1, PlaceFacts DEF Start, stream, PlaceInv, Running
<1>3. ShownInv' BY <1>1 DEF Start, stream, ShownInv, ShownInOrder, Jumps
<1>4. FanInv' BY DEF Start, fanout, FanInv
<1>5. LockInv' BY DEF Start, sockets, LockInv
<1>6. ClientInv' BY DEF Start, fanout, sockets, ClientInv
<1>7. FlowInv' BY DEF Start, fanout, sockets, stream, FlowInv, Done, Sends
<1> QED BY <1>2, <1>3, <1>4, <1>5, <1>6, <1>7

LEMMA ConsumerFailsStep ==
  ASSUME ConsoleInv, ConsumerFails PROVE ConsoleInv'
<1> USE DEF ConsoleInv
<1>1. PlaceInv' BY PlaceFacts, ConsoleAssumption DEF ConsumerFails, Leave, stream, PlaceInv
<1>2. ShownInv'
  BY DEF ConsumerFails, stream, ShownInv, ShownInOrder, Jumps, Running
<1>3. FanInv' BY DEF ConsumerFails, fanout, FanInv
<1>4. LockInv' BY DEF ConsumerFails, sockets, LockInv
<1>5. ClientInv' BY DEF ConsumerFails, fanout, sockets, ClientInv
<1>6. FlowInv' BY DEF ConsumerFails, fanout, sockets, stream, FlowInv, Done, Sends
<1> QED BY <1>1, <1>2, <1>3, <1>4, <1>5, <1>6

LEMMA RestartStep ==
  ASSUME ConsoleInv, Restart PROVE ConsoleInv'
<1> USE DEF ConsoleInv
<1>1. PlaceInv' BY PlaceFacts, ConsoleAssumption, EmptySeq DEF Restart, Leave, PlaceInv
<1>2. ShownInv'
  <2>1. Jumps' = {} BY EmptySeq DEF Restart, Jumps
  <2>2. Cardinality(Jumps') = 0 BY <2>1, FS_EmptySet
  <2> QED BY <2>1, <2>2 DEF Restart, ShownInv, ShownInOrder, Running
<1>3. FanInv' BY DEF Restart, FanInv
<1>4. LockInv'
  <2>1. queue' \in Seq(Tasks) /\ DOMAIN queue' = {} BY DEF Restart
  <2>2. \A y : ~ Contains(queue', y) BY DEF Restart, Contains
  <2>3. IsInjective(queue') BY <2>1 DEF IsInjective
  <2>4. /\ handler' \in [Conns -> {"none", "adding", "open", "leaving", "gone"}]
        /\ \A c \in Conns : handler'[c] \in {"none", "gone"}
    BY DEF Restart
  <2>5. live' = "start" BY DEF Restart
  <2> QED BY <2>1, <2>2, <2>3, <2>4, <2>5 DEF LockInv
<1>5. ClientInv' BY EmptySeq DEF Restart, ClientInv, LockInv
<1>6. FlowInv' BY DEF Restart, FlowInv
<1> QED BY <1>1, <1>2, <1>3, <1>4, <1>5, <1>6

\* The event that is taken is a jump exactly if the consumer was not behind the last
\* one, and its broadcast is not yet over: nothing changes for a client.
LEMMA TakeStep ==
  ASSUME ConsoleInv, Take PROVE ConsoleInv'
<1> USE DEF ConsoleInv
<1> DEFINE n == Len(shown)
<1>1. /\ live = "poll" /\ live' = "wait"
      /\ position + 1 \in 1 .. end /\ position' = position + 1
      /\ shown' = Append(shown, position + 1) /\ shown \in Seq(1 .. end)
      /\ UNCHANGED <<end, oldest, fresh, fanout, sockets, skipped, rejoins, breaks>>
  BY PlaceFacts DEF Take, PlaceInv
<1>2. /\ n \in Nat /\ Len(shown') = n + 1 /\ shown' \in Seq(1 .. end)
      /\ \A i \in 1 .. n : shown'[i] = shown[i]
      /\ shown'[n + 1] = position + 1 /\ shown' # <<>> /\ Last(shown') = position + 1
  <2>1. n \in Nat BY PlaceFacts
  <2>2. /\ Len(shown') = n + 1 /\ shown' \in Seq(1 .. end)
        /\ \A i \in 1 .. n : shown'[i] = shown[i]
        /\ shown'[n + 1] = position + 1
    BY <1>1, <2>1
  <2>3. shown' # <<>> BY <2>1, <2>2, EmptySeq
  <2> QED BY <2>1, <2>2, <2>3 DEF Last
<1>3. PlaceInv'
  BY <1>1, <1>2, PlaceFacts DEF PlaceInv, Running
<1>4. ShownInv'
  <2>1. CASE n = 0
    <3>1. Jumps' = {} BY <1>2, <2>1 DEF Jumps
    <3>2. Cardinality(Jumps') = 0 BY <3>1, FS_EmptySet
    <3>3. \A m \in oldest' .. position' : Last(shown') + 1 .. m = {}
      BY <1>1, <1>2, PlaceFacts
    <3> QED BY <1>1, <1>2, <3>1, <3>2, <3>3 DEF ShownInv, ShownInOrder, PlaceInv
  <2>2. CASE n # 0
    <3>1. shown # <<>> BY <2>2, EmptySeq
    <3>2. shown[n] = Last(shown) /\ shown[n] \in 1 .. end /\ n \in 1 .. n /\ n \notin 1 .. n - 1
      BY <1>2, <2>2, <3>1, PlaceFacts DEF Last
    <3>3. \A i \in 1 .. n : i \in 1 .. n - 1 \/ i = n BY <1>2
    <3>4. \A i \in 1 .. n - 1 : shown'[i] = shown[i] /\ shown'[i + 1] = shown[i + 1]
      <4>1. \A i \in 1 .. n - 1 : i \in 1 .. n /\ i + 1 \in 1 .. n BY <1>2
      <4> QED BY <1>2, <4>1
    <3>5. Jumps' = IF position # Last(shown) THEN Jumps \cup {n} ELSE Jumps
      <4>1. Jumps' = {i \in 1 .. n : shown'[i + 1] # shown'[i] + 1}
        BY <1>2 DEF Jumps
      <4>2. shown'[n + 1] # shown'[n] + 1 <=> position # Last(shown)
        BY <1>2, <3>2, PlaceFacts
      <4>3. Jumps \subseteq 1 .. n - 1 /\ 1 .. n - 1 \subseteq 1 .. n BY <1>2 DEF Jumps
      <4>4. \A i \in 1 .. n - 1 : i \in Jumps' <=> i \in Jumps
        BY <3>4, <4>1, <4>3 DEF Jumps
      <4> QED BY <3>2, <3>3, <4>1, <4>2, <4>3, <4>4
    <3>6. /\ position # Last(shown) => Cardinality(Jumps) < rejoins
          /\ \A m \in oldest .. position : Last(shown) + 1 .. m \subseteq skipped
      BY <1>1, <3>1 DEF ShownInv, Running
    <3>7. Cardinality(Jumps') <= rejoins'
      <4>1. n \notin Jumps BY <3>2 DEF Jumps
      <4>2. Cardinality(Jumps \cup {n}) = Cardinality(Jumps) + 1
        BY <4>1, JumpsFacts, FS_AddElement
      <4>3. Cardinality(Jumps) \in Nat /\ rejoins \in Nat BY JumpsFacts DEF PlaceInv
      <4>4. CASE position # Last(shown) BY <1>1, <3>5, <3>6, <4>2, <4>3, <4>4
      <4>5. CASE position = Last(shown) BY <1>1, <3>5, <4>5 DEF ShownInv, ShownInOrder
      <4> QED BY <4>4, <4>5
    <3>8. ASSUME NEW i \in Jumps' PROVE shown'[i] + 1 .. shown'[i + 1] - 1 \subseteq skipped'
      <4>1. CASE i \in Jumps
        <5>1. i \in 1 .. n - 1 BY <4>1 DEF Jumps
        <5> QED BY <1>1, <3>4, <4>1, <5>1 DEF ShownInv, ShownInOrder
      <4>2. CASE i = n
        <5>1. position \in oldest .. position BY PlaceFacts DEF PlaceInv
        <5>2. shown'[i] = Last(shown) /\ shown'[i + 1] - 1 = position
          <6>1. shown'[n] = Last(shown) BY <1>2, <3>2
          <6>2. shown'[n + 1] - 1 = position BY <1>2, PlaceFacts
          <6> QED BY <4>2, <6>1, <6>2
        <5>3. Last(shown) + 1 .. position \subseteq skipped' BY <1>1, <3>6, <5>1
        <5> QED BY <5>2, <5>3
      <4> QED BY <3>5, <4>1, <4>2
    <3>9. \A m \in oldest' .. position' : Last(shown') + 1 .. m = {}
      BY <1>1, <1>2, PlaceFacts
    <3> QED BY <1>1, <1>2, <3>7, <3>8, <3>9 DEF ShownInv, ShownInOrder
  <2> QED BY <2>1, <2>2
<1>5. FanInv' BY <1>1 DEF fanout, FanInv
<1>6. LockInv'
  <2>1. ~ Contains(queue, Broadcast) BY <1>1 DEF LockInv
  <2>2. queue \in Seq(Tasks) /\ IsInjective(queue) BY DEF LockInv
  <2>3. Broadcast \in Tasks BY DEF Tasks
  <2>4. /\ queue' \in Seq(Tasks) /\ IsInjective(queue')
        /\ \A y : Contains(queue', y) <=> Contains(queue, y) \/ y = Broadcast
    BY <2>1, <2>2, <2>3, QueueAppend DEF Take
  <2>5. live' = "wait" /\ handler' = handler BY <1>1 DEF sockets
  <2> QED BY <2>4, <2>5, TaskFacts DEF LockInv
<1>7. ClientInv' BY <1>1 DEF fanout, sockets, ClientInv
<1>8. FlowInv'
  <2>1. Done' = Done /\ Done = n BY <1>1, <1>2 DEF Done
  <2>2. SUFFICES ASSUME NEW c \in clients, c \notin dead
                 PROVE  SubSeq(shown', joined[c] + 1, n) = SubSeq(shown, joined[c] + 1, n)
    BY <1>1, <2>1 DEF FlowInv, Sends, fanout, sockets
  <2>3. joined[c] \in Nat BY DEF FanInv, ClientInv
  <2>4. /\ shown \in Seq(1 .. end) /\ position + 1 \in 1 .. end /\ n \in 0 .. Len(shown)
        /\ shown' = Append(shown, position + 1)
    BY <1>1, <1>2
  <2> HIDE DEF n
  <2> QED BY <2>3, <2>4, SubSeqKept
<1> QED BY <1>3, <1>4, <1>5, <1>6, <1>7, <1>8

\* The place is another one, what was shown is the same.
LEMMA RejoinStep ==
  ASSUME ConsoleInv, NEW p \in 0 .. end, Rejoin(p), fresh' \in BOOLEAN,
         skipped \subseteq skipped', skipped' \subseteq 1 .. end,
         shown # <<>> => Last(shown) + 1 .. p \subseteq skipped'
  PROVE  ConsoleInv'
<1> USE DEF ConsoleInv
<1>1. PlaceInv' BY PlaceFacts, ConsoleAssumption DEF Rejoin, PlaceInv
<1>2. ShownInv'
  <2>1. /\ Jumps' = Jumps /\ shown' = shown /\ rejoins' = rejoins + 1
        /\ position' = p /\ oldest' = p
    BY DEF Rejoin, Jumps
  <2>2. Cardinality(Jumps) \in Nat /\ Cardinality(Jumps) <= rejoins /\ rejoins \in Nat
    BY JumpsFacts DEF ShownInv, ShownInOrder, PlaceInv
  <2>3. ShownInOrder' BY <2>1, <2>2 DEF ShownInv, ShownInOrder
  <2>4. Cardinality(Jumps') < rejoins' BY <2>1, <2>2
  <2>5. \A m \in oldest' .. position' : m = p BY <2>1, PlaceFacts
  <2> QED BY <2>1, <2>3, <2>4, <2>5 DEF ShownInv
<1>3. FanInv' BY DEF Rejoin, fanout, FanInv
<1>4. LockInv' BY DEF Rejoin, sockets, LockInv
<1>5. ClientInv' BY DEF Rejoin, fanout, sockets, ClientInv
<1>6. FlowInv' BY DEF Rejoin, fanout, sockets, FlowInv, Done, Sends
<1> QED BY <1>1, <1>2, <1>3, <1>4, <1>5, <1>6

LEMMA GoBackStep ==
  ASSUME ConsoleInv, GoBack PROVE ConsoleInv'
<1>1. PICK p \in oldest .. position : Rejoin(p) BY DEF GoBack
<1>2. PlaceInv /\ live \in Running BY <1>1 DEF ConsoleInv, Rejoin
<1>3. p \in 0 .. end BY <1>2, PlaceFacts DEF PlaceInv
<1>4. fresh' \in BOOLEAN /\ skipped' = skipped /\ skipped \subseteq 1 .. end
  BY <1>2 DEF GoBack, PlaceInv
<1>5. shown # <<>> => Last(shown) + 1 .. p \subseteq skipped
  BY <1>2 DEF ConsoleInv, ShownInv
<1> QED BY <1>1, <1>3, <1>4, <1>5, RejoinStep

LEMMA GoToLatestStep ==
  ASSUME ConsoleInv, GoToLatest PROVE ConsoleInv'
<1>1. PlaceInv /\ live \in Running /\ Rejoin(end) BY DEF ConsoleInv, GoToLatest, Rejoin
<1>2. /\ end \in 0 .. end /\ position \in oldest .. position
      /\ position + 1 .. end \subseteq 1 .. end
  BY <1>1, PlaceFacts DEF PlaceInv
<1>3. /\ fresh' \in BOOLEAN /\ skipped' = skipped \cup (position + 1 .. end)
      /\ skipped \subseteq 1 .. end
  BY <1>1 DEF GoToLatest, PlaceInv
<1>4. ASSUME shown # <<>> PROVE Last(shown) + 1 .. end \subseteq skipped'
  <2>1. Last(shown) + 1 .. position \subseteq skipped
    BY <1>1, <1>2, <1>4 DEF ConsoleInv, ShownInv
  <2>2. \A e \in Last(shown) + 1 .. end :
          e \in Last(shown) + 1 .. position \/ e \in position + 1 .. end
    BY <1>1, <1>4, PlaceFacts
  <2> QED BY <1>3, <2>1, <2>2
<1> QED BY <1>1, <1>2, <1>3, <1>4, RejoinStep

-----------------------------------------------------------------------------
(* The broadcast *)

\* The task that had the lock's turn leaves the queue.
LEMMA HeadLeaves ==
  ASSUME LockInv, NEW t, Free(t), queue' = Tail(queue)
  PROVE  /\ queue' \in Seq(Tasks) /\ IsInjective(queue')
         /\ Contains(queue, t)
         /\ \A y : Contains(queue', y) <=> Contains(queue, y) /\ y # t
         /\ live # "send"
BY QueueTail DEF LockInv, Free

LEMMA BeginStep ==
  ASSUME ConsoleInv, BeginSends PROVE ConsoleInv'
<1> USE DEF ConsoleInv
<1>1. /\ queue' \in Seq(Tasks) /\ IsInjective(queue')
      /\ Contains(queue, Broadcast)
      /\ \A y : Contains(queue', y) <=> Contains(queue, y) /\ y # Broadcast
  BY HeadLeaves DEF BeginSends
<1>2. live = "wait" BY <1>1 DEF LockInv
<1>3. UNCHANGED <<end, place, clients, handler, peer, joined, sent, stream, breaks>>
  BY DEF BeginSends, sockets
<1>4. /\ todo' = clients /\ dead' = {}
      /\ clients = {} => live' = "poll"
      /\ clients # {} => live' = "send"
  BY DEF BeginSends
<1>5. PlaceInv' BY <1>2, <1>3, <1>4 DEF place, stream, PlaceInv, Running
<1>6. ShownInv'
  BY <1>2, <1>3, <1>4 DEF place, stream, ShownInv, ShownInOrder, Jumps, Running
<1>7. FanInv' BY <1>3, <1>4 DEF FanInv
<1>8. LockInv' BY <1>1, <1>3, <1>4, TaskFacts DEF LockInv
<1>9. ClientInv' BY <1>3 DEF ClientInv
<1>10. FlowInv'
  <2>1. SUFFICES ASSUME NEW c \in clients
                 PROVE  joined[c] <= Done' /\ sent[c] = SubSeq(shown', joined[c] + 1, Done')
    BY <1>3, <1>4 DEF FlowInv, Sends
  <2>2. live' = "send" BY <1>4
  <2>3. Done' = Done /\ shown' = shown BY <1>2, <1>3, <2>2 DEF Done, stream
  <2>4. c \notin dead BY <1>2 DEF FanInv
  <2> QED BY <1>2, <2>3, <2>4 DEF FlowInv, Sends
<1> QED BY <1>5, <1>6, <1>7, <1>8, <1>9, <1>10

\* What one more send leaves behind, whether it succeeded or not.
LEMMA FinishFan ==
  ASSUME FanInv, PlaceInv, ShownInv, NEW c \in todo, NEW failed \in SUBSET Conns,
         live = "send", dead \subseteq failed, failed \subseteq dead \cup {c},
         Finish(todo \ {c}, failed), UNCHANGED <<end, place, queue, stream, breaks>>
  PROVE  /\ FanInv' /\ PlaceInv' /\ ShownInv'
         /\ clients' \subseteq clients
         /\ live' \in {"poll", "send"}
         /\ \A d \in clients' \ dead' :
              /\ d \notin failed
              /\ Sends(d)' = (IF d = c THEN Len(shown) ELSE Sends(d))
         /\ Done <= Done' /\ Done' \in Nat
<1>1. /\ Len(shown) \in Nat /\ Done + 1 = Len(shown) /\ Done \in Nat /\ shown' = shown
  BY PlaceFacts DEF stream
<1>2. CASE todo \ {c} = {}
  <2>1. /\ todo' = {} /\ dead' = {} /\ clients' = clients \ failed /\ live' = "poll"
    BY <1>2 DEF Finish
  <2>2. Done' = Len(shown) BY <1>1, <2>1 DEF Done
  <2>3. FanInv' BY <2>1 DEF FanInv
  <2>4. PlaceInv' BY <2>1 DEF PlaceInv, place, stream, Running
  <2>5. ShownInv' BY <2>1 DEF place, stream, ShownInv, ShownInOrder, Jumps, Running
  <2>6. \A d \in clients' : Sends(d)' = (IF d = c THEN Len(shown) ELSE Sends(d))
    BY <1>2, <2>1, <2>2 DEF Sends
  <2> QED BY <1>1, <2>1, <2>2, <2>3, <2>4, <2>5, <2>6
<1>3. CASE todo \ {c} # {}
  <2>1. /\ todo' = todo \ {c} /\ dead' = failed /\ clients' = clients /\ live' = "send"
    BY <1>3 DEF Finish
  <2>2. Done' = Done BY <1>1, <2>1 DEF Done
  <2>3. FanInv' BY <1>3, <2>1 DEF FanInv
  <2>4. PlaceInv' BY <2>1 DEF PlaceInv, place, stream
  <2>5. ShownInv' BY <2>1 DEF place, stream, ShownInv, ShownInOrder, Jumps
  <2>6. \A d \in clients' : Sends(d)' = (IF d = c THEN Len(shown) ELSE Sends(d))
    BY <1>1, <2>1, <2>2 DEF Sends
  <2> QED BY <1>1, <2>1, <2>2, <2>3, <2>4, <2>5, <2>6
<1> QED BY <1>2, <1>3

\* The event goes behind those the client was sent.
LEMMA SendOkStep ==
  ASSUME ConsoleInv, NEW c \in Conns, SendOk(c)
  PROVE  ConsoleInv'
<1> USE DEF ConsoleInv
<1>1. /\ live = "send" /\ c \in todo
      /\ sent' = [sent EXCEPT ![c] = Append(@, Last(shown))]
      /\ UNCHANGED <<end, place, queue, handler, peer, joined, stream, breaks>>
      /\ Finish(todo \ {c}, dead)
  BY DEF SendOk
<1>2. dead \in SUBSET Conns BY DEF FanInv
<1>3. /\ FanInv' /\ PlaceInv' /\ ShownInv'
      /\ clients' \subseteq clients
      /\ live' \in {"poll", "send"}
      /\ \A d \in clients' \ dead' :
           /\ d \notin dead
           /\ Sends(d)' = (IF d = c THEN Len(shown) ELSE Sends(d))
      /\ Done <= Done' /\ Done' \in Nat
  BY <1>1, <1>2, FinishFan
<1>4. /\ Len(shown) \in Nat /\ Done \in Nat /\ Done + 1 = Len(shown)
      /\ Last(shown) \in 1 .. end /\ shown \in Seq(1 .. end) /\ shown' = shown
  BY <1>1, PlaceFacts DEF PlaceInv, stream
<1>5. /\ sent' \in [Conns -> Seq(1 .. end)]
      /\ sent'[c] = Append(sent[c], Last(shown))
      /\ \A d \in Conns \ {c} : sent'[d] = sent[d]
  BY <1>1, <1>4 DEF ClientInv
<1>6. LockInv' BY <1>1, <1>3 DEF LockInv
<1>7. c \in clients BY <1>1 DEF FanInv
<1>8. ClientInv'
  <2>1. handler[c] \notin {"none", "adding"} BY <1>7 DEF ClientInv
  <2> QED BY <1>1, <1>3, <1>5, <2>1 DEF ClientInv
<1>9. FlowInv'
  <2>1. SUFFICES ASSUME NEW d \in clients'
                 PROVE  /\ joined[d] <= Done'
                        /\ d \notin dead' =>
                             sent'[d] = SubSeq(shown, joined[d] + 1, Sends(d)')
    BY <1>1, <1>4 DEF FlowInv
  <2>2. d \in clients /\ d \in Conns BY <1>3 DEF FanInv
  <2>3. joined[d] <= Done /\ joined[d] \in Nat BY <2>2 DEF FlowInv, ClientInv
  <2>4. joined[d] <= Done' BY <1>3, <1>4, <2>3
  <2>5. ASSUME d \notin dead' PROVE sent'[d] = SubSeq(shown, joined[d] + 1, Sends(d)')
    <3>1. sent[d] = SubSeq(shown, joined[d] + 1, Sends(d))
      BY <1>3, <2>2, <2>5 DEF FlowInv
    <3>2. CASE d = c
      <4>1. Sends(c) = Done BY <1>1 DEF Sends
      <4>2. Append(SubSeq(shown, joined[c] + 1, Done), Last(shown))
              = SubSeq(shown, joined[c] + 1, Len(shown))
        BY <1>4, <2>3, <3>2, SubSeqGrows
      <4> QED BY <1>3, <1>5, <2>5, <3>1, <3>2, <4>1, <4>2
    <3>3. CASE d # c BY <1>3, <1>5, <2>2, <2>5, <3>1, <3>3
    <3> QED BY <3>2, <3>3
  <2> QED BY <2>4, <2>5
<1> QED BY <1>3, <1>6, <1>8, <1>9

\* The client whose send failed is told apart from those that were sent all.
LEMMA SendFailsStep ==
  ASSUME ConsoleInv, NEW c \in Conns, SendFails(c)
  PROVE  ConsoleInv'
<1> USE DEF ConsoleInv
<1> DEFINE failed == dead \cup {c}
<1>1. /\ live = "send" /\ c \in todo
      /\ peer' = [peer EXCEPT ![c] = "closed"]
      /\ joined' = [joined EXCEPT ![c] = 0] /\ sent' = [sent EXCEPT ![c] = <<>>]
      /\ UNCHANGED <<end, place, queue, handler, stream, breaks>>
      /\ Finish(todo \ {c}, failed)
  BY DEF SendFails, Forget
<1>2. /\ failed \in SUBSET Conns /\ c \in failed
      /\ dead \subseteq failed /\ failed \subseteq dead \cup {c}
  BY DEF FanInv
<1> HIDE DEF failed
<1>3. /\ FanInv' /\ PlaceInv' /\ ShownInv'
      /\ clients' \subseteq clients
      /\ live' \in {"poll", "send"}
      /\ \A d \in clients' \ dead' :
           /\ d \notin failed
           /\ Sends(d)' = (IF d = c THEN Len(shown) ELSE Sends(d))
      /\ Done <= Done' /\ Done' \in Nat
  BY <1>1, <1>2, FinishFan
<1>4. Done \in Nat /\ shown' = shown BY <1>1, PlaceFacts DEF stream
<1>5. LockInv' BY <1>1, <1>3 DEF LockInv
<1>6. ClientInv'
  <2>1. <<>> \in Seq(1 .. end) BY EmptySeq
  <2> QED BY <1>1, <1>3, <2>1 DEF ClientInv
<1>7. FlowInv'
  <2>1. SUFFICES ASSUME NEW d \in clients'
                 PROVE  /\ joined'[d] <= Done'
                        /\ d \notin dead' =>
                             sent'[d] = SubSeq(shown, joined'[d] + 1, Sends(d)')
    BY <1>4 DEF FlowInv
  <2>2. d \in clients /\ d \in Conns BY <1>3 DEF FanInv
  <2>3. CASE d = c
    <3>1. joined'[d] = 0 BY <1>1, <2>2, <2>3 DEF ClientInv
    <3>2. d \in dead' BY <1>2, <1>3, <2>3
    <3> QED BY <1>3, <3>1, <3>2
  <2>4. CASE d # c
    <3>1. joined'[d] = joined[d] /\ sent'[d] = sent[d] BY <1>1, <2>2, <2>4 DEF ClientInv
    <3>2. joined[d] <= Done /\ joined[d] \in Nat BY <2>2 DEF FlowInv, ClientInv
    <3>3. joined'[d] <= Done' BY <1>3, <1>4, <3>1, <3>2
    <3>4. ASSUME d \notin dead' PROVE sent[d] = SubSeq(shown, joined[d] + 1, Sends(d)')
      BY <1>2, <1>3, <2>2, <2>4, <3>4 DEF FlowInv
    <3> QED BY <3>1, <3>3, <3>4
  <2> QED BY <2>3, <2>4
<1> QED BY <1>3, <1>5, <1>6, <1>7

-----------------------------------------------------------------------------
(* The handlers *)

LEMMA ConnectStep ==
  ASSUME ConsoleInv, NEW c \in Conns, Connect(c)
  PROVE  ConsoleInv'
<1> USE DEF ConsoleInv
<1>1. /\ handler[c] = "none"
      /\ handler' = [handler EXCEPT ![c] = "adding"]
      /\ queue' = Append(queue, <<"add", c>>)
      /\ UNCHANGED <<consumer, fanout, peer, joined, sent, stream, breaks>>
  BY DEF Connect
<1>2. PlaceInv' /\ ShownInv' BY <1>1, PlaceUnchanged
<1>3. FanInv' BY <1>1 DEF FanInv, fanout, consumer
<1>4. /\ queue' \in Seq(Tasks) /\ IsInjective(queue')
      /\ \A y : Contains(queue', y) <=> Contains(queue, y) \/ y = <<"add", c>>
  <2>1. /\ queue \in Seq(Tasks) /\ IsInjective(queue)
        /\ ~ Contains(queue, <<"add", c>>)
    BY <1>1 DEF LockInv
  <2> QED BY <1>1, <2>1, TaskFacts, QueueAppend
<1>5. LockInv' BY <1>1, <1>4, TaskFacts DEF LockInv, consumer
<1>6. ClientInv' BY <1>1 DEF ClientInv, LockInv, consumer, fanout
<1>7. FlowInv' BY <1>1 DEF FlowInv, Done, Sends, consumer, fanout, stream
<1> QED BY <1>2, <1>3, <1>5, <1>6, <1>7

\* The client joins behind what is done, and has been sent nothing before.
LEMMA AddStep ==
  ASSUME ConsoleInv, NEW c \in Conns, Add(c)
  PROVE  ConsoleInv'
<1> USE DEF ConsoleInv
<1>1. /\ Free(<<"add", c>>)
      /\ queue' = Tail(queue)
      /\ clients' = clients \cup {c}
      /\ joined' = [joined EXCEPT ![c] = Done]
      /\ handler' = [handler EXCEPT ![c] = "open"]
      /\ UNCHANGED <<consumer, todo, dead, peer, sent, stream, breaks>>
  BY DEF Add
<1>2. /\ queue' \in Seq(Tasks) /\ IsInjective(queue')
      /\ Contains(queue, <<"add", c>>)
      /\ \A y : Contains(queue', y) <=> Contains(queue, y) /\ y # <<"add", c>>
      /\ live # "send"
  BY <1>1, HeadLeaves
<1>3. handler[c] = "adding" BY <1>2 DEF LockInv
<1>4. PlaceInv' /\ ShownInv' BY <1>1, PlaceUnchanged
<1>5. todo = {} /\ dead = {} BY <1>2 DEF FanInv
<1>6. FanInv' BY <1>1, <1>2, <1>5 DEF FanInv, consumer
<1>7. LockInv' BY <1>1, <1>2, <1>3, TaskFacts DEF LockInv, consumer
<1>8. Done \in Nat /\ Done' = Done BY <1>1, PlaceFacts DEF Done, consumer, stream
<1>9. ClientInv' BY <1>1, <1>8 DEF ClientInv, LockInv, consumer
<1>10. FlowInv'
  <2>1. SUFFICES ASSUME NEW d \in clients'
                 PROVE  /\ joined'[d] <= Done
                        /\ sent'[d] = SubSeq(shown, joined'[d] + 1, Done)
    BY <1>1, <1>2, <1>8 DEF FlowInv, Sends, consumer, stream
  <2>2. d \in Conns BY <1>1 DEF FanInv
  <2>3. CASE d = c
    <3>1. joined'[d] = Done BY <1>1, <2>3 DEF ClientInv
    <3>2. sent'[d] = <<>> BY <1>1, <1>3, <2>3 DEF ClientInv
    <3>3. SubSeq(shown, Done + 1, Done) = <<>> BY <1>8, SubSeqEmpty
    <3> QED BY <1>8, <3>1, <3>2, <3>3
  <2>4. CASE d # c
    <3>1. joined'[d] = joined[d] /\ sent'[d] = sent[d] BY <1>1, <2>2, <2>4 DEF ClientInv
    <3>2. d \in clients BY <1>1, <2>4
    <3> QED BY <1>2, <1>5, <3>1, <3>2 DEF FlowInv, Sends
  <2> QED BY <2>3, <2>4
<1> QED BY <1>4, <1>6, <1>7, <1>9, <1>10

LEMMA PeerLeavesStep ==
  ASSUME ConsoleInv, NEW c \in Conns, PeerLeaves(c)
  PROVE  ConsoleInv'
<1> USE DEF ConsoleInv
<1>1. /\ peer' = [peer EXCEPT ![c] = "lost"]
      /\ UNCHANGED <<consumer, fanout, queue, handler, joined, sent, stream, breaks>>
  BY DEF PeerLeaves
<1>2. PlaceInv' /\ ShownInv' BY <1>1, PlaceUnchanged
<1>3. FanInv' BY <1>1 DEF FanInv, consumer, fanout
<1>4. LockInv' BY <1>1 DEF LockInv, consumer
<1>5. ClientInv' BY <1>1 DEF ClientInv, consumer, fanout
<1>6. FlowInv' BY <1>1 DEF FlowInv, Done, Sends, consumer, fanout, stream
<1> QED BY <1>2, <1>3, <1>4, <1>5, <1>6

LEMMA DisconnectedStep ==
  ASSUME ConsoleInv, NEW c \in Conns, Disconnected(c)
  PROVE  ConsoleInv'
<1> USE DEF ConsoleInv
<1>1. /\ handler[c] = "open"
      /\ peer' = [peer EXCEPT ![c] = "closed"]
      /\ handler' = [handler EXCEPT ![c] = "leaving"]
      /\ queue' = Append(queue, <<"discard", c>>)
      /\ UNCHANGED <<consumer, fanout, joined, sent, stream, breaks>>
  BY DEF Disconnected
<1>2. PlaceInv' /\ ShownInv' BY <1>1, PlaceUnchanged
<1>3. FanInv' BY <1>1 DEF FanInv, consumer, fanout
<1>4. /\ queue' \in Seq(Tasks) /\ IsInjective(queue')
      /\ \A y : Contains(queue', y) <=> Contains(queue, y) \/ y = <<"discard", c>>
  <2>1. /\ queue \in Seq(Tasks) /\ IsInjective(queue)
        /\ ~ Contains(queue, <<"discard", c>>)
    BY <1>1 DEF LockInv
  <2> QED BY <1>1, <2>1, TaskFacts, QueueAppend
<1>5. LockInv' BY <1>1, <1>4, TaskFacts DEF LockInv, consumer
<1>6. ClientInv' BY <1>1 DEF ClientInv, LockInv, consumer, fanout
<1>7. FlowInv' BY <1>1 DEF FlowInv, Done, Sends, consumer, fanout, stream
<1> QED BY <1>2, <1>3, <1>5, <1>6, <1>7

LEMMA HandlerRaisesStep ==
  ASSUME ConsoleInv, NEW c \in Conns, HandlerRaises(c)
  PROVE  ConsoleInv'
<1> USE DEF ConsoleInv
<1>1. /\ handler[c] = "open"
      /\ peer' = [peer EXCEPT ![c] = "closed"]
      /\ handler' = [handler EXCEPT ![c] = "gone"]
      /\ UNCHANGED <<consumer, fanout, queue, joined, sent, stream, breaks>>
  BY DEF HandlerRaises
<1>2. PlaceInv' /\ ShownInv' BY <1>1, PlaceUnchanged
<1>3. FanInv' BY <1>1 DEF FanInv, consumer, fanout
<1>4. LockInv' BY <1>1 DEF LockInv, consumer
<1>5. ClientInv' BY <1>1 DEF ClientInv, LockInv, consumer, fanout
<1>6. FlowInv' BY <1>1 DEF FlowInv, Done, Sends, consumer, fanout, stream
<1> QED BY <1>2, <1>3, <1>4, <1>5, <1>6

LEMMA DiscardStep ==
  ASSUME ConsoleInv, NEW c \in Conns, Discard(c)
  PROVE  ConsoleInv'
<1> USE DEF ConsoleInv
<1>1. /\ Free(<<"discard", c>>)
      /\ queue' = Tail(queue)
      /\ clients' = clients \ {c}
      /\ handler' = [handler EXCEPT ![c] = "gone"]
      /\ joined' = [joined EXCEPT ![c] = 0] /\ sent' = [sent EXCEPT ![c] = <<>>]
      /\ UNCHANGED <<consumer, todo, dead, peer, stream, breaks>>
  BY DEF Discard, Forget
<1>2. /\ queue' \in Seq(Tasks) /\ IsInjective(queue')
      /\ Contains(queue, <<"discard", c>>)
      /\ \A y : Contains(queue', y) <=> Contains(queue, y) /\ y # <<"discard", c>>
      /\ live # "send"
  BY <1>1, HeadLeaves
<1>3. handler[c] = "leaving" BY <1>2 DEF LockInv
<1>4. PlaceInv' /\ ShownInv' BY <1>1, PlaceUnchanged
<1>5. FanInv' BY <1>1, <1>2 DEF FanInv, consumer
<1>6. LockInv' BY <1>1, <1>2, <1>3, TaskFacts DEF LockInv, consumer
<1>7. ClientInv'
  <2>1. <<>> \in Seq(1 .. end) BY EmptySeq
  <2> QED BY <1>1, <1>3, <2>1 DEF ClientInv, LockInv, consumer
<1>8. FlowInv'
  <2>1. \A d \in clients' : /\ d \in clients /\ d # c
                            /\ joined'[d] = joined[d] /\ sent'[d] = sent[d]
    BY <1>1 DEF ClientInv, FanInv
  <2> QED BY <1>1, <2>1 DEF FlowInv, Done, Sends, consumer, stream
<1> QED BY <1>4, <1>5, <1>6, <1>7, <1>8

-----------------------------------------------------------------------------

LEMMA InvStep ==
  ASSUME ConsoleInv, [ConsoleNext]_consoleVars PROVE ConsoleInv'
<1>1. CASE PublishEvent BY <1>1, PublishStep
<1>2. CASE Start BY <1>2, StartStep
<1>3. CASE ConsumerFails BY <1>3, ConsumerFailsStep
<1>4. CASE Restart BY <1>4, RestartStep
<1>5. CASE Take BY <1>5, TakeStep
<1>6. CASE GoBack BY <1>6, GoBackStep
<1>7. CASE GoToLatest BY <1>7, GoToLatestStep
<1>8. CASE BeginSends BY <1>8, BeginStep
<1>9. ASSUME NEW c \in Conns, SendOk(c) PROVE ConsoleInv' BY <1>9, SendOkStep
<1>10. ASSUME NEW c \in Conns, SendFails(c) PROVE ConsoleInv' BY <1>10, SendFailsStep
<1>11. ASSUME NEW c \in Conns, Connect(c) PROVE ConsoleInv' BY <1>11, ConnectStep
<1>12. ASSUME NEW c \in Conns, Add(c) PROVE ConsoleInv' BY <1>12, AddStep
<1>13. ASSUME NEW c \in Conns, PeerLeaves(c) PROVE ConsoleInv' BY <1>13, PeerLeavesStep
<1>14. ASSUME NEW c \in Conns, Disconnected(c) PROVE ConsoleInv' BY <1>14, DisconnectedStep
<1>15. ASSUME NEW c \in Conns, HandlerRaises(c) PROVE ConsoleInv' BY <1>15, HandlerRaisesStep
<1>16. ASSUME NEW c \in Conns, Discard(c) PROVE ConsoleInv' BY <1>16, DiscardStep
<1>17. CASE UNCHANGED consoleVars
  BY <1>17, PlaceUnchanged
     DEF consoleVars, consumer, fanout, sockets, stream, ConsoleInv, FanInv, LockInv,
         ClientInv, FlowInv, Done, Sends
<1> QED
  BY <1>1, <1>2, <1>3, <1>4, <1>5, <1>6, <1>7, <1>8, <1>9, <1>10, <1>11, <1>12, <1>13,
     <1>14, <1>15, <1>16, <1>17 DEF ConsoleNext

LEMMA ConsoleInvariant == ConsoleSpec => []ConsoleInv
<1>1. ConsoleInit => ConsoleInv BY InvInit
<1>2. ConsoleInv /\ [ConsoleNext]_consoleVars => ConsoleInv' BY InvStep
<1> QED BY <1>1, <1>2, PTL DEF ConsoleSpec

\* At most one task per handler and one broadcast wait for the Broadcaster's lock, and
\* exactly those whose owner is at its await; a broadcast sends only to clients that are
\* still registered.
THEOREM ConsoleTypes == ConsoleSpec => []ConsoleTypeOK
BY ConsoleInvariant, InvImplies, PTL

\* Every registered client was sent, in order, exactly what was broadcast since its
\* registration, and what is broadcast leaves the order of the topic only where the
\* group was joined again, and events out only where that went past them: however
\* registrations, other clients that leave or fail, rejoins and restarts fall between
\* the steps of the broadcasts.
THEOREM ConsoleInStep == ConsoleSpec => []InStep
BY ConsoleInvariant, InvImplies, PTL

=============================================================================
