--------------------------- MODULE WorkflowProofs ---------------------------
(* Theorems about Workflow, for every log of events, budget and threshold. *)
EXTENDS Workflow, TLAPS

-----------------------------------------------------------------------------
(* Type correctness *)

LEMMA IncidentType ==
  ASSUME LoopType, pc # "idle"
  PROVE  Incident \in Incidents
BY WorkflowAssumption DEF LoopType, Incident, Offsets

LEMMA LoopStep == TypeOK /\ [Next]_vars => LoopType'
<1> SUFFICES ASSUME TypeOK, [Next]_vars PROVE LoopType'
  OBVIOUS
<1> USE WorkflowAssumption
    DEF TypeOK, LoopType, Offsets, Steps, Asking, Awaits, loop
<1>1. CASE Fetch BY <1>1 DEF Fetch
<1>2. CASE Ack BY <1>2 DEF Ack
<1>3. CASE Vanished \/ Load BY <1>3 DEF Vanished, Load
<1>4. CASE Refused \/ CallFails \/ Malformed
  BY <1>4 DEF Refused, CallFails, Malformed, Raise
<1>5. CASE Triage \/ Retrieve \/ Investigate \/ Recommend
  BY <1>5 DEF Triage, Retrieve, Investigate, Recommend
<1>6. CASE GateEscalates \/ GatePasses BY <1>6 DEF GateEscalates, GatePasses
<1>7. CASE Abstain \/ Propose \/ Publish BY <1>7 DEF Abstain, Propose, Publish
<1>8. CASE \E d \in Dependencies : Cooldown(d) BY <1>8 DEF Cooldown
<1>9. CASE TimePasses BY <1>9 DEF TimePasses
<1>10. CASE Fail BY <1>10 DEF Fail, Raise
<1>11. CASE Crash BY <1>11 DEF Crash, Raise
<1>12. CASE UNCHANGED vars BY <1>12 DEF vars
<1> QED BY <1>1, <1>2, <1>3, <1>4, <1>5, <1>6, <1>7, <1>8, <1>9, <1>10, <1>11,
           <1>12 DEF Next, Handle

\* The board after an agent or the gate wrote one of its fields.
LEMMA BoardWrites ==
  ASSUME NEW b \in Boards
  PROVE  /\ \A x, y \in BOOLEAN : [b EXCEPT !.cited = x, !.precedent = y] \in Boards
         /\ \A c \in Levels : [b EXCEPT !.confidence = c] \in Boards
         /\ \A x \in BOOLEAN : [b EXCEPT !.escalated = x] \in Boards
         /\ \A x, y \in BOOLEAN : [b EXCEPT !.escalated = x, !.autonomy = y] \in Boards
         /\ \A ts \in SUBSET Tiers : [b EXCEPT !.tiers = ts] \in Boards
BY DEF Boards

LEMMA BlankIsBoard == Blank \in Boards
BY DEF Blank, Boards, Levels, Autonomy

LEMMA TypeInit == Init => TypeOK
<1> SUFFICES ASSUME Init PROVE TypeOK
  OBVIOUS
<1> USE WorkflowAssumption DEF Init
<1>1. LoopType BY DEF LoopType
<1>2. RunType
  <2>1. board \in Boards BY BlankIsBoard, Zenon
  <2>2. late \in BOOLEAN BY Zenon
  <2> QED BY <2>1, <2>2 DEF RunType
<1>3. BreakerType BY DEF BreakerType
<1>4. DatabaseType
  <2>1. NoPlan \in Plans BY DEF NoPlan, Plans, Levels, Autonomy
  <2> QED BY <2>1 DEF DatabaseType
<1>5. HistoryType BY DEF HistoryType
<1> QED BY <1>1, <1>2, <1>3, <1>4, <1>5 DEF TypeOK

LEMMA RetrieveBoard == board \in Boards /\ Retrieve => board' \in Boards
<1> SUFFICES ASSUME board \in Boards, Retrieve PROVE board' \in Boards
  OBVIOUS
<1>1. PICK x, y \in BOOLEAN : board' = [board EXCEPT !.cited = x, !.precedent = y]
  BY Zenon DEF Retrieve
<1> QED BY Zenon, <1>1, BoardWrites

LEMMA AnswerTypes == Confidence \subseteq Levels /\ Proposals \subseteq SUBSET Tiers
<1>1. Confidence \subseteq Levels BY DEF Confidence, Levels, Autonomy, Floor
<1>2. Proposals \subseteq SUBSET Tiers BY DEF Proposals
<1> QED BY <1>1, <1>2

LEMMA InvestigateBoard == board \in Boards /\ Investigate => board' \in Boards
<1> SUFFICES ASSUME board \in Boards, Investigate PROVE board' \in Boards
  OBVIOUS
<1>1. PICK c \in Confidence : board' = [board EXCEPT !.confidence = c]
  BY Zenon DEF Investigate
<1>2. c \in Levels BY AnswerTypes
<1> QED BY Zenon, <1>1, <1>2, BoardWrites

LEMMA GateBoard == board \in Boards /\ (GateEscalates \/ GatePasses) => board' \in Boards
<1> DEFINE Y == board.precedent /\ board.confidence >= Autonomy
<1> SUFFICES ASSUME board \in Boards, GateEscalates \/ GatePasses
             PROVE  board' \in Boards
  OBVIOUS
<1>1. Y \in BOOLEAN BY Zenon
<1>2. GatePasses => board' = [board EXCEPT !.escalated = FALSE, !.autonomy = Y]
  BY Zenon DEF GatePasses
<1>3. GateEscalates => board' = [board EXCEPT !.escalated = TRUE]
  BY Zenon DEF GateEscalates
<1>4. TRUE \in BOOLEAN /\ FALSE \in BOOLEAN BY Zenon
<1> HIDE DEF Y
<1> QED BY Zenon, <1>1, <1>2, <1>3, <1>4, BoardWrites

LEMMA RecommendBoard == board \in Boards /\ Recommend => board' \in Boards
<1> SUFFICES ASSUME board \in Boards, Recommend PROVE board' \in Boards
  OBVIOUS
<1>1. PICK ts \in Proposals : board' = [board EXCEPT !.tiers = ts]
  BY Zenon DEF Recommend
<1>2. ts \in SUBSET Tiers BY AnswerTypes
<1> QED BY Zenon, <1>1, <1>2, BoardWrites

LEMMA ResetTypes ==
  ASSUME Reset
  PROVE  /\ board' \in Boards /\ late' \in BOOLEAN
         /\ iterations' = 0 /\ tokens' = 0 /\ spent' = 0
<1>1. board' \in Boards BY BlankIsBoard, Zenon DEF Reset
<1>2. late' \in BOOLEAN BY Zenon DEF Reset
<1> QED BY <1>1, <1>2 DEF Reset

LEMMA RunStep == TypeOK /\ [Next]_vars => RunType'
<1> SUFFICES ASSUME TypeOK, [Next]_vars PROVE RunType'
  OBVIOUS
<1> USE WorkflowAssumption, BlankIsBoard DEF TypeOK, RunType, LoopType, Run
<1>1. CASE Fetch BY <1>1 DEF Fetch
<1>2. CASE Ack BY <1>2, ResetTypes DEF Ack
<1>3. CASE Vanished BY <1>3 DEF Vanished
<1>4. CASE Load BY <1>4, ResetTypes DEF Load
<1>5. CASE Refused \/ CallFails \/ Malformed
  BY <1>5, ResetTypes DEF Refused, CallFails, Malformed, Raise
<1>6. CASE Triage BY <1>6 DEF Triage, Ask
<1>7. CASE Retrieve
  <2>1. board' \in Boards BY <1>7, RetrieveBoard
  <2> QED BY <1>7, <2>1 DEF Retrieve
<1>8. CASE Investigate
  <2>1. board' \in Boards BY <1>8, InvestigateBoard
  <2> QED BY <1>8, <2>1 DEF Investigate, Ask
<1>9. CASE GateEscalates
  <2>1. board' \in Boards BY <1>9, GateBoard
  <2> QED BY <1>9, <2>1 DEF GateEscalates
<1>10. CASE GatePasses
  <2>1. board' \in Boards BY <1>10, GateBoard
  <2> QED BY <1>10, <2>1 DEF GatePasses
<1>11. CASE Recommend
  <2>1. board' \in Boards BY <1>11, RecommendBoard
  <2> QED BY <1>11, <2>1 DEF Recommend, Ask
<1>12. CASE Abstain \/ Propose \/ Publish BY <1>12 DEF Abstain, Propose, Publish
<1>13. CASE \E d \in Dependencies : Cooldown(d) BY <1>13 DEF Cooldown
<1>14. CASE TimePasses BY <1>14 DEF TimePasses
<1>15. CASE Fail BY <1>15, ResetTypes DEF Fail, Raise
<1>16. CASE Crash BY <1>16, ResetTypes DEF Crash, Raise
<1>17. CASE UNCHANGED vars BY <1>17 DEF vars
<1> QED BY <1>1, <1>2, <1>3, <1>4, <1>5, <1>6, <1>7, <1>8, <1>9, <1>10, <1>11,
           <1>12, <1>13, <1>14, <1>15, <1>16, <1>17 DEF Next, Handle

-----------------------------------------------------------------------------
(* The breakers *)

\* A breaker that lets calls through has a failure left before it opens.
BreakerInv ==
  /\ BreakerType
  /\ BreakerLimits
  /\ \A d \in Dependencies : ~open[d] => failures[d] < Threshold + cooldowns[d]

LEMMA Depended == \A label : Depends(label) \in Dependencies
BY DEF Depends, Dependencies

LEMMA HealthyKeeps ==
  ASSUME BreakerInv, NEW d \in Dependencies, Healthy(d)
  PROVE  BreakerInv'
BY WorkflowAssumption DEF BreakerInv, BreakerType, BreakerLimits, Healthy

LEMMA FailedKeeps ==
  ASSUME BreakerInv, NEW d \in Dependencies, Failed(d)
  PROVE  BreakerInv'
<1> DEFINE O == failures[d] + 1 >= Threshold
<1> USE WorkflowAssumption DEF BreakerInv, BreakerType, BreakerLimits
<1>1. failures' \in [Dependencies -> Nat] /\ cooldowns' \in [Dependencies -> 0 .. MaxCooldowns]
  BY DEF Failed
<1>2. open' \in [Dependencies -> BOOLEAN]
  <2>1. O \in BOOLEAN OBVIOUS
  <2>2. open' = [open EXCEPT ![d] = O] BY DEF Failed
  <2> HIDE DEF O
  <2> QED BY <2>1, <2>2
<1>3. \A e \in Dependencies : failures'[e] <= Threshold + cooldowns'[e]
  BY DEF Failed
<1>4. ASSUME NEW e \in Dependencies, ~open'[e] PROVE failures'[e] < Threshold + cooldowns'[e]
  <2>1. CASE e = d
    <3>1. open'[d] = O BY DEF Failed
    <3>2. ~O BY <3>1, <2>1, <1>4
    <3> QED BY <3>2, <2>1 DEF Failed
  <2>2. CASE e # d BY <2>2, <1>4 DEF Failed
  <2> QED BY <2>1, <2>2
<1> QED BY <1>1, <1>2, <1>3, <1>4

LEMMA BreakerStep == BreakerInv /\ [Next]_vars => BreakerInv'
<1> SUFFICES ASSUME BreakerInv, [Next]_vars PROVE BreakerInv'
  OBVIOUS
<1>1. ASSUME UNCHANGED breaker PROVE BreakerInv'
  BY <1>1 DEF BreakerInv, BreakerType, BreakerLimits, breaker
<1>2. CASE Malformed BY <1>2, HealthyKeeps, Depended DEF Malformed
<1>3. CASE CallFails BY <1>3, FailedKeeps, Depended DEF CallFails
<1>4. CASE Triage \/ Investigate \/ Recommend
  BY <1>4, HealthyKeeps DEF Triage, Investigate, Recommend, Ask, Dependencies
<1>5. CASE Retrieve BY <1>5, HealthyKeeps DEF Retrieve, Dependencies
<1>6. CASE \E d \in Dependencies : Cooldown(d)
  BY <1>6, WorkflowAssumption DEF Cooldown, BreakerInv, BreakerType, BreakerLimits
<1>7. CASE Crash
  BY <1>7, WorkflowAssumption DEF Crash, BreakerInv, BreakerType, BreakerLimits
<1>8. CASE Fetch \/ Ack \/ Vanished \/ Load \/ Refused
  BY <1>8, <1>1 DEF Fetch, Ack, Vanished, Load, Refused
<1>9. CASE GateEscalates \/ GatePasses \/ Abstain \/ Propose \/ Publish
  BY <1>9, <1>1 DEF GateEscalates, GatePasses, Abstain, Propose, Publish
<1>10. CASE TimePasses \/ Fail BY <1>10, <1>1 DEF TimePasses, Fail
<1>11. CASE UNCHANGED vars BY <1>11, <1>1 DEF vars, breaker
<1> QED BY <1>2, <1>3, <1>4, <1>5, <1>6, <1>7, <1>8, <1>9, <1>10, <1>11
        DEF Next, Handle

\* A dependency that is down is called Threshold times, and once for each cooldown,
\* for every threshold and every number of incidents that share the breaker.
THEOREM BreakersLimitCalls == Spec => []BreakerLimits
<1>1. Init => BreakerInv
  BY WorkflowAssumption DEF Init, BreakerInv, BreakerType, BreakerLimits
<1>2. BreakerInv => BreakerLimits
  BY DEF BreakerInv
<1> QED BY <1>1, <1>2, BreakerStep, PTL DEF Spec

-----------------------------------------------------------------------------
(* Database and history types, and the type invariant *)

LEMMA DatabaseStep == TypeOK /\ [Next]_vars => DatabaseType' /\ HistoryType'
<1> SUFFICES ASSUME TypeOK, [Next]_vars PROVE DatabaseType' /\ HistoryType'
  OBVIOUS
<1> USE WorkflowAssumption DEF TypeOK, DatabaseType, HistoryType, db, history
<1>0. pc # "idle" => Incident \in Incidents
  BY IncidentType
<1>1. CASE Load BY <1>1, <1>0 DEF Load
<1>2. CASE Abstain BY <1>2, <1>0 DEF Abstain, Decided
<1>3. CASE Propose
  <2>1. [id |-> plan[Incident].id + 1, confidence |-> board.confidence,
         precedent |-> board.precedent, autonomy |-> board.autonomy,
         tiers |-> board.tiers] \in Plans
    BY <1>3, <1>0 DEF Propose, Plans, RunType, Boards
  <2> QED BY <1>3, <1>0, <2>1 DEF Propose, Decided
<1>4. CASE Publish
  <2>1. Message \in [offset : Offsets, plan : Nat]
    BY <1>4, <1>0 DEF Publish, Message, Plans, LoopType
  <2> QED BY <1>4, <2>1 DEF Publish
<1>d. pc # "idle" => dropped \cup {position} \in SUBSET Offsets
  BY DEF LoopType
<1>5. CASE Fail \/ Crash BY <1>5, <1>d DEF Fail, Crash, Raise, Awaits
<1>6. CASE Fetch \/ Ack \/ Vanished BY <1>6, <1>d DEF Fetch, Ack, Vanished
<1>7. CASE Refused \/ CallFails \/ Malformed
  BY <1>7, <1>d DEF Refused, CallFails, Malformed, Raise, Calls, Asking
<1>8. CASE Triage \/ Retrieve \/ Investigate \/ Recommend
  BY <1>8 DEF Triage, Retrieve, Investigate, Recommend
<1>9. CASE GateEscalates \/ GatePasses BY <1>9 DEF GateEscalates, GatePasses
<1>10. CASE \E d \in Dependencies : Cooldown(d) BY <1>10 DEF Cooldown
<1>11. CASE TimePasses BY <1>11 DEF TimePasses
<1>12. CASE UNCHANGED vars BY <1>12 DEF vars
<1> QED BY <1>1, <1>2, <1>3, <1>4, <1>5, <1>6, <1>7, <1>8, <1>9, <1>10, <1>11,
           <1>12 DEF Next, Handle

\* Type correctness of the workflow, with the iterations a run has charged at each
\* of its steps.
THEOREM TypeCorrect == Spec => []TypeOK
<1>1. TypeOK /\ BreakerInv /\ [Next]_vars => TypeOK'
  BY LoopStep, RunStep, BreakerStep, DatabaseStep DEF TypeOK, BreakerInv
<1>2. Init => BreakerInv
  BY WorkflowAssumption DEF Init, BreakerInv, BreakerType, BreakerLimits
<1> QED BY <1>1, <1>2, TypeInit, BreakerStep, PTL DEF Spec

-----------------------------------------------------------------------------
(* The budget *)

\* Only one answer comes between the gate's look at the budget and the plan.
BudgetInv ==
  /\ tokens \in Nat /\ spent \in Nat
  /\ tokens = spent
  /\ pc = "recommend" => spent < MaxTokens
  /\ pc \in {"persist", "publish"} => board.escalated \/ spent < MaxTokens + MaxAnswer

\* What the gate and the recommendation leave on the board.
LEMMA BoardFields ==
  ASSUME board \in Boards
  PROVE  /\ GateEscalates => board'.escalated
         /\ GatePasses => ~board'.escalated /\ board'.precedent = board.precedent
                          /\ board'.confidence = board.confidence
         /\ GatePasses => (board'.autonomy <=> board.precedent
                                              /\ board.confidence >= Autonomy)
         /\ Recommend => /\ board'.escalated = board.escalated
                         /\ board'.precedent = board.precedent
                         /\ board'.autonomy = board.autonomy
                         /\ board'.confidence = board.confidence
<1>1. GateEscalates => board'.escalated
  BY Zenon DEF GateEscalates, Boards
<1>2. ASSUME GatePasses
      PROVE  /\ ~board'.escalated /\ board'.precedent = board.precedent
             /\ board'.confidence = board.confidence
             /\ board'.autonomy <=> board.precedent /\ board.confidence >= Autonomy
  <2> DEFINE Y == board.precedent /\ board.confidence >= Autonomy
  <2>1. board' = [board EXCEPT !.escalated = FALSE, !.autonomy = Y]
    BY <1>2, Zenon DEF GatePasses
  <2>2. Y <=> board.precedent /\ board.confidence >= Autonomy
    OBVIOUS
  <2> HIDE DEF Y
  <2>3. /\ board'.escalated = FALSE /\ board'.precedent = board.precedent
        /\ board'.confidence = board.confidence /\ board'.autonomy = Y
    BY <2>1 DEF Boards
  <2> QED BY <2>2, <2>3, Zenon
<1>3. ASSUME Recommend
      PROVE  /\ board'.escalated = board.escalated
             /\ board'.precedent = board.precedent
             /\ board'.autonomy = board.autonomy
             /\ board'.confidence = board.confidence
  <2>1. PICK ts \in Proposals : board' = [board EXCEPT !.tiers = ts]
    BY <1>3, Zenon DEF Recommend
  <2> QED BY <2>1 DEF Boards
<1> QED BY <1>1, <1>2, <1>3

LEMMA BudgetStep == TypeOK /\ BudgetInv /\ [Next]_vars => BudgetInv'
<1> SUFFICES ASSUME TypeOK, BudgetInv, [Next]_vars PROVE BudgetInv'
  OBVIOUS
<1>0. board \in Boards BY DEF TypeOK, RunType
<1> USE WorkflowAssumption DEF BudgetInv, Run
<1>1. CASE Fetch BY <1>1 DEF Fetch
<1>2. CASE Ack BY <1>2, ResetTypes DEF Ack
<1>3. CASE Vanished BY <1>3 DEF Vanished
<1>4. CASE Load BY <1>4, ResetTypes DEF Load
<1>5. CASE Refused \/ CallFails \/ Malformed
  BY <1>5, ResetTypes DEF Refused, CallFails, Malformed, Raise
<1>6. CASE Triage BY <1>6 DEF Triage, Ask
<1>7. CASE Retrieve BY <1>7 DEF Retrieve
<1>8. CASE Investigate BY <1>8 DEF Investigate, Ask
<1>9. CASE GateEscalates BY <1>9, <1>0, BoardFields DEF GateEscalates
<1>10. CASE GatePasses BY <1>10 DEF GatePasses, Exhausted
<1>11. CASE Recommend BY <1>11, <1>0, BoardFields DEF Recommend, Ask
<1>12. CASE Abstain \/ Propose \/ Publish BY <1>12 DEF Abstain, Propose, Publish
<1>13. CASE \E d \in Dependencies : Cooldown(d) BY <1>13 DEF Cooldown
<1>14. CASE TimePasses BY <1>14 DEF TimePasses
<1>15. CASE Fail BY <1>15, ResetTypes DEF Fail, Raise
<1>16. CASE Crash BY <1>16, ResetTypes DEF Crash, Raise
<1>17. CASE UNCHANGED vars BY <1>17 DEF vars
<1> QED BY <1>1, <1>2, <1>3, <1>4, <1>5, <1>6, <1>7, <1>8, <1>9, <1>10, <1>11,
           <1>12, <1>13, <1>14, <1>15, <1>16, <1>17 DEF Next, Handle

\* A plan that is announced cost less than the budget and one answer, for every
\* budget and length of an answer.
THEOREM OverrunIsBounded == Spec => []OverrunBounded
<1>1. Init => BudgetInv BY WorkflowAssumption DEF Init, BudgetInv
<1>2. BudgetInv => OverrunBounded BY DEF BudgetInv, OverrunBounded, Message
<1> QED BY <1>1, <1>2, TypeCorrect, BudgetStep, PTL DEF Spec

-----------------------------------------------------------------------------
(* What a stored plan was made from *)

Vetted(b) ==
  /\ b.confidence >= Floor
  /\ b.autonomy => b.precedent /\ b.confidence = Autonomy

GateInv ==
  /\ pc \in {"recommend", "persist"} => board.escalated \/ Vetted(board)
  /\ \A i \in Incidents : plan[i] # NoPlan => Vetted(plan[i]) /\ plan[i].tiers # {}

LEMMA GateStep == TypeOK /\ GateInv /\ [Next]_vars => GateInv'
<1> SUFFICES ASSUME TypeOK, GateInv, [Next]_vars PROVE GateInv'
  OBVIOUS
<1>0. board \in Boards BY DEF TypeOK, RunType
<1> USE DEF GateInv, Run, db
<1>1. CASE Fetch \/ Ack \/ Vanished \/ Load
  BY <1>1 DEF Fetch, Ack, Vanished, Load
<1>2. CASE Refused \/ CallFails \/ Malformed
  BY <1>2 DEF Refused, CallFails, Malformed, Raise
<1>3. CASE Triage \/ Retrieve \/ Investigate
  BY <1>3 DEF Triage, Retrieve, Investigate
<1>4. CASE GateEscalates BY <1>4, <1>0, BoardFields DEF GateEscalates
<1>5. CASE GatePasses
  <2>1. board.confidence \in 0 .. 2 BY <1>0 DEF Boards, Levels, Autonomy
  <2>2. /\ board'.precedent = board.precedent /\ board'.confidence = board.confidence
        /\ board'.autonomy => board.precedent /\ board.confidence >= Autonomy
    BY <1>5, <1>0, BoardFields, Zenon
  <2>3. board.confidence >= Floor BY <1>5 DEF GatePasses
  <2>4. Vetted(board')
    BY <2>1, <2>2, <2>3 DEF Vetted, Autonomy
  <2> QED BY <2>4, <1>5 DEF GatePasses, Vetted
<1>6. CASE Recommend
  <2>1. Vetted(board) => Vetted(board') BY <1>6, <1>0, BoardFields, Zenon DEF Vetted
  <2>2. board'.escalated = board.escalated BY <1>6, <1>0, BoardFields
  <2> QED BY <1>6, <2>1, <2>2 DEF Recommend, Vetted
<1>7. CASE Abstain \/ Publish BY <1>7 DEF Abstain, Publish
<1>8. CASE Propose
  <2> DEFINE New == [id |-> plan[Incident].id + 1, confidence |-> board.confidence,
                     precedent |-> board.precedent, autonomy |-> board.autonomy,
                     tiers |-> board.tiers]
  <2>1. plan' = [plan EXCEPT ![Incident] = New] BY <1>8, Zenon DEF Propose
  <2>2. Vetted(board) /\ board.tiers # {} BY <1>8 DEF Propose
  <2>3. Vetted(New) /\ New.tiers # {} BY <2>2 DEF Vetted
  <2> HIDE DEF New
  <2>4. plan \in [Incidents -> Plans] BY DEF TypeOK, DatabaseType
  <2>5. ASSUME NEW i \in Incidents, plan'[i] # NoPlan
        PROVE  Vetted(plan'[i]) /\ plan'[i].tiers # {}
    <3>1. CASE i = Incident
      <4>1. plan'[i] = New BY <3>1, <2>1, <2>4
      <4> QED BY <4>1, <2>3
    <3>2. CASE i # Incident
      <4>1. plan'[i] = plan[i] BY <3>2, <2>1, <2>4
      <4> QED BY <4>1, <2>5
    <3> QED BY <3>1, <3>2
  <2> QED BY <1>8, <2>5 DEF Propose, Vetted
<1>9. CASE \E d \in Dependencies : Cooldown(d) BY <1>9 DEF Cooldown
<1>10. CASE TimePasses BY <1>10 DEF TimePasses
<1>11. CASE Fail \/ Crash BY <1>11 DEF Fail, Crash, Raise
<1>12. CASE UNCHANGED vars BY <1>12 DEF vars
<1> QED BY <1>1, <1>2, <1>3, <1>4, <1>5, <1>6, <1>7, <1>8, <1>9, <1>10, <1>11,
           <1>12 DEF Next, Handle

LEMMA GateInvVets == TypeOK /\ GateInv => VettedProposals
<1> SUFFICES ASSUME TypeOK, GateInv, NEW i \in Incidents, plan[i] # NoPlan
             PROVE  /\ plan[i].confidence >= Floor
                    /\ \A mode \in Modes :
                         \/ RequiresHuman(mode, plan[i])
                         \/ /\ mode = "auto_low" /\ plan[i].tiers = {"low"}
                            /\ plan[i].precedent /\ plan[i].confidence = Autonomy
  BY DEF VettedProposals
<1>1. Vetted(plan[i]) /\ plan[i].tiers # {} BY DEF GateInv
<1>2. plan[i].tiers \subseteq Tiers BY DEF TypeOK, DatabaseType, Plans
<1>3. ASSUME NEW mode \in Modes, ~RequiresHuman(mode, plan[i])
      PROVE  /\ mode = "auto_low" /\ plan[i].tiers = {"low"}
             /\ plan[i].precedent /\ plan[i].confidence = Autonomy
  <2>1. \A t \in plan[i].tiers : mode = "auto_low" /\ t = "low" /\ plan[i].autonomy
    BY <1>3 DEF RequiresHuman, StepOut, Disposition
  <2> QED BY <2>1, <1>1 DEF Vetted
<1> QED BY <1>1, <1>3 DEF Vetted

\* A plan that spares a human consists of low-risk steps, has a precedent and high
\* confidence, through the gate, the snapshot and the policy engine.
THEOREM ProposalsAreVetted == Spec => []VettedProposals
<1>1. Init => GateInv BY DEF Init, GateInv
<1> QED BY <1>1, TypeCorrect, GateStep, GateInvVets, PTL DEF Spec

-----------------------------------------------------------------------------
(* Plans next to an abstention *)

Touched(i) == plan[i] # NoPlan \/ decision[i] # "none"

\* A run counts itself; what it finds in the database is of an earlier one.
RunsInv ==
  /\ \A i \in Incidents : Touched(i) => runs[i] >= 1
  /\ pc \in {"persist"} \cup (Steps \ Awaits) =>
       runs[Incident] >= 1 /\ (Touched(Incident) => runs[Incident] >= 2)
  /\ StalePlanNeedsRerun

LEMMA RunsStep == TypeOK /\ RunsInv /\ [Next]_vars => RunsInv'
<1> SUFFICES ASSUME TypeOK, RunsInv, [Next]_vars PROVE RunsInv'
  OBVIOUS
<1>0. /\ runs \in [Incidents -> Nat] /\ plan \in [Incidents -> Plans]
      /\ decision \in [Incidents -> {"none", "escalate", "plan_ready"}]
      /\ pc # "idle" => Incident \in Incidents
  BY IncidentType DEF TypeOK, HistoryType, DatabaseType
<1> DEFINE InRun == {"persist"} \cup (Steps \ Awaits)
<1>i. InRun = {"triage", "retrieve", "investigate", "gate", "recommend", "persist"}
  BY DEF Steps, Awaits, Asking
<1> HIDE DEF InRun
<1> USE DEF history
<1>u. /\ \A i \in Incidents : Touched(i) => runs[i] >= 1
      /\ pc \in InRun => runs[Incident] >= 1 /\ (Touched(Incident) => runs[Incident] >= 2)
      /\ StalePlanNeedsRerun
  BY DEF RunsInv, InRun
<1>s. ASSUME UNCHANGED <<db, runs>>, pc' \notin InRun PROVE RunsInv'
  BY <1>u, <1>s DEF RunsInv, InRun, db, Touched, StalePlanNeedsRerun
<1>r. ASSUME UNCHANGED <<db, runs, position>>, pc \in InRun PROVE RunsInv'
  BY <1>u, <1>r DEF RunsInv, db, Touched, StalePlanNeedsRerun, Incident
<1>1. CASE Fetch \/ Ack \/ Vanished BY <1>1, <1>s, <1>i DEF Fetch, Ack, Vanished
<1>2. CASE Refused \/ CallFails \/ Malformed
  BY <1>2, <1>s, <1>i DEF Refused, CallFails, Malformed, Raise
<1>3. CASE Fail \/ Crash BY <1>3, <1>s, <1>i DEF Fail, Crash, Raise
<1>4. CASE Publish BY <1>4, <1>s, <1>i DEF Publish
<1>5. CASE Triage \/ Retrieve \/ Investigate \/ Recommend
  BY <1>5, <1>r, <1>i DEF Triage, Retrieve, Investigate, Recommend, loop
<1>6. CASE GateEscalates \/ GatePasses
  BY <1>6, <1>r, <1>i DEF GateEscalates, GatePasses, loop
<1>7. CASE Load
  BY <1>7, <1>0, <1>u DEF Load, loop, db, RunsInv, Touched, StalePlanNeedsRerun, Incident
<1>8. CASE Abstain
  BY <1>8, <1>0, <1>u, <1>i
  DEF Abstain, Decided, loop, RunsInv, Touched, StalePlanNeedsRerun, Incident, Steps,
      Awaits, Asking
<1>9. CASE Propose
  BY <1>9, <1>0, <1>u, <1>i
  DEF Propose, Decided, loop, RunsInv, Touched, StalePlanNeedsRerun, Incident, Steps,
      Awaits, Asking
<1>10. CASE (\E d \in Dependencies : Cooldown(d)) \/ UNCHANGED vars
  BY <1>10, <1>u DEF Cooldown, vars, loop, db, RunsInv, Touched, StalePlanNeedsRerun,
                     Incident, InRun
<1>11. CASE TimePasses
  BY <1>11, <1>u DEF TimePasses, loop, db, RunsInv, Touched, StalePlanNeedsRerun,
                     Incident, InRun
<1> QED BY <1>1, <1>2, <1>3, <1>4, <1>5, <1>6, <1>7, <1>8, <1>9, <1>10, <1>11
        DEF Next, Handle

\* A plan whose incident was given up later takes a second run of the workflow, for
\* every log of events.
THEOREM StalePlansNeedReruns == Spec => []StalePlanNeedsRerun
<1>1. Init => RunsInv
  BY DEF Init, RunsInv, Touched, StalePlanNeedsRerun, Steps, Awaits, Asking
<1>2. RunsInv => StalePlanNeedsRerun BY DEF RunsInv
<1> QED BY <1>1, <1>2, TypeCorrect, RunsStep, PTL DEF Spec

-----------------------------------------------------------------------------
(* What becomes of the records *)

Accounted(o) == o \in dropped \/ \E e \in events : e.offset = o

\* The record under way is accounted for before its handler is over.
LedgerInv ==
  /\ RecordsAccounted
  /\ \A o \in 1 .. position : o < position \/ pc \in {"ack", "idle"} => Accounted(o)

\* A step that stores no plan and commits nothing.
LEMMA LedgerKeeps ==
  ASSUME TypeOK, LedgerInv, UNCHANGED <<plan, position, committed, events>>,
         dropped \subseteq dropped',
         pc' \in {"ack", "idle"} => pc \in {"ack", "idle"} \/ position \in dropped'
  PROVE  LedgerInv'
<1>1. \A o \in Nat : Accounted(o) => Accounted(o)' BY DEF Accounted
<1>2. RecordsAccounted' BY DEF LedgerInv, RecordsAccounted
<1>3. position \in Nat BY WorkflowAssumption DEF TypeOK, LoopType
<1>4. ASSUME NEW o \in 1 .. position, o < position \/ pc' \in {"ack", "idle"}
      PROVE  Accounted(o)'
  <2>1. CASE o < position \/ pc \in {"ack", "idle"} BY <1>1, <1>3, <2>1 DEF LedgerInv
  <2>2. CASE o = position /\ pc \notin {"ack", "idle"}
    BY <1>4, <1>3, <2>2 DEF Accounted
  <2> QED BY <1>3, <2>1, <2>2
<1> QED BY <1>2, <1>4 DEF LedgerInv

LEMMA LedgerStep == TypeOK /\ LedgerInv /\ [Next]_vars => LedgerInv'
<1> SUFFICES ASSUME TypeOK, LedgerInv, [Next]_vars PROVE LedgerInv'
  OBVIOUS
<1>0. /\ position \in Nat /\ committed \in Nat
      /\ plan \in [Incidents -> Plans] /\ events \subseteq [offset : Offsets, plan : Nat]
      /\ \A o \in Offsets : Log[o] \in Incidents
      /\ pc # "idle" => position \in Offsets
  BY WorkflowAssumption DEF TypeOK, LoopType, DatabaseType, HistoryType, Offsets
<1> USE DEF loop, db, history
<1>1. CASE Fetch
  <2>1. /\ position' = position + 1 /\ pc' = "load" /\ pc = "idle"
        /\ UNCHANGED <<committed, plan, events, dropped>>
    BY <1>1 DEF Fetch
  <2>2. \A o \in 1 .. position' : o < position' => o \in 1 .. position /\ Accounted(o)
    BY <1>0, <2>1 DEF LedgerInv
  <2> QED BY <2>1, <2>2 DEF LedgerInv, RecordsAccounted, Accounted
<1>2. CASE Ack
  <2>1. /\ committed' = position /\ pc = "ack"
        /\ UNCHANGED <<position, plan, events, dropped>>
    BY <1>2 DEF Ack
  <2>2. \A o \in 1 .. position : Accounted(o) BY <2>1 DEF LedgerInv
  <2> QED BY <2>1, <2>2 DEF LedgerInv, RecordsAccounted, Accounted
<1>3. CASE Propose
  <2>1. plan'[Incident].id = plan[Incident].id + 1
        /\ \A i \in Incidents \ {Incident} : plan'[i] = plan[i]
    <3>1. Incident \in Incidents BY <1>3, IncidentType DEF Propose, TypeOK
    <3> QED BY <1>0, <1>3, <3>1 DEF Propose
  <2>2. \A i \in Incidents : plan[i].id \in Nat BY <1>0 DEF Plans
  <2>3. ASSUME NEW e \in events PROVE e.plan <= plan'[Log[e.offset]].id
    <3>1. e.plan \in Nat /\ Log[e.offset] \in Incidents BY <1>0
    <3>2. e.plan <= plan[Log[e.offset]].id BY DEF LedgerInv, RecordsAccounted
    <3> QED BY <2>1, <2>2, <3>1, <3>2
  <2>4. UNCHANGED <<position, committed, events, dropped>> /\ pc' = "publish"
    BY <1>3 DEF Propose
  <2> QED BY <2>3, <2>4 DEF LedgerInv, RecordsAccounted, Accounted
<1>4. CASE Publish
  <2>1. /\ events' = events \cup {Message} /\ pc = "publish"
        /\ UNCHANGED <<plan, position, committed, dropped>>
    BY <1>4 DEF Publish
  <2>2. Message.offset = position /\ Message.plan \in {0, plan[Incident].id}
    BY DEF Message
  <2>3. plan[Incident].id \in Nat /\ Incident = Log[position]
    BY <1>0, <2>1, IncidentType DEF Incident, TypeOK, Plans
  <2>4. Message.plan <= plan[Log[Message.offset]].id BY <2>2, <2>3
  <2>5. \A e \in events' : e.plan <= plan[Log[e.offset]].id
    BY <2>1, <2>4 DEF LedgerInv, RecordsAccounted
  <2>6. \A o \in 1 .. position : o < position => Accounted(o)'
    BY <2>1 DEF LedgerInv, Accounted
  <2>7. ASSUME NEW o \in 1 .. position PROVE Accounted(o)'
    <3>1. CASE o = position BY <2>1, <2>2, <3>1 DEF Accounted
    <3>2. CASE o # position
      <4>1. o < position BY <1>0, <3>2
      <4> QED BY <2>6, <4>1
    <3> QED BY <3>1, <3>2
  <2>8. \A o \in 1 .. committed : Accounted(o)'
    BY <2>1 DEF LedgerInv, RecordsAccounted, Accounted
  <2> QED BY <2>1, <2>5, <2>7, <2>8 DEF LedgerInv, RecordsAccounted, Accounted
<1>5. CASE Crash
  <2>1. position' = committed /\ UNCHANGED <<committed, plan, events, dropped>>
    BY <1>5 DEF Crash
  <2> QED BY <2>1 DEF LedgerInv, RecordsAccounted, Accounted
<1>6. CASE Vanished \/ Load BY <1>6, LedgerKeeps DEF Vanished, Load
<1>7. CASE Refused \/ CallFails \/ Malformed
  BY <1>7, LedgerKeeps DEF Refused, CallFails, Malformed, Raise
<1>8. CASE Triage \/ Retrieve \/ Investigate \/ Recommend
  BY <1>8, LedgerKeeps DEF Triage, Retrieve, Investigate, Recommend
<1>9. CASE GateEscalates \/ GatePasses \/ Abstain
  BY <1>9, LedgerKeeps DEF GateEscalates, GatePasses, Abstain
<1>10. CASE Fail BY <1>10, LedgerKeeps DEF Fail, Raise
<1>11. CASE (\E d \in Dependencies : Cooldown(d)) \/ TimePasses
  BY <1>11, LedgerKeeps DEF Cooldown, TimePasses
<1>12. CASE UNCHANGED vars BY <1>12, LedgerKeeps DEF vars
<1> QED BY <1>1, <1>2, <1>3, <1>4, <1>5, <1>6, <1>7, <1>8, <1>9, <1>10, <1>11, <1>12
        DEF Next, Handle

\* Every record the group committed past has an event of its own or a handler that
\* raised or found no incident, and no event is ahead of its plan, for every log and
\* any number of crashes and failing calls.
THEOREM RecordsAreAccounted == Spec => []RecordsAccounted
<1>1. Init => LedgerInv
  BY WorkflowAssumption DEF Init, LedgerInv, RecordsAccounted
<1>2. LedgerInv => RecordsAccounted BY DEF LedgerInv
<1> QED BY <1>1, <1>2, TypeCorrect, LedgerStep, PTL DEF Spec

=============================================================================
