--------------------------- MODULE ApprovalProofs ---------------------------
(* Theorems about Approval, for every set of requests and of runs, and every *)
(* number of plans.                                                          *)
EXTENDS Approval, FiniteSetTheorems, TLAPS

-----------------------------------------------------------------------------
(* Type correctness *)

TableType ==
  /\ status \in [Plans -> Decisions \cup {"none", "proposed", "executing", "deleted"}]
  /\ approvals \subseteq [by : Requests, plan : Plans, decision : Decisions]
  /\ snapshot \in Outcomes \cup {"none"}

RequestType ==
  /\ request \in [Requests -> {"new", "read", "held", "publish"} \cup Ended]
  /\ decision \in [Requests -> Decisions]
  /\ target \in [Requests -> Plans \cup {0}]
  /\ \A r \in Requests : request[r] \in {"read", "held", "publish"} => target[r] # 0

RunType ==
  /\ run \in [Runs -> {"idle", "begun", "staged", "replaced"}]
  /\ outcome \in [Runs -> Outcomes]
  /\ seen \in [Runs -> Outcomes \cup {"none"}]
  /\ old \in [Runs -> SUBSET Plans]

LockType ==
  /\ locks \in [Runs -> BOOLEAN]
  /\ \A o \in Runs : locks[o] => run[o] \in {"staged", "replaced"}

CountType == published \subseteq Requests /\ faults \in 0 .. MaxFaults

LEMMA Parts ==
  TypeOK <=> TableType /\ RequestType /\ RunType /\ LockType /\ CountType
BY DEF TypeOK, TableType, RequestType, RunType, LockType, CountType

\* The plan of a request that is under way is a plan.
LEMMA TargetIsPlan ==
  ASSUME RequestType, NEW r \in Requests, request[r] \in {"read", "held", "publish"}
  PROVE  target[r] \in Plans
BY DEF RequestType

LEMMA TableStep == TypeOK /\ [Next]_vars => TableType'
<1> SUFFICES ASSUME TypeOK, [Next]_vars PROVE TableType'
  OBVIOUS
<1> USE DEF TableType, tables
<1>0. TableType /\ RequestType /\ RunType /\ CountType BY Parts
<1>1. ASSUME UNCHANGED tables PROVE TableType' BY <1>0, <1>1
<1>2. ASSUME NEW r \in Requests, Decide(r) PROVE TableType'
  <2>1. target[r] \in Plans /\ decision[r] \in Decisions
    BY <1>0, <1>2, TargetIsPlan DEF Decide, RequestType
  <2>2. [by |-> r, plan |-> target[r], decision |-> decision[r]]
          \in [by : Requests, plan : Plans, decision : Decisions]
    BY <2>1
  <2> QED BY <1>0, <1>2, <2>1, <2>2 DEF Decide
<1>3. ASSUME NEW r \in Requests, Start(r) PROVE TableType'
  BY <1>0, <1>3 DEF Start
<1>4. ASSUME NEW o \in Runs, Escalate(o) PROVE TableType'
  BY <1>0, <1>4 DEF Escalate, Outcomes
<1>5. ASSUME NEW o \in Runs, Propose(o) PROVE TableType'
  <2>1. \A p \in Plans : status'[p] \in {"proposed", "deleted", status[p]}
    BY <1>5 DEF Propose
  <2>2. status' = [p \in Plans |-> status'[p]] BY <1>5, Zenon DEF Propose
  <2>3. status' \in [Plans -> Decisions \cup {"none", "proposed", "executing", "deleted"}]
    BY <1>0, <2>1, <2>2
  <2> QED BY <1>0, <1>5, <2>3 DEF Propose, Outcomes
<1>6. ASSUME NEW r \in Requests,
             \/ \E p \in Plans : Refuse(r, p) \/ Read(r, p)
             \/ Hold(r) \/ HoldStale(r) \/ RequestExecution(r) \/ FailRequest(r)
      PROVE  TableType'
  BY <1>1, <1>6 DEF Refuse, Read, Hold, HoldStale, RequestExecution, FailRequest
<1>7. ASSUME NEW o \in Runs,
             \/ Begin(o) \/ Stage(o) \/ StageConflict(o) \/ Replace(o)
             \/ ReplaceConflict(o) \/ FailRun(o)
      PROVE  TableType'
  BY <1>1, <1>7 DEF Begin, Stage, StageConflict, Replace, ReplaceConflict, FailRun
<1>8. CASE UNCHANGED vars BY <1>1, <1>8 DEF vars
<1> QED BY <1>2, <1>3, <1>4, <1>5, <1>6, <1>7, <1>8 DEF Next, Serve, Persist

LEMMA RequestStep == TypeOK /\ [Next]_vars => RequestType'
<1> SUFFICES ASSUME TypeOK, [Next]_vars PROVE RequestType'
  OBVIOUS
<1> USE DEF RequestType, pdp, Answer, Drop, Ended, Decisions
<1>0. RequestType BY Parts
<1>1. ASSUME UNCHANGED pdp PROVE RequestType' BY <1>0, <1>1
<1>2. ASSUME NEW r \in Requests, NEW p \in Plans, Refuse(r, p) \/ Read(r, p)
      PROVE  RequestType'
  BY <1>0, <1>2 DEF Refuse, Read, Plans
<1>3. ASSUME NEW r \in Requests, Hold(r) \/ HoldStale(r) PROVE RequestType'
  BY <1>0, <1>3 DEF Hold, HoldStale
<1>4. ASSUME NEW r \in Requests, Decide(r) \/ RequestExecution(r) PROVE RequestType'
  BY <1>0, <1>4 DEF Decide, RequestExecution
<1>5. ASSUME NEW r \in Requests, FailRequest(r) PROVE RequestType'
  BY <1>0, <1>5 DEF FailRequest
<1>6. ASSUME NEW r \in Requests, Start(r) PROVE RequestType'
  BY <1>1, <1>6 DEF Start
<1>7. ASSUME NEW o \in Runs, Begin(o) \/ Persist(o) \/ FailRun(o) PROVE RequestType'
  BY <1>1, <1>7 DEF Begin, Persist, Stage, StageConflict, Escalate, Replace,
                    ReplaceConflict, Propose, FailRun
<1>8. CASE UNCHANGED vars BY <1>1, <1>8 DEF vars
<1> QED BY <1>2, <1>3, <1>4, <1>5, <1>6, <1>7, <1>8 DEF Next, Serve

LEMMA RunStep == TypeOK /\ [Next]_vars => RunType'
<1> SUFFICES ASSUME TypeOK, [Next]_vars PROVE RunType'
  OBVIOUS
<1> USE DEF RunType, orch, End, Outcomes
<1>0. RunType /\ TableType BY Parts
<1>1. ASSUME UNCHANGED orch PROVE RunType' BY <1>0, <1>1
<1>2. ASSUME NEW o \in Runs, Begin(o) PROVE RunType'
  BY <1>0, <1>2 DEF Begin, TableType
<1>3. ASSUME NEW o \in Runs, Stage(o) PROVE RunType'
  BY <1>0, <1>3 DEF Stage, Live
<1>4. ASSUME NEW o \in Runs, End(o) PROVE RunType' BY <1>0, <1>4
<1>5. ASSUME NEW o \in Runs, Replace(o) PROVE RunType' BY <1>0, <1>5 DEF Replace
<1>6. ASSUME NEW o \in Runs, StageConflict(o) \/ Escalate(o) \/ ReplaceConflict(o)
                             \/ Propose(o) \/ FailRun(o)
      PROVE  RunType'
  <2>1. End(o) BY <1>6 DEF StageConflict, Escalate, ReplaceConflict, Propose, FailRun
  <2> QED BY <2>1, <1>4
<1>7. ASSUME NEW r \in Requests, Serve(r) \/ Start(r) \/ FailRequest(r) PROVE RunType'
  BY <1>1, <1>7 DEF Serve, Refuse, Read, Hold, HoldStale, Decide, RequestExecution,
                    Start, FailRequest
<1>8. CASE UNCHANGED vars BY <1>1, <1>8 DEF vars
<1> QED BY <1>2, <1>3, <1>5, <1>6, <1>7, <1>8 DEF Next, Persist

LEMMA LockStep == TypeOK /\ [Next]_vars => LockType'
<1> SUFFICES ASSUME TypeOK, [Next]_vars PROVE LockType'
  OBVIOUS
<1> USE DEF LockType, orch, End
<1>0. RunType /\ LockType BY Parts
<1>1. ASSUME UNCHANGED orch PROVE LockType' BY <1>0, <1>1
<1>2. ASSUME NEW o \in Runs, Begin(o) PROVE LockType'
  BY <1>0, <1>2 DEF Begin, RunType
<1>3. ASSUME NEW o \in Runs, Stage(o) PROVE LockType'
  BY <1>0, <1>3 DEF Stage, RunType
<1>4. ASSUME NEW o \in Runs, End(o) PROVE LockType'
  BY <1>0, <1>4 DEF RunType
<1>5. ASSUME NEW o \in Runs, Replace(o) PROVE LockType'
  BY <1>0, <1>5 DEF Replace, RunType
<1>6. ASSUME NEW o \in Runs, StageConflict(o) \/ Escalate(o) \/ ReplaceConflict(o)
                             \/ Propose(o) \/ FailRun(o)
      PROVE  LockType'
  <2>1. End(o) BY <1>6 DEF StageConflict, Escalate, ReplaceConflict, Propose, FailRun
  <2> QED BY <2>1, <1>4
<1>7. ASSUME NEW r \in Requests, Serve(r) \/ Start(r) \/ FailRequest(r) PROVE LockType'
  BY <1>1, <1>7 DEF Serve, Refuse, Read, Hold, HoldStale, Decide, RequestExecution,
                    Start, FailRequest
<1>8. CASE UNCHANGED vars BY <1>1, <1>8 DEF vars
<1> QED BY <1>2, <1>3, <1>5, <1>6, <1>7, <1>8 DEF Next, Persist

LEMMA CountStep == TypeOK /\ [Next]_vars => CountType'
<1> SUFFICES ASSUME TypeOK, [Next]_vars PROVE CountType'
  OBVIOUS
<1> USE ApprovalAssumption DEF CountType
<1>0. CountType BY Parts
<1>1. ASSUME NEW r \in Requests, Serve(r) \/ Start(r) \/ FailRequest(r) PROVE CountType'
  BY <1>0, <1>1 DEF Serve, Refuse, Read, Hold, HoldStale, Decide, RequestExecution,
                    Start, FailRequest, Spend
<1>2. ASSUME NEW o \in Runs, Begin(o) \/ Persist(o) \/ FailRun(o) PROVE CountType'
  BY <1>0, <1>2 DEF Begin, Persist, Stage, StageConflict, Escalate, Replace,
                    ReplaceConflict, Propose, FailRun, Spend
<1>3. CASE UNCHANGED vars BY <1>0, <1>3 DEF vars
<1> QED BY <1>1, <1>2, <1>3 DEF Next

LEMMA TypeInit == Init => TypeOK
<1> SUFFICES ASSUME Init PROVE TypeOK
  OBVIOUS
<1> USE ApprovalAssumption DEF Init
<1>1. TableType BY DEF TableType, Outcomes
<1>2. RequestType BY DEF RequestType, Decisions
<1>3. RunType BY DEF RunType, Outcomes
<1>4. LockType BY DEF LockType
<1>5. CountType BY DEF CountType
<1> QED BY <1>1, <1>2, <1>3, <1>4, <1>5, Parts

LEMMA TypeStep == TypeOK /\ [Next]_vars => TypeOK'
<1> SUFFICES ASSUME TypeOK, [Next]_vars PROVE TypeOK'
  OBVIOUS
<1>1. TableType' /\ RequestType' /\ RunType' /\ LockType' /\ CountType'
  BY TableStep, RequestStep, RunStep, LockStep, CountStep
<1> QED BY <1>1 DEF TypeOK, TableType, RequestType, RunType, LockType, CountType

\* Plans, requests, runs and the locks between them keep their types.
THEOREM TypeCorrect == Spec => []TypeOK
BY TypeInit, TypeStep, PTL DEF Spec

-----------------------------------------------------------------------------
(* One plan *)

Replacing(o) == run[o] = "replaced"

\* One run at a time has the snapshot row, and one is replacing the plan.
RunInv ==
  /\ \A o \in Runs : Replacing(o) => outcome[o] = "proposed"
  /\ \A o, m \in Runs : locks[o] /\ locks[m] => o = m
  /\ \A o, m \in Runs : Replacing(o) /\ Replacing(m) => o = m

\* Once there is a plan there always is one, and a snapshot that says so, or a run
\* that read a plan, shows that there is.
PlanStays ==
  /\ snapshot = "proposed" => Live # {}
  /\ \A o \in Runs : seen[o] = "proposed" \/ old[o] # {} => Live # {}

\* What a run is about to replace is all there is: a run that read plans has their
\* rows, and one that read none has the snapshot row, without which nobody else
\* proposes the first plan.
ReplaceInv ==
  /\ \A o \in Runs : Replacing(o) /\ old[o] # {} => Live \subseteq old[o]
  /\ \A o \in Runs : /\ run[o] \in {"staged", "replaced"}
                     /\ outcome[o] = "proposed" /\ old[o] = {}
                     => locks[o] /\ Live = {}

\* A plan on which a decision is written is not being replaced.
HeldInv ==
  \A r \in Requests : request[r] = "held" =>
    /\ target[r] \in Live
    /\ \A o \in Runs : Replacing(o) => target[r] \notin old[o]

\* A run read no plan that is still to come.
OldInv == \A o \in Runs : old[o] \cap Fresh = {}

OnePlan == \A p, q \in Live : p = q

PlanInv == RunInv /\ PlanStays /\ ReplaceInv /\ HeldInv /\ OldInv /\ OnePlan

\* The steps that touch no plan's presence and no run.
LEMMA QuietKeeps ==
  ASSUME PlanInv, UNCHANGED <<orch, snapshot>>, Live' = Live, Fresh' = Fresh,
         \A r \in Requests : request'[r] = "held" =>
           request[r] = "held" /\ target'[r] = target[r]
  PROVE  PlanInv'
<1> USE DEF PlanInv, orch, Replacing
<1>1. RunInv' BY DEF RunInv
<1>2. PlanStays' BY DEF PlanStays
<1>3. ReplaceInv' BY DEF ReplaceInv
<1>4. HeldInv'
  <2> SUFFICES ASSUME NEW r \in Requests, request'[r] = "held"
               PROVE  /\ target'[r] \in Live'
                      /\ \A o \in Runs : Replacing(o)' => target'[r] \notin old'[o]
    BY DEF HeldInv
  <2>1. target[r] \in Live /\ \A o \in Runs : Replacing(o) => target[r] \notin old[o]
    BY DEF HeldInv
  <2> QED BY <2>1
<1>5. OldInv' BY DEF OldInv
<1>6. OnePlan' BY DEF OnePlan
<1> QED BY <1>1, <1>2, <1>3, <1>4, <1>5, <1>6

LEMMA RunsKeep ==
  ASSUME TypeOK, PlanInv, NEW o \in Runs, Begin(o) \/ Stage(o)
  PROVE  PlanInv'
<1> USE DEF PlanInv, Replacing
<1>0. RunType /\ LockType BY Parts
<1>1. UNCHANGED <<tables, pdp>> BY DEF Begin, Stage
<1>2. Live' = Live /\ Fresh' = Fresh BY <1>1 DEF tables, Live, Present, Fresh
<1>3. \A m \in Runs : /\ Replacing(m)' <=> Replacing(m)
                      /\ Replacing(m) => m # o
                      /\ m # o => /\ old'[m] = old[m] /\ run'[m] = run[m]
                                  /\ outcome'[m] = outcome[m] /\ seen'[m] = seen[m]
                                  /\ locks'[m] = locks[m]
  BY <1>0 DEF RunType, LockType, Begin, Stage
<1>4. RunInv'
  <2>1. \A m, n \in Runs : locks'[m] /\ locks'[n] => m = n
    BY <1>0 DEF RunInv, Begin, Stage, SnapshotFree, LockType
  <2> QED BY <1>3, <2>1 DEF RunInv
<1>5. PlanStays'
  BY <1>0, <1>1, <1>2, <1>3 DEF PlanStays, Begin, Stage, tables, RunType
<1>6. ReplaceInv'
  <2>1. ASSUME Begin(o) PROVE run'[o] = "begun"
    BY <1>0, <2>1 DEF Begin, RunType
  <2>2. ASSUME Stage(o), outcome'[o] = "proposed", old'[o] = {}
        PROVE  locks'[o] /\ Live = {}
    <3>1. Live = {} BY <1>0, <2>2 DEF Stage, RunType
    <3>2. seen[o] # "proposed" BY <3>1 DEF PlanStays
    <3>3. outcome[o] = "proposed" BY <2>2 DEF Stage
    <3>4. locks' = [locks EXCEPT ![o] = TRUE] BY <2>2, <3>2, <3>3 DEF Stage
    <3> QED BY <1>0, <3>1, <3>4 DEF LockType
  <2>3. \A m \in Runs : /\ run'[m] \in {"staged", "replaced"}
                        /\ outcome'[m] = "proposed" /\ old'[m] = {}
                        => locks'[m] /\ Live = {}
    BY <1>3, <2>1, <2>2 DEF ReplaceInv
  <2> QED BY <1>2, <1>3, <2>3 DEF ReplaceInv
<1>7. HeldInv' BY <1>1, <1>2, <1>3 DEF HeldInv, pdp
<1>8. OldInv'
  <2>1. Live \cap Fresh = {} BY DEF Live, Present, Fresh
  <2> QED BY <1>0, <1>2, <1>3, <2>1 DEF OldInv, Begin, Stage, RunType
<1>9. OnePlan' BY <1>2 DEF OnePlan
<1> QED BY <1>4, <1>5, <1>6, <1>7, <1>8, <1>9

LEMMA EndsKeep ==
  ASSUME TypeOK, PlanInv, NEW o \in Runs, End(o), UNCHANGED <<status, pdp>>,
         snapshot' = "proposed" => snapshot = "proposed"
  PROVE  PlanInv'
<1> USE DEF PlanInv, Replacing, End
<1>0. RunType /\ LockType BY Parts
<1>1. Live' = Live /\ Fresh' = Fresh BY DEF Live, Present, Fresh
<1>2. RunInv' BY <1>0 DEF RunInv, RunType, LockType
<1>3. PlanStays' BY <1>0, <1>1 DEF PlanStays, RunType
<1>4. ReplaceInv' BY <1>0, <1>1 DEF ReplaceInv, RunType, LockType
<1>5. HeldInv' BY <1>0, <1>1 DEF HeldInv, RunType, pdp
<1>6. OldInv' BY <1>0, <1>1 DEF OldInv, RunType
<1>7. OnePlan' BY <1>1 DEF OnePlan
<1> QED BY <1>2, <1>3, <1>4, <1>5, <1>6, <1>7

LEMMA ReplaceKeeps ==
  ASSUME TypeOK, PlanInv, NEW o \in Runs, Replace(o)
  PROVE  PlanInv'
<1> USE DEF PlanInv, Replacing, Replace
<1>0. RunType /\ LockType BY Parts
<1>1. /\ Live' = Live /\ Fresh' = Fresh
      /\ UNCHANGED <<tables, pdp, outcome, seen, locks, old>>
  BY DEF tables, Live, Present, Fresh
<1>2. \A m \in Runs : Replacing(m)' => m = o \/ Replacing(m)
  BY <1>0 DEF RunType
<1>3. ASSUME NEW m \in Runs, Replacing(m) PROVE FALSE
  <2>1. CASE Live = {}
    <3>1. old[o] = {} /\ old[m] = {} BY <2>1 DEF PlanStays
    <3>2. locks[o] /\ locks[m] BY <1>3, <3>1 DEF ReplaceInv, RunInv
    <3> QED BY <1>3, <3>2 DEF RunInv
  <2>2. CASE Live # {}
    <3>1. PICK p \in Live : TRUE BY <2>2
    <3>2. old[o] # {} BY <2>2 DEF ReplaceInv
    <3>3. p \in old[m] BY <1>3, <2>2, <3>1 DEF ReplaceInv, RunInv
    <3> QED BY <1>3, <3>1, <3>2, <3>3 DEF PlanFree
  <2> QED BY <2>1, <2>2
<1>4. RunInv' BY <1>0, <1>1, <1>2, <1>3 DEF RunInv, RunType
<1>5. PlanStays' BY <1>1 DEF PlanStays, tables
<1>6. ReplaceInv'
  <2>1. \A m \in Runs : run'[m] \in {"staged", "replaced"} => run[m] \in {"staged", "replaced"}
    BY <1>0 DEF RunType
  <2> QED BY <1>1, <1>2, <1>3, <2>1 DEF ReplaceInv
<1>7. HeldInv'
  <2>1. ASSUME NEW r \in Requests, request[r] = "held" PROVE target[r] \notin old[o]
    BY <2>1 DEF HeldInv, PlanFree
  <2> QED BY <1>1, <1>2, <2>1 DEF HeldInv, pdp
<1>8. OldInv' BY <1>1 DEF OldInv
<1>9. OnePlan' BY <1>1 DEF OnePlan
<1> QED BY <1>4, <1>5, <1>6, <1>7, <1>8, <1>9

LEMMA ProposeKeeps ==
  ASSUME TypeOK, PlanInv, NEW o \in Runs, Propose(o)
  PROVE  PlanInv'
<1> USE DEF PlanInv, Replacing
<1>0. RunType /\ LockType /\ TableType BY Parts
<1>1. Replacing(o) /\ End(o) /\ UNCHANGED pdp BY DEF Propose
<1>2. PICK new \in Fresh :
        status' = [p \in Plans |-> CASE p = new -> "proposed"
                                     [] p \in old[o] -> "deleted"
                                     [] OTHER -> status[p]]
  BY DEF Propose
<1>3. Live \subseteq old[o] BY <1>1 DEF ReplaceInv, RunInv
<1>4. Live' = {new}
  <2>1. new \in Plans /\ status'[new] = "proposed"
    <3>1. new \in Plans /\ new \notin old[o] BY DEF Fresh, OldInv
    <3> QED BY <1>2, <3>1
  <2>2. ASSUME NEW p \in Plans, p # new PROVE status'[p] \in {"deleted", "none"}
    <3>1. CASE p \in old[o] BY <1>2, <2>2, <3>1
    <3>2. CASE p \notin old[o]
      <4>1. status'[p] = status[p] BY <1>2, <2>2, <3>2
      <4> QED BY <1>3, <3>2, <4>1 DEF Live, Present
    <3> QED BY <3>1, <3>2
  <2> QED BY <2>1, <2>2 DEF Live, Present
<1>5. \A m \in Runs : ~Replacing(m)' BY <1>0, <1>1 DEF RunInv, End, RunType
<1>6. RunInv' BY <1>0, <1>1, <1>5 DEF RunInv, End, LockType
<1>7. PlanStays' BY <1>4 DEF PlanStays
<1>8. ASSUME NEW m \in Runs, run'[m] \in {"staged", "replaced"},
             outcome'[m] = "proposed", old'[m] = {}
      PROVE  FALSE
  <2>1. m # o BY <1>0, <1>1, <1>8 DEF End, RunType
  <2>2. locks[m] /\ Live = {} BY <1>0, <1>1, <1>8, <2>1 DEF ReplaceInv, End, RunType
  <2>3. old[o] = {} BY <2>2 DEF PlanStays
  <2>4. locks[o] BY <1>1, <2>3 DEF ReplaceInv, RunInv
  <2> QED BY <2>1, <2>2, <2>4 DEF RunInv
<1>9. ReplaceInv' BY <1>5, <1>8 DEF ReplaceInv
<1>10. HeldInv'
  <2>1. \A r \in Requests : request[r] = "held" => target[r] \notin Live
    BY <1>1, <1>3 DEF HeldInv
  <2> QED BY <1>1, <2>1 DEF HeldInv, pdp
<1>11. OldInv'
  <2>1. Fresh' \subseteq Fresh
    <3> SUFFICES ASSUME NEW p \in Plans, status'[p] = "none" PROVE status[p] = "none"
      BY DEF Fresh
    <3>1. p \notin old[o] \/ p = new BY <1>2
    <3> QED BY <1>2, <3>1 DEF Fresh
  <2> QED BY <1>0, <1>1, <2>1 DEF OldInv, End, RunType
<1>12. OnePlan' BY <1>4 DEF OnePlan
<1> QED BY <1>6, <1>7, <1>9, <1>10, <1>11, <1>12

-----------------------------------------------------------------------------
(* What a decision leaves behind *)

Row(r) == [by |-> r, plan |-> target[r], decision |-> decision[r]]

Backed(p) == \E a \in approvals : a.plan = p

\* The rows and the records of a request say what the request decided.
AnswerInv ==
  \A r \in Requests :
    /\ r \in published => request[r] = "done" /\ decision[r] = "approved"
    /\ request[r] = "publish" => decision[r] = "approved"
    /\ request[r] \in {"publish", "done"} => Row(r) \in approvals
    /\ request[r] = "done" /\ decision[r] = "approved" => r \in published

\* A plan's decision and its execution have an approval row, of a request that
\* committed.
BackedInv ==
  /\ \A a \in approvals : request[a.by] \in {"publish", "done", "failed"}
  /\ \A p \in Plans : status[p] \in {"approved", "rejected", "executing"} => Backed(p)

\* The plan of a refused request is gone or decided.
RefusedInv ==
  \A r \in Requests : request[r] = "refused" =>
    /\ target[r] \in Plans
    /\ status[target[r]] = "deleted" \/ Backed(target[r])

DecisionInv == AnswerInv /\ BackedInv /\ RefusedInv

-----------------------------------------------------------------------------
(* The steps *)

\* What the executor takes up is a plan.
LEMMA PublishedHasPlan ==
  ASSUME TypeOK, DecisionInv, NEW r \in published
  PROVE  r \in Requests /\ target[r] \in Plans
<1>1. r \in Requests BY Parts DEF CountType
<1>2. Row(r) \in approvals BY <1>1 DEF DecisionInv, AnswerInv
<1>3. Row(r) \in [by : Requests, plan : Plans, decision : Decisions]
  BY <1>2, Parts DEF TableType
<1> QED BY <1>1, <1>3 DEF Row

\* A plan that is there stays there when its status is overwritten.
LEMMA OverwriteKeeps ==
  ASSUME TableType, NEW p \in Live, NEW x, x \notin {"none", "deleted"},
         status' = [status EXCEPT ![p] = x]
  PROVE  Live' = Live /\ Fresh' = Fresh
<1>1. p \in Plans /\ status[p] \notin {"none", "deleted"} BY DEF Live, Present
<1>2. \A q \in Plans : /\ (status'[q] = "none") <=> (status[q] = "none")
                       /\ (status'[q] = "deleted") <=> (status[q] = "deleted")
  BY <1>1 DEF TableType
<1>3. Live' = Live BY <1>2 DEF Live, Present
<1>4. Fresh' = Fresh BY <1>2 DEF Fresh
<1> QED BY <1>3, <1>4

LEMMA PlanStep == TypeOK /\ DecisionInv /\ PlanInv /\ [Next]_vars => PlanInv'
<1> SUFFICES ASSUME TypeOK, DecisionInv, PlanInv, [Next]_vars PROVE PlanInv'
  OBVIOUS
<1>0. TableType /\ RequestType /\ RunType BY Parts
<1>1. ASSUME UNCHANGED status PROVE Live' = Live /\ Fresh' = Fresh
  BY <1>1 DEF Live, Present, Fresh
<1>2. ASSUME NEW r \in Requests,
             \/ \E p \in Plans : Refuse(r, p) \/ Read(r, p)
             \/ HoldStale(r) \/ RequestExecution(r) \/ FailRequest(r)
      PROVE  PlanInv'
  <2>1. \A q \in Requests : request'[q] = "held" =>
          request[q] = "held" /\ target'[q] = target[q]
    BY <1>0, <1>2 DEF Refuse, Read, HoldStale, RequestExecution, FailRequest, Drop,
                      Answer, RequestType
  <2>2. UNCHANGED <<orch, tables>>
    BY <1>2 DEF Refuse, Read, HoldStale, RequestExecution, FailRequest
  <2> QED BY <1>1, <2>1, <2>2, QuietKeeps DEF tables
<1>3. ASSUME NEW r \in Requests, Hold(r) PROVE PlanInv'
  <2>1. UNCHANGED <<orch, tables, target>> /\ Live' = Live /\ Fresh' = Fresh
    BY <1>1, <1>3 DEF Hold, tables
  <2>2. target[r] \in Live /\ PlanFree(target[r])
    BY <1>0, <1>3, TargetIsPlan DEF Hold, Live
  <2>3. \A q \in Requests : request'[q] = "held" => q = r \/ request[q] = "held"
    BY <1>0, <1>3 DEF Hold, Answer, RequestType
  <2>4. HeldInv' BY <2>1, <2>2, <2>3 DEF PlanInv, HeldInv, PlanFree, orch, Replacing
  <2> QED BY <2>1, <2>4 DEF PlanInv, RunInv, PlanStays, ReplaceInv, OldInv, OnePlan,
                            Replacing, orch, tables
<1>4. ASSUME NEW r \in Requests, Decide(r) PROVE PlanInv'
  <2>1. target[r] \in Live BY <1>4 DEF PlanInv, HeldInv, Decide
  <2>2. decision[r] \notin {"none", "deleted"}
    BY <1>0 DEF RequestType, Decisions
  <2>3. Live' = Live /\ Fresh' = Fresh
    BY <1>0, <1>4, <2>1, <2>2, OverwriteKeeps DEF Decide
  <2>4. \A q \in Requests : request'[q] = "held" =>
          request[q] = "held" /\ target'[q] = target[q]
    BY <1>0, <1>4 DEF Decide, Answer, RequestType
  <2> QED BY <1>4, <2>3, <2>4, QuietKeeps DEF Decide
<1>5. ASSUME NEW r \in Requests, Start(r) PROVE PlanInv'
  <2>1. target[r] \in Live
    BY <1>5, PublishedHasPlan DEF Start, Live
  <2>2. Live' = Live /\ Fresh' = Fresh
    BY <1>0, <1>5, <2>1, OverwriteKeeps DEF Start
  <2> QED BY <1>5, <2>2, QuietKeeps DEF Start, pdp
<1>6. ASSUME NEW o \in Runs, Begin(o) \/ Stage(o) PROVE PlanInv'
  BY <1>6, RunsKeep
<1>7. ASSUME NEW o \in Runs, StageConflict(o) \/ Escalate(o) \/ ReplaceConflict(o)
                             \/ FailRun(o)
      PROVE  PlanInv'
  <2>1. End(o) /\ UNCHANGED <<status, pdp>>
        /\ (snapshot' = "proposed" => snapshot = "proposed")
    BY <1>7 DEF StageConflict, Escalate, ReplaceConflict, FailRun, tables
  <2> QED BY <2>1, EndsKeep
<1>8. ASSUME NEW o \in Runs, Replace(o) PROVE PlanInv'
  BY <1>8, ReplaceKeeps
<1>9. ASSUME NEW o \in Runs, Propose(o) PROVE PlanInv'
  BY <1>9, ProposeKeeps
<1>10. CASE UNCHANGED vars BY <1>1, <1>10, QuietKeeps DEF vars, pdp, tables
<1> QED BY <1>2, <1>3, <1>4, <1>5, <1>6, <1>7, <1>8, <1>9, <1>10
        DEF Next, Serve, Persist

LEMMA PlanInit == Init => PlanInv
<1> SUFFICES ASSUME Init PROVE PlanInv
  OBVIOUS
<1> USE DEF Init, PlanInv, Replacing, Live, Present
<1>1. RunInv BY DEF RunInv
<1>2. PlanStays /\ ReplaceInv BY DEF PlanStays, ReplaceInv
<1>3. HeldInv /\ OldInv /\ OnePlan BY DEF HeldInv, OldInv, OnePlan
<1> QED BY <1>1, <1>2, <1>3

LEMMA OnePlanCounts == OnePlan => AtMostOnePlan
<1> SUFFICES ASSUME OnePlan PROVE Cardinality(Live) <= 1
  BY DEF AtMostOnePlan
<1>1. CASE Live = {} BY <1>1, FS_EmptySet
<1>2. ASSUME NEW p \in Live PROVE Cardinality(Live) <= 1
  <2>1. Live = {p} BY DEF OnePlan
  <2>2. Cardinality({p}) = 1 BY FS_Singleton
  <2>3. Cardinality(Live) = 1 BY <2>1, <2>2
  <2> QED BY <2>3
<1> QED BY <1>1, <1>2

-----------------------------------------------------------------------------
(* Answers *)

LEMMA DecisionsAnswer == TypeOK /\ DecisionInv => AnswersTrue
<1> SUFFICES ASSUME TypeOK, DecisionInv, NEW r \in Requests
    PROVE  /\ r \in published =>
                [by |-> r, plan |-> target[r], decision |-> "approved"] \in approvals
           /\ request[r] = "done" =>
                /\ [by |-> r, plan |-> target[r], decision |-> decision[r]] \in approvals
                /\ decision[r] = "approved" => r \in published
           /\ request[r] = "refused" =>
                \/ ~Present(target[r])
                \/ \E a \in approvals : a.plan = target[r] /\ a.by # r
  BY DEF AnswersTrue
<1>1. request[r] = "done" => /\ Row(r) \in approvals
                             /\ decision[r] = "approved" => r \in published
  BY DEF DecisionInv, AnswerInv
<1>2. r \in published => request[r] = "done" /\ decision[r] = "approved"
  BY DEF DecisionInv, AnswerInv
<1>3. ASSUME request[r] = "refused"
      PROVE  \/ ~Present(target[r])
             \/ \E a \in approvals : a.plan = target[r] /\ a.by # r
  BY <1>3 DEF DecisionInv, RefusedInv, BackedInv, Backed, Present
<1> QED BY <1>1, <1>2, <1>3 DEF Row

\* A step that leaves the requests alone.
LEMMA AnswerKeeps ==
  ASSUME AnswerInv, UNCHANGED <<pdp, published, approvals>>
  PROVE  AnswerInv'
BY DEF AnswerInv, pdp, Row

LEMMA AnswerStep == TypeOK /\ DecisionInv /\ [Next]_vars => AnswerInv'
<1> SUFFICES ASSUME TypeOK, DecisionInv, [Next]_vars PROVE AnswerInv'
  OBVIOUS
<1>0. RequestType /\ CountType /\ AnswerInv BY Parts DEF DecisionInv
<1>1. ASSUME NEW r \in Requests, NEW p \in Plans, Refuse(r, p) \/ Read(r, p)
      PROVE  AnswerInv'
  BY <1>0, <1>1 DEF Refuse, Read, Answer, RequestType, AnswerInv, Row, tables
<1>2. ASSUME NEW r \in Requests, Hold(r) \/ HoldStale(r) \/ FailRequest(r)
      PROVE  AnswerInv'
  BY <1>0, <1>2 DEF Hold, HoldStale, FailRequest, Drop, Answer, RequestType, AnswerInv,
                    Row, tables
<1>3. ASSUME NEW r \in Requests, Decide(r) PROVE AnswerInv'
  <2>1. approvals' = approvals \cup {Row(r)} BY <1>3 DEF Decide, Row
  <2>2. Row(r)' = Row(r) BY <1>3 DEF Decide, Row
  <2> QED BY <1>0, <1>3, <2>1, <2>2 DEF Decide, Answer, RequestType, AnswerInv, Row
<1>4. ASSUME NEW r \in Requests, RequestExecution(r) PROVE AnswerInv'
  BY <1>0, <1>4 DEF RequestExecution, Answer, RequestType, AnswerInv, Row, tables
<1>5. ASSUME NEW r \in Requests, Start(r) PROVE AnswerInv'
  BY <1>0, <1>5, AnswerKeeps DEF Start
<1>6. ASSUME NEW o \in Runs, Begin(o) \/ Persist(o) \/ FailRun(o) PROVE AnswerInv'
  BY <1>0, <1>6, AnswerKeeps
     DEF Begin, Persist, Stage, StageConflict, Escalate, Replace, ReplaceConflict,
         Propose, FailRun, tables
<1>7. CASE UNCHANGED vars BY <1>0, <1>7, AnswerKeeps DEF vars, tables
<1> QED BY <1>1, <1>2, <1>3, <1>4, <1>5, <1>6, <1>7 DEF Next, Serve

LEMMA BackedStep == TypeOK /\ DecisionInv /\ [Next]_vars => BackedInv'
<1> SUFFICES ASSUME TypeOK, DecisionInv, [Next]_vars PROVE BackedInv'
  OBVIOUS
<1> USE DEF BackedInv, Backed
<1>0. TableType /\ RequestType /\ RunType /\ BackedInv BY Parts DEF DecisionInv
<1>1. ASSUME UNCHANGED <<status, approvals>>,
             \A q \in Requests : request[q] \in {"publish", "done", "failed"} =>
                                 request'[q] \in {"publish", "done", "failed"}
      PROVE  BackedInv'
  BY <1>0, <1>1 DEF TableType
<1>2. ASSUME NEW r \in Requests,
             \/ \E p \in Plans : Refuse(r, p) \/ Read(r, p)
             \/ Hold(r) \/ HoldStale(r) \/ RequestExecution(r) \/ FailRequest(r)
      PROVE  BackedInv'
  <2>1. \A q \in Requests : request[q] \in {"publish", "done", "failed"} =>
                            request'[q] \in {"publish", "done", "failed"}
    BY <1>0, <1>2 DEF Refuse, Read, Hold, HoldStale, RequestExecution, FailRequest, Drop,
                      Answer, RequestType
  <2>2. UNCHANGED <<status, approvals>>
    BY <1>2 DEF Refuse, Read, Hold, HoldStale, RequestExecution, FailRequest, tables
  <2> QED BY <1>1, <2>1, <2>2
<1>3. ASSUME NEW r \in Requests, Decide(r) PROVE BackedInv'
  <2>1. approvals' = approvals \cup {Row(r)} /\ Row(r).plan = target[r] /\ Row(r).by = r
    BY <1>3 DEF Decide, Row
  <2>2. /\ request'[r] \in {"publish", "done"}
        /\ \A q \in Requests \ {r} : request'[q] = request[q]
    BY <1>0, <1>3 DEF Decide, Answer, RequestType
  <2>3. \A p \in Plans : p = target[r] \/ status'[p] = status[p]
    BY <1>0, <1>3 DEF Decide, TableType
  <2> QED BY <1>0, <2>1, <2>2, <2>3 DEF TableType
<1>4. ASSUME NEW r \in Requests, Start(r) PROVE BackedInv'
  <2>1. Row(r) \in approvals /\ Row(r).plan = target[r]
    BY <1>4 DEF Start, DecisionInv, AnswerInv, Row
  <2>2. \A p \in Plans : p = target[r] \/ status'[p] = status[p]
    BY <1>0, <1>4 DEF Start, TableType
  <2> QED BY <1>0, <1>4, <2>1, <2>2 DEF Start, pdp
<1>5. ASSUME NEW o \in Runs, Propose(o) PROVE BackedInv'
  <2>1. \A p \in Plans : status'[p] \in {"proposed", "deleted", status[p]}
    BY <1>5 DEF Propose
  <2> QED BY <1>0, <1>5, <2>1 DEF Propose, pdp
<1>6. ASSUME NEW o \in Runs,
             \/ Begin(o) \/ Stage(o) \/ StageConflict(o) \/ Escalate(o) \/ Replace(o)
             \/ ReplaceConflict(o) \/ FailRun(o)
      PROVE  BackedInv'
  BY <1>1, <1>6 DEF Begin, Stage, StageConflict, Escalate, Replace, ReplaceConflict,
                    FailRun, tables, pdp
<1>7. CASE UNCHANGED vars BY <1>1, <1>7 DEF vars, tables, pdp
<1> QED BY <1>2, <1>3, <1>4, <1>5, <1>6, <1>7 DEF Next, Serve, Persist

LEMMA RefusedStep == TypeOK /\ DecisionInv /\ PlanInv /\ [Next]_vars => RefusedInv'
<1> SUFFICES ASSUME TypeOK, DecisionInv, PlanInv, [Next]_vars PROVE RefusedInv'
  OBVIOUS
<1> USE DEF RefusedInv, Backed
<1>0. TableType /\ RequestType /\ RefusedInv /\ BackedInv BY Parts DEF DecisionInv
<1>1. ASSUME \A p \in Plans : status[p] = "deleted" => status'[p] = "deleted",
             approvals \subseteq approvals',
             \A q \in Requests : request'[q] = "refused" =>
                                 request[q] = "refused" /\ target'[q] = target[q]
      PROVE  RefusedInv'
  BY <1>0, <1>1
<1>2. ASSUME NEW r \in Requests, NEW p \in Plans, Refuse(r, p) PROVE RefusedInv'
  <2>1. status[p] = "deleted" \/ Backed(p)
    BY <1>0, <1>2 DEF Refuse, BackedInv, TableType, Decisions
  <2> QED BY <1>0, <1>2, <2>1 DEF Refuse, Answer, RequestType, tables
<1>3. ASSUME NEW r \in Requests, NEW p \in Plans, Read(r, p) PROVE RefusedInv'
  BY <1>0, <1>1, <1>3 DEF Read, Answer, RequestType, tables
<1>4. ASSUME NEW r \in Requests,
             Hold(r) \/ HoldStale(r) \/ RequestExecution(r) \/ FailRequest(r)
      PROVE  RefusedInv'
  BY <1>0, <1>1, <1>4 DEF Hold, HoldStale, RequestExecution, FailRequest, Drop, Answer,
                          RequestType, tables
<1>5. ASSUME NEW r \in Requests, Decide(r) PROVE RefusedInv'
  <2>1. target[r] \in Live BY <1>5 DEF PlanInv, HeldInv, Decide
  <2>2. \A p \in Plans : status[p] = "deleted" => status'[p] = "deleted"
    BY <1>0, <1>5, <2>1 DEF Decide, Live, Present, TableType
  <2> QED BY <1>0, <1>1, <1>5, <2>2 DEF Decide, Answer, RequestType
<1>6. ASSUME NEW r \in Requests, Start(r) PROVE RefusedInv'
  <2>1. \A p \in Plans : status[p] = "deleted" => status'[p] = "deleted"
    BY <1>0, <1>6 DEF Start, Present, TableType
  <2> QED BY <1>1, <1>6, <2>1 DEF Start, pdp
<1>7. ASSUME NEW o \in Runs, Propose(o) PROVE RefusedInv'
  <2>1. PICK new \in Fresh :
          status' = [p \in Plans |-> CASE p = new -> "proposed"
                                       [] p \in old[o] -> "deleted"
                                       [] OTHER -> status[p]]
    BY <1>7 DEF Propose
  <2>2. status[new] # "deleted" BY DEF Fresh
  <2>3. \A p \in Plans : status[p] = "deleted" => status'[p] = "deleted"
    BY <2>1, <2>2
  <2> QED BY <1>1, <1>7, <2>3 DEF Propose, pdp
<1>8. ASSUME NEW o \in Runs,
             \/ Begin(o) \/ Stage(o) \/ StageConflict(o) \/ Escalate(o) \/ Replace(o)
             \/ ReplaceConflict(o) \/ FailRun(o)
      PROVE  RefusedInv'
  BY <1>1, <1>8 DEF Begin, Stage, StageConflict, Escalate, Replace, ReplaceConflict,
                    FailRun, tables, pdp
<1>9. CASE UNCHANGED vars BY <1>1, <1>9 DEF vars, tables, pdp
<1> QED BY <1>2, <1>3, <1>4, <1>5, <1>6, <1>7, <1>8, <1>9 DEF Next, Serve, Persist

LEMMA DecisionInit == Init => DecisionInv
<1> SUFFICES ASSUME Init PROVE DecisionInv
  OBVIOUS
<1> USE DEF Init
<1>1. AnswerInv BY DEF AnswerInv
<1>2. BackedInv BY DEF BackedInv
<1>3. RefusedInv BY DEF RefusedInv
<1> QED BY <1>1, <1>2, <1>3 DEF DecisionInv

-----------------------------------------------------------------------------
(* The theorems *)

Inv == TypeOK /\ PlanInv /\ DecisionInv

LEMMA InvStep == Inv /\ [Next]_vars => Inv'
<1> SUFFICES ASSUME Inv, [Next]_vars PROVE Inv'
  OBVIOUS
<1>1. TypeOK' /\ PlanInv' BY TypeStep, PlanStep DEF Inv
<1>2. AnswerInv' /\ BackedInv' /\ RefusedInv'
  BY AnswerStep, BackedStep, RefusedStep DEF Inv
<1> QED BY <1>1, <1>2 DEF Inv, DecisionInv

LEMMA Invariant == Spec => []Inv
<1>1. Init => Inv BY TypeInit, PlanInit, DecisionInit DEF Inv
<1> QED BY <1>1, InvStep, PTL DEF Spec

\* The incident has one plan at most, for every number of orchestrator runs and of
\* decision requests: the run that proposes has the row of every plan that is there,
\* or the snapshot row, without which nobody proposes the first one.
THEOREM OnePlanAtATime == Spec => []AtMostOnePlan
<1>1. Inv => AtMostOnePlan BY OnePlanCounts DEF Inv, PlanInv
<1> QED BY <1>1, Invariant, PTL

\* What an operator is answered and what is on actions.requested has its approval
\* row, and a refused plan is gone or decided by somebody else, for every number of
\* requests, runs and failures.
THEOREM AnswersAreTrue == Spec => []AnswersTrue
<1>1. Inv => AnswersTrue BY DecisionsAnswer DEF Inv
<1> QED BY <1>1, Invariant, PTL

=============================================================================
