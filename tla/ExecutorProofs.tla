--------------------------- MODULE ExecutorProofs ---------------------------
(* Proofs about Executor, for any number of workers, steps and faults. *)
EXTENDS Executor, FiniteSetTheorems, TLAPS

LEMMA InitTypeOK == Init => TypeOK
BY ExecutorAssumption
DEF Init, TypeOK, GroupType, HandlerType, BreakerType, DatabaseType, OutsideType,
    HistoryType, Active, Ends, Steps

\* A part of the state that a step leaves alone keeps its type.
LEMMA Untouched ==
  /\ GroupType /\ UNCHANGED group => GroupType'
  /\ HandlerType /\ UNCHANGED <<pc, at>> => HandlerType'
  /\ BreakerType /\ UNCHANGED breaker => BreakerType'
  /\ DatabaseType /\ UNCHANGED db => DatabaseType'
  /\ OutsideType /\ UNCHANGED <<effect, outcome>> => OutsideType'
  /\ HistoryType /\ UNCHANGED history => HistoryType'
BY DEF GroupType, HandlerType, BreakerType, DatabaseType, OutsideType, HistoryType,
       group, breaker, db, history

\* Counting failures keeps the breaker's type, whatever it counts.
LEMMA CountType ==
  ASSUME BreakerType, NEW w \in Workers, NEW n \in Nat, Count(w, n)
  PROVE  BreakerType'
BY ExecutorAssumption DEF BreakerType, Count

LEMMA TypeStep == TypeOK /\ [Next]_vars => TypeOK'
<1> SUFFICES ASSUME TypeOK, [Next]_vars PROVE TypeOK'
  OBVIOUS
<1>0. GroupType /\ HandlerType /\ BreakerType /\ DatabaseType /\ OutsideType /\ HistoryType
  BY DEF TypeOK
<1>1. ASSUME NEW w \in Workers, Fetch(w) PROVE TypeOK'
  <2>1. GroupType'
    BY <1>0, <1>1, ExecutorAssumption DEF Fetch, GroupType
  <2>2. HandlerType'
    BY <1>0, <1>1, ExecutorAssumption DEF Fetch, Active, HandlerType, Goto
  <2>3. QED
    BY <1>0, <1>1, <2>1, <2>2, Untouched DEF Fetch, TypeOK
<1>2. ASSUME NEW w \in Workers, Ack(w) PROVE TypeOK'
  <2>1. GroupType'
    BY <1>0, <1>2, ExecutorAssumption DEF Ack, GroupType
  <2>2. HandlerType'
    BY <1>0, <1>2, ExecutorAssumption DEF Ack, Active, HandlerType, Goto
  <2>3. QED
    BY <1>0, <1>2, <2>1, <2>2, Untouched DEF Ack, TypeOK
<1>3. ASSUME NEW w \in Workers, LoadRefused(w) PROVE TypeOK'
  <2>1. HandlerType'
    BY <1>0, <1>3, ExecutorAssumption DEF LoadRefused, Active, HandlerType, Goto
  <2>2. QED
    BY <1>0, <1>3, <2>1, Untouched DEF LoadRefused, TypeOK
<1>4. ASSUME NEW w \in Workers, LoadForeign(w) PROVE TypeOK'
  <2>1. HandlerType'
    BY <1>0, <1>4, ExecutorAssumption DEF LoadForeign, Active, HandlerType, Goto
  <2>2. BreakerType'
    <3>1. CASE UNCHANGED breaker
      BY <1>0, <3>1 DEF BreakerType, breaker
    <3>2. ASSUME NEW n \in {0, 1, failures[w] + 1}, Count(w, n) PROVE BreakerType'
      BY <1>0, <3>2, CountType DEF BreakerType
    <3>3. QED
      BY <1>4, <3>1, <3>2 DEF LoadForeign
  <2>3. OutsideType'
    BY <1>0, <1>4, ExecutorAssumption DEF LoadForeign, Ends, OutsideType, Note
  <2>4. QED
    BY <1>0, <1>4, <2>1, <2>2, <2>3, Untouched DEF LoadForeign, TypeOK
<1>5. ASSUME NEW w \in Workers, LoadMissing(w) PROVE TypeOK'
  <2>1. HandlerType'
    BY <1>0, <1>5, ExecutorAssumption DEF LoadMissing, Active, HandlerType, Goto
  <2>2. OutsideType'
    BY <1>0, <1>5, ExecutorAssumption DEF LoadMissing, Ends, OutsideType, Note
  <2>3. QED
    BY <1>0, <1>5, <2>1, <2>2, Untouched DEF LoadMissing, TypeOK
<1>6. ASSUME NEW w \in Workers, LoadPlan(w) PROVE TypeOK'
  <2>1. HandlerType'
    BY <1>0, <1>6, ExecutorAssumption DEF LoadPlan, Active, Steps, HandlerType, Goto
  <2>2. DatabaseType'
    BY <1>0, <1>6, ExecutorAssumption DEF LoadPlan, DatabaseType
  <2>3. HistoryType'
    BY <1>0, <1>6, ExecutorAssumption DEF LoadPlan, HistoryType
  <2>4. QED
    BY <1>0, <1>6, <2>1, <2>2, <2>3, Untouched DEF LoadPlan, TypeOK
<1>7. ASSUME NEW w \in Workers, Announce(w) PROVE TypeOK'
  <2>1. HandlerType'
    BY <1>0, <1>7, ExecutorAssumption DEF Announce, Active, Steps, HandlerType, Goto
  <2>2. OutsideType'
    BY <1>0, <1>7, ExecutorAssumption DEF Announce, Ends, OutsideType, Note
  <2>3. QED
    BY <1>0, <1>7, <2>1, <2>2, Untouched DEF Announce, TypeOK
<1>8. ASSUME NEW w \in Workers, Refuse(w) PROVE TypeOK'
  <2>1. HandlerType'
    BY <1>0, <1>8, ExecutorAssumption DEF Refuse, Active, Steps, HandlerType, Goto
  <2>2. QED
    BY <1>0, <1>8, <2>1, Untouched DEF Refuse, TypeOK
<1>9. ASSUME NEW w \in Workers, Lookup(w) PROVE TypeOK'
  <2>1. HandlerType'
    BY <1>0, <1>9, ExecutorAssumption DEF Lookup, Active, Steps, HandlerType, Goto
  <2>2. QED
    BY <1>0, <1>9, <2>1, Untouched DEF Lookup, TypeOK
<1>10. ASSUME NEW w \in Workers, Reject(w) PROVE TypeOK'
  <2>1. HandlerType'
    BY <1>0, <1>10, ExecutorAssumption DEF Reject, Active, Steps, HandlerType, Goto
  <2>2. QED
    BY <1>0, <1>10, <2>1, Untouched DEF Reject, TypeOK
<1>11. ASSUME NEW w \in Workers, ApplySucceeds(w) PROVE TypeOK'
  <2>1. HandlerType'
    BY <1>0, <1>11, ExecutorAssumption DEF ApplySucceeds, Active, Steps, HandlerType, Goto
  <2>2. BreakerType'
    BY <1>0, <1>11, ExecutorAssumption DEF ApplySucceeds, Count, BreakerType
  <2>3. OutsideType'
    BY <1>0, <1>11, ExecutorAssumption DEF ApplySucceeds, HandlerType, OutsideType
  <2>4. HistoryType'
    BY <1>0, <1>11, ExecutorAssumption DEF ApplySucceeds, HandlerType, HistoryType
  <2>5. QED
    BY <1>0, <1>11, <2>1, <2>2, <2>3, <2>4, Untouched DEF ApplySucceeds, TypeOK
<1>12. ASSUME NEW w \in Workers, ApplyFails(w) PROVE TypeOK'
  <2>1. HandlerType'
    BY <1>0, <1>12, ExecutorAssumption DEF ApplyFails, Active, Steps, HandlerType, Goto
  <2>2. BreakerType'
    BY <1>0, <1>12, ExecutorAssumption DEF ApplyFails, Count, BreakerType
  <2>3. OutsideType'
    BY <1>0, <1>12, ExecutorAssumption DEF ApplyFails, HandlerType, OutsideType
  <2>4. QED
    BY <1>0, <1>12, <2>1, <2>2, <2>3, Untouched DEF ApplyFails, TypeOK
<1>13. ASSUME NEW w \in Workers, Record(w) PROVE TypeOK'
  <2>1. HandlerType'
    BY <1>0, <1>13, ExecutorAssumption
    DEF Record, Advance, Active, Results, Steps, HandlerType, Goto
  <2>2. DatabaseType'
    BY <1>0, <1>13, ExecutorAssumption DEF Record, HandlerType, Results, DatabaseType
  <2>3. QED
    BY <1>0, <1>13, <2>1, <2>2, Untouched DEF Record, TypeOK
<1>14. ASSUME NEW w \in Workers, RecordConflict(w) PROVE TypeOK'
  <2>1. HandlerType'
    BY <1>0, <1>14, ExecutorAssumption
    DEF RecordConflict, Raise, Forget, Active, Results, Steps, HandlerType, Goto
  <2>2. OutsideType'
    BY <1>0, <1>14, ExecutorAssumption DEF RecordConflict, Raise, Ends, OutsideType, Note
  <2>3. HistoryType'
    BY <1>0, <1>14, ExecutorAssumption
    DEF RecordConflict, Raise, Forget, HandlerType, HistoryType
  <2>4. QED
    BY <1>0, <1>14, <2>1, <2>2, <2>3, Untouched DEF RecordConflict, Raise, Forget, TypeOK
<1>15. ASSUME NEW w \in Workers, Finish(w) PROVE TypeOK'
  <2>1. HandlerType'
    BY <1>0, <1>15, ExecutorAssumption DEF Finish, Active, Steps, HandlerType, Goto
  <2>2. QED
    BY <1>0, <1>15, <2>1, Untouched DEF Finish, TypeOK
<1>16. ASSUME NEW w \in Workers, Resolve(w) PROVE TypeOK'
  <2>1. HandlerType'
    BY <1>0, <1>16, ExecutorAssumption DEF Resolve, Active, Steps, HandlerType, Goto
  <2>2. DatabaseType'
    BY <1>0, <1>16, ExecutorAssumption DEF Resolve, DatabaseType
  <2>3. QED
    BY <1>0, <1>16, <2>1, <2>2, Untouched DEF Resolve, TypeOK
<1>17. ASSUME NEW w \in Workers, Report(w) PROVE TypeOK'
  <2>1. HandlerType'
    BY <1>0, <1>17, ExecutorAssumption DEF Report, Active, HandlerType, Goto
  <2>2. OutsideType'
    BY <1>0, <1>17, ExecutorAssumption DEF Report, Ends, OutsideType, Note
  <2>3. QED
    BY <1>0, <1>17, <2>1, <2>2, Untouched DEF Report, TypeOK
<1>18. ASSUME NEW w \in Workers, Undone(w) PROVE TypeOK'
  <2>1. HandlerType'
    BY <1>0, <1>18, ExecutorAssumption DEF Undone, Active, Steps, HandlerType, Goto
  <2>2. QED
    BY <1>0, <1>18, <2>1, Untouched DEF Undone, TypeOK
<1>19. ASSUME NEW w \in Workers, UndoSkip(w) PROVE TypeOK'
  <2>1. HandlerType'
    BY <1>0, <1>19, ExecutorAssumption DEF UndoSkip, Active, Steps, HandlerType
  <2>2. QED
    BY <1>0, <1>19, <2>1, Untouched DEF UndoSkip, TypeOK
<1>20. ASSUME NEW w \in Workers, Undo(w) PROVE TypeOK'
  <2>1. HandlerType'
    BY <1>0, <1>20, ExecutorAssumption DEF Undo, Active, Steps, HandlerType, Goto
  <2>2. OutsideType'
    BY <1>0, <1>20, ExecutorAssumption DEF Undo, HandlerType, OutsideType
  <2>3. QED
    BY <1>0, <1>20, <2>1, <2>2, Untouched DEF Undo, TypeOK
<1>21. ASSUME NEW w \in Workers, RecordUndo(w) PROVE TypeOK'
  <2>1. HandlerType'
    BY <1>0, <1>21, ExecutorAssumption DEF RecordUndo, Active, Steps, HandlerType, Goto
  <2>2. DatabaseType'
    BY <1>0, <1>21, ExecutorAssumption DEF RecordUndo, DatabaseType
  <2>3. QED
    BY <1>0, <1>21, <2>1, <2>2, Untouched DEF RecordUndo, TypeOK
<1>22. ASSUME NEW w \in Workers, Escalate(w) PROVE TypeOK'
  <2>1. HandlerType'
    BY <1>0, <1>22, ExecutorAssumption DEF Escalate, Active, HandlerType, Goto
  <2>2. OutsideType'
    BY <1>0, <1>22, ExecutorAssumption DEF Escalate, Ends, OutsideType, Note
  <2>3. QED
    BY <1>0, <1>22, <2>1, <2>2, Untouched DEF Escalate, TypeOK
<1>23. ASSUME NEW w \in Workers, Cooldown(w) PROVE TypeOK'
  <2>1. BreakerType'
    BY <1>0, <1>23, ExecutorAssumption DEF Cooldown, BreakerType
  <2>2. QED
    BY <1>0, <1>23, <2>1, Untouched DEF Cooldown, TypeOK
<1>24. ASSUME NEW w \in Workers, Fail(w) PROVE TypeOK'
  <2>1. HandlerType'
    BY <1>0, <1>24, ExecutorAssumption DEF Fail, Raise, Forget, Active, HandlerType, Goto
  <2>2. OutsideType'
    BY <1>0, <1>24, ExecutorAssumption DEF Fail, Raise, Ends, OutsideType, Note
  <2>3. HistoryType'
    BY <1>0, <1>24, ExecutorAssumption DEF Fail, Raise, Forget, Spend, HandlerType, HistoryType
  <2>4. QED
    BY <1>0, <1>24, <2>1, <2>2, <2>3, Untouched DEF Fail, Raise, Forget, TypeOK
<1>25. ASSUME NEW w \in Workers, Crash(w) PROVE TypeOK'
  <2>1. GroupType'
    BY <1>0, <1>25, ExecutorAssumption DEF Crash, GroupType
  <2>2. HandlerType'
    BY <1>0, <1>25, ExecutorAssumption DEF Crash, Forget, Active, HandlerType, Goto
  <2>3. BreakerType'
    BY <1>0, <1>25, ExecutorAssumption DEF Crash, BreakerType
  <2>4. HistoryType'
    BY <1>0, <1>25, ExecutorAssumption DEF Crash, Forget, Spend, HandlerType, HistoryType
  <2>5. QED
    BY <1>0, <1>25, <2>1, <2>2, <2>3, <2>4, Untouched DEF Crash, Forget, TypeOK
<1>26. ASSUME NEW w \in Workers, Rebalance(w) PROVE TypeOK'
  <2>1. GroupType'
    BY <1>0, <1>26, ExecutorAssumption DEF Rebalance, GroupType
  <2>2. HistoryType'
    BY <1>0, <1>26, ExecutorAssumption DEF Rebalance, Spend, HistoryType
  <2>3. QED
    BY <1>0, <1>26, <2>1, <2>2, Untouched DEF Rebalance, TypeOK
<1>27. ASSUME ReplacePlan PROVE TypeOK'
  <2>1. DatabaseType'
    BY <1>0, <1>27, ExecutorAssumption DEF ReplacePlan, Spend, DatabaseType
  <2>2. HistoryType'
    BY <1>0, <1>27, ExecutorAssumption DEF ReplacePlan, Spend, HistoryType
  <2>3. QED
    BY <1>0, <1>27, <2>1, <2>2, Untouched DEF ReplacePlan, TypeOK
<1>28. CASE UNCHANGED vars
  BY <1>0, <1>28, Untouched DEF vars, TypeOK
<1>29. QED
  BY <1>1, <1>2, <1>3, <1>4, <1>5, <1>6, <1>7, <1>8, <1>9, <1>10, <1>11, <1>12, <1>13,
      <1>14, <1>15, <1>16, <1>17, <1>18, <1>19, <1>20, <1>21, <1>22, <1>23, <1>24, <1>25,
      <1>26, <1>27, <1>28
  DEF Next, Handle, Disturb

\* Every variable has its type in every reachable state.
THEOREM TypeCorrect == Spec => []TypeOK
<1>1. Init => TypeOK
  BY InitTypeOK
<1>2. TypeOK /\ [Next]_vars => TypeOK'
  BY TypeStep
<1>3. QED
  BY <1>1, <1>2, PTL DEF Spec

-----------------------------------------------------------------------------
(* The ledger *)

\* The step of a ledger row: no action rewrites one.
LEMMA LedgerStep ==
  ASSUME TypeOK, [Next]_vars, NEW s \in Steps, ledger[s] # "none"
  PROVE  ledger'[s] = ledger[s]
<1>1. ASSUME NEW w \in Workers, Record(w) PROVE ledger'[s] = ledger[s]
  BY <1>1 DEF Record, TypeOK, DatabaseType
<1>2. CASE UNCHANGED ledger
  BY <1>2
<1>3. ASSUME NEW w \in Workers, Handle(w), ~Record(w) PROVE UNCHANGED ledger
  BY <1>3 DEF Handle, Fetch, Ack, LoadRefused, LoadForeign, LoadMissing, LoadPlan,
     Announce, Refuse, Lookup, Reject, ApplySucceeds, ApplyFails, RecordConflict,
     Finish, Resolve, Report, Undone, UndoSkip, Undo, RecordUndo, Escalate, db
<1>4. ASSUME NEW w \in Workers, Disturb(w) PROVE UNCHANGED ledger
  BY <1>4 DEF Disturb, Cooldown, Fail, Crash, Rebalance, db
<1>5. CASE ReplacePlan \/ UNCHANGED vars
  BY <1>5 DEF ReplacePlan, vars, db
<1>6. QED
  BY <1>1, <1>2, <1>3, <1>4, <1>5 DEF Next

\* No handler of any delivery ever changes a ledger row another one wrote.
THEOREM LedgerIsAppendOnly == Spec => LedgerAppendOnly
<1>1. TypeOK /\ [Next]_vars =>
        [\A s \in Steps : ledger[s] # "none" => ledger'[s] = ledger[s]]_vars
  BY LedgerStep
<1>2. QED
  BY <1>1, TypeCorrect, PTL DEF Spec, LedgerAppendOnly

-----------------------------------------------------------------------------
(* The saga runs in plan order *)

\* The steps a running handler has behind it have their success rows.  This is
\* what makes ResolvedBacked inductive: the handler that is about to resolve has
\* seen every row, and rows do not change.
BehindDone(w) ==
  /\ pc[w] \in {"announce", "step", "apply", "success", "failed"} =>
       \A j \in 1 .. at[w] - 1 : ledger[j] = "success"
  /\ pc[w] = "resolve" => \A s \in Steps : ledger[s] = "success"

Inv ==
  /\ TypeOK
  /\ \A w \in Workers : BehindDone(w)
  /\ ResolvedBacked

LEMMA InitInv == Init => Inv
BY InitTypeOK DEF Init, Inv, BehindDone, ResolvedBacked

LEMMA BehindKept ==
  ASSUME TypeOK, [Next]_vars, NEW v \in Workers, BehindDone(v),
         UNCHANGED <<pc[v], at[v]>>
  PROVE  BehindDone(v)'
<1>1. \A s \in Steps : ledger[s] = "success" => ledger'[s] = "success"
  BY LedgerStep
<1>2. pc[v] \in {"announce", "step", "apply", "success", "failed"} =>
        1 .. at[v] - 1 \subseteq Steps
  BY ExecutorAssumption DEF TypeOK, HandlerType, Steps
<1>3. QED
  BY <1>1, <1>2 DEF BehindDone

LEMMA BehindStep ==
  ASSUME Inv, [Next]_vars, NEW v \in Workers
  PROVE  BehindDone(v)'
<1>0. TypeOK /\ HandlerType /\ BehindDone(v)
  BY DEF Inv, TypeOK
<1>1. ASSUME UNCHANGED <<pc[v], at[v]>> PROVE BehindDone(v)'
  BY <1>0, <1>1, BehindKept
<1>2. ASSUME NEW w \in Workers, w # v, Handle(w) \/ Disturb(w)
      PROVE  BehindDone(v)'
  <2>1. pc'[v] = pc[v] /\ at'[v] = at[v]
    BY <1>0, <1>2 DEF HandlerType, Handle, Disturb, Goto, Fetch, Ack, LoadRefused,
       LoadForeign, LoadMissing, LoadPlan, Announce, Refuse, Lookup, Reject,
       ApplySucceeds, ApplyFails, Record, Advance, RecordConflict, Raise, Forget,
       Finish, Resolve, Report, Undone, UndoSkip, Undo, RecordUndo, Escalate,
       Cooldown, Fail, Crash, Rebalance
  <2>2. QED
    BY <1>1, <2>1
<1>3. CASE LoadPlan(v)
  BY <1>0, <1>3 DEF LoadPlan, Goto, BehindDone, HandlerType
<1>4. CASE Announce(v) \/ ApplySucceeds(v) \/ ApplyFails(v)
  BY <1>0, <1>4 DEF Announce, ApplySucceeds, ApplyFails, Goto, BehindDone,
     HandlerType, db
<1>5. CASE Lookup(v)
  BY <1>0, <1>5, ExecutorAssumption
  DEF Lookup, Goto, BehindDone, HandlerType, db
<1>6. CASE Record(v)
  <2>1. \A j \in 1 .. at[v] - 1 : ledger'[j] = "success"
    BY <1>0, <1>6, ExecutorAssumption
    DEF Record, TypeOK, DatabaseType, HandlerType, BehindDone, Results, Steps
  <2>2. CASE pc[v] = "success"
    BY <1>0, <1>6, <2>1, <2>2, ExecutorAssumption
    DEF Record, Advance, Goto, TypeOK, DatabaseType, HandlerType, BehindDone, Steps
  <2>3. CASE pc[v] # "success"
    BY <1>0, <1>6, <2>3 DEF Record, Advance, Goto, HandlerType, BehindDone
  <2>4. QED
    BY <2>2, <2>3
<1>7. CASE Finish(v)
  BY <1>0, <1>7, ExecutorAssumption
  DEF Finish, Goto, BehindDone, HandlerType, db, Steps
<1>8. ASSUME Handle(v) \/ Disturb(v),
             ~(LoadPlan(v) \/ Announce(v) \/ ApplySucceeds(v) \/ ApplyFails(v)),
             ~(Lookup(v) \/ Record(v) \/ Finish(v)),
             pc'[v] # pc[v] \/ at'[v] # at[v]
      PROVE  BehindDone(v)'
  <2>1. pc'[v] \notin {"announce", "step", "apply", "success", "failed", "resolve"}
    BY <1>0, <1>8
    DEF HandlerType, Handle, Disturb, Goto, Fetch, Ack, LoadRefused, LoadForeign,
        LoadMissing, Refuse, Reject, RecordConflict, Raise, Forget, Resolve, Report,
        Undone, UndoSkip, Undo, RecordUndo, Escalate, Cooldown, Fail, Crash,
        Rebalance
  <2>2. QED
    BY <2>1 DEF BehindDone
<1>9. CASE ReplacePlan \/ UNCHANGED vars
  BY <1>1, <1>9 DEF ReplacePlan, vars
<1>10. QED
  BY <1>1, <1>2, <1>3, <1>4, <1>5, <1>6, <1>7, <1>8, <1>9 DEF Next

LEMMA ResolvedStep ==
  ASSUME Inv, [Next]_vars
  PROVE  ResolvedBacked'
<1>1. CASE UNCHANGED incident
  BY <1>1, LedgerStep DEF Inv, ResolvedBacked
<1>2. ASSUME NEW w \in Workers, Resolve(w) PROVE ResolvedBacked'
  BY <1>2 DEF Inv, BehindDone, Resolve, ResolvedBacked
<1>3. ASSUME NEW w \in Workers, Handle(w) \/ Disturb(w), ~Resolve(w)
      PROVE  UNCHANGED incident
  BY <1>3
  DEF Handle, Disturb, Fetch, Ack, LoadRefused, LoadForeign, LoadMissing, LoadPlan,
      Announce, Refuse, Lookup, Reject, ApplySucceeds, ApplyFails, Record,
      RecordConflict, Finish, Report, Undone, UndoSkip, Undo, RecordUndo, Escalate,
      Cooldown, Fail, Crash, Rebalance, db
<1>4. CASE ReplacePlan \/ UNCHANGED vars
  BY <1>1, <1>4 DEF ReplacePlan, vars, db
<1>5. QED
  BY <1>1, <1>2, <1>3, <1>4 DEF Next

LEMMA InvInductive == Inv /\ [Next]_vars => Inv'
BY TypeStep, BehindStep, ResolvedStep DEF Inv

LEMMA InvHolds == Spec => []Inv
BY InitInv, InvInductive, PTL DEF Spec

\* A resolved incident has a success row for every step of its plan.
THEOREM ResolvedIsBacked == Spec => []ResolvedBacked
<1>1. Inv => ResolvedBacked
  BY DEF Inv
<1>2. QED
  BY <1>1, InvHolds, PTL

\* A step reaches the infrastructure only behind the success rows of all earlier
\* steps, in every attempt by every worker.
THEOREM StepsRunInOrder == Spec => AppliedInOrder
<1>1. Inv /\ [Next]_vars =>
        [\A s \in Steps : applies'[s] # applies[s] =>
            \A j \in 1 .. s - 1 : ledger[j] = "success"]_vars
  <2> SUFFICES ASSUME Inv, [Next]_vars, NEW s \in Steps, applies'[s] # applies[s]
               PROVE  \A j \in 1 .. s - 1 : ledger[j] = "success"
    OBVIOUS
  <2>1. ASSUME NEW w \in Workers, ApplySucceeds(w)
        PROVE  \A j \in 1 .. s - 1 : ledger[j] = "success"
    <3>1. at[w] = s
      BY <2>1 DEF ApplySucceeds, Inv, TypeOK, HistoryType, HandlerType
    <3>2. QED
      BY <2>1, <3>1 DEF ApplySucceeds, Inv, BehindDone
  <2>2. ASSUME NEW w \in Workers, Handle(w) \/ Disturb(w), ~ApplySucceeds(w)
        PROVE  UNCHANGED applies
    BY <2>2
    DEF Handle, Disturb, Fetch, Ack, LoadRefused, LoadForeign, LoadMissing, LoadPlan,
        Announce, Refuse, Lookup, Reject, ApplyFails, Record, RecordConflict, Finish,
        Resolve, Report, Undone, UndoSkip, Undo, RecordUndo, Escalate, Cooldown,
        Fail, Crash, Rebalance, history
  <2>3. CASE ReplacePlan \/ UNCHANGED vars
    BY <2>3 DEF ReplacePlan, vars, history
  <2>4. QED
    BY <2>1, <2>2, <2>3 DEF Next
<1>2. QED
  BY <1>1, InvHolds, PTL DEF Spec, AppliedInOrder

-----------------------------------------------------------------------------
(* The group commits only what was handled *)

\* All records the owner took are handled, but for the one in its handler.  The
\* position of a worker that lost the partition is of no account: the broker
\* refuses its commit, and it starts over at the committed offset.
OwnerInv ==
  \A o \in 1 .. position[owner] :
    Ended(o) \/ (o = position[owner] /\ pc[owner] \in Active \ {"ack"})

GroupInv == TypeOK /\ CommittedHandled /\ OwnerInv

LEMMA InitGroupInv == Init => GroupInv
BY InitTypeOK, ExecutorAssumption DEF Init, GroupInv, CommittedHandled, OwnerInv

\* What a record has led to is never taken back.
LEMMA EndedKept ==
  ASSUME TypeOK, [Next]_vars, NEW o \in Offsets, Ended(o)
  PROVE  Ended(o)'
<1>0. OutsideType
  BY DEF TypeOK
<1>1. ASSUME NEW w \in Workers, NEW x, Note(w, x) PROVE outcome[o] \subseteq outcome'[o]
  BY <1>0, <1>1 DEF Note, OutsideType
<1>2. ASSUME NEW w \in Workers, Handle(w) \/ Disturb(w)
      PROVE  UNCHANGED outcome \/ \E x : Note(w, x)
  BY <1>2
  DEF Handle, Disturb, Fetch, Ack, LoadRefused, LoadForeign, LoadMissing, LoadPlan,
      Announce, Refuse, Lookup, Reject, ApplySucceeds, ApplyFails, Record,
      RecordConflict, Raise, Finish, Resolve, Report, Undone, UndoSkip, Undo,
      RecordUndo, Escalate, Cooldown, Fail, Crash, Rebalance
<1>3. CASE ReplacePlan \/ UNCHANGED vars
  BY <1>3 DEF ReplacePlan, vars, Ended
<1>4. QED
  BY <1>1, <1>2, <1>3 DEF Next, Ended

LEMMA CommittedStep ==
  ASSUME GroupInv, [Next]_vars
  PROVE  CommittedHandled'
<1>0. TypeOK /\ GroupType /\ HandlerType /\ \A o \in 1 .. committed : Ended(o)
  BY DEF GroupInv, TypeOK, CommittedHandled, Ended
<1>1. CASE UNCHANGED committed
  <2>1. 1 .. committed \subseteq Offsets
    BY <1>0, ExecutorAssumption DEF GroupType, Offsets
  <2>2. \A o \in 1 .. committed : Ended(o)'
    BY <1>0, <2>1, EndedKept
  <2>3. QED
    BY <1>1, <2>2 DEF CommittedHandled, Ended
<1>2. ASSUME NEW w \in Workers, Ack(w), owner = w PROVE CommittedHandled'
  <2>1. \A o \in 1 .. position[w] : Ended(o)
    BY <1>2 DEF GroupInv, OwnerInv, Ack
  <2>2. 1 .. position[w] \subseteq Offsets
    BY <1>0, ExecutorAssumption DEF GroupType, Offsets
  <2>3. \A o \in 1 .. position[w] : Ended(o)'
    BY <1>0, <2>1, <2>2, EndedKept
  <2>4. QED
    BY <1>2, <2>3 DEF Ack, CommittedHandled, Ended
<1>3. ASSUME NEW w \in Workers, Handle(w) \/ Disturb(w), ~(Ack(w) /\ owner = w)
      PROVE  UNCHANGED committed
  BY <1>3
  DEF Handle, Disturb, Fetch, Ack, LoadRefused, LoadForeign, LoadMissing, LoadPlan,
      Announce, Refuse, Lookup, Reject, ApplySucceeds, ApplyFails, Record,
      RecordConflict, Finish, Resolve, Report, Undone, UndoSkip, Undo, RecordUndo,
      Escalate, Cooldown, Fail, Crash, Rebalance, group
<1>4. CASE ReplacePlan \/ UNCHANGED vars
  BY <1>1, <1>4 DEF ReplacePlan, vars, group
<1>5. QED
  BY <1>1, <1>2, <1>3, <1>4 DEF Next

LEMMA OwnerStep ==
  ASSUME GroupInv, [Next]_vars
  PROVE  OwnerInv'
<1>0. /\ TypeOK /\ GroupType /\ HandlerType /\ OutsideType /\ OwnerInv
      /\ \A o \in 1 .. committed : Ended(o)
  BY DEF GroupInv, TypeOK, CommittedHandled, Ended
<1>a. /\ \A w \in Workers : 1 .. position[w] \subseteq Offsets
      /\ 1 .. committed \subseteq Offsets
  BY <1>0, ExecutorAssumption DEF GroupType, Offsets
<1>1. ASSUME UNCHANGED group,
             pc[owner] \in Active \ {"ack"} =>
                \/ pc'[owner] \in Active \ {"ack"}
                \/ \A o \in Offsets : o = position[owner] => Ended(o)'
      PROVE  OwnerInv'
  <2> SUFFICES ASSUME NEW o \in 1 .. position[owner]
               PROVE  \/ Ended(o)'
                      \/ o = position[owner] /\ pc'[owner] \in Active \ {"ack"}
    BY <1>1 DEF OwnerInv, group, Ended
  <2>1. o \in Offsets
    BY <1>0, <1>a DEF GroupType
  <2>2. QED
    BY <1>0, <1>1, <2>1, EndedKept DEF OwnerInv
<1>2. ASSUME NEW w \in Workers, position'[w] = committed, owner' = w
      PROVE  OwnerInv'
  <2>1. \A o \in 1 .. committed : Ended(o)'
    BY <1>0, <1>a, EndedKept
  <2>2. QED
    BY <1>2, <2>1 DEF OwnerInv, Ended
<1>3. ASSUME NEW w \in Workers, w # owner, Handle(w) \/ Disturb(w), ~Rebalance(w)
      PROVE  OwnerInv'
  <2>1. UNCHANGED <<owner, position[owner], pc[owner]>>
    BY <1>0, <1>3
    DEF GroupType, HandlerType, Handle, Disturb, Goto, Fetch, Ack, LoadRefused,
        LoadForeign, LoadMissing, LoadPlan, Announce, Refuse, Lookup, Reject,
        ApplySucceeds, ApplyFails, Record, Advance, RecordConflict, Raise, Forget,
        Finish, Resolve, Report, Undone, UndoSkip, Undo, RecordUndo, Escalate,
        Cooldown, Fail, Crash, group
  <2>2. \A o \in 1 .. position[owner] : Ended(o) => Ended(o)'
    BY <1>0, <1>a, EndedKept DEF GroupType
  <2>3. QED
    BY <1>0, <2>1, <2>2 DEF OwnerInv, Ended
<1>4. CASE Fetch(owner)
  <2>1. /\ owner' = owner /\ position'[owner] = position[owner] + 1
        /\ pc'[owner] \in Active \ {"ack"} /\ UNCHANGED outcome
    BY <1>0, <1>4 DEF Fetch, Goto, GroupType, HandlerType, Active
  <2>2. \A o \in 1 .. position[owner] : Ended(o)
    BY <1>0, <1>4 DEF OwnerInv, Fetch, Active
  <2>3. position[owner] \in Nat
    BY <1>0, ExecutorAssumption DEF GroupType
  <2>4. QED
    BY <2>1, <2>2, <2>3 DEF OwnerInv, Ended
<1>5. CASE Ack(owner)
  <2>1. /\ UNCHANGED <<owner, position, outcome>>
        /\ \A o \in 1 .. position[owner] : Ended(o)
    BY <1>0, <1>5 DEF Ack, OwnerInv
  <2>2. QED
    BY <2>1 DEF OwnerInv, Ended
<1>6. CASE LoadForeign(owner) \/ LoadMissing(owner) \/ Report(owner)
           \/ Escalate(owner) \/ RecordConflict(owner) \/ Fail(owner)
  <2>1. \E x \in Ends : Note(owner, x)
    BY <1>6 DEF LoadForeign, LoadMissing, Report, Escalate, RecordConflict, Fail, Raise, Ends
  <2>2. \A o \in Offsets : o = position[owner] => Ended(o)'
    BY <1>0, <2>1 DEF Note, OutsideType, Ended
  <2>3. UNCHANGED group
    BY <1>6 DEF LoadForeign, LoadMissing, Report, Escalate, RecordConflict, Fail
  <2>4. QED
    BY <1>1, <2>2, <2>3
<1>7. ASSUME Handle(owner) \/ Cooldown(owner),
             ~(Fetch(owner) \/ Ack(owner) \/ LoadForeign(owner) \/ LoadMissing(owner)),
             ~(Report(owner) \/ Escalate(owner) \/ RecordConflict(owner))
      PROVE  OwnerInv'
  <2>1. /\ UNCHANGED group
        /\ pc[owner] \in Active \ {"ack"} => pc'[owner] \in Active \ {"ack"}
    BY <1>0, <1>7
    DEF GroupType, HandlerType, Handle, Goto, LoadRefused, LoadPlan, Announce,
        Refuse, Lookup, Reject, ApplySucceeds, ApplyFails, Record, Advance, Finish,
        Resolve, Undone, UndoSkip, Undo, RecordUndo, Cooldown, Active
  <2>2. QED
    BY <1>1, <2>1
<1>8. ASSUME NEW w \in Workers, Rebalance(w) \/ (Crash(w) /\ owner = w)
      PROVE  OwnerInv'
  <2>1. position'[w] = committed /\ owner' = w
    BY <1>0, <1>8 DEF Rebalance, Crash, GroupType
  <2>2. QED
    BY <1>2, <2>1
<1>9. CASE ReplacePlan \/ UNCHANGED vars
  <2>1. UNCHANGED group /\ UNCHANGED pc
    BY <1>9 DEF ReplacePlan, vars
  <2>2. QED
    BY <1>1, <2>1
<1>10. owner \in Workers
  BY <1>0 DEF GroupType
<1>11. QED
  BY <1>3, <1>4, <1>5, <1>6, <1>7, <1>8, <1>9, <1>10 DEF Next, Disturb

\* The committed offset never passes a record that no handler ran to an end.
THEOREM CommitsAreHandled == Spec => []CommittedHandled
<1>1. GroupInv /\ [Next]_vars => GroupInv'
  BY TypeStep, CommittedStep, OwnerStep DEF GroupInv
<1>2. GroupInv => CommittedHandled
  BY DEF GroupInv
<1>3. QED
  BY InitGroupInv, <1>1, <1>2, PTL DEF Spec

-----------------------------------------------------------------------------
(* An undone step and RESOLVED do not meet in one attempt *)

\* The awaits of an attempt at the plan, from its start to its end.
Run == {"announce", "step", "apply", "success", "failed", "resolve", "report", "undo",
        "recordUndo"}

NoneUndone == \A s \in Steps : effect[s] # "undone"

\* While there was one attempt, one handler at most is in it, and it has either
\* turned back, and then does not resolve, or has undone nothing.
FirstInv ==
  /\ attempts = 0 =>
       incident = "open" /\ NoneUndone /\ \A w \in Workers : pc[w] \notin Run
  /\ attempts = 1 =>
       /\ \A v, w \in Workers : pc[v] \in Run /\ pc[w] \in Run => v = w
       /\ \A w \in Workers : pc[w] \in Run \ {"report"} => incident = "open"
       /\ \A w \in Workers : pc[w] \in Run \ {"undo", "recordUndo"} => NoneUndone
       /\ incident = "open" \/ NoneUndone

\* A step of one worker leaves the handlers of the others where they are.
LEMMA OthersStay ==
  ASSUME TypeOK, NEW w \in Workers, Handle(w) \/ Disturb(w), NEW v \in Workers, v # w
  PROVE  pc'[v] = pc[v] /\ at'[v] = at[v]
BY DEF TypeOK, HandlerType, Handle, Disturb, Goto, Fetch, Ack, LoadRefused, LoadForeign,
       LoadMissing, LoadPlan, Announce, Refuse, Lookup, Reject, ApplySucceeds,
       ApplyFails, Record, Advance, RecordConflict, Raise, Forget, Finish, Resolve,
       Report, Undone, UndoSkip, Undo, RecordUndo, Escalate, Cooldown, Fail, Crash,
       Rebalance

\* Only LoadPlan begins an attempt; within one the way leads forward or back, and only
\* the two ends touch what FirstInv speaks of.
LEMMA RunFacts ==
  ASSUME TypeOK, NEW w \in Workers, Handle(w) \/ Disturb(w), ~LoadPlan(w)
  PROVE  /\ attempts' = attempts
         /\ pc'[w] \in Run => pc[w] \in Run
         /\ pc'[w] \in Run \ {"report"} => pc[w] \in Run \ {"report"}
         /\ pc'[w] \in Run \ {"undo", "recordUndo"} =>
              pc[w] \in Run \ {"undo", "recordUndo"}
         /\ incident' = incident \/ (pc[w] = "resolve" /\ pc'[w] = "report")
         /\ \/ pc[w] = "undo" /\ pc'[w] = "recordUndo"
            \/ \A s \in Steps : effect'[s] = "undone" => effect[s] = "undone"
<1>1. CASE Fetch(w) \/ Ack(w) \/ LoadRefused(w) \/ LoadForeign(w) \/ LoadMissing(w)
  BY <1>1 DEF TypeOK, HandlerType, Fetch, Ack, LoadRefused, LoadForeign, LoadMissing,
     Goto, Run, db, history
<1>2. CASE Announce(w) \/ Refuse(w) \/ Lookup(w) \/ Reject(w) \/ Finish(w)
  BY <1>2 DEF TypeOK, HandlerType, Announce, Refuse, Lookup, Reject, Finish,
     Goto, Run, db, history
<1>3. CASE ApplySucceeds(w) \/ ApplyFails(w)
  BY <1>3 DEF TypeOK, HandlerType, OutsideType, ApplySucceeds, ApplyFails, Goto, Run, db,
     history
<1>4. CASE Record(w) \/ RecordConflict(w)
  BY <1>4 DEF TypeOK, HandlerType, Record, Advance, RecordConflict, Raise, Forget, Results,
     Goto, Run, db, history
<1>5. CASE Resolve(w) \/ Report(w) \/ Escalate(w) \/ Undone(w)
  BY <1>5 DEF TypeOK, HandlerType, Resolve, Report, Escalate, Undone, Goto, Run, db, history
<1>6. CASE UndoSkip(w) \/ Undo(w) \/ RecordUndo(w)
  BY <1>6 DEF TypeOK, HandlerType, OutsideType, UndoSkip, Undo, RecordUndo, Goto, Run, db,
     history
<1>7. CASE Disturb(w)
  BY <1>7 DEF TypeOK, HandlerType, Disturb, Cooldown, Fail, Crash, Rebalance, Raise,
     Forget, Goto, Run, db, history
<1> QED BY <1>1, <1>2, <1>3, <1>4, <1>5, <1>6, <1>7 DEF Handle

LEMMA FirstStep == TypeOK /\ FirstInv /\ [Next]_vars => FirstInv'
<1> SUFFICES ASSUME TypeOK, FirstInv, [Next]_vars PROVE FirstInv'
  OBVIOUS
<1>1. attempts \in Nat BY DEF TypeOK, HistoryType
<1>2. ASSUME NEW w \in Workers, LoadPlan(w) PROVE FirstInv'
  <2>1. attempts' = attempts + 1 /\ UNCHANGED <<incident, effect>>
    BY <1>2 DEF LoadPlan
  <2>2. CASE attempts = 0
    <3>1. \A v \in Workers : pc'[v] \in Run => v = w
      BY <1>2, <2>2, OthersStay DEF FirstInv, Handle
    <3> QED BY <2>1, <2>2, <3>1 DEF FirstInv, NoneUndone
  <2>3. CASE attempts # 0 BY <1>1, <2>1, <2>3 DEF FirstInv
  <2> QED BY <2>2, <2>3
<1>3. ASSUME NEW w \in Workers, Handle(w) \/ Disturb(w), ~LoadPlan(w) PROVE FirstInv'
  <2>1. attempts' = attempts BY <1>3, RunFacts
  <2>2. \A v \in Workers : pc'[v] \in Run => pc[v] \in Run
    BY <1>3, RunFacts, OthersStay
  <2>3. CASE attempts = 0
    <3>1. pc[w] \notin Run BY <2>3 DEF FirstInv
    <3>2. incident' = incident /\ (NoneUndone => NoneUndone')
      BY <1>3, <3>1, RunFacts DEF Run, NoneUndone
    <3> QED BY <2>1, <2>2, <2>3, <3>2 DEF FirstInv
  <2>4. CASE attempts = 1
    <3>1. \A u, v \in Workers : pc'[u] \in Run /\ pc'[v] \in Run => u = v
      BY <2>2, <2>4 DEF FirstInv
    <3>2. \A v \in Workers : v # w /\ pc'[v] \in Run => pc[w] \notin Run
      BY <2>2, <2>4 DEF FirstInv
    <3>3. CASE pc[w] = "resolve" /\ pc'[w] = "report"
      <4>1. NoneUndone /\ \A v \in Workers : v # w => pc'[v] \notin Run
        BY <2>4, <3>2, <3>3 DEF FirstInv, Run
      <4>2. NoneUndone' BY <1>3, <3>3, <4>1, RunFacts DEF NoneUndone
      <4> QED BY <2>1, <2>4, <3>1, <3>3, <4>1, <4>2 DEF FirstInv
    <3>4. CASE pc[w] = "undo" /\ pc'[w] = "recordUndo"
      <4>1. incident = "open" /\ \A v \in Workers : v # w => pc'[v] \notin Run
        BY <2>4, <3>2, <3>4 DEF FirstInv, Run
      <4>2. incident' = "open" BY <1>3, <3>4, <4>1, RunFacts
      <4> QED BY <2>1, <2>4, <3>1, <3>4, <4>1, <4>2 DEF FirstInv
    <3>5. CASE /\ ~(pc[w] = "resolve" /\ pc'[w] = "report")
               /\ ~(pc[w] = "undo" /\ pc'[w] = "recordUndo")
      <4>1. incident' = incident /\ (NoneUndone => NoneUndone')
        BY <1>3, <3>5, RunFacts DEF NoneUndone
      <4>2. ASSUME NEW v \in Workers, pc'[v] \in Run \ {"report"}
            PROVE  pc[v] \in Run \ {"report"}
        BY <1>3, <4>2, RunFacts, OthersStay
      <4>3. ASSUME NEW v \in Workers, pc'[v] \in Run \ {"undo", "recordUndo"}
            PROVE  pc[v] \in Run \ {"undo", "recordUndo"}
        BY <1>3, <4>3, RunFacts, OthersStay
      <4> QED BY <2>1, <2>4, <3>1, <4>1, <4>2, <4>3 DEF FirstInv
    <3> QED BY <3>3, <3>4, <3>5
  <2>5. CASE attempts \notin {0, 1} BY <2>1, <2>5 DEF FirstInv
  <2> QED BY <2>3, <2>4, <2>5
<1>4. CASE ReplacePlan \/ UNCHANGED vars
  BY <1>4 DEF ReplacePlan, vars, db, history, FirstInv, NoneUndone
<1> QED BY <1>2, <1>3, <1>4 DEF Next

\* An undone step of a resolved incident takes a second delivery of an approval, for
\* any number of workers, steps and faults.
THEOREM UndoneResolvedTakesTwo == Spec => []UndoneResolvedNeedsRedelivery
<1>1. Init => FirstInv BY DEF Init, FirstInv, NoneUndone, Run
<1>2. TypeOK /\ FirstInv => UndoneResolvedNeedsRedelivery
  <2> SUFFICES ASSUME TypeOK, FirstInv, incident = "resolved", ~NoneUndone
               PROVE  attempts > 1
    BY DEF UndoneResolvedNeedsRedelivery, NoneUndone
  <2>1. attempts \in Nat BY DEF TypeOK, HistoryType
  <2>2. attempts # 0 /\ attempts # 1 BY DEF FirstInv
  <2> QED BY <2>1, <2>2
<1> QED BY <1>1, <1>2, FirstStep, TypeCorrect, PTL DEF Spec

-----------------------------------------------------------------------------
(* How often a step is applied *)

\* The workers that lost the partition and are still inside a handler.
Late == {w \in Workers : w # owner /\ pc[w] # "idle"}

\* The workers that looked step s up and found no success row, and of these the ones
\* that hold a success they have not recorded.
Inside(s)  == {w \in Workers : pc[w] \in {"apply", "success"} /\ at[w] = s}
Holders(s) == {w \in Workers : pc[w] = "success" /\ at[w] = s}

Written(s) == IF ledger[s] = "success" THEN 1 ELSE 0

\* Each move of the partition leaves one handler behind at most.
LateInv == IsFiniteSet(Late) /\ Cardinality(Late) <= moves

\* A success row is written by one of those inside, and lets nobody in any more.
InsideInv == \A s \in Steps : Cardinality(Inside(s)) + Written(s) <= 1 + moves

\* A success of the runtime is in the ledger, was lost, or is about to be recorded.
CountInv ==
  \A s \in Steps : applies[s] = Written(s) + lost[s] + Cardinality(Holders(s))

RepeatInv == TypeOK /\ LateInv /\ InsideInv /\ CountInv

\* What a step of one worker does to the sets of those inside and of the holders.
LEMMA InsideFinite ==
  ASSUME TypeOK, LateInv, NEW s \in Steps
  PROVE  /\ IsFiniteSet(Late \cup {owner}) /\ Cardinality(Late \cup {owner}) <= 1 + moves
         /\ IsFiniteSet(Inside(s)) /\ IsFiniteSet(Holders(s))
         /\ Cardinality(Inside(s)) \in Nat /\ Cardinality(Holders(s)) \in Nat
         /\ Cardinality(Holders(s)) <= Cardinality(Inside(s))
<1>1. IsFiniteSet(Late) /\ Cardinality(Late) \in Nat /\ Cardinality(Late) <= moves
  BY FS_CardinalityType DEF LateInv
<1>2. /\ IsFiniteSet(Late \cup {owner})
      /\ Cardinality(Late \cup {owner}) = Cardinality(Late) + 1
  <2>1. owner \notin Late BY DEF Late
  <2> QED BY <1>1, <2>1, FS_AddElement
<1>3. moves \in Nat BY DEF TypeOK, HistoryType
<1>4. Inside(s) \subseteq Late \cup {owner} BY DEF Inside, Late
<1>5. Holders(s) \subseteq Inside(s) BY DEF Holders, Inside
<1>6. IsFiniteSet(Inside(s)) BY <1>2, <1>4, FS_Subset
<1>7. IsFiniteSet(Holders(s)) /\ Cardinality(Holders(s)) <= Cardinality(Inside(s))
  BY <1>5, <1>6, FS_Subset
<1> QED BY <1>1, <1>2, <1>3, <1>6, <1>7, FS_CardinalityType

LEMMA LateStep == TypeOK /\ LateInv /\ [Next]_vars => LateInv'
<1> SUFFICES ASSUME TypeOK, LateInv, [Next]_vars PROVE LateInv'
  OBVIOUS
<1>1. moves \in Nat /\ Cardinality(Late) \in Nat
  BY FS_CardinalityType DEF TypeOK, HistoryType, LateInv
<1>2. ASSUME Late' \subseteq Late, moves' = moves PROVE LateInv'
  BY <1>1, <1>2, FS_Subset, FS_CardinalityType DEF LateInv
<1>3. ASSUME NEW w \in Workers, Fetch(w) PROVE LateInv'
  <2>1. \A v \in Workers : v # w => pc'[v] = pc[v] BY <1>3, OthersStay DEF Handle
  <2>2. owner = w /\ UNCHANGED <<owner, moves>> BY <1>3 DEF Fetch, history
  <2>3. Late' \subseteq Late BY <2>1, <2>2 DEF Late
  <2> QED BY <1>2, <2>2, <2>3
<1>4. ASSUME NEW w \in Workers, Rebalance(w) PROVE LateInv'
  <2>1. Late' \subseteq Late \cup {owner} /\ moves' = moves + 1
    BY <1>4 DEF Rebalance, Late
  <2>2. /\ IsFiniteSet(Late \cup {owner})
        /\ Cardinality(Late \cup {owner}) <= Cardinality(Late) + 1
    <3>1. owner \notin Late BY DEF Late
    <3> QED BY <1>1, <3>1, FS_AddElement DEF LateInv
  <2>3. IsFiniteSet(Late') /\ Cardinality(Late') <= Cardinality(Late \cup {owner})
    BY <2>1, <2>2, FS_Subset
  <2>4. Cardinality(Late') \in Nat /\ Cardinality(Late \cup {owner}) \in Nat
    BY <2>2, <2>3, FS_CardinalityType
  <2> QED BY <1>1, <2>1, <2>2, <2>3, <2>4 DEF LateInv
<1>5. ASSUME NEW w \in Workers, Handle(w) \/ Disturb(w), ~Fetch(w), ~Rebalance(w)
      PROVE  LateInv'
  <2>1. UNCHANGED <<owner, moves>>
    BY <1>5 DEF Handle, Disturb, Ack, LoadRefused, LoadForeign, LoadMissing, LoadPlan,
       Announce, Refuse, Lookup, Reject, ApplySucceeds, ApplyFails, Record,
       RecordConflict, Finish, Resolve, Report, Undone, UndoSkip, Undo, RecordUndo,
       Escalate, Cooldown, Fail, Crash, group, history
  <2>2. pc'[w] # "idle" => pc[w] # "idle"
    BY <1>5 DEF Handle, Disturb, Ack, LoadRefused, LoadForeign, LoadMissing, LoadPlan,
       Announce, Refuse, Lookup, Reject, ApplySucceeds, ApplyFails, Record, Results,
       RecordConflict, Finish, Resolve, Report, Undone, UndoSkip, Undo, RecordUndo,
       Escalate, Cooldown, Fail, Crash, Active, Goto, Forget, TypeOK, HandlerType
  <2>3. \A v \in Workers : v # w => pc'[v] = pc[v] BY <1>5, OthersStay
  <2>4. Late' \subseteq Late BY <2>1, <2>2, <2>3 DEF Late
  <2> QED BY <1>2, <2>1, <2>4
<1>6. CASE ReplacePlan \/ UNCHANGED vars
  <2>1. Late' = Late /\ moves' = moves
    BY <1>6 DEF ReplacePlan, vars, group, history, Late
  <2> QED BY <1>2, <2>1
<1> QED BY <1>3, <1>4, <1>5, <1>6 DEF Next

LEMMA InsideStep == RepeatInv /\ [Next]_vars => InsideInv'
<1> SUFFICES ASSUME RepeatInv, [Next]_vars, NEW s \in Steps
             PROVE  Cardinality(Inside(s)') + Written(s)' <= 1 + moves'
  BY DEF InsideInv
<1>0. TypeOK /\ LateInv /\ HandlerType /\ DatabaseType /\ moves \in Nat
  BY DEF RepeatInv, TypeOK, HistoryType
<1>1. /\ IsFiniteSet(Late \cup {owner}) /\ Cardinality(Late \cup {owner}) <= 1 + moves
      /\ IsFiniteSet(Inside(s)) /\ Cardinality(Inside(s)) \in Nat
      /\ Cardinality(Inside(s)) + Written(s) <= 1 + moves
  BY <1>0, InsideFinite DEF RepeatInv, InsideInv
<1>2. Written(s) \in {0, 1} /\ Written(s)' \in {0, 1} BY DEF Written
<1>3. moves' \in Nat /\ moves <= moves'
  <2>1. moves' = moves \/ moves' = moves + 1
    BY DEF Next, Handle, Disturb, Fetch, Ack, LoadRefused, LoadForeign, LoadMissing,
       LoadPlan, Announce, Refuse, Lookup, Reject, ApplySucceeds, ApplyFails, Record,
       RecordConflict, Finish, Resolve, Report, Undone, UndoSkip, Undo, RecordUndo,
       Escalate, Cooldown, Fail, Crash, Rebalance, ReplacePlan, vars, history
  <2> QED BY <1>0, <2>1
<1>4. ASSUME Inside(s)' \subseteq Inside(s), Written(s)' = Written(s)
      PROVE  Cardinality(Inside(s)') + Written(s)' <= 1 + moves'
  <2>1. IsFiniteSet(Inside(s)') /\ Cardinality(Inside(s)') <= Cardinality(Inside(s))
    BY <1>1, <1>4, FS_Subset
  <2>2. Cardinality(Inside(s)') \in Nat BY <2>1, FS_CardinalityType
  <2> QED BY <1>0, <1>1, <1>2, <1>3, <1>4, <2>1, <2>2
<1>5. ASSUME NEW w \in Workers, Lookup(w)
      PROVE  Cardinality(Inside(s)') + Written(s)' <= 1 + moves'
  <2>1. /\ \A v \in Workers : v # w => pc'[v] = pc[v] /\ at'[v] = at[v]
        /\ Written(s)' = Written(s)
    BY <1>0, <1>5, OthersStay DEF Handle, Lookup, db, Written
  <2>2. CASE at[w] = s /\ ledger[s] # "success"
    <3>1. Written(s)' = 0 BY <2>1, <2>2 DEF Written
    <3>2. Inside(s)' \subseteq Late \cup {owner}
      BY <1>5, <2>1 DEF Inside, Late, Lookup
    <3>3. /\ IsFiniteSet(Inside(s)')
          /\ Cardinality(Inside(s)') <= Cardinality(Late \cup {owner})
      BY <1>1, <3>2, FS_Subset
    <3>4. Cardinality(Inside(s)') \in Nat /\ Cardinality(Late \cup {owner}) \in Nat
      BY <1>1, <3>3, FS_CardinalityType
    <3> QED BY <1>0, <1>1, <1>3, <3>1, <3>3, <3>4
  <2>3. CASE ~(at[w] = s /\ ledger[s] # "success")
    <3>1. Inside(s)' \subseteq Inside(s)
      BY <1>0, <1>5, <2>1, <2>3 DEF Inside, Lookup, Goto, HandlerType
    <3> QED BY <1>4, <2>1, <3>1
  <2> QED BY <2>2, <2>3
<1>6. ASSUME NEW w \in Workers, Record(w)
      PROVE  Cardinality(Inside(s)') + Written(s)' <= 1 + moves'
  <2>1. /\ \A v \in Workers : v # w => pc'[v] = pc[v] /\ at'[v] = at[v]
        /\ pc'[w] \notin {"apply", "success"}
    BY <1>0, <1>6, OthersStay DEF Handle, Record, Advance, Results, Goto, HandlerType
  <2>2. Inside(s)' \subseteq Inside(s) \ {w} BY <2>1 DEF Inside
  <2>3. CASE pc[w] = "success" /\ at[w] = s
    <3>1. w \in Inside(s) BY <2>3 DEF Inside
    <3>2. /\ IsFiniteSet(Inside(s) \ {w})
          /\ Cardinality(Inside(s) \ {w}) = Cardinality(Inside(s)) - 1
      BY <1>1, <3>1, FS_RemoveElement
    <3>3. /\ IsFiniteSet(Inside(s)')
          /\ Cardinality(Inside(s)') <= Cardinality(Inside(s) \ {w})
      BY <2>2, <3>2, FS_Subset
    <3>4. Written(s) = 0 BY <1>6, <2>3 DEF Record, Written
    <3>5. Cardinality(Inside(s)') \in Nat /\ Cardinality(Inside(s) \ {w}) \in Nat
      BY <3>2, <3>3, FS_CardinalityType
    <3> QED BY <1>0, <1>1, <1>2, <1>3, <3>2, <3>3, <3>4, <3>5
  <2>4. CASE ~(pc[w] = "success" /\ at[w] = s)
    <3>1. Written(s)' = Written(s)
      BY <1>0, <1>6, <2>4 DEF Record, Results, Written, DatabaseType
    <3> QED BY <1>4, <2>2, <3>1
  <2> QED BY <2>3, <2>4
<1>7. ASSUME NEW w \in Workers, Handle(w) \/ Disturb(w), ~Lookup(w), ~Record(w)
      PROVE  Cardinality(Inside(s)') + Written(s)' <= 1 + moves'
  <2>1. \A v \in Workers : v # w => pc'[v] = pc[v] /\ at'[v] = at[v]
    BY <1>0, <1>7, OthersStay
  <2>2. pc'[w] \in {"apply", "success"} => pc[w] \in {"apply", "success"} /\ at'[w] = at[w]
    BY <1>0, <1>7 DEF HandlerType, Handle, Disturb, Goto, Fetch, Ack, LoadRefused,
       LoadForeign, LoadMissing, LoadPlan, Announce, Refuse, Reject, ApplySucceeds,
       ApplyFails, RecordConflict, Raise, Forget, Finish, Resolve, Report, Undone,
       UndoSkip, Undo, RecordUndo, Escalate, Cooldown, Fail, Crash, Rebalance
  <2>3. Inside(s)' \subseteq Inside(s) BY <2>1, <2>2 DEF Inside
  <2>4. UNCHANGED ledger
    BY <1>7 DEF Handle, Disturb, Fetch, Ack, LoadRefused, LoadForeign, LoadMissing,
       LoadPlan, Announce, Refuse, Reject, ApplySucceeds, ApplyFails, RecordConflict,
       Finish, Resolve, Report, Undone, UndoSkip, Undo, RecordUndo, Escalate, Cooldown,
       Fail, Crash, Rebalance, db
  <2>5. Written(s)' = Written(s) BY <2>4 DEF Written
  <2> QED BY <1>4, <2>3, <2>5
<1>8. CASE ReplacePlan \/ UNCHANGED vars
  <2>1. Inside(s)' = Inside(s) /\ Written(s)' = Written(s)
    BY <1>8 DEF ReplacePlan, vars, db, Inside, Written
  <2> QED BY <1>4, <2>1
<1> QED BY <1>5, <1>6, <1>7, <1>8 DEF Next

LEMMA CountStep == RepeatInv /\ [Next]_vars => CountInv'
<1> SUFFICES ASSUME RepeatInv, [Next]_vars, NEW s \in Steps
             PROVE  applies'[s] = Written(s)' + lost'[s] + Cardinality(Holders(s)')
  BY DEF CountInv
<1>0. TypeOK /\ LateInv /\ HandlerType /\ DatabaseType /\ HistoryType
  BY DEF RepeatInv, TypeOK
<1>1. /\ IsFiniteSet(Holders(s)) /\ Cardinality(Holders(s)) \in Nat
      /\ applies[s] \in Nat /\ lost[s] \in Nat
      /\ applies[s] = Written(s) + lost[s] + Cardinality(Holders(s))
  BY <1>0, InsideFinite DEF RepeatInv, CountInv, HistoryType
<1>2. Written(s) \in {0, 1} /\ Written(s)' \in {0, 1} BY DEF Written
<1>3. ASSUME Holders(s)' = Holders(s), Written(s)' = Written(s),
             applies'[s] = applies[s], lost'[s] = lost[s]
      PROVE  applies'[s] = Written(s)' + lost'[s] + Cardinality(Holders(s)')
  BY <1>1, <1>3
\* A worker that ceases to hold a success has recorded or lost it.
<1>4. ASSUME NEW w \in Workers, w \in Holders(s), Holders(s)' = Holders(s) \ {w},
             applies'[s] = applies[s],
             \/ Written(s)' = Written(s) + 1 /\ lost'[s] = lost[s]
             \/ Written(s)' = Written(s) /\ lost'[s] = lost[s] + 1
      PROVE  applies'[s] = Written(s)' + lost'[s] + Cardinality(Holders(s)')
  <2>1. Cardinality(Holders(s) \ {w}) = Cardinality(Holders(s)) - 1
    BY <1>1, <1>4, FS_RemoveElement
  <2> QED BY <1>1, <1>2, <1>4, <2>1
<1>5. ASSUME NEW w \in Workers, ApplySucceeds(w)
      PROVE  applies'[s] = Written(s)' + lost'[s] + Cardinality(Holders(s)')
  <2>1. /\ \A v \in Workers : v # w => pc'[v] = pc[v] /\ at'[v] = at[v]
        /\ pc'[w] = "success" /\ pc[w] = "apply" /\ at'[w] = at[w]
        /\ Written(s)' = Written(s) /\ lost'[s] = lost[s]
    BY <1>0, <1>5, OthersStay
    DEF Handle, ApplySucceeds, Goto, HandlerType, db, Written
  <2>2. CASE at[w] = s
    <3>1. Holders(s)' = Holders(s) \cup {w} /\ w \notin Holders(s)
      BY <2>1, <2>2 DEF Holders
    <3>2. Cardinality(Holders(s) \cup {w}) = Cardinality(Holders(s)) + 1
      BY <1>1, <3>1, FS_AddElement
    <3>3. applies'[s] = applies[s] + 1
      BY <1>0, <1>5, <2>2 DEF ApplySucceeds, HistoryType
    <3> QED BY <1>1, <1>2, <2>1, <3>1, <3>2, <3>3
  <2>3. CASE at[w] # s
    <3>1. Holders(s)' = Holders(s) BY <2>1, <2>3 DEF Holders
    <3>2. applies'[s] = applies[s] BY <1>0, <1>5, <2>3 DEF ApplySucceeds, HistoryType
    <3> QED BY <1>3, <2>1, <3>1, <3>2
  <2> QED BY <2>2, <2>3
<1>6. ASSUME NEW w \in Workers, Record(w)
      PROVE  applies'[s] = Written(s)' + lost'[s] + Cardinality(Holders(s)')
  <2>1. /\ \A v \in Workers : v # w => pc'[v] = pc[v] /\ at'[v] = at[v]
        /\ pc'[w] # "success"
        /\ applies'[s] = applies[s] /\ lost'[s] = lost[s]
    BY <1>0, <1>6, OthersStay
    DEF Handle, Record, Advance, Results, Goto, HandlerType, history
  <2>2. Holders(s)' = Holders(s) \ {w} BY <2>1 DEF Holders
  <2>3. CASE pc[w] = "success" /\ at[w] = s
    <3>1. w \in Holders(s) BY <2>3 DEF Holders
    <3>2. Written(s) = 0 /\ Written(s)' = 1
      BY <1>0, <1>6, <2>3 DEF Record, Written, DatabaseType
    <3> QED BY <1>4, <2>1, <2>2, <3>1, <3>2
  <2>4. CASE ~(pc[w] = "success" /\ at[w] = s)
    <3>1. Holders(s)' = Holders(s) BY <2>2, <2>4 DEF Holders
    <3>2. Written(s)' = Written(s)
      BY <1>0, <1>6, <2>4 DEF Record, Results, Written, DatabaseType
    <3> QED BY <1>3, <2>1, <3>1, <3>2
  <2> QED BY <2>3, <2>4
<1>7. ASSUME NEW w \in Workers, RecordConflict(w) \/ Fail(w) \/ Crash(w)
      PROVE  applies'[s] = Written(s)' + lost'[s] + Cardinality(Holders(s)')
  <2>1. /\ \A v \in Workers : v # w => pc'[v] = pc[v] /\ at'[v] = at[v]
        /\ pc'[w] # "success"
        /\ Forget(w) /\ UNCHANGED <<ledger, applies>>
    BY <1>0, <1>7, OthersStay
    DEF Handle, Disturb, RecordConflict, Fail, Crash, Raise, Forget, Goto, HandlerType, db
  <2>2. /\ Holders(s)' = Holders(s) \ {w} /\ Written(s)' = Written(s)
        /\ applies'[s] = applies[s]
    BY <2>1 DEF Holders, Written
  <2>3. CASE pc[w] = "success" /\ at[w] = s
    <3>1. w \in Holders(s) BY <2>3 DEF Holders
    <3>2. lost'[s] = lost[s] + 1 BY <1>0, <2>1, <2>3 DEF Forget, HistoryType
    <3> QED BY <1>4, <2>2, <3>1, <3>2
  <2>4. CASE ~(pc[w] = "success" /\ at[w] = s)
    <3>1. Holders(s)' = Holders(s) BY <2>2, <2>4 DEF Holders
    <3>2. lost'[s] = lost[s] BY <1>0, <2>1, <2>4 DEF Forget, HistoryType
    <3> QED BY <1>3, <2>2, <3>1, <3>2
  <2> QED BY <2>3, <2>4
<1>8. ASSUME NEW w \in Workers, Handle(w) \/ Disturb(w),
             ~ApplySucceeds(w), ~Record(w), ~RecordConflict(w), ~Fail(w), ~Crash(w)
      PROVE  applies'[s] = Written(s)' + lost'[s] + Cardinality(Holders(s)')
  <2>1. \A v \in Workers : v # w => pc'[v] = pc[v] /\ at'[v] = at[v]
    BY <1>0, <1>8, OthersStay
  <2>2. /\ pc'[w] = "success" <=> pc[w] = "success"
        /\ pc[w] = "success" => at'[w] = at[w]
    BY <1>0, <1>8 DEF HandlerType, Handle, Disturb, Goto, Fetch, Ack, LoadRefused,
       LoadForeign, LoadMissing, LoadPlan, Announce, Refuse, Lookup, Reject,
       ApplyFails, Finish, Resolve, Report, Undone, UndoSkip, Undo, RecordUndo,
       Escalate, Cooldown, Rebalance
  <2>3. UNCHANGED <<ledger, applies, lost>>
    BY <1>8 DEF Handle, Disturb, Fetch, Ack, LoadRefused, LoadForeign, LoadMissing,
       LoadPlan, Announce, Refuse, Lookup, Reject, ApplyFails, Finish, Resolve, Report,
       Undone, UndoSkip, Undo, RecordUndo, Escalate, Cooldown, Rebalance, db, history
  <2>4. Holders(s)' = Holders(s) BY <2>1, <2>2 DEF Holders
  <2>5. Written(s)' = Written(s) /\ applies'[s] = applies[s] /\ lost'[s] = lost[s]
    BY <2>3 DEF Written
  <2> QED BY <1>3, <2>4, <2>5
<1>9. CASE ReplacePlan \/ UNCHANGED vars
  <2>1. /\ Holders(s)' = Holders(s) /\ Written(s)' = Written(s)
        /\ applies'[s] = applies[s] /\ lost'[s] = lost[s]
    BY <1>9 DEF ReplacePlan, vars, db, history, Holders, Written
  <2> QED BY <1>3, <2>1
<1> QED BY <1>5, <1>6, <1>7, <1>8, <1>9 DEF Next

\* A step is applied once, and once more for each success whose row was not committed
\* and each move of the partition, for any number of workers, deliveries and faults.
THEOREM RepeatsNeedLossOrOverlap == Spec => []RepeatNeedsLossOrOverlap
<1>1. Init => LateInv /\ InsideInv /\ CountInv
  <2> SUFFICES ASSUME Init PROVE LateInv /\ InsideInv /\ CountInv
    OBVIOUS
  <2>1. Late = {} /\ \A s \in Steps : Inside(s) = {} /\ Holders(s) = {}
    BY DEF Init, Late, Inside, Holders
  <2>2. IsFiniteSet({}) /\ Cardinality({}) = 0 BY FS_EmptySet
  <2>3. \A s \in Steps : Written(s) = 0 BY DEF Init, Written
  <2>4. \A s \in Steps : Cardinality(Inside(s)) = 0 /\ Cardinality(Holders(s)) = 0
    BY <2>1, <2>2
  <2>5. LateInv BY <2>1, <2>2 DEF Init, LateInv
  <2>6. InsideInv BY <2>3, <2>4 DEF Init, InsideInv
  <2>7. CountInv BY <2>3, <2>4 DEF Init, CountInv
  <2> QED BY <2>5, <2>6, <2>7
<1>2. RepeatInv /\ [Next]_vars => RepeatInv'
  BY TypeStep, LateStep, InsideStep, CountStep DEF RepeatInv
<1>3. RepeatInv => RepeatNeedsLossOrOverlap
  <2> SUFFICES ASSUME RepeatInv, NEW s \in Steps
               PROVE  applies[s] <= 1 + lost[s] + moves
    BY DEF RepeatNeedsLossOrOverlap
  <2>1. /\ Cardinality(Inside(s)) \in Nat /\ Cardinality(Holders(s)) \in Nat
        /\ Cardinality(Holders(s)) <= Cardinality(Inside(s))
    BY InsideFinite DEF RepeatInv
  <2>2. applies[s] \in Nat /\ lost[s] \in Nat /\ moves \in Nat /\ Written(s) \in {0, 1}
    BY DEF RepeatInv, TypeOK, HistoryType, Written
  <2> QED BY <2>1, <2>2 DEF RepeatInv, InsideInv, CountInv
<1> QED BY <1>1, <1>2, <1>3, InitTypeOK, PTL DEF Spec, RepeatInv

-----------------------------------------------------------------------------
(* The contract of Delivery *)

\* A handler is at a record of the log, and one that is at its commit has ended it.
TakenInv ==
  \A w \in Workers : pc[w] \in Active =>
    /\ position[w] \in Offsets
    /\ pc[w] = "ack" => Ended(position[w])

CommitInv == committed <= position[owner]

LoopInv == GroupInv /\ TakenInv /\ CommitInv

\* How a step of a handler ends its record, and how it goes on in it.
EndingStep(w) ==
  LoadForeign(w) \/ LoadMissing(w) \/ Report(w) \/ Escalate(w) \/ RecordConflict(w)

InnerStep(w) ==
  \/ LoadRefused(w) \/ LoadPlan(w) \/ Announce(w) \/ Refuse(w) \/ Lookup(w) \/ Reject(w)
  \/ ApplySucceeds(w) \/ ApplyFails(w) \/ Record(w) \/ Finish(w) \/ Resolve(w)
  \/ Undone(w) \/ UndoSkip(w) \/ Undo(w) \/ RecordUndo(w)

LEMMA StepKinds ==
  ASSUME NEW w \in Workers, Handle(w) \/ Disturb(w)
  PROVE  \/ Fetch(w) \/ Ack(w) \/ EndingStep(w) \/ InnerStep(w)
         \/ Cooldown(w) \/ Fail(w) \/ Crash(w) \/ Rebalance(w)
BY DEF Handle, Disturb, EndingStep, InnerStep

LEMMA OthersPlace ==
  ASSUME TypeOK, NEW w \in Workers, Handle(w) \/ Disturb(w), NEW v \in Workers, v # w
  PROVE  position'[v] = position[v] /\ pc'[v] = pc[v]
<1>1. position \in [Workers -> 0 .. Len(Log)]
  BY DEF TypeOK, GroupType
<1>2. position'[v] = position[v]
  BY <1>1
  DEF Handle, Disturb, Fetch, Ack, LoadRefused, LoadForeign, LoadMissing, LoadPlan,
      Announce, Refuse, Lookup, Reject, ApplySucceeds, ApplyFails, Record,
      RecordConflict, Finish, Resolve, Report, Undone, UndoSkip, Undo,
      RecordUndo, Escalate, Cooldown, Fail, Crash, Rebalance, group
<1> QED BY <1>2, OthersStay

\* The record was in a handler, which leaves it behind ended.
LEMMA EndingFacts ==
  ASSUME TypeOK, NEW w \in Workers, EndingStep(w)
  PROVE  /\ Handling(w) /\ pc'[w] \in {"ack", "idle"} /\ ~ Handling(w)'
         /\ UNCHANGED group /\ \E x \in Ends : Note(w, x)
<1>1. pc \in [Workers -> Active \cup {"idle"}]
  BY DEF TypeOK, HandlerType
<1>2. Handling(w)
  BY DEF EndingStep, LoadForeign, LoadMissing, Report, Escalate, RecordConflict, Handling,
         Active, Results
<1>3. pc'[w] \in {"ack", "idle"}
  BY <1>1 DEF EndingStep, LoadForeign, LoadMissing, Report, Escalate, RecordConflict,
         Raise, Forget, Goto
<1>4. UNCHANGED group /\ \E x \in Ends : Note(w, x)
  BY DEF EndingStep, LoadForeign, LoadMissing, Report, Escalate, RecordConflict, Raise, Ends
<1> QED BY <1>2, <1>3, <1>4 DEF Handling, Active

\* The handler stays in its record, and no record ends.
LEMMA InnerFacts ==
  ASSUME TypeOK, NEW w \in Workers, InnerStep(w)
  PROVE  /\ Handling(w) /\ Handling(w)'
         /\ UNCHANGED group /\ (UNCHANGED outcome \/ Note(w, "executing"))
<1>1. pc \in [Workers -> Active \cup {"idle"}]
  BY DEF TypeOK, HandlerType
<1>2. Handling(w)
  BY DEF InnerStep, LoadRefused, LoadPlan, Announce, Refuse, Lookup, Reject, ApplySucceeds,
         ApplyFails, Record, Finish, Resolve, Undone, UndoSkip, Undo, RecordUndo, Handling,
         Active, Results
<1>3. pc'[w] \in Active \ {"ack"}
  BY <1>1, <1>2
  DEF InnerStep, LoadRefused, LoadPlan, Announce, Refuse, Lookup, Reject, ApplySucceeds,
      ApplyFails, Record, Advance, Finish, Resolve, Undone, UndoSkip, Undo, RecordUndo,
      Goto, Handling, Active
<1>4. UNCHANGED group /\ (UNCHANGED outcome \/ Note(w, "executing"))
  BY DEF InnerStep, LoadRefused, LoadPlan, Announce, Refuse, Lookup, Reject, ApplySucceeds,
         ApplyFails, Record, Finish, Resolve, Undone, UndoSkip, Undo, RecordUndo
<1> QED BY <1>2, <1>3, <1>4 DEF Handling

\* What a step notes concerns the record its handler is at.
LEMMA NoteEnds ==
  ASSUME TypeOK, NEW w \in Workers, NEW x, Note(w, x)
  PROVE  \A o \in Offsets :
           Ended(o)' <=> Ended(o) \/ (o = position[w] /\ x \in Ends)
<1>1. outcome \in [Offsets -> SUBSET (Ends \cup {"executing"})]
  BY DEF TypeOK, OutsideType
<1> QED BY <1>1 DEF Note, Ended

LEMMA TakenStep == LoopInv /\ [Next]_vars => TakenInv'
<1> SUFFICES ASSUME LoopInv, [Next]_vars, NEW v \in Workers, pc'[v] \in Active
             PROVE  /\ position'[v] \in Offsets
                    /\ pc'[v] = "ack" => Ended(position[v])'
  BY DEF TakenInv
<1>0. /\ TypeOK /\ TakenInv
      /\ position \in [Workers -> 0 .. Len(Log)] /\ pc \in [Workers -> Active \cup {"idle"}]
      /\ committed \in 0 .. Len(Log) /\ Len(Log) \in Nat
  BY ExecutorAssumption DEF LoopInv, GroupInv, TypeOK, GroupType, HandlerType
<1>1. CASE position'[v] = position[v] /\ pc'[v] = pc[v]
  <2>1. position[v] \in Offsets /\ (pc[v] = "ack" => Ended(position[v]))
    BY <1>0, <1>1 DEF TakenInv
  <2>2. PICK o \in Offsets : o = position[v] BY <2>1
  <2>3. Ended(o) => Ended(o)' BY <1>0, EndedKept
  <2> QED BY <1>1, <2>1, <2>2, <2>3 DEF Ended
<1>2. ASSUME Fetch(v) PROVE position'[v] \in Offsets /\ pc'[v] # "ack"
  BY <1>0, <1>2 DEF Fetch, Goto, Offsets
<1>3. ASSUME EndingStep(v) PROVE position'[v] \in Offsets /\ Ended(position[v])'
  <2>1. /\ pc[v] \in Active /\ UNCHANGED group
        /\ \E x \in Ends : Note(v, x)
    BY <1>0, <1>3, EndingFacts DEF Handling
  <2>2. PICK o \in Offsets : o = position[v] BY <1>0, <2>1 DEF TakenInv
  <2>3. Ended(o)' BY <1>0, <2>1, <2>2, NoteEnds
  <2> QED BY <2>1, <2>2, <2>3 DEF group, Ended
<1>4. ASSUME InnerStep(v) PROVE position'[v] \in Offsets /\ pc'[v] # "ack"
  <2>1. Handling(v) /\ Handling(v)' /\ UNCHANGED group
    BY <1>0, <1>4, InnerFacts
  <2> QED BY <1>0, <2>1 DEF TakenInv, group, Handling
<1>5. ASSUME Ack(v) \/ Fail(v) \/ Crash(v) PROVE FALSE
  <2>1. pc'[v] = "idle" BY <1>0, <1>5 DEF Ack, Fail, Raise, Crash, Forget, Goto
  <2> QED BY <2>1 DEF Active
<1>6. ASSUME Rebalance(v) PROVE FALSE
  <2>1. pc'[v] = "idle" BY <1>6 DEF Rebalance
  <2> QED BY <2>1 DEF Active
<1>7. ASSUME NEW w \in Workers, Handle(w) \/ Disturb(w)
      PROVE  /\ position'[v] \in Offsets
             /\ pc'[v] = "ack" => Ended(position[v])'
  <2>1. CASE v # w BY <1>0, <1>1, <1>7, <2>1, OthersPlace
  <2>2. CASE v = w
    <3>1. CASE Cooldown(v) BY <1>1, <3>1 DEF Cooldown, group
    <3> QED
      BY <1>2, <1>3, <1>4, <1>5, <1>6, <1>7, <2>2, <3>1, StepKinds
  <2> QED BY <2>1, <2>2
<1>8. CASE ReplacePlan \/ UNCHANGED vars
  BY <1>1, <1>8 DEF ReplacePlan, vars, group
<1> QED BY <1>7, <1>8 DEF Next

LEMMA CommitInvStep == LoopInv /\ [Next]_vars => CommitInv'
<1> SUFFICES ASSUME LoopInv, [Next]_vars PROVE CommitInv'
  OBVIOUS
<1>0. /\ TypeOK /\ CommitInv /\ owner \in Workers
      /\ position \in [Workers -> 0 .. Len(Log)]
      /\ committed \in 0 .. Len(Log) /\ Len(Log) \in Nat
  BY ExecutorAssumption DEF LoopInv, GroupInv, TypeOK, GroupType
<1>1. CASE UNCHANGED group
  BY <1>0, <1>1 DEF group, CommitInv
<1>2. ASSUME NEW w \in Workers, Fetch(w) PROVE CommitInv'
  <2>1. owner' = owner /\ committed' = committed /\ position'[owner] = position[owner] + 1
    BY <1>0, <1>2 DEF Fetch
  <2>2. position[owner] \in Nat /\ committed \in Nat BY <1>0
  <2> QED BY <1>0, <2>1, <2>2 DEF CommitInv
<1>3. ASSUME NEW w \in Workers, Ack(w) PROVE CommitInv'
  BY <1>0, <1>3 DEF Ack, CommitInv
<1>4. ASSUME NEW w \in Workers, Crash(w) PROVE CommitInv'
  <2>1. /\ owner' = owner /\ committed' = committed
        /\ position'[owner] \in {position[owner], committed}
    BY <1>0, <1>4 DEF Crash
  <2> QED BY <1>0, <2>1 DEF CommitInv
<1>5. ASSUME NEW w \in Workers, Rebalance(w) PROVE CommitInv'
  <2>1. owner' = w /\ committed' = committed /\ position'[w] = committed
    BY <1>0, <1>5 DEF Rebalance
  <2> QED BY <1>0, <2>1 DEF CommitInv
<1>6. ASSUME NEW w \in Workers, EndingStep(w) \/ InnerStep(w) PROVE UNCHANGED group
  BY <1>0, <1>6, EndingFacts, InnerFacts
<1>7. ASSUME NEW w \in Workers, Cooldown(w) \/ Fail(w) PROVE UNCHANGED group
  BY <1>7 DEF Cooldown, Fail
<1>8. CASE ReplacePlan \/ UNCHANGED vars
  BY <1>1, <1>8 DEF ReplacePlan, vars
<1> QED
  <2>1. ASSUME NEW w \in Workers, Handle(w) \/ Disturb(w) PROVE CommitInv'
    BY <1>1, <1>2, <1>3, <1>4, <1>5, <1>6, <1>7, <2>1, StepKinds
  <2> QED BY <1>8, <2>1 DEF Next

LEMMA LoopInvHolds == Spec => []LoopInv
<1>1. Init => LoopInv
  BY InitGroupInv, ExecutorAssumption DEF Init, LoopInv, TakenInv, CommitInv, Active
<1>2. LoopInv /\ [Next]_vars => LoopInv'
  <2> SUFFICES ASSUME LoopInv, [Next]_vars PROVE LoopInv'
    OBVIOUS
  <2>1. GroupInv /\ TypeOK BY DEF LoopInv, GroupInv
  <2>2. TypeOK' BY <2>1, TypeStep
  <2>3. CommittedHandled' /\ OwnerInv' BY <2>1, CommittedStep, OwnerStep
  <2>4. TakenInv' /\ CommitInv' BY TakenStep, CommitInvStep
  <2> QED BY <2>2, <2>3, <2>4 DEF LoopInv, GroupInv
<1> QED BY <1>1, <1>2, PTL DEF Spec

\* The workers as the contract sees them.
Running == [p \in {"actions"} |->
              {o \in Offsets : \E w \in Workers : Handling(w) /\ position[w] = o}]
EndedIn == [p \in {"actions"} |-> {o \in Offsets : Ended(o)}]

LEMMA SameRunning ==
  ASSUME \A w \in Workers : Handling(w)' <=> Handling(w),
         \A w \in Workers : Handling(w) => position'[w] = position[w]
  PROVE  Running' = Running
<1>1. ASSUME NEW o \in Offsets
      PROVE  (\E w \in Workers : Handling(w)' /\ position'[w] = o)
               <=> (\E w \in Workers : Handling(w) /\ position[w] = o)
  OBVIOUS
<1> QED BY <1>1 DEF Running

LEMMA SameEnded ==
  ASSUME \A o \in Offsets : Ended(o)' <=> Ended(o)
  PROVE  EndedIn' = EndedIn
BY DEF EndedIn

\* A step that neither gives nor ends a record nor commits is none of the contract's.
LEMMA Stutter ==
  ASSUME Running' = Running, EndedIn' = EndedIn, committed' = committed
  PROVE  [Contract!Next]_(Contract!vars)
BY DEF Contract!vars, Running, EndedIn

\* A handler gives up its record, which another one may have too.
LEMMA LeaveRecord ==
  ASSUME NEW w \in Workers, NEW o \in Offsets, Handling(w), position[w] = o,
         ~ Handling(w)',
         \A v \in Workers : v # w => (Handling(v)' <=> Handling(v)),
         \A v \in Workers : v # w => position'[v] = position[v]
  PROVE  Running' \in {Running, [Running EXCEPT !["actions"] = @ \ {o}]}
<1>1. CASE \E v \in Workers : v # w /\ Handling(v) /\ position[v] = o
  <2>1. ASSUME NEW k \in Offsets
        PROVE  (\E v \in Workers : Handling(v)' /\ position'[v] = k)
                 <=> (\E v \in Workers : Handling(v) /\ position[v] = k)
    BY <1>1
  <2> QED BY <2>1 DEF Running
<1>2. CASE ~ \E v \in Workers : v # w /\ Handling(v) /\ position[v] = o
  <2>1. ASSUME NEW k \in Offsets
        PROVE  (\E v \in Workers : Handling(v)' /\ position'[v] = k)
                 <=> (\E v \in Workers : Handling(v) /\ position[v] = k) /\ k # o
    BY <1>2
  <2>2. Running'["actions"] = Running["actions"] \ {o}
    BY <2>1 DEF Running
  <2>3. Running' = [Running EXCEPT !["actions"] = @ \ {o}]
    BY <2>2 DEF Running
  <2> QED BY <2>3
<1> QED BY <1>1, <1>2

LEMMA FetchGives ==
  ASSUME LoopInv, NEW w \in Workers, Fetch(w)
  PROVE  [Contract!Next]_(Contract!vars)
<1>0. /\ position \in [Workers -> 0 .. Len(Log)] /\ pc \in [Workers -> Active \cup {"idle"}]
      /\ committed \in 0 .. Len(Log) /\ Len(Log) \in Nat /\ OwnerInv /\ CommitInv
  BY ExecutorAssumption DEF LoopInv, GroupInv, TypeOK, GroupType, HandlerType
<1>1. /\ owner = w /\ position[w] + 1 \in Offsets
      /\ position' = [position EXCEPT ![w] = @ + 1]
      /\ pc' = [pc EXCEPT ![w] = "load"]
      /\ UNCHANGED <<committed, outcome>>
      /\ pc[w] = "idle"
  BY <1>0 DEF Fetch, Goto, Offsets
<1>2. PICK o \in Offsets : o = position[w] + 1
  BY <1>1
<1>3. o \in 1 .. Len(Log) /\ committed < o
  BY <1>0, <1>1, <1>2 DEF CommitInv, Offsets
<1>4. 1 .. o - 1 \subseteq EndedIn["actions"]
  <2>1. o - 1 = position[w] /\ 1 .. position[w] \subseteq Offsets
    BY <1>0, <1>2 DEF Offsets
  <2>2. \A k \in 1 .. position[w] : Ended(k)
    BY <1>0, <1>1 DEF OwnerInv, Active
  <2> QED BY <2>1, <2>2 DEF EndedIn
<1>5. Running' = [Running EXCEPT !["actions"] = @ \cup {o}]
  <2>1. /\ Handling(w)' /\ ~ Handling(w) /\ position'[w] = o
        /\ \A v \in Workers : v # w =>
             (Handling(v)' <=> Handling(v)) /\ position'[v] = position[v]
    BY <1>0, <1>1, <1>2 DEF Handling, Active
  <2>2. ASSUME NEW k \in Offsets
        PROVE  (\E v \in Workers : Handling(v)' /\ position'[v] = k)
                 <=> (\E v \in Workers : Handling(v) /\ position[v] = k) \/ k = o
    BY <2>1
  <2>3. Running'["actions"] = Running["actions"] \cup {o}
    BY <2>2 DEF Running
  <2> QED BY <2>3 DEF Running
<1>6. EndedIn' = EndedIn
  BY <1>1, SameEnded DEF Ended
<1>7. Contract!Give("actions", o)
  BY <1>1, <1>3, <1>4, <1>5, <1>6 DEF Contract!Give, Running, EndedIn
<1> QED BY <1>3, <1>7 DEF Contract!Next

\* A record that its handler leaves behind ended.
LEMMA EndsGive ==
  ASSUME LoopInv, NEW w \in Workers, Handle(w) \/ Disturb(w), Handling(w), ~ Handling(w)',
         UNCHANGED group, NEW x \in Ends, Note(w, x)
  PROVE  [Contract!Next]_(Contract!vars)
<1>0. TypeOK BY DEF LoopInv, GroupInv
<1>1. PICK o \in Offsets : o = position[w] BY DEF LoopInv, TakenInv, Handling
<1>2. \A v \in Workers : v # w => (Handling(v)' <=> Handling(v)) /\ position'[v] = position[v]
  BY <1>0, OthersPlace DEF Handling
<1>3. Running' \in {Running, [Running EXCEPT !["actions"] = @ \ {o}]}
  BY <1>1, <1>2, LeaveRecord
<1>4. \A k \in Offsets : Ended(k)' <=> Ended(k) \/ k = o
  BY <1>0, <1>1, NoteEnds
<1>5. EndedIn' = [EndedIn EXCEPT !["actions"] = @ \cup {o}]
  <2>1. EndedIn'["actions"] = EndedIn["actions"] \cup {o} BY <1>4 DEF EndedIn
  <2> QED BY <2>1 DEF EndedIn
<1>6. o \in Running["actions"] BY <1>1 DEF Running
<1>7. Contract!End("actions", o)
  BY <1>3, <1>5, <1>6 DEF Contract!End, Running, EndedIn, group
<1> QED BY <1>7 DEF Contract!Next, Offsets

\* An exception behind the end of its record changes nothing for the group.
LEMMA FailKeepsContract ==
  ASSUME LoopInv, NEW w \in Workers, Fail(w)
  PROVE  [Contract!Next]_(Contract!vars)
<1>0. TypeOK /\ TakenInv /\ pc \in [Workers -> Active \cup {"idle"}]
  BY DEF LoopInv, GroupInv, TypeOK, HandlerType
<1>1. /\ pc[w] \in Active /\ UNCHANGED group /\ Note(w, "raised")
      /\ pc'[w] = "idle"
  BY <1>0 DEF Fail, Raise, Forget, Goto
<1>2. CASE Handling(w)
  BY <1>1, <1>2, EndsGive DEF Ends, Handling, Disturb, Active
<1>3. CASE ~ Handling(w)
  <2>1. pc[w] = "ack" BY <1>1, <1>3 DEF Handling
  <2>2. PICK o \in Offsets : o = position[w] /\ Ended(o) BY <1>0, <1>1, <2>1 DEF TakenInv
  <2>3. \A k \in Offsets : Ended(k)' <=> Ended(k) BY <1>0, <1>1, <2>2, NoteEnds
  <2>4. \A v \in Workers : v # w => (Handling(v)' <=> Handling(v))
    BY <1>0, OthersPlace DEF Handling, Disturb
  <2>5. ~ Handling(w)' BY <1>1 DEF Handling, Active
  <2>6. Running' = Running BY <1>1, <1>3, <2>4, <2>5, SameRunning DEF group
  <2> QED BY <1>1, <2>3, <2>6, SameEnded, Stutter DEF group
<1> QED BY <1>2, <1>3

LEMMA CrashDies ==
  ASSUME LoopInv, NEW w \in Workers, Crash(w)
  PROVE  [Contract!Next]_(Contract!vars)
<1>0. TypeOK /\ TakenInv /\ pc \in [Workers -> Active \cup {"idle"}]
  BY DEF LoopInv, GroupInv, TypeOK, HandlerType
<1>1. pc'[w] = "idle" /\ UNCHANGED <<committed, outcome>>
  BY <1>0 DEF Crash, Forget, Goto
<1>2. ~ Handling(w)' BY <1>1 DEF Handling, Active
<1>3. \A v \in Workers : v # w => (Handling(v)' <=> Handling(v)) /\ position'[v] = position[v]
  BY <1>0, OthersPlace DEF Handling, Disturb
<1>4. EndedIn' = EndedIn BY <1>1, SameEnded DEF Ended
<1>5. CASE ~ Handling(w)
  <2>1. Running' = Running BY <1>2, <1>3, <1>5, SameRunning
  <2> QED BY <1>1, <1>4, <2>1, Stutter
<1>6. CASE Handling(w)
  <2>1. PICK o \in Offsets : o = position[w] BY <1>0, <1>6 DEF TakenInv, Handling
  <2>2. Running' \in {Running, [Running EXCEPT !["actions"] = @ \ {o}]}
    BY <1>2, <1>3, <1>6, <2>1, LeaveRecord
  <2>3. CASE Running' = Running BY <1>1, <1>4, <2>3, Stutter
  <2>4. CASE Running' = [Running EXCEPT !["actions"] = @ \ {o}]
    <3>1. o \in Running["actions"] BY <1>6, <2>1 DEF Running
    <3>2. Contract!Die("actions", o)
      BY <1>1, <1>4, <2>4, <3>1 DEF Contract!Die, Running, EndedIn
    <3> QED BY <3>2 DEF Contract!Next, Offsets
  <2> QED BY <2>2, <2>3, <2>4
<1> QED BY <1>5, <1>6

\* Only the owner's commit counts, and it covers ended records.
LEMMA AckCommits ==
  ASSUME LoopInv, NEW w \in Workers, Ack(w)
  PROVE  [Contract!Next]_(Contract!vars)
<1>0. /\ TypeOK /\ pc \in [Workers -> Active \cup {"idle"}]
      /\ position \in [Workers -> 0 .. Len(Log)] /\ Len(Log) \in Nat
      /\ committed \in 0 .. Len(Log) /\ OwnerInv /\ CommitInv
  BY ExecutorAssumption DEF LoopInv, GroupInv, TypeOK, GroupType, HandlerType
<1>1. pc[w] = "ack" /\ pc'[w] = "idle" /\ UNCHANGED <<position, outcome>>
  BY <1>0 DEF Ack, Goto
<1>2. \A v \in Workers : Handling(v)' <=> Handling(v)
  <2>1. ~ Handling(w) /\ ~ Handling(w)' BY <1>1 DEF Handling, Active
  <2>2. \A v \in Workers : v # w => (Handling(v)' <=> Handling(v))
    BY <1>0, OthersPlace DEF Handling, Handle
  <2> QED BY <2>1, <2>2
<1>3. Running' = Running BY <1>1, <1>2, SameRunning
<1>4. EndedIn' = EndedIn BY <1>1, SameEnded DEF Ended
<1>5. CASE owner # w
  <2>1. committed' = committed BY <1>5 DEF Ack
  <2> QED BY <1>3, <1>4, <2>1, Stutter
<1>6. CASE owner = w
  <2>1. committed' = position[w] BY <1>6 DEF Ack
  <2>2. \A k \in 1 .. position[w] : Ended(k) BY <1>0, <1>1, <1>6 DEF OwnerInv
  <2>3. committed <= committed' /\ committed' \in 0 .. Len(Log)
    BY <1>0, <1>6, <2>1 DEF CommitInv
  <2>4. 1 .. committed' \subseteq EndedIn["actions"]
    BY <1>0, <2>1, <2>2 DEF EndedIn, Offsets
  <2>5. Contract!Commit
    BY <1>3, <1>4, <2>3, <2>4 DEF Contract!Commit, Running, EndedIn
  <2> QED BY <2>5 DEF Contract!Next
<1> QED BY <1>5, <1>6

LEMMA ContractStep ==
  ASSUME LoopInv, [Next]_vars
  PROVE  [Contract!Next]_(Contract!vars)
<1>0. TypeOK /\ pc \in [Workers -> Active \cup {"idle"}]
  BY DEF LoopInv, GroupInv, TypeOK, HandlerType
<1>1. ASSUME NEW w \in Workers, EndingStep(w) PROVE [Contract!Next]_(Contract!vars)
  BY <1>0, <1>1, EndingFacts, EndsGive DEF EndingStep, Handle
<1>2. ASSUME NEW w \in Workers, InnerStep(w) PROVE [Contract!Next]_(Contract!vars)
  <2>1. /\ Handling(w) /\ Handling(w)' /\ UNCHANGED group
        /\ UNCHANGED outcome \/ Note(w, "executing")
    BY <1>0, <1>2, InnerFacts
  <2>2. \A v \in Workers : v # w => (Handling(v)' <=> Handling(v))
    BY <1>0, <1>2, OthersPlace DEF InnerStep, Handle, Handling
  <2>3. Running' = Running BY <2>1, <2>2, SameRunning DEF group
  <2>4. \A o \in Offsets : Ended(o)' <=> Ended(o)
    BY <1>0, <2>1, NoteEnds DEF Ended, Ends
  <2> QED BY <2>1, <2>3, <2>4, SameEnded, Stutter DEF group
<1>3. ASSUME NEW w \in Workers, Rebalance(w) PROVE [Contract!Next]_(Contract!vars)
  <2>1. /\ pc[w] = "idle" /\ UNCHANGED <<pc, outcome, committed>>
        /\ \A v \in Workers : v # w => position'[v] = position[v]
    BY <1>0, <1>3, OthersPlace DEF Rebalance, Disturb
  <2>2. Running' = Running BY <2>1, SameRunning DEF Handling, Active
  <2> QED BY <2>1, <2>2, SameEnded, Stutter DEF Ended
<1>4. CASE UNCHANGED <<group, pc, outcome>>
  BY <1>4, SameRunning, SameEnded, Stutter DEF group, Handling, Ended
<1>5. ASSUME NEW w \in Workers, Cooldown(w) PROVE UNCHANGED <<group, pc, outcome>>
  BY <1>5 DEF Cooldown
<1>6. CASE ReplacePlan \/ UNCHANGED vars
  BY <1>4, <1>6 DEF ReplacePlan, vars
<1>7. ASSUME NEW w \in Workers, Handle(w) \/ Disturb(w)
      PROVE  [Contract!Next]_(Contract!vars)
  BY <1>1, <1>2, <1>3, <1>4, <1>5, <1>7, StepKinds, FetchGives, AckCommits,
     FailKeepsContract, CrashDies
<1> QED BY <1>6, <1>7 DEF Next

\* The consume loop as the executor's workers run it keeps the contract that the group of
\* KafkaConsumer keeps: what Executor assumes of the bus is no weaker than Delivery.
THEOREM LoopImplementsDelivery == Spec => ImplementsDelivery
<1>1. Init => Contract!Init
  BY ExecutorAssumption
  DEF Init, Contract!Init, Ended, Handling, Active
<1> QED
  BY <1>1, ContractStep, LoopInvHolds, PTL DEF Spec, ImplementsDelivery, Contract!Spec

=============================================================================
