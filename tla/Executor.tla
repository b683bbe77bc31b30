------------------------------ MODULE Executor ------------------------------
(***************************************************************************)
(* The Action Executor (PEP), aegis_services/action_executor/worker.py.    *)
(*                                                                         *)
(* Worker processes of one consumer group take APPROVED records from one   *)
(* partition of actions.requested and run the saga of ONE plan: look each  *)
(* step up in the ledger, apply it to the infrastructure, write its ledger *)
(* row, then resolve the incident, or undo the steps this attempt holds as *)
(* applied and escalate.  An action is the code between two awaits that    *)
(* others can interleave with: a database transaction, a call of the       *)
(* runtime, a publish, an offset commit.  Processes crash, handlers raise  *)
(* out of any await, the partition moves to another worker while the old   *)
(* one is still inside its handler, and the orchestrator may replace the   *)
(* plan; MaxFaults bounds how often that happens.                          *)
(***************************************************************************)
EXTENDS Naturals, Sequences, FiniteSets

CONSTANTS
  Workers,     \* executor processes in the consumer group
  N,           \* number of steps of the plan
  Reversible,  \* the steps whose catalog row has a rollback_action
  Log,         \* kinds of the records of the partition, in offset order
  Threshold,   \* failure threshold of the infra circuit breaker
  MaxFaults    \* bound on crashes, raised handlers, rebalances, replaced plans

Steps   == 1 .. N
Offsets == 1 .. Len(Log)

\* "approved": approves this plan, signature and fencing token in order.
\* "unsigned": the same with a signature that does not verify.
\* "stale":    the same with another fencing token than the incident's.
\* "foreign":  an approval of another incident that shares the partition.
Kinds == {"approved", "unsigned", "stale", "foreign"}

ASSUME ExecutorAssumption ==
  /\ Workers # {}
  /\ N \in Nat \ {0}
  /\ Reversible \subseteq Steps
  /\ Log \in Seq(Kinds)
  /\ Threshold \in Nat \ {0}
  /\ MaxFaults \in Nat

VARIABLES
  \* the consumer group
  owner,      \* the worker the partition is assigned to
  position,   \* per worker: offset of the last record it took
  committed,  \* offset the group has committed
  \* the handlers
  pc,         \* per worker: the await its handler is at; "success" and
              \* "failed" are results of runtime.apply not yet recorded
  at,         \* per worker: the ordinal of the step it is at
  failures,   \* per worker: consecutive failures its infra breaker counts
  open,       \* per worker: its infra breaker is OPEN and not cooled down
  \* the database
  plan,       \* PlanRow.status, or "absent" once the row is deleted
  incident,   \* IncidentRow.status, up to resolved or not
  ledger,     \* per step: ActionLedgerRow.result under its idempotency key
  stepRow,    \* per step: PlanStepRow.status
  \* the infrastructure, and what the handlers made of each record
  effect,     \* per step: what the target system carries of it
  outcome,    \* per record: lifecycle events published for it, or its end
  \* history, read by the properties only
  applies,    \* per step: how often runtime.apply succeeded
  lost,       \* per step: how often such a success was not recorded
  attempts,   \* how often an APPROVED record started the plan
  moves,      \* how often the partition moved between live workers
  faults      \* faults so far

db      == <<plan, incident, ledger, stepRow>>
group   == <<owner, position, committed>>
breaker == <<failures, open>>
history == <<applies, lost, attempts, moves, faults>>
vars    == <<group, pc, at, breaker, db, effect, outcome, history>>

Active == {"load", "announce", "step", "apply", "success", "failed", "resolve",
           "report", "undo", "recordUndo", "escalate", "ack"}

Results == {"success", "failed"}

\* "other": what a record of another incident came to.
Ends == {"resolved", "escalated", "dropped", "raised", "other"}

GroupType ==
  /\ owner \in Workers
  /\ position \in [Workers -> 0 .. Len(Log)]
  /\ committed \in 0 .. Len(Log)

HandlerType ==
  /\ pc \in [Workers -> Active \cup {"idle"}]
  /\ at \in [Workers -> 0 .. N + 1]
  /\ \A w \in Workers :
       /\ pc[w] \in {"announce", "step"} => at[w] \in 1 .. N + 1
       /\ pc[w] \in {"apply", "success", "failed", "recordUndo"} => at[w] \in Steps
       /\ pc[w] = "undo" => at[w] \in 0 .. N

BreakerType ==
  /\ failures \in [Workers -> 0 .. Threshold]
  /\ open \in [Workers -> BOOLEAN]

DatabaseType ==
  /\ plan \in {"approved", "rejected", "executing", "executed", "absent"}
  /\ incident \in {"open", "resolved"}
  /\ ledger \in [Steps -> {"none"} \cup Results]
  /\ stepRow \in [Steps -> {"pending", "rolled_back"}]

OutsideType ==
  /\ effect \in [Steps -> {"untouched", "applied", "undone"}]
  /\ outcome \in [Offsets -> SUBSET (Ends \cup {"executing"})]

HistoryType ==
  /\ applies \in [Steps -> Nat]
  /\ lost \in [Steps -> Nat]
  /\ attempts \in Nat
  /\ moves \in Nat
  /\ faults \in 0 .. MaxFaults

\* Every variable has its type, and a worker's step index stays in the range
\* that the await it is at allows.
TypeOK ==
  /\ GroupType
  /\ HandlerType
  /\ BreakerType
  /\ DatabaseType
  /\ OutsideType
  /\ HistoryType

\* The PDP publishes APPROVED after it committed a decision; a second decision
\* on the same plan may have overwritten the status since.
Init ==
  /\ owner \in Workers
  /\ position = [w \in Workers |-> 0]
  /\ committed = 0
  /\ pc = [w \in Workers |-> "idle"]
  /\ at = [w \in Workers |-> 0]
  /\ failures = [w \in Workers |-> 0]
  /\ open = [w \in Workers |-> FALSE]
  /\ plan \in {"approved", "rejected"}
  /\ incident = "open"
  /\ ledger = [s \in Steps |-> "none"]
  /\ stepRow = [s \in Steps |-> "pending"]
  /\ effect = [s \in Steps |-> "untouched"]
  /\ outcome = [o \in Offsets |-> {}]
  /\ applies = [s \in Steps |-> 0]
  /\ lost = [s \in Steps |-> 0]
  /\ attempts = 0
  /\ moves = 0
  /\ faults = 0

-----------------------------------------------------------------------------
(* Steps shared by the handlers *)

Goto(w, label)   == pc' = [pc EXCEPT ![w] = label]
Note(w, what)    == outcome' = [outcome EXCEPT ![position[w]] = @ \cup {what}]
Spend            == faults < MaxFaults /\ faults' = faults + 1

\* The handler is gone with its locals, and with the memory of a success that
\* is not yet in the ledger.
Forget(w) ==
  /\ Goto(w, "idle")
  /\ at' = [at EXCEPT ![w] = 0]
  /\ lost' = IF pc[w] = "success" THEN [lost EXCEPT ![at[w]] = @ + 1] ELSE lost

\* The handler's exception reaches the consume loop, which logs it and goes on
\* to the next record.
Raise(w) ==
  /\ Forget(w)
  /\ Note(w, "raised")

\* CircuitBreaker.record_success (n = 0) and record_failure.  Only the comparison
\* with the threshold is ever made, so the count stops there.
Count(w, n) ==
  /\ failures' = [failures EXCEPT ![w] = IF n < Threshold THEN n ELSE Threshold]
  /\ open' = [open EXCEPT ![w] = n >= Threshold]

-----------------------------------------------------------------------------
(* KafkaBus.consume, as one worker runs it *)

Fetch(w) ==
  /\ pc[w] = "idle" /\ owner = w /\ position[w] < Len(Log)
  /\ position' = [position EXCEPT ![w] = @ + 1]
  /\ Goto(w, "load")
  /\ UNCHANGED <<owner, committed, at, breaker, db, effect, outcome, history>>

\* consumer.commit() commits the position; the broker refuses it from a worker
\* that no longer owns the partition, and the loop logs that as a failure.
Ack(w) ==
  /\ pc[w] = "ack"
  /\ committed' = IF owner = w THEN position[w] ELSE committed
  /\ Goto(w, "idle")
  /\ at' = [at EXCEPT ![w] = 0]
  /\ UNCHANGED <<owner, position, breaker, db, effect, outcome, history>>

-----------------------------------------------------------------------------
(* handle_approved *)

\* Signature or fencing token not in order: ESCALATED, nothing executed.
LoadRefused(w) ==
  /\ pc[w] = "load"
  /\ Log[position[w]] \in {"unsigned", "stale"}
  /\ Log[position[w]] = "stale" => plan # "absent"
  /\ Goto(w, "escalate")
  /\ UNCHANGED <<group, at, breaker, db, effect, outcome, history>>

\* Another incident's plan: of its run only this process's breaker matters here.
\* A run ends at its first failing step, with or without successes before it.
LoadForeign(w) ==
  /\ pc[w] = "load" /\ Log[position[w]] = "foreign"
  /\ Goto(w, "ack")
  /\ \/ UNCHANGED breaker
     \/ ~open[w] /\ \E n \in {0, 1, failures[w] + 1} : Count(w, n)
  /\ Note(w, "other")
  /\ UNCHANGED <<group, at, db, effect, history>>

\* The plan row is gone: the handler returns without a word.
LoadMissing(w) ==
  /\ pc[w] = "load" /\ Log[position[w]] \in {"approved", "stale"}
  /\ plan = "absent"
  /\ Goto(w, "ack")
  /\ Note(w, "dropped")
  /\ UNCHANGED <<group, at, breaker, db, effect, history>>

\* Whatever the status of the plan was, it is "executing" now.
LoadPlan(w) ==
  /\ pc[w] = "load" /\ Log[position[w]] = "approved" /\ plan # "absent"
  /\ plan' = "executing"
  /\ at' = [at EXCEPT ![w] = 1]
  /\ attempts' = attempts + 1
  /\ Goto(w, "announce")
  /\ UNCHANGED <<group, breaker, incident, ledger, stepRow, effect, outcome,
                 applies, lost, moves, faults>>

Announce(w) ==
  /\ pc[w] = "announce"
  /\ Note(w, "executing")
  /\ Goto(w, "step")
  /\ UNCHANGED <<group, at, breaker, db, effect, history>>

\* The catalog has no enabled action for the step, or its schema refuses the
\* parameters.  Catalog rows change between deliveries, so either can come.
Refuse(w) ==
  /\ pc[w] = "step" /\ at[w] <= N
  /\ at' = [at EXCEPT ![w] = @ - 1]
  /\ Goto(w, "undo")
  /\ UNCHANGED <<group, breaker, db, effect, outcome, history>>

\* Mutant: no idempotency guard.
LookupNoGuard(w) ==
  /\ pc[w] = "step" /\ at[w] <= N
  /\ Goto(w, "apply")
  /\ UNCHANGED <<group, at, breaker, db, effect, outcome, history>>

\* _execute_step's ledger guard: a success row under the key skips the step.
Lookup(w) ==
  /\ pc[w] = "step" /\ at[w] <= N
  /\ IF ledger[at[w]] = "success"
     THEN at' = [at EXCEPT ![w] = @ + 1] /\ UNCHANGED pc
     ELSE Goto(w, "apply") /\ UNCHANGED at
  /\ UNCHANGED <<group, breaker, db, effect, outcome, history>>

\* The breaker is OPEN: the step fails without a ledger row.
Reject(w) ==
  /\ pc[w] = "apply" /\ open[w]
  /\ at' = [at EXCEPT ![w] = @ - 1]
  /\ Goto(w, "undo")
  /\ UNCHANGED <<group, breaker, db, effect, outcome, history>>

ApplySucceeds(w) ==
  /\ pc[w] = "apply" /\ ~open[w]
  /\ effect' = [effect EXCEPT ![at[w]] = "applied"]
  /\ applies' = [applies EXCEPT ![at[w]] = @ + 1]
  /\ Count(w, 0)
  /\ Goto(w, "success")
  /\ UNCHANGED <<group, at, db, outcome, lost, attempts, moves, faults>>

\* The runtime turns an exception of the API client into a failed result; the
\* request may have reached the target before it.
ApplyFails(w) ==
  /\ pc[w] = "apply" /\ ~open[w]
  /\ \/ UNCHANGED effect
     \/ effect' = [effect EXCEPT ![at[w]] = "applied"]
  /\ Count(w, failures[w] + 1)
  /\ Goto(w, "failed")
  /\ UNCHANGED <<group, at, db, outcome, history>>

\* After a step's result is recorded: the next step, or the way back.
Advance(w) ==
  IF pc[w] = "success"
  THEN at' = [at EXCEPT ![w] = @ + 1] /\ Goto(w, "step")
  ELSE at' = [at EXCEPT ![w] = @ - 1] /\ Goto(w, "undo")

\* Mutant: a failed step does not end the loop.
RecordContinues(w) ==
  /\ pc[w] \in Results /\ ledger[at[w]] = "none"
  /\ ledger' = [ledger EXCEPT ![at[w]] = pc[w]]
  /\ at' = [at EXCEPT ![w] = @ + 1]
  /\ Goto(w, "step")
  /\ UNCHANGED <<group, breaker, plan, incident, stepRow, effect, outcome,
                 history>>

\* Ledger row and audit record in one transaction.
Record(w) ==
  /\ pc[w] \in Results /\ ledger[at[w]] = "none"
  /\ ledger' = [ledger EXCEPT ![at[w]] = pc[w]]
  /\ Advance(w)
  /\ UNCHANGED <<group, breaker, plan, incident, stepRow, effect, outcome,
                 history>>

\* The key is taken.  The IntegrityError of the flush is swallowed, but it has
\* left the session rolled back, so the commit of session_scope raises.
RecordConflict(w) ==
  /\ pc[w] \in Results /\ ledger[at[w]] # "none"
  /\ Raise(w)
  /\ UNCHANGED <<group, breaker, db, effect, applies, attempts, moves, faults>>

Finish(w) ==
  /\ pc[w] = "step" /\ at[w] = N + 1
  /\ Goto(w, "resolve")
  /\ UNCHANGED <<group, at, breaker, db, effect, outcome, history>>

\* _resolve: plan, incident and audit record in one transaction, then RESOLVED.
Resolve(w) ==
  /\ pc[w] = "resolve"
  /\ plan' = IF plan = "absent" THEN plan ELSE "executed"
  /\ incident' = "resolved"
  /\ Goto(w, "report")
  /\ UNCHANGED <<group, at, breaker, ledger, stepRow, effect, outcome, history>>

Report(w) ==
  /\ pc[w] = "report"
  /\ Note(w, "resolved")
  /\ Goto(w, "ack")
  /\ UNCHANGED <<group, at, breaker, db, effect, history>>

\* Mutant: RESOLVED without regard to the loop's result.
UndoneResolves(w) ==
  /\ pc[w] = "undo" /\ at[w] = 0
  /\ Goto(w, "resolve")
  /\ UNCHANGED <<group, at, breaker, db, effect, outcome, history>>

Undone(w) ==
  /\ pc[w] = "undo" /\ at[w] = 0
  /\ Goto(w, "escalate")
  /\ UNCHANGED <<group, at, breaker, db, effect, outcome, history>>

\* Mutant: the walk does not stop at the first step.
UndoSkipPast(w) ==
  /\ pc[w] = "undo" /\ at[w] \notin Reversible
  /\ at' = [at EXCEPT ![w] = @ - 1]
  /\ UNCHANGED <<group, pc, breaker, db, effect, outcome, history>>

\* _rollback walks the steps this attempt holds as applied, 1 .. at[w], from the
\* last to the first; a step without a rollback action stays as it is.
UndoSkip(w) ==
  /\ pc[w] = "undo" /\ at[w] > 0 /\ at[w] \notin Reversible
  /\ at' = [at EXCEPT ![w] = @ - 1]
  /\ UNCHANGED <<group, pc, breaker, db, effect, outcome, history>>

\* The rollback action may fail, before or after it reached the target; the
\* result is only logged.
Undo(w) ==
  /\ pc[w] = "undo" /\ at[w] \in Reversible
  /\ \/ UNCHANGED effect
     \/ effect' = [effect EXCEPT ![at[w]] = "undone"]
  /\ Goto(w, "recordUndo")
  /\ UNCHANGED <<group, at, breaker, db, outcome, history>>

\* Step row and audit record in one transaction; the ledger row stays.
RecordUndo(w) ==
  /\ pc[w] = "recordUndo"
  /\ stepRow' = IF plan = "absent" THEN stepRow
                ELSE [stepRow EXCEPT ![at[w]] = "rolled_back"]
  /\ at' = [at EXCEPT ![w] = @ - 1]
  /\ Goto(w, "undo")
  /\ UNCHANGED <<group, breaker, plan, incident, ledger, effect, outcome, history>>

\* Mutant: returns without a word.
EscalateSilently(w) ==
  /\ pc[w] = "escalate"
  /\ Goto(w, "ack")
  /\ UNCHANGED <<group, at, breaker, db, effect, outcome, history>>

Escalate(w) ==
  /\ pc[w] = "escalate"
  /\ Note(w, "escalated")
  /\ Goto(w, "ack")
  /\ UNCHANGED <<group, at, breaker, db, effect, history>>

-----------------------------------------------------------------------------
(* Time, faults and the other services *)

\* CircuitBreaker.state: cooldown_seconds are over and calls are let through,
\* with the failure count as it was.
Cooldown(w) ==
  /\ open[w]
  /\ open' = [open EXCEPT ![w] = FALSE]
  /\ UNCHANGED <<group, pc, at, failures, db, effect, outcome, history>>

\* The database or the broker fails the await the handler is at, another
\* appender of the audit chain took the sequence number, ...
Fail(w) ==
  /\ pc[w] \in Active /\ Spend
  /\ Raise(w)
  /\ UNCHANGED <<group, breaker, db, effect, applies, attempts, moves>>

\* The process dies and a new one takes its place in the group, at the
\* committed offset and with a closed breaker.
Crash(w) ==
  /\ Spend
  /\ position' = [position EXCEPT ![w] = committed]
  /\ Forget(w)
  /\ failures' = [failures EXCEPT ![w] = 0]
  /\ open' = [open EXCEPT ![w] = FALSE]
  /\ UNCHANGED <<owner, committed, db, effect, outcome, applies, attempts, moves>>

\* The partition moves to another live worker, which starts at the committed
\* offset.  The old owner does not notice before its next commit.
Rebalance(w) ==
  /\ Spend
  /\ owner # w /\ pc[w] = "idle"
  /\ owner' = w
  /\ position' = [position EXCEPT ![w] = committed]
  /\ moves' = moves + 1
  /\ UNCHANGED <<committed, pc, at, breaker, db, effect, outcome, applies, lost,
                 attempts>>

\* The orchestrator handles OPENED of the incident again: it deletes the plan
\* and its steps, whatever their status, and proposes another.
ReplacePlan ==
  /\ Spend
  /\ plan # "absent"
  /\ plan' = "absent"
  /\ UNCHANGED <<group, pc, at, breaker, incident, ledger, stepRow, effect,
                 outcome, applies, lost, attempts, moves>>

-----------------------------------------------------------------------------

Handle(w) ==
  \/ Fetch(w) \/ Ack(w)
  \/ LoadRefused(w) \/ LoadForeign(w) \/ LoadMissing(w) \/ LoadPlan(w)
  \/ Announce(w) \/ Refuse(w) \/ Lookup(w) \/ Reject(w)
  \/ ApplySucceeds(w) \/ ApplyFails(w) \/ Record(w) \/ RecordConflict(w)
  \/ Finish(w) \/ Resolve(w) \/ Report(w)
  \/ Undone(w) \/ UndoSkip(w) \/ Undo(w) \/ RecordUndo(w) \/ Escalate(w)

Disturb(w) == Cooldown(w) \/ Fail(w) \/ Crash(w) \/ Rebalance(w)

Next ==
  \/ \E w \in Workers : Handle(w) \/ Disturb(w)
  \/ ReplacePlan

\* The event loop of a live process runs its handler: every await returns or
\* raises.  Nothing is assumed of faults or of the clock.
Fairness == \A w \in Workers : WF_vars(Handle(w))

Spec == Init /\ [][Next]_vars /\ Fairness

-----------------------------------------------------------------------------
(* Safety *)

\* An incident is resolved only when every step of the plan has a success row
\* in the ledger, whichever worker applied it, in whichever delivery.
ResolvedBacked ==
  incident = "resolved" => \A s \in Steps : ledger[s] = "success"

\* No step is applied to the infrastructure before every earlier step has its
\* success row: the saga runs in plan order across crashes, redeliveries and
\* overlapping workers.
AppliedInOrder ==
  [][\A s \in Steps : applies'[s] # applies[s] =>
        \A j \in 1 .. s - 1 : ledger[j] = "success"]_vars

\* A ledger row never changes once it is written (its class comment: append-only
\* execution ledger), although workers of two deliveries may race to write it.
LedgerAppendOnly ==
  [][\A s \in Steps : ledger[s] # "none" => ledger'[s] = ledger[s]]_vars

\* The ledger makes the effect of a step once-only up to two windows: a success
\* whose row was not committed, and a second worker let in by a rebalance while
\* the first is inside the step.
RepeatNeedsLossOrOverlap ==
  \A s \in Steps : applies[s] <= 1 + lost[s] + moves

\* The group commits an offset only after some handler ran the record to one of
\* its ends; a crash or a rebalance never makes it skip a record.
CommittedHandled ==
  \A o \in 1 .. committed : outcome[o] \cap Ends # {}

\* The consume loop around the handler keeps the contract of Delivery, as the group of
\* KafkaConsumer does: the records come in order, again only while they are not
\* committed, and no worker commits what has not ended, or back.
Ended(o)    == outcome[o] \cap Ends # {}
Handling(w) == pc[w] \in Active \ {"ack"}

Contract == INSTANCE Delivery WITH
  Partitions <- {"actions"}, Capacity <- Len(Log),
  running <- [p \in {"actions"} |->
                {o \in Offsets : \E w \in Workers : Handling(w) /\ position[w] = o}],
  ended <- [p \in {"actions"} |-> {o \in Offsets : Ended(o)}],
  committed <- [p \in {"actions"} |-> committed]

ImplementsDelivery == Contract!Spec

\* In the first attempt at a plan an undone step excludes RESOLVED: it takes a
\* second delivery for the two to meet.
UndoneResolvedNeedsRedelivery ==
  /\ incident = "resolved"
  /\ \E s \in Steps : effect[s] = "undone"
  => attempts > 1

\* Every approval reaches one of its ends: RESOLVED, ESCALATED, a plan found
\* deleted, or an exception in the consume loop; whatever crashed meanwhile.
ApprovalAnswered ==
  \A o \in Offsets : <>(outcome[o] \cap Ends # {})

=============================================================================
