------------------------------ MODULE Approval ------------------------------
(***************************************************************************)
(* The life of the remediation plans of one incident, from the transaction *)
(* in which the orchestrator proposes a plan (orchestrator/worker.py,      *)
(* _persist_and_emit) over the PDP's decision on it (policy_approval/      *)
(* app.py, decide) to the record on actions.requested and its take-up by   *)
(* the executor.                                                           *)
(*                                                                         *)
(* Requests and orchestrator runs are units of work that overlap.  A unit  *)
(* reads without locks; the rows it writes are locked from the flush, which *)
(* SQLAlchemy puts before the unit's next query, up to the commit, and the *)
(* record on Kafka follows the commit.  PostgreSQL is READ COMMITTED: a    *)
(* writer waits for the lock and then writes over what it finds.           *)
(***************************************************************************)
EXTENDS Naturals, FiniteSets

CONSTANTS
  Requests,   \* decision requests clients send
  Runs,       \* orchestrator processes that may hold the incident's OPENED event
  MaxPlans,   \* bound on the plans proposed
  MaxFaults   \* bound on units of work that fail

ASSUME ApprovalAssumption ==
  MaxPlans \in Nat /\ MaxFaults \in Nat /\ Requests \cap Runs = {}

Plans     == 1 .. MaxPlans
Decisions == {"approved", "rejected"}

VARIABLES
  \* the database
  status,     \* per plan: PlanRow.status; "none" before and "deleted" after it
  approvals,  \* ApprovalRows: [by, plan, decision]
  snapshot,   \* WorkflowSnapshotRow.decision, or "none"
  \* decision requests, as the console's proxy passes them on and their answers back
  request,    \* per request: "new", "read", "held", "publish" or how it ended
  decision,   \* per request: the decision it carries
  target,     \* per request: the plan it is about
  \* orchestrator runs
  run,        \* per run: "idle", "begun", "staged" or "replaced"
  outcome,    \* per run: what its workflow came to
  seen,       \* per run: the snapshot row it read
  locks,      \* per run: it wrote the snapshot row and has its lock
  old,        \* per run: the plans it read
  \* Kafka
  published,  \* requests whose APPROVED record is on actions.requested
  faults      \* units of work that failed so far

tables  == <<status, approvals, snapshot>>
pdp     == <<request, decision, target>>
orch    == <<run, outcome, seen, locks, old>>
vars    == <<tables, pdp, orch, published, faults>>

Ended == {"done", "refused", "failed"}

Outcomes == {"proposed", "escalated"}

TypeOK ==
  /\ status \in [Plans -> Decisions \cup {"none", "proposed", "executing", "deleted"}]
  /\ approvals \subseteq [by : Requests, plan : Plans, decision : Decisions]
  /\ snapshot \in Outcomes \cup {"none"}
  /\ request \in [Requests -> {"new", "read", "held", "publish"} \cup Ended]
  /\ decision \in [Requests -> Decisions]
  /\ target \in [Requests -> Plans \cup {0}]
  /\ \A r \in Requests : request[r] \in {"read", "held", "publish"} => target[r] # 0
  /\ run \in [Runs -> {"idle", "begun", "staged", "replaced"}]
  /\ outcome \in [Runs -> Outcomes]
  /\ seen \in [Runs -> Outcomes \cup {"none"}]
  /\ locks \in [Runs -> BOOLEAN]
  /\ \A o \in Runs : locks[o] => run[o] \in {"staged", "replaced"}
  /\ old \in [Runs -> SUBSET Plans]
  /\ published \subseteq Requests
  /\ faults \in 0 .. MaxFaults

Init ==
  /\ status = [p \in Plans |-> "none"]
  /\ approvals = {}
  /\ snapshot = "none"
  /\ request = [r \in Requests |-> "new"]
  /\ decision = [r \in Requests |-> "rejected"]
  /\ target = [r \in Requests |-> 0]
  /\ run = [o \in Runs |-> "idle"]
  /\ outcome = [o \in Runs |-> "escalated"]
  /\ seen = [o \in Runs |-> "none"]
  /\ locks = [o \in Runs |-> FALSE]
  /\ old = [o \in Runs |-> {}]
  /\ published = {}
  /\ faults = 0

-----------------------------------------------------------------------------
(* Rows and locks *)

Present(p) == status[p] \notin {"none", "deleted"}
Live       == {p \in Plans : Present(p)}
Fresh      == {p \in Plans : status[p] = "none"}

\* The units that have written the row of plan p and not ended.
PlanFree(p) ==
  /\ \A r \in Requests : ~(request[r] = "held" /\ target[r] = p)
  /\ \A o \in Runs : ~(run[o] = "replaced" /\ p \in old[o])

SnapshotFree == \A o \in Runs : ~locks[o]

Answer(r, end) == request' = [request EXCEPT ![r] = end]

\* A request ends without having decided anything.
Drop(r, end) ==
  /\ Answer(r, end)
  /\ target' = [target EXCEPT ![r] = 0]
  /\ decision' = [decision EXCEPT ![r] = "rejected"]

\* Mutant: the session is left open.
EndUnclosed(o) ==
  /\ run' = [run EXCEPT ![o] = "idle"]
  /\ old' = [old EXCEPT ![o] = {}]
  /\ outcome' = [outcome EXCEPT ![o] = "escalated"]
  /\ seen' = [seen EXCEPT ![o] = "none"]
  /\ UNCHANGED locks

\* A run's unit of work is over, and its locks and its objects with it.
End(o) ==
  /\ run' = [run EXCEPT ![o] = "idle"]
  /\ old' = [old EXCEPT ![o] = {}]
  /\ locks' = [locks EXCEPT ![o] = FALSE]
  /\ outcome' = [outcome EXCEPT ![o] = "escalated"]
  /\ seen' = [seen EXCEPT ![o] = "none"]

-----------------------------------------------------------------------------
(* decide *)

\* 404 for a plan that is not there, 409 for one already decided.
Refuse(r, p) ==
  /\ request[r] = "new" /\ status[p] \notin {"none", "proposed"}
  /\ target' = [target EXCEPT ![r] = p]
  /\ Answer(r, "refused")
  /\ UNCHANGED <<tables, decision, orch, published, faults>>

\* The plan is read as proposed; the record is built and signed.
Read(r, p) ==
  /\ request[r] = "new" /\ status[p] = "proposed"
  /\ target' = [target EXCEPT ![r] = p]
  /\ \E d \in Decisions : decision' = [decision EXCEPT ![r] = d]
  /\ Answer(r, "read")
  /\ UNCHANGED <<tables, orch, published, faults>>

\* append_audit's query flushes the approval row and the plan's status.
Hold(r) ==
  /\ request[r] = "read" /\ PlanFree(target[r]) /\ Present(target[r])
  /\ Answer(r, "held")
  /\ UNCHANGED <<tables, decision, target, orch, published, faults>>

\* The row is gone: the UPDATE matches nothing and the flush raises.
HoldStale(r) ==
  /\ request[r] = "read" /\ PlanFree(target[r]) /\ ~Present(target[r])
  /\ Drop(r, "failed")
  /\ UNCHANGED <<tables, orch, published, faults>>

\* Mutant: the commit needs the whole table, as after an escalated lock.
DecideTableLock(r) ==
  /\ request[r] = "held" /\ \A o \in Runs : run[o] = "idle"
  /\ status' = [status EXCEPT ![target[r]] = decision[r]]
  /\ approvals' = approvals \cup
                    {[by |-> r, plan |-> target[r], decision |-> decision[r]]}
  /\ Answer(r, IF decision[r] = "approved" THEN "publish" ELSE "done")
  /\ UNCHANGED <<snapshot, decision, target, orch, published, faults>>

\* Approval row, status and audit record are committed.  A rejection ends here.
Decide(r) ==
  /\ request[r] = "held"
  /\ status' = [status EXCEPT ![target[r]] = decision[r]]
  /\ approvals' = approvals \cup
                    {[by |-> r, plan |-> target[r], decision |-> decision[r]]}
  /\ Answer(r, IF decision[r] = "approved" THEN "publish" ELSE "done")
  /\ UNCHANGED <<snapshot, decision, target, orch, published, faults>>

\* Mutant: the record is sent from inside the unit of work.
RequestExecutionEarly(r) ==
  /\ request[r] \in {"held", "publish"} /\ decision[r] = "approved"
  /\ r \notin published
  /\ published' = published \cup {r}
  /\ IF request[r] = "publish" THEN Answer(r, "done") ELSE UNCHANGED request
  /\ UNCHANGED <<tables, decision, target, orch, faults>>

RequestExecution(r) ==
  /\ request[r] = "publish"
  /\ published' = published \cup {r}
  /\ Answer(r, "done")
  /\ UNCHANGED <<tables, decision, target, orch, faults>>

-----------------------------------------------------------------------------
(* _persist_and_emit *)

\* A workflow came to its end and the run reads the incident's snapshot row.
Begin(o) ==
  /\ run[o] = "idle"
  /\ \E end \in Outcomes : outcome' = [outcome EXCEPT ![o] = end]
  /\ seen' = [seen EXCEPT ![o] = snapshot]
  /\ run' = [run EXCEPT ![o] = "begun"]
  /\ UNCHANGED <<tables, pdp, locks, old, published, faults>>

\* Mutant: the snapshot is saved at the end.
StageWithoutSnapshot(o) ==
  /\ run[o] = "begun"
  /\ old' = [old EXCEPT ![o] = Live]
  /\ run' = [run EXCEPT ![o] = "staged"]
  /\ UNCHANGED <<tables, pdp, outcome, seen, locks, published, faults>>

\* The query for the plans of the incident flushes the snapshot row before it
\* runs.  Only a row whose contents did not change is not written, and a run that
\* came to the other outcome did change it.
Stage(o) ==
  /\ run[o] = "begun"
  /\ \/ SnapshotFree /\ (seen[o] = "none" => snapshot = "none")
        /\ locks' = [locks EXCEPT ![o] = TRUE]
     \/ seen[o] = outcome[o] /\ UNCHANGED locks
  /\ old' = [old EXCEPT ![o] = Live]
  /\ run' = [run EXCEPT ![o] = "staged"]
  /\ UNCHANGED <<tables, pdp, outcome, seen, published, faults>>

\* Two first runs insert one primary key: the second one's flush raises.
StageConflict(o) ==
  /\ run[o] = "begun" /\ SnapshotFree
  /\ seen[o] = "none" /\ snapshot # "none"
  /\ End(o)
  /\ UNCHANGED <<tables, pdp, published, faults>>

\* The escalating branch: the plans stay, and the event is ESCALATED.
Escalate(o) ==
  /\ run[o] = "staged" /\ outcome[o] = "escalated"
  /\ snapshot' = IF locks[o] THEN "escalated" ELSE snapshot
  /\ End(o)
  /\ UNCHANGED <<status, approvals, pdp, published, faults>>

\* The proposing branch deletes the steps of the plans it read, then the plans
\* of the incident, and flushes a new one.
Replace(o) ==
  /\ run[o] = "staged" /\ outcome[o] = "proposed" /\ Fresh # {}
  /\ old[o] # {} => Live \subseteq old[o] /\ \A p \in Live : PlanFree(p)
  /\ run' = [run EXCEPT ![o] = "replaced"]
  /\ UNCHANGED <<tables, pdp, outcome, seen, locks, old, published, faults>>

\* A plan committed since the read still has its steps: the foreign key refuses
\* to delete it, and the unit fails.
ReplaceConflict(o) ==
  /\ run[o] = "staged" /\ outcome[o] = "proposed"
  /\ old[o] # {} /\ ~(Live \subseteq old[o]) /\ \A p \in Live : PlanFree(p)
  /\ End(o)
  /\ UNCHANGED <<tables, pdp, published, faults>>

\* The new plan is committed.  PLAN_PROPOSED follows; nothing here reads it.
Propose(o) ==
  /\ run[o] = "replaced"
  /\ \E new \in Fresh :
       /\ \A p \in Fresh : new <= p
       /\ status' = [p \in Plans |-> CASE p = new -> "proposed"
                                       [] p \in old[o] -> "deleted"
                                       [] OTHER -> status[p]]
  /\ snapshot' = IF locks[o] THEN "proposed" ELSE snapshot
  /\ End(o)
  /\ UNCHANGED <<approvals, pdp, published, faults>>

-----------------------------------------------------------------------------
(* The executor, and what goes wrong *)

\* The executor takes the record up, once or again.  It looks at the signature, at the fencing
\* token and at whether the plan is there; the status it overwrites.
Start(r) ==
  /\ r \in published /\ Present(target[r]) /\ PlanFree(target[r])
  /\ status' = [status EXCEPT ![target[r]] = "executing"]
  /\ UNCHANGED <<approvals, snapshot, pdp, orch, published, faults>>

Spend == faults < MaxFaults /\ faults' = faults + 1

\* The database, the broker or the process of the PDP fails, or another appender
\* takes the audit chain's next number.  Nobody comes back to the request.
FailRequest(r) ==
  /\ request[r] \in {"read", "held", "publish"} /\ Spend
  /\ Drop(r, "failed")
  /\ UNCHANGED <<tables, orch, published>>

\* The same in the orchestrator.
FailRun(o) ==
  /\ run[o] # "idle" /\ Spend
  /\ End(o)
  /\ UNCHANGED <<tables, pdp, published>>

Serve(r) ==
  \/ \E p \in Plans : Refuse(r, p) \/ Read(r, p)
  \/ Hold(r) \/ HoldStale(r) \/ Decide(r) \/ RequestExecution(r)

Persist(o) ==
  \/ Stage(o) \/ StageConflict(o) \/ Escalate(o)
  \/ Replace(o) \/ ReplaceConflict(o) \/ Propose(o)

Next ==
  \/ \E r \in Requests : Serve(r) \/ Start(r) \/ FailRequest(r)
  \/ \E o \in Runs : Begin(o) \/ Persist(o) \/ FailRun(o)

\* A unit of work that is under way goes on.  Runs may come forever, and each may
\* find the snapshot row locked; PostgreSQL's lock queue gives each its turn.
Fairness ==
  /\ \A r \in Requests : WF_vars(Serve(r))
  /\ \A o \in Runs : SF_vars(Persist(o))

Spec == Init /\ [][Next]_vars /\ Fairness

-----------------------------------------------------------------------------
(* Safety and progress *)

\* The incident never has two plans, however the runs of redelivered OPENED
\* events overlap: they meet in the snapshot row, or in the foreign key.
AtMostOnePlan == Cardinality(Live) <= 1

\* What an operator and the executor are told is so, whatever other requests, runs
\* and failures come between: a record on actions.requested and an accepted decision
\* have their approval row, an accepted approval is also on actions.requested, and a
\* request is refused only for a plan that was replaced or that somebody else decided.
\* A request that fails says nothing, and the plan may be approved behind it with
\* nobody to ask for its execution.
AnswersTrue ==
  \A r \in Requests :
    /\ r \in published =>
         [by |-> r, plan |-> target[r], decision |-> "approved"] \in approvals
    /\ request[r] = "done" =>
         /\ [by |-> r, plan |-> target[r], decision |-> decision[r]] \in approvals
         /\ decision[r] = "approved" => r \in published
    /\ request[r] = "refused" =>
         \/ ~Present(target[r])
         \/ \E a \in approvals : a.plan = target[r] /\ a.by # r

\* The units of work never wait for each other in a circle: every request and
\* every run ends, unless the bound on plans stops it.
EveryUnitEnds ==
  /\ \A r \in Requests : request[r] = "read" ~> request[r] \in Ended
  /\ \A o \in Runs : run[o] # "idle" ~> (run[o] = "idle" \/ Fresh = {})

-----------------------------------------------------------------------------
(* What the documents say and the code does not do *)

\* FR-5.3 (requirements.md): "execute only approved" plans.
RejectedNeverStarts ==
  [][\A p \in Plans : status[p] = "rejected" => status'[p] # "executing"]_vars

=============================================================================
