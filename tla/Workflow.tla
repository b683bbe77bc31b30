------------------------------ MODULE Workflow ------------------------------
(***************************************************************************)
(* The orchestrator's agent workflow, aegis_services/orchestrator/ with    *)
(* the breakers and the budget of aegis_common/reliability.py.             *)
(*                                                                         *)
(* One orchestrator process takes OPENED records from its partition.  For  *)
(* each it loads the incident, lets the agents work on a board of their    *)
(* own (triage, investigation with retrieval, the gate, recommendation),   *)
(* stores a plan or abstains, and publishes the result.  An action is the  *)
(* code up to the next call of a dependency: the language model, the RAG   *)
(* service, the database, the broker.  The two breakers belong to the      *)
(* process and are shared by all its incidents; board and budget belong to *)
(* one run.  Runs that overlap in two processes are in Approval.           *)
(***************************************************************************)
EXTENDS Naturals, Sequences, FiniteSets

CONSTANTS
  Incidents,
  Log,            \* incidents of the OPENED records, in offset order
  MaxIterations,  \* settings.max_diagnose_iterations
  MaxTokens,      \* settings.incident_token_budget
  MaxAnswer,      \* bound on the tokens of one answer of the model
  Threshold,      \* failure threshold of both breakers
  MaxCooldowns,   \* bound on the cooldowns of a breaker that stays unhealthy
  MaxFaults       \* bound on crashes and on failing awaits

ASSUME WorkflowAssumption ==
  /\ Log \in Seq(Incidents)
  /\ MaxIterations \in Nat
  /\ MaxTokens \in Nat
  /\ MaxAnswer \in Nat
  /\ Threshold \in Nat \ {0}
  /\ MaxCooldowns \in Nat
  /\ MaxFaults \in Nat

Dependencies == {"llm", "rag"}
Tiers        == {"low", "high"}
Models       == {"ollama", "offline"}

\* Confidence as the gate sees it: below CONFIDENCE_FLOOR, from there on, and
\* from AUTONOMY_CONFIDENCE on.  An answer without the field counts as 0.
Floor    == 1
Autonomy == 2
Levels   == 0 .. Autonomy

VARIABLES
  \* the consume loop
  position,   \* offset of the last record taken
  committed,  \* offset the group has committed
  model,      \* the process's language model: what get_llm chose at its start
  pc,         \* what the handler calls next
  \* IncidentState and Budget of the run under way
  board,
  iterations, \* Budget._iterations
  tokens,     \* Budget._tokens
  late,       \* the wall-clock budget is used up
  spent,      \* tokens the model billed for this run
  \* the circuit breakers of the process
  failures,   \* per dependency: consecutive failures
  open,       \* per dependency: OPEN and not cooled down
  cooldowns,  \* per dependency: how often it cooled down since the last success
  \* the database and the topic
  plan,       \* per incident: PlanRow and its steps' tiers, or NoPlan
  decision,   \* per incident: WorkflowSnapshotRow.decision, "none" without row
  events,     \* what was published on incidents.lifecycle
  \* history, read by the properties only
  runs,       \* per incident: how often its workflow was started
  dropped,    \* offsets whose handler raised or found no incident
  faults

Run     == <<board, iterations, tokens, late, spent>>
breaker == <<failures, open, cooldowns>>
db      == <<plan, decision>>
loop    == <<position, committed, model>>
history == <<runs, dropped>>
vars    == <<loop, pc, Run, breaker, db, events, history, faults>>

Offsets == 1 .. Len(Log)

\* A dictionary the agents fill in; what is absent reads as its default.
Blank  == [confidence |-> 0, cited |-> FALSE, precedent |-> FALSE, autonomy |-> FALSE,
           escalated |-> FALSE, tiers |-> {}]
Boards == [confidence : Levels, cited : BOOLEAN, precedent : BOOLEAN, autonomy : BOOLEAN,
           escalated : BOOLEAN, tiers : SUBSET Tiers]

Plans  == [id : Nat, confidence : Levels, precedent : BOOLEAN,
           autonomy : BOOLEAN, tiers : SUBSET Tiers]
NoPlan == [id |-> 0, confidence |-> 0, precedent |-> FALSE, autonomy |-> FALSE,
           tiers |-> {}]

Asking == {"triage", "investigate", "recommend"}
Awaits == {"load", "persist", "publish", "ack"}
Calls  == Asking \cup {"retrieve"}
Steps  == Asking \cup Awaits \cup {"retrieve", "gate"}

LoopType ==
  /\ position \in 0 .. Len(Log)
  /\ committed \in 0 .. Len(Log)
  /\ model \in Models
  /\ pc \in Steps \cup {"idle"}
  /\ pc # "idle" => position \in Offsets

RunType ==
  /\ board \in Boards
  /\ iterations \in 0 .. 3
  /\ pc = "triage" => iterations = 0
  /\ pc \in {"retrieve", "investigate"} => iterations = 1
  /\ pc \in {"gate", "recommend"} => iterations = 2
  /\ tokens \in Nat /\ spent \in Nat
  /\ late \in BOOLEAN

BreakerType ==
  /\ failures \in [Dependencies -> Nat]
  /\ open \in [Dependencies -> BOOLEAN]
  /\ cooldowns \in [Dependencies -> 0 .. MaxCooldowns]

DatabaseType ==
  /\ plan \in [Incidents -> Plans]
  /\ decision \in [Incidents -> {"none", "escalate", "plan_ready"}]

HistoryType ==
  /\ events \in SUBSET [offset : Offsets, plan : Nat]
  /\ runs \in [Incidents -> Nat]
  /\ dropped \in SUBSET Offsets
  /\ faults \in 0 .. MaxFaults

\* Every variable has its type, and a run has charged the agents it is behind.
TypeOK == LoopType /\ RunType /\ BreakerType /\ DatabaseType /\ HistoryType

Init ==
  /\ position = 0
  /\ committed = 0
  /\ model \in Models
  /\ pc = "idle"
  /\ board = Blank
  /\ iterations = 0
  /\ tokens = 0
  /\ late = FALSE
  /\ spent = 0
  /\ failures = [d \in Dependencies |-> 0]
  /\ open = [d \in Dependencies |-> FALSE]
  /\ cooldowns = [d \in Dependencies |-> 0]
  /\ plan = [i \in Incidents |-> NoPlan]
  /\ decision = [i \in Incidents |-> "none"]
  /\ events = {}
  /\ runs = [i \in Incidents |-> 0]
  /\ dropped = {}
  /\ faults = 0

-----------------------------------------------------------------------------
(* The policy engine, as the PDP shows a stored plan *)

\* What _policy_mode can find.
Modes == {"observe", "suggest", "auto_low"}

\* evaluate_step
Disposition(mode, tier, catalogRequires, autonomy) ==
  IF mode = "auto_low" /\ tier = "low" /\ ~catalogRequires /\ autonomy
  THEN "auto_approve" ELSE "require_approval"

\* _plan_out passes the plan's requires_approval, which was stored as the negation
\* of its autonomy flag, for the flag of the catalog.
StepOut(mode, p, tier) == Disposition(mode, tier, ~p.autonomy, p.autonomy)

\* plan_requires_human
RequiresHuman(mode, p) ==
  \E t \in p.tiers : StepOut(mode, p, t) # "auto_approve"

-----------------------------------------------------------------------------
(* Breaker and budget *)

Incident == Log[position]

\* Mutant: one budget for all runs of the process.
ResetKeepsBudget ==
  /\ board' = Blank
  /\ UNCHANGED <<iterations, tokens, late>>
  /\ spent' = 0

\* A run's locals are gone, or made anew.
Reset ==
  /\ board' = Blank
  /\ iterations' = 0
  /\ tokens' = 0
  /\ late' = FALSE
  /\ spent' = 0

\* The handler's exception reaches the consume loop, which goes on: nobody comes
\* back to the record.
Raise ==
  /\ pc' = "idle" /\ Reset
  /\ dropped' = dropped \cup {position}

Depends(label) == IF label = "retrieve" THEN "rag" ELSE "llm"

\* The offline model is a function of this process: it neither fails nor answers
\* with anything but JSON of the shape the agents expect.
Remote(label) == label = "retrieve" \/ model = "ollama"

\* record_success
Healthy(d) ==
  /\ ~open[d]
  /\ failures' = [failures EXCEPT ![d] = 0]
  /\ cooldowns' = [cooldowns EXCEPT ![d] = 0]
  /\ UNCHANGED open

\* record_failure.  The count goes on while the breaker is half open.
Failed(d) ==
  /\ ~open[d]
  /\ failures' = [failures EXCEPT ![d] = @ + 1]
  /\ open' = [open EXCEPT ![d] = failures[d] + 1 >= Threshold]
  /\ UNCHANGED cooldowns

\* Mutant: an answer that is not JSON is not charged.
AskUncharged(n) ==
  /\ Healthy("llm")
  /\ iterations' = iterations + 1
  /\ spent' = spent + n
  /\ tokens' \in {tokens, tokens + n}
  /\ UNCHANGED late

\* _ask: an iteration and the answer's tokens are charged, whatever it says.
Ask(n) ==
  /\ Healthy("llm")
  /\ iterations' = iterations + 1
  /\ spent' = spent + n
  /\ tokens' = tokens + n
  /\ UNCHANGED late

Exhausted == iterations >= MaxIterations \/ tokens >= MaxTokens \/ late

-----------------------------------------------------------------------------
(* The consume loop *)

Fetch ==
  /\ pc = "idle" /\ position < Len(Log)
  /\ position' = position + 1
  /\ pc' = "load"
  /\ UNCHANGED <<committed, model, Run, breaker, db, events, history, faults>>

Ack ==
  /\ pc = "ack"
  /\ committed' = position
  /\ pc' = "idle"
  /\ Reset
  /\ UNCHANGED <<position, model, breaker, db, events, history, faults>>

-----------------------------------------------------------------------------
(* handle_opened *)

\* OPENED may be ahead of the commit of its incident, or of a unit of work that
\* failed.  Without the row there is a warning, and the event is done with.
Vanished ==
  /\ pc = "load" /\ runs[Incident] = 0
  /\ pc' = "ack"
  /\ dropped' = dropped \cup {position}
  /\ UNCHANGED <<loop, Run, breaker, db, events, runs, faults>>

\* Board, budget and graph are made anew for every record.
Load ==
  /\ pc = "load"
  /\ Reset
  /\ runs' = [runs EXCEPT ![Incident] = @ + 1]
  /\ pc' = "triage"
  /\ UNCHANGED <<loop, breaker, db, events, dropped, faults>>

\* CircuitBreaker.guard: the call is not made, CircuitOpenError ends the run.
Refused ==
  /\ pc \in Calls /\ open[Depends(pc)]
  /\ Raise
  /\ UNCHANGED <<loop, breaker, db, events, runs, faults>>

\* The dependency fails; the exception ends the run with neither plan nor
\* escalation.
CallFails ==
  /\ pc \in Calls /\ Remote(pc)
  /\ Failed(Depends(pc))
  /\ Raise
  /\ UNCHANGED <<loop, db, events, runs, faults>>

\* The answer arrives, counts as a success, and is of a shape the agent chokes on.
Malformed ==
  /\ pc \in Calls /\ Remote(pc)
  /\ Healthy(Depends(pc))
  /\ Raise
  /\ UNCHANGED <<loop, db, events, runs, faults>>

\* Triage changes title, severity and services only, which nothing here reads.
Triage ==
  /\ pc = "triage"
  /\ \E n \in 0 .. MaxAnswer : Ask(n)
  /\ pc' = "retrieve"
  /\ UNCHANGED <<loop, board, db, events, history, faults>>

\* investigation_agent charges its iteration before it retrieves; the sum is the
\* same at the gate.  The citations are those of the runbooks and the episodes
\* found, and a precedent is one of the episodes.
Retrieve ==
  /\ pc = "retrieve"
  /\ Healthy("rag")
  /\ \E cited, found \in BOOLEAN :
       /\ found => cited
       /\ board' = [board EXCEPT !.cited = cited, !.precedent = found]
  /\ pc' = "investigate"
  /\ UNCHANGED <<loop, iterations, tokens, late, spent, db, events, history, faults>>

\* What confidence the model may answer with.  An answer that is not JSON has 0.
\* The offline model answers 0.82 when it finds something in brackets, which may
\* stand in the incident's title too, and 0.4 otherwise: the floor itself.
Confidence ==
  CASE model = "ollama" -> Levels
    [] board.cited      -> {Autonomy}
    [] OTHER            -> {Floor, Autonomy}

Investigate ==
  /\ pc = "investigate"
  /\ \E n \in 0 .. MaxAnswer : Ask(n)
  /\ \E c \in Confidence : board' = [board EXCEPT !.confidence = c]
  /\ pc' = "gate"
  /\ UNCHANGED <<loop, db, events, history, faults>>

\* gate_node: budget first, then the confidence floor.
GateEscalates ==
  /\ pc = "gate"
  /\ Exhausted \/ board.confidence < Floor
  /\ board' = [board EXCEPT !.escalated = TRUE]
  /\ pc' = "persist"
  /\ UNCHANGED <<loop, iterations, tokens, late, spent, breaker, db, events, history,
                 faults>>

\* Mutant: a precedent or a high confidence is enough.
GatePassesEither ==
  /\ pc = "gate" /\ ~Exhausted /\ board.confidence >= Floor
  /\ board' = [board EXCEPT !.escalated = FALSE,
                 !.autonomy = board.precedent \/ board.confidence >= Autonomy]
  /\ pc' = "recommend"
  /\ UNCHANGED <<loop, iterations, tokens, late, spent, breaker, db, events, history,
                 faults>>

GatePasses ==
  /\ pc = "gate" /\ ~Exhausted /\ board.confidence >= Floor
  /\ board' = [board EXCEPT !.escalated = FALSE,
                 !.autonomy = board.precedent /\ board.confidence >= Autonomy]
  /\ pc' = "recommend"
  /\ UNCHANGED <<loop, iterations, tokens, late, spent, breaker, db, events, history,
                 faults>>

\* The risk tiers of the steps the model may propose: one of three actions of the
\* catalog for the offline model, any number of them, or none, for the other.
Proposals == IF model = "offline" THEN {{t} : t \in Tiers} ELSE SUBSET Tiers

\* recommendation_agent and finalize_node.  The budget is not looked at again.
Recommend ==
  /\ pc = "recommend"
  /\ \E n \in 0 .. MaxAnswer : Ask(n)
  /\ \E ts \in Proposals : board' = [board EXCEPT !.tiers = ts]
  /\ pc' = "persist"
  /\ UNCHANGED <<loop, db, events, history, faults>>

-----------------------------------------------------------------------------
(* _persist_and_emit *)

Decided == IF board.escalated THEN "escalate" ELSE "plan_ready"

\* Mutant: the plan is stored whatever the gate said.
AbstainStores ==
  /\ pc = "persist" /\ (board.escalated \/ board.tiers = {})
  /\ decision' = [decision EXCEPT ![Incident] = Decided]
  /\ plan' = [plan EXCEPT ![Incident] =
                [id |-> @.id + 1, confidence |-> board.confidence,
                 precedent |-> board.precedent, autonomy |-> board.autonomy,
                 tiers |-> board.tiers]]
  /\ pc' = "publish"
  /\ UNCHANGED <<loop, Run, breaker, events, history, faults>>

\* Mutant: an abstention returns before the event is published.
AbstainSilently ==
  /\ pc = "persist" /\ (board.escalated \/ board.tiers = {})
  /\ decision' = [decision EXCEPT ![Incident] = Decided]
  /\ pc' = "ack"
  /\ UNCHANGED <<loop, Run, breaker, plan, events, history, faults>>

\* Escalated, or nothing was recommended: the snapshot is written and a plan of
\* an earlier run stays.
Abstain ==
  /\ pc = "persist" /\ (board.escalated \/ board.tiers = {})
  /\ decision' = [decision EXCEPT ![Incident] = Decided]
  /\ pc' = "publish"
  /\ UNCHANGED <<loop, Run, breaker, plan, events, history, faults>>

Propose ==
  /\ pc = "persist" /\ ~board.escalated /\ board.tiers # {}
  /\ decision' = [decision EXCEPT ![Incident] = Decided]
  /\ plan' = [plan EXCEPT ![Incident] =
                [id |-> @.id + 1, confidence |-> board.confidence,
                 precedent |-> board.precedent, autonomy |-> board.autonomy,
                 tiers |-> board.tiers]]
  /\ pc' = "publish"
  /\ UNCHANGED <<loop, Run, breaker, events, history, faults>>

\* What the event is about: the plan of this run, or none (ESCALATED).
Message ==
  [offset |-> position,
   plan |-> IF board.escalated \/ board.tiers = {} THEN 0 ELSE plan[Incident].id]

Publish ==
  /\ pc = "publish"
  /\ events' = events \cup {Message}
  /\ pc' = "ack"
  /\ UNCHANGED <<loop, Run, breaker, db, history, faults>>

-----------------------------------------------------------------------------
(* Time, faults and the other services *)

\* CircuitBreaker.state: half open, calls are let through.
Cooldown(d) ==
  /\ open[d] /\ cooldowns[d] < MaxCooldowns
  /\ open' = [open EXCEPT ![d] = FALSE]
  /\ cooldowns' = [cooldowns EXCEPT ![d] = @ + 1]
  /\ UNCHANGED <<loop, pc, Run, failures, db, events, history, faults>>

TimePasses ==
  /\ pc \in Steps \ Awaits /\ ~late
  /\ late' = TRUE
  /\ UNCHANGED <<loop, pc, board, iterations, tokens, spent, breaker, db, events,
                 history, faults>>

\* The database or the broker fails an await.
Fail ==
  /\ pc \in Awaits /\ faults < MaxFaults
  /\ faults' = faults + 1
  /\ Raise
  /\ UNCHANGED <<loop, breaker, db, events, runs>>

\* A new process starts at the committed offset with healthy breakers, and probes
\* for its model anew.
Crash ==
  /\ faults < MaxFaults
  /\ faults' = faults + 1
  /\ position' = committed
  /\ model' \in Models
  /\ pc' = "idle" /\ Reset
  /\ failures' = [d \in Dependencies |-> 0]
  /\ open' = [d \in Dependencies |-> FALSE]
  /\ cooldowns' = [d \in Dependencies |-> 0]
  /\ UNCHANGED <<committed, db, events, history>>

Handle ==
  \/ Fetch \/ Ack \/ Vanished \/ Load
  \/ Refused \/ CallFails \/ Malformed
  \/ Triage \/ Retrieve \/ Investigate \/ GateEscalates \/ GatePasses \/ Recommend
  \/ Abstain \/ Propose \/ Publish

Next ==
  \/ Handle
  \/ \E d \in Dependencies : Cooldown(d)
  \/ TimePasses \/ Fail \/ Crash

Spec == Init /\ [][Next]_vars

-----------------------------------------------------------------------------
(* Safety *)

\* What a stored plan was made from, through the board, the snapshot and whatever
\* other runs of the process did meanwhile: the investigation reached the
\* confidence floor, and the policy engine spares a human only plans of low-risk
\* steps that have a precedent and high confidence.
VettedProposals ==
  \A i \in Incidents : plan[i] # NoPlan =>
    /\ plan[i].confidence >= Floor
    /\ \A mode \in Modes :
         \/ RequiresHuman(mode, plan[i])
         \/ /\ mode = "auto_low" /\ plan[i].tiers = {"low"}
            /\ plan[i].precedent /\ plan[i].confidence = Autonomy

\* No plan is announced by a run that had used up its tokens, but for its last
\* answer: the gate looks at the budget once, the recommendation comes after it.
OverrunBounded ==
  pc = "publish" /\ Message.plan # 0 => spent < MaxTokens + MaxAnswer

\* A dependency that is down is called Threshold times, and once more for each
\* cooldown, however many incidents share the breaker.
BreakerLimits ==
  \A d \in Dependencies : failures[d] <= Threshold + cooldowns[d]

\* A plan next to an abstention takes a second run of the incident: a first run
\* leaves one of the two.
StalePlanNeedsRerun ==
  \A i \in Incidents :
    plan[i] # NoPlan /\ decision[i] # "plan_ready" => runs[i] > 1

\* Every plan that is announced was stored.  Every OPENED record the group has
\* committed past was answered by an event of its own, PLAN_PROPOSED or ESCALATED,
\* unless its handler raised (a dependency down, a breaker open, a failing await) or
\* found no incident: what became of a plan when the process died is made up for.
RecordsAccounted ==
  /\ \A e \in events : e.plan <= plan[Log[e.offset]].id
  /\ \A o \in 1 .. committed : o \in dropped \/ \E e \in events : e.offset = o

-----------------------------------------------------------------------------
(* What the documents say and the code does not do *)

\* FR-4.2 (requirements.md), OPERATIONS.md and test_agents_pipeline.py: without
\* grounding there is no proposal, the incident is escalated.
UngroundedEscalates ==
  pc \in {"recommend", "persist", "publish"} /\ ~board.cited => board.escalated

=============================================================================
