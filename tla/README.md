# Aegis: models and proofs

TLA+ models of the protocols of Aegis, an incident-response pipeline of Python
services that talk over Kafka and share one PostgreSQL database. The models are
translated from the Python sources; paths below are relative to the repository
(`src/...`). TLC checks them on small instances; TLAPS proves the theorems listed
below for every value of the constants.

```
tlc -workers 4 -config Executor.cfg MCExecutor          # a run
tlapm ExecutorProofs.tla                                # a proof
```

`PROJECT.json` lists the runs, a mutant of the code for every property of a
passing run, the source lines of every definition, the hazards and the findings.

## The system

```
 clients -> ingestion gateway --signals.raw--> detection & correlation
                                                  | OPENED / UPDATED
                                                  v
                    orchestrator (triage, investigate, gate, recommend)
                                                  | PLAN_PROPOSED / ESCALATED
                                                  v
              operators --HTTP--> policy/approval service (PDP)
                                                  | APPROVED (actions.requested)
                                                  v
                                   action executor (PEP) --> infrastructure
                                                  | EXECUTING / RESOLVED / ESCALATED
                                                  v
                 knowledge ingestor, notification worker, console
```

| Component | State | Operations | Hard part | What makes it correct |
|---|---|---|---|---|
| Action executor (`action_executor/`) | plan, step and ledger rows, breaker of the process, position in the partition | `handle_approved`, `_execute_step`, `_rollback`, `_resolve`, `_escalate` | crash or exception between apply and ledger row, redelivery, two workers in one plan, rollback against the ledger | steps in order and once where the ledger saw them, RESOLVED only with every step recorded, every approval answered |
| Kafka bus (`aegis_common/kafka.py`) | positions, committed offsets, stop event | `consume`, `publish` | handler failures, commit of all partitions, rebalance during a handler, shutdown | at-least-once, order within a partition, offsets never go back |
| Audit chain (`aegis_common/audit.py`, `db.py`) | `audit_log` table, the caller's unit of work | `append_audit`, `verify_chain`, `session_scope` | every service appends at once, a collision fails the whole unit of work | the chain verifies, no gap, nothing overwritten, progress |
| PDP (`policy_approval/app.py`) | plan status, approval rows | `decide`, reads | overlapping decisions, publish behind the commit | what operators and executor are told is so; one plan at a time |
| Policy engine (`policy_approval/policy.py`) | none | `evaluate_step`, `plan_requires_human` | what the autonomy flag was made from | spares a human only low-risk plans with precedent |
| Orchestrator (`orchestrator/worker.py`) | snapshot row, plans, incident | `handle_opened`, `_persist_and_emit` | redelivered events running the workflow twice, plan replaced while it is decided | one plan at a time |
| Agent workflow (`orchestrator/graph.py`, `agents.py`, `state.py`, `llm.py`) | `IncidentState`, `Budget`, the two breakers and the model of the process | triage -> investigate -> gate -> {recommend -> finalize, end}; no loop | budget looked at once, breakers shared by incidents, an exception that ends the run with nothing, a model that changes with the process | a stored plan is vetted, its cost is bounded, every record is accounted for |
| Detection (`detection/`) | incident and signal rows, fencing sequence | `handle_signal`, `normalize`, `correlate`, `related` | replicas on one incident, duplicates, a resolution on the way to the row, publish before commit | incidents cover their signals, topic and tables agree, splits and reopenings only by a race |
| Ingestion gateway (`ingestion_gateway/app.py`) | dedup keys in Redis | `ingest_signals`, `ingest_alertmanager`, `_ingest`, `dedup_seen` | key set before the publish, overlapping batches, retries | one record per window, no signal lost unaccounted |
| Reliability (`aegis_common/reliability.py`) | `CircuitBreaker`, `Budget` | `guard`, `record_success`, `record_failure`, `charge_*`, `exhausted` | shared between incidents, half open | threshold, cooldown, limits |
| Knowledge ingestor (`knowledge_ingestor/`, `chunking.py`, `vectorstore.py`, `embeddings.py`) | the vector store's collections, the embedder of the process | `_startup`, `ensure_collections`, `ingest_runbook`, `_window`, `upsert`, `ingest_resolved_incident` | two services that create the collections at once, each with the embedder it finds; overlap arithmetic; versions of different length; what RESOLVED carries | collections take the services' vectors; the written version is covered; episodes are found again |
| RAG service (`rag_service/`) | its embedder | `lifespan`, `retrieve`, `precedent_gate` | the other embedder wrote the vectors | it ranks vectors of its own making |
| Console API (`console_api/app.py`) | the set of WebSocket clients under an `asyncio.Lock` | `_live_consumer`, `broadcast`, `register`, `unregister`, `ws_incidents`; a proxy to the PDP | a slow client is awaited with the lock held; clients come and go meanwhile; its group commits on a timer and is joined again; the consumer task can end alone | registered clients get what is broadcast, in order; events repeat or are skipped only by a rejoin; nobody waits for ever |
| Notification worker | none | pages | - | - |

Interactions are Kafka records (at-least-once, one partition per incident), rows
of shared tables, and the audit chain that every unit of work appends to.

## Modules

| Module | Models | Actions and code |
|---|---|---|
| `Executor` | `action_executor/worker.py` with the breaker and the consume loop around it | one action between two awaits: `LoadPlan`, `Announce`, `Lookup` / `ApplySucceeds` / `ApplyFails` / `Record` / `RecordConflict` (`_execute_step`), `Undo` / `RecordUndo` (`_rollback`), `Resolve` / `Report`, `Escalate`; `Fail`, `Crash`, `Rebalance`, `ReplacePlan` come from outside |
| `Delivery` | the promise of the consume loop to the handlers of a group | `Give`, `End`, `Die`, `Commit` |
| `KafkaConsumer` | `KafkaBus.consume` for a group of members and several partitions | `Take`, `HandlerReturns`, `HandlerRaises`, `Commit`, `CommitRaises`, `EndOfBody` (the stop event) ; `Assign` is the broker |
| `AuditLog` | the promise of the audit chain: a log that grows at its end | `Record` |
| `AuditChain` | `append_audit` in units of work that overlap | `Build` (the read and the row), `Insert` (the flush), `Refuse` (IntegrityError), `Commit`, `Rollback` |
| `Approval` | `decide` and `_persist_and_emit` on one incident, the client behind the console's proxy, and the executor's take-up | `Read`, `Refuse`, `Hold`, `Decide`, `RequestExecution`; `Begin`, `Stage`, `Replace`, `Propose`, `Escalate`; `Start` |
| `Detection` | `handle_signal` with replicas, up to the orchestrator | `ChooseAttach` and `ChooseOpen` (`correlate`), `Attach` (FOR UPDATE), `Write` (the flush in `append_audit`), `Publish`, `Commit`; `Age` is the clock; `Orchestrate`, `Resolve` |
| `Workflow` | `handle_opened` with the agents' graph, the gate, the budget, both breakers, the model `get_llm` chose, `_persist_and_emit`, and the policy engine on what is stored | code up to the next call of a dependency: `Load`, `Triage`, `Retrieve`, `Investigate`, `GateEscalates` / `GatePasses`, `Recommend`, `Abstain` / `Propose`, `Publish`, `Ack`; `Vanished`, `Refused`, `CallFails`, `Malformed` end a run; `Cooldown` and `TimePasses` are the clock |
| `Ingestion` | `_ingest` in requests that overlap; a request goes from one firing alert of its batch to the next (`Signals`, `Advance`) | `Mark` / `Duplicate` (`dedup_seen`), `Publish`, `Answer`; `FailCheck`, `FailPublish`; `Retry` is the client, `Expire` is Redis |
| `Knowledge` | the startup of ingestor and RAG service, `ingest_runbook` with the chunking loop pass by pass, and the closed loop from RESOLVED to retrieval | `Start` (`get_embedder`), `Exists` / `Missing` / `Create` / `Conflict` (`ensure_collections`), `Die`; `Post`, `Window`, `Upsert`, `Fail`; `Resolve`, `Embed`, `EmbedFails`; `HasPrecedent` is the precedent gate |
| `Console` | the live consumer with its place in its own group, the `Broadcaster` and the WebSocket handlers of one console | `PublishEvent`, `Take`, `BeginSends`, `SendOk` / `SendFails` (`broadcast`); `Connect` / `Add` (`register`), `Disconnected` / `Discard` (`unregister`), `HandlerRaises`; `Start`, `ConsumerFails`, `Restart` are the process, `GoBack` and `GoToLatest` (`enable_auto_commit`, `auto_offset_reset`) its group joined again, `PeerLeaves` the client |
| `MC...` | instances for TLC: logs of records, the hash, the topology | |
| `...Proofs` | theorems about the module of that name; `EdgeProofs` about `Ingestion` and `Console`, the two ends of the pipeline | |

The operators whose comment begins with `Mutant:` are wrong versions of the
operator defined after them. No specification uses them; they are what the
properties are tested against.

Conventions. A worker is a process, an action is what it does without awaiting.
A database transaction is atomic at its commit; what it read before and the locks
it holds until then are modelled where others can interfere. PostgreSQL runs READ
COMMITTED (`db.py` sets nothing else): a plain read takes no lock, a second writer
of a row waits, a second insert of a key waits and fails. A plan, a signal, a
record is a model value; ids, texts, signatures and hashes are what the guards
tell apart (a signature verifies or does not, a fencing token is the incident's
or is not).

`Approval` and `Workflow` both contain `_persist_and_emit`: `Approval` has it
statement by statement, with locks and overlapping runs, and leaves open what the
agents decided; `Workflow` has one process and says what was decided and why.

Three facts of the code shape the models and are easy to overlook:

- `append_audit` runs a SELECT, and SQLAlchemy flushes the session before it: the
  rows of a unit of work are written, locked and checked for duplicate keys in
  the middle of the unit. That is why a duplicate signal raises out of
  `append_audit`, behind the `except IntegrityError` meant for it
  (`Detection!WriteDuplicate`), and why two orchestrator runs that both change the
  incident's snapshot row wait for each other before they delete plans
  (`Approval!Stage`).
- An `IntegrityError` that is caught inside a `session_scope` still leaves the
  session rolled back, so the commit raises (`Executor!RecordConflict`).
- `consume` commits positions, not records (`KafkaConsumer!Commit`).

## Runs

| Run | Instance | Shows |
|---|---|---|
| `Executor` | 2 workers, 3 steps (1 and 3 reversible), a foreign, an approved and a stale record, threshold 2, 2 faults | the ledger backs RESOLVED, an effect repeats only through a lost success or a rebalance (`RepeatNeedsLossOrOverlap`), a resolved incident with an undone step takes a second delivery, steps run in order, every record ends, an approval of this plan in RESOLVED, ESCALATED, a deleted plan or a logged exception (`ApprovalAnswered`) |
| `Kafka` | 2 members (one may stop), 2 partitions of 2 records, 1 failure, 1 crash or rebalance | no record skipped, redelivery only after a reset of positions, the group implements `Delivery`, every record ends, a busy member stops when it is asked to |
| `AuditChain` | 3 writers, 2 payloads, 3 rows, 2 rollbacks | the chain verifies, grows, and implements `AuditLog` |
| `Approval` | 2 decisions, 2 overlapping runs, 2 plans, 1 failure | one plan at a time; accepted and refused decisions and records for execution are backed by the tables (`AnswersTrue`); no circular wait |
| `Approval_rejected` | 2 decisions, 1 run | finding 1 |
| `Detection` | 2 replicas, 3 signals on 3 services of which one is common, one an alert of unknown severity, 2 tokens, 2 faults | incidents cover their signals; two incidents for one fault (`SplitNeedsRace`) and a reopened one (`ReopenNeedsRace`) take the race they are known for; topic and tables tell the same but for open and failed units |
| `Workflow` | 3 OPENED records of 2 incidents, one of them twice, either model, 2 tokens of budget, answers of 0 or 1, threshold 1, 1 cooldown, 1 crash or failing await | stored plans are vetted through board, snapshot and policy engine; an announced plan cost less than the budget and one answer; a plan next to an abstention takes a second run; every record committed past is answered by an event or its handler raised or found no incident (`RecordsAccounted`) |
| `Workflow_ungrounded` | the same log, no fault | finding 2 |
| `Ingestion` | 2 batches of 3 alerts and 2 fingerprints, 2 retries, 1 expiry, 2 faults | a fingerprint is on the topic once a window; an answered signal is on the topic, under way, or lost behind a mark |
| `Knowledge` | 2 posts of any of 4 versions, windows of 3 with an overlap of 1, 1 incident, 3 starts of the two services with any embedders | every character of the version written last is retrievable, leftovers stand behind it; a service that serves has its collections, of its own dimension unless the starts differed |
| `Knowledge_loop` | 1 post, 1 incident | finding 3 |
| `Console` | 2 connections, 3 events, 1 death, end of the consumer task or rejoin | a registered client was sent what was broadcast since it joined (`SentAsShown`), and that is the topic in order but for a jump at each rejoin (`ShownInOrder`; `InStep` is both); it will be sent every event not skipped while its peer stays and the consumer task runs; no handler waits for the lock for ever |

Bounds. The interesting collisions need two actors and one more step than the
first mistake, so two workers, members, requests or runs, two or three steps and
two records are where they happen; three writers of the audit chain let one be
refused while two race. `MaxFaults`, `MaxFailures`, `MaxResets` and `MaxRollbacks`
bound crashes, exceptions and rebalances (one to provoke the situation, one more
in the answer to it where the state space allows), `MaxPlans`, `MaxTokens`,
`MaxStarts`, `MaxEvents`, `MaxBreaks`, `MaxRows`, `Capacity`, `MaxCooldowns`,
`MaxRetries`, `MaxExpiries` and the length of `Log` bound what would grow
for ever (in `Workflow` `MaxTokens` is the code's budget, and `MaxAnswer` the bound). The executor's records are one of each kind
that the handler tells apart (a record that does not verify is refused by the same
action as a stale one, and the failing plan of another incident counts on the
breaker). In `Workflow` an incident that is opened twice and another
between them is the shortest log in which a run finds a plan of its own and the
breaker's count of another's. In `Ingestion` a batch holds its own duplicate, and
the batches have both fingerprints in common in different order. In `Knowledge`
the sections are shorter than a window, as long, a bit longer, and several times
as long, and the versions differ in length both ways; three starts are both
services and one of them again with another embedder. In `Console` two clients
are the one that is slow or fails and the one that waits behind it, and three events
are the fewest with one shown, one that a rejoin goes past and one behind it;
`MaxBreaks` counts deaths, ended tasks and rejoins together, because two of them say
little that one does not (`InStep` was also checked with two).
Deadlock is not checked: every instance stops when its records,
requests or bounds are used up.

Fairness. Weak fairness of a process's own steps: an event loop resumes a
coroutine whose await is over, and every await of the database, the broker or
the cluster client returns or raises. `Approval` has strong fairness of an
orchestrator run, because the snapshot row it waits for is locked and released
by other runs over and over; PostgreSQL queues the waiters of a row lock.
In `Console` the lock goes to its next task, which `asyncio.Lock` does first in, first
out, and a send ends because uvicorn's keepalive pings close the connection of a peer
that does not answer. In `KafkaConsumer` a
stop is not withdrawn, but a crash makes a new process of the member. No
fault, no client request, no clock and no cooldown is assumed to happen, and none
is assumed to stop except by the named bounds. `Detection`, `Workflow`, `Ingestion` and
`Knowledge` state safety only: their progress depends on a model, a client or an
operator that need not come back.

## Findings

1. `RejectedNeverStarts` (`policy_approval/app.py:131`). Two overlapping decisions
   both commit; the executor does not look at the status and starts a plan that
   ended rejected. `AnswersTrue` is what does hold: each of the two clients was
   told of a decision that has its row.
2. `UngroundedEscalates` (`orchestrator/graph.py:45`). Without citations the offline
   model answers with confidence 0.4, the gate escalates below 0.4, and the
   incident gets a plan; `tests/test_agents_pipeline.py:51` expects an escalation.
   With a real model nothing but its own confidence stands for grounding
   (`AUDIT.md` says a groundedness check is missing). `VettedProposals` is what
   does hold.
3. `LearnedPrecedent` (`knowledge_ingestor/service.py:83`). RESOLVED has no
   services, so an episode is stored under `unknown` and never found by a
   retrieval that filters by service, which every investigation does when triage
   leaves a service.

What follows needs no run of its own, because a passing property says exactly how
far the code goes:

- A rollback leaves the ledger row of the step it undoes `success`
  (`action_executor/worker.py:174`); when the approval is delivered again the
  ledger guard skips the undone step and RESOLVED is published. That it takes a
  second delivery is `UndoneResolvedNeedsRedelivery`.
- The fingerprint of a signal is marked before the publish and never taken back
  (`ingestion_gateway/app.py:65`); when the publish fails, the retried signal is
  answered as a duplicate and lost. `AcknowledgedAccounted` names this case as the
  one exception.
- `vectorstore.py` and `embeddings.py` say that the collections are created to match
  the embedder's dimension. They match the embedder of whoever created them;
  a service that starts with another one serves and fails every call, and FastEmbed
  and the hashing fallback, of equal size, are ranked against each other unseen.
  `CollectionsFit` says so.
- A first plan stays proposed when a second run of its incident abstains
  (`StalePlanNeedsRerun`), and a redelivered OPENED proposes a plan for an incident
  that is resolved: the handler never looks at the status.
- `decide` says "On rejection, escalate back"; a rejection publishes nothing.
- The console shows an event again, or never, when its group is joined again
  (`console_api/app.py:78-79`): it goes on at what the timer committed, or at the
  newest record when nothing was committed yet. `InStep` says that nothing else does.
- When the console's consumer raises (`console_api/app.py:82`, or 84 in the middle of
  the stream), its task ends and nobody awaits it: the API serves on, clients stay
  registered, and no event comes any more. `EventsReachClients` holds while it runs.

Seen while modelling and known to the repository (`AUDIT.md`): a record whose
handler raised is committed past by the next record's commit (`kafka.py:109`;
`NoRecordSkipped` and `RedeliveryNeedsReset` are what does hold); OPENED is published
before its incident is committed (`detection/worker.py:144`; `EventsMatchRows`). The
outbox of ADR-012 is missing: a decision whose process dies before the publish is
approved and never executed (`policy_approval/app.py:160`), which `AnswersTrue` leaves
open. The
stop event is looked at behind a record only (`kafka.py:112`; `BusyStops`). While a
dependency is down an OPENED record ends in an exception, and nobody is told
(`RecordsAccounted`).

## Proofs

The theorems hold for every value of the constants that the modules' named
assumptions admit (`ExecutorAssumption`, `ConsumerAssumption`, `ChainAssumption`,
`WorkflowAssumption`, `ApprovalAssumption`, `DetectionAssumption`,
`IngestionAssumption`, `KnowledgeAssumption`, `ConsoleAssumption`: bounds are naturals,
logs, batches and texts consist of known kinds, at least one process, at least one member that is not
asked to stop, the windows' overlap is smaller than a window). Sets of processes,
requests and records need not be finite. TLC evaluates the assumptions in every run,
and every invariant below was checked by TLC on the instance of its run before it was
proved.

Each proof has the same shape: the invariant is a conjunction of named parts, one
lemma says what each action does to one part, and the theorem puts them together. A
`TypeCorrect` is a theorem of its own because the rest rests on it; its invariant is
`TypeOK` with the ranges that TLC need not be told (`Types` in `KnowledgeProofs`).

`ExecutorProofs`

- `TypeCorrect`: `TypeOK` is inductive as it stands, because `HandlerType` ties a
  worker's step index to the await it is at; without that the range of the index
  is lost at `Record`.
- `LedgerIsAppendOnly`: every action but `Record` leaves the ledger alone, and
  `Record` writes only where there is no row.
- `ResolvedIsBacked`, `StepsRunInOrder`: the strengthening is `BehindDone(w)`, all
  steps behind the one a worker is at have success rows (all of them when it is
  about to resolve). It survives other workers because success rows are final.
- `CommitsAreHandled`: the strengthening is `OwnerInv`, every record up to the
  position of the partition's owner has ended but the one in its handler. A
  worker that lost the partition cannot commit, so only the owner matters.
- `LoopImplementsDelivery`: the consume loop that `Executor` embeds keeps the contract
  `KafkaConsumer` keeps. `TakenInv` says that a busy handler is at a record of the log and
  one at its commit has ended it, `CommitInv` that the committed offset is not past the
  owner's position. Then a `Fetch` is a `Give` (by `OwnerInv` all before it ended), a
  step that notes an end is an `End`, a crash in a handler a `Die`, an `Ack` of the
  owner a `Commit`, and every other step a stutter. After a rebalance two workers can be
  at one record, which is why an `End` may leave it running, and the crash of one of
  the two is a stutter.
- `UndoneResolvedTakesTwo`: in the first attempt at a plan a step is undone only by a
  handler in its rollback, which goes on to escalate and never to resolve
  (`FirstInv`); whoever else handles the record counts as an attempt.
- `RepeatsNeedLossOrOverlap`: a conservation law, `CountInv`. What was applied to a step
  is its success row, the successes whose row was lost, and the handlers that hold an
  unrecorded success. The holders are counted by `InsideInv` and `LateInv`: of the
  handlers inside the record one is the owner's, and each other was made late by a
  move of its own.

`KafkaConsumerProofs`

- `NothingIsSkipped`, `CommitsMoveForward`, `RecordsComeInOrder`: the invariant says
  that of the records its owner has taken all have ended but the one in its
  handler (`PositionEnded`, `OneAtATime`), and that the committed offset is behind
  the position (`CommittedBehind`). A rebalance restores both, because positions
  start at the committed offset.
- `TypeCorrect`; `RedeliveryIsAReset`: `TriesInv` says that a record was tried once per
  reset at most, and once more when its partition's position is behind it.
- `GroupImplementsDelivery`: to the invariant above comes `OneRecord`, a handler has one
  record. A `Take` is a `Give`: the position is not behind the committed offset, and all
  before it ended. A handler that returns or raises is an `End`, a crash a `Die`, and a
  commit moves every partition of its member at once, over ended records by
  `PositionEnded`; what the broker assigns is no step of the contract.

`AuditChainProofs`

- `TypeCorrect`, `NumbersHaveNoGap`, `ChainAlwaysVerifies`, `CommittedRowsAreFinal`,
  `ChainImplementsLog`: the committed rows are `1 .. n` (`Contiguous`), linked to
  the row numbered one less (`Linked`); an open unit of work extends a committed
  row (`Follows`), and a unit the key let in holds a number nobody else holds or
  has committed (`Holds`). Hence a commit adds row `n + 1`, which is `Append` on
  the abstract log; every other step is a stutter. Nothing is assumed of the hash.

`WorkflowProofs`

- `TypeCorrect`: `RunType` ties the iterations charged to the step a run is at, and
  `LoopType` the position to a record, which makes `Incident` an incident.
- `BreakersLimitCalls`: the strengthening `BreakerInv` says that a breaker that lets
  calls through has a failure left, counting its cooldowns.
- `OverrunIsBounded`: `BudgetInv` says that what was charged is what was spent, that
  it is below the budget at the recommendation and at most one answer above it
  afterwards.
- `ProposalsAreVetted`: `GateInv` carries what the gate saw (`Vetted`) over the
  recommendation to the stored row, which no later run changes but by replacing it.
- `StalePlansNeedReruns`: `RunsInv` says that what a run finds in the database it did
  not write is of an earlier run.
- `RecordsAreAccounted`: `LedgerInv` says of the records in front of the one under way
  what the property says of the committed ones, and of that one from its
  acknowledgement on.

`ApprovalProofs`

- `TypeCorrect`.
- `OnePlanAtATime`: at most one plan is live because `ReplaceInv` says that what a run
  is about to replace is all there is. A run that read plans has locked their rows, and
  one that read none has the snapshot row, without which nobody else proposes the
  first plan (`RunInv`). `HeldInv` keeps decisions out of a replacement, `OldInv` says
  that no run read a plan that is still to come.
- `AnswersAreTrue`: `AnswerInv` ties a request's row and its record to its own answer;
  `BackedInv` gives every decided plan an approval row, which is what a refused client
  was refused for (`RefusedInv`).

`DetectionProofs`

- `TypeCorrect`.
- `IncidentsCover`: the holder of a row lock is alone (`LockInv`), so the copy it
  extends contains the row and the signal (`CopyInv`), and writing it back loses
  nothing.
- `ReopeningNeedsRace`: a unit whose incident is resolved is in `raced` (`ResolvedInv`).
- `SplitsNeedRace`: `OpeningInv` is `SplitNeedsRace` said of incidents already when a
  worker has chosen to open them, before row and event exist.
- `EventsAndRowsMatch`: a unit that inserted a signal is the only one to have done so
  (`InsertInv`, from the key), and every event that no row backs is charged to an open
  unit or to a fault (`CountInv`, over finite sets of events).

`EdgeProofs`

Of `Ingestion`:

- `TypeCorrect`.
- `OneRecordPerWindow`: a conservation law, `WindowInv`. For each fingerprint, the records
  on the topic, the marks lost with a failed publish and the requests at its publish
  are together the marks that expired and the one that is set.
- `AnswersAreAccounted`: `PassedInv`, for every signal a request has passed a mark was
  set; by `WindowInv` that mark is on the topic, lost, or at a publish.

Of `Console`:

- `ConsoleTypes`, `ConsoleInStep`: one invariant, `ConsoleInv`. `LockInv` says that a task is in
  the queue of the lock at most once, and exactly while its owner waits for it, so that
  the head of the queue leaves nobody of its name behind. `FanInv` says that the clients
  still to be sent to and those found dead are registered and apart; it holds because
  the lock keeps registrations and departures out of a broadcast. `FlowInv` gives the
  contents: a client whose send failed is about to be dropped; any other was sent what
  was broadcast since its registration, the broadcast under way included if its send is
  over. `ShownInv` gives the order: a consumer that is not behind the event it
  showed last has been moved by a rejoin that no jump accounts for yet, and wherever
  its group may find it again, what lies between was skipped; so a `Take` adds a jump
  only where a rejoin is left, and past skipped events only.

`KnowledgeProofs`

- `TypeCorrect`: `WindowInv` says where a request is in its text, and `WindowFacts` does
  the arithmetic of one window. A window ends behind its beginning and in its section,
  and the next one begins further on because the overlap is smaller than a window.
- `NewestIsRetrievable`: `CutInv`, all sections behind the one being cut are covered by
  the chunks, and that one up to the next window. `CoversAppend` is the step: a chunk
  that begins where the cover ends, or before, extends it to its own end. An upsert
  turns the cover into points and leaves what is longer behind them (`NewestInv`).
- `ServicesFit`: the size of a collection is set once (`DimStays`). Every collection a
  service is past exists (`EnsuredInv`), sizes are sizes some start came with
  (`DimsInv`), and what is stored has the size of its collection (`ByInv`); two
  services that disagree are two members of `dims`.

Eight properties are proved and in no run: `LedgerAppendOnly`, `RowsAreFinal`, `NoGap`,
`BreakerLimits`, `CommittedHandled`, `CommittedMonotone`, `PartitionOrder` and
`Executor!ImplementsDelivery`. Other theorems rest on them, or they are the part of an
inductive invariant worth a name, or a property of the run implies them (the refinement
of `Delivery` implies `PartitionOrder`); the theorem says more than a small instance would.
TLC checked `Executor!ImplementsDelivery` once on the instance of `Executor`; the refinement
nearly doubles the time of that run.

Only model-checked is liveness (`ApprovalAnswered`, `EveryRecordEnds`, `BusyStops`, `ChainGrows`,
`EveryUnitEnds`, `EventsReachClients`, `NobodyWaitsForEver`), which is out of the prover's
reach. Every safety property of a passing run is a theorem.
The findings are counterexamples on one instance.

## Not modelled, and why

- The notification worker: it logs a page and keeps nothing; its delivery is that
  of any handler of `KafkaConsumer`.
- Similarity, ranking and limits of retrieval: `Knowledge` has the filter, the
  dimensions and the gate for a match as close as can be.
- The vectors and prompts behind `embeddings.py` and `llm.py`, and the offline
  triage, whose severity and services nothing in `Workflow` reads: what is
  modelled is which backend is chosen and what its answer can lead to.
- The limit of 200 open incidents `correlate` is given, and the scores it could
  have: an instance that reaches 201 incidents is out of TLC's reach.
- The 10 seconds after which the console's proxy gives up waiting for the PDP: the
  request goes on behind it, and `Approval` says what it comes to.
- The console's other partitions of `incidents.lifecycle` (it has six): an incident is
  in one, each has a place of its own in the group, and their events only take turns
  in the broadcasts. A record that does not decode is logged and shown to nobody.
- Effects of a call that raised behind the cluster's back: `Executor!ApplyFails` has
  them, but nothing in the code finds out, and no property says that they are undone.
- List and health endpoints, which read one table and change nothing.
- Metrics, logs, traces, serialisation, token formats.
- The database as such: only the isolation and locking the code relies on.
- The executor's `Executor!Log` is one partition, and its plan one plan; records
  of other incidents act through the breaker and the offsets only.

## Plan

1. The hazard no property covers yet: `handle_opened` never looks at the incident's
   status (`orchestrator/worker.py:89`), so a redelivered OPENED proposes a plan for a
   resolved incident. `Workflow` has the redelivery but no resolution; it takes the
   status in the incident's row.
2. What joins two modules: that the records `Approval` publishes are the ones
   `Executor` is given, so that its records without a plan are those of replaced plans.
