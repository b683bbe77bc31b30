----------------------------- MODULE Detection -----------------------------
(***************************************************************************)
(* Detection & correlation, aegis_services/detection/worker.py, up to the  *)
(* point where the orchestrator takes a new incident up.                   *)
(*                                                                         *)
(* Replicas of the worker handle signals of different partitions at once,  *)
(* each in one unit of work: read the open incidents, correlate, then lock *)
(* the incident to attach to or draw a fencing token for a new one, write  *)
(* the rows, publish the lifecycle event, and commit.  The event goes out  *)
(* before the commit.  An incident is known by its fencing token here: it  *)
(* draws one when it is created, and keeps it.                             *)
(***************************************************************************)
EXTENDS Naturals, FiniteSets

CONSTANTS
  Workers,    \* replicas of the detection worker
  Signals,    \* signals on signals.raw
  Service,    \* the service of each signal
  Severity,   \* the rank of each signal's severity, 0 for sev1, 4 for unknown
  Alerts,     \* the signals of kind alert
  Edges,      \* the topology file: pairs of a service and a dependency
  MaxTokens,  \* bound on the fencing tokens drawn
  MaxFaults   \* bound on units of work that fail and on redeliveries

ASSUME DetectionAssumption ==
  /\ DOMAIN Service = Signals
  /\ Severity \in [Signals -> 0 .. 4] /\ Alerts \subseteq Signals
  /\ MaxTokens \in Nat /\ MaxFaults \in Nat

Services  == {Service[s] : s \in Signals}
Incidents == 1 .. MaxTokens

VARIABLES
  \* the database
  status,       \* per incident: IncidentRow.status, "absent" without a row
  services,     \* per incident: IncidentRow.services
  severity,     \* per incident: the rank of IncidentRow.severity
  signalRow,    \* per signal: SignalRow.incident_id, 0 without a row
  aged,         \* incidents last updated longer ago than the correlation window
  token,        \* the last value of aegis_fencing_token_seq
  \* the handlers
  pc,           \* per worker: "idle", "lock", "write", "publish" or "commit"
  signal,       \* per worker: the signals it is handling, one at most
  incident,     \* per worker: the incident it attaches to or opens
  copy,         \* per worker: its object of that incident's row
  \* Kafka and the orchestrator
  delivered,    \* signals delivered so far
  events,       \* lifecycle events published: [type, incident, signal]
  orchestrated, \* per incident: "no", "started" or "vanished"
  excused,      \* history: per incident, those its first signal could not join
  raced,        \* history: workers whose incident was resolved before they locked it
  faults        \* faults so far

database == <<status, services, severity, signalRow, aged>>
history  == <<excused, raced>>
handler  == <<pc, signal, incident, copy>>
vars     == <<database, token, handler, delivered, events, orchestrated,
              history, faults>>

Rows == [status : {"open", "investigating"}, services : SUBSET Services,
         severity : 0 .. 4]

TypeOK ==
  /\ status \in [Incidents -> {"absent", "open", "investigating", "resolved"}]
  /\ services \in [Incidents -> SUBSET Services]
  /\ severity \in [Incidents -> 0 .. 4]
  /\ signalRow \in [Signals -> 0 .. token]
  /\ aged \subseteq Incidents
  /\ token \in 0 .. MaxTokens
  /\ pc \in [Workers -> {"idle", "lock", "write", "publish", "commit"}]
  /\ signal \in [Workers -> SUBSET Signals]
  /\ incident \in [Workers -> 0 .. token]
  /\ copy \in [Workers -> Rows]
  /\ \A w \in Workers :
       pc[w] # "idle" => Cardinality(signal[w]) = 1 /\ incident[w] # 0
  /\ delivered \subseteq Signals
  /\ events \subseteq [type : {"opened", "updated"}, incident : 1 .. token,
                       signal : Signals]
  /\ orchestrated \in [Incidents -> {"no", "started", "vanished"}]
  /\ excused \in [Incidents -> SUBSET Incidents] /\ raced \subseteq Workers
  /\ faults \in 0 .. MaxFaults

NoRow == [status |-> "open", services |-> {}, severity |-> 4]

Init ==
  /\ status = [i \in Incidents |-> "absent"]
  /\ services = [i \in Incidents |-> {}]
  /\ severity = [i \in Incidents |-> 4]
  /\ signalRow = [s \in Signals |-> 0]
  /\ aged = {}
  /\ token = 0
  /\ pc = [w \in Workers |-> "idle"]
  /\ signal = [w \in Workers |-> {}]
  /\ incident = [w \in Workers |-> 0]
  /\ copy = [w \in Workers |-> NoRow]
  /\ delivered = {}
  /\ events = {}
  /\ orchestrated = [i \in Incidents |-> "no"]
  /\ excused = [i \in Incidents |-> {}] /\ raced = {}
  /\ faults = 0

-----------------------------------------------------------------------------
(* Normalisation, topology and severity *)

\* An alert of unknown severity counts as sev3.
Rank(s) == IF Severity[s] = 4 /\ s \in Alerts THEN 2 ELSE Severity[s]

Adjacent(a, b) == a = b \/ <<a, b>> \in Edges \/ <<b, a>> \in Edges

Related(a, others) == \E b \in others : Adjacent(a, b)

MoreSevere(a, b) == IF a <= b THEN a ELSE b

-----------------------------------------------------------------------------
(* Rows and locks *)

\* Mutant: only the status a new incident has.
OpenOnly == {i \in Incidents : status[i] = "open"}

\* Mutant: resolved incidents are not left out.
OpenAny == {i \in Incidents : status[i] # "absent"}

OpenIncidents == {i \in Incidents : status[i] \notin {"absent", "resolved"}}

\* A worker holds the row it locked, or created, until its unit ends.
RowFree(i) ==
  \A v \in Workers : incident[v] = i => pc[v] \notin {"write", "publish", "commit"}

\* No other open unit has inserted the signal.
SignalFree(w) ==
  \A v \in Workers \ {w} :
    pc[v] \in {"publish", "commit"} => signal[v] # signal[w]

Goto(w, label) == pc' = [pc EXCEPT ![w] = label]

EndUnit(w) ==
  /\ Goto(w, "idle")
  /\ signal' = [signal EXCEPT ![w] = {}]
  /\ incident' = [incident EXCEPT ![w] = 0]
  /\ copy' = [copy EXCEPT ![w] = NoRow]
  /\ raced' = raced \ {w}

\* correlate's candidates for a signal: open, updated within the window, related.
\* (The query's limit of 200 rows is left out.)
Candidates(s) ==
  {i \in OpenIncidents \ aged : Related(Service[s], services[i])}

Spend == faults < MaxFaults /\ faults' = faults + 1

-----------------------------------------------------------------------------
(* handle_signal *)

\* A delivery, the first one or another.
Deliver(s) ==
  /\ IF s \in delivered THEN Spend ELSE UNCHANGED faults
  /\ delivered' = delivered \cup {s}

\* correlate chooses the candidate that was updated last, which may be any.
ChooseAttach(w, s) ==
  /\ pc[w] = "idle" /\ Deliver(s)
  /\ \E i \in Candidates(s) : incident' = [incident EXCEPT ![w] = i]
  /\ signal' = [signal EXCEPT ![w] = {s}]
  /\ Goto(w, "lock")
  /\ UNCHANGED <<database, token, copy, events, orchestrated, history>>

\* Mutant: the highest token is read, not the next one drawn.
ChooseOpenUndrawn(w, s) ==
  /\ pc[w] = "idle" /\ Deliver(s)
  /\ Candidates(s) = {} /\ token < MaxTokens
  /\ incident' = [incident EXCEPT ![w] = token + 1]
  /\ copy' = [copy EXCEPT ![w] = [status |-> "open", services |-> {Service[s]},
                                  severity |-> Rank(s)]]
  /\ signal' = [signal EXCEPT ![w] = {s}]
  /\ Goto(w, "write")
  /\ UNCHANGED <<database, token, events, orchestrated, history>>

\* There is no candidate.  The token is drawn at once, and is not given back.
\* What other units are about to open, what has aged and what is resolved are no
\* candidates.
ChooseOpen(w, s) ==
  /\ pc[w] = "idle" /\ Deliver(s)
  /\ Candidates(s) = {} /\ token < MaxTokens
  /\ token' = token + 1
  /\ incident' = [incident EXCEPT ![w] = token + 1]
  /\ copy' = [copy EXCEPT ![w] = [status |-> "open", services |-> {Service[s]},
                                  severity |-> Rank(s)]]
  /\ signal' = [signal EXCEPT ![w] = {s}]
  /\ Goto(w, "write")
  /\ excused' = [excused EXCEPT ![token + 1] =
                   aged \cup {i \in 1 .. token : status[i] \in {"absent", "resolved"}}]
  /\ UNCHANGED <<database, events, orchestrated, raced>>

\* The row with signal s added.
Attached(i, s) ==
  [status |-> "investigating", services |-> services[i] \cup {Service[s]},
   severity |-> MoreSevere(severity[i], Rank(s))]

\* Mutant: the row is read without FOR UPDATE.
AttachUnlocked(w) ==
  /\ pc[w] = "lock"
  /\ \E s \in signal[w] : copy' = [copy EXCEPT ![w] = Attached(incident[w], s)]
  /\ Goto(w, "write")
  /\ UNCHANGED <<database, token, signal, incident, delivered, events,
                 orchestrated, history, faults>>

\* SELECT ... FOR UPDATE: waits for the row, and reads it as it is then, resolved
\* or not.  Rows are never deleted.
Attach(w) ==
  /\ pc[w] = "lock" /\ RowFree(incident[w])
  /\ \E s \in signal[w] : copy' = [copy EXCEPT ![w] = Attached(incident[w], s)]
  /\ Goto(w, "write")
  /\ UNCHANGED <<database, token, signal, incident, delivered, events,
                 orchestrated, history, faults>>

\* append_audit's query flushes the incident's and the signal's row.
Write(w) ==
  /\ pc[w] = "write" /\ SignalFree(w)
  /\ \A s \in signal[w] : signalRow[s] = 0
  /\ Goto(w, "publish")
  /\ UNCHANGED <<database, token, signal, incident, copy, delivered, events,
                 orchestrated, history, faults>>

\* The signal is known already.  The error comes out of append_audit, behind the
\* except clause for it: the handler raises and its unit is rolled back.
WriteDuplicate(w) ==
  /\ pc[w] = "write" /\ SignalFree(w)
  /\ \E s \in signal[w] : signalRow[s] # 0
  /\ EndUnit(w)
  /\ UNCHANGED <<database, token, delivered, events, orchestrated, excused,
                 faults>>

\* Mutant: the event goes out before the rows are flushed.
PublishEarly(w) ==
  /\ pc[w] \in {"write", "publish"}
  /\ events' = events \cup
       {[type |-> IF copy[w].status = "open" THEN "opened" ELSE "updated",
         incident |-> incident[w], signal |-> s] : s \in signal[w]}
  /\ IF pc[w] = "publish" THEN Goto(w, "commit") ELSE UNCHANGED pc
  /\ UNCHANGED <<database, token, signal, incident, copy, delivered,
                 orchestrated, history, faults>>

Publish(w) ==
  /\ pc[w] = "publish"
  /\ events' = events \cup
       {[type |-> IF copy[w].status = "open" THEN "opened" ELSE "updated",
         incident |-> incident[w], signal |-> s] : s \in signal[w]}
  /\ Goto(w, "commit")
  /\ UNCHANGED <<database, token, signal, incident, copy, delivered,
                 orchestrated, history, faults>>

Commit(w) ==
  /\ pc[w] = "commit"
  /\ status' = [status EXCEPT ![incident[w]] = copy[w].status]
  /\ services' = [services EXCEPT ![incident[w]] = copy[w].services]
  /\ severity' = [severity EXCEPT ![incident[w]] = copy[w].severity]
  /\ signalRow' = [s \in Signals |->
                     IF s \in signal[w] THEN incident[w] ELSE signalRow[s]]
  /\ EndUnit(w)
  /\ aged' = aged \ {incident[w]}
  /\ UNCHANGED <<token, delivered, events, orchestrated, excused, faults>>

\* The worker dies, the broker or the database fails, or the audit record's
\* number is taken at the commit.
Fail(w) ==
  /\ pc[w] # "idle" /\ Spend
  /\ EndUnit(w)
  /\ UNCHANGED <<database, token, delivered, events, orchestrated, excused>>

-----------------------------------------------------------------------------
(* The clock, and the services behind *)

\* The correlation window passes without an update of the incident.
Age(i) ==
  /\ status[i] # "absent" /\ i \notin aged
  /\ aged' = aged \cup {i}
  /\ UNCHANGED <<status, services, severity, signalRow, token, handler, delivered,
                 events, orchestrated, history, faults>>

\* The orchestrator takes an OPENED event up.  Without the incident's row it
\* logs "incident vanished" and is done with the event.
Orchestrate(i) ==
  /\ orchestrated[i] = "no"
  /\ \E e \in events : e.type = "opened" /\ e.incident = i
  /\ orchestrated' = [orchestrated EXCEPT ![i] =
                        IF status[i] = "absent" THEN "vanished" ELSE "started"]
  /\ UNCHANGED <<database, token, handler, delivered, events, history, faults>>

\* The executor's _resolve, once the incident was investigated.
Resolve(i) ==
  /\ orchestrated[i] = "started" /\ status[i] \in {"open", "investigating"}
  /\ RowFree(i)
  /\ status' = [status EXCEPT ![i] = "resolved"]
  /\ aged' = aged \ {i}
  /\ raced' = raced \cup {w \in Workers : pc[w] = "lock" /\ incident[w] = i}
  /\ UNCHANGED <<services, severity, signalRow, token, handler, delivered, events,
                 orchestrated, excused, faults>>

Next ==
  \/ \E w \in Workers :
       \/ \E s \in Signals : ChooseAttach(w, s) \/ ChooseOpen(w, s)
       \/ Attach(w) \/ Write(w) \/ WriteDuplicate(w) \/ Publish(w) \/ Commit(w)
       \/ Fail(w)
  \/ \E i \in Incidents : Age(i) \/ Orchestrate(i) \/ Resolve(i)

Spec == Init /\ [][Next]_vars

-----------------------------------------------------------------------------
(* Safety *)

\* An incident covers every signal attached to it: its services hold the signal's
\* service and its severity is no milder, though several workers extend one row.
IncidentsCoverSignals ==
  \A s \in Signals : signalRow[s] # 0 =>
    LET i == signalRow[s]
    IN  /\ status[i] # "absent"
        /\ Service[s] \in services[i]
        /\ severity[i] <= Rank(s)

\* One fault gets one incident unless correlate could not see the first one: of
\* two incidents whose first signals are related, the earlier was not committed
\* yet, out of the window or resolved when the later one was opened.
SplitNeedsRace ==
  \A e, f \in events :
    /\ e.type = "opened" /\ f.type = "opened" /\ e.incident < f.incident
    /\ status[e.incident] # "absent" /\ status[f.incident] # "absent"
    /\ Adjacent(Service[e.signal], Service[f.signal])
    => e.incident \in excused[f.incident]

\* A resolved incident is set back to investigating only by a worker that chose it
\* while it was open and that the resolution overtook on its way to the row.
ReopenNeedsRace ==
  [][\A i \in Incidents : status[i] = "resolved" /\ status'[i] # "resolved" =>
        \E w \in raced : incident[w] = i /\ pc[w] = "commit"]_vars

\* The topic and the tables tell the same: no incident is opened or extended in
\* silence, whatever crashed, and an event whose incident does not hold its signal is
\* of a unit of work that is still open or that failed.  Duplicates of a signal
\* announce nothing.
EventsMatchRows ==
  /\ \A s \in Signals : signalRow[s] # 0 =>
       \E e \in events : e.signal = s /\ e.incident = signalRow[s]
  /\ Cardinality({e \in events : signalRow[e.signal] # e.incident})
       <= faults + Cardinality({w \in Workers : pc[w] = "commit"})

=============================================================================
