-------------------------- MODULE DetectionProofs --------------------------
(* Theorems about Detection, for every number of workers, signals, services *)
(* and incidents, and every topology.                                       *)
EXTENDS Detection, FiniteSetTheorems, TLAPS

-----------------------------------------------------------------------------
(* Type correctness *)

RowType ==
  /\ status \in [Incidents -> {"absent", "open", "investigating", "resolved"}]
  /\ services \in [Incidents -> SUBSET Services]
  /\ severity \in [Incidents -> 0 .. 4]
  /\ signalRow \in [Signals -> 0 .. token]
  /\ aged \subseteq Incidents
  /\ token \in 0 .. MaxTokens

HandlerType ==
  /\ pc \in [Workers -> {"idle", "lock", "write", "publish", "commit"}]
  /\ signal \in [Workers -> SUBSET Signals]
  /\ incident \in [Workers -> 0 .. token]

CopyType == copy \in [Workers -> Rows]

\* A unit handles one signal, about one incident that was drawn.
UnitInv ==
  \A w \in Workers : pc[w] # "idle" =>
    /\ incident[w] # 0
    /\ \E s \in Signals : signal[w] = {s}

\* An incident that was not drawn has nothing.
UndrawnInv ==
  \A i \in Incidents : i > token =>
    status[i] = "absent" /\ services[i] = {} /\ severity[i] = 4

EventType ==
  /\ delivered \subseteq Signals
  /\ events \subseteq [type : {"opened", "updated"}, incident : 1 .. token,
                       signal : Signals]
  /\ orchestrated \in [Incidents -> {"no", "started", "vanished"}]

HistoryType ==
  /\ excused \in [Incidents -> SUBSET Incidents] /\ raced \subseteq Workers
  /\ faults \in 0 .. MaxFaults

Types ==
  /\ RowType /\ HandlerType /\ CopyType /\ UnitInv /\ UndrawnInv /\ EventType
  /\ HistoryType

LEMMA TypesImply == Types => TypeOK
<1> SUFFICES ASSUME Types PROVE TypeOK
  OBVIOUS
<1>1. ASSUME NEW w \in Workers, pc[w] # "idle"
      PROVE  Cardinality(signal[w]) = 1 /\ incident[w] # 0
  <2>1. PICK s \in Signals : signal[w] = {s} BY <1>1 DEF Types, UnitInv
  <2> QED BY <1>1, <2>1, FS_Singleton DEF Types, UnitInv
<1> QED BY <1>1 DEF Types, RowType, HandlerType, CopyType, EventType, HistoryType, TypeOK

LEMMA RanksAreRanks == \A s \in Signals : Rank(s) \in 0 .. 4 /\ Service[s] \in Services
BY DetectionAssumption DEF Rank, Services

\* The incident of a unit is one of the incidents.
LEMMA DrawnIsIncident ==
  ASSUME Types, NEW w \in Workers, pc[w] # "idle"
  PROVE  incident[w] \in 1 .. token /\ incident[w] \in Incidents
BY DetectionAssumption DEF Types, UnitInv, HandlerType, RowType, Incidents

LEMMA RowStep == Types /\ [Next]_vars => RowType'
<1> SUFFICES ASSUME Types, [Next]_vars PROVE RowType'
  OBVIOUS
<1> USE DetectionAssumption DEF RowType, database
<1>0. RowType /\ HandlerType /\ CopyType BY DEF Types
<1>1. ASSUME UNCHANGED <<database, token>> PROVE RowType' BY <1>0, <1>1
<1>2. ASSUME NEW w \in Workers, NEW s \in Signals, ChooseAttach(w, s) \/ ChooseOpen(w, s)
      PROVE  RowType'
  <2>1. UNCHANGED database /\ token' \in {token, token + 1} /\ token' \in 0 .. MaxTokens
    BY <1>0, <1>2 DEF ChooseAttach, ChooseOpen
  <2> QED BY <1>0, <2>1
<1>3. ASSUME NEW w \in Workers, Commit(w) PROVE RowType'
  <2>1. incident[w] \in 1 .. token /\ incident[w] \in Incidents
    BY <1>3, DrawnIsIncident DEF Commit
  <2>2. copy[w] \in Rows BY <1>0 DEF CopyType
  <2>3. status' \in [Incidents -> {"absent", "open", "investigating", "resolved"}]
    BY <1>0, <1>3, <2>1, <2>2 DEF Commit, Rows
  <2>4. services' \in [Incidents -> SUBSET Services]
    BY <1>0, <1>3, <2>1, <2>2 DEF Commit, Rows
  <2>5. severity' \in [Incidents -> 0 .. 4]
    BY <1>0, <1>3, <2>1, <2>2 DEF Commit, Rows
  <2>6. signalRow' \in [Signals -> 0 .. token] BY <1>0, <1>3, <2>1 DEF Commit
  <2>7. UNCHANGED token /\ aged' \subseteq Incidents BY <1>0, <1>3 DEF Commit
  <2> QED BY <1>0, <2>3, <2>4, <2>5, <2>6, <2>7
<1>4. ASSUME NEW i \in Incidents, Age(i) \/ Orchestrate(i) \/ Resolve(i) PROVE RowType'
  BY <1>0, <1>4 DEF Age, Orchestrate, Resolve
<1>5. ASSUME NEW w \in Workers,
             Attach(w) \/ Write(w) \/ WriteDuplicate(w) \/ Publish(w) \/ Fail(w)
      PROVE  RowType'
  BY <1>1, <1>5 DEF Attach, Write, WriteDuplicate, Publish, Fail
<1>6. CASE UNCHANGED vars BY <1>1, <1>6 DEF vars
<1> QED BY <1>2, <1>3, <1>4, <1>5, <1>6 DEF Next

LEMMA HandlerStep == Types /\ [Next]_vars => HandlerType'
<1> SUFFICES ASSUME Types, [Next]_vars PROVE HandlerType'
  OBVIOUS
<1> USE DetectionAssumption DEF HandlerType, RowType, Goto, handler
<1>0. HandlerType /\ RowType /\ UndrawnInv BY DEF Types
<1>1. ASSUME NEW w \in Workers, NEW s \in Signals, ChooseAttach(w, s) PROVE HandlerType'
  <2>1. PICK i \in Candidates(s) : incident' = [incident EXCEPT ![w] = i]
    BY <1>1 DEF ChooseAttach
  <2>2. i \in Incidents /\ status[i] # "absent" BY DEF Candidates, OpenIncidents
  <2>3. i \in 1 .. token BY <1>0, <2>2 DEF Incidents, UndrawnInv
  <2> QED BY <1>0, <1>1, <2>1, <2>3 DEF ChooseAttach
<1>2. ASSUME NEW w \in Workers, NEW s \in Signals, ChooseOpen(w, s) PROVE HandlerType'
  BY <1>0, <1>2 DEF ChooseOpen
<1>3. ASSUME NEW w \in Workers, Attach(w) \/ Write(w) \/ Publish(w) PROVE HandlerType'
  BY <1>0, <1>3 DEF Attach, Write, Publish
<1>4. ASSUME NEW w \in Workers, WriteDuplicate(w) \/ Commit(w) \/ Fail(w) PROVE HandlerType'
  BY <1>0, <1>4 DEF WriteDuplicate, Commit, Fail, EndUnit
<1>5. ASSUME NEW i \in Incidents, Age(i) \/ Orchestrate(i) \/ Resolve(i) PROVE HandlerType'
  BY <1>0, <1>5 DEF Age, Orchestrate, Resolve
<1>6. CASE UNCHANGED vars BY <1>0, <1>6 DEF vars
<1> QED BY <1>1, <1>2, <1>3, <1>4, <1>5, <1>6 DEF Next

LEMMA AttachedIsRow ==
  ASSUME RowType, NEW i \in Incidents, NEW s \in Signals
  PROVE  Attached(i, s) \in Rows
<1>1. MoreSevere(severity[i], Rank(s)) \in 0 .. 4
  BY RanksAreRanks DEF RowType, MoreSevere
<1>2. services[i] \cup {Service[s]} \in SUBSET Services BY RanksAreRanks DEF RowType
<1> QED BY <1>1, <1>2 DEF Attached, Rows

LEMMA CopyStep == Types /\ [Next]_vars => CopyType'
<1> SUFFICES ASSUME Types, [Next]_vars PROVE CopyType'
  OBVIOUS
<1> USE DEF CopyType, handler
<1>0. CopyType /\ RowType BY DEF Types
<1>1. ASSUME NEW w \in Workers, NEW s \in Signals, ChooseAttach(w, s) PROVE CopyType'
  BY <1>0, <1>1 DEF ChooseAttach
<1>2. ASSUME NEW w \in Workers, NEW s \in Signals, ChooseOpen(w, s) PROVE CopyType'
  <2> DEFINE R == [status |-> "open", services |-> {Service[s]}, severity |-> Rank(s)]
  <2>1. R \in Rows BY RanksAreRanks DEF Rows
  <2>2. copy' = [copy EXCEPT ![w] = R] BY <1>2 DEF ChooseOpen
  <2> HIDE DEF R
  <2> QED BY <1>0, <2>1, <2>2
<1>3. ASSUME NEW w \in Workers, Attach(w) PROVE CopyType'
  <2>1. PICK s \in signal[w] : copy' = [copy EXCEPT ![w] = Attached(incident[w], s)]
    BY <1>3 DEF Attach
  <2>2. s \in Signals BY DEF Types, HandlerType
  <2>3. incident[w] \in Incidents BY <1>3, DrawnIsIncident DEF Attach
  <2>4. Attached(incident[w], s) \in Rows BY <1>0, <2>2, <2>3, AttachedIsRow
  <2> QED BY <1>0, <2>1, <2>4
<1>4. ASSUME NEW w \in Workers, WriteDuplicate(w) \/ Commit(w) \/ Fail(w) PROVE CopyType'
  <2>1. NoRow \in Rows BY DEF NoRow, Rows
  <2>2. copy' = [copy EXCEPT ![w] = NoRow] BY <1>4 DEF WriteDuplicate, Commit, Fail, EndUnit
  <2> QED BY <1>0, <2>1, <2>2
<1>5. ASSUME NEW w \in Workers, Write(w) \/ Publish(w) PROVE CopyType'
  BY <1>0, <1>5 DEF Write, Publish
<1>6. ASSUME NEW i \in Incidents, Age(i) \/ Orchestrate(i) \/ Resolve(i) PROVE CopyType'
  BY <1>0, <1>6 DEF Age, Orchestrate, Resolve
<1>7. CASE UNCHANGED vars BY <1>0, <1>7 DEF vars
<1> QED BY <1>1, <1>2, <1>3, <1>4, <1>5, <1>6, <1>7 DEF Next

LEMMA UnitStep == Types /\ [Next]_vars => UnitInv'
<1> SUFFICES ASSUME Types, [Next]_vars PROVE UnitInv'
  OBVIOUS
<1> USE DEF UnitInv, HandlerType, Goto, handler
<1>0. UnitInv /\ HandlerType /\ RowType BY DEF Types
<1>1. ASSUME NEW w \in Workers, NEW s \in Signals, ChooseAttach(w, s) PROVE UnitInv'
  <2>1. PICK i \in Candidates(s) : incident' = [incident EXCEPT ![w] = i]
    BY <1>1 DEF ChooseAttach
  <2>2. i # 0 BY DetectionAssumption DEF Candidates, OpenIncidents, Incidents
  <2> QED BY <1>0, <1>1, <2>1, <2>2 DEF ChooseAttach
<1>2. ASSUME NEW w \in Workers, NEW s \in Signals, ChooseOpen(w, s) PROVE UnitInv'
  <2>1. token + 1 # 0 BY <1>0 DEF RowType
  <2> QED BY <1>0, <1>2, <2>1 DEF ChooseOpen
<1>3. ASSUME NEW w \in Workers, Attach(w) \/ Write(w) \/ Publish(w) PROVE UnitInv'
  BY <1>0, <1>3 DEF Attach, Write, Publish
<1>4. ASSUME NEW w \in Workers, WriteDuplicate(w) \/ Commit(w) \/ Fail(w) PROVE UnitInv'
  BY <1>0, <1>4 DEF WriteDuplicate, Commit, Fail, EndUnit
<1>5. ASSUME NEW i \in Incidents, Age(i) \/ Orchestrate(i) \/ Resolve(i) PROVE UnitInv'
  BY <1>0, <1>5 DEF Age, Orchestrate, Resolve
<1>6. CASE UNCHANGED vars BY <1>0, <1>6 DEF vars
<1> QED BY <1>1, <1>2, <1>3, <1>4, <1>5, <1>6 DEF Next

LEMMA UndrawnStep == Types /\ [Next]_vars => UndrawnInv'
<1> SUFFICES ASSUME Types, [Next]_vars PROVE UndrawnInv'
  OBVIOUS
<1> USE DEF UndrawnInv, Incidents, database
<1>0. UndrawnInv /\ RowType BY DEF Types
<1>1. ASSUME NEW w \in Workers, NEW s \in Signals, ChooseAttach(w, s) \/ ChooseOpen(w, s)
      PROVE  UndrawnInv'
  <2>1. UNCHANGED database /\ token' \in {token, token + 1}
    BY <1>1 DEF ChooseAttach, ChooseOpen
  <2> QED BY <1>0, <2>1 DEF RowType
<1>2. ASSUME NEW w \in Workers, Commit(w) PROVE UndrawnInv'
  <2>1. incident[w] \in 1 .. token BY <1>2, DrawnIsIncident DEF Commit
  <2> QED BY <1>0, <1>2, <2>1 DEF Commit, RowType
<1>3. ASSUME NEW i \in Incidents, Age(i) \/ Orchestrate(i) PROVE UndrawnInv'
  BY <1>0, <1>3 DEF Age, Orchestrate
<1>4. ASSUME NEW i \in Incidents, Resolve(i) PROVE UndrawnInv'
  <2>1. status[i] # "absent" BY <1>4 DEF Resolve
  <2> QED BY <1>0, <1>4, <2>1 DEF Resolve, RowType
<1>5. ASSUME NEW w \in Workers,
             Attach(w) \/ Write(w) \/ WriteDuplicate(w) \/ Publish(w) \/ Fail(w)
      PROVE  UndrawnInv'
  BY <1>0, <1>5 DEF Attach, Write, WriteDuplicate, Publish, Fail
<1>6. CASE UNCHANGED vars BY <1>0, <1>6 DEF vars
<1> QED BY <1>1, <1>2, <1>3, <1>4, <1>5, <1>6 DEF Next

\* The event that worker w publishes about signal s.
EventOf(w, s) == [type |-> IF copy[w].status = "open" THEN "opened" ELSE "updated",
                  incident |-> incident[w], signal |-> s]

LEMMA EventStep == Types /\ [Next]_vars => EventType'
<1> SUFFICES ASSUME Types, [Next]_vars PROVE EventType'
  OBVIOUS
<1> USE DEF EventType, Deliver
<1>0. EventType /\ RowType BY DEF Types
<1>1. ASSUME NEW w \in Workers, NEW s \in Signals, ChooseAttach(w, s) \/ ChooseOpen(w, s)
      PROVE  EventType'
  <2>1. /\ UNCHANGED <<events, orchestrated>> /\ delivered' = delivered \cup {s}
        /\ token' \in {token, token + 1}
    BY <1>1 DEF ChooseAttach, ChooseOpen
  <2>2. 1 .. token \subseteq 1 .. token' BY <1>0, <2>1 DEF RowType
  <2> QED BY <1>0, <2>1, <2>2
<1>2. ASSUME NEW w \in Workers, Publish(w) PROVE EventType'
  <2>1. events' = events \cup {EventOf(w, s) : s \in signal[w]}
    BY <1>2 DEF Publish, EventOf
  <2>2. incident[w] \in 1 .. token BY <1>2, DrawnIsIncident DEF Publish
  <2>3. \A s \in signal[w] : s \in Signals BY DEF Types, HandlerType
  <2>4. \A s \in Signals : EventOf(w, s) \in [type : {"opened", "updated"},
                                              incident : 1 .. token, signal : Signals]
    BY <2>2 DEF EventOf
  <2>5. events' \subseteq [type : {"opened", "updated"}, incident : 1 .. token,
                           signal : Signals]
    BY <1>0, <2>1, <2>3, <2>4
  <2> QED BY <1>0, <1>2, <2>5 DEF Publish
<1>3. ASSUME NEW w \in Workers,
             Attach(w) \/ Write(w) \/ WriteDuplicate(w) \/ Commit(w) \/ Fail(w)
      PROVE  EventType'
  BY <1>0, <1>3 DEF Attach, Write, WriteDuplicate, Commit, Fail
<1>4. ASSUME NEW i \in Incidents, Age(i) \/ Orchestrate(i) \/ Resolve(i) PROVE EventType'
  BY <1>0, <1>4 DEF Age, Orchestrate, Resolve
<1>5. CASE UNCHANGED vars BY <1>0, <1>5 DEF vars
<1> QED BY <1>1, <1>2, <1>3, <1>4, <1>5 DEF Next

LEMMA HistoryStep == Types /\ [Next]_vars => HistoryType'
<1> SUFFICES ASSUME Types, [Next]_vars PROVE HistoryType'
  OBVIOUS
<1> USE DetectionAssumption DEF HistoryType, Deliver, Spend, history
<1>0. HistoryType /\ RowType BY DEF Types
<1>1. ASSUME NEW w \in Workers, NEW s \in Signals, ChooseAttach(w, s) PROVE HistoryType'
  BY <1>0, <1>1 DEF ChooseAttach
<1>2. ASSUME NEW w \in Workers, NEW s \in Signals, ChooseOpen(w, s) PROVE HistoryType'
  <2> DEFINE X == aged \cup {i \in 1 .. token : status[i] \in {"absent", "resolved"}}
  <2>1. X \in SUBSET Incidents
    <3>1. \A i \in 1 .. token : i \in Incidents BY <1>0 DEF RowType, Incidents
    <3> QED BY <1>0, <3>1 DEF RowType
  <2>2. excused' = [excused EXCEPT ![token + 1] = X] BY <1>2 DEF ChooseOpen
  <2>3. UNCHANGED raced /\ faults' \in 0 .. MaxFaults BY <1>0, <1>2 DEF ChooseOpen
  <2> HIDE DEF X
  <2> QED BY <1>0, <2>1, <2>2, <2>3
<1>3. ASSUME NEW w \in Workers, Attach(w) \/ Write(w) \/ Publish(w) PROVE HistoryType'
  BY <1>0, <1>3 DEF Attach, Write, Publish
<1>4. ASSUME NEW w \in Workers, WriteDuplicate(w) \/ Commit(w) \/ Fail(w)
      PROVE  HistoryType'
  BY <1>0, <1>4 DEF WriteDuplicate, Commit, Fail, EndUnit
<1>5. ASSUME NEW i \in Incidents, Age(i) \/ Orchestrate(i) \/ Resolve(i)
      PROVE  HistoryType'
  BY <1>0, <1>5 DEF Age, Orchestrate, Resolve
<1>6. CASE UNCHANGED vars BY <1>0, <1>6 DEF vars
<1> QED BY <1>1, <1>2, <1>3, <1>4, <1>5, <1>6 DEF Next

LEMMA TypesInit == Init => Types
<1> SUFFICES ASSUME Init PROVE Types
  OBVIOUS
<1> USE DetectionAssumption DEF Init
<1>1. RowType BY DEF RowType
<1>2. HandlerType BY DEF HandlerType
<1>3. CopyType
  <2>1. NoRow \in Rows BY DEF NoRow, Rows
  <2> QED BY <2>1 DEF CopyType
<1>4. UnitInv /\ UndrawnInv BY DEF UnitInv, UndrawnInv, Incidents
<1>5. EventType BY DEF EventType
<1>6. HistoryType BY DEF HistoryType
<1> QED BY <1>1, <1>2, <1>3, <1>4, <1>5, <1>6 DEF Types

LEMMA TypesStep == Types /\ [Next]_vars => Types'
<1> SUFFICES ASSUME Types, [Next]_vars PROVE Types'
  OBVIOUS
<1>1. RowType' /\ HandlerType' /\ CopyType' /\ UnitInv' /\ UndrawnInv' /\ EventType'
      /\ HistoryType'
  BY RowStep, HandlerStep, CopyStep, UnitStep, UndrawnStep, EventStep, HistoryStep
<1> QED BY <1>1 DEF Types

\* The rows, the handlers and their copies, the events and what they count keep their
\* types, and a unit of work has one signal and an incident that was drawn.
THEOREM TypeCorrect == Spec => []TypeOK
BY TypesInit, TypesStep, TypesImply, PTL DEF Spec

-----------------------------------------------------------------------------
(* Incidents cover their signals *)

\* The unit of worker w has the row of its incident.
Holds(w) == pc[w] \in {"write", "publish", "commit"}

LockInv ==
  \A v, w \in Workers : Holds(v) /\ Holds(w) /\ incident[v] = incident[w] => v = w

\* The unit that has the row extends what the row holds, and covers its signal.
CopyInv ==
  \A w \in Workers : Holds(w) =>
    /\ services[incident[w]] \subseteq copy[w].services
    /\ copy[w].severity <= severity[incident[w]]
    /\ \A s \in signal[w] : /\ Service[s] \in copy[w].services
                            /\ copy[w].severity <= Rank(s)

CoverInv == LockInv /\ CopyInv /\ IncidentsCoverSignals

\* Units that have a row after a step had it before, as they have it now.
HoldersStay ==
  \A w \in Workers : Holds(w)' =>
    /\ Holds(w)
    /\ incident'[w] = incident[w] /\ copy'[w] = copy[w] /\ signal'[w] = signal[w]

LEMMA HoldersKeep ==
  ASSUME LockInv, CopyInv, HoldersStay, UNCHANGED <<services, severity>>
  PROVE  LockInv' /\ CopyInv'
<1>1. LockInv' BY DEF LockInv, HoldersStay
<1>2. CopyInv' BY DEF CopyInv, HoldersStay, Rank
<1> QED BY <1>1, <1>2

\* Most steps take no row.
LEMMA MostStay ==
  ASSUME Types
  PROVE  /\ \A w \in Workers, s \in Signals : ChooseAttach(w, s) => HoldersStay
         /\ \A w \in Workers : Write(w) \/ WriteDuplicate(w) \/ Publish(w) \/ Commit(w)
                               \/ Fail(w) => HoldersStay
         /\ \A i \in Incidents : Age(i) \/ Orchestrate(i) \/ Resolve(i) => HoldersStay
         /\ UNCHANGED vars => HoldersStay
<1> USE DEF Types, HandlerType, CopyType, HoldersStay, Holds, Goto
<1>1. ASSUME NEW w \in Workers, NEW s \in Signals, ChooseAttach(w, s) PROVE HoldersStay
  BY <1>1 DEF ChooseAttach
<1>2. ASSUME NEW w \in Workers, Write(w) \/ Publish(w) PROVE HoldersStay
  BY <1>2 DEF Write, Publish
<1>3. ASSUME NEW w \in Workers, WriteDuplicate(w) \/ Commit(w) \/ Fail(w) PROVE HoldersStay
  BY <1>3 DEF WriteDuplicate, Commit, Fail, EndUnit
<1>4. ASSUME NEW i \in Incidents, Age(i) \/ Orchestrate(i) \/ Resolve(i) PROVE HoldersStay
  BY <1>4 DEF Age, Orchestrate, Resolve, handler
<1>5. CASE UNCHANGED vars BY <1>5 DEF vars, handler
<1> QED BY <1>1, <1>2, <1>3, <1>4, <1>5

\* What a unit reads under the row's lock.
LEMMA AttachedCovers ==
  ASSUME RowType, NEW i \in Incidents, NEW s \in Signals
  PROVE  /\ services[i] \subseteq Attached(i, s).services
         /\ Attached(i, s).severity <= severity[i]
         /\ Service[s] \in Attached(i, s).services
         /\ Attached(i, s).severity <= Rank(s)
<1>1. severity[i] \in 0 .. 4 /\ Rank(s) \in 0 .. 4 BY RanksAreRanks DEF RowType
<1> QED BY <1>1 DEF Attached, MoreSevere

LEMMA AttachKeeps ==
  ASSUME Types, LockInv, CopyInv, NEW w \in Workers, Attach(w)
  PROVE  LockInv' /\ CopyInv'
<1> USE DEF Holds
<1>0. HandlerType /\ CopyType /\ RowType BY DEF Types
<1>1. incident[w] \in Incidents BY DrawnIsIncident DEF Attach
<1>2. PICK s \in Signals : signal[w] = {s} BY DEF Types, UnitInv, Attach
<1>3. copy' = [copy EXCEPT ![w] = Attached(incident[w], s)] BY <1>2 DEF Attach
<1>4. UNCHANGED <<services, severity, incident, signal>> BY DEF Attach, database
<1>5. \A v \in Workers \ {w} : /\ Holds(v)' => Holds(v) /\ incident[v] # incident[w]
                               /\ copy'[v] = copy[v]
  BY <1>0, <1>3 DEF Attach, RowFree, Goto, HandlerType, CopyType
<1>6. copy'[w] = Attached(incident[w], s) BY <1>0, <1>3 DEF CopyType
<1>7. LockInv' BY <1>4, <1>5 DEF LockInv
<1>8. CopyInv'
  BY <1>0, <1>1, <1>2, <1>4, <1>5, <1>6, AttachedCovers DEF CopyInv, Rank
<1> QED BY <1>7, <1>8

LEMMA OpenKeeps ==
  ASSUME Types, LockInv, CopyInv, NEW w \in Workers, NEW s \in Signals, ChooseOpen(w, s)
  PROVE  LockInv' /\ CopyInv'
<1> USE DEF Holds, ChooseOpen
<1> DEFINE R == [status |-> "open", services |-> {Service[s]}, severity |-> Rank(s)]
<1>0. HandlerType /\ CopyType /\ RowType BY DEF Types
<1>1. UNCHANGED <<services, severity>> BY DEF database
<1>2. incident'[w] = token + 1 /\ signal'[w] = {s} BY <1>0 DEF HandlerType
<1>3. copy'[w] = R BY <1>0 DEF CopyType
<1>4. \A v \in Workers \ {w} :
        /\ Holds(v)' => Holds(v)
        /\ incident'[v] = incident[v] /\ incident[v] # token + 1
        /\ signal'[v] = signal[v] /\ copy'[v] = copy[v]
  BY <1>0 DEF Goto, HandlerType, CopyType, RowType
<1>5. services[token + 1] = {} /\ severity[token + 1] = 4
  <2>1. token + 1 \in Incidents /\ token + 1 > token
    BY <1>0, DetectionAssumption DEF RowType, Incidents
  <2> QED BY <2>1 DEF Types, UndrawnInv
<1>6. Rank(s) <= 4 BY RanksAreRanks
<1>7. R.services = {Service[s]} /\ R.severity = Rank(s) OBVIOUS
<1> HIDE DEF R, ChooseOpen
<1>8. LockInv' BY <1>2, <1>4 DEF LockInv
<1>9. Rank(s) <= Rank(s) BY RanksAreRanks
<1>10. CopyInv'
  BY <1>1, <1>2, <1>3, <1>4, <1>5, <1>6, <1>7, <1>9 DEF CopyInv, Rank
<1> QED BY <1>8, <1>10

LEMMA CommitKeeps ==
  ASSUME Types, CoverInv, NEW w \in Workers, Commit(w)
  PROVE  CoverInv'
<1> USE DEF CoverInv
<1> DEFINE I == incident[w]
<1>0. HandlerType /\ CopyType /\ RowType BY DEF Types
<1>1. I \in Incidents /\ I # 0 BY DrawnIsIncident DEF Commit, Incidents
<1>2. PICK s \in Signals : signal[w] = {s} BY DEF Types, UnitInv, Commit
<1>3. HoldersStay /\ ~Holds(w)'
  BY <1>0, MostStay DEF Commit, EndUnit, Goto, Holds, HandlerType
<1>4. \A v \in Workers : Holds(v)' => incident[v] # I
  BY <1>3 DEF LockInv, HoldersStay, Holds, Commit
<1>5. \A i \in Incidents \ {I} : /\ services'[i] = services[i]
                                 /\ severity'[i] = severity[i]
                                 /\ status'[i] = status[i]
  BY <1>0 DEF Commit, RowType
<1>6. /\ services'[I] = copy[w].services /\ severity'[I] = copy[w].severity
      /\ status'[I] = copy[w].status
  BY <1>0, <1>1 DEF Commit, RowType
<1>7. LockInv' BY <1>3 DEF LockInv, HoldersStay
<1>8. CopyInv'
  <2>1. \A v \in Workers : Holds(v) => incident[v] \in Incidents
    BY DrawnIsIncident DEF Holds
  <2> QED BY <1>3, <1>4, <1>5, <2>1 DEF CopyInv, HoldersStay, Rank
<1>9. IncidentsCoverSignals'
  <2> SUFFICES ASSUME NEW x \in Signals, signalRow'[x] # 0
               PROVE  /\ status'[signalRow'[x]] # "absent"
                      /\ Service[x] \in services'[signalRow'[x]]
                      /\ severity'[signalRow'[x]] <= Rank(x)
    BY DEF IncidentsCoverSignals, Rank
  <2>1. /\ services[I] \subseteq copy[w].services /\ copy[w].severity <= severity[I]
        /\ Service[s] \in copy[w].services /\ copy[w].severity <= Rank(s)
    BY <1>2 DEF CopyInv, Holds, Commit
  <2>2. copy[w].status # "absent" /\ copy[w].severity \in 0 .. 4
    BY <1>0 DEF CopyType, Rows
  <2>3. CASE x = s
    <3>1. signalRow'[x] = I BY <1>2, <2>3 DEF Commit
    <3> QED BY <1>6, <2>1, <2>2, <2>3, <3>1
  <2>4. CASE x # s
    <3> DEFINE J == signalRow[x]
    <3>1. signalRow'[x] = J BY <1>2, <2>4 DEF Commit
    <3>2. J \in Incidents BY <1>0, <3>1, DetectionAssumption DEF RowType, Incidents
    <3>3. status[J] # "absent" /\ Service[x] \in services[J] /\ severity[J] <= Rank(x)
      BY <3>1 DEF IncidentsCoverSignals
    <3>4. CASE J # I BY <1>5, <3>1, <3>2, <3>3, <3>4
    <3>5. CASE J = I
      <4>1. severity[I] \in 0 .. 4 /\ Rank(x) \in 0 .. 4
        BY <1>0, <1>1, RanksAreRanks DEF RowType
      <4>2. copy[w].severity <= Rank(x) BY <2>1, <2>2, <3>3, <3>5, <4>1
      <4> QED BY <1>6, <2>1, <2>2, <3>1, <3>3, <3>5, <4>2
    <3> QED BY <3>4, <3>5
  <2> QED BY <2>3, <2>4
<1> QED BY <1>7, <1>8, <1>9

LEMMA CoverStep == Types /\ CoverInv /\ [Next]_vars => CoverInv'
<1> SUFFICES ASSUME Types, CoverInv, [Next]_vars PROVE CoverInv'
  OBVIOUS
<1>0. LockInv /\ CopyInv /\ IncidentsCoverSignals BY DEF CoverInv
<1>1. ASSUME UNCHANGED database PROVE IncidentsCoverSignals'
  BY <1>0, <1>1 DEF IncidentsCoverSignals, database, Rank
<1>2. ASSUME HoldersStay, UNCHANGED database PROVE CoverInv'
  BY <1>0, <1>1, <1>2, HoldersKeep DEF CoverInv, database
<1>3. ASSUME NEW w \in Workers, NEW s \in Signals, ChooseAttach(w, s) PROVE CoverInv'
  BY <1>2, <1>3, MostStay DEF ChooseAttach
<1>4. ASSUME NEW w \in Workers, NEW s \in Signals, ChooseOpen(w, s) PROVE CoverInv'
  BY <1>0, <1>1, <1>4, OpenKeeps DEF ChooseOpen, CoverInv
<1>5. ASSUME NEW w \in Workers, Attach(w) PROVE CoverInv'
  BY <1>0, <1>1, <1>5, AttachKeeps DEF Attach, CoverInv
<1>6. ASSUME NEW w \in Workers, Write(w) \/ WriteDuplicate(w) \/ Publish(w) \/ Fail(w)
      PROVE  CoverInv'
  BY <1>2, <1>6, MostStay DEF Write, WriteDuplicate, Publish, Fail
<1>7. ASSUME NEW w \in Workers, Commit(w) PROVE CoverInv'
  BY <1>7, CommitKeeps
<1>8. ASSUME NEW i \in Incidents, Age(i) \/ Orchestrate(i) \/ Resolve(i) PROVE CoverInv'
  <2>1. LockInv' /\ CopyInv'
    BY <1>0, <1>8, HoldersKeep, MostStay DEF Age, Orchestrate, Resolve, database
  <2>2. \A j \in Incidents : status[j] # "absent" => status'[j] # "absent"
    BY <1>8 DEF Age, Orchestrate, Resolve, database, Types, RowType
  <2>3. \A s \in Signals : signalRow[s] # 0 => signalRow[s] \in Incidents
    BY DetectionAssumption DEF Types, RowType, Incidents
  <2>4. UNCHANGED <<services, severity, signalRow>>
    BY <1>8 DEF Age, Orchestrate, Resolve, database
  <2> QED BY <1>0, <2>1, <2>2, <2>3, <2>4 DEF CoverInv, IncidentsCoverSignals, Rank
<1>9. CASE UNCHANGED vars BY <1>2, <1>9, MostStay DEF vars
<1> QED BY <1>3, <1>4, <1>5, <1>6, <1>7, <1>8, <1>9 DEF Next

LEMMA CoverInit == Init => CoverInv
<1> SUFFICES ASSUME Init PROVE CoverInv
  OBVIOUS
<1> USE DEF Init, Holds
<1>1. LockInv /\ CopyInv BY DEF LockInv, CopyInv
<1>2. IncidentsCoverSignals BY DEF IncidentsCoverSignals
<1> QED BY <1>1, <1>2 DEF CoverInv

\* An incident covers the signals that are attached to it, for every number of workers
\* that extend one row at the same time: each reads the row under its lock, so what
\* it writes back holds what the others wrote.
THEOREM IncidentsCover == Spec => []IncidentsCoverSignals
<1>1. CoverInv => IncidentsCoverSignals BY DEF CoverInv
<1> QED BY <1>1, TypesInit, TypesStep, CoverInit, CoverStep, PTL DEF Spec

-----------------------------------------------------------------------------
(* Resolved incidents *)

\* A unit whose incident is resolved was overtaken by the resolution.
ResolvedInv ==
  \A w \in Workers : pc[w] # "idle" /\ status[incident[w]] = "resolved" => w \in raced

LEMMA ResolvedStep == Types /\ ResolvedInv /\ [Next]_vars => ResolvedInv'
<1> SUFFICES ASSUME Types, ResolvedInv, [Next]_vars PROVE ResolvedInv'
  OBVIOUS
<1> USE DEF ResolvedInv, Goto, HandlerType, history, database
<1>0. HandlerType /\ RowType /\ UndrawnInv BY DEF Types
<1>1. ASSUME NEW w \in Workers, NEW s \in Signals, ChooseAttach(w, s) PROVE ResolvedInv'
  <2>1. PICK i \in Candidates(s) : incident' = [incident EXCEPT ![w] = i]
    BY <1>1 DEF ChooseAttach
  <2>2. status[i] # "resolved" BY DEF Candidates, OpenIncidents
  <2> QED BY <1>0, <1>1, <2>1, <2>2 DEF ChooseAttach
<1>2. ASSUME NEW w \in Workers, NEW s \in Signals, ChooseOpen(w, s) PROVE ResolvedInv'
  <2>1. token + 1 \in Incidents /\ token + 1 > token
    BY <1>0, <1>2, DetectionAssumption DEF RowType, Incidents, ChooseOpen
  <2>2. status[token + 1] # "resolved" BY <1>0, <2>1 DEF UndrawnInv
  <2> QED BY <1>0, <1>2, <2>2 DEF ChooseOpen
<1>3. ASSUME NEW w \in Workers, Attach(w) \/ Write(w) \/ Publish(w) PROVE ResolvedInv'
  BY <1>0, <1>3 DEF Attach, Write, Publish
<1>4. ASSUME NEW w \in Workers, WriteDuplicate(w) \/ Fail(w) PROVE ResolvedInv'
  BY <1>0, <1>4 DEF WriteDuplicate, Fail, EndUnit
<1>5. ASSUME NEW w \in Workers, Commit(w) PROVE ResolvedInv'
  <2>1. copy[w].status # "resolved" BY DEF Types, CopyType, Rows
  <2>2. \A i \in Incidents : status'[i] = "resolved" => status[i] = "resolved"
    BY <1>0, <1>5, <2>1 DEF Commit, RowType
  <2>3. \A v \in Workers : pc[v] # "idle" => incident[v] \in Incidents
    BY DrawnIsIncident
  <2> QED BY <1>0, <1>5, <2>2, <2>3 DEF Commit, EndUnit
<1>6. ASSUME NEW i \in Incidents, Age(i) \/ Orchestrate(i) PROVE ResolvedInv'
  BY <1>6 DEF Age, Orchestrate, handler
<1>7. ASSUME NEW i \in Incidents, Resolve(i) PROVE ResolvedInv'
  <2> SUFFICES ASSUME NEW w \in Workers, pc[w] # "idle", status'[incident[w]] = "resolved"
               PROVE  w \in raced'
    BY <1>7 DEF Resolve, handler
  <2>1. CASE incident[w] = i
    <3>1. pc[w] = "lock" BY <1>0, <1>7, <2>1 DEF Resolve, RowFree
    <3> QED BY <1>7, <2>1, <3>1 DEF Resolve
  <2>2. CASE incident[w] # i
    <3>1. incident[w] \in Incidents BY DrawnIsIncident
    <3>2. status'[incident[w]] = status[incident[w]]
      BY <1>0, <1>7, <2>2, <3>1 DEF Resolve, RowType
    <3> QED BY <1>7, <3>2 DEF Resolve
  <2> QED BY <2>1, <2>2
<1>8. CASE UNCHANGED vars BY <1>8 DEF vars, handler
<1> QED BY <1>1, <1>2, <1>3, <1>4, <1>5, <1>6, <1>7, <1>8 DEF Next

\* A resolved incident is set back only by a unit that the resolution overtook
\* between its choice and its lock, for every number of workers and resolutions.
THEOREM ReopeningNeedsRace == Spec => ReopenNeedsRace
<1>1. Init => ResolvedInv BY DEF Init, ResolvedInv
<1>2. Types /\ ResolvedInv /\ [Next]_vars =>
        [\A i \in Incidents : status[i] = "resolved" /\ status'[i] # "resolved" =>
           \E w \in raced : incident[w] = i /\ pc[w] = "commit"]_vars
  <2> SUFFICES ASSUME Types, ResolvedInv, Next, NEW i \in Incidents,
                      status[i] = "resolved", status'[i] # "resolved"
               PROVE  \E w \in raced : incident[w] = i /\ pc[w] = "commit"
    OBVIOUS
  <2>1. ASSUME NEW w \in Workers, Commit(w)
        PROVE  \E v \in raced : incident[v] = i /\ pc[v] = "commit"
    <3>1. incident[w] = i BY <2>1 DEF Commit, Types, RowType
    <3>2. w \in raced BY <2>1, <3>1 DEF ResolvedInv, Commit
    <3> QED BY <2>1, <3>1, <3>2 DEF Commit
  <2>2. CASE UNCHANGED status BY <2>2
  <2>3. ASSUME NEW j \in Incidents, Resolve(j) PROVE FALSE
    BY <2>3 DEF Resolve, Types, RowType
  <2> QED BY <2>1, <2>2, <2>3
          DEF Next, ChooseAttach, ChooseOpen, Attach, Write, WriteDuplicate, Publish, Fail,
              Age, Orchestrate, database
<1> QED BY <1>1, <1>2, TypesInit, TypesStep, ResolvedStep, PTL DEF Spec, ReopenNeedsRace

-----------------------------------------------------------------------------
(* Incidents that should be one *)

\* Signal s opened incident i: that is announced, or a unit of work is about to.
Opening(i, s) ==
  \/ \E e \in events : e.type = "opened" /\ e.incident = i /\ e.signal = s
  \/ \E w \in Workers :
       Holds(w) /\ copy[w].status = "open" /\ incident[w] = i /\ s \in signal[w]

\* An incident has one first signal and, once it is committed, covers it; a later one
\* with a related first signal had a reason not to see the earlier.
OpeningInv ==
  \A i, j \in Incidents, s, t \in Signals :
    Opening(i, s) /\ Opening(j, t) =>
      /\ i = j => s = t
      /\ i < j /\ Adjacent(Service[s], Service[t]) => i \in excused[j]
      /\ status[i] # "absent" => Service[s] \in services[i]

\* A unit that attaches has an incident with a row.
AttachInv ==
  \A w \in Workers : pc[w] = "lock" \/ (Holds(w) /\ copy[w].status # "open") =>
    status[incident[w]] # "absent"

LEMMA OpeningsAreDrawn ==
  ASSUME Types, NEW i, NEW s, Opening(i, s)
  PROVE  i \in 1 .. token /\ i \in Incidents
<1>1. i \in 1 .. token
  <2>1. \A e \in events : e.incident \in 1 .. token BY DEF Types, EventType
  <2>2. \A w \in Workers : Holds(w) => incident[w] \in 1 .. token
    BY DrawnIsIncident DEF Holds
  <2> QED BY <2>1, <2>2 DEF Opening
<1>2. i \in Incidents BY <1>1, DetectionAssumption DEF Types, RowType, Incidents
<1> QED BY <1>1, <1>2

\* No signal opens an incident in this step.
NoOpening == \A i \in Incidents, s \in Signals : Opening(i, s)' => Opening(i, s)

LEMMA OpeningKeeps ==
  ASSUME OpeningInv, NoOpening, UNCHANGED excused,
         \A i \in Incidents, s \in Signals :
           Opening(i, s) /\ status'[i] # "absent" /\ Service[s] \in services[i] =>
             Service[s] \in services'[i],
         \A i \in Incidents : status[i] = "absent" => status'[i] = "absent"
  PROVE  OpeningInv'
BY DEF OpeningInv, NoOpening, Adjacent

LEMMA StayingOpensNothing ==
  ASSUME HoldersStay, UNCHANGED events
  PROVE  NoOpening
BY DEF HoldersStay, NoOpening, Opening

LEMMA PublishOpensNothing ==
  ASSUME Types, NEW w \in Workers, Publish(w)
  PROVE  NoOpening
<1>1. HoldersStay BY MostStay
<1>2. events' = events \cup {EventOf(w, s) : s \in signal[w]} BY DEF Publish, EventOf
<1>3. \A s \in signal[w] : /\ EventOf(w, s).type = "opened" => copy[w].status = "open"
                           /\ EventOf(w, s).incident = incident[w]
                           /\ EventOf(w, s).signal = s
  BY DEF EventOf
<1>4. Holds(w) BY DEF Publish, Holds
<1> SUFFICES ASSUME NEW i \in Incidents, NEW s \in Signals, Opening(i, s)'
             PROVE  Opening(i, s)
  BY DEF NoOpening
<1>5. ASSUME NEW e \in events', e.type = "opened", e.incident = i, e.signal = s
      PROVE  Opening(i, s)
  <2>1. CASE e \in events BY <1>5, <2>1 DEF Opening
  <2>2. ASSUME NEW x \in signal[w], e = EventOf(w, x) PROVE Opening(i, s)
    BY <1>3, <1>4, <1>5, <2>2 DEF Opening
  <2> QED BY <1>2, <2>1, <2>2
<1>6. ASSUME NEW v \in Workers, Holds(v)', copy'[v].status = "open", incident'[v] = i,
             s \in signal'[v]
      PROVE  Opening(i, s)
  BY <1>1, <1>6 DEF HoldersStay, Opening
<1> QED BY <1>5, <1>6 DEF Opening

LEMMA AttachOpensNothing ==
  ASSUME Types, NEW w \in Workers, Attach(w)
  PROVE  NoOpening
<1>0. HandlerType /\ CopyType BY DEF Types
<1>1. UNCHANGED <<events, incident, signal>> BY DEF Attach
<1>2. copy'[w].status = "investigating"
  <2>1. PICK s \in signal[w] : copy' = [copy EXCEPT ![w] = Attached(incident[w], s)]
    BY DEF Attach
  <2> QED BY <1>0, <2>1 DEF CopyType, Attached
<1>3. \A v \in Workers \ {w} : (Holds(v)' => Holds(v)) /\ copy'[v] = copy[v]
  BY <1>0 DEF Attach, Goto, Holds, HandlerType, CopyType
<1> QED BY <1>1, <1>2, <1>3 DEF NoOpening, Opening

LEMMA CommitOpenings ==
  ASSUME Types, CoverInv, OpeningInv, AttachInv, NEW w \in Workers, Commit(w)
  PROVE  OpeningInv'
<1> DEFINE I == incident[w]
<1>0. HandlerType /\ CopyType /\ RowType BY DEF Types
<1>1. I \in Incidents BY DrawnIsIncident DEF Commit
<1>2. PICK s \in Signals : signal[w] = {s} BY DEF Types, UnitInv, Commit
<1>3. NoOpening BY MostStay, StayingOpensNothing DEF Commit
<1>4. \A i \in Incidents \ {I} : services'[i] = services[i] /\ status'[i] = status[i]
  BY <1>0 DEF Commit, RowType
<1>5. services'[I] = copy[w].services /\ status'[I] = copy[w].status
  BY <1>0, <1>1 DEF Commit, RowType
<1>6. Holds(w) BY DEF Holds, Commit
<1>7. services[I] \subseteq copy[w].services /\ Service[s] \in copy[w].services
  BY <1>2, <1>6 DEF CoverInv, CopyInv
<1>8. \A x \in Signals : Opening(I, x) => Service[x] \in services'[I]
  <2>1. CASE copy[w].status = "open"
    <3>1. Opening(I, s) BY <1>2, <1>6, <2>1 DEF Opening
    <3> QED BY <1>1, <1>5, <1>7, <3>1 DEF OpeningInv
  <2>2. CASE copy[w].status # "open"
    <3>1. status[I] # "absent" BY <1>6, <2>2 DEF AttachInv
    <3> QED BY <1>1, <1>5, <1>7, <3>1 DEF OpeningInv
  <2> QED BY <2>1, <2>2
<1>9. \A i \in Incidents, x \in Signals :
        Opening(i, x) /\ status'[i] # "absent" => Service[x] \in services'[i]
  BY <1>4, <1>8 DEF OpeningInv
<1>10. UNCHANGED excused BY DEF Commit
<1> QED BY <1>3, <1>9, <1>10 DEF OpeningInv, NoOpening, Adjacent

LEMMA ChooseOpenings ==
  ASSUME Types, OpeningInv, NEW w \in Workers, NEW s \in Signals, ChooseOpen(w, s)
  PROVE  OpeningInv'
<1> DEFINE N == token + 1
           X == aged \cup {i \in 1 .. token : status[i] \in {"absent", "resolved"}}
<1>0. HandlerType /\ CopyType /\ RowType /\ HistoryType BY DEF Types
<1>1. N \in Incidents /\ N > token
  BY <1>0, DetectionAssumption DEF RowType, Incidents, ChooseOpen
<1>2. status[N] = "absent" BY <1>1 DEF Types, UndrawnInv
<1>3. excused' = [excused EXCEPT ![N] = X] BY DEF ChooseOpen
<1>4. excused'[N] = X /\ \A j \in Incidents \ {N} : excused'[j] = excused[j]
  BY <1>0, <1>1, <1>3 DEF HistoryType
<1>5. UNCHANGED <<events, status, services>> BY DEF ChooseOpen, database
<1>6. incident'[w] = N /\ signal'[w] = {s} BY <1>0 DEF ChooseOpen, HandlerType
<1>7. \A v \in Workers \ {w} :
        /\ Holds(v)' => Holds(v)
        /\ incident'[v] = incident[v] /\ signal'[v] = signal[v] /\ copy'[v] = copy[v]
  BY <1>0 DEF ChooseOpen, Goto, Holds, HandlerType, CopyType
<1>8. \A i \in Incidents, x \in Signals :
        Opening(i, x)' => Opening(i, x) \/ (i = N /\ x = s)
  BY <1>5, <1>6, <1>7 DEF Opening
<1>9. \A i \in Incidents, x \in Signals : Opening(i, x) => i \in 1 .. token /\ i # N
  BY <1>0, OpeningsAreDrawn DEF RowType
<1>10. ASSUME NEW i \in Incidents, NEW x \in Signals, Opening(i, x),
              Adjacent(Service[x], Service[s]), i \notin X
       PROVE  FALSE
  <2>1. i \in 1 .. token BY <1>9, <1>10
  <2>2. i \notin aged /\ status[i] \notin {"absent", "resolved"} BY <1>10, <2>1
  <2>3. Service[x] \in services[i] BY <1>10, <2>2 DEF OpeningInv
  <2>4. Adjacent(Service[s], Service[x]) BY <1>10 DEF Adjacent
  <2>5. i \in Candidates(s) BY <2>2, <2>3, <2>4 DEF Candidates, OpenIncidents, Related
  <2> QED BY <2>5 DEF ChooseOpen
<1> HIDE DEF N, X
<1>11. SUFFICES ASSUME NEW i \in Incidents, NEW j \in Incidents, NEW x \in Signals,
                       NEW t \in Signals, Opening(i, x)', Opening(j, t)'
                PROVE  /\ i = j => x = t
                       /\ i < j /\ Adjacent(Service[x], Service[t]) => i \in excused'[j]
                       /\ status'[i] # "absent" => Service[x] \in services'[i]
  BY DEF OpeningInv, Adjacent
<1>12. CASE Opening(i, x) /\ Opening(j, t)
  BY <1>4, <1>5, <1>9, <1>12 DEF OpeningInv
<1>13. CASE i = N /\ x = s
  <2>1. ~(N < j)
    <3>1. CASE j = N BY <1>1, <3>1 DEF Incidents
    <3>2. CASE Opening(j, t) BY <1>0, <1>1, <1>9, <3>2 DEF RowType, Incidents
    <3> QED BY <1>8, <1>11, <3>1, <3>2
  <2>2. i = j => x = t BY <1>8, <1>9, <1>11, <1>13
  <2> QED BY <1>2, <1>5, <1>13, <2>1, <2>2
<1>14. CASE Opening(i, x) /\ j = N /\ t = s
  <2>1. i # j BY <1>9, <1>14
  <2>2. Adjacent(Service[x], Service[t]) => i \in excused'[j] BY <1>4, <1>10, <1>14
  <2>3. status[i] # "absent" => Service[x] \in services[i] BY <1>14 DEF OpeningInv
  <2> QED BY <1>5, <2>1, <2>2, <2>3
<1> QED BY <1>8, <1>11, <1>12, <1>13, <1>14

LEMMA OpeningStep ==
  Types /\ CoverInv /\ OpeningInv /\ AttachInv /\ [Next]_vars => OpeningInv'
<1> SUFFICES ASSUME Types, CoverInv, OpeningInv, AttachInv, [Next]_vars
             PROVE  OpeningInv'
  OBVIOUS
<1>1. ASSUME NoOpening, UNCHANGED <<status, services, excused>> PROVE OpeningInv'
  BY <1>1, OpeningKeeps
<1>2. ASSUME NEW w \in Workers, NEW s \in Signals, ChooseAttach(w, s) PROVE OpeningInv'
  BY <1>1, <1>2, MostStay, StayingOpensNothing DEF ChooseAttach, database, history
<1>3. ASSUME NEW w \in Workers, NEW s \in Signals, ChooseOpen(w, s) PROVE OpeningInv'
  BY <1>3, ChooseOpenings
<1>4. ASSUME NEW w \in Workers, Attach(w) PROVE OpeningInv'
  BY <1>1, <1>4, AttachOpensNothing DEF Attach, database, history
<1>5. ASSUME NEW w \in Workers, Write(w) \/ WriteDuplicate(w) \/ Fail(w) PROVE OpeningInv'
  BY <1>1, <1>5, MostStay, StayingOpensNothing
     DEF Write, WriteDuplicate, Fail, database, history
<1>6. ASSUME NEW w \in Workers, Publish(w) PROVE OpeningInv'
  BY <1>1, <1>6, PublishOpensNothing DEF Publish, database, history
<1>7. ASSUME NEW w \in Workers, Commit(w) PROVE OpeningInv'
  BY <1>7, CommitOpenings
<1>8. ASSUME NEW i \in Incidents, Age(i) \/ Orchestrate(i) PROVE OpeningInv'
  BY <1>1, <1>8, MostStay, StayingOpensNothing DEF Age, Orchestrate, database, history
<1>9. ASSUME NEW i \in Incidents, Resolve(i) PROVE OpeningInv'
  <2>1. NoOpening BY <1>9, MostStay, StayingOpensNothing DEF Resolve
  <2>2. \A j \in Incidents : status[j] = "absent" => status'[j] = "absent"
    BY <1>9 DEF Resolve, Types, RowType
  <2> QED BY <1>9, <2>1, <2>2, OpeningKeeps DEF Resolve
<1>10. CASE UNCHANGED vars
  BY <1>1, <1>10, MostStay, StayingOpensNothing DEF vars, database, history
<1> QED BY <1>2, <1>3, <1>4, <1>5, <1>6, <1>7, <1>8, <1>9, <1>10 DEF Next

LEMMA AttachStep == Types /\ AttachInv /\ [Next]_vars => AttachInv'
<1> SUFFICES ASSUME Types, AttachInv, [Next]_vars PROVE AttachInv'
  OBVIOUS
<1> USE DEF AttachInv, Goto, Holds, HandlerType, CopyType, database
<1>0. HandlerType /\ CopyType /\ RowType BY DEF Types
<1>1. ASSUME NEW w \in Workers, NEW s \in Signals, ChooseAttach(w, s) PROVE AttachInv'
  <2>1. PICK i \in Candidates(s) : incident' = [incident EXCEPT ![w] = i]
    BY <1>1 DEF ChooseAttach
  <2>2. status[i] # "absent" BY DEF Candidates, OpenIncidents
  <2> QED BY <1>0, <1>1, <2>1, <2>2 DEF ChooseAttach
<1>2. ASSUME NEW w \in Workers, NEW s \in Signals, ChooseOpen(w, s) PROVE AttachInv'
  <2>1. copy'[w].status = "open" BY <1>0, <1>2 DEF ChooseOpen
  <2>2. pc'[w] = "write" /\ UNCHANGED status BY <1>0, <1>2 DEF ChooseOpen
  <2>3. \A v \in Workers \ {w} : /\ pc'[v] = pc[v] /\ incident'[v] = incident[v]
                                 /\ copy'[v] = copy[v]
    BY <1>0, <1>2 DEF ChooseOpen
  <2> QED BY <2>1, <2>2, <2>3
<1>3. ASSUME NEW w \in Workers, Attach(w) PROVE AttachInv'
  <2>1. status[incident[w]] # "absent" BY <1>3 DEF Attach
  <2>2. \A v \in Workers \ {w} : pc'[v] = pc[v] /\ copy'[v] = copy[v]
    BY <1>0, <1>3 DEF Attach
  <2>3. UNCHANGED <<status, incident>> BY <1>3 DEF Attach
  <2> QED BY <2>1, <2>2, <2>3
<1>4. ASSUME NEW w \in Workers, Write(w) \/ Publish(w) PROVE AttachInv'
  BY <1>0, <1>4 DEF Write, Publish
<1>5. ASSUME NEW w \in Workers, WriteDuplicate(w) \/ Fail(w) PROVE AttachInv'
  BY <1>0, <1>5 DEF WriteDuplicate, Fail, EndUnit
<1>6. ASSUME NEW w \in Workers, Commit(w) PROVE AttachInv'
  <2>1. copy[w].status # "absent" BY <1>0 DEF Rows
  <2>2. \A i \in Incidents : status[i] # "absent" => status'[i] # "absent"
    BY <1>0, <1>6, <2>1 DEF Commit, RowType
  <2>3. \A v \in Workers : pc[v] # "idle" => incident[v] \in Incidents
    BY DrawnIsIncident
  <2> QED BY <1>0, <1>6, <2>2, <2>3 DEF Commit, EndUnit
<1>7. ASSUME NEW i \in Incidents, Age(i) \/ Orchestrate(i) \/ Resolve(i) PROVE AttachInv'
  <2>1. \A j \in Incidents : status[j] # "absent" => status'[j] # "absent"
    BY <1>0, <1>7 DEF Age, Orchestrate, Resolve, RowType
  <2>2. \A v \in Workers : pc[v] # "idle" => incident[v] \in Incidents
    BY DrawnIsIncident
  <2>3. UNCHANGED <<pc, incident, copy>> BY <1>7 DEF Age, Orchestrate, Resolve, handler
  <2> QED BY <1>0, <2>1, <2>2, <2>3
<1>8. CASE UNCHANGED vars BY <1>8 DEF vars, handler
<1> QED BY <1>1, <1>2, <1>3, <1>4, <1>5, <1>6, <1>7, <1>8 DEF Next

LEMMA OpeningsSplit == Types /\ OpeningInv => SplitNeedsRace
<1> SUFFICES ASSUME Types, OpeningInv, NEW e \in events, NEW f \in events,
                    e.type = "opened", f.type = "opened", e.incident < f.incident,
                    Adjacent(Service[e.signal], Service[f.signal])
             PROVE  e.incident \in excused[f.incident]
  BY DEF SplitNeedsRace
<1>1. e.signal \in Signals /\ f.signal \in Signals BY DEF Types, EventType
<1>2. Opening(e.incident, e.signal) /\ Opening(f.incident, f.signal) BY DEF Opening
<1>3. e.incident \in Incidents /\ f.incident \in Incidents BY <1>2, OpeningsAreDrawn
<1> QED BY <1>1, <1>2, <1>3 DEF OpeningInv

\* Two incidents for one fault need a race, for every topology and every number of
\* workers: a first signal that is related to an earlier incident finds it unless it is
\* not committed, out of the window or resolved.  The statement is about the moment
\* the later one was opened, and holds whatever is committed or resolved afterwards.
THEOREM SplitsNeedRace == Spec => []SplitNeedsRace
<1>1. Init => OpeningInv /\ AttachInv
  BY DEF Init, OpeningInv, AttachInv, Opening, Holds
<1> QED BY <1>1, TypesInit, TypesStep, CoverInit, CoverStep, OpeningStep, AttachStep,
           OpeningsSplit, PTL DEF Spec

-----------------------------------------------------------------------------
(* Events and rows *)

\* The unit of worker w has inserted its signal.
Inserted(w) == pc[w] \in {"publish", "commit"}

Announced(s, i) == \E e \in events : e.signal = s /\ e.incident = i

\* A signal is inserted once, by one unit, and its event precedes the commit.
InsertInv ==
  /\ \A w \in Workers : Inserted(w) => \A s \in signal[w] : signalRow[s] = 0
  /\ \A v, w \in Workers : Inserted(v) /\ Inserted(w) /\ signal[v] = signal[w] => v = w
  /\ \A w \in Workers : pc[w] = "commit" => \A s \in signal[w] : Announced(s, incident[w])

RowsAnnounced == \A s \in Signals : signalRow[s] # 0 => Announced(s, signalRow[s])

LEMMA InsertStep == Types /\ InsertInv /\ [Next]_vars => InsertInv'
<1> SUFFICES ASSUME Types, InsertInv, [Next]_vars PROVE InsertInv'
  OBVIOUS
<1> USE DEF InsertInv, Inserted, Announced, Goto, HandlerType, database
<1>0. HandlerType /\ RowType BY DEF Types
<1>1. ASSUME NEW w \in Workers, NEW s \in Signals, ChooseAttach(w, s) \/ ChooseOpen(w, s)
      PROVE  InsertInv'
  <2>1. pc'[w] \in {"lock", "write"} BY <1>0, <1>1 DEF ChooseAttach, ChooseOpen
  <2>2. \A v \in Workers \ {w} : /\ pc'[v] = pc[v] /\ signal'[v] = signal[v]
                                 /\ incident'[v] = incident[v]
    BY <1>0, <1>1 DEF ChooseAttach, ChooseOpen
  <2>3. UNCHANGED <<events, signalRow>> BY <1>1 DEF ChooseAttach, ChooseOpen
  <2> QED BY <2>1, <2>2, <2>3
<1>2. ASSUME NEW w \in Workers, Attach(w) PROVE InsertInv'
  BY <1>0, <1>2 DEF Attach
<1>3. ASSUME NEW w \in Workers, Write(w) PROVE InsertInv'
  BY <1>0, <1>3 DEF Write, SignalFree
<1>4. ASSUME NEW w \in Workers, Publish(w) PROVE InsertInv'
  <2>1. events' = events \cup {EventOf(w, s) : s \in signal[w]}
    BY <1>4 DEF Publish, EventOf
  <2>2. \A s \in signal[w] : /\ EventOf(w, s) \in events'
                             /\ EventOf(w, s).signal = s
                             /\ EventOf(w, s).incident = incident[w]
    BY <2>1 DEF EventOf
  <2> QED BY <1>0, <1>4, <2>1, <2>2 DEF Publish
<1>5. ASSUME NEW w \in Workers, WriteDuplicate(w) \/ Fail(w) PROVE InsertInv'
  BY <1>0, <1>5 DEF WriteDuplicate, Fail, EndUnit
<1>6. ASSUME NEW w \in Workers, Commit(w) PROVE InsertInv'
  <2>1. pc'[w] = "idle" /\ UNCHANGED events BY <1>0, <1>6 DEF Commit, EndUnit
  <2>2. \A v \in Workers \ {w} : /\ pc'[v] = pc[v] /\ signal'[v] = signal[v]
                                 /\ incident'[v] = incident[v]
    BY <1>0, <1>6 DEF Commit, EndUnit
  <2>3. ASSUME NEW v \in Workers \ {w}, Inserted(v), NEW s \in signal[v]
        PROVE  signalRow'[s] = 0
    <3>1. signal[v] # signal[w] BY <1>6, <2>3 DEF Commit
    <3>2. PICK x, y \in Signals : signal[v] = {x} /\ signal[w] = {y}
      BY <1>6, <2>3 DEF Types, UnitInv, Commit
    <3>3. s \notin signal[w] BY <2>3, <3>1, <3>2
    <3> QED BY <1>0, <1>6, <2>3, <3>3 DEF Commit
  <2> QED BY <2>1, <2>2, <2>3
<1>7. ASSUME NEW i \in Incidents, Age(i) \/ Orchestrate(i) \/ Resolve(i) PROVE InsertInv'
  BY <1>7 DEF Age, Orchestrate, Resolve, handler
<1>8. CASE UNCHANGED vars BY <1>8 DEF vars, handler
<1> QED BY <1>1, <1>2, <1>3, <1>4, <1>5, <1>6, <1>7, <1>8 DEF Next

LEMMA AnnouncedStep == Types /\ InsertInv /\ RowsAnnounced /\ [Next]_vars => RowsAnnounced'
<1> SUFFICES ASSUME Types, InsertInv, RowsAnnounced, [Next]_vars PROVE RowsAnnounced'
  OBVIOUS
<1> USE DEF RowsAnnounced, Announced, database
<1>1. ASSUME NEW w \in Workers, Commit(w) PROVE RowsAnnounced'
  BY <1>1 DEF Commit, InsertInv
<1>2. ASSUME NEW w \in Workers, Publish(w) PROVE RowsAnnounced'
  BY <1>2 DEF Publish
<1>3. CASE UNCHANGED <<events, signalRow>> BY <1>3
<1> QED BY <1>1, <1>2, <1>3
        DEF Next, ChooseAttach, ChooseOpen, Attach, Write, WriteDuplicate, Fail, Age,
            Orchestrate, Resolve, vars


\* The events whose incident does not hold their signal, and the units that are to
\* make it so.
Odd        == {e \in events : signalRow[e.signal] # e.incident}
Committing == {w \in Workers : pc[w] = "commit"}

CountInv ==
  /\ IsFiniteSet(events) /\ IsFiniteSet(Committing)
  /\ Cardinality(Odd) <= faults + Cardinality(Committing)

LEMMA OddIsFinite == CountInv => IsFiniteSet(Odd) /\ Cardinality(Odd) \in Nat
<1> SUFFICES ASSUME CountInv PROVE IsFiniteSet(Odd)
  BY FS_CardinalityType
<1>1. Odd \subseteq events BY DEF Odd
<1> QED BY <1>1, FS_Subset DEF CountInv

\* A step that announces nothing, writes no signal and brings no unit to its commit.
LEMMA CountKeeps ==
  ASSUME Types, CountInv, UNCHANGED <<events, signalRow, Committing>>,
         faults' \in {faults, faults + 1}
  PROVE  CountInv'
<1>1. UNCHANGED Odd BY DEF Odd
<1>2. Cardinality(Odd) \in Nat /\ Cardinality(Committing) \in Nat /\ faults \in Nat
  BY OddIsFinite, FS_CardinalityType, DetectionAssumption
     DEF CountInv, Types, HistoryType
<1> QED BY <1>1, <1>2 DEF CountInv

LEMMA PublishCounts ==
  ASSUME Types, CountInv, NEW w \in Workers, Publish(w)
  PROVE  CountInv'
<1>1. PICK s \in Signals : signal[w] = {s} BY DEF Types, UnitInv, Publish
<1>2. events' = events \cup {EventOf(w, s)}
  <2>1. events' = events \cup {EventOf(w, x) : x \in signal[w]} BY DEF Publish, EventOf
  <2> QED BY <1>1, <2>1
<1>3. UNCHANGED <<signalRow, faults>> BY DEF Publish, database
<1>4. Odd' \subseteq Odd \cup {EventOf(w, s)} BY <1>2, <1>3 DEF Odd
<1>5. Committing' = Committing \cup {w} /\ w \notin Committing
  BY DEF Publish, Goto, Committing, Types, HandlerType
<1>6. IsFiniteSet(events') BY <1>2, FS_AddElement DEF CountInv
<1>7. /\ IsFiniteSet(Committing') /\ Cardinality(Committing') = Cardinality(Committing) + 1
  BY <1>5, FS_AddElement DEF CountInv
<1>8. Cardinality(Odd') <= Cardinality(Odd) + 1
  <2> DEFINE A == Odd \cup {EventOf(w, s)}
  <2>1. /\ IsFiniteSet(A)
        /\ \/ Cardinality(A) = Cardinality(Odd)
           \/ Cardinality(A) = Cardinality(Odd) + 1
    BY OddIsFinite, FS_AddElement
  <2>2. Cardinality(Odd') <= Cardinality(A) BY <1>4, <2>1, FS_Subset
  <2>3. Cardinality(Odd') \in Nat /\ Cardinality(A) \in Nat /\ Cardinality(Odd) \in Nat
    BY <1>4, <2>1, FS_Subset, FS_CardinalityType, OddIsFinite
  <2> HIDE DEF A
  <2> QED BY <2>1, <2>2, <2>3
<1>9. Cardinality(Committing) \in Nat /\ Cardinality(Odd) \in Nat /\ faults \in Nat
  BY OddIsFinite, FS_CardinalityType, DetectionAssumption
     DEF CountInv, Types, HistoryType
<1>10. Cardinality(Odd') \in Nat
  <2>1. Odd' \subseteq events' BY DEF Odd
  <2> QED BY <1>6, <2>1, FS_Subset, FS_CardinalityType
<1> QED BY <1>3, <1>6, <1>7, <1>8, <1>9, <1>10 DEF CountInv

\* A unit that ends without having committed costs a fault when it was about to.
LEMMA EndCounts ==
  ASSUME Types, CountInv, NEW w \in Workers, WriteDuplicate(w) \/ Fail(w)
  PROVE  CountInv'
<1>1. UNCHANGED <<events, signalRow, Odd>>
  BY DEF WriteDuplicate, Fail, database, Odd
<1>2. Committing' = Committing \ {w}
  BY DEF WriteDuplicate, Fail, EndUnit, Goto, Committing, Types, HandlerType
<1>3. /\ Cardinality(Odd) \in Nat /\ Cardinality(Committing) \in Nat /\ faults \in Nat
  BY OddIsFinite, FS_CardinalityType, DetectionAssumption
     DEF CountInv, Types, HistoryType
<1>4. CASE w \notin Committing
  <2>1. UNCHANGED Committing /\ faults' \in {faults, faults + 1}
    BY <1>2, <1>4 DEF WriteDuplicate, Fail, Spend
  <2> QED BY <1>1, <2>1, CountKeeps
<1>5. CASE w \in Committing
  <2>1. faults' = faults + 1 BY <1>5 DEF Committing, WriteDuplicate, Fail, Spend
  <2>2. /\ IsFiniteSet(Committing') /\ Cardinality(Committing') = Cardinality(Committing) - 1
    BY <1>2, <1>5, FS_RemoveElement DEF CountInv
  <2> QED BY <1>1, <1>3, <2>1, <2>2 DEF CountInv
<1> QED BY <1>4, <1>5

LEMMA CommitCounts ==
  ASSUME Types, InsertInv, CountInv, NEW w \in Workers, Commit(w)
  PROVE  CountInv'
<1>0. HandlerType /\ RowType BY DEF Types
<1>1. PICK s \in Signals : signal[w] = {s} BY DEF Types, UnitInv, Commit
<1>2. signalRow[s] = 0 BY <1>1 DEF InsertInv, Inserted, Commit
<1>3. PICK e \in events : e.signal = s /\ e.incident = incident[w]
  BY <1>1 DEF InsertInv, Announced, Commit
<1>4. signalRow' = [x \in Signals |-> IF x = s THEN incident[w] ELSE signalRow[x]]
  BY <1>1 DEF Commit
<1>5. \A f \in events : f.signal \in Signals /\ f.incident # 0
  <2>1. \A f \in events : f.signal \in Signals /\ f.incident \in 1 .. token
    BY DEF Types, EventType
  <2> QED BY <1>0, <2>1 DEF RowType
<1>6. UNCHANGED <<events, faults>> BY DEF Commit
<1>7. Odd' \subseteq Odd \ {e}
  <2> SUFFICES ASSUME NEW f \in events, signalRow'[f.signal] # f.incident
               PROVE  signalRow[f.signal] # f.incident /\ f # e
    BY <1>6 DEF Odd
  <2>1. CASE f.signal = s
    <3>1. signalRow[f.signal] # f.incident BY <1>2, <1>5, <2>1
    <3>2. signalRow'[f.signal] = incident[w] BY <1>4, <1>5, <2>1
    <3> QED BY <1>3, <3>1, <3>2
  <2>2. CASE f.signal # s BY <1>3, <1>4, <1>5, <2>2
  <2> QED BY <2>1, <2>2
<1>8. e \in Odd BY <1>2, <1>3, <1>5 DEF Odd
<1>9. IsFiniteSet(Odd \ {e}) /\ Cardinality(Odd \ {e}) = Cardinality(Odd) - 1
  BY <1>8, OddIsFinite, FS_RemoveElement
<1>10. Cardinality(Odd') <= Cardinality(Odd) - 1 /\ Cardinality(Odd') \in Nat
  BY <1>7, <1>9, FS_Subset, FS_CardinalityType
<1>11. Committing' = Committing \ {w} /\ w \in Committing
  BY <1>0 DEF Commit, EndUnit, Goto, Committing, HandlerType
<1>12. /\ IsFiniteSet(Committing') /\ Cardinality(Committing') = Cardinality(Committing) - 1
  BY <1>11, FS_RemoveElement DEF CountInv
<1>13. Cardinality(Odd) \in Nat /\ Cardinality(Committing) \in Nat /\ faults \in Nat
  BY OddIsFinite, FS_CardinalityType, DetectionAssumption
     DEF CountInv, Types, HistoryType
<1> QED BY <1>6, <1>10, <1>12, <1>13 DEF CountInv

LEMMA CountStep == Types /\ InsertInv /\ CountInv /\ [Next]_vars => CountInv'
<1> SUFFICES ASSUME Types, InsertInv, CountInv, [Next]_vars PROVE CountInv'
  OBVIOUS
<1> USE DEF Committing, database, Goto
<1>0. HandlerType BY DEF Types
<1>1. ASSUME NEW w \in Workers, NEW s \in Signals, ChooseAttach(w, s) \/ ChooseOpen(w, s)
      PROVE  CountInv'
  <2>1. UNCHANGED Committing BY <1>0, <1>1 DEF ChooseAttach, ChooseOpen, HandlerType
  <2>2. UNCHANGED <<events, signalRow>> /\ faults' \in {faults, faults + 1}
    BY <1>1 DEF ChooseAttach, ChooseOpen, Deliver, Spend
  <2> QED BY <2>1, <2>2, CountKeeps
<1>2. ASSUME NEW w \in Workers, Attach(w) \/ Write(w) PROVE CountInv'
  <2>1. UNCHANGED Committing BY <1>0, <1>2 DEF Attach, Write, HandlerType
  <2> QED BY <1>2, <2>1, CountKeeps DEF Attach, Write
<1>3. ASSUME NEW w \in Workers, Publish(w) PROVE CountInv' BY <1>3, PublishCounts
<1>4. ASSUME NEW w \in Workers, WriteDuplicate(w) \/ Fail(w) PROVE CountInv'
  BY <1>4, EndCounts
<1>5. ASSUME NEW w \in Workers, Commit(w) PROVE CountInv' BY <1>5, CommitCounts
<1>6. ASSUME NEW i \in Incidents, Age(i) \/ Orchestrate(i) \/ Resolve(i) PROVE CountInv'
  BY <1>6, CountKeeps DEF Age, Orchestrate, Resolve, handler
<1>7. CASE UNCHANGED vars BY <1>7, CountKeeps DEF vars, handler
<1> QED BY <1>1, <1>2, <1>3, <1>4, <1>5, <1>6, <1>7 DEF Next

\* The topic and the tables tell the same but for the units under way and the faults,
\* for every number of workers, signals and faults.
THEOREM EventsAndRowsMatch == Spec => []EventsMatchRows
<1>1. Init => InsertInv /\ RowsAnnounced /\ CountInv
  <2> SUFFICES ASSUME Init PROVE InsertInv /\ RowsAnnounced /\ CountInv
    OBVIOUS
  <2>1. InsertInv /\ RowsAnnounced BY DEF Init, InsertInv, RowsAnnounced, Inserted
  <2>2. Odd = {} /\ Committing = {} /\ events = {} BY DEF Init, Odd, Committing
  <2>3. CountInv BY <2>2, FS_EmptySet DEF CountInv, Init
  <2> QED BY <2>1, <2>3
<1>2. RowsAnnounced /\ CountInv => EventsMatchRows
  BY DEF RowsAnnounced, CountInv, EventsMatchRows, Announced, Odd, Committing
<1> QED BY <1>1, <1>2, TypesInit, TypesStep, InsertStep, AnnouncedStep, CountStep, PTL
        DEF Spec

=============================================================================
