--------------------------- MODULE KafkaConsumer ---------------------------
(***************************************************************************)
(* KafkaBus.consume, aegis_common/kafka.py, as the members of one consumer *)
(* group run it: one record at a time, its handler, then a commit of the   *)
(* member's position in every partition it owns.  An exception of the      *)
(* handler or of the commit is logged and the loop goes on.  The broker    *)
(* and aiokafka are modelled as the loop uses them: a rebalance hands the  *)
(* partitions out anew and every position starts at the committed offset.  *)
(***************************************************************************)
EXTENDS Naturals, FiniteSets

CONSTANTS
  Members,     \* processes of the group (replicas of one service)
  Stoppable,   \* those that may be asked to stop
  Partitions,
  Capacity,    \* bound on the records of a partition
  MaxFailures, \* bound on handlers and commits that raise
  MaxResets    \* bound on crashes and rebalances

ASSUME ConsumerAssumption ==
  /\ Stoppable \subseteq Members /\ Stoppable # Members
  /\ Capacity \in Nat /\ MaxFailures \in Nat /\ MaxResets \in Nat

Records == Partitions \X (1 .. Capacity)

VARIABLES
  end,        \* per partition: records produced
  owner,      \* per partition: the member it is assigned to
  position,   \* per partition: records its owner has taken
  committed,  \* per partition: the committed offset
  pc,         \* per member: "poll", "handle", "commit" or "stopped"
  current,    \* per member: the record in its handler, if any
  stopping,   \* the members whose stop_event is set
  handled,    \* records some handler returned from
  failed,     \* records some handler raised on
  tries,      \* history: how often a record was given to a handler
  failures, resets  \* history: faults so far

broker  == <<end, owner, position, committed>>
results == <<handled, failed>>
faults  == <<failures, resets>>
vars    == <<broker, pc, current, stopping, results, tries, faults>>

Ended == handled \cup failed
Alive == {m \in Members : pc[m] # "stopped"}

TypeOK ==
  /\ end \in [Partitions -> 0 .. Capacity]
  /\ owner \in [Partitions -> Members]
  /\ position \in [Partitions -> 0 .. Capacity]
  /\ committed \in [Partitions -> 0 .. Capacity]
  /\ pc \in [Members -> {"poll", "handle", "commit", "stopped"}]
  /\ current \in [Members -> SUBSET Records]
  /\ stopping \subseteq Stoppable
  /\ handled \subseteq Records
  /\ failed \subseteq Records
  /\ tries \in [Records -> Nat]
  /\ failures \in 0 .. MaxFailures
  /\ resets \in 0 .. MaxResets

Init ==
  /\ end = [p \in Partitions |-> 0]
  /\ owner \in [Partitions -> Members]
  /\ position = [p \in Partitions |-> 0]
  /\ committed = [p \in Partitions |-> 0]
  /\ pc = [m \in Members |-> "poll"]
  /\ current = [m \in Members |-> {}]
  /\ stopping = {}
  /\ handled = {} /\ failed = {}
  /\ tries = [r \in Records |-> 0]
  /\ failures = 0 /\ resets = 0

-----------------------------------------------------------------------------

\* A rebalance: the partitions go to the given members, which start over at the
\* committed offsets.  Handlers that are running keep running.
Assign(members) ==
  /\ owner' \in [Partitions -> members]
  /\ position' = committed'

Produce(p) ==
  /\ end[p] < Capacity
  /\ end' = [end EXCEPT ![p] = @ + 1]
  /\ UNCHANGED <<owner, position, committed, pc, current, stopping, results,
                 tries, faults>>

\* Mutant: off by one at the end of the log.
TakePastEnd(m, p) ==
  /\ pc[m] = "poll" /\ owner[p] = m /\ position[p] <= end[p]
  /\ position' = [position EXCEPT ![p] = @ + 1]
  /\ UNCHANGED <<end, owner, committed, pc, current, stopping, results, tries,
                 faults>>

\* Mutant: the consumer starts at the newest record.
TakeLatest(m, p) ==
  /\ pc[m] = "poll" /\ owner[p] = m /\ position[p] < end[p]
  /\ current' = [current EXCEPT ![m] = {<<p, end[p]>>}]
  /\ tries' = [tries EXCEPT ![<<p, end[p]>>] = @ + 1]
  /\ position' = [position EXCEPT ![p] = end[p]]
  /\ pc' = [pc EXCEPT ![m] = "handle"]
  /\ UNCHANGED <<end, owner, committed, stopping, results, faults>>

\* The iterator yields the next record of a partition the member owns and moves
\* its position past it.  It waits here while there is none, stop_event or not.
Take(m, p) ==
  /\ pc[m] = "poll" /\ owner[p] = m /\ position[p] < end[p]
  /\ current' = [current EXCEPT ![m] = {<<p, position[p] + 1>>}]
  /\ tries' = [tries EXCEPT ![<<p, position[p] + 1>>] = @ + 1]
  /\ position' = [position EXCEPT ![p] = @ + 1]
  /\ pc' = [pc EXCEPT ![m] = "handle"]
  /\ UNCHANGED <<end, owner, committed, stopping, results, faults>>

\* Mutant: the break leaves the try statement, not the loop.
EndOfBodyGoesOn(m) ==
  /\ pc' = [pc EXCEPT ![m] = "poll"]
  /\ UNCHANGED <<owner, position>>

\* The end of the loop body: stop_event is looked at here and only here.  A
\* member that stops leaves the group.
EndOfBody(m) ==
  IF m \in stopping
  THEN /\ pc' = [pc EXCEPT ![m] = "stopped"]
       /\ Assign(Alive \ {m})
  ELSE /\ pc' = [pc EXCEPT ![m] = "poll"]
       /\ UNCHANGED <<owner, position>>

HandlerReturns(m) ==
  /\ pc[m] = "handle"
  /\ handled' = handled \cup current[m]
  /\ current' = [current EXCEPT ![m] = {}]
  /\ pc' = [pc EXCEPT ![m] = "commit"]
  /\ UNCHANGED <<broker, stopping, failed, tries, faults>>

\* Mutant: the exception ends the loop and nothing takes the member's place.
HandlerRaisesEndsLoop(m) ==
  /\ pc[m] = "handle" /\ failures < MaxFailures
  /\ failures' = failures + 1
  /\ pc' = [pc EXCEPT ![m] = "stopped"]
  /\ UNCHANGED <<broker, current, stopping, results, tries, resets>>

\* Mutant: the loop seeks back to the record.
HandlerRaisesSeeksBack(m) ==
  /\ pc[m] = "handle" /\ failures < MaxFailures
  /\ failures' = failures + 1
  /\ position' = [p \in Partitions |-> IF owner[p] = m THEN committed[p] ELSE position[p]]
  /\ current' = [current EXCEPT ![m] = {}]
  /\ pc' = [pc EXCEPT ![m] = "poll"]
  /\ UNCHANGED <<end, owner, committed, stopping, results, tries, resets>>

\* The exception is logged ("message will be redelivered") and the loop goes on;
\* the position stays behind the record.
HandlerRaises(m) ==
  /\ pc[m] = "handle" /\ failures < MaxFailures
  /\ failures' = failures + 1
  /\ failed' = failed \cup current[m]
  /\ current' = [current EXCEPT ![m] = {}]
  /\ UNCHANGED <<end, committed, stopping, handled, tries, resets>>
  /\ EndOfBody(m)

\* Mutant: the commit does not wait for the handler.
CommitEarly(m) ==
  /\ pc[m] \in {"handle", "commit"}
  /\ committed' = [p \in Partitions |->
                     IF owner[p] = m THEN position[p] ELSE committed[p]]
  /\ pc' = [pc EXCEPT ![m] = "poll"]
  /\ current' = [current EXCEPT ![m] = {}]
  /\ UNCHANGED <<end, owner, position, stopping, results, tries, faults>>

\* consumer.commit() without arguments: the position of every partition owned.
Commit(m) ==
  /\ pc[m] = "commit"
  /\ committed' = [p \in Partitions |->
                     IF owner[p] = m THEN position[p] ELSE committed[p]]
  /\ EndOfBody(m)
  /\ UNCHANGED <<end, current, stopping, results, tries, faults>>

\* The broker refuses or the connection is lost: logged like a failed handler.
CommitRaises(m) ==
  /\ pc[m] = "commit" /\ failures < MaxFailures
  /\ failures' = failures + 1
  /\ UNCHANGED <<end, committed, current, stopping, results, tries, resets>>
  /\ EndOfBody(m)

-----------------------------------------------------------------------------

\* SIGTERM sets the event; nothing else happens.
RequestStop(m) ==
  /\ m \in Stoppable \ stopping
  /\ stopping' = stopping \cup {m}
  /\ UNCHANGED <<broker, pc, current, results, tries, faults>>

\* The process dies inside or outside a handler; a new one takes its place, whose
\* event is not set.
Crash(m) ==
  /\ pc[m] # "stopped" /\ resets < MaxResets
  /\ resets' = resets + 1
  /\ pc' = [pc EXCEPT ![m] = "poll"]
  /\ current' = [current EXCEPT ![m] = {}]
  /\ stopping' = stopping \ {m}
  /\ UNCHANGED <<end, committed, results, tries, failures>>
  /\ Assign(Alive)

\* A member joins, leaves or misses its heartbeats.
Rebalance ==
  /\ resets < MaxResets
  /\ resets' = resets + 1
  /\ UNCHANGED <<end, committed, pc, current, stopping, results, tries, failures>>
  /\ Assign(Alive)

Loop(m) ==
  \/ \E p \in Partitions : Take(m, p)
  \/ HandlerReturns(m) \/ HandlerRaises(m)
  \/ Commit(m) \/ CommitRaises(m)

Next ==
  \/ \E p \in Partitions : Produce(p)
  \/ \E m \in Members : Loop(m) \/ RequestStop(m) \/ Crash(m)
  \/ Rebalance

\* The event loop of a live member runs: it takes a record that is there, its
\* handler returns or raises, its commit returns or raises.
Fairness == \A m \in Members : WF_vars(Loop(m))

Spec == Init /\ [][Next]_vars /\ Fairness

-----------------------------------------------------------------------------
(* Safety and progress *)

\* Whatever fails, crashes or moves: the group never commits past a record that
\* no handler was given and ended.
NoRecordSkipped ==
  \A p \in Partitions : \A o \in 1 .. committed[p] : <<p, o>> \in Ended

\* A member that lost a partition, or got it back while its handler ran, never
\* moves the committed offset backwards.
CommittedMonotone ==
  [][\A p \in Partitions : committed'[p] >= committed[p]]_vars

\* A handler is given a record of a partition (all events of an incident share
\* one) only after the handlers of all earlier ones ended.
PartitionOrder ==
  [][\A p \in Partitions, o \in 1 .. Capacity :
        tries'[<<p, o>>] # tries[<<p, o>>] =>
          \A q \in 1 .. o - 1 : <<p, q>> \in Ended]_vars

\* A record comes again only when a crash, a rebalance or a departing member has
\* reset the positions: a failure alone never brings it back.
RedeliveryNeedsReset ==
  \A r \in Records :
    tries[r] <= 1 + resets + Cardinality(Members \ Alive)

\* The group keeps the contract of Delivery: records in order, again only while no
\* committed offset is past them, and offsets that move forward over ended records,
\* whatever fails, crashes or moves.
Contract == INSTANCE Delivery WITH
  running <- [p \in Partitions |->
                {o \in 1 .. Capacity : \E m \in Members : <<p, o>> \in current[m]}],
  ended <- [p \in Partitions |-> {o \in 1 .. Capacity : <<p, o>> \in Ended}]

ImplementsDelivery == Contract!Spec

\* A member asked to stop while it is busy stops, unless it is replaced: the record
\* in its hands is its last, however many wait.  An idle one has no such promise.
BusyStops ==
  \A m \in Members :
    m \in stopping /\ pc[m] # "poll" ~> m \notin stopping \/ pc[m] = "stopped"

\* Every record produced is given to some handler, which ends.
EveryRecordEnds ==
  \A p \in Partitions : \A o \in 1 .. Capacity :
    o <= end[p] ~> <<p, o>> \in Ended

=============================================================================
