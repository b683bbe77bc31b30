------------------------------ MODULE Console ------------------------------
(***************************************************************************)
(* The live half of aegis_services/console_api/app.py: the consumer task   *)
(* of one console, the Broadcaster with its asyncio.Lock, and the          *)
(* /ws/incidents handler of each connection.  Only awaits let another task *)
(* run, so a step is what lies between two of them.                        *)
(*                                                                         *)
(* asyncio.Lock is first in, first out: queue holds the tasks that wait    *)
(* for it, and its head goes on while no broadcast holds it.  uvicorn's    *)
(* keepalive pings close a connection whose peer does not answer, which is *)
(* why a send ends, one way or the other.                                  *)
(*                                                                         *)
(* The consumer is a group of its own with a position on the topic.  A     *)
(* member whose session is lost joins again, and goes on behind the offset *)
(* that was last committed by itself, or behind the newest record when     *)
(* none was.  The topic is one of its partitions here: all events of an    *)
(* incident are in one, and those of the others only take their turns.     *)
(*                                                                         *)
(* What every module has is named for the console here, for EdgeProofs,    *)
(* which extends Ingestion and this module.                                *)
(***************************************************************************)
EXTENDS Naturals, Sequences, FiniteSets, SequencesExt

CONSTANTS
  Conns,       \* WebSocket connections, each made once
  MaxEvents,   \* bound on the records of incidents.lifecycle
  MaxBreaks    \* bound on processes that die, consumer tasks that end and rejoins

ASSUME ConsoleAssumption == {MaxEvents, MaxBreaks} \subseteq Nat

Broadcast == <<"broadcast">>
Tasks     == {Broadcast} \cup ({"add", "discard"} \X Conns)

VARIABLES
  end,       \* records on the topic
  live,      \* the consumer task: "start", "poll", "wait", "send" or "dead"
  position,  \* the record it took last
  oldest,    \* the oldest record behind which its group may find it again
  fresh,     \* its group may have committed nothing yet
  todo,      \* clients this broadcast has yet to send to
  dead,      \* clients whose send failed in it
  clients,   \* Broadcaster._clients
  queue,     \* tasks waiting for Broadcaster._lock, in order
  handler,   \* per connection: "none", "adding", "open", "leaving" or "gone"
  peer,      \* per connection: "up", "lost" (not noticed yet) or "closed"
  breaks,    \* processes that died and consumer tasks that ended
  \* history of the process
  shown,     \* the events it took for a broadcast, in order
  skipped,   \* the events it went past when it joined its group again
  rejoins,
  joined,    \* per client: broadcasts before it was registered
  sent       \* per client: the events sent to it, in order

consumer    == <<end, live, position, oldest, fresh>>
place       == <<position, oldest, fresh>>
fanout      == <<todo, dead, clients>>
sockets     == <<handler, peer, joined, sent>>
stream      == <<shown, skipped, rejoins>>
consoleVars == <<consumer, fanout, queue, sockets, stream, breaks>>

Running == {"poll", "wait", "send"}

\* Broadcasts that are over.
Done == IF live \in {"wait", "send"} THEN Len(shown) - 1 ELSE Len(shown)

ConsoleTypeOK ==
  /\ end \in 0 .. MaxEvents /\ position \in 0 .. end
  /\ oldest \in 0 .. position /\ fresh \in BOOLEAN
  /\ live \in Running \cup {"start", "dead"}
  /\ live \in {"wait", "send"} => shown # <<>>
  /\ live = "send" => todo # {}
  /\ todo \subseteq clients /\ dead \subseteq clients \ todo
  /\ clients \subseteq Conns
  /\ queue \in Seq(Tasks) /\ IsInjective(queue)
  /\ live = "wait" <=> Contains(queue, Broadcast)
  /\ handler \in [Conns -> {"none", "adding", "open", "leaving", "gone"}]
  /\ \A c \in Conns : /\ handler[c] = "adding" <=> Contains(queue, <<"add", c>>)
                      /\ handler[c] = "leaving" <=> Contains(queue, <<"discard", c>>)
  /\ peer \in [Conns -> {"up", "lost", "closed"}]
  /\ breaks \in Nat /\ rejoins \in Nat /\ breaks + rejoins <= MaxBreaks
  /\ shown \in Seq(1 .. end) /\ skipped \subseteq 1 .. end
  /\ joined \in [Conns -> Nat] /\ sent \in [Conns -> Seq(1 .. end)]

ConsoleInit ==
  /\ end = 0 /\ live = "start" /\ position = 0 /\ oldest = 0 /\ fresh = TRUE
  /\ todo = {} /\ dead = {} /\ clients = {}
  /\ queue = <<>>
  /\ handler = [c \in Conns |-> "none"]
  /\ peer = [c \in Conns |-> "up"]
  /\ breaks = 0
  /\ shown = <<>> /\ skipped = {} /\ rejoins = 0
  /\ joined = [c \in Conns |-> 0]
  /\ sent = [c \in Conns |-> <<>>]

-----------------------------------------------------------------------------
(* The console process and its consumer task.                              *)

PublishEvent ==
  /\ end < MaxEvents
  /\ end' = end + 1
  /\ UNCHANGED <<live, place, fanout, queue, sockets, stream, breaks>>

\* The group is new and begins at "latest": what was published before is not shown
\* by this process, to clients that are connected already neither.
Start ==
  /\ live = "start"
  /\ live' = "poll" /\ position' = end /\ oldest' = end
  /\ UNCHANGED <<end, fresh, fanout, queue, sockets, stream, breaks>>

\* Its group is gone with the consumer, and its place with it.
Leave == position' = 0 /\ oldest' = 0 /\ fresh' = TRUE

\* consumer.start() or the loop over the records raises: the task has ended, nobody
\* awaits it, and the API serves on without events.
ConsumerFails ==
  /\ live \in {"start", "poll"} /\ breaks + rejoins < MaxBreaks
  /\ live' = "dead" /\ breaks' = breaks + 1
  /\ Leave
  /\ UNCHANGED <<end, fanout, queue, sockets, stream>>

\* The process dies with its clients, and another one takes its place.
Restart ==
  /\ breaks + rejoins < MaxBreaks
  /\ breaks' = breaks + 1
  /\ live' = "start" /\ Leave
  /\ todo' = {} /\ dead' = {} /\ clients' = {} /\ queue' = <<>>
  /\ handler' = [c \in Conns |-> IF handler[c] = "none" THEN "none" ELSE "gone"]
  /\ peer' = [c \in Conns |-> IF handler[c] = "none" THEN "up" ELSE "closed"]
  /\ shown' = <<>> /\ skipped' = {} /\ rejoins' = 0
  /\ joined' = [c \in Conns |-> 0] /\ sent' = [c \in Conns |-> <<>>]
  /\ UNCHANGED end

Take ==
  /\ live = "poll" /\ position < end
  /\ live' = "wait" /\ position' = position + 1
  /\ shown' = Append(shown, position')
  /\ queue' = Append(queue, Broadcast)
  /\ UNCHANGED <<end, oldest, fresh, fanout, sockets, skipped, rejoins, breaks>>

\* The session is lost and the group joined again, also during a broadcast.
\* enable_auto_commit commits the position on a timer, that of a record whose
\* broadcast is under way too.  Only a rejoin reads what was committed last, so it
\* is chosen here.
Rejoin(p) ==
  /\ live \in Running /\ breaks + rejoins < MaxBreaks
  /\ rejoins' = rejoins + 1
  /\ position' = p /\ oldest' = p
  /\ UNCHANGED <<end, live, fanout, queue, sockets, shown, breaks>>

GoBack ==
  /\ \E p \in oldest .. position : Rejoin(p)
  /\ fresh' = FALSE
  /\ UNCHANGED skipped

\* auto_offset_reset = "latest", where nothing was committed.
GoToLatest ==
  /\ fresh /\ Rejoin(end)
  /\ skipped' = skipped \cup (position + 1 .. end)
  /\ UNCHANGED fresh

-----------------------------------------------------------------------------
(* Broadcaster.broadcast                                                   *)

\* Mutant: the lock is released for the sends.
FreeForSends(task) == queue # <<>> /\ Head(queue) = task

Free(task) == live # "send" /\ queue # <<>> /\ Head(queue) = task

\* Mutant: with no client there is no send behind which the lock is released.
BeginSendsForNobody ==
  /\ Free(Broadcast)
  /\ queue' = Tail(queue)
  /\ todo' = clients /\ dead' = {}
  /\ live' = "send"
  /\ UNCHANGED <<end, place, clients, sockets, stream, breaks>>

\* The broadcast has the lock and sends to every client there is.
BeginSends ==
  /\ Free(Broadcast)
  /\ queue' = Tail(queue)
  /\ todo' = clients /\ dead' = {}
  /\ live' = IF clients = {} THEN "poll" ELSE "send"
  /\ UNCHANGED <<end, place, clients, sockets, stream, breaks>>

\* Mutant: the failing send is not caught, and ends the broadcast.
FinishRaises(rest, failed) ==
  IF rest = {} \/ failed # {}
  THEN /\ todo' = {} /\ dead' = {} /\ UNCHANGED clients /\ live' = "poll"
  ELSE /\ todo' = rest /\ dead' = failed /\ UNCHANGED <<clients, live>>

\* Mutant: the first failure ends the loop.
FinishEarly(rest, failed) ==
  IF rest = {} \/ failed # {}
  THEN /\ todo' = {} /\ dead' = {} /\ clients' = clients \ failed /\ live' = "poll"
  ELSE /\ todo' = rest /\ dead' = failed /\ UNCHANGED <<clients, live>>

\* Behind the last send the failed clients are discarded, and the lock is free.
Finish(rest, failed) ==
  IF rest = {}
  THEN /\ todo' = {} /\ dead' = {} /\ clients' = clients \ failed /\ live' = "poll"
  ELSE /\ todo' = rest /\ dead' = failed /\ UNCHANGED <<clients, live>>

\* The history of a client goes with it.
Forget(c) ==
  /\ joined' = [joined EXCEPT ![c] = 0]
  /\ sent' = [sent EXCEPT ![c] = <<>>]

SendOk(c) ==
  /\ live = "send" /\ c \in todo /\ peer[c] # "closed"
  /\ sent' = [sent EXCEPT ![c] = Append(@, Last(shown))]
  /\ Finish(todo \ {c}, dead)
  /\ UNCHANGED <<end, place, queue, handler, peer, joined, stream, breaks>>

SendFails(c) ==
  /\ live = "send" /\ c \in todo /\ peer[c] # "up"
  /\ peer' = [peer EXCEPT ![c] = "closed"]
  /\ Finish(todo \ {c}, dead \cup {c})
  /\ Forget(c)
  /\ UNCHANGED <<end, place, queue, handler, stream, breaks>>

-----------------------------------------------------------------------------
(* ws_incidents                                                            *)

\* The handshake is answered, and register waits for the lock.
Connect(c) ==
  /\ handler[c] = "none"
  /\ handler' = [handler EXCEPT ![c] = "adding"]
  /\ queue' = Append(queue, <<"add", c>>)
  /\ UNCHANGED <<consumer, fanout, peer, joined, sent, stream, breaks>>

Add(c) ==
  /\ Free(<<"add", c>>)
  /\ queue' = Tail(queue)
  /\ clients' = clients \cup {c}
  /\ joined' = [joined EXCEPT ![c] = Done]
  /\ handler' = [handler EXCEPT ![c] = "open"]
  /\ UNCHANGED <<consumer, todo, dead, peer, sent, stream, breaks>>

\* The peer goes away, or stops to answer the pings.
PeerLeaves(c) ==
  /\ handler[c] \in {"adding", "open"} /\ peer[c] = "up"
  /\ peer' = [peer EXCEPT ![c] = "lost"]
  /\ UNCHANGED <<consumer, fanout, queue, handler, joined, sent, stream, breaks>>

\* receive_text raises WebSocketDisconnect, and unregister waits for the lock.
Disconnected(c) ==
  /\ handler[c] = "open" /\ peer[c] # "up"
  /\ peer' = [peer EXCEPT ![c] = "closed"]
  /\ handler' = [handler EXCEPT ![c] = "leaving"]
  /\ queue' = Append(queue, <<"discard", c>>)
  /\ UNCHANGED <<consumer, fanout, joined, sent, stream, breaks>>

\* receive_text raises something else (a frame without text): the handler ends,
\* the socket is closed, and the client stays registered.
HandlerRaises(c) ==
  /\ handler[c] = "open" /\ peer[c] = "up"
  /\ peer' = [peer EXCEPT ![c] = "closed"]
  /\ handler' = [handler EXCEPT ![c] = "gone"]
  /\ UNCHANGED <<consumer, fanout, queue, joined, sent, stream, breaks>>

Discard(c) ==
  /\ Free(<<"discard", c>>)
  /\ queue' = Tail(queue)
  /\ clients' = clients \ {c}
  /\ handler' = [handler EXCEPT ![c] = "gone"]
  /\ Forget(c)
  /\ UNCHANGED <<consumer, todo, dead, peer, stream, breaks>>

-----------------------------------------------------------------------------

ConsoleNext ==
  \/ PublishEvent \/ Start \/ ConsumerFails \/ Restart
  \/ Take \/ GoBack \/ GoToLatest \/ BeginSends
  \/ \E c \in Conns :
       \/ SendOk(c) \/ SendFails(c)
       \/ Connect(c) \/ Add(c) \/ PeerLeaves(c)
       \/ Disconnected(c) \/ HandlerRaises(c) \/ Discard(c)

\* The lock goes to the next task, and each send of the broadcast that has it ends.
NextTask == BeginSends \/ \E c \in Conns : Add(c) \/ Discard(c)
SendEnds == \E c \in Conns : SendOk(c) \/ SendFails(c)

\* A task that may go on does.  No peer must connect, stay or leave, nothing must be
\* published, and no fault must happen.
Fairness ==
  /\ WF_consoleVars(Start \/ Take) /\ WF_consoleVars(NextTask) /\ WF_consoleVars(SendEnds)
  /\ \A c \in Conns : WF_consoleVars(Disconnected(c))

ConsoleSpec == ConsoleInit /\ [][ConsoleNext]_consoleVars /\ Fairness

-----------------------------------------------------------------------------

\* A registered client was sent what was broadcast since its registration, up to the
\* broadcast under way: registrations, departures and failing sends of other clients
\* do not make it miss one, and a client whose socket is closed does not outlast the
\* next broadcast.
SentAsShown ==
  \A c \in clients \ dead :
    sent[c] = SubSeq(shown, joined[c] + 1,
                     IF live = "send" /\ c \notin todo THEN Len(shown) ELSE Done)

\* What is broadcast is the topic in order, but for a jump each time the group was
\* joined again, and a jump leaves out only what that went past.
Jumps == {i \in 1 .. Len(shown) - 1 : shown[i + 1] # shown[i] + 1}

ShownInOrder ==
  /\ Cardinality(Jumps) <= rejoins
  /\ \A i \in Jumps : shown[i] + 1 .. shown[i + 1] - 1 \subseteq skipped

\* A registered client sees the topic from its registration on, in order, an event
\* again or not at all only where the group was joined again.
InStep == SentAsShown /\ ShownInOrder

\* While its peer stays and the consumer task runs, a registered client is sent every
\* event to come but those skipped: other clients that are slow, leave or fail, and
\* events that come again, only delay it.
EventsReachClients ==
  \A c \in Conns, e \in 1 .. MaxEvents :
    (c \in clients /\ live \in Running /\ position < e /\ e <= end)
      ~> (Contains(sent[c], e) \/ e \in skipped \/ peer[c] # "up" \/ live = "dead")

\* No handler waits for ever to register or to unregister, whatever the broadcasts
\* before it wait for.
NobodyWaitsForEver ==
  \A c \in Conns :
    handler[c] \in {"adding", "leaving"} ~> handler[c] \notin {"adding", "leaving"}

=============================================================================
