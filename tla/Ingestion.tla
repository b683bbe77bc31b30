----------------------------- MODULE Ingestion -----------------------------
(***************************************************************************)
(* The ingestion gateway, aegis_services/ingestion_gateway/app.py, with    *)
(* dedup_seen (aegis_common/redis_util.py) and Signal.fingerprint.         *)
(*                                                                         *)
(* Requests carry batches of signals and may overlap, in one process or in *)
(* several.  For each signal the gateway marks the fingerprint in Redis    *)
(* and, if it was the first to do so, publishes the signal; each of the    *)
(* two is an await that can fail, which ends the request with an error.    *)
(* Clients send a failed request again.                                    *)
(***************************************************************************)
EXTENDS Naturals, Sequences

CONSTANTS
  Requests,
  Prints,       \* fingerprints
  Batch,        \* per request: its alerts, in order
  MaxRetries,   \* bound on how often a client sends one request again
  MaxExpiries,  \* bound on the expiries of one mark
  MaxFaults     \* bound on failing awaits and crashes

\* A native signal is an alert that fires.
Alerts == [print : Prints, firing : BOOLEAN]

ASSUME IngestionAssumption ==
  /\ Batch \in [Requests -> Seq(Alerts)]
  /\ MaxRetries \in Nat
  /\ MaxExpiries \in Nat
  /\ MaxFaults \in Nat

VARIABLES
  pc,        \* per request: the await it is at, or how it ended
  at,        \* per request: index of the alert it is at
  accepted,  \* per request: signals published
  marked,    \* fingerprints with a live key in Redis
  topic,     \* per fingerprint: its records on signals.raw
  \* history and bounds
  expired,   \* per fingerprint: how often its mark expired
  lost,      \* per fingerprint: marks set by a request that failed to publish
  retries,   \* per request
  faults

vars == <<pc, at, accepted, marked, topic, expired, lost, retries, faults>>

\* Resolved alerts of a webhook are left out before the loop.
Signals(r) == {k \in DOMAIN Batch[r] : Batch[r][k].firing}
End(r)     == Len(Batch[r]) + 1

\* Every variable has its type; a request never publishes what does not fire or is
\* not there.
TypeOK ==
  /\ pc \in [Requests -> {"unsent", "check", "publish", "answered", "error"}]
  /\ at \in [Requests -> Nat] /\ accepted \in [Requests -> Nat]
  /\ \A r \in Requests :
       /\ IF pc[r] = "unsent" THEN at[r] = 0 ELSE at[r] \in Signals(r) \cup {End(r)}
       /\ accepted[r] = 0 \/ accepted[r] < at[r]
       /\ pc[r] = "publish" => at[r] \in Signals(r)
  /\ marked \in SUBSET Prints
  /\ topic \in [Prints -> Nat]
  /\ expired \in [Prints -> 0 .. MaxExpiries]
  /\ lost \in [Prints -> Nat]
  /\ retries \in [Requests -> 0 .. MaxRetries]
  /\ faults \in 0 .. MaxFaults

Init ==
  /\ pc = [r \in Requests |-> "unsent"]
  /\ at = [r \in Requests |-> 0]
  /\ accepted = [r \in Requests |-> 0]
  /\ marked = {}
  /\ topic = [f \in Prints |-> 0]
  /\ expired = [f \in Prints |-> 0]
  /\ lost = [f \in Prints |-> 0]
  /\ retries = [r \in Requests |-> 0]
  /\ faults = 0

-----------------------------------------------------------------------------

\* Signal.fingerprint: kind, service, title and labels, not id or time.
Current(r)     == Batch[r][at[r]].print
Goto(r, label) == pc' = [pc EXCEPT ![r] = label]

\* The loop goes on to the next signal behind k, or to its end.
Advance(r, k) ==
  \E j \in Signals(r) \cup {End(r)} :
    /\ k < j /\ \A i \in Signals(r) : k < i => j <= i
    /\ at' = [at EXCEPT ![r] = j]

\* A request starts at its first signal, whatever an earlier try achieved.
Begin(r) ==
  /\ Goto(r, "check")
  /\ Advance(r, 0)
  /\ accepted' = [accepted EXCEPT ![r] = 0]

Send(r) ==
  /\ pc[r] = "unsent"
  /\ Begin(r)
  /\ UNCHANGED <<marked, topic, expired, lost, retries, faults>>

\* The client got an error, or no answer.
Retry(r) ==
  /\ pc[r] = "error" /\ retries[r] < MaxRetries
  /\ retries' = [retries EXCEPT ![r] = @ + 1]
  /\ Begin(r)
  /\ UNCHANGED <<marked, topic, expired, lost, faults>>

\* Mutant: SET EX without NX succeeds every time.
MarkBlind(r) ==
  /\ pc[r] = "check" /\ at[r] # End(r)
  /\ marked' = marked \cup {Current(r)}
  /\ Goto(r, "publish")
  /\ UNCHANGED <<at, accepted, topic, expired, lost, retries, faults>>

\* dedup_seen: SET NX EX in one step, and this request was the first.
Mark(r) ==
  /\ pc[r] = "check" /\ at[r] # End(r) /\ Current(r) \notin marked
  /\ marked' = marked \cup {Current(r)}
  /\ Goto(r, "publish")
  /\ UNCHANGED <<at, accepted, topic, expired, lost, retries, faults>>

\* Mutant: a duplicate ends the loop.
DuplicateEnds(r) ==
  /\ pc[r] = "check" /\ at[r] # End(r) /\ Current(r) \in marked
  /\ Goto(r, "answered")
  /\ UNCHANGED <<at, accepted, marked, topic, expired, lost, retries, faults>>

\* The mark is there already, whatever became of the signal it was set for.
Duplicate(r) ==
  /\ pc[r] = "check" /\ at[r] # End(r) /\ Current(r) \in marked
  /\ Advance(r, at[r])
  /\ UNCHANGED <<pc, accepted, marked, topic, expired, lost, retries, faults>>

\* Mutant: behind the first signal nothing is checked.
PublishRest(r) ==
  /\ pc[r] = "publish"
  /\ topic' = [topic EXCEPT ![Current(r)] = @ + 1]
  /\ Advance(r, at[r])
  /\ accepted' = [accepted EXCEPT ![r] = @ + 1]
  /\ UNCHANGED <<pc, marked, expired, lost, retries, faults>>

Publish(r) ==
  /\ pc[r] = "publish"
  /\ topic' = [topic EXCEPT ![Current(r)] = @ + 1]
  /\ Advance(r, at[r])
  /\ accepted' = [accepted EXCEPT ![r] = @ + 1]
  /\ Goto(r, "check")
  /\ UNCHANGED <<marked, expired, lost, retries, faults>>

\* IngestResult with accepted[r], the rest as deduplicated.
Answer(r) ==
  /\ pc[r] = "check" /\ at[r] = End(r)
  /\ Goto(r, "answered")
  /\ UNCHANGED <<at, accepted, marked, topic, expired, lost, retries, faults>>

-----------------------------------------------------------------------------

\* Redis fails or the process dies at the check.  The command may have been carried
\* out before its answer was lost; nobody knows that the mark is this request's.
FailCheck(r) ==
  /\ pc[r] = "check" /\ faults < MaxFaults
  /\ faults' = faults + 1
  /\ \/ UNCHANGED <<marked, lost>>
     \/ /\ at[r] # End(r) /\ Current(r) \notin marked
        /\ marked' = marked \cup {Current(r)}
        /\ lost' = [lost EXCEPT ![Current(r)] = @ + 1]
  /\ Goto(r, "error")
  /\ UNCHANGED <<at, accepted, topic, expired, retries>>

\* The broker fails, or the process dies, behind the mark: the record may be on
\* the topic, the mark stays.
FailPublish(r) ==
  /\ pc[r] = "publish" /\ faults < MaxFaults
  /\ faults' = faults + 1
  /\ \/ topic' = [topic EXCEPT ![Current(r)] = @ + 1] /\ UNCHANGED lost
     \/ lost' = [lost EXCEPT ![Current(r)] = @ + 1] /\ UNCHANGED topic
  /\ Goto(r, "error")
  /\ UNCHANGED <<at, accepted, marked, expired, retries>>

\* dedup_window_seconds are over.
Expire(f) ==
  /\ f \in marked /\ expired[f] < MaxExpiries
  /\ marked' = marked \ {f}
  /\ expired' = [expired EXCEPT ![f] = @ + 1]
  /\ UNCHANGED <<pc, at, accepted, topic, lost, retries, faults>>

Next ==
  \/ \E r \in Requests :
       \/ Send(r) \/ Retry(r) \/ Mark(r) \/ Duplicate(r) \/ Publish(r) \/ Answer(r)
       \/ FailCheck(r) \/ FailPublish(r)
  \/ \E f \in Prints : Expire(f)

Spec == Init /\ [][Next]_vars

-----------------------------------------------------------------------------
(* Safety *)

\* A fingerprint is on the topic at most once for each window of its mark, through
\* overlapping batches, retries of the same batch and failing publishes.
OncePerWindow == \A f \in Prints : topic[f] <= 1 + expired[f]

\* Some request won the mark and is at the publish.
Publishing(f) == \E r \in Requests : pc[r] = "publish" /\ Current(r) = f

\* A signal that a client was told is accepted or deduplicated is on the topic, is
\* being published by another request, or was lost by a request that failed behind
\* its mark: nothing else swallows a signal.
AcknowledgedAccounted ==
  \A r \in Requests : pc[r] = "answered" =>
    \A k \in Signals(r) :
      LET f == Batch[r][k].print IN topic[f] > 0 \/ Publishing(f) \/ lost[f] > 0

=============================================================================
