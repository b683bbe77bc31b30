------------------------------ MODULE Delivery ------------------------------
(***************************************************************************)
(* What the consume loop of aegis_common/kafka.py promises the handlers of *)
(* a group (ADR-005): a record is given to a handler when those before it  *)
(* in its partition have ended and no committed offset is past it,         *)
(* possibly again and to several handlers at once, and committed offsets   *)
(* move forward, over ended records only.                                  *)
(***************************************************************************)
EXTENDS Naturals

CONSTANTS Partitions, Capacity

\* Per partition:
VARIABLES
  running,   \* records some handler is at
  ended,     \* records some handler returned from or raised on
  committed  \* the offset behind which a new owner starts

vars == <<running, ended, committed>>

Init ==
  /\ running = [p \in Partitions |-> {}]
  /\ ended = [p \in Partitions |-> {}]
  /\ committed = [p \in Partitions |-> 0]

Give(p, o) ==
  /\ committed[p] < o /\ 1 .. o - 1 \subseteq ended[p]
  /\ running' = [running EXCEPT ![p] = @ \cup {o}]
  /\ UNCHANGED <<ended, committed>>

\* Another handler of the same record may go on.
End(p, o) ==
  /\ o \in running[p]
  /\ ended' = [ended EXCEPT ![p] = @ \cup {o}]
  /\ running' \in {running, [running EXCEPT ![p] = @ \ {o}]}
  /\ UNCHANGED committed

\* The process of the handler dies, which does not end the record.
Die(p, o) ==
  /\ o \in running[p]
  /\ running' = [running EXCEPT ![p] = @ \ {o}]
  /\ UNCHANGED <<ended, committed>>

\* A member commits all its partitions at once.
Commit ==
  /\ committed' \in [Partitions -> 0 .. Capacity]
  /\ \A p \in Partitions : /\ committed[p] <= committed'[p]
                           /\ 1 .. committed'[p] \subseteq ended[p]
  /\ UNCHANGED <<running, ended>>

Next ==
  \/ \E p \in Partitions, o \in 1 .. Capacity : Give(p, o) \/ End(p, o) \/ Die(p, o)
  \/ Commit

Spec == Init /\ [][Next]_vars
=============================================================================
