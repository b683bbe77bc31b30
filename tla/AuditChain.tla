----------------------------- MODULE AuditChain -----------------------------
(***************************************************************************)
(* The hash-chained audit log, aegis_common/audit.py, written by every     *)
(* service at once.  append_audit reads the newest committed row and adds  *)
(* the next one to the caller's unit of work (db.session_scope), which is  *)
(* inserted when the unit commits.  PostgreSQL runs the units READ         *)
(* COMMITTED: of two inserts of one primary key the second waits for the   *)
(* first, and fails once the first is committed.                           *)
(***************************************************************************)
EXTENDS Naturals

CONSTANTS
  Writers,        \* units of work that may be open at the same time
  Payloads,       \* the payloads of audit records
  Genesis,        \* GENESIS_HASH
  Hash(_, _, _),  \* _compute_hash(seq, prev_hash, payload)
  MaxRows,        \* bound on the length of the chain
  MaxRollbacks    \* bound on units of work that fail for a reason of their own

ASSUME ChainAssumption ==
  Writers # {} /\ Payloads # {} /\ MaxRows \in Nat /\ MaxRollbacks \in Nat

VARIABLES
  table,     \* audit_log: the committed rows by seq
  pc,        \* per writer: "idle", "built" or "inserted"
  seq,       \* per writer: seq of the row of its unit of work,
  prev,      \*             its prev_hash,
  payload,   \*             and its payload
  rollbacks  \* history

unit == <<seq, prev, payload>>
vars == <<table, pc, unit, rollbacks>>

\* SELECT ... ORDER BY seq DESC LIMIT 1; 0 stands for no row.
LastBelow(n) ==
  CHOOSE s \in (DOMAIN table \cap 1 .. n - 1) \cup {0} :
    \A t \in DOMAIN table \cap 1 .. n - 1 : t <= s

HashAt(s) == IF s = 0 THEN Genesis ELSE table[s].hash

\* Rows are numbered from 1 and carry a payload that was given; hashes are opaque.
TypeOK ==
  /\ table = [s \in DOMAIN table |-> table[s]]
  /\ DOMAIN table \subseteq 1 .. MaxRows
  /\ \A s \in DOMAIN table : table[s].payload \in Payloads
  /\ pc \in [Writers -> {"idle", "built", "inserted"}]
  /\ seq \in [Writers -> 0 .. MaxRows]
  /\ prev = [w \in Writers |-> prev[w]]
  /\ payload \in [Writers -> Payloads]
  /\ rollbacks \in 0 .. MaxRollbacks

Init ==
  /\ table = [s \in {} |-> {}]
  /\ pc = [w \in Writers |-> "idle"]
  /\ seq = [w \in Writers |-> 0]
  /\ prev = [w \in Writers |-> Genesis]
  /\ payload = [w \in Writers |-> CHOOSE x \in Payloads : TRUE]
  /\ rollbacks = 0

-----------------------------------------------------------------------------

\* Mutant: the number of the last row, not the next.
BuildOffByOne(w, x) ==
  LET last == LastBelow(MaxRows + 1)
  IN  /\ pc[w] = "idle" /\ last < MaxRows
      /\ seq' = [seq EXCEPT ![w] = last]
      /\ prev' = [prev EXCEPT ![w] = HashAt(last)]
      /\ payload' = [payload EXCEPT ![w] = x]
      /\ pc' = [pc EXCEPT ![w] = "built"]
      /\ UNCHANGED <<table, rollbacks>>

\* Mutant: the sequence number of one read, the hash of another.
BuildTwoReads(w, x) ==
  LET last == LastBelow(MaxRows + 1)
  IN  /\ pc[w] = "idle" /\ last < MaxRows
      /\ seq' = [seq EXCEPT ![w] = last + 1]
      /\ prev' = [prev EXCEPT ![w] = HashAt(LastBelow(last))]
      /\ payload' = [payload EXCEPT ![w] = x]
      /\ pc' = [pc EXCEPT ![w] = "built"]
      /\ UNCHANGED <<table, rollbacks>>

\* append_audit in a new unit of work.
Build(w, x) ==
  LET last == LastBelow(MaxRows + 1)
  IN  /\ pc[w] = "idle" /\ last < MaxRows
      /\ seq' = [seq EXCEPT ![w] = last + 1]
      /\ prev' = [prev EXCEPT ![w] = HashAt(last)]
      /\ payload' = [payload EXCEPT ![w] = x]
      /\ pc' = [pc EXCEPT ![w] = "built"]
      /\ UNCHANGED <<table, rollbacks>>

\* No other open transaction holds the index entry of w's seq.
KeyFree(w) == \A v \in Writers : pc[v] = "inserted" => seq[v] # seq[w]

\* Mutant: an insert does not look at the rows committed before it.
InsertBlind(w) ==
  /\ pc[w] = "built" /\ KeyFree(w)
  /\ pc' = [pc EXCEPT ![w] = "inserted"]
  /\ UNCHANGED <<table, unit, rollbacks>>

\* The flush of the unit's commit inserts the row.
Insert(w) ==
  /\ pc[w] = "built" /\ KeyFree(w) /\ seq[w] \notin DOMAIN table
  /\ pc' = [pc EXCEPT ![w] = "inserted"]
  /\ UNCHANGED <<table, unit, rollbacks>>

\* The key is taken by a committed row: IntegrityError, and session_scope rolls
\* the whole unit of work back.
Refuse(w) ==
  /\ pc[w] = "built" /\ KeyFree(w) /\ seq[w] \in DOMAIN table
  /\ pc' = [pc EXCEPT ![w] = "idle"]
  /\ UNCHANGED <<table, unit, rollbacks>>

\* Mutant: the commit is acknowledged and lost.
CommitLost(w) ==
  /\ pc[w] = "inserted"
  /\ pc' = [pc EXCEPT ![w] = "idle"]
  /\ UNCHANGED <<table, unit, rollbacks>>

Commit(w) ==
  /\ pc[w] = "inserted"
  /\ table' = [s \in DOMAIN table \cup {seq[w]} |->
                 IF s = seq[w]
                 THEN [prev |-> prev[w], payload |-> payload[w],
                       hash |-> Hash(seq[w], prev[w], payload[w])]
                 ELSE table[s]]
  /\ pc' = [pc EXCEPT ![w] = "idle"]
  /\ UNCHANGED <<unit, rollbacks>>

\* The unit of work fails elsewhere, or its process dies.
Rollback(w) ==
  /\ pc[w] # "idle" /\ rollbacks < MaxRollbacks
  /\ pc' = [pc EXCEPT ![w] = "idle"]
  /\ rollbacks' = rollbacks + 1
  /\ UNCHANGED <<table, unit>>

Work(w) ==
  \/ \E x \in Payloads : Build(w, x)
  \/ Insert(w) \/ Refuse(w) \/ Commit(w)

Next == \E w \in Writers : Work(w) \/ Rollback(w)

\* Services keep having something to record, and the database answers.
Fairness == \A w \in Writers : WF_vars(Work(w))

Spec == Init /\ [][Next]_vars /\ Fairness

-----------------------------------------------------------------------------
(* Safety and progress *)

\* verify_chain holds in every committed state, whoever wrote the rows: each row
\* carries the hash of the row before it and its own hash over that.
ChainVerifies ==
  \A s \in DOMAIN table :
    LET before == HashAt(LastBelow(s))
    IN  /\ table[s].prev = before
        /\ table[s].hash = Hash(s, before, table[s].payload)

\* The sequence numbers have no gap, although units of work are rolled back
\* after they took a number.
NoGap == \A s \in DOMAIN table : 1 .. s \subseteq DOMAIN table

\* A committed row is never changed or removed: concurrent appenders are refused,
\* they never overwrite.
RowsAreFinal ==
  [][\A s \in DOMAIN table : s \in DOMAIN table' /\ table'[s] = table[s]]_vars

\* However the appenders collide, the chain grows.
ChainGrows == <>(DOMAIN table = 1 .. MaxRows)

\* The chain implements the log its callers rely on.
Log == INSTANCE AuditLog WITH
  log <- [s \in 1 .. LastBelow(MaxRows + 1) |-> table[s].payload]

ImplementsLog == Log!Spec

=============================================================================
