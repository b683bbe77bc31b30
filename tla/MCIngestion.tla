---------------------------- MODULE MCIngestion ----------------------------
(* Instances of Ingestion for TLC. *)
EXTENDS Ingestion, TLC

CONSTANTS r1, r2, f1, f2

Firing(f)   == [print |-> f, firing |-> TRUE]
Resolved(f) == [print |-> f, firing |-> FALSE]

\* A batch with a duplicate of its own, and one that overlaps with it.
TwoBatches ==
  r1 :> <<Firing(f1), Firing(f2), Firing(f1)>> @@
  r2 :> <<Firing(f2), Resolved(f1), Firing(f1)>>

=============================================================================
