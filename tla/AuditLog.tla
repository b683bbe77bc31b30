------------------------------ MODULE AuditLog ------------------------------
(* What the audit chain promises its callers: one log that only grows, by one *)
(* entry at a time, at its end.                                              *)
EXTENDS Sequences

CONSTANT Payloads

VARIABLE log

Init == log = <<>>

Record(x) == log' = Append(log, x)

Next == \E x \in Payloads : Record(x)

Spec == Init /\ [][Next]_log
=============================================================================
