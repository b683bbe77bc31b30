---------------------------- MODULE MCAuditChain ----------------------------
(* Instances of AuditChain for TLC. *)
EXTENDS AuditChain

\* A hash without collisions.
PerfectHash(s, p, x) == <<s, p, x>>
=============================================================================
