----------------------------- MODULE MCWorkflow -----------------------------
(* Instances of Workflow for TLC. *)
EXTENDS Workflow

CONSTANTS i1, i2

\* Two incidents behind one pair of breakers, the first opened twice.
LogRerun == <<i1, i2, i1>>

=============================================================================
