----------------------------- MODULE MCExecutor -----------------------------
(* Instances of Executor for TLC. *)
EXTENDS Executor

\* Another incident's plan, which counts on the breaker; an approval; and a record
\* that is refused, whose commit can pass it.
LogPassed == <<"foreign", "approved", "stale">>

=============================================================================
