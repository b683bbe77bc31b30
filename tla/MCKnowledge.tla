---------------------------- MODULE MCKnowledge ----------------------------
(* Instances of Knowledge for TLC. *)
EXTENDS Knowledge

CONSTANTS i1, i2

\* Sections that fit, that are one window and a bit, and that take several; with
\* a preamble, without headings, and empty.
Versions ==
  [preamble : {0, 6}, sections : {<<>>}]
    \cup {[preamble |-> 2, sections |-> <<1, 4>>], [preamble |-> 0, sections |-> <<2, 8>>]}

OneService == [i \in Incidents |-> "api"]

=============================================================================
