---------------------------- MODULE MCEdfBackoff ----------------------------
(* Instances of EdfBackoff for TLC. *)
EXTENDS EdfBackoff

\* Two tasks; within the bound on time the ring of the first overruns, and a
\* frame of the second may be older and yet due later than one of the first.
ShortDeadline == [t \in Tasks |-> IF t = 0 THEN 4 ELSE 6]
\* For liveness: frames can be late within the bound.
TinyDeadline == [t \in Tasks |-> IF t = 0 THEN 3 ELSE 4]
ShortProfile ==
  [t \in Tasks |-> [v \in Variants |-> (IF t = 0 THEN 3 ELSE 2) - v]]
OneUnit == [t \in Tasks |-> IF t = 0 THEN 1 ELSE 0]
=============================================================================
