---------------------------- MODULE MCCrossQueue ----------------------------
(* Instances of CrossQueue for TLC. *)
EXTENDS CrossQueue

CONSTANTS c1, c2

One   == {1}
Two   == {2}
Three == {3}
=============================================================================
