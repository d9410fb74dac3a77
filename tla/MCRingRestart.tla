--------------------------- MODULE MCRingRestart ---------------------------
(* A listener and a pre-processing process.                                *)
EXTENDS RingRestart

CONSTANTS c1, sub, free
=============================================================================
