---------------------------- MODULE MCNodeConfig ----------------------------
(* An instance of NodeConfig for TLC: two sensors, one of them with tasks   *)
(* that change.                                                             *)
EXTENDS NodeConfig, TLC

CONSTANTS camera, thermal, a, b, c

SensorTasks == (camera :> {a, b}) @@ (thermal :> {c})
=============================================================================
