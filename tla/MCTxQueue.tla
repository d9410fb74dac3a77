----------------------------- MODULE MCTxQueue -----------------------------
(* Instances of TxQueue: libroad_tx with its result thread, and the demo.   *)
EXTENDS TxQueue
=============================================================================
