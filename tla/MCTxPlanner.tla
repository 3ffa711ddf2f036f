---------------------------- MODULE MCTxPlanner -----------------------------
(* Model-checking instance of TxPlanner: coin selection alone.               *)
EXTENDS TxPlanner
=============================================================================
