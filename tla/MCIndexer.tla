----------------------------- MODULE MCIndexer -----------------------------
(* Model-checking instances of Indexer: contracts are numbered by row id. *)
EXTENDS Indexer
=============================================================================
