---------------------------- MODULE MCLocalState ----------------------------
(* Model-checking instances of LocalState: accounts and pools are numbered  *)
(* by row id.                                                                *)
EXTENDS LocalState
=============================================================================
