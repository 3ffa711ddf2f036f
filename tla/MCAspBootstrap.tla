--------------------------- MODULE MCAspBootstrap ---------------------------
(* The bootstrap tool against a freshly deployed membership contract. *)
EXTENDS AspBootstrap

TestUsers == <<1, 2>>
=============================================================================
