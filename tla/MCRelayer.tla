----------------------------- MODULE MCRelayer ------------------------------
(* Model-checking instances of Relayer: b1 and b2 spend one note, b3 another. *)
EXTENDS Relayer, TLC

CONSTANTS h1, h2, b1, b2, b3, n1, n2

MCHandlers == {h1, h2}
MCBodies == {b1, b2, b3}
MCNote == (b1 :> n1) @@ (b2 :> n1) @@ (b3 :> n2)
=============================================================================
