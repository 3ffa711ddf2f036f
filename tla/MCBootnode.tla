----------------------------- MODULE MCBootnode -----------------------------
EXTENDS Bootnode
MSpec == BootnodeSpec /\ BootnodeFairness
=============================================================================
