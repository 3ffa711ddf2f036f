------------------------------ MODULE MCEvents ------------------------------
(***************************************************************************)
(* One instance for the two readers of the event stream: a wallet's        *)
(* indexer, and a bootnode with a wallet that walks its pages.  `reader`   *)
(* names the one that moves; the chain they read is the same.              *)
(***************************************************************************)
EXTENDS Indexer, Bootnode

VARIABLE reader

indexerOnly  == <<oldest, failures, dbVars, mode, round>>
bootnodeOnly == <<kv, pages, ledgerTip, task, wallet, call, mishaps>>
eventsVars   == <<reader, chain, indexerOnly, bootnodeOnly>>

EventsInit == reader \in {"indexer", "bootnode"} /\ Init /\ BootnodeInit

AsIndexer(A)  == reader = "indexer" /\ A /\ UNCHANGED <<reader, bootnodeOnly>>
AsBootnode(A) == reader = "bootnode" /\ A /\ UNCHANGED <<reader, indexerOnly>>

EventsNext == AsIndexer(Next) \/ AsBootnode(BootnodeNext)

\* The fairness of FairSpec and of BootnodeFairness.
EventsSpec ==
  /\ EventsInit /\ [][EventsNext]_eventsVars
  /\ WF_eventsVars(AsIndexer(Indexing))
  /\ WF_eventsVars(AsBootnode(IndexerTask)) /\ WF_eventsVars(AsBootnode(WalletCall))

\* CatchesUp, for the wallet's indexer: it comes to the tip once the chain is quiet.
IndexerCatchesUp == (reader = "indexer") => CatchesUp

\* WalletIsServed, for the bootnode: the wallet's walk comes to a handoff.
BootnodeServes == (reader = "bootnode") => WalletIsServed
=============================================================================
