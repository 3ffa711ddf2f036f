------------------------------ MODULE MCWallet ------------------------------
(***************************************************************************)
(* One instance for the two sides of a wallet: its database, which follows *)
(* the chain, and its submissions, which write to it.  `side` names the    *)
(* one that moves.                                                         *)
(***************************************************************************)
EXTENDS LocalState, Submission

VARIABLE side

\* One user, in two tabs, spends, deposits and changes keys.
MCIntent(account, kind, k) == [account |-> account, kind |-> kind, keys |-> k]
MCIntents ==
  { MCIntent("u", "spend", Absent), MCIntent("u", "deposit", Absent),
    MCIntent("u", "register", "k1"), MCIntent("u", "register", "k2") }
MCAuthShapes == {<<"source", "wallet">>}

WalletInit == side \in {"database", "submission"} /\ Init /\ SubmissionInit

WalletNext ==
  /\ side' = side
  /\ \/ side = "database" /\ Next /\ UNCHANGED submissionVars
     \/ side = "submission" /\ SubmissionNext /\ UNCHANGED vars

WalletSpec == WalletInit /\ [][WalletNext]_<<side, vars, submissionVars>>
=============================================================================
