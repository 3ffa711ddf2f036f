---------------------------- MODULE AspBootstrap ----------------------------
(***************************************************************************)
(* tools/asp-bootstrap: puts the leaves of the test users into the ASP     *)
(* membership tree and writes the state file that provers start from.      *)
(* Every step is a call of the Stellar CLI, which may fail, or time out    *)
(* although its transaction lands later.  The tree is the contract's       *)
(* (MerkleTree).  The non-membership tree stays empty.                     *)
(***************************************************************************)
EXTENDS MerkleTree

CONSTANTS
  Users,       \* the leaves of the test users, in order of their seeds
  MaxRetries,  \* --max-retries
  MaxRuns,     \* bound: runs of the tool
  Nil

VARIABLES
  tool,   \* where the run is: step, next user, attempts of the call, root read
  late,   \* insertions whose call timed out and that may still land
  file,   \* asp-state.json
  runs    \* runs so far, to bound them

bootstrapVars == <<treeVars, tool, late, file, runs>>

-----------------------------------------------------------------------------
\* "0", which the CLI prints for the word zero.
ZeroRoot == <<>>

Stopped == [pc |-> "stopped", user |-> 0, attempts |-> 0, root |-> Nil]

\* The step that follows a call that was answered.
goes(pc, user, root) == tool' = [pc |-> pc, user |-> user, attempts |-> 0, root |-> root]

\* After the i-th user come the next one or the final roots.
after_user(i) == goes(IF i < Len(Users) THEN "insert" ELSE "membership_root", i + 1, Nil)

start ==
  /\ tool = Stopped /\ runs < MaxRuns
  /\ goes("check", 0, Nil)
  /\ runs' = runs + 1
  /\ UNCHANGED <<treeVars, late, file>>

\* Inserts are skipped when the tree already has leaves, as its root tells.
check_root ==
  LET is_empty == treeRoot = ZeroRoot
  IN  /\ tool.pc = "check"
      /\ IF is_empty THEN after_user(0) ELSE goes("membership_root", 0, Nil)
      /\ UNCHANGED <<treeVars, late, file, runs>>

\* A contract error is taken for a leaf that is already there.
insert_leaf ==
  /\ tool.pc = "insert"
  /\ IF nextIndex < max_leaves THEN insert_member_leaf(Users[tool.user]) ELSE UNCHANGED treeVars
  /\ after_user(tool.user)
  /\ UNCHANGED <<late, file, runs>>

fetch_membership_root ==
  /\ tool.pc = "membership_root"
  /\ goes("write", 0, treeRoot)
  /\ UNCHANGED <<treeVars, late, file, runs>>

\* The root of the empty non-membership tree is read and the file is written.
write_state ==
  /\ tool.pc = "write"
  /\ file' = [membership_root |-> tool.root, non_membership_root |-> ZeroRoot, users |-> Users]
  /\ tool' = Stopped
  /\ UNCHANGED <<treeVars, late, runs>>

\* stellar_invoke on TxBadSeq or a timeout: again, up to the limit.  A call that
\* timed out may have been sent.
retry ==
  /\ tool # Stopped
  /\ tool' = IF tool.attempts + 1 >= MaxRetries THEN Stopped
             ELSE [tool EXCEPT !.attempts = @ + 1]
  /\ late' \in {late} \union (IF tool.pc = "insert" THEN {Append(late, Users[tool.user])} ELSE {})
  /\ UNCHANGED <<treeVars, file, runs>>

\* stellar_invoke on any other failure.
invoke_fails ==
  /\ tool # Stopped
  /\ tool' = Stopped
  /\ UNCHANGED <<treeVars, late, file, runs>>

\* A transaction that timed out lands, or never does.
lands ==
  /\ late # <<>>
  /\ late' = Tail(late)
  /\ UNCHANGED treeVars \/ insert_member_leaf(Head(late))
  /\ UNCHANGED <<tool, file, runs>>

BootstrapInit ==
  /\ TreeInit /\ contract = "asp-membership"
  /\ tool = Stopped /\ late = <<>> /\ file = Nil /\ runs = 0

BootstrapNext ==
  \/ start \/ check_root \/ insert_leaf \/ fetch_membership_root \/ write_state
  \/ retry \/ invoke_fails \/ lands

BootstrapSpec == BootstrapInit /\ [][BootstrapNext]_bootstrapVars

-----------------------------------------------------------------------------
\* A run that ends well has populated the membership tree: every user that the
\* state file lists has a leaf under the root it records.
BootstrapPopulates ==
  file # Nil =>
    \A i \in DOMAIN file.users : \E j \in DOMAIN leaves : leaves[j] = file.users[i]
=============================================================================
