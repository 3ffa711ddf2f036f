---------------------------- MODULE MCComponents ----------------------------
(***************************************************************************)
(* One model-checking instance for the components that are checked on      *)
(* their own: `which` names the component that moves, the others stay in   *)
(* an initial state.                                                       *)
(***************************************************************************)
EXTENDS MerkleTree, ClientSmt, Relayer, ProverApi, Flows, Poseidon2,
        Disclosure

CONSTANTS h1, h2, b1, b2, b3, n1, n2

MCHandlers == {h1, h2}
MCBodies == {b1, b2, b3}
MCNote == (b1 :> n1) @@ (b2 :> n1) @@ (b3 :> n2)

\* Two contexts that differ in where the pool's address ends and the label begins,
\* of which one is of another pool, and one without a label.
MCContext(address, label) ==
  [network |-> <<1>>, pool_address |-> address, authority_label |-> label,
   payload |-> <<1>>, purpose |-> <<1>>, nonce |-> 1]
MCContexts ==
  {MCContext(<<1>>, <<1, 1>>), MCContext(<<1, 1>>, <<1>>), MCContext(<<1>>, <<>>)}
MCOwnPool == <<1>>

VARIABLE which    \* the component that moves

Only(name) == which = name

ComponentsInit ==
  /\ which \in {"trees", "smt", "client", "relayer", "prover", "flows", "poseidon", "disclosure"}
  /\ TreeInit /\ (~ Only("trees") => contract = "pool")
  /\ SmtInit /\ (~ Only("smt") => admin = CHOOSE a \in Admin : TRUE)
  /\ ClientInit
  /\ RelayerInit
  /\ ProverInit /\ (~ Only("prover") => chain = <<<<>>>>)
  /\ FlowsInit
  /\ Poseidon2Init /\ (~ Only("poseidon") => perm.input = <<0, 0>>)
  /\ DisclosureInit

ComponentsNext ==
  /\ which' = which
  /\ \/ Only("trees") /\ TreeNext
        /\ UNCHANGED <<smtVars, clientVars, relayerVars, proverVars, flowsVars, perm, disclosureVars>>
     \/ Only("smt") /\ SmtNext
        /\ UNCHANGED <<treeVars, clientVars, relayerVars, proverVars, flowsVars, perm, disclosureVars>>
     \/ Only("client") /\ ClientNext
        /\ UNCHANGED <<treeVars, smtVars, relayerVars, proverVars, flowsVars, perm, disclosureVars>>
     \/ Only("relayer") /\ RelayerNext
        /\ UNCHANGED <<treeVars, smtVars, clientVars, proverVars, flowsVars, perm, disclosureVars>>
     \/ Only("prover") /\ ProverNext
        /\ UNCHANGED <<treeVars, smtVars, clientVars, relayerVars, flowsVars, perm, disclosureVars>>
     \/ Only("flows") /\ FlowsNext
        /\ UNCHANGED <<treeVars, smtVars, clientVars, relayerVars, proverVars, perm, disclosureVars>>
     \/ Only("poseidon") /\ Poseidon2Next
        /\ UNCHANGED <<treeVars, smtVars, clientVars, relayerVars, proverVars, flowsVars, disclosureVars>>
     \/ Only("disclosure") /\ DisclosureNext
        /\ UNCHANGED <<treeVars, smtVars, clientVars, relayerVars, proverVars, flowsVars, perm>>

componentsVars == <<which, treeVars, smtVars, clientVars, relayerVars, proverVars, flowsVars, perm, disclosureVars>>

ComponentsSpec == ComponentsInit /\ [][ComponentsNext]_componentsVars

\* Every component keeps its types.
ComponentsTypeOK ==
  CASE Only("trees")   -> TreeTypeOK
    [] Only("smt")     -> SmtTypeOK
    [] Only("relayer") -> RelayerTypeOK
    [] Only("prover")  -> ProverTypeOK
    [] Only("flows")   -> FlowsTypeOK
    [] OTHER           -> TRUE

-----------------------------------------------------------------------------
(* A property of three components, for each where it moves.                *)

\* The same sparse tree read by circuits that are too shallow for its branches: by
\* one level, and by so much that the path is cut.
Edge == INSTANCE AspNonMembership WITH SmtDepth <- 2
Cut  == INSTANCE AspNonMembership WITH SmtDepth <- 1

\* Client, circuit and contracts compute the same hashes and the same trees, and
\* both verifiers take the client's proof that a key is not blocked, unless the
\* circuit is too shallow for the key's branch: then it never does.
ClientComputesTheSame ==
  /\ Only("smt") => UnblockedCanProve /\ Edge!TooDeepToProve /\ Cut!TooDeepToProve
  /\ Only("client") => ClientTreeIsExact
  /\ Only("poseidon") => PermutationsAgree
=============================================================================
