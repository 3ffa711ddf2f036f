-------------------------------- MODULE Pool --------------------------------
(***************************************************************************)
(* The privacy pool contract (contracts/pool): shielded notes in an        *)
(* append-only commitment tree with a ring of recent roots, the set of     *)
(* spent nullifiers, and the token balance that backs the notes.           *)
(*                                                                         *)
(* A Soroban invocation is atomic: it either returns Ok and all its writes *)
(* stay, or it returns an error and none does.  So every entry point is    *)
(* one action, and a rejected call leaves the state alone.                 *)
(*                                                                         *)
(* Hashes are collision free: the root of a tree stands for the sequence   *)
(* of its leaves, the hash of the external data for the data, and the      *)
(* nullifier of an input for the leaf it opens (module MerkleTree checks   *)
(* that the incremental root is indeed a function of the leaves, module    *)
(* AspNonMembership that the sparse root is a function of the key set).    *)
(***************************************************************************)
EXTENDS Integers, Sequences, FiniteSets, FiniteSetsExt

CONSTANTS
  Accounts,                \* token accounts: senders and recipients
  Admins,                  \* addresses the pool's administration may pass to
  Keys,                    \* note public keys
  MembershipContracts,     \* addresses of ASP membership contracts
  NonMembershipContracts,  \* addresses of ASP non-membership contracts
  Levels,                  \* depth of the commitment tree
  RootHistorySize,         \* length of the ring of recent roots
  FieldSize,               \* the BN254 scalar field modulus
  MaxExtAmount,            \* exclusive bound on |ext_amount| and on outputs
  I128Max,                 \* largest amount the token contract moves
  InitialFunds,            \* tokens each account starts with
  NoRoot,                  \* the zero word, and a ring slot never written
  MaxLap,                  \* how often the modulus fits in a U256 beside a field element
  MadeUpRoots,             \* trees a dishonest prover invents for the pool's
  MadeUpMembers,           \* trees it invents for the membership contract's
  MadeUpBlocked,           \* sets it invents for the non-membership contract's
  MaxProofs,               \* bound: proofs ever built
  HonestProofs,            \* bound: how many of them come before a dishonest one
  MaxPending,              \* bound: proofs built and not yet accepted
  MaxAspLeaves,            \* bound: leaves ever added to a membership tree
  MaxBlocked               \* bound: keys in a non-membership tree

\* 2^248 fits almost 50 times in the BN254 modulus, and i128 is far smaller:
\* that is what keeps the circuit's modular sums equal to integer sums.
ASSUME AmountAssumption ==
  /\ MaxExtAmount \in Nat /\ FieldSize \in Nat /\ I128Max \in Nat
  /\ InitialFunds \in Nat
  /\ I128Max < MaxExtAmount
  /\ 4 * MaxExtAmount < FieldSize
  /\ MaxLap \in Nat

\* The token's whole supply fits its i128.
ASSUME SupplyAssumption ==
  IsFiniteSet(Accounts) /\ Cardinality(Accounts) * InitialFunds <= I128Max

ASSUME TreeAssumption ==
  /\ Levels \in 1..32
  /\ RootHistorySize \in Nat \ {0}

\* What a commitment opens to (its blinding is left out: the nullifier tells
\* equal commitments at different leaves apart).
Note == [owner : Keys, amount : 0..(MaxExtAmount - 1)]

\* What the circuit lets a prover claim of an input: it checks no range, since
\* the notes of the real tree were checked as outputs.
FieldNote == [owner : Keys, amount : 0..(FieldSize - 1)]

ASSUME MadeUpAssumption ==
  /\ MadeUpRoots \subseteq Seq(FieldNote)
  /\ MadeUpMembers \subseteq Seq(Keys)
  /\ MadeUpBlocked \subseteq SUBSET Keys

\* The zero word is not the root of any tree.
ASSUME NoRootAssumption == NoRoot \notin Seq(Note)

ASSUME BoundAssumption ==
  /\ MaxProofs \in Nat /\ MaxPending \in Nat /\ HonestProofs \in Nat
  /\ MaxAspLeaves \in Nat /\ MaxBlocked \in Nat

VARIABLES
  leaves,            \* notes inserted so far, leaf index = position - 1
  roots,             \* Root(i): the ring of recent roots
  currentRootIndex,  \* CurrentRootIndex
  nullifiers,        \* Nullifiers: the nullifiers marked spent
  poolBalance,       \* token balance of the pool contract
  balance,           \* token balances of the accounts
  admin,             \* Admin
  aspMembership,     \* address of the ASP membership contract in use
  aspNonMembership,  \* address of the ASP non-membership contract in use
  members,           \* leaves of every membership tree
  blocked,           \* keys of every non-membership tree
  proofs,            \* every proof built so far; any may be sent at any time
  published          \* NewNullifierEvents, in the order they were emitted

treeVars  == <<leaves, roots, currentRootIndex>>
tokenVars == <<poolBalance, balance>>
cfgVars   == <<admin, aspMembership, aspNonMembership>>
aspVars   == <<members, blocked>>
vars == <<treeVars, nullifiers, tokenVars, cfgVars, aspVars, proofs, published>>

-----------------------------------------------------------------------------
ExtData == [recipient : Accounts, extAmount : (-MaxExtAmount)..MaxExtAmount]

\* h(commitment, path, signature), for a note of a tree or for a zero-amount
\* input, which is never looked up: its nullifier is as fresh as its blinding.
Nullifier == {"leaf", "dummy"} \X Nat \X FieldNote

\* A nullifier as the U256 of a call: the field element plus so many moduli.
Word == Nullifier \X (0..MaxLap)

\* What a prover knows: the tree it speaks of, the positions it opens there (0
\* for a dummy), and the key of its dummy inputs.
Witness == [id : Nat, tree : Seq(FieldNote), inputs : Nat \X Nat, signer : Keys]

\* The public inputs of a call, with the witness behind them.
Proof ==
  [witness         : Witness,
   root            : Seq(FieldNote),
   publicAmount    : 0..(FieldSize - 1),
   extDataHash     : ExtData,
   inputNullifiers : Word \X Word,
   outputs         : Note \X Note,
   membershipRoot  : Seq(Keys),
   nonMembershipRoot : SUBSET Keys]

InputNote(w, s) ==
  IF w.inputs[s] = 0 THEN [owner |-> w.signer, amount |-> 0] ELSE w.tree[w.inputs[s]]

InputNullifier(w, s) ==
  IF w.inputs[s] = 0 THEN <<"dummy", 2 * w.id + s, InputNote(w, s)>>
                     ELSE <<"leaf", w.inputs[s], InputNote(w, s)>>

InputNullifiers(w) == <<<<InputNullifier(w, 1), 0>>, <<InputNullifier(w, 2), 0>>>>

-----------------------------------------------------------------------------
(* Storage reads and pure checks of the contract.                          *)

HasRoom == Len(leaves) + 2 <= 2 ^ Levels

\* The root of the tree with these leaves.
RootOf(ls) == ls

get_root == roots[currentRootIndex]

\* Mutant: only the latest root is accepted.
is_known_root_Mutant(root) == root = get_root

\* Mutant: any root that is not the zero word.
is_known_root_Unchecked(root) == root # NoRoot

\* The scan covers the whole ring, so its starting point does not matter.
is_known_root(root) ==
  /\ root # NoRoot
  /\ \E i \in 0..(RootHistorySize - 1) : roots[i] = root

is_spent(n) == n \in nullifiers

get_asp_membership_root == members[aspMembership]

get_asp_non_membership_root == blocked[aspNonMembership]

Abs(x) == IF x < 0 THEN -x ELSE x

\* Field representation of a signed amount, defined when |ext| is in bounds.
calculate_public_amount(ext) == IF ext >= 0 THEN ext ELSE FieldSize - Abs(ext)

i256_to_i128_nonneg(x) == x >= 0 /\ x <= I128Max

\* Mutant: the public amount is not compared.
PublicAmountMatches_Mutant(p, ext) == TRUE

PublicAmountMatches(p, ext) == p.publicAmount = calculate_public_amount(ext.extAmount)

\* What the PolicyTransaction circuit proves about a proof's public inputs:
\* every non-zero input is a leaf under the root, the two nullifiers differ,
\* every input key is in the membership tree and absent from the sparse
\* tree, and the amounts balance modulo the field.
CircuitHolds(p) ==
  LET w == p.witness
  IN  /\ p.root = w.tree
      /\ \A s \in 1..2 : w.inputs[s] \in 0..Len(w.tree)
      /\ p.inputNullifiers = InputNullifiers(w)
      /\ InputNullifier(w, 1) # InputNullifier(w, 2)
      /\ \A s \in 1..2 :
           /\ \E j \in DOMAIN p.membershipRoot : p.membershipRoot[j] = InputNote(w, s).owner
           /\ InputNote(w, s).owner \notin p.nonMembershipRoot
      /\ (InputNote(w, 1).amount + InputNote(w, 2).amount + p.publicAmount) % FieldSize
         = (p.outputs[1].amount + p.outputs[2].amount) % FieldSize

\* Mutant: words from the modulus up are let through.
validate_bn256_public_inputs_Mutant(p) == TRUE

\* Every word is below the modulus.  Roots, public amount and hash were compared
\* with canonical words before, and of an output the tree takes only the hash:
\* what is left are the nullifiers.
validate_bn256_public_inputs(p) == \A s \in 1..2 : p.inputNullifiers[s][2] = 0

\* p with the nullifiers written as n + laps[s] times the modulus.
Rewritten(p, laps) ==
  [p EXCEPT !.inputNullifiers = <<<<@[1][1], laps[1]>>, <<@[2][1], laps[2]>>>>]

\* Mutant: the verifier's answer is ignored.
verify_proof_Mutant(p) == TRUE

\* Groth16 verification: sound and complete for the circuit, and the public
\* inputs are bound, so only the public inputs of a proof that somebody built
\* from a satisfying witness verify.  The verifier reads words modulo the field.
verify_proof(p) == validate_bn256_public_inputs(p) /\ Rewritten(p, <<0, 0>>) \in proofs

\* Mutant: the block list is not compared with the one the proof used.
AspRootsCurrent_Mutant(p) == p.membershipRoot = get_asp_membership_root

AspRootsCurrent(p) ==
  /\ p.membershipRoot = get_asp_membership_root
  /\ p.nonMembershipRoot = get_asp_non_membership_root

\* transact(p, ext, sender) returns Ok: the checks in the order of the code,
\* with the error each one raises.  Deposits are taken before the checks and
\* returned by the rollback when one of them fails.
Accepted(p, ext, sender) ==
  /\ ext.extAmount > 0 => /\ i256_to_i128_nonneg(ext.extAmount)   \* WrongExtAmount
                          /\ balance[sender] >= ext.extAmount     \* token error
  /\ is_known_root(p.root)                                        \* UnknownRoot
  /\ \A s \in 1..2 : ~ is_spent(p.inputNullifiers[s])            \* AlreadySpentNullifier
  /\ ext = p.extDataHash                                          \* WrongExtHash
  /\ Abs(ext.extAmount) < MaxExtAmount                            \* WrongExtAmount
  /\ PublicAmountMatches(p, ext)                                  \* WrongExtAmount
  /\ AspRootsCurrent(p)                                           \* InvalidProof
  /\ verify_proof(p)                                              \* InvalidProof
  /\ ext.extAmount < 0 => /\ i256_to_i128_nonneg(-ext.extAmount)  \* WrongExtAmount
                          /\ poolBalance >= -ext.extAmount        \* token error
  /\ HasRoom                                                      \* MerkleTreeFull

-----------------------------------------------------------------------------
Init ==
  /\ leaves = <<>>
  /\ roots = [i \in 0..(RootHistorySize - 1) |-> IF i = 0 THEN RootOf(<<>>) ELSE NoRoot]
  /\ currentRootIndex = 0
  /\ nullifiers = {}
  /\ poolBalance = 0
  /\ balance = [a \in Accounts |-> InitialFunds]
  /\ admin \in Admins
  /\ aspMembership \in MembershipContracts
  /\ aspNonMembership \in NonMembershipContracts
  /\ members = [c \in MembershipContracts |-> <<>>]
  /\ blocked = [c \in NonMembershipContracts |-> {}]
  /\ proofs = {}
  /\ published = <<>>

\* Mutant: the ring is one slot too short.
insert_two_leaves_Mutant(a, b) ==
  LET root_index == (currentRootIndex + 1) % (RootHistorySize - 1)
  IN  /\ leaves' = leaves \o <<a, b>>
      /\ roots' = [roots EXCEPT ![root_index] = RootOf(leaves')]
      /\ currentRootIndex' = root_index

\* MerkleTreeWithHistory::insert_two_leaves: append, then advance the ring.
insert_two_leaves(a, b) ==
  LET root_index == (currentRootIndex + 1) % RootHistorySize
      ls         == leaves \o <<a, b>>
  IN  /\ leaves' = ls
      /\ roots' = [roots EXCEPT ![root_index] = RootOf(ls)]
      /\ currentRootIndex' = root_index

\* Mutant: only the first nullifier is stored.
mark_spent_Mutant(p) ==
  /\ nullifiers' = nullifiers \union {p.inputNullifiers[1]}
  /\ published' = published \o p.inputNullifiers

\* Every nullifier is marked spent and published.
mark_spent(p) ==
  /\ nullifiers' = nullifiers \union {p.inputNullifiers[s] : s \in 1..2}
  /\ published' = published \o p.inputNullifiers

\* A deposit moves tokens from the sender, a withdrawal to the recipient.
MoveTokens(ext, sender) ==
  /\ poolBalance' = poolBalance + ext.extAmount
  /\ balance' = IF ext.extAmount > 0
                THEN [balance EXCEPT ![sender] = @ - ext.extAmount]
                ELSE [balance EXCEPT ![ext.recipient] = @ - ext.extAmount]

\* PoolContract::transact.  A rejected call changes nothing.
Transact(p, ext, sender) ==
  /\ Accepted(p, ext, sender)
  /\ MoveTokens(ext, sender)
  /\ mark_spent(p)
  /\ insert_two_leaves(p.outputs[1], p.outputs[2])
  /\ UNCHANGED <<cfgVars, aspVars, proofs>>

-----------------------------------------------------------------------------
(* Administration of the pool and of the ASP contracts it points to.       *)

update_admin(caller, new) ==
  /\ caller = admin
  /\ admin' = new
  /\ UNCHANGED <<treeVars, nullifiers, tokenVars, aspMembership,
                 aspNonMembership, aspVars, proofs, published>>

update_asp_membership(caller, new) ==
  /\ caller = admin
  /\ aspMembership' = new
  /\ UNCHANGED <<treeVars, nullifiers, tokenVars, admin, aspNonMembership,
                 aspVars, proofs, published>>

update_asp_non_membership(caller, new) ==
  /\ caller = admin
  /\ aspNonMembership' = new
  /\ UNCHANGED <<treeVars, nullifiers, tokenVars, admin, aspMembership,
                 aspVars, proofs, published>>

\* ASPMembership::insert_leaf: append only, duplicates allowed.
AspInsertLeaf(c, k) ==
  /\ Len(members[c]) < MaxAspLeaves
  /\ members' = [members EXCEPT ![c] = Append(@, k)]
  /\ UNCHANGED <<treeVars, nullifiers, tokenVars, cfgVars, blocked, proofs, published>>

\* ASPNonMembership::insert_leaf and delete_leaf, as a set of keys.
AspBlock(c, k) ==
  /\ k \notin blocked[c]
  /\ Cardinality(blocked[c]) < MaxBlocked
  /\ blocked' = [blocked EXCEPT ![c] = @ \union {k}]
  /\ UNCHANGED <<treeVars, nullifiers, tokenVars, cfgVars, members, proofs, published>>

AspUnblock(c, k) ==
  /\ k \in blocked[c]
  /\ blocked' = [blocked EXCEPT ![c] = @ \ {k}]
  /\ UNCHANGED <<treeVars, nullifiers, tokenVars, cfgVars, members, proofs, published>>

-----------------------------------------------------------------------------
\* The roots the tree has had, oldest first.
PastRoot(n) == SubSeq(leaves, 1, 2 * n)
RootCount   == Len(leaves) \div 2

\* Proofs that transact has not consumed yet.
Pending == {p \in proofs : \E s \in 1..2 : ~ is_spent(p.inputNullifiers[s])}

\* The sum constraint leaves a prover one public amount.
BalancingAmount(w, outputs) ==
  (outputs[1].amount + outputs[2].amount - InputNote(w, 1).amount - InputNote(w, 2).amount)
    % FieldSize

\* The proof a client of this repository builds: of the trees the contracts have
\* now, with the public amount of its external data.
Honest(p) ==
  /\ p.root = get_root
  /\ p.membershipRoot = get_asp_membership_root
  /\ p.nonMembershipRoot = get_asp_non_membership_root
  /\ PublicAmountMatches(p, p.extDataHash)

\* Somebody with the input keys builds a proof; once built, it may be sent late,
\* twice, or never.
Prove(p) ==
  /\ Cardinality(proofs) < MaxProofs
  /\ Cardinality(Pending) < MaxPending
  /\ Honest(p) \/ Cardinality(proofs) >= HonestProofs
  /\ CircuitHolds(p)
  /\ proofs' = proofs \union {p}
  /\ UNCHANGED <<treeVars, nullifiers, tokenVars, cfgVars, aspVars, published>>

\* The public inputs are the prover's choice, as far as the circuit goes: the
\* roots of the moment or made-up ones, and any external data beside any sum.
ProveAny ==
  \E root \in {get_root} \union MadeUpRoots,
     membershipRoot \in {get_asp_membership_root} \union MadeUpMembers,
     nonMembershipRoot \in {get_asp_non_membership_root} \union MadeUpBlocked :
  \E i \in 0..Len(root) : \E j \in i..Len(root) :
  \E signer \in Keys, outputs \in Note \X Note, ext \in ExtData :
    LET w == [id |-> Cardinality(proofs), tree |-> root, inputs |-> <<i, j>>, signer |-> signer]
    IN  Prove([witness           |-> w,
               root              |-> root,
               publicAmount      |-> BalancingAmount(w, outputs),
               extDataHash       |-> ext,
               inputNullifiers   |-> InputNullifiers(w),
               outputs           |-> outputs,
               membershipRoot    |-> membershipRoot,
               nonMembershipRoot |-> nonMembershipRoot])

\* The calls an untrusted submitter can make from a proof it has seen: the
\* proof as it is, or with public inputs replaced.
Calls(q, ext) ==
  {q, [q EXCEPT !.extDataHash = ext, !.publicAmount = calculate_public_amount(ext.extAmount)],
   [q EXCEPT !.root = get_root],
   [q EXCEPT !.membershipRoot = get_asp_membership_root,
             !.nonMembershipRoot = get_asp_non_membership_root]}
  \union {Rewritten(q, laps) : laps \in (0..MaxLap) \X (0..MaxLap)}

TransactAny ==
  \E q \in proofs, ext \in ExtData, sender \in Accounts :
    \E p \in Calls(q, ext) : Transact(p, ext, sender)

Next ==
  \/ ProveAny
  \/ TransactAny
  \/ \E caller, new \in Admins : update_admin(caller, new)
  \/ \E caller \in Admins, c \in MembershipContracts : update_asp_membership(caller, c)
  \/ \E caller \in Admins, c \in NonMembershipContracts : update_asp_non_membership(caller, c)
  \/ \E c \in MembershipContracts, k \in Keys : AspInsertLeaf(c, k)
  \/ \E c \in NonMembershipContracts, k \in Keys : AspBlock(c, k) \/ AspUnblock(c, k)

Spec == Init /\ [][Next]_vars
-----------------------------------------------------------------------------
(* Properties.                                                             *)

\* Every variable stays in its type.
TypeOK ==
  /\ leaves \in Seq(Note)
  /\ roots \in [0..(RootHistorySize - 1) -> Seq(Note) \union {NoRoot}]
  /\ currentRootIndex \in 0..(RootHistorySize - 1)
  /\ nullifiers \subseteq Word
  /\ poolBalance \in Nat
  /\ balance \in [Accounts -> Nat]
  /\ admin \in Admins
  /\ aspMembership \in MembershipContracts
  /\ aspNonMembership \in NonMembershipContracts
  /\ members \in [MembershipContracts -> Seq(Keys)]
  /\ blocked \in [NonMembershipContracts -> SUBSET Keys]
  /\ proofs \subseteq Proof
  /\ published \in Seq(Word)

\* The ring slot written j transactions ago.
Slot(j) == IF j <= currentRootIndex THEN currentRootIndex - j
                                    ELSE currentRootIndex - j + RootHistorySize

\* What makes RootWindow inductive: going back from the current slot, the
\* ring holds the roots of the tree from the latest to the oldest, and the
\* rest of it has never been written.
RingInv ==
  /\ Len(leaves) = 2 * RootCount
  /\ \A j \in 0..(RootHistorySize - 1) :
       roots[Slot(j)] = IF j <= RootCount THEN PastRoot(RootCount - j) ELSE NoRoot

\* What makes NoDoubleSpend and OnlyApprovedSpend inductive: the published
\* nullifiers are exactly the stored ones, all below the modulus, and every
\* proof in circulation was built from a witness of the circuit.
SpentInv ==
  /\ nullifiers = {published[a] : a \in DOMAIN published}
  /\ \A a \in DOMAIN published : published[a][2] = 0
  /\ \A p \in proofs : CircuitHolds(p)

\* The word that spends leaf i.
LeafWord(i) == <<<<"leaf", i, leaves[i]>>, 0>>

UnspentLeaves == {i \in DOMAIN leaves : ~ is_spent(LeafWord(i))}

\* The sum of w[1] to w[n].
Total(w, n) ==
  LET sum[k \in Nat] == IF k = 0 THEN 0 ELSE sum[k - 1] + w[k]
  IN  sum[n]

\* What every leaf is worth: nothing once it is spent.
Worths == [i \in Nat |-> IF i \in UnspentLeaves THEN leaves[i].amount ELSE 0]

UnspentValue == Total(Worths, Len(leaves))

\* The tokens the pool holds are exactly what the unspent notes are worth,
\* whatever mix of deposits, transfers, withdrawals, replays and tampered
\* calls transact has seen.
Solvency == poolBalance = UnspentValue

\* No nullifier is published twice, as the field element the circuit knows: two
\* proofs that race to spend one note, one proof sent twice, or one sent with a
\* nullifier written as n + modulus, succeed at most once.
NoDoubleSpend ==
  \A a, b \in DOMAIN published : published[a][1] = published[b][1] => a = b

\* is_known_root accepts exactly the last RootHistorySize roots of the tree,
\* before and after the ring has wrapped around.
RootWindow ==
  \A n \in 0..RootCount :
    is_known_root(PastRoot(n)) <=> RootCount - n < RootHistorySize

\* A proof whose public amount is that of its external data, whose root is among
\* the last RootHistorySize roots, whose inputs are unspent and whose ASP roots
\* are current is never turned away while the tree has room: in particular the
\* pool never lacks the tokens for a withdrawal and the amount always fits the
\* token's i128.
FreshProofAccepted ==
  \A p \in proofs, sender \in Accounts :
    LET ext == p.extDataHash IN
    /\ \E n \in 0..RootCount : p.root = PastRoot(n) /\ RootCount - n < RootHistorySize
    /\ PublicAmountMatches(p, ext)
    /\ \A s \in 1..2 : ~ is_spent(p.inputNullifiers[s])
    /\ p.membershipRoot = get_asp_membership_root
    /\ p.nonMembershipRoot = get_asp_non_membership_root
    /\ ext.extAmount <= balance[sender]
    /\ HasRoom
    => Accepted(p, ext, sender)

\* Every change to the shielded state is what some prover proved, as a whole:
\* the same inputs, the same outputs, and the proven amount moved to or from
\* the right account.  A submitter that swaps the external data or the roots
\* of a proof it has seen achieves nothing else.
OnlyAsProven ==
  [][ treeVars' # treeVars \/ nullifiers' # nullifiers \/ tokenVars' # tokenVars =>
      \E p \in proofs :
        LET e == p.extDataHash.extAmount
            r == p.extDataHash.recipient
        IN  /\ leaves' = leaves \o p.outputs
            /\ nullifiers' \ nullifiers = {p.inputNullifiers[s] : s \in 1..2}
            /\ poolBalance' - poolBalance = e
            /\ \A a \in Accounts : balance'[a] # balance[a] =>
                 \/ e < 0 /\ a = r /\ balance'[a] = balance[a] - e
                 \/ e > 0 /\ balance'[a] = balance[a] - e ]_vars

\* The pool as an abstract ledger: the live notes are the leaves whose
\* nullifier is not spent.
Ledger == INSTANCE ShieldedLedger WITH
  live   <- {<<i, leaves[i]>> : i \in UnspentLeaves},
  serial <- Len(leaves),
  vault  <- poolBalance,
  funds  <- balance

\* transact implements the ledger, through every replay, race, stale root and
\* tampered call: each change retires at most two live notes, each once, and
\* moves exactly the tokens that balance the notes it retires and creates.
ImplementsLedger == Ledger!Spec

\* When a note is spent, its owner is, at that very moment, in the membership
\* tree the pool points to and not in the non-membership tree: an approval
\* revoked, or an ASP contract replaced, between proving and submission takes
\* effect at once, although older pool roots remain usable.
OnlyApprovedSpend ==
  [][ \A i \in DOMAIN leaves :
        is_spent(LeafWord(i))' /\ ~ is_spent(LeafWord(i)) =>
          /\ \E j \in DOMAIN members[aspMembership] :
               members[aspMembership][j] = leaves[i].owner
          /\ leaves[i].owner \notin blocked[aspNonMembership] ]_vars
=============================================================================
