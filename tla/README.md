# Verification of the privacy pool

TLA+ models of the shielded pool in `src/`: its Soroban contracts, the relation
its circuit proves, the hash they share, the wallet that follows the chain and
spends from it, and the services around it (relayer, bootnode, prover API). TLC
checks the models on small instances; TLAPS proves the most important
properties of the pool contract, of the relayer, of the two readers of the event
stream, of submission and of selective disclosure for every value of their
constants, and that the pool implements an abstract ledger of notes.

Every definition that models code is listed under `map` in `PROJECT.json` with
the file and the lines it stands for. Names are those of the code where TLA+
allows it. Definitions ending in `_Mutant` belong to no model:
each is a plausible mistake in the definition below it, and `mutants` in
`PROJECT.json` names the property that catches it.

## 1. The system

A user deposits tokens into a pool contract and gets *notes*: commitments in a
Merkle tree that only their owner can open. A transaction spends two notes (or
dummies of amount 0) and makes two; it carries a Groth16 proof that the inputs
are leaves, that the amounts balance, and that every input key is in the tree
of an association set provider (ASP membership) and not in its block list (ASP
non-membership). The wallet runs in a browser: it fetches the contracts' events,
rebuilds the trees from them, finds its notes by trial decryption, plans
transactions, proves them and submits them itself or through a relayer.

| Component | State | Operations | Talks to |
|---|---|---|---|
| Pool contract (`contracts/pool`) | commitment tree, ring of 90 roots, nullifiers, ASP addresses, admin | `transact`, `update_*` | token, verifier, both ASPs |
| ASP membership (`contracts/asp-membership`) | incremental tree | `insert_leaf`, `update_admin`, `set_admin_insert_only` | pool reads its root |
| ASP non-membership (`contracts/asp-non-membership`) | sparse tree of nodes by hash | `insert_leaf`, `delete_leaf`, `find_key`, `verify_non_membership` | pool reads its root, client asks for proofs |
| Circuit (`circuits/`) | none | the relation of `PolicyTransaction` | verifier contract |
| Client tree (`core/prover/src/merkle.rs`) | none | root and path of a prefix of leaves | prover |
| Indexer (`core/stellar/src/indexer.rs`, `platforms/web` listener) | cursor and ledgers per contract | rounds of pages | RPC or bootnode, storage worker |
| Storage worker (`core/state`) | SQLite: raw events, derived tables, scan marks, notes | save, process, scan, reconcile, read | indexer, prover, UI |
| Planner (`core/tx-planner`) | a session with a frozen wallet | select, plan, resolve, complete a step | web client |
| Web client | the transaction in progress | prove, sign, submit, confirm | all of the above |
| Transaction builder (`core/prover/src/flows.rs`) | a bulk session | `deposit`, `withdraw`, `transfer`, bulk withdrawals | circuit, planner |
| Public key registry (`contracts/public-key-registry`) | keys by owner | `register` | senders read its events |
| Selective disclosure (`core/disclosure`, `js/disclosure.js`) | receipts | issue, verify | database, contract state, prover |
| Poseidon2 (`poseidon2`, `circuits`, `soroban-utils`) | none | the permutation, three times | every hash |
| Relayer (`services/relayer`) | sequence lock, cache of answers | `POST /relay` | RPC |
| Bootnode (`tools/bootnode`) | pages by cursor, sync state | index, serve, hand off | RPC, wallets |
| Client sparse tree (`core/prover/src/sparse_merkle.rs`) | nodes by hash | `find`, `insert`, `update`, `get_proof` | callers of the prover library |
| ASP bootstrap (`tools/asp-bootstrap`) | a state file | one run after deployment | both ASPs, by the Stellar CLI |
| Prover API (`services/prover-api`) | none | `POST /prove/...` | RPC |
| Groth16 verifier, key tools, UI, tests | see section 8 | | |

What is hard here:

- **Delay between proving and submission.** A proof names a pool root and two
  ASP roots of the past; others spend, join, get blocked, and administrators
  replace contracts in between. Anyone who sees a proof can send it again or
  change what it says.
- **A ring at its limit**, a tree at its limit, and sums in a field where the
  code means integers.
- **A sparse tree edited in place**: deletions promote leaves over several levels,
  and the circuit, the contract and the client each rebuild the same paths.
- **Progress saved apart from data.** The indexer stores a page and its cursor in
  two requests, the processor fills each table in its own SQL transaction, and
  the tab can be closed between any two. Accounts log in after their notes came.
- **Independent reads.** The ledger, the contract's root and the local database
  are read one after another and may disagree.
- **Timeouts.** A transaction whose confirmation timed out can land later,
  during the retry.
- **The same thing computed twice.** Client, circuit and contracts each have their
  own hash, trees, amount ranges and padding, and nothing but agreement makes
  a proof verify.
- **One account, many requests.** The relayer's sequence number on the ledger
  advances only with the next ledger, while requests come at any time.

`hazards` in `PROJECT.json` lists these at the lines where they bite, each with
the property that would catch it, or with a note saying why none does.

## 2. Modules

| Module | Models | Run by |
|---|---|---|
| `Pool` | the pool contract with the ASP roots it reads, the token, provers honest and dishonest, and submitters | `MCPool` |
| `ShieldedLedger` | what the pool promises: live notes and a vault | through `Pool!ImplementsLedger` |
| `PoolProofs` | theorems about `Pool`, its refinement and its balance | TLAPS |
| `MerkleTree` | incremental trees of the contracts, the client's prefix tree, the circuit's path check | `MCComponents` |
| `AspNonMembership` | the sparse tree, its proofs for client, contract and circuit | `MCComponents` |
| `ClientSmt` | the client's sparse tree, compared with `AspNonMembership` | `MCComponents` |
| `TreeProofs` | theorems about `MerkleTree`, `AspNonMembership` and `ClientSmt` | TLAPS |
| `AspBootstrap` | the tool that fills a fresh membership tree | `MCAspBootstrap` |
| `Poseidon2`, `Poseidon2Tables` | the permutation in library, circuit and contracts, and the constants each of them keeps | `MCComponents` |
| `EventChain` | ledgers, events and the pages of `getEvents` | through the three below |
| `Indexer` | events listener and indexer over an RPC and a bootnode | `MCEvents`, `MCIndexer` |
| `Bootnode` | the bootnode's indexer task, cache and request handler, with a wallet that reads from it | `MCEvents`, `MCBootnode` |
| `SyncProofs` | theorems about `Indexer` and `Bootnode` | TLAPS |
| `ProverApi` | one request to the prover API over a moving chain | `MCComponents` |
| `LocalState` | the local database and its processor | `MCLocalState`, `MCWallet`, `MCWalletLive` |
| `LocalStateProofs` | theorems about `LocalState` | TLAPS |
| `Submission` | sequence number, simulation, signing, sending and polling; the key registry | `MCWallet` |
| `SubmissionProofs` | theorems about `Submission` | TLAPS |
| `TxPlanner` | coin selection, plans, sessions | `MCTxPlanner`, `MCWalletLive` |
| `Flows` | the transaction builder, bulk sessions, and the notes found from its outputs | `MCComponents` |
| `FlowsProofs` | theorems about `Flows` | TLAPS |
| `Disclosure` | issuing and verifying receipts | `MCComponents` |
| `DisclosureProofs` | theorems about `Disclosure` | TLAPS |
| `Relayer` | the relayer and the network's queue for its account | `MCComponents`, `MCRelayer` |
| `RelayerProofs` | theorems about `Relayer` | TLAPS |

`MCComponents`, `MCEvents`, `MCWallet` and `MCWalletLive` are sums: a variable names the component that
moves, the others stay in an initial state, so each component has its own
reachable states and one run visits them all.

`Pool` takes from `MerkleTree` that the incremental root is a function of the
leaves and of nothing else, and from `AspNonMembership` that the sparse root is
a function of the block list: it writes the roots as those sequences and sets.
Both take hashes as free constructors and leave to `Poseidon2` that the three
computations of a hash are one function.
`LocalState` takes from `Indexer` (run `event_sync`) that raw events come as
a growing prefix, and that `last_fully_indexed` is true, which the code ensures only
over an RPC that scans to the tip (section 4); `TxPlanner` takes from
`LocalState` that the wallet lags and then agrees with the chain, and `Submission`
refines what the planner sees of a step: success, an error or a timeout.

### Pool

A Soroban call is atomic, so every entry point is one action and a rejected call
is no step. `Accepted` is the conjunction of `transact`'s checks with the error
each raises; `Transact` adds all of its writes: the token transfer, the
nullifiers, the two leaves, the ring, the events.

`CircuitHolds` is the relation of `policyTransaction.circom`, with its sum modulo
the field; a proof keeps its witness: the tree it opens, the positions there,
the key of its dummies. `Prove` takes any proof that meets the relation. To the
circuit the three roots and the external data are free public inputs, and the
public amount is tied to nothing but the sum. So a prover may balance a
transaction with a public amount that is not that of its external data
(`BalancingAmount`), or prove against trees it made up (`MadeUpRoots`,
`MadeUpMembers`, `MadeUpBlocked`), whose notes may hold any amount of the field.
What keeps such proofs out are checks of the contract: `PublicAmountMatches`
(`pool.rs:555`), `is_known_root`, `AspRootsCurrent`.

`Calls` is what a submitter can do with a proof it has seen: send it as it is,
with public inputs replaced, or with a nullifier written as the 256-bit word
`n + modulus`. The verifier reads words modulo the field and accepts what a prover
built; the map of spent nullifiers is keyed by the words.
`validate_bn256_public_inputs` is the check that keeps the two apart.

### MerkleTree

`insert_two_leaves`, `insert_leaf` with the frontier (`filled_subtrees`), the
client's levels and paths, and the circuit's recomputation of a root. `Above` is the
index with its low bits shifted out, one per level, as each of the three loops
does it; `HashesUp` is the loop that the contracts and the circuit share, with
the sibling on the side that the bit says. Poseidon2
is a free constructor: hashes are pairs, so two trees have equal roots only if
they are equal.

### AspNonMembership

Storage maps a hash to a node, as in the contract. `insert_leaf` splits leaves
and rewrites the path, `delete_leaf` promotes a lone sibling, `find_key` walks
the nodes, `verify_non_membership` and the circuit's `SMTVerifier` rebuild a root
from siblings. `SmtDepth` is the circuit's number of levels (10 in the code),
`KeyBits` the contract's (256). `MCComponents` reads the same tree with two more,
shallower circuits (`Edge`, `Cut`), for branches as deep as the circuit and for paths
that the client cuts.

### ClientSmt

The library's tree keeps every node it ever made; `find` walks it, `insert` and
`update` rewrite a path, `get_proof` cuts the siblings. The search is the
contract's (`find_key_internal`) on another store.

### AspBootstrap

A run checks the root, inserts a leaf per user, reads the roots and writes the
file; every step is a call of the Stellar CLI that may fail, be tried again, or
time out and land later.

### ShieldedLedger

A ledger without trees or proofs: `Settle` retires at most two live notes, each
once, makes two, and moves the difference between the vault and one account.
`Pool!Ledger` maps the pool to it: a note is live while its leaf's nullifier is
not stored, its serial number is the leaf's position, the vault is the pool's
token balance. `Prove`, updates of the administration and ASP changes are stutters.

### Poseidon2

Three states run side by side from one input: the library's `permutation`, with
its unrolled matrix products; the circuit's template; and the reference, which
is what the host function computes by matrices from the arguments the contracts
give it. The rounds are the code's, 4, 56 and 4 for BN256. The constants are in
`Poseidon2Tables`: every number that the library, the circuit and the contracts write
down, each copy read off its own file and reduced modulo the prime `Q`, since TLC
has 32 bits. One wrong number in one copy makes the states differ from the round
that reads it on, unless it is congruent to the right one modulo `Q`. The pool
hashes with BN256 only; the library's other 14 instances are compared with their own
`MAT_INTERNAL` tables, from which the library never computes. Row 29 of the
contracts' table for width 2 (`soroban-utils/src/constants.rs:464`) has one element
where the other partial rounds spell out the zero; a partial round reads no more.

### Indexer

A cursor is a position in the sequence of events. One action for each await of
the code: probe, read of the progress, request of a page, save of its events,
save of the progress. Failures and closed tabs come between any two. The RPC
scans `Window` ledgers per call and forgets old ledgers; the bootnode serves any
part of the events it could have cached, or hands off.

### Bootnode

The indexer task walks the upstream pages and stores each under the key it was
asked for, then the cursor, then the tip, then `in_sync`: one action per query.
The handler looks a page up, and on a miss reads `in_sync` and the tip in
later queries to choose between a handoff and a miss. A wallet pages through it
while ledgers close. Any query can fail and the process can restart
between two.

### ProverApi

A request pages events up to the tip ledger, reads index and root of the pool by
separate calls, retries a moving snapshot, rebuilds the trees, looks for the
user's leaf and asks for a non-membership proof; transactions, ASP leaves and
block list changes come between any two.

### LocalState

One action for each SQL transaction of the processor, since the tab can be closed
between two. Requests of the indexer and of the user are served where the
processor waits for the next wake-up or yields between iterations (`AtRequest`):
the worker has one thread. An event that does not parse (`emits_broken`,
`parse_event`) stays unprocessed and keeps its place in every batch. Row ids are positions in the sequence of rows; the
`UNIQUE` columns are `InsertNew`. The contract's reads are stale by any number
of ledgers (the ledger `l` in the properties).

### TxPlanner

Coin selection is written as the code computes it (`TwoScan`, `OneScan`, the depth
first search of `KScan`, `greedy_impl`) and compared with its definition over all
subsets. A session runs on a frozen copy of the wallet against notes on chain
and a database that lags; steps fail, time out and land late.

### Flows

`transact` as the code builds it: fresh blindings, dummies for missing inputs and
outputs, the balance equation in `u128` and `i128` and again in the field, the
recipient's keys and the sender's own, ciphertexts. `CircuitHolds` is the
circuit's view of the result. The caller may set both keys of an output, one or
none (`Unset`), in any combination; the code only compares which are set.
A bulk session chains withdrawals through their
change notes; a step it gave up on may still land.

### Submission

An attempt goes through the awaits of `prove_and_submit` and
`register_public_keys`: read the sequence number, simulate, sign each
authorization entry and the envelope, send, poll. Two tabs of one account
interleave; the network (external) queues one transaction of an account, drops
it, or applies it in a later ledger, since envelopes carry no time bounds. The
answers to sending and polling can be lost. `register` is the registry
contract; a reader processes its events one by one and looks keys up.

### Disclosure

A page issues a receipt over several awaits (chain state, database, prover); files
change hands and may be edited; another page verifies proof, context and
root, in separate requests, while other receipts are loaded. The hash of a
context is the sequence that is hashed, lengths included. A receipt shows that
its issuer owned the note under a root; it does not show that the note is
unspent, and no property says so.

### Relayer

The handler's awaits are the steps: lock, cache, sequence number, simulation,
submission. The network (external) holds one transaction of an account at a
time and answers `PENDING`, `DUPLICATE`, `TRY_AGAIN_LATER` or `ERROR`; it may let
a transaction expire. Clients disconnect, responses get lost, the process
restarts with an empty cache, and owners spend notes elsewhere.

## 3. Runs that pass

| Run | Properties | What it shows |
|---|---|---|
| `pool_accounting` | `Solvency`, `FreshProofAccepted`, `OnlyAsProven` | Two accounts, three honest proofs, of which two wait at a time, sent late, twice or changed, until the tree is full: the pool holds what its unspent notes are worth, a fresh proof is never refused, and each change is what somebody proved. Dishonest provers are in `pool_race`. |
| `pool_race` | `Solvency`, `NoDoubleSpend`, `RootWindow`, `OnlyApprovedSpend`, `ImplementsLedger` | Two honest proofs, and a third that may have any external data beside its public amount, a made-up tree, an open membership tree or an empty block list, sent with nullifiers in either form, on a ring that wraps, while keys join, are blocked and unblocked, and administrators and ASP contracts change between proof and call: no value is minted, a note is spent once, exactly the last roots are known, a spender is approved at the moment of the call, and every step is a step of `ShieldedLedger`. |
| `event_sync` | `NoEventLost`, `IndexerCatchesUp` | Pages of one event, rounds of two pages, a forgetting RPC, a bootnode and two failures anywhere: no event is skipped and the listener reaches the tip. This is about an RPC of which one call scans to the tip (`Window` 9); run `indexer_handoff` is about the others. |
| | `PagesAreFaithful`, `WalletHasNoGap`, `BootnodeServes` | Over the same chain, with an upstream RPC that scans two ledgers per call: a page that is cached is the answer to its key, also when it was stored twice around a restart; a wallet that follows the cache misses no event; and it always comes to a handoff. |
| `wallet` | `WalletAgrees`, `NoMissedSpend`, `TablesAreSound` | Two pools, two accounts that log in at any time, batches of one event, two crashes: at rest the wallet is what the events say. |
| | `ReportsAreTruthful`, `OverlappingAttemptsExclude`, `SendersFindCurrentKeys` | Three attempts of one user in two tabs: success and failure are true for good when they are reported, two attempts of which one read the account before the other was applied are never both applied, and readers find the keys that were registered last. |
| `wallet_live` | `DatabaseConverges`, `MembershipProofMatches` | The wallet reaches the truth once the chain is quiet, although an event that no parser knows stays in every batch; with ASP leaves, one or two per ledger, and stale reads, a membership proof is only built on the root the contract had. |
| | `SelectionIsBest`, `PlanRuns`, `NoValueLost`, `SessionsEnd` | All wallets of up to four notes, goals up to 5, two sessions one after the other over timeouts and late transactions: a plan is found when there is one, with the fewest notes from three on and the least change for that number; every step finds its notes, no value is lost, and a session ends unless its note was spent by another. |
| `components` | `TreesAgree` | All ways to fill a tree of depth 3 by pairs or single leaves: contract, client and circuit agree on every root and path, and roots of different contents differ. |
| | `BlocklistIsExact`, `BlockedCannotProve` | All sequences of insertions and deletions of three keys that share one or two bits: the root depends on the block list alone, `find_key` is exact and never fails, and no path over nodes in storage, stale ones too, proves that a blocked key is absent. |
| | `ClientComputesTheSame` | Unblocked owners have proofs that circuit and contract accept (`UnblockedCanProve`), and exactly those whose branch is shorter than the circuit (`TooDeepToProve`, for circuits that are too shallow by one level and by two). The client's tree has the contract's root for the same pairs, and its searches and proofs are exact, also over the nodes of earlier versions (`ClientTreeIsExact`). After each round of Poseidon2 the library, the circuit and the host have the same state (`PermutationsAgree`). |
| | `NoSelfConflict`, `RetryGetsSameHash` | Two handlers, three bodies of which two spend one note: the relayer never pays for a conflict of its own, and a retry gets its first hash. |
| | `ReadsAreConsistent`, `QuietRequestIsProved` | The events a prover request has read are those of one state of the chain, root and index belong together, and a request during which nothing changes gets a proof. Of a request over a moving chain nothing is claimed: the code warns of a stale tree and proves against it. |
| | `BuiltIsProvable`, `OutputsAreFindable`, `BulkIsExact` | All amounts of two bits, every flow: what is built meets the circuit; an output of value is found by its owner, with the nullifier that spends it, exactly if its caller did not set keys of two accounts; a bulk session pays each recipient once and can go on, also when a step it gave up on lands. |
| | `VerdictIsTrue`, `HonestReceiptPasses` | A receipt shown as verified was issued for the context on the page, whatever was edited, loaded or answered late; an unedited receipt passes proof and context, and root as long as the pool knows it. |
| | `ComponentsTypeOK` | The types of all components. |

### Bounds

| Bound | Meaning | Why it is enough |
|---|---|---|
| `MaxProofs`, `MaxPending` | 3 and 2 | a deposit and two proofs that race for its note; three transactions wrap a ring of two |
| `HonestProofs` | 3 in `pool_accounting`, 2 in `pool_race` | every mix of honest proofs in the first (trees of now, the public amount of the external data); after two of them a dishonest one in the second |
| `MadeUpRoots`, `MadeUpMembers`, `MadeUpBlocked` | nothing, or a tree of one rich note, a tree of all keys, and the empty set | one invention per root; a note that exists only in the made-up tree |
| `MaxLap` | 0 or 1 (5 in the code) | a nullifier as itself and as `n + modulus` |
| `Levels`, `RootHistorySize` | 2 or 3, and 2, for the deployed depth and 90 | with depth 2 the tree fills within the run, with depth 3 the race is decided by the nullifiers and not by a full tree; the theorems hold for all sizes |
| `MaxExtAmount`, `FieldSize`, `I128Max`, `InitialFunds` | 2 or 3, 13, 1 or 2, 1 | the order of the real values is kept: `4 * MaxExtAmount < FieldSize`, `I128Max < MaxExtAmount` |
| `MaxAspLeaves`, `MaxBlocked` | 1, 0 or 1 | one change between proof and call |
| `KeyBits`, `Keys`, `SmtDepth` | 3 bits, keys 0, 2, 4, depth 3, and 2 and 1 | keys that share one bit and two, so splits and promotions run over several levels; a branch that fits, one as deep as the circuit, and one that is cut |
| `MaxLedger`, `MaxPerLedger`, `MaxForget`, `MaxFailures` | 3, 2 (3 in `components`), 2, 2 | a ledger cut by a page, a gap, and two failures anywhere in a round; in `components`, two transactions, an ASP leaf and an empty tip |
| `Window` | 9, more than the ledgers there are; 1 in the two handoff runs; 2 in `components`; `Upstream`, the bootnode's, is 2 | a scan that reaches the tip, and one that needs several windows |
| `PageSize`, `MaxPages`, `FETCH_LIMIT`, `ACCOUNT_CHUNK` | 1 to 3, for 300, 10, 50 and 4 | smaller than what one ledger holds, so every cut happens |
| `MaxTransact`, `MaxLeaves`, `MaxCrashes` | 2, 3 in `wallet_live`, 2 (1 in `wallet_live`) | a note, its spend, and a crash inside each of two iterations |
| `MaxBroken` | 1 in `wallet_live` with `FETCH_LIMIT` 2, else 0 | an event that does not parse takes one place of each batch; with as many as the limit (50 in the code) nothing behind them is ever processed |
| `MaxRetries`, `MaxRuns` | 2 | a call that is tried again, and a second run over what the first left |
| `Inputs`, `Outputs` | 1, for 2 | a batch of one event cuts a transaction anyway; a nullifier and a commitment suffice for every order |
| `MaxNotes`, `MaxGoal`, `TRANSACTION_LIMIT` | 4, 5, 4, and 5, 9, 5 in `planner_exact` (10 in the code) | two, three and four picks; a merged amount that equals two other notes needs four picks; four exact notes beside three that overshoot need five |
| `MaxSessions`, `MaxSeq` | 2 | a retry after a timeout; two transactions of one account |
| `MaxAttempts`, `OpenTabs`, `MaxClosed` | 3, 2, 1 | keys changed and changed back, or a retry beside another tab; an authorization that expires |
| `CONFIRM_POLL_ATTEMPTS`, `AUTH_EXPIRATION_LEDGERS` | 2, 1, for 30 and 100 | a poll that goes on and one that ends; a ledger in time and one too late |
| `PagesPerRound`, `CutoffLedgers`, `MaxMishaps` | 2, 1, 1 | a round cut short, a handoff before the tip, and a failure or restart at each query |
| `RootHistory`, `MaxBlocklist` | 2, 1 | a ring that laps between two reads |
| `NoteBits`, `FieldModulus`, `CircuitBits` | 2, 31, 3, for 128, the field and 248 | sums that overflow the width and still fit the field, as in the code |
| `MaxLanded`, `MaxCalls`, `MaxPayees`, `MaxWallet`, `MaxEvents` | 3, 3, 2, 1, 2 | a funding, a first step that lands late and its second copy |
| `Q` | 46337, for the field | the largest prime whose products TLC can compute; rounds, widths and matrices are the code's. Inputs made of 0, 1 and -1 for the widths the pool uses, since the constants decide and not the input; one input for the others |
| `KnownRoots`, `MaxRoots`, `MaxReceipts`, `OwnNotes` | 2, 3, 1, two notes | a root that leaves the ring between issue and check |

`DfsLimit` keeps the code's 5000, which four notes never reach: what the planner
does after giving up a search (`greedy_impl`) is reached only through its other
condition. Symmetry is used in `MCPool` only, over accounts, keys and
administrators, which the specification never orders and no liveness
property depends on.

Deadlock is checked except in the runs of the indexer, the bootnode, `wallet_live`,
`planner_exact`, `asp_bootstrap` and `components`: the listener ends by design after a probe that failed, a wallet that
was handed off is done, and trees, planners and sessions at their bounds have nothing
left to do. In `wallet` it shows that no attempt hangs: the only rest is `settled`,
with every attempt reported.

### Fairness

- `Indexer!FairSpec`: `WF` of the indexing steps. The listener's loop sleeps and
  starts another round whether or not the last one failed; its requests answer
  or fail. Failures are bounded, and a listener that stopped after its first probe
  is excused in the property, as the code does not restart it.
- `LocalState!FairSpec` (`LiveSpec` of `MCWalletLive` states it, and `PlannerFairness`
  below, for its two parts): `WF` of the processor, which the worker's loop runs
  whenever it was woken; `SF` of `save_events_batch`, which the indexer sends at
  the end of every page, empty ones too, and which wakes the processor. Strong,
  because an event that does not parse keeps the processor going without end:
  the request waits in the worker's queue and is served at the next of the
  timeouts (`TimeoutFuture::new(0)`) that the processor yields with.
- `BootnodeFairness`: `WF` of the indexer task (`IndexerTask`), which the loop repeats
  after errors, and of the wallet's call (`WalletCall`): its next request and the
  steps of the handler that answers it. Failures and restarts
  are bounded and not fair.
- `PlannerFairness`: `WF` of the database's progress, of the loop that asks every
  second, of the client's own steps, and of the three ends of a proved step taken
  together. Nothing is assumed about which of the three happens, about
  late transactions, or about the user giving up.

The code's own text is wrong about a session whose note is already spent (section
4): `SessionEndsUnlessOvertaken` excuses exactly that case, as `UnblockedCanProve`
excuses branches as deep as the circuit, which `TooDeepToProve` shows to be refused, and
leaves of value 0, and `IndexerCatchesUp` an
RPC that forgot ledgers before they were fetched.

## 4. Where the code and its text disagree

Six disagreements are runs that TLC ends with a counterexample; `findings` in
`PROJECT.json` quotes the lines.

| Run | What the run shows |
|---|---|
| `indexer_handoff` (`NoEventLost`) | An RPC that scans part of the ledgers per call, as `services/prover-api/src/chain.rs:3` describes it, answers an empty page before the tip. The indexer takes it as catch-up and stores the tip; after a retention gap clears the cursors, the events in between are never fetched. |
| `bootnode_handoff` (`HandoffIsComplete`) | The same empty page makes the bootnode set `in_sync` and move its cursor while nothing is cached for that key: a wallet there is handed off past events it never got, where `docs/src/bootnode.md:20` says the archive is complete. |
| `local_short` (`Converges`) | One output with a ciphertext under 120 bytes ends every later scan with an error: notes behind it are never found. |
| `planner_exact` (`OvershootIsFallback`) | Notes 1, 1, 3, 3, 3 and the goal 8 give three notes worth 9 although 1 + 1 + 3 + 3 match: for each number of notes the search returns the overshoot it met before it tries one more (`combination.rs:170`), where the planner's README puts "Exact before overshoot". `SelectionIsBest` states what the code does. |
| `relayer_hash` (`CachedWasTaken`) | `TRY_AGAIN_LATER` counts as success: the hash of a transaction the network did not take is cached and returned. |
| `asp_bootstrap` (`BootstrapPopulates`) | The tool takes a tree for empty when its root prints as 0, but a fresh membership contract has the zero hash of its top level as root: on a fresh deployment no leaf is inserted, and the state file lists users that have none. |

The same models explain these, which no run singles out:

- `app/crates/core/stellar/src/contract_state.rs:415`: `find_key` answers with up to
  256 siblings and the client cuts them to `SMT_DEPTH` = 10, so two blocked keys with
  equal low bits leave unblocked owners near them without a proof the circuit
  accepts (`UnblockedCanProve` is stated for shorter branches, `TooDeepToProve` for the others).
- `app/crates/core/stellar/src/indexer.rs:130`: after the same empty page
  `last_fully_indexed` names ledgers that were not scanned, until the cursor has passed
  them. No property says that it is true of every RPC.
- `services/prover-api/src/proof.rs:400`: a tree that does not hash to the pool's root is
  proved against after a warning, and the pool refuses the proof.
- `app/crates/core/prover/src/flows.rs:550`: an output whose caller sets the note key of
  one account and the encryption key of another is built and can be spent by nobody
  who finds it (`OutputsAreFindable` says: exactly these).
- `contracts/asp-non-membership/src/lib.rs:686`: `verify_non_membership` refuses the
  honest proof when the leaf at the end of the branch stores 0.
- `contracts/asp-non-membership/src/lib.rs:577`: a promotion leaves old internal nodes in
  storage, where the comment says they are deleted; `BlockedCannotProve` shows that
  they prove nothing.
- `app/crates/core/stellar/src/indexer.rs:95`: a contract enabled by a later build has no
  row and takes the cursor of the others; its earlier events are never fetched.
  `Indexer` has a fixed set of contracts.
- `app/crates/core/state/src/storage.rs:982`: a database ahead of the contract read, or
  with part of a ledger, is a hard error, where line 908 says such skew is tolerated.
- `app/crates/core/state/src/storage.rs:967`: before the first leaf is processed, a
  registered account is told to register, where line 904 says `SyncRequired`.
- `app/crates/core/state/src/events_parsers.rs:28`: an event that does not parse stays
  unprocessed; as many of them as a batch holds (50) stop the processing of
  everything behind them (`Converges` holds below that number).
- `app/crates/core/state/src/storage.rs:833`: the second of two equal commitments, which
  the pool accepts, is dropped, and the local leaves keep a gap. `LocalState` has
  outputs that differ.
- `app/crates/platforms/web/src/workers/storage.rs:628`: a note that is already spent is
  waited for without end, like one that is not derived yet (`Overtaken`).
- `app/crates/core/state/src/schema.sql:123`: `leaf_index` is the key of the ASP leaves of
  all contracts, so the leaves of a replaced ASP contract are dropped. `LocalState`
  has one ASP contract.
- `app/crates/platforms/web/src/client/mod.rs:165`: after a timeout a user who pays again
  once the first transaction was applied, with another note, pays twice; the code
  relates the two payments by nothing but the sequence number
  (`OverlappingAttemptsExclude`).
- `app/crates/core/prover/src/flows.rs`: `transact` accepts the same note twice as input,
  which the circuit refuses (`BuiltIsProvable` excuses it).
- `services/relayer/src/routes/relay.rs:90`: a client that disconnects after the
  network has the transaction leaves no entry in the cache, and its retry is rejected
  as spent.
- `services/relayer/src/error.rs:110`: a sequence conflict is answered as an internal
  error, since only the outermost context of the error is searched (`RelayerError`).

## 5. Proofs

TLAPS checks these for every value of the constants that meets the named
assumptions.

**`PoolProofs`**, from `AmountAssumption`, `TreeAssumption`, `NoRootAssumption` and
`BoundAssumption` (the order of the amount ranges; at most 32 levels; a ring
of at least one slot; the zero word is no tree's root; the bounds are naturals) and
`MadeUpAssumption` (a made-up root is of a sequence of notes with amounts of the field
or of keys, or is a set of keys; any of them may be made up):

- `TypeCorrect`: `Spec => []TypeOK`.
- `SpentAtMostOnce`: `Spec => []NoDoubleSpend`.
- `WindowOfRoots`: `Spec => []RootWindow`.
- `ApprovedSpendsOnly`: `Spec => OnlyApprovedSpend`.
- `ChangesAsProven`: `Spec => OnlyAsProven`.

The inductive invariant is
`IInv == TypeOK /\ RingInv /\ SpentInv /\ NoDoubleSpend /\ IsFiniteSet(proofs)`.
`RootWindow` is not inductive: a ring that happened to hold the right set of roots
in another order would drop the wrong one. `RingInv` says which slot holds
which root, counted back from the current one, and the lemmas on `Slot` show that
one step of the ring moves each root one place back. `NoDoubleSpend` needs
`SpentInv`: what is stored as spent is what was published, and each published word is
below the modulus (`validate_bn256_public_inputs`), so the check against
the stored set is a check against the history; the two nullifiers of one
transaction differ because the circuit says so (`CircuitHolds` of all proofs),
and dummies differ from each other because proofs have different numbers,
for which `proofs` must be finite. `OnlyApprovedSpend` follows from `CircuitHolds`
at the time of proving and the equality of roots at the time of the call; the
leaf a proof opened under an old root is the leaf of now, since each past root is
a prefix of the leaves (`RootsAreTrees`). A proof against a made-up tree exists in
`proofs` and is refused by `is_known_root` unless that tree is one the pool had.

The refinement, from the same assumptions:

- `PoolImplementsLedger`: `Spec => ImplementsLedger`, that is, every behaviour of the
  pool is one of `ShieldedLedger` under the mapping of `Pool!Ledger`.

The initial states map to the initial state; an accepted `Transact` maps to
`Settle` of the notes its two nullifiers stand for, every other action to a stutter.
The step needs `IInv`: an input that opens a leaf under an old root opens the same
leaf now, it is live because its nullifier is not stored, and the field equation
of the circuit is an equation of integers because the public amount is that of
the external data (`PublicAmountMatches`; no proof in circulation need have it)
and because of the ranges in `AmountAssumption`.

Solvency, from the same assumptions and `SupplyAssumption` (the token's
whole supply fits its `i128`, which the token contract enforces):

- `PoolIsSolvent`: `Spec => []Solvency`.
- `FreshProofsPass`: `Spec => []FreshProofAccepted`.

The library's induction rules are out of the provers' reach, so the facts on sums
(`SumsExist`, `TotalChange`, `TotalCleared` and the like) are proved by the least
counterexample, from `WFMin`. `Solvency` is kept by a transaction because the
notes it retires and makes and the tokens it moves balance as integers
(`SolvencyStep`). `FreshProofAccepted` says that no check of `transact` refuses a
proof built on the roots of now by somebody with the money. It needs that the
pool can pay: the notes a proof opens are unspent, so their worth is part of the
balance (`InputsAreBacked`), and no sum leaves `i128`, since the tokens of all
accounts and of the pool stay what they were (`SupplyInv`, a sum over `Accounts`
through an enumeration of them).

**`RelayerProofs`**, from `RelayerAssumption` (each body spends a note; `None` is
neither a handler nor a body):

- `TypeCorrect`: `RelayerSpec => []RelayerTypeOK`.
- `RelayerNeverConflicts`: `RelayerSpec => []NoSelfConflict`.
- `RetriesAgree`: `RelayerSpec => RetryGetsSameHash`.

`IInv == RelayerTypeOK /\ WorkInv /\ LockInv /\ QueueInv /\ NoSelfConflict`. The sequence
number is read before the simulation. If a transaction of the relayer spends the
note after the simulation, the ledger that applied it also advanced the account,
and the number read can no longer be used; so a note spent behind the back of a
handler that can still submit was spent elsewhere (`WorkInv`, and `QueueInv` for
the queue). `RetryGetsSameHash` needs `LockInv`: the lock covers the lookup in the
cache and the insertion, so no body is in the cache while a handler works on it.

**`SubmissionProofs`**, from `SubmissionAssumption`:

- `SubmissionInvariant`: `SubmissionSpec => []SubmissionInv`, types included.
- `SubmissionReports`: `SubmissionSpec => []ReportsAreTruthful`.
- `SubmissionExclusion`: `SubmissionSpec => []OverlappingAttemptsExclude`.
- `SubmissionKeys`: `SubmissionSpec => []SendersFindCurrentKeys`.

Two attempts exclude each other because what was applied after an attempt read
its number has no smaller number (`BeforeInv`), and numbers on the ledger differ
(`SeqInv`): of two applied attempts that each miss the other in `before`, each
would have the larger number. A report is true for good because a queued
transaction was neither refused nor reported (`QueuedInv`). Readers find current keys
because the registry holds the keys of the highest number (`RegistryInv`), the last
event of an owner holds what the registry holds (`EventsInv`), and no two events
have the same ledger (`LedgersInv`), so that the latest ledger means the last event.

**`SyncProofs`**, from `EventChainAssumption`, `IndexerAssumption` and
`BootnodeAssumption`:

- `BootnodeInvariant`: `BootnodeSpec => []BootnodeInv`.
- `BootnodePagesAreFaithful`: `BootnodeSpec => []PagesAreFaithful`.
- `BootnodeWalletHasNoGap`: `BootnodeSpec => []WalletHasNoGap`.
- `IndexerInvariant`: `Spec => []IndexerInv`.
- `IndexerTypes`: `Spec => []TypeOK`.
- `IndexerLosesNothing`: `Spec => []NoEventLost` if `HasBootnode => WholeScan`.

`PageAnswers` says what `getEvents` promises: a page holds exactly the events between
the position it was asked for and its own cursor, whatever the window and the
page size. New events come after every cursor there is (`GrowthIsAhead`), so a page
stays a true answer while ledgers close. In the bootnode a page is the answer to
its key from the reply to the insertion, and stays so over failures, restarts and
repeated insertions (`CacheInv`, `TaskInv`); that the wallet has no gap follows by
adding pages (`WalletInv`). In the indexer everything behind the position of a
round, and behind the cursor of a row, is stored (`RoundInv`, `MetaInv`).
`WholeScan` (one call scans to the tip) is the hypothesis that `indexer_handoff` shows to
be needed: without it the claim is false of the code. An indexer that has no
bootnode loses nothing with any window, and the types hold for any window in
either case: the invariant speaks of what is stored for the readers that lose
nothing (`Lossless`) and of positions and rows for all.

**`DisclosureProofs`**, from `DisclosureAssumption`:

- `DisclosureInvariant`: `DisclosureSpec => []DisclosureInv`.
- `VerdictsAreTrue`: `DisclosureSpec => []VerdictIsTrue`.
- `HonestReceiptsPass`: `DisclosureSpec => []HonestReceiptPasses`.

A file on the authority's page comes from an issued receipt and keeps its proof
(`FromIssued`); a proof that verifies fixes root, commitment and hash; the hash fixes
the context, since every string goes into it behind its length (`FeedIsInjective`,
`HashIsInjective`, for strings of any length). `PageOK` says that a verification
under way, and its result, belong to the receipt that the page shows.

**`LocalStateProofs`**, from `LocalStateAssumption`:

- `LocalStateInvariant`: `Spec => []IInv`.
- `NoMissedSpendAlways`: `Spec => []NoMissedSpend`.
- `WalletAgreesAtRest`: `Spec => [](NoShort => WalletAgrees)`.
- `NeverInventsANote`: `Spec => []NeverInvents`.
- `TablesAreAlwaysSound`: `Spec => []TablesAreSound`.
- `MembershipProofAlwaysMatches`: `Spec => []MembershipProofMatches`.

`IInv == ChainOK /\ TypeOK /\ TablesOK /\ WorkOK /\ NotesOK /\ (NoShort => RestOK)`.
A batch holds the oldest events without a row (`WorkOK`), so a table that has an
event of a kind has every earlier one (`Closed` in `TablesOK`), whatever is closed
between two writes; with the numbering of the contracts (`ChainOK`) the leaves
of a pool are then an unbroken prefix. `NotesOK` ties the marks to the rows: a
note behind its owner's scan is there, and one that is unspent has no nullifier
behind the reconciliation mark. That is not enough for a processor at rest: it
rests because an iteration found nothing to do, and `RestOK` says of every point
of such an iteration what it has already looked at and found finished. `NoShort`
(no ciphertext is under 120 bytes) is needed there, as run `local_short` shows;
without it `NeverInventsANote` still says that nothing false is shown.

**`FlowsProofs`**, from `FlowsAssumption` (four amounts fit the field, an amount fits
the circuit's range check, the two accounts differ):

- `FlowsInvariant`: `FlowsSpec => []FlowsInv`.
- `FlowsTypes`: `FlowsSpec => []FlowsTypeOK`.
- `BuiltAlwaysProvable`: `FlowsSpec => []BuiltIsProvable`.
- `OutputsAlwaysFound`: `FlowsSpec => []OutputsAreFindable`.
- `BulkIsAlwaysExact`: `FlowsSpec => []BulkIsExact`.

`FlowsInv == TypesOK /\ LeavesOK /\ NetworkOK /\ SessionOK /\ ProofOK`. The hard case
is a session whose step was given up and built again while the first copy is
still under way. An output of value is not found exactly if its caller set keys of two
accounts (`mixed`, which the model remembers of each output). All copies share the change note's blinding, which the session
drew in advance, so the wallet finds the change of whichever lands; and a copy
that can still land is void, its nullifier being stored, or is the current step
(`StepOK`). For this the note of a session has one index in the tree: no blinding
is on chain twice (`LeavesOK`), which the other outputs' own blindings keep
(`NetworkOK`, `Apart`).

**`TreeProofs`**. The append-only trees, from `MerkleAssumption` (1 to 32 levels):

- `TreeInvariant`: `TreeSpec => []TreeInv`.
- `TreeTypes`: `TreeSpec => []TreeTypeOK`.
- `TreesAlwaysMatch`: `TreeSpec => []TreesAgree`.

`TreeInv` adds to the types that the root is that of the complete tree and that,
on every level where the next leaf comes under a right child, the filled
subtree is the left sibling in the complete tree (`FilledOK`). An insertion changes
only nodes above the new leaves (`SameNodes`) and finds empty nodes to the
right of them (`EmptyNodes`), so what it hashes up are the new nodes
(`HashesAreNodes`, which the circuit's path shares). The client's levels are the
complete tree's, cut behind the last leaf (`BuiltHolds`). The recursive
functions of the model are unfolded by lemmas of their own, and induction over
the levels is a least counterexample (`Upwards`). Nothing is used of the hash.

The sparse trees, from `SmtAssumption` (a key has `KeyBits` bits) and
`ClientAssumption` (values are numbers):

- `BlocklistInvariant`: `SmtSpec => []SmtInvariant`.
- `BlocklistAlwaysExact`: `SmtSpec => []BlocklistIsExact`, from `RootIsCanonical` and
  `FindAlwaysExact`.
- `UnblockedAlwaysProves`: `SmtSpec => []UnblockedCanProve`.
- `TooDeepNeverProves`: `SmtSpec => []TooDeepToProve`, for every depth of the circuit.
- `BlockedNeverProves`: `SmtSpec => []BlockedCannotProve`.
- `ClientTreeInvariant`: `ClientSpec => []ClientInvariant`.
- `ClientTreeAlwaysExact`: `ClientSpec => []ClientTreeIsExact`.

`TreeOf(S, lvl)` is the tree of a set of pairs below a level, read off the reference
definition. `SmtInvariant` says that a key has one value, that the root is the tree of
the blocked pairs, and that the store has every node on the path of every key
(`HasNodes`), whatever else it has. A search then ends where the pairs below the path
are one or none, with the trees beside the path as siblings (`FoundAt`). An insertion
rebuilds the trees of the path from them (`InsertPath`, `Grows`), a deletion those
above the level to which the lone leaf is promoted (`DeletePath`, `Shrinks`). The hard
part is that neither removes a node that is still needed: a tree with no pair of
the key is none of the hashes above the key's leaf (`NoKeyNoHash`), since a hash
determines what was hashed. For the same reason no siblings at all, stored or made up,
lead from another end of a blocked key's branch to the root (`NoProofOfAbsence`), and
what the client cuts off a branch as deep as the circuit cannot be replaced. The client's tree has the
same invariant over a store that never forgets.

**Only model-checked.** Liveness under fairness (`IndexerCatchesUp`, `BootnodeServes`,
`DatabaseConverges`, `SessionsEnd`), which the prover cannot do.
`PermutationsAgree`, about the values that `Poseidon2` computes; the properties of
`TxPlanner`, whose search is a `RECURSIVE` operator; and those of `ProverApi`, which
reads the chain with folds that are opaque to the provers.

## 6. Abstractions

- Hashes are free constructors or the hashed value itself; encryption is whether
  a ciphertext opens for an account; a Groth16 proof is accepted exactly when
  somebody built it for these public inputs.
- `Pool`: blinding is left out, as the nullifier of a leaf is its position. The
  recipient of a withdrawal is not the pool itself, and no tokens are sent to the
  pool past `transact`. An input of amount 0 is not looked up in the tree, as in
  the circuit. Amounts keep their order relative to the field and to `i128`.
- `AspNonMembership`: values are those of the leaf; the circuit's level selection
  (`SMTLevIns` of circomlib) is external.
- `Indexer`: row order is contract order. The bootnode may answer with any
  page it could have cached. A contract's deployment ledger is ledger 1.
- `LocalState`: one pool transaction, one or two ASP leaves, or an event that does
  not parse per ledger; of an event, its name and which fields it has decide
  whether it parses; `public_keys` is in `Submission`; operations, portfolio and disclaimers
  are left out.
- `TxPlanner`: equal amounts are ordered by position; 128-bit overflow is out of
  range; the planner's caller sees success, an error or a timeout.
- `Submission`: the wallet shown to the user may lag by any amount, so any note may be
  chosen; errors before sending are one report, as are timeouts and lost requests;
  amounts, fees and XDR are left out.
- `Flows`: blindings are fresh numbers, keys are accounts or left out.
- `Poseidon2`: numbers are reduced modulo `Q`; what the host function does with its
  arguments is external.
- `Relayer`: a request body is its fingerprint; fees and the length checks of a
  body have no effect on state.

## 7. Plan

1. **Proofs**: `ReadsAreConsistent` of `ProverApi`.
2. **Abstract specifications**: a wallet as a function of the chain, implemented by
   `LocalState`; a once-only submission service, implemented by `Relayer`.
3. **Composition** of `Indexer` with `Bootnode`, in place of the over-approximation of
   the bootnode in `Indexer`.

## 8. Not modelled

The Groth16 verifier contract, the witness calculator and the prover are numeric
code without state: a proof is accepted in the models exactly when somebody built
it for these public inputs. The trusted setup and key tools are command-line
programs without lasting state; the user interface, apart from the disclosure
pages, shows what the web client holds; the end-to-end tests and deployment
scripts run the rest. Of the database, the operations, settings, disclaimer and
portfolio tables are written and read in single statements and decide nothing.
`components` in
`PROJECT.json` has the full list.

## 9. Running

In this directory:

    tlc -config MCPoolAccounting.cfg MCPool
    tlapm PoolProofs.tla

`runs` in `PROJECT.json` pairs every configuration with its module. A run takes
under five minutes on two cores, the proofs a few minutes each.
