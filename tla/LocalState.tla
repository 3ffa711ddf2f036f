----------------------------- MODULE LocalState -----------------------------
(***************************************************************************)
(* The wallet's local database and the storage worker that fills it.  Raw  *)
(* events come in from the indexer; the processor parses them in batches   *)
(* into chain-state tables, scans new commitments for notes of the local   *)
(* accounts, and matches nullifiers against those notes.  Every table      *)
(* write is its own SQL transaction, so the tab can be closed between any  *)
(* two; requests are only served where the processor waits.                *)
(*                                                                         *)
(* An event is known by its position in chain, a table row by its id, the  *)
(* position in the sequence of rows.  A nullifier is the pair of the       *)
(* commitment and the leaf index it spends.                                *)
(***************************************************************************)
EXTENDS Naturals, Sequences, FiniteSets, SequencesExt, FiniteSetsExt

CONSTANTS
  Account,       \* local accounts, in order of row id
  Stranger,      \* any owner without an account here
  Pool,          \* pool contracts, in order of row id
  FETCH_LIMIT,   \* events and commitments per iteration
  ACCOUNT_CHUNK, \* commitments scanned for one account before the next
  PageSize,      \* events in a page of the indexer
  Inputs,        \* nullifiers of a transaction
  Outputs,       \* commitments of a transaction
  Ciphertexts,   \* subset of {"valid", "short"}
  MaxTransact, MaxLeaves, MaxBroken, MaxLedger, MaxCrashes  \* bounds

ASSUME LocalStateAssumption ==
  /\ Account \subseteq Nat /\ Pool \subseteq Nat /\ Stranger \notin Account
  /\ {FETCH_LIMIT, ACCOUNT_CHUNK, PageSize} \subseteq Nat \ {0}
  /\ {Inputs, Outputs, MaxTransact, MaxLeaves, MaxBroken, MaxLedger, MaxCrashes} \subseteq Nat
  /\ Ciphertexts \subseteq {"valid", "short"}

VARIABLES
  chain,        \* the contracts' events
  ledger,       \* the last ledger closed
  raw,          \* raw_contract_events: the first raw events of chain
  fully,        \* indexing_metadata.last_fully_indexed_ledger
  keys,         \* accounts with a keypair
  pool_commitments, pool_nullifiers,  \* event of each row
  asp_leaves,   \* asp_membership_leaves: leaf_index to event
  user_notes,   \* commitment_id to [account, nullifier_id], 0 when unspent
  scan,         \* account_commitment_scan
  nullifier_scan,  \* nullifier_scan_state
  pc, work,     \* the processor: where it is, and its locals
  kicked,       \* a wake-up is in the channel
  crashes       \* tabs closed so far

chainVars == <<chain, ledger>>
tableVars == <<pool_commitments, pool_nullifiers, asp_leaves, user_notes, scan, nullifier_scan>>
vars == <<chainVars, raw, fully, keys, tableVars, pc, work, kicked, crashes>>

-----------------------------------------------------------------------------
(* The chain's events.                                                     *)

\* The elements of a finite set of numbers that are less than x.
Below(S, x) == {y \in S : y < x}

\* A finite set of numbers in order, and its n least elements.
InOrder(S) == [k \in 1..Cardinality(S) |-> CHOOSE x \in S : Cardinality(Below(S, x)) = k - 1]
First(S, n) == {x \in S : Cardinality(Below(S, x)) < n}

Numbers(kind) == {i \in 1..Len(chain) : chain[i].kind = kind}
Commitments(p) == {i \in Numbers("commitment") : chain[i].pool = p}
SpentBy(i) == <<chain[i].commitment, chain[i].index>>

\* Event i's note is spent by an event of the set S.
SpentIn(i, S) ==
  \E j \in S \cap Numbers("nullifier") :
    chain[j].pool = chain[i].pool /\ chain[j].nullifier = SpentBy(i)

\* The leaves of the ASP membership tree at a ledger, as events.
LeavesAt(l) == {i \in Numbers("leaf") : chain[i].ledger <= l}

NoWork == [batch |-> {}, pools |-> <<>>, at |-> 1, did |-> FALSE]

Init ==
  /\ chain = <<>> /\ ledger = 0
  /\ raw = 0 /\ fully = 0 /\ keys = {}
  /\ pool_commitments = <<>> /\ pool_nullifiers = <<>> /\ asp_leaves = <<>>
  /\ user_notes = <<>>
  /\ scan = [p \in Pool |-> [a \in Account |-> 0]]
  /\ nullifier_scan = [p \in Pool |-> 0]
  /\ pc = "idle" /\ work = NoWork /\ kicked = TRUE /\ crashes = 0

-----------------------------------------------------------------------------
(* The chain grows.                                                        *)

\* A pool transaction: the nullifiers of notes of this pool, padded with dummy
\* nullifiers, then the new commitments, which differ from all earlier ones.
transact(p) ==
  LET first == Cardinality(Commitments(p))
      n     == Cardinality(Numbers("commitment"))
  IN  \E spent \in UNION {kSubset(k, Commitments(p)) : k \in 0..Inputs} :
      \E owners \in [1..Outputs -> Account \union {Stranger}] :
      \E text \in [1..Outputs -> Ciphertexts] :
        /\ \A i \in spent : ~ SpentIn(i, 1..Len(chain))
        /\ chain' = chain
             \o [k \in 1..Inputs |->
                   [kind |-> "nullifier", ledger |-> ledger + 1, pool |-> p,
                    nullifier |-> LET s == InOrder(spent)
                                  IN  IF k <= Len(s) THEN SpentBy(s[k])
                                      ELSE <<0, Len(chain) + k>>]]
             \o [k \in 1..Outputs |->
                   [kind |-> "commitment", ledger |-> ledger + 1, pool |-> p,
                    commitment |-> n + k,
                    index |-> first + k - 1, owner |-> owners[k], text |-> text[k]]]

Transact ==
  /\ Cardinality(Numbers("commitment")) < Outputs * MaxTransact
  /\ ledger < MaxLedger
  /\ \E p \in Pool : transact(p)
  /\ ledger' = ledger + 1
  /\ UNCHANGED <<raw, fully, keys, tableVars, pc, work, kicked, crashes>>

\* One or two leaves are added to the ASP membership tree in one ledger.
insert_leaf ==
  LET n == Cardinality(Numbers("leaf"))
  IN  /\ ledger < MaxLedger
      /\ \E k \in 1..2 : \E new \in [1..k -> Account \union {Stranger}] :
           /\ n + k <= MaxLeaves
           /\ chain' = chain \o [j \in 1..k |-> [kind |-> "leaf", ledger |-> ledger + 1,
                                                 leaf |-> new[j], index |-> n + j - 1]]
      /\ ledger' = ledger + 1
      /\ UNCHANGED <<raw, fully, keys, tableVars, pc, work, kicked, crashes>>

\* A contract of a later version emits an event this wallet cannot parse.
emits_broken ==
  /\ Cardinality(Numbers("unhandled")) < MaxBroken
  /\ ledger < MaxLedger
  /\ chain' = Append(chain, [kind |-> "unhandled", ledger |-> ledger + 1])
  /\ ledger' = ledger + 1
  /\ UNCHANGED <<raw, fully, keys, tableVars, pc, work, kicked, crashes>>

-----------------------------------------------------------------------------
(* Requests to the storage worker, served while the processor waits.       *)

AtRequest == pc \in {"idle", "yield"}

\* SaveEvents: a page of the indexer, which may be empty.
save_events_batch ==
  /\ AtRequest
  /\ raw' = Min({Len(chain), raw + PageSize})
  /\ kicked' = TRUE
  /\ UNCHANGED <<chainVars, fully, keys, tableVars, pc, work, crashes>>

\* SaveSyncProgress with fully_indexed: the indexer saw an empty page when the
\* tip was l.
save_sync_progress ==
  /\ AtRequest
  /\ \E l \in (fully + 1)..ledger :
       /\ \A i \in (raw + 1)..Len(chain) : chain[i].ledger > l
       /\ fully' = l
  /\ UNCHANGED <<chainVars, raw, keys, tableVars, pc, work, kicked, crashes>>

\* DeriveSaveUserKeys: an account logs in, possibly long after its notes came.
save_encryption_and_note_keypairs ==
  /\ AtRequest
  /\ \E a \in Account \ keys : keys' = keys \union {a}
  /\ kicked' = TRUE
  /\ UNCHANGED <<chainVars, raw, fully, tableVars, pc, work, crashes>>

-----------------------------------------------------------------------------
(* The processor.                                                          *)

\* The raw events without a row in any table.
Unprocessed ==
  (1..raw) \ (Range(pool_commitments) \union Range(pool_nullifiers) \union Range(asp_leaves))

\* Mutant: the newest events first (ORDER BY ledger DESC).
get_unprocessed_events_Mutant ==
  {i \in Unprocessed : Cardinality({j \in Unprocessed : j > i}) < FETCH_LIMIT}

get_unprocessed_events == First(Unprocessed, FETCH_LIMIT)

\* The fields the parser of each kind of event asks for: a missing one is an
\* error.
Fields ==
  [nullifier  |-> {"nullifier"},
   commitment |-> {"commitment", "index", "text"},
   leaf       |-> {"leaf", "index"}]

\* parse_event: what event i is, or an error for a name no parser handles.
parse_event(i) ==
  IF chain[i].kind \in DOMAIN Fields /\ Fields[chain[i].kind] \subseteq DOMAIN chain[i]
  THEN chain[i].kind ELSE "Err"

\* The events of a kind in the batch; one that does not parse is skipped, and
\* stays unprocessed.
OfKind(kind) == {i \in work.batch : parse_event(i) = kind}

\* Appends rows, the newest event first, unless a row with the same value is
\* there by then (ON CONFLICT DO NOTHING).
InsertNew(rows, new, field) ==
  LET kept == {i \in new : /\ \A j \in Range(rows) : chain[j][field] # chain[i][field]
                           /\ \A j \in new : j > i => chain[j][field] # chain[i][field]}
  IN  rows \o Reverse(InOrder(kept))

\* run_processor_loop takes a wake-up.
wake ==
  /\ pc = "idle" /\ kicked
  /\ kicked' = FALSE /\ pc' = "events" /\ work' = NoWork
  /\ UNCHANGED <<chainVars, raw, fully, keys, tableVars, crashes>>

\* The pools of some rows, in order.
PoolsOf(rows) == InOrder({chain[i].pool : i \in Range(rows)})

StartScan(did) ==
  /\ pc' = "scan"
  /\ work' = [NoWork EXCEPT !.did = did,
                            !.pools = IF keys = {} THEN <<>> ELSE PoolsOf(pool_commitments)]

\* process_events: the oldest unprocessed events; nothing to do ends it early.
process_events ==
  /\ pc = "events"
  /\ \/ /\ get_unprocessed_events = {}
        /\ StartScan(FALSE)
     \/ /\ get_unprocessed_events # {}
        /\ pc' = "nullifiers"
        /\ work' = [NoWork EXCEPT !.batch = get_unprocessed_events, !.did = TRUE]
  /\ UNCHANGED <<chainVars, raw, fully, keys, tableVars, kicked, crashes>>

save_nullifier_events_batch ==
  /\ pc = "nullifiers"
  /\ pool_nullifiers' = InsertNew(pool_nullifiers, OfKind("nullifier"), "nullifier")
  /\ pc' = "commitments"
  /\ UNCHANGED <<chainVars, raw, fully, keys, pool_commitments, asp_leaves, user_notes,
                 scan, nullifier_scan, work, kicked, crashes>>

save_commitment_events_batch ==
  /\ pc = "commitments"
  /\ pool_commitments' = InsertNew(pool_commitments, OfKind("commitment"), "commitment")
  /\ pc' = "leaves"
  /\ UNCHANGED <<chainVars, raw, fully, keys, pool_nullifiers, asp_leaves, user_notes,
                 scan, nullifier_scan, work, kicked, crashes>>

save_leaf_added_events_batch ==
  /\ pc = "leaves"
  /\ asp_leaves' = [k \in DOMAIN asp_leaves \union {chain[i].index : i \in OfKind("leaf")} |->
                      IF k \in DOMAIN asp_leaves THEN asp_leaves[k]
                      ELSE Max({i \in OfKind("leaf") : chain[i].index = k})]
  /\ StartScan(TRUE)
  /\ UNCHANGED <<chainVars, raw, fully, keys, pool_commitments, pool_nullifiers, user_notes,
                 scan, nullifier_scan, kicked, crashes>>

\* The share of FETCH_LIMIT of the i-th of n pools.
Quota(i, n) ==
  IF FETCH_LIMIT < n THEN 1
  ELSE (FETCH_LIMIT \div n) + (IF i <= FETCH_LIMIT % n THEN 1 ELSE 0)

RowsOf(rows, p) == {i \in 1..Len(rows) : chain[rows[i]].pool = p}

\* Account a's turn at the rows of pool p: at most ACCOUNT_CHUNK of the quota.
Turn(p, s, a) ==
  LET r == First({i \in RowsOf(pool_commitments, p) : i > s.last[a]}, Min({s.quota, ACCOUNT_CHUNK}))
  IN  IF r = {} THEN s
      ELSE [quota |-> s.quota - Cardinality(r), last |-> [s.last EXCEPT ![a] = Max(r)]]

\* Where each account's scan of pool p ends: the accounts take turns until the
\* quota is used or no row is left.
ScannedTo(p, quota) ==
  LET accounts == InOrder(keys)
      n        == Len(accounts)
      visit[k \in 0..(quota * n)] ==
        IF k = 0 THEN [quota |-> quota, last |-> [a \in keys |-> scan[p][a]]]
        ELSE Turn(p, visit[k - 1], accounts[((k - 1) % n) + 1])
  IN  visit[quota * n].last

\* Mutant: a note is stored as unspent without a look at pool_nullifiers.
NullifierRow_Mutant(i) == 0

\* The row of the nullifier that spends commitment row i, or 0.
NullifierRow(i) ==
  LET e  == pool_commitments[i]
      js == {j \in RowsOf(pool_nullifiers, chain[e].pool) :
               chain[pool_nullifiers[j]].nullifier = SpentBy(e)}
  IN  IF js = {} THEN 0 ELSE Min(js)

\* scan_commitments_for_user_notes on one pool.  A ciphertext that cannot be
\* read fails the whole scan.
scan_commitments_for_user_notes ==
  LET p     == work.pools[work.at]
      to    == ScannedTo(p, Quota(work.at, Len(work.pools)))
      rows  == [a \in keys |-> {i \in RowsOf(pool_commitments, p) : scan[p][a] < i /\ i <= to[a]}]
      found == {i \in RowsOf(pool_commitments, p) :
                  \E a \in keys : i \in rows[a] /\ chain[pool_commitments[i]].owner = a}
      short == \E a \in keys : \E i \in rows[a] : chain[pool_commitments[i]].text = "short"
  IN  /\ pc = "scan" /\ work.at <= Len(work.pools)
      /\ \/ /\ short
            /\ pc' = "idle" /\ work' = NoWork
            /\ UNCHANGED <<user_notes, scan>>
         \/ /\ ~ short
            /\ user_notes' = [i \in DOMAIN user_notes \union found |->
                                IF i \in DOMAIN user_notes THEN user_notes[i]
                                ELSE [account |-> chain[pool_commitments[i]].owner,
                                      nullifier_id |-> NullifierRow(i)]]
            /\ scan' = [scan EXCEPT ![p] = [a \in Account |-> IF a \in keys THEN to[a] ELSE @[a]]]
            /\ work' = [work EXCEPT !.at = @ + 1, !.did = @ \/ \E a \in keys : rows[a] # {}]
            /\ pc' = pc
      /\ UNCHANGED <<chainVars, raw, fully, keys, pool_commitments, pool_nullifiers, asp_leaves,
                     nullifier_scan, kicked, crashes>>

scan_done ==
  /\ pc = "scan" /\ work.at > Len(work.pools)
  /\ pc' = "reconcile"
  /\ work' = [work EXCEPT !.at = 1, !.pools = PoolsOf(pool_nullifiers)]
  /\ UNCHANGED <<chainVars, raw, fully, keys, tableVars, kicked, crashes>>

\* Mutant: the mark moves past rows the limit left out.
Mark_Mutant(p, next) == Max({nullifier_scan[p]} \union RowsOf(pool_nullifiers, p))

\* last_nullifier_id after the rows next.
Mark(p, next) == IF next = {} THEN nullifier_scan[p] ELSE Max(next)

\* reconcile_nullifiers on one pool: marks the notes the next nullifiers spend.
reconcile_nullifiers ==
  LET p    == work.pools[work.at]
      next == First({j \in RowsOf(pool_nullifiers, p) : j > nullifier_scan[p]}, FETCH_LIMIT)
      Hits(i) == {j \in next : chain[pool_nullifiers[j]].nullifier = SpentBy(pool_commitments[i])}
  IN  /\ pc = "reconcile" /\ work.at <= Len(work.pools)
      /\ user_notes' = [i \in DOMAIN user_notes |->
                          IF /\ user_notes[i].nullifier_id = 0 /\ Hits(i) # {}
                             /\ chain[pool_commitments[i]].pool = p
                          THEN [user_notes[i] EXCEPT !.nullifier_id = Min(Hits(i))]
                          ELSE user_notes[i]]
      /\ nullifier_scan' = [nullifier_scan EXCEPT ![p] = Mark(p, next)]
      /\ work' = [work EXCEPT !.at = @ + 1, !.did = @ \/ next # {}]
      /\ UNCHANGED <<chainVars, raw, fully, keys, pool_commitments, pool_nullifiers, asp_leaves,
                     scan, pc, kicked, crashes>>

\* The end of an iteration: another one unless it found nothing to do.
reconcile_done ==
  /\ pc = "reconcile" /\ work.at > Len(work.pools)
  /\ pc' = IF work.did THEN "yield" ELSE "idle"
  /\ work' = NoWork
  /\ UNCHANGED <<chainVars, raw, fully, keys, tableVars, kicked, crashes>>

resume ==
  /\ pc = "yield"
  /\ pc' = "events"
  /\ UNCHANGED <<chainVars, raw, fully, keys, tableVars, work, kicked, crashes>>

\* The tab is closed, at any point; opening it again pings the worker.
crash ==
  /\ crashes < MaxCrashes
  /\ crashes' = crashes + 1
  /\ pc' = "idle" /\ work' = NoWork /\ kicked' = TRUE
  /\ UNCHANGED <<chainVars, raw, fully, keys, tableVars>>

Processor ==
  \/ wake \/ process_events \/ save_nullifier_events_batch \/ save_commitment_events_batch
  \/ save_leaf_added_events_batch \/ scan_commitments_for_user_notes \/ scan_done
  \/ reconcile_nullifiers \/ reconcile_done \/ resume

Next ==
  \/ Transact \/ insert_leaf \/ emits_broken
  \/ save_events_batch \/ save_sync_progress \/ save_encryption_and_note_keypairs
  \/ Processor \/ crash

Spec == Init /\ [][Next]_vars

\* The worker's event loop runs the processor whenever it can go on, and the
\* indexer saves a page every few seconds: a request that waits is served at one
\* of the timeouts the processor yields with, even when it never rests.
FairSpec == Spec /\ WF_vars(Processor) /\ SF_vars(save_events_batch)

-----------------------------------------------------------------------------
(* Reads.                                                                  *)

\* Rows in order of index, or an error when one is missing.
Ordered(byIndex) ==
  IF DOMAIN byIndex = 0..(Cardinality(DOMAIN byIndex) - 1)
  THEN [ok |-> TRUE, rows |-> [k \in 1..Cardinality(DOMAIN byIndex) |-> byIndex[k - 1]]]
  ELSE [ok |-> FALSE]

get_pool_commitment_leaves_ordered(p) ==
  LET rows == {pool_commitments[i] : i \in RowsOf(pool_commitments, p)}
  IN  Ordered([k \in {chain[e].index : e \in rows} |-> CHOOSE e \in rows : chain[e].index = k])

get_all_asp_membership_leaves_ordered == Ordered(asp_leaves)

\* The notes get_unspent_user_note_by_commitment answers for, as events.
Unspent(a) == {pool_commitments[i] : i \in {j \in DOMAIN user_notes :
                 user_notes[j].account = a /\ user_notes[j].nullifier_id = 0}}
Spent(a) == {pool_commitments[i] : i \in {j \in DOMAIN user_notes :
               user_notes[j].account = a /\ user_notes[j].nullifier_id # 0}}

\* Mutant: the roots are not compared.
RootMatches_Mutant(l) == TRUE

\* The root stored with the last leaf, the root after it, is the one read.
RootMatches(l) == Cardinality(LeavesAt(l)) = Max(DOMAIN asp_leaves) + 1

\* check_asp_membership_precondition for account a's leaf, with the contract's
\* root read at ledger l.
check_asp_membership_precondition(a, l) ==
  LET last == asp_leaves[Max(DOMAIN asp_leaves)]
      mine == {k \in DOMAIN asp_leaves : chain[asp_leaves[k]].leaf = a}
  IN  CASE l > fully                                           -> "SyncRequired"
        [] l <= fully /\ asp_leaves = <<>>                     -> "RegisterAtASP"
        [] l <= fully /\ asp_leaves # <<>> /\ ~ RootMatches(l) ->
             IF chain[last].ledger < l THEN "SyncRequired" ELSE "Error"
        [] OTHER -> IF mine = {} THEN "RegisterAtASP" ELSE "UserIndex"

-----------------------------------------------------------------------------
\* Every variable stays in its type.
TypeOK ==
  /\ raw \in 0..Len(chain) /\ fully \in 0..ledger /\ keys \subseteq Account
  /\ Range(pool_commitments) \subseteq Numbers("commitment") \cap (1..raw)
  /\ Range(pool_nullifiers) \subseteq Numbers("nullifier") \cap (1..raw)
  /\ Range(asp_leaves) \subseteq Numbers("leaf") \cap (1..raw)
  /\ DOMAIN user_notes \subseteq 1..Len(pool_commitments)
  /\ \A i \in DOMAIN user_notes : /\ user_notes[i].account \in keys
                                  /\ user_notes[i].nullifier_id \in 0..Len(pool_nullifiers)
  /\ scan \in [Pool -> [Account -> 0..Len(pool_commitments)]]
  /\ nullifier_scan \in [Pool -> 0..Len(pool_nullifiers)]
  /\ pc \in {"idle", "yield", "events", "nullifiers", "commitments", "leaves", "scan", "reconcile"}
  /\ kicked \in BOOLEAN /\ crashes \in 0..MaxCrashes

\* The wallet of account a is what the first n events of the chain say.
Agrees(a, n) ==
  LET mine == {i \in Numbers("commitment") \cap (1..n) :
                 chain[i].owner = a /\ chain[i].text = "valid"}
  IN  /\ Unspent(a) = {i \in mine : ~ SpentIn(i, 1..n)}
      /\ Spent(a) = {i \in mine : SpentIn(i, 1..n)}

\* When the processor rests, every logged-in account sees exactly its notes,
\* spent and unspent, that the ingested events determine: whatever the order in
\* which notes, nullifiers and keys came, the batches that cut a transaction,
\* and the tabs closed between two table writes.
WalletAgrees == pc = "idle" /\ ~ kicked => \A a \in keys : Agrees(a, raw)

\* No spend is missed for good: a note still unspent whose nullifier is stored
\* is ahead of the reconciliation mark.
NoMissedSpend ==
  \A i \in DOMAIN user_notes :
    user_notes[i].nullifier_id = 0 /\ NullifierRow(i) # 0
      => NullifierRow(i) > nullifier_scan[chain[pool_commitments[i]].pool]

\* Whenever a request is served, the local Merkle leaves of a pool are an
\* unbroken prefix of the pool's leaves: batches are cut in event order, and
\* rows inserted newest first never show a gap.
LeavesArePrefix ==
  AtRequest => \A p \in Pool :
    LET r == get_pool_commitment_leaves_ordered(p)
    IN  r.ok /\ r.rows = SubSeq(InOrder(Commitments(p)), 1, Len(r.rows))

\* The tables keep their types, their scan marks within the rows there are, and
\* the leaves are an unbroken prefix.
TablesAreSound == TypeOK /\ LeavesArePrefix

\* The membership proof is built against the root the contract had: when the
\* precondition answers UserIndex, the local leaves are those of the contract
\* at the ledger of the read and the account's leaf is one of them.
MembershipProofMatches ==
  AtRequest => \A a \in keys : \A l \in 1..ledger :
    check_asp_membership_precondition(a, l) = "UserIndex"
      => LET r == get_all_asp_membership_leaves_ordered
         IN  /\ r.ok /\ Range(r.rows) = LeavesAt(l)
             /\ \E i \in LeavesAt(l) : chain[i].leaf = a

\* Once the chain is quiet, every logged-in account sees its true notes, also
\* behind an event that never parses and stays in every batch.
Converges == <>[](\A a \in keys : Agrees(a, Len(chain)))
=============================================================================
