----------------------------- MODULE ProverApi -----------------------------
(***************************************************************************)
(* The prover API: a stateless service that reads the chain over several   *)
(* requests, rebuilds the pool's and the ASP's trees from events, and      *)
(* proves a deposit, a withdrawal or a transfer, or prepares the insertion *)
(* of an ASP leaf.  Ledgers close and the blocklist changes between any    *)
(* two of its reads.                                                       *)
(*                                                                         *)
(* Contract 1 is the pool: a transact call emits two commitments.          *)
(* Contract 2 is the ASP membership contract; its first leaf is the        *)
(* user's.  A root is the sequence of leaves under it.  Nullifier events   *)
(* only fill pages and are left out.                                       *)
(***************************************************************************)
EXTENDS EventChain, SequencesExt, TLC

CONSTANTS
  RootHistory,    \* ROOT_HISTORY_SIZE of the pool
  MaxPagesCap,    \* MAX_PAGES
  MaxBlocklist    \* bound: changes of the blocklist

ASSUME ProverApiAssumption ==
  /\ {1, 2} \subseteq Contract
  /\ {RootHistory, MaxPagesCap} \subseteq Nat \ {0}
  /\ MaxBlocklist \in Nat

VARIABLES
  blocklist,   \* version of the non-membership tree, 0 when it is empty
  job          \* the request being served

proverVars == <<chain, blocklist, job>>

Attempts == 3      \* MAX_SNAPSHOT_ATTEMPTS

-----------------------------------------------------------------------------
(* The contracts at the tip.                                               *)

\* Events in order of emission, from the first ledger on.
InOrder(E) ==
  FlattenSeq([l \in 1..tip |->
    SelectSeq([k \in 1..Len(chain[l]) |-> <<l, k>>], LAMBDA e : e \in E)])

pool_leaves == InOrder(Events({1}))

transacts == Len(pool_leaves) \div 2

CurrentRootIndex == transacts % RootHistory

\* Root(i): the latest root that was written to slot i of the ring.
RootAt(i) ==
  LET n == Max({k \in 0..transacts : k % RootHistory = i})
  IN  SubSeq(pool_leaves, 1, 2 * n)

\* Transact calls of one ledger, and leaves the ASP admin inserted.
Emitted(l) ==
  \E n \in 0..Len(l) : n % 2 = 0 /\ \A k \in 1..Len(l) : l[k] = IF k <= n THEN 1 ELSE 2

-----------------------------------------------------------------------------
(* Requests.                                                               *)

\* Leaf indices count from 0.  A withdrawal may name its companion note, which
\* is the next leaf.  "exceeds" stands for amounts that the notes do not cover.
Requests ==
  [kind : {"deposit", "register_asp"}, leaves : {<<>>}, exceeds : {FALSE}]
    \union [kind : {"withdraw"}, leaves : {<<0>>, <<2, 3>>}, exceeds : BOOLEAN]
    \union [kind : {"transfer"}, leaves : {<<0>>, <<0, 2>>, <<0, 0>>}, exceeds : BOOLEAN]

Idle == [pc |-> "idle"]

Answer(status, class) ==
  job' = [pc |-> "done", req |-> job.req, began |-> job.began, status |-> status, class |-> class]

Failed(class) == Answer("error", class)

ProverInit ==
  /\ ChainInit /\ Emitted(chain[1])
  /\ blocklist = 0
  /\ job = Idle

\* The checks on amounts and indices, before anything is read.
Refused(req) ==
  \/ req.exceeds
  \/ Len(req.leaves) > 2
  \/ req.kind = "transfer" /\ Cardinality(Range(req.leaves)) < Len(req.leaves)

\* A request arrives.  register_asp reads only the ASP's events.
begin_request ==
  /\ job = Idle
  /\ \E req \in Requests :
       LET began == [tip |-> tip, blocklist |-> blocklist]
       IN  job' = CASE Refused(req) ->
                         [pc |-> "done", req |-> req, began |-> began,
                          status |-> "error", class |-> "unknown"]
                    [] ~ Refused(req) /\ req.kind = "register_asp" ->
                         [pc |-> "asp", req |-> req, began |-> began, cursor |-> NoCursor,
                          asp |-> <<>>, pages |-> 0]
                    [] ~ Refused(req) /\ req.kind # "register_asp" ->
                         [pc |-> "bulk", req |-> req, began |-> began, attempt |-> 1]
  /\ UNCHANGED <<chain, blocklist>>

-----------------------------------------------------------------------------
(* StateFetcher::contracts_data: the pool's entries, and then the root at  *)
(* the index they name, with the index again.                              *)

get_contract_data_bulk ==
  /\ job.pc = "bulk"
  /\ job' = [job EXCEPT !.pc = "root"]
              @@ [index |-> CurrentRootIndex, next |-> Len(pool_leaves)]
  /\ UNCHANGED <<chain, blocklist>>

\* Mutant: the root is taken without a look at the index again.
drifted_Mutant == FALSE

drifted == CurrentRootIndex # job.index

AfterSnapshot == IF job.req.kind = "deposit" THEN "asp" ELSE "pool"

Snapshot ==
  [pc |-> AfterSnapshot, req |-> job.req, began |-> job.began, next |-> job.next,
   root |-> RootAt(job.index), lapped |-> transacts # job.next \div 2,
   cursor |-> NoCursor, pool |-> <<>>, asp |-> <<>>, pages |-> 0]

get_root ==
  /\ job.pc = "root"
  /\ CASE ~ drifted                               -> job' = Snapshot
       [] drifted /\ job.attempt < Attempts       ->
            job' = [pc |-> "bulk", req |-> job.req, began |-> job.began,
                    attempt |-> job.attempt + 1]
       [] drifted /\ job.attempt >= Attempts      -> Failed("pool_state_lag")
  /\ UNCHANGED <<chain, blocklist>>

-----------------------------------------------------------------------------
(* fetch_pool_commitments and fetch_asp_membership_leaves: page by page.   *)

asp_membership == {2}

FromCursor == IF job.cursor = NoCursor THEN <<1, 0>> ELSE job.cursor

\* An empty page does not end the walk; a cursor in the tip's ledger does.
paging_on(page, pages) == pages < MaxPagesCap /\ page.cursor[1] < tip

fetch_pool_commitments ==
  /\ job.pc = "pool"
  /\ LET page == PageOf({1}, FromCursor, tip, Window)
         more == paging_on(page, job.pages + 1)
     IN  job' = [job EXCEPT !.pool = @ \o InOrder(page.events),
                            !.cursor = IF more THEN page.cursor ELSE NoCursor,
                            !.pages = IF more THEN @ + 1 ELSE 0,
                            !.pc = IF more THEN "pool" ELSE "range"]
                  @@ (IF more THEN <<>> ELSE [poolTip |-> tip])
  /\ UNCHANGED <<chain, blocklist>>

fetch_asp_membership_leaves ==
  /\ job.pc = "asp"
  /\ LET page == PageOf(asp_membership, FromCursor, tip, Window)
         more == paging_on(page, job.pages + 1)
     IN  job' = [job EXCEPT !.asp = @ \o InOrder(page.events),
                            !.cursor = IF more THEN page.cursor ELSE NoCursor,
                            !.pages = IF more THEN @ + 1 ELSE 0,
                            !.pc = IF more THEN "asp" ELSE "member"]
                  @@ (IF more THEN <<>> ELSE [aspTip |-> tip])
  /\ UNCHANGED <<chain, blocklist>>

-----------------------------------------------------------------------------
(* The rest of prove_deposit, prove_withdraw and prove_transfer.           *)

\* Mutant: the last leaf is taken as out of range.
in_range_Mutant == \A k \in 1..Len(job.req.leaves) : job.req.leaves[k] + 1 < Len(job.pool)

in_range == \A k \in 1..Len(job.req.leaves) : job.req.leaves[k] < Len(job.pool)

\* A withdrawal checks its leaves at once, a transfer after the ASP reads.
check_range ==
  /\ job.pc = "range"
  /\ IF job.req.kind = "withdraw" /\ ~ in_range
     THEN Failed("pool_state_lag")
     ELSE job' = [job EXCEPT !.pc = "asp"]
  /\ UNCHANGED <<chain, blocklist>>

is_member == job.asp # <<>>

\* fetch_asp_proofs after the leaves: asp_state gives the depth, and a root
\* that is only compared for a warning.  register_asp answers here: an
\* insertion is prepared unless the leaf is there.
find_member ==
  /\ job.pc = "member"
  /\ CASE job.req.kind = "register_asp" -> Answer(IF is_member THEN "already" ELSE "insert", "none")
       [] job.req.kind # "register_asp" /\ ~ is_member -> Failed("unknown")
       [] job.req.kind # "register_asp" /\ is_member   -> job' = [job EXCEPT !.pc = "smt_root"]
  /\ UNCHANGED <<chain, blocklist>>

read_smt_root ==
  /\ job.pc = "smt_root"
  /\ job' = [job EXCEPT !.pc = "find_key"] @@ [smtRoot |-> blocklist]
  /\ UNCHANGED <<chain, blocklist>>

\* fetch_nonmembership_proof: an empty tree needs no simulation.
fetch_nonmembership_proof ==
  /\ job.pc = "find_key"
  /\ job' = [job EXCEPT !.pc = "prove"]
              @@ [siblings |-> IF job.smtRoot = 0 THEN 0 ELSE blocklist]
  /\ UNCHANGED <<chain, blocklist>>

\* The circuit: the notes' paths lead to the pool's root, the path of the user's
\* leaf to the root of the tree it was built in, the siblings to theirs.
Satisfiable ==
  /\ job.req.leaves # <<>> => job.pool = job.root
  /\ job.siblings = job.smtRoot

AspRootsCurrent == job.asp = InOrder(Events({2})) /\ job.smtRoot = blocklist

\* What CircomProver::prove answers: no witness exists for inputs that break a
\* constraint.
Proving(kind) == job.pc = "prove" /\ job.req.kind = kind

\* A deposit is simulated as well, with the ASP roots of that moment.
prove_deposit ==
  /\ Proving("deposit")
  /\ CASE ~ Satisfiable -> Failed("unknown")
       [] Satisfiable /\ ~ AspRootsCurrent -> Failed("invalid_proof")
       [] Satisfiable /\ AspRootsCurrent   -> Answer("proof", "none")
  /\ UNCHANGED <<chain, blocklist>>

prove_withdraw ==
  /\ Proving("withdraw")
  /\ IF Satisfiable THEN Answer("proof", "none") ELSE Failed("unknown")
  /\ UNCHANGED <<chain, blocklist>>

prove_transfer ==
  /\ Proving("transfer")
  /\ CASE ~ in_range                -> Failed("pool_state_lag")
       [] in_range /\ ~ Satisfiable -> Failed("unknown")
       [] in_range /\ Satisfiable   -> Answer("proof", "none")
  /\ UNCHANGED <<chain, blocklist>>

\* An RPC request fails, and the request with it.  Errors of contracts_data and
\* asp_state count as lag.
rpc_fails ==
  /\ job.pc \in {"bulk", "root", "pool", "asp", "member", "smt_root", "find_key"}
  /\ Answer("unreachable", IF job.pc \in {"bulk", "root", "member", "smt_root"}
                           THEN "pool_state_lag" ELSE "network")
  /\ UNCHANGED <<chain, blocklist>>

-----------------------------------------------------------------------------
new_ledger ==
  /\ ChainGrows /\ Emitted(Last(chain'))
  /\ UNCHANGED <<blocklist, job>>

blocklist_changes ==
  /\ blocklist < MaxBlocklist
  /\ blocklist' = blocklist + 1
  /\ UNCHANGED <<chain, job>>

Serving ==
  \/ begin_request \/ get_contract_data_bulk \/ get_root
  \/ fetch_pool_commitments \/ check_range \/ fetch_asp_membership_leaves
  \/ find_member \/ read_smt_root \/ fetch_nonmembership_proof
  \/ prove_deposit \/ prove_withdraw \/ prove_transfer

ProverNext == Serving \/ rpc_fails \/ new_ledger \/ blocklist_changes

ProverSpec == ProverInit /\ [][ProverNext]_proverVars

-----------------------------------------------------------------------------
\* Every variable of the prover API stays in its type: what is fetched are
\* events of the contract asked for.
ProverTypeOK ==
  /\ blocklist \in 0..MaxBlocklist
  /\ job.pc \in {"idle", "bulk", "root", "pool", "range", "asp", "member", "smt_root",
                 "find_key", "prove", "done"}
  /\ "pool" \in DOMAIN job => Range(job.pool) \subseteq Events({1})
  /\ "asp" \in DOMAIN job => Range(job.asp) \subseteq Events({2})
  /\ "class" \in DOMAIN job =>
       job.class \in {"none", "unknown", "pool_state_lag", "network", "invalid_proof"}

\* The header of chain.rs: paging with the cursor must not truncate the set.
\* Whatever closes while it pages, a finished walk has every event of the
\* ledgers before its tip, in order and without a hole.
FetchIsComplete ==
  LET Complete(c, got, t) ==
        /\ IsPrefix(got, InOrder(Events({c})))
        /\ {e \in Events({c}) : e[1] < t} \subseteq Range(got)
  IN  /\ "poolTip" \in DOMAIN job => Complete(1, job.pool, job.poolTip)
      /\ "aspTip" \in DOMAIN job => Complete(2, job.asp, job.aspTip)

\* contracts_data compares the root's index before and after: the root it
\* returns is the one after the commitments it counted, and the last one.  Only
\* a ring that went round a whole number of times between the reads goes
\* unnoticed.
SnapshotIsConsistent ==
  "root" \in DOMAIN job =>
    /\ ~ job.lapped => job.root = SubSeq(pool_leaves, 1, job.next)
    /\ job.lapped => /\ Len(job.root) > job.next
                     /\ (Len(job.root) - job.next) % (2 * RootHistory) = 0

\* What a request reads, over several calls, is of one state of the chain.
ReadsAreConsistent == FetchIsComplete /\ SnapshotIsConsistent

\* A request that runs while nothing changes, for notes and a leaf of ledgers
\* before the tip, is answered with a proof; only a failed request stops it.
QuietRequestIsProved ==
  LET quiet   == job.began = [tip |-> tip, blocklist |-> blocklist] /\ chain[tip] = <<>>
      covered == /\ ~ Refused(job.req)
                 /\ \A k \in 1..Len(job.req.leaves) : job.req.leaves[k] < Len(pool_leaves)
                 /\ Events({2}) # {}
  IN  job.pc = "done" /\ quiet /\ covered =>
        job.status \in {"unreachable", IF job.req.kind = "register_asp" THEN "already" ELSE "proof"}
=============================================================================
