------------------------------ MODULE Bootnode ------------------------------
(***************************************************************************)
(* The bootnode: an indexer task that walks the upstream RPC's getEvents   *)
(* and stores each page under the cursor (or the start ledger) it was      *)
(* asked for, and a JSON-RPC handler that serves those pages to wallets    *)
(* and hands them off to their own RPC.  Both work on one Postgres         *)
(* database, a query at a time; the process may be restarted between any   *)
(* two queries, and any query or upstream request may fail.                *)
(*                                                                         *)
(* A wallet walks the pages from the deployment ledger on.  What the       *)
(* wallet does with them is the subject of Indexer.                        *)
(***************************************************************************)
EXTENDS EventChain

CONSTANTS
  Upstream,       \* ledgers the upstream RPC scans in one call
  PagesPerRound,  \* max_pages_per_round
  CutoffLedgers,  \* cutoff_ledgers(redirect_days, ledger_seconds)
  InitialTip,     \* initial_ledger_tip
  MaxMishaps      \* bound: failed requests and restarts

ASSUME BootnodeAssumption ==
  /\ {Upstream, PagesPerRound} \subseteq Nat \ {0}
  /\ {CutoffLedgers, InitialTip, MaxMishaps} \subseteq Nat

VARIABLES
  kv,        \* the row of indexer_state
  pages,     \* get_events_pages: pages by the key they were asked for
  ledgerTip, \* the atomic the tasks share
  task,      \* the indexer task
  wallet,    \* a wallet: the key it asks for next, the events it got
  call,      \* its getEvents call
  mishaps    \* failures so far, to bound them

bootnodeVars == <<chain, kv, pages, ledgerTip, task, wallet, call, mishaps>>

-----------------------------------------------------------------------------
\* Pages are cached by cursor_in, or by start_ledger where there is none.
StartKey == NoCursor

PositionOf(key) == IF key = StartKey THEN <<1, 0>> ELSE key

SaturatingSub(a, b) == IF a > b THEN a - b ELSE 0

NoPage == [events |-> {}, cursor |-> NoCursor, latest |-> 0]

Sleeping == [pc |-> "sleep", tip |-> 0, page |-> 0, key |-> StartKey, result |-> NoPage]
NoCall == [pc |-> "none", tip |-> 0]

\* The one row of an empty database.
KvState == [last_cursor |-> NoCursor, last_fully_indexed_ledger |-> 0,
            ledger_tip |-> 0, in_sync |-> FALSE]

BootnodeInit ==
  /\ ChainInit
  /\ kv = KvState /\ pages = [k \in {} |-> NoPage]
  /\ ledgerTip = InitialTip
  /\ task = Sleeping
  /\ wallet = [key |-> StartKey, got |-> {}, from |-> NoCursor]
  /\ call = NoCall
  /\ mishaps = 0

-----------------------------------------------------------------------------
(* Indexer::run_round, one await at a time.                                *)

IndexerUnchanged == UNCHANGED <<chain, wallet, call, mishaps>>

get_latest_ledger ==
  /\ task = Sleeping
  /\ task' = [Sleeping EXCEPT !.pc = "tip", !.tip = tip]
  /\ ledgerTip' = tip
  /\ UNCHANGED <<kv, pages>> /\ IndexerUnchanged

\* set_ledger_tip, and load_kv: nobody else writes the row.
set_ledger_tip ==
  /\ task.pc = "tip"
  /\ kv' = [kv EXCEPT !.ledger_tip = task.tip]
  /\ task' = [pc |-> "fetch", tip |-> task.tip, page |-> 1, key |-> kv.last_cursor,
              result |-> NoPage]
  /\ UNCHANGED <<pages, ledgerTip>> /\ IndexerUnchanged

get_events ==
  /\ task.pc = "fetch"
  /\ LET p == PageOf(Contract, PositionOf(task.key), tip, Upstream)
     IN  task' = [task EXCEPT !.pc = IF p.events = {} THEN "caught_up" ELSE "unsync",
                              !.result = p]
  /\ UNCHANGED <<kv, pages, ledgerTip>> /\ IndexerUnchanged

set_out_of_sync ==
  /\ task.pc = "unsync"
  /\ kv' = [kv EXCEPT !.in_sync = FALSE]
  /\ task' = [task EXCEPT !.pc = "insert"]
  /\ UNCHANGED <<pages, ledgerTip>> /\ IndexerUnchanged

\* A key that is cached keeps the page it has, whatever was fetched now.
stored(key, page) ==
  [k \in DOMAIN pages \union {key} |-> IF k \in DOMAIN pages THEN pages[k] ELSE page]

\* Mutant: the page is stored under the cursor that comes after it.
insert_get_events_page_Mutant ==
  /\ task.pc = "insert"
  /\ pages' = stored(task.result.cursor, task.result)
  /\ task' = [task EXCEPT !.pc = "cursor"]
  /\ UNCHANGED <<kv, ledgerTip>> /\ IndexerUnchanged

insert_get_events_page ==
  /\ task.pc = "insert"
  /\ pages' = stored(task.key, task.result)
  /\ task' = [task EXCEPT !.pc = "cursor"]
  /\ UNCHANGED <<kv, ledgerTip>> /\ IndexerUnchanged

update_cursor ==
  /\ task.pc = "cursor"
  /\ kv' = [kv EXCEPT !.last_cursor = task.result.cursor]
  /\ task' = IF task.page = PagesPerRound THEN Sleeping
             ELSE [task EXCEPT !.pc = "fetch", !.page = @ + 1, !.key = task.result.cursor,
                               !.result = NoPage]
  /\ UNCHANGED <<pages, ledgerTip>> /\ IndexerUnchanged

\* Mutant: an empty page ends the round before in_sync is set.
mark_caught_up_Mutant ==
  /\ task.pc = "caught_up"
  /\ kv' = [kv EXCEPT !.last_cursor = task.result.cursor,
                      !.last_fully_indexed_ledger = task.result.latest]
  /\ task' = Sleeping
  /\ UNCHANGED <<pages, ledgerTip>> /\ IndexerUnchanged

\* mark_caught_up: three updates, and a restart may fall between them.
mark_caught_up ==
  /\ task.pc \in {"caught_up", "fully", "sync"}
  /\ kv' = CASE task.pc = "caught_up" -> [kv EXCEPT !.last_cursor = task.result.cursor]
             [] task.pc = "fully"     -> [kv EXCEPT !.last_fully_indexed_ledger = task.result.latest]
             [] task.pc = "sync"      -> [kv EXCEPT !.in_sync = TRUE]
  /\ task' = CASE task.pc = "caught_up" -> [task EXCEPT !.pc = "fully"]
               [] task.pc = "fully"     -> [task EXCEPT !.pc = "sync"]
               [] task.pc = "sync"      -> Sleeping
  /\ UNCHANGED <<pages, ledgerTip>> /\ IndexerUnchanged

\* A query or an upstream request fails: run logs it and starts a new round.
round_fails ==
  /\ mishaps < MaxMishaps /\ task # Sleeping
  /\ mishaps' = mishaps + 1
  /\ task' = Sleeping
  /\ UNCHANGED <<chain, kv, pages, ledgerTip, wallet, call>>

IndexerTask ==
  \/ get_latest_ledger \/ set_ledger_tip \/ get_events \/ set_out_of_sync
  \/ insert_get_events_page \/ update_cursor \/ mark_caught_up

-----------------------------------------------------------------------------
(* BootnodeRpc::get_events_handler for the wallet's call, a query at a     *)
(* time: the two tasks interleave between the queries.                     *)

HandlerUnchanged == UNCHANGED <<chain, kv, pages, ledgerTip, task, mishaps>>

Walking == wallet.from = NoCursor

cutoff_ledger(t) == SaturatingSub(t, CutoffLedgers)

\* ledger_by_cursor_out: the ledger of the last event before the cursor.
last_event_ledger(key) ==
  {Max({e[1] : e \in pages[k].events}) : k \in {j \in DOMAIN pages : pages[j].cursor = key}}

retention_handoff(t) ==
  /\ wallet' = [wallet EXCEPT !.from = cutoff_ledger(t)]
  /\ call' = NoCall

\* The tip is loaded, and the wallet's key compared with the cutoff.
handle_get_events ==
  /\ Walking /\ call = NoCall
  /\ LET handoff_ledger == IF wallet.key = StartKey THEN {1} ELSE last_event_ledger(wallet.key)
     IN  IF ledgerTip > 0 /\ \E l \in handoff_ledger : l >= cutoff_ledger(ledgerTip)
         THEN retention_handoff(ledgerTip)
         ELSE call' = [pc |-> "lookup", tip |-> ledgerTip] /\ UNCHANGED wallet
  /\ HandlerUnchanged

\* Mutant: the wallet goes on from the ledger of the tip of the cached page.
get_cached_get_events_Mutant ==
  /\ call.pc = "lookup"
  /\ IF wallet.key \in DOMAIN pages
     THEN /\ wallet' = [wallet EXCEPT !.got = @ \union pages[wallet.key].events,
                                      !.key = <<pages[wallet.key].latest, 0>>]
          /\ call' = NoCall
     ELSE call' = [call EXCEPT !.pc = "miss"] /\ UNCHANGED wallet
  /\ HandlerUnchanged

\* The cached page, from which the wallet takes the events and the next cursor.
get_cached_get_events ==
  /\ call.pc = "lookup"
  /\ IF wallet.key \in DOMAIN pages
     THEN /\ wallet' = [wallet EXCEPT !.got = @ \union pages[wallet.key].events,
                                      !.key = pages[wallet.key].cursor]
          /\ call' = NoCall
     ELSE call' = [call EXCEPT !.pc = "miss"] /\ UNCHANGED wallet
  /\ HandlerUnchanged

\* A miss is a handoff when in_sync is set by now, and otherwise the wallet
\* has to ask again.
cache_miss_or_handoff ==
  /\ call.pc = "miss"
  /\ IF call.tip > 0 /\ kv.in_sync
     THEN retention_handoff(call.tip)
     ELSE call' = NoCall /\ UNCHANGED wallet
  /\ HandlerUnchanged

WalletCall == handle_get_events \/ get_cached_get_events \/ cache_miss_or_handoff

-----------------------------------------------------------------------------
\* The process ends and Bootnode::setup starts it again on the same database.
restart ==
  /\ mishaps < MaxMishaps
  /\ mishaps' = mishaps + 1
  /\ ledgerTip' = Max({InitialTip, kv.ledger_tip})
  /\ task' = Sleeping /\ call' = NoCall
  /\ UNCHANGED <<chain, kv, pages, wallet>>

ledger_closes ==
  /\ ChainGrows
  /\ UNCHANGED <<kv, pages, ledgerTip, task, wallet, call, mishaps>>

BootnodeNext == IndexerTask \/ round_fails \/ WalletCall \/ restart \/ ledger_closes

BootnodeSpec == BootnodeInit /\ [][BootnodeNext]_bootnodeVars

\* The indexer task loops for ever and each of its requests answers or times
\* out; a wallet's listener asks again after a miss.
BootnodeFairness == WF_bootnodeVars(IndexerTask) /\ WF_bootnodeVars(WalletCall)

-----------------------------------------------------------------------------
\* Every variable of the bootnode stays in its type, and what is said to be
\* indexed is no further than the tip that was stored before it.
BootnodeTypeOK ==
  /\ kv.last_cursor \in {NoCursor} \union ((1..(MaxLedger + 1)) \X (0..MaxPerLedger))
  /\ kv.in_sync \in BOOLEAN
  /\ kv.ledger_tip <= tip /\ kv.last_fully_indexed_ledger <= tip
  /\ \A k \in DOMAIN pages : pages[k].events # {} /\ pages[k].latest <= tip
  /\ ledgerTip \in {InitialTip} \union (0..tip)
  /\ wallet.got \subseteq Events(Contract)

\* A page is cached under the key it answers: it has exactly the events between
\* that key and its own cursor, whatever failed or was fetched again between
\* storing the page and storing the cursor.
PagesAreFaithful ==
  /\ BootnodeTypeOK
  /\ \A k \in DOMAIN pages :
       pages[k].events =
         {e \in Events(Contract) : ~ Before(e, PositionOf(k)) /\ Before(e, pages[k].cursor)}

\* A wallet that follows the cursors of cached pages has every event behind the
\* cursor it holds: the archive may end early but has no holes.
WalletHasNoGap ==
  wallet.got = {e \in Events(Contract) : Before(e, PositionOf(wallet.key))}

\* A wallet is not left with cache misses for ever: it gets pages up to a point
\* from which it is handed off.
WalletIsServed == <>(wallet.from # NoCursor)

\* What docs/src/bootnode.md says of a handoff: "the requested range is within
\* the retention window; bootnode archive is complete for this sync", so the
\* wallet has every event of the ledgers before the window.
HandoffIsComplete ==
  ~ Walking => \A e \in Events(Contract) : e[1] < wallet.from => e \in wallet.got
=============================================================================
