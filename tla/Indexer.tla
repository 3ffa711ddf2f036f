------------------------------ MODULE Indexer ------------------------------
(***************************************************************************)
(* The wallet's event indexer: events_listener drives rounds of            *)
(* fetch_contract_events, which pages through the RPC's getEvents and      *)
(* stores each page and then the progress made.  The chain grows, the RPC  *)
(* forgets old ledgers, requests fail, the tab is closed at any await, and *)
(* a bootnode may serve the history the RPC no longer has.                 *)
(***************************************************************************)
EXTENDS EventChain

CONSTANTS
  MaxPages,       \* MAX_PAGES_PER_ROUND
  HasBootnode,    \* is a bootnode configured
  MaxForget,      \* bound: ledgers the RPC forgets
  MaxFailures     \* bound: failed requests and closed tabs

ASSUME IndexerAssumption ==
  /\ MaxPages \in Nat \ {0}
  /\ HasBootnode \in BOOLEAN
  /\ {MaxForget, MaxFailures} \subseteq Nat

VARIABLES
  oldest,    \* the oldest ledger the RPC retains
  failures,  \* failures so far, to bound them
  raw,       \* raw_contract_events: the ids <<l, k>> stored
  meta,      \* indexing_metadata: a row per contract seen
  mode,      \* where events_listener is
  round      \* the round in progress

dbVars == <<raw, meta>>
vars == <<chain, oldest, failures, dbVars, mode, round>>

-----------------------------------------------------------------------------
\* A page of the bootnode's cache: never empty, and cached at an earlier tip.
BootnodePages(pos) ==
  {p \in {PageOf(Contract, pos, t, Window) : t \in 1..tip} : p.events # {}}

-----------------------------------------------------------------------------
(* The indexer's reading of its own progress.                              *)

\* get_sync_state: the rows there are.
active_sync == DOMAIN meta

min_pool_ledger == 1

start_ledger ==
  IF active_sync = {} THEN min_pool_ledger
  ELSE Min({meta[c].last_indexed : c \in active_sync})

probe_ledger ==
  LET past == {meta[c].last_indexed : c \in active_sync} \ {0}
  IN  IF past = {} THEN min_pool_ledger ELSE Min(past)

\* Mutant: every round replays from the ledger of the last event.
stored_cursor_Mutant == NoCursor

\* One cursor, or a replay from start_ledger when the rows disagree.  Rows
\* without a cursor do not count, and the first row decides.
stored_cursor ==
  LET unique == {meta[c].cursor : c \in active_sync} \ {NoCursor}
  IN  IF active_sync = {} \/ Cardinality(unique) > 1 THEN NoCursor
      ELSE meta[Min(active_sync)].cursor

NoReply == [events |-> {}, cursor |-> NoCursor, latest |-> 0]

NoRound == [pc |-> "idle", start |-> 0, cursor |-> NoCursor, page |-> 0, reply |-> NoReply]

CursorsCleared == [c \in DOMAIN meta |-> [meta[c] EXCEPT !.cursor = NoCursor]]

-----------------------------------------------------------------------------
Init ==
  /\ ChainInit
  /\ oldest = 1
  /\ failures = 0
  /\ raw = {}
  /\ meta = [c \in {} |-> NoReply]
  /\ mode = "init"
  /\ round = NoRound

\* events_listener up to its main loop: Indexer::init probes the RPC at the
\* stored ledger.  A retention gap clears the cursors and turns to the
\* bootnode; no answer or no bootnode ends the listener.
events_listener ==
  /\ mode = "init"
  /\ IF probe_ledger >= oldest
     THEN mode' = "rpc" /\ UNCHANGED meta
     ELSE IF HasBootnode
     THEN meta' = CursorsCleared /\ mode' \in {"bootnode", "handoff", "stopped"}
     ELSE mode' = "stopped" /\ UNCHANGED meta
  /\ UNCHANGED <<chain, oldest, failures, raw, round>>

\* The way back: a second probe of the wallet's RPC.
resume_on_rpc ==
  /\ mode = "handoff"
  /\ mode' = IF probe_ledger >= oldest THEN "rpc" ELSE "stopped"
  /\ UNCHANGED <<chain, oldest, failures, dbVars, round>>

\* fetch_contract_events reads the progress once per round.
begin_round ==
  /\ mode \in {"rpc", "bootnode"}
  /\ round = NoRound
  /\ round' = [pc |-> "fetch", start |-> start_ledger, cursor |-> stored_cursor, page |-> 1,
               reply |-> NoReply]
  /\ UNCHANGED <<chain, oldest, failures, dbVars, mode>>

Position == IF round.cursor = NoCursor THEN <<round.start, 0>> ELSE round.cursor

\* RpcAhead: a start ledger past the tip ends the round.
Ahead == round.cursor = NoCursor /\ round.start > tip

\* get_contract_events on the wallet's RPC.
fetch_rpc ==
  /\ mode = "rpc" /\ round.pc = "fetch"
  /\ Position[1] >= oldest
  /\ round' = IF Ahead THEN NoRound
              ELSE [round EXCEPT !.pc = "save",
                                 !.reply = PageOf(Contract, Position, tip, Window)]
  /\ UNCHANGED <<chain, oldest, failures, dbVars, mode>>

\* The RPC no longer has the ledger: the round fails and the next one retries.
fetch_forgotten ==
  /\ mode = "rpc" /\ round.pc = "fetch"
  /\ Position[1] < oldest
  /\ round' = NoRound
  /\ UNCHANGED <<chain, oldest, failures, dbVars, mode>>

\* get_contract_events on the bootnode: a cached page.
fetch_bootnode ==
  /\ mode = "bootnode" /\ round.pc = "fetch"
  /\ \E p \in BootnodePages(Position) :
       round' = [round EXCEPT !.pc = "save", !.reply = p]
  /\ UNCHANGED <<chain, oldest, failures, dbVars, mode>>

\* The bootnode hands off: the cursors are cleared and the RPC is next.
bootnode_handoff ==
  /\ mode = "bootnode" /\ round.pc = "fetch"
  /\ meta' = CursorsCleared
  /\ mode' = "handoff"
  /\ round' = NoRound
  /\ UNCHANGED <<chain, oldest, failures, raw>>

\* save_events_batch: events already stored are left alone.
save_events_batch ==
  /\ round.pc = "save"
  /\ raw' = raw \union round.reply.events
  /\ round' = [round EXCEPT !.pc = "progress"]
  /\ UNCHANGED <<chain, oldest, failures, meta, mode>>

fully_indexed(reply) == reply.events = {}

\* Mutant: every page moves progress to the tip.
progress_ledger_Mutant(reply) == reply.latest

\* The ledger of the page's last event, or the tip when it is empty.
progress_ledger(reply) ==
  IF reply.events = {} THEN reply.latest ELSE Max({e[1] : e \in reply.events})

\* save_sync_progress writes one row per contract.
save_sync_progress ==
  LET r == round.reply
      Fully(c) == CASE fully_indexed(r)                         -> progress_ledger(r)
                    [] ~ fully_indexed(r) /\ c \in DOMAIN meta  -> meta[c].last_fully_indexed
                    [] OTHER                                    -> 0
  IN  /\ round.pc = "progress"
      /\ meta' = [c \in Contract |-> [cursor |-> r.cursor, last_indexed |-> progress_ledger(r),
                                      last_fully_indexed |-> Fully(c)]]
      /\ round' = IF r.events = {} \/ round.page = MaxPages THEN NoRound
                  ELSE [pc |-> "fetch", start |-> round.start, cursor |-> r.cursor,
                        page |-> round.page + 1, reply |-> NoReply]
      /\ UNCHANGED <<chain, oldest, failures, raw, mode>>

-----------------------------------------------------------------------------
(* The environment.                                                        *)

close_ledger ==
  /\ ChainGrows
  /\ UNCHANGED <<oldest, failures, dbVars, mode, round>>

forget ==
  /\ oldest < tip /\ oldest <= MaxForget
  /\ oldest' = oldest + 1
  /\ UNCHANGED <<chain, failures, dbVars, mode, round>>

\* A request of Indexer::init fails: the listener returns and nothing starts
\* it again until the tab is opened anew.
init_fails ==
  /\ failures < MaxFailures /\ mode \in {"init", "handoff"}
  /\ failures' = failures + 1
  /\ mode' = "stopped"
  /\ UNCHANGED <<chain, oldest, dbVars, round>>

\* A request to the RPC or to the storage worker fails: the round ends with an
\* error, which the loop logs.
request_fails ==
  /\ failures < MaxFailures /\ round # NoRound
  /\ failures' = failures + 1
  /\ round' = NoRound
  /\ UNCHANGED <<chain, oldest, dbVars, mode>>

\* The tab is closed at any point and opened again.
reopen ==
  /\ failures < MaxFailures
  /\ failures' = failures + 1
  /\ mode' = "init" /\ round' = NoRound
  /\ UNCHANGED <<chain, oldest, dbVars>>

Indexing ==
  \/ events_listener \/ resume_on_rpc \/ begin_round
  \/ fetch_rpc \/ fetch_forgotten \/ fetch_bootnode \/ bootnode_handoff
  \/ save_events_batch \/ save_sync_progress

Next == Indexing \/ close_ledger \/ forget \/ init_fails \/ request_fails \/ reopen

Spec == Init /\ [][Next]_vars

\* The listener's loop keeps running: it only waits on timers and on requests
\* that either answer or fail, and failures are bounded here.
FairSpec == Spec /\ WF_vars(Indexing)

-----------------------------------------------------------------------------
\* Every variable stays in its type.
TypeOK ==
  /\ oldest \in 1..(MaxLedger + 1)
  /\ raw \subseteq Events(Contract)
  /\ DOMAIN meta \subseteq Contract
  /\ \A c \in DOMAIN meta :
       /\ meta[c].cursor \in {NoCursor} \union ((1..(tip + 1)) \X Nat)
       /\ meta[c].last_indexed \in 1..tip
       /\ meta[c].last_fully_indexed \in 0..tip
  /\ mode \in {"init", "rpc", "bootnode", "handoff", "stopped"}
  /\ round.pc \in {"idle", "fetch", "save", "progress"}

\* No event is skipped for good: whatever is not stored yet still lies ahead of
\* the point where the next round starts, across failed requests, tabs closed
\* between storing a page and its progress, replays and the bootnode handoff.
NoEventLost ==
  LET next == IF stored_cursor = NoCursor THEN <<start_ledger, 0>> ELSE stored_cursor
  IN  \A e \in Events(Contract) \ raw : ~ Before(e, next)

\* Once the chain is quiet, a listener whose RPC retains everything, and whose
\* first probe was answered, stores every event of its contracts and knows that
\* it is at the tip: replays and the page limit of a round never make it go
\* round in circles.
CatchesUp ==
  <>[](\A c \in Contract : \/ mode = "stopped" \/ oldest > 1
                           \/ /\ Events({c}) \subseteq raw
                              /\ c \in DOMAIN meta
                              /\ meta[c].last_fully_indexed = tip)
=============================================================================
