----------------------------- MODULE SyncProofs -----------------------------
(***************************************************************************)
(* Proofs about the readers of the event stream, Bootnode and Indexer, for *)
(* any contracts, page sizes, windows and bounds.                          *)
(***************************************************************************)
EXTENDS Indexer, Bootnode, FiniteSetTheorems, WellFoundedInduction, TLAPS

\* The positions that a cursor can have: no event will be emitted behind one.
Cursors == {c \in (1..(tip + 1)) \X (0..MaxPerLedger) : c[1] <= tip \/ c[2] = 0}

ChainOK == chain \in Seq(Ledgers) /\ tip \in 1..MaxLedger

Replies == [events : SUBSET Events(Contract), cursor : Cursors \union {NoCursor}, latest : 0..tip]

\* The reply has exactly the events between a position and its own cursor.
Answers(pos, reply) ==
  /\ reply.cursor \in Cursors
  /\ Before(pos, reply.cursor)
  /\ reply.events = {e \in Events(Contract) : ~ Before(e, pos) /\ Before(e, reply.cursor)}

-----------------------------------------------------------------------------
(* Numbers, positions and the chain.                                       *)

\* Every set of natural numbers that is not empty has a least element.
LEMMA LeastExists ==
  ASSUME NEW T, T \subseteq Nat, T # {}
  PROVE  \E x \in T : \A y \in T : x <= y
<1> DEFINE R == OpToRel(<, Nat)
<1>1. IsWellFoundedOn(R, Nat)
  BY NatLessThanWellFounded, Zenon
<1>2. \A x, y \in Nat : y < x => <<y, x>> \in R
  BY DEF OpToRel
<1> HIDE DEF R
<1>3. PICK x \in T : \A y \in T : ~ (<<y, x>> \in R)
  BY <1>1, WFMin
<1>4. ASSUME NEW y \in T PROVE x <= y
  <2>1. x \in Nat /\ y \in Nat /\ ~ (<<y, x>> \in R)
    BY <1>3
  <2>2. ~ (y < x)
    BY <1>2, <2>1
  <2> QED
    BY <2>1, <2>2
<1> QED
  BY <1>4

\* Min picks the least element.
LEMMA MinIsLeast ==
  ASSUME NEW T, T \subseteq Nat, T # {}
  PROVE  Min(T) \in T
BY LeastExists DEF Min

\* Max picks an element of a set that has a bound.
LEMMA MaxIsMember ==
  ASSUME NEW n \in Nat, NEW T, T \subseteq 0..n, T # {}
  PROVE  Max(T) \in T /\ \A y \in T : y <= Max(T)
<1> DEFINE D == {n - x : x \in T}
<1>0. \A x \in T : x \in 0..n /\ n - x \in Nat
  OBVIOUS
<1>1. D \subseteq Nat /\ D # {}
  BY <1>0
<1>2. PICK d \in D : \A y \in D : d <= y
  BY <1>1, LeastExists
<1>3. PICK m \in T : d = n - m
  OBVIOUS
<1>4. \A y \in T : m >= y
  <2> TAKE y \in T
  <2>1. n - y \in D /\ y \in 0..n /\ m \in 0..n
    OBVIOUS
  <2>2. n - m <= n - y
    BY <1>2, <1>3, <2>1
  <2> QED
    BY <2>1, <2>2
<1> QED
  BY <1>3, <1>4 DEF Max

\* An event is a position in the chain.
LEMMA EventFields ==
  ASSUME ChainOK, NEW S, NEW e \in Events(S)
  PROVE  /\ e[1] \in 1..tip /\ e[2] \in 1..MaxPerLedger /\ e = <<e[1], e[2]>>
         /\ e \in Cursors
BY EventChainAssumption DEF Events, Cursors, ChainOK

\* A cursor is a pair of numbers and not NoCursor.
LEMMA CursorFields ==
  ASSUME ChainOK, NEW c \in Cursors
  PROVE  /\ c[1] \in Nat /\ c[2] \in Nat /\ c[1] >= 1 /\ c[1] <= tip + 1
         /\ c = <<c[1], c[2]>> /\ c # NoCursor
BY EventChainAssumption DEF Cursors, ChainOK

\* getEvents answers with the events between the position and where it stopped; an
\* empty page of a scan that reaches the tip stops behind the tip.
LEMMA PageAnswers ==
  ASSUME ChainOK, NEW pos \in Cursors, NEW t \in 1..tip, NEW w \in Nat \ {0}
  PROVE  LET p == PageOf(Contract, pos, t, w) IN
         /\ p \in Replies /\ p.latest = t /\ Answers(pos, p)
         /\ t = tip /\ pos[1] + w > t /\ p.events = {} => p.cursor = <<t + 1, 0>>
<1> DEFINE p == PageOf(Contract, pos, t, w)
           last == scanned_to(pos, t, w)
           all == AfterOf(Contract, pos, last)
           fills(e) == Cardinality({d \in all : Before(d, e)}) = PageSize
           stop == StopsAt(Contract, pos, t, w)
<1>1. /\ pos[1] \in Nat /\ pos[2] \in Nat /\ pos[1] >= 1 /\ pos[1] <= tip + 1
      /\ pos = <<pos[1], pos[2]>> /\ tip \in Nat /\ t \in Nat /\ w \in Nat /\ w >= 1
  BY CursorFields DEF ChainOK
<1>2. last \in Nat /\ last <= t /\ (pos[1] <= t => pos[1] <= last)
      /\ (pos[1] + w > t => last = t)
  BY <1>1 DEF scanned_to
<1>3. \A e \in Events(Contract) : /\ e[1] \in Nat /\ e[2] \in Nat /\ e[2] >= 1
                                 /\ e[1] >= 1 /\ e[1] <= tip /\ e \in Cursors
  BY EventFields, <1>1, EventChainAssumption
<1>4. all = {e \in Events(Contract) : e[1] <= last /\ ~ Before(e, pos)}
  BY DEF AfterOf
<1>5. p = [events |-> {e \in all : Before(e, stop)}, cursor |-> stop, latest |-> t]
  BY DEF PageOf
<1>6. stop = IF \E e \in all : fills(e) THEN CHOOSE e \in all : fills(e)
             ELSE IF pos[1] > t THEN pos ELSE <<last + 1, 0>>
  BY DEF StopsAt
<1> HIDE DEF p, last, all, fills, stop
<1>7. /\ stop \in Cursors /\ Before(pos, stop)
      /\ {e \in all : Before(e, stop)}
           = {e \in Events(Contract) : ~ Before(e, pos) /\ Before(e, stop)}
      /\ t = tip /\ pos[1] + w > t /\ {e \in all : Before(e, stop)} = {} => stop = <<t + 1, 0>>
  <2>1. CASE \E e \in all : fills(e)
    <3>1. stop \in all
      BY <1>6, <2>1
    <3>2. stop \in Events(Contract) /\ stop[1] <= last /\ ~ Before(stop, pos) /\ Before(stop, stop)
      BY <1>3, <1>4, <3>1 DEF Before
    <3>3. Before(pos, stop)
      BY <1>1, <1>3, <3>2 DEF Before
    <3>4. \A e \in Events(Contract) : Before(e, stop) => e[1] <= last
      BY <1>2, <1>3, <3>2 DEF Before
    <3> QED
      BY <1>3, <1>4, <3>1, <3>2, <3>3, <3>4
  <2>2. CASE ~ (\E e \in all : fills(e)) /\ pos[1] > t
    <3>1. stop = pos
      BY <1>6, <2>2
    <3>2. Before(pos, pos) /\ \A e \in all : ~ Before(e, pos)
      BY <1>1, <1>4 DEF Before
    <3>3. t = tip => pos[1] = t + 1 /\ pos[2] = 0
      BY <1>1, <2>2 DEF Cursors
    <3> QED
      BY <1>1, <1>4, <3>1, <3>2, <3>3
  <2>3. CASE ~ (\E e \in all : fills(e)) /\ ~ (pos[1] > t)
    <3>1. stop = <<last + 1, 0>>
      BY <1>6, <2>3
    <3>2. stop \in Cursors
      BY <1>1, <1>2, <3>1, EventChainAssumption DEF Cursors
    <3>3. Before(pos, stop)
      BY <1>1, <1>2, <2>3, <3>1 DEF Before
    <3>4. \A e \in Events(Contract) : Before(e, stop) <=> e[1] <= last
      BY <1>2, <1>3, <3>1 DEF Before
    <3> QED
      BY <1>2, <1>4, <3>1, <3>2, <3>3, <3>4
  <2> QED
    BY <2>1, <2>2, <2>3
<1>8. p \in Replies
  BY <1>4, <1>5, <1>7 DEF Replies
<1> QED
  BY <1>5, <1>7, <1>8 DEF Answers, p

\* A ledger that closes adds events behind every cursor there is.
LEMMA GrowthIsAhead ==
  ASSUME ChainOK, ChainGrows
  PROVE  /\ ChainOK' /\ tip' = tip + 1
         /\ Cursors \subseteq Cursors'
         /\ \A S : Events(S) \subseteq Events(S)'
         /\ \A S : \A c \in Cursors : \A e \in Events(S)' : Before(e, c) => e \in Events(S)
<1>1. PICK l \in Ledgers : chain' = Append(chain, l)
  BY DEF ChainGrows
<1>2. /\ chain' \in Seq(Ledgers) /\ tip' = tip + 1 /\ tip \in Nat /\ tip >= 1 /\ tip < MaxLedger
      /\ \A i \in 1..tip : chain'[i] = chain[i]
  BY <1>1 DEF ChainOK, ChainGrows, tip
<1>3. ChainOK'
  BY <1>2, EventChainAssumption DEF ChainOK
<1>4. Cursors \subseteq Cursors'
  BY <1>2, EventChainAssumption DEF Cursors
<1>5. ASSUME NEW S PROVE Events(S) \subseteq Events(S)'
  <2> SUFFICES ASSUME NEW e \in Events(S) PROVE e \in Events(S)'
    OBVIOUS
  <2>1. e \in (1..tip) \X (1..MaxPerLedger) /\ e[1] \in 1..tip
        /\ e[2] <= Len(chain[e[1]]) /\ chain[e[1]][e[2]] \in S
    BY DEF Events
  <2>2. e \in (1..tip') \X (1..MaxPerLedger) /\ chain'[e[1]] = chain[e[1]]
    BY <1>2, <2>1, EventChainAssumption
  <2> QED
    BY <2>1, <2>2 DEF Events
<1>6. ASSUME NEW S, NEW c \in Cursors, NEW e \in Events(S)', Before(e, c) PROVE e \in Events(S)
  <2>1. e \in (1..(tip + 1)) \X (1..MaxPerLedger) /\ e[1] \in 1..(tip + 1) /\ e[2] \in 1..MaxPerLedger
        /\ e[2] <= Len(chain'[e[1]]) /\ chain'[e[1]][e[2]] \in S
    BY <1>2 DEF Events
  <2>2. c[1] \in Nat /\ c[2] \in Nat /\ c[1] <= tip + 1 /\ (c[1] <= tip \/ c[2] = 0)
    BY CursorFields DEF Cursors
  <2>3. e[1] \in 1..tip
    BY <1>2, <1>6, <2>1, <2>2, EventChainAssumption DEF Before
  <2>4. e \in (1..tip) \X (1..MaxPerLedger) /\ chain'[e[1]] = chain[e[1]]
    BY <1>2, <2>1, <2>3
  <2> QED
    BY <2>1, <2>4 DEF Events
<1> QED
  BY <1>2, <1>3, <1>4, <1>5, <1>6

\* What answered a position still answers it after a ledger closed.
LEMMA AnswersStay ==
  ASSUME ChainOK, ChainGrows, NEW pos \in Cursors, NEW r \in Replies
  PROVE  r \in Replies' /\ (Answers(pos, r) => Answers(pos, r)')
<1>1. /\ ChainOK' /\ tip' = tip + 1 /\ Cursors \subseteq Cursors' /\ tip \in Nat
      /\ Events(Contract) \subseteq Events(Contract)'
      /\ \A c \in Cursors : \A e \in Events(Contract)' : Before(e, c) => e \in Events(Contract)
  BY GrowthIsAhead DEF ChainOK
<1>2. r \in Replies'
  BY <1>1 DEF Replies
<1>3. ASSUME Answers(pos, r) PROVE Answers(pos, r)'
  BY <1>1, <1>3 DEF Answers
<1> QED
  BY <1>2, <1>3

-----------------------------------------------------------------------------
(* The bootnode.                                                           *)

Keys == Cursors \union {NoCursor}

KvRows == [last_cursor : Keys, last_fully_indexed_ledger : 0..tip, ledger_tip : 0..tip,
           in_sync : BOOLEAN]

TaskPcs ==
  {"sleep", "tip", "fetch", "unsync", "insert", "cursor", "caught_up", "fully", "sync"}

Tasks == [pc : TaskPcs, tip : 0..tip, page : Nat, key : Keys, result : Replies]

\* A page that may be cached under a key.
Cacheable(key, page) ==
  page \in Replies /\ page.events # {} /\ Answers(PositionOf(key), page)

\* What is cached answers the key it is cached under.
CacheInv ==
  /\ DOMAIN pages \subseteq Keys
  /\ \A k \in DOMAIN pages : Cacheable(k, pages[k])

\* The task holds the answer to its key from the reply to the insertion, and a
\* cursor as long as it holds a reply.
TaskInv ==
  /\ task \in Tasks
  /\ task.pc \in {"unsync", "insert"} => Cacheable(task.key, task.result)
  /\ task.pc \in {"unsync", "insert", "cursor", "caught_up", "fully", "sync"} =>
       task.result.cursor \in Cursors

\* The wallet has what lies behind the key it asks for next.
WalletInv ==
  /\ wallet \in [key : Keys, got : SUBSET Events(Contract), from : Nat \union {NoCursor}]
  /\ wallet.got = {e \in Events(Contract) : Before(e, PositionOf(wallet.key))}

\* The tips that were read, here and in the wallet's call.
TipsInv ==
  /\ ledgerTip \in {InitialTip} \union (0..tip)
  /\ call \in [pc : {"none", "lookup", "miss"}, tip : Nat]

\* The inductive invariant of the bootnode.
BootnodeInv ==
  ChainOK /\ kv \in KvRows /\ CacheInv /\ TaskInv /\ WalletInv /\ TipsInv

\* A key is a position in the chain.
LEMMA KeyPosition ==
  ASSUME ChainOK, NEW k \in Keys
  PROVE  PositionOf(k) \in Cursors
<1>1. <<1, 0>> \in Cursors
  BY EventChainAssumption DEF Cursors, ChainOK
<1> QED
  BY <1>1 DEF PositionOf, Keys, StartKey

\* No event lies behind the start.
LEMMA StartIsBehindAll ==
  ASSUME ChainOK, NEW S, NEW e \in Events(S)
  PROVE  ~ Before(e, <<1, 0>>)
BY EventFields, EventChainAssumption DEF Before, ChainOK

\* The chain starts with one ledger.
LEMMA ChainInitOK == ChainInit => ChainOK
<1> SUFFICES ASSUME ChainInit PROVE ChainOK
  OBVIOUS
<1>1. PICK l \in Ledgers : chain = <<l>>
  BY DEF ChainInit
<1> QED
  BY <1>1, EventChainAssumption DEF ChainOK, tip

\* A reply that holds nothing.
LEMMA EmptyReply ==
  ASSUME ChainOK
  PROVE  NoPage \in Replies /\ Sleeping \in Tasks /\ Sleeping.pc = "sleep"
         /\ NoCall \in [pc : {"none", "lookup", "miss"}, tip : Nat]
<1>1. NoPage \in Replies
  BY DEF NoPage, Replies, ChainOK
<1>2. Sleeping \in Tasks
  BY <1>1 DEF Sleeping, Tasks, TaskPcs, Keys, StartKey, ChainOK
<1> QED
  BY <1>1, <1>2 DEF Sleeping, NoCall

\* The invariant holds on an empty database.
LEMMA BootnodeInitInv == BootnodeInit => BootnodeInv
<1> SUFFICES ASSUME BootnodeInit PROVE BootnodeInv
  OBVIOUS
<1> USE DEF BootnodeInit
<1>1. ChainOK /\ tip \in Nat
  BY ChainInitOK DEF ChainOK
<1>2. kv \in KvRows
  BY <1>1 DEF KvState, KvRows, Keys
<1>3. CacheInv
  BY DEF CacheInv
<1>4. TaskInv
  BY <1>1, EmptyReply DEF TaskInv
<1>5. WalletInv
  <2>1. PositionOf(StartKey) = <<1, 0>>
    BY DEF PositionOf
  <2> QED
    BY <1>1, <2>1, StartIsBehindAll DEF WalletInv, Keys, StartKey
<1>6. TipsInv
  BY <1>1, EmptyReply DEF TipsInv
<1> QED
  BY <1>1, <1>2, <1>3, <1>4, <1>5, <1>6 DEF BootnodeInv

\* The steps of the indexer task.
LEMMA IndexerTaskKeeps ==
  ASSUME BootnodeInv, IndexerTask
  PROVE  BootnodeInv'
<1> USE DEF BootnodeInv, IndexerUnchanged
<1>a. UNCHANGED <<chain, wallet, call, mishaps>> /\ tip' = tip
  <2>1. UNCHANGED <<chain, wallet, call, mishaps>>
    BY DEF IndexerTask, get_latest_ledger, set_ledger_tip, get_events, set_out_of_sync,
       insert_get_events_page, update_cursor, mark_caught_up
  <2> QED
    BY <2>1 DEF tip
<1>b. /\ ChainOK' /\ Cursors' = Cursors /\ Keys' = Keys /\ Replies' = Replies
      /\ KvRows' = KvRows /\ Tasks' = Tasks /\ Events(Contract)' = Events(Contract)
  BY <1>a DEF ChainOK, tip, Cursors, Keys, Replies, KvRows, Tasks, Events
<1>c. tip \in Nat /\ tip >= 1
  BY DEF ChainOK
<1>d. Sleeping \in Tasks /\ Sleeping.pc = "sleep" /\ NoPage \in Replies
  BY EmptyReply
<1>0. UNCHANGED <<chain, wallet, call, mishaps>> /\ tip' = tip /\ tip \in Nat /\ tip >= 1
      /\ ChainOK' /\ Cursors' = Cursors /\ Keys' = Keys /\ Replies' = Replies
      /\ KvRows' = KvRows /\ Tasks' = Tasks /\ Events(Contract)' = Events(Contract)
  BY <1>a, <1>b, <1>c
<1>1. WalletInv' /\ (pages' = pages => CacheInv')
      /\ (ledgerTip' \in {InitialTip} \union (0..tip) => TipsInv')
  BY <1>0 DEF WalletInv, CacheInv, Cacheable, Answers, TipsInv
<1>2. CASE get_latest_ledger
  <2>1. task' \in Tasks /\ task'.pc = "tip" /\ ledgerTip' \in 0..tip
    <3>1. tip \in 0..tip /\ "tip" \in TaskPcs
      BY <1>c DEF TaskPcs
    <3>2. task' = [Sleeping EXCEPT !.pc = "tip", !.tip = tip] /\ ledgerTip' = tip
      BY <1>2 DEF get_latest_ledger
    <3> QED
      BY <1>d, <3>1, <3>2 DEF Tasks
  <2> QED
    BY <1>0, <1>1, <1>2, <2>1 DEF get_latest_ledger, TaskInv
<1>3. CASE set_ledger_tip
  <2>1. kv' \in KvRows
    BY <1>0, <1>3 DEF set_ledger_tip, KvRows, TaskInv, Tasks, TaskPcs
  <2>2. task' \in Tasks /\ task'.pc = "fetch"
    BY <1>d, <1>3 DEF set_ledger_tip, KvRows, TaskInv, Tasks, TaskPcs
  <2> QED
    BY <1>0, <1>1, <1>3, <2>1, <2>2 DEF set_ledger_tip, TaskInv, TipsInv
<1>4. CASE get_events
  <2> DEFINE p == PageOf(Contract, PositionOf(task.key), tip, Upstream)
  <2>1. task \in Tasks /\ task.key \in Keys
    BY DEF TaskInv, Tasks, TaskPcs
  <2>2. p \in Replies /\ Answers(PositionOf(task.key), p)
    <3>1. PositionOf(task.key) \in Cursors /\ tip \in 1..tip /\ Upstream \in Nat \ {0}
      BY <1>c, <2>1, KeyPosition, BootnodeAssumption
    <3> QED
      BY <3>1, PageAnswers
  <2>3. task' = [task EXCEPT !.pc = IF p.events = {} THEN "caught_up" ELSE "unsync", !.result = p]
    BY <1>4 DEF get_events
  <2> HIDE DEF p
  <2>4. task' \in Tasks /\ task'.key = task.key /\ task'.result = p
        /\ task'.pc = IF p.events = {} THEN "caught_up" ELSE "unsync"
    BY <2>1, <2>2, <2>3 DEF Tasks, TaskPcs
  <2>5. TaskInv'
    BY <1>0, <2>2, <2>4 DEF TaskInv, Cacheable, Answers
  <2> QED
    BY <1>0, <1>1, <1>4, <2>5 DEF get_events, TipsInv
<1>5. CASE set_out_of_sync
  <2>1. kv' \in KvRows
    BY <1>5 DEF set_out_of_sync, KvRows
  <2>2. task' \in Tasks /\ task'.pc = "insert" /\ task'.key = task.key /\ task'.result = task.result
    BY <1>5 DEF set_out_of_sync, TaskInv, Tasks, TaskPcs
  <2>3. TaskInv'
    BY <1>0, <1>5, <2>2 DEF set_out_of_sync, TaskInv, Cacheable, Answers
  <2> QED
    BY <1>0, <1>1, <1>5, <2>1, <2>3 DEF set_out_of_sync, TipsInv
<1>6. CASE insert_get_events_page
  <2>1. task' \in Tasks /\ task'.pc = "cursor" /\ task'.key = task.key /\ task'.result = task.result
    BY <1>6 DEF insert_get_events_page, TaskInv, Tasks, TaskPcs
  <2>2. TaskInv'
    BY <1>0, <1>6, <2>1 DEF insert_get_events_page, TaskInv
  <2>3. pages' = stored(task.key, task.result) /\ task.key \in Keys
        /\ Cacheable(task.key, task.result)
    BY <1>6 DEF insert_get_events_page, TaskInv, Tasks, TaskPcs
  <2>4. CacheInv'
    BY <1>0, <2>3 DEF CacheInv, stored, Cacheable, Answers
  <2> QED
    BY <1>0, <1>1, <1>6, <2>2, <2>4 DEF insert_get_events_page, TipsInv
<1>7. CASE update_cursor
  <2>1. task.result.cursor \in Keys /\ task \in Tasks
    BY <1>7 DEF update_cursor, TaskInv, Keys
  <2>2. kv' \in KvRows
    BY <1>7, <2>1 DEF update_cursor, KvRows
  <2>3. task' \in Tasks /\ task'.pc \in {"sleep", "fetch"}
    <3>1. CASE task' = Sleeping
      BY <1>d, <3>1
    <3>2. CASE task' = [task EXCEPT !.pc = "fetch", !.page = @ + 1, !.key = task.result.cursor,
                               !.result = NoPage]
      <4>1. "fetch" \in TaskPcs /\ task.page + 1 \in Nat
        BY <2>1 DEF TaskPcs, Tasks
      <4> QED
        BY <1>d, <2>1, <3>2, <4>1 DEF Tasks
    <3> QED
      BY <1>7, <3>1, <3>2 DEF update_cursor
  <2> QED
    BY <1>0, <1>1, <1>7, <2>2, <2>3 DEF update_cursor, TaskInv, TipsInv
<1>8. CASE mark_caught_up
  <2>1. task.result.cursor \in Cursors /\ task \in Tasks /\ task.result.latest \in 0..tip
    BY <1>8 DEF mark_caught_up, TaskInv, Tasks, Replies
  <2>2. kv' \in KvRows
    BY <1>8, <2>1 DEF mark_caught_up, KvRows, Keys
  <2>3. task' \in Tasks /\ (task'.pc = "sleep" \/ (task'.pc \in {"fully", "sync"} /\ task'.result = task.result))
    <3>1. CASE task' = Sleeping
      BY <1>d, <3>1
    <3>2. CASE task' = [task EXCEPT !.pc = "fully"] \/ task' = [task EXCEPT !.pc = "sync"]
      BY <2>1, <3>2 DEF Tasks, TaskPcs
    <3> QED
      BY <1>8, <3>1, <3>2 DEF mark_caught_up
  <2> QED
    BY <1>0, <1>1, <1>8, <2>1, <2>2, <2>3 DEF mark_caught_up, TaskInv, TipsInv
<1> QED
  BY <1>2, <1>3, <1>4, <1>5, <1>6, <1>7, <1>8 DEF IndexerTask

\* The wallet's call.
LEMMA WalletCallKeeps ==
  ASSUME BootnodeInv, WalletCall
  PROVE  BootnodeInv'
<1> USE DEF BootnodeInv, HandlerUnchanged
<1>1. UNCHANGED <<chain, kv, pages, ledgerTip, task, mishaps>> /\ tip' = tip
  <2>1. UNCHANGED <<chain, kv, pages, ledgerTip, task, mishaps>>
    BY DEF WalletCall, handle_get_events, get_cached_get_events, cache_miss_or_handoff
  <2> QED
    BY <2>1 DEF tip
<1>2. /\ ChainOK' /\ Cursors' = Cursors /\ Keys' = Keys /\ Replies' = Replies
      /\ KvRows' = KvRows /\ Tasks' = Tasks /\ Events(Contract)' = Events(Contract)
  BY <1>1 DEF ChainOK, tip, Cursors, Keys, Replies, KvRows, Tasks, Events
<1>3. CacheInv' /\ TaskInv' /\ kv' \in KvRows'
  BY <1>1, <1>2 DEF CacheInv, TaskInv, Cacheable, Answers
<1>4. /\ NoCall \in [pc : {"none", "lookup", "miss"}, tip : Nat]
      /\ ledgerTip \in Nat /\ call.tip \in Nat
  BY EmptyReply, BootnodeAssumption DEF TipsInv, ChainOK
<1>5. ASSUME NEW t \in Nat, retention_handoff(t) PROVE WalletInv' /\ TipsInv'
  <2>1. cutoff_ledger(t) \in Nat
    BY BootnodeAssumption DEF cutoff_ledger, SaturatingSub
  <2>2. /\ wallet' \in [key : Keys, got : SUBSET Events(Contract), from : Nat \union {NoCursor}]
        /\ wallet'.key = wallet.key /\ wallet'.got = wallet.got
    BY <1>5, <2>1 DEF retention_handoff, WalletInv
  <2> QED
    BY <1>1, <1>2, <1>4, <1>5, <2>2 DEF WalletInv, TipsInv, retention_handoff
<1>6. ASSUME UNCHANGED wallet, call' \in [pc : {"none", "lookup", "miss"}, tip : Nat]
      PROVE  WalletInv' /\ TipsInv'
  BY <1>1, <1>2, <1>6 DEF WalletInv, TipsInv
<1>7. CASE handle_get_events
  BY <1>2, <1>3, <1>4, <1>5, <1>6, <1>7 DEF handle_get_events
<1>8. CASE get_cached_get_events /\ wallet.key \in DOMAIN pages
  <2> DEFINE page == pages[wallet.key]
  <2>1. wallet' = [wallet EXCEPT !.got = @ \union page.events, !.key = page.cursor]
        /\ call' = NoCall
    BY <1>8 DEF get_cached_get_events
  <2>2. wallet.key \in Keys /\ Cacheable(wallet.key, page)
    BY <1>8 DEF CacheInv, WalletInv
  <2> HIDE DEF page
  <2>3. page.cursor \in Keys /\ page.events \subseteq Events(Contract)
    BY <2>2 DEF Cacheable, Answers, Keys
  <2>4. /\ wallet' \in [key : Keys, got : SUBSET Events(Contract), from : Nat \union {NoCursor}]
        /\ wallet'.key = page.cursor /\ wallet'.got = wallet.got \union page.events
    BY <2>1, <2>3 DEF WalletInv
  <2>5. PositionOf(page.cursor) = page.cursor /\ page.cursor \in Cursors
    BY <2>2, CursorFields DEF Cacheable, Answers, PositionOf, StartKey
  <2>6. PositionOf(wallet.key) \in Cursors
    BY <2>2, KeyPosition
  <2>7. \A e \in Events(Contract) :
          Before(e, PositionOf(wallet.key)) => Before(e, page.cursor)
    <3> TAKE e \in Events(Contract)
    <3>1. e[1] \in Nat /\ e[2] \in Nat
      BY EventFields, CursorFields
    <3>2. /\ PositionOf(wallet.key)[1] \in Nat /\ PositionOf(wallet.key)[2] \in Nat
          /\ page.cursor[1] \in Nat /\ page.cursor[2] \in Nat
      BY <2>5, <2>6, CursorFields
    <3>3. Before(PositionOf(wallet.key), page.cursor)
      BY <2>2 DEF Cacheable, Answers
    <3> QED
      BY <3>1, <3>2, <3>3 DEF Before
  <2>8. wallet'.got = {e \in Events(Contract) : Before(e, PositionOf(wallet'.key))}
    BY <2>2, <2>4, <2>5, <2>7 DEF WalletInv, Cacheable, Answers
  <2> QED
    BY <1>1, <1>2, <1>3, <1>4, <2>1, <2>4, <2>8 DEF WalletInv, TipsInv
<1>9. CASE get_cached_get_events /\ wallet.key \notin DOMAIN pages
  <2>1. call' = [call EXCEPT !.pc = "miss"] /\ UNCHANGED wallet
    BY <1>9 DEF get_cached_get_events
  <2>2. call' \in [pc : {"none", "lookup", "miss"}, tip : Nat]
    BY <2>1 DEF TipsInv
  <2> QED
    BY <1>2, <1>3, <1>6, <2>1, <2>2
<1>10. CASE cache_miss_or_handoff
  BY <1>2, <1>3, <1>4, <1>5, <1>6, <1>10 DEF cache_miss_or_handoff
<1> QED
  BY <1>7, <1>8, <1>9, <1>10 DEF WalletCall

\* The process fails, restarts, and the chain grows.
LEMMA BootnodeMishapsKeep ==
  ASSUME BootnodeInv, round_fails \/ restart \/ UNCHANGED bootnodeVars
  PROVE  BootnodeInv'
<1> USE DEF BootnodeInv
<1>1. UNCHANGED <<chain, kv, pages, wallet>> /\ tip' = tip
  BY DEF round_fails, restart, bootnodeVars, tip
<1>2. /\ ChainOK' /\ Cursors' = Cursors /\ Keys' = Keys /\ Replies' = Replies
      /\ KvRows' = KvRows /\ Tasks' = Tasks /\ Events(Contract)' = Events(Contract)
  BY <1>1 DEF ChainOK, tip, Cursors, Keys, Replies, KvRows, Tasks, Events
<1>3. CacheInv' /\ WalletInv' /\ kv' \in KvRows'
  BY <1>1, <1>2 DEF CacheInv, WalletInv, Cacheable, Answers
<1>4. TaskInv'
  <2>1. CASE task' = Sleeping
    BY <1>2, <2>1, EmptyReply DEF TaskInv
  <2>2. CASE UNCHANGED task
    BY <1>2, <2>2 DEF TaskInv, Cacheable, Answers
  <2> QED
    BY <2>1, <2>2 DEF round_fails, restart, bootnodeVars
<1>5. TipsInv'
  <2>1. CASE restart
    <3>1. kv.ledger_tip \in 0..tip /\ tip \in Nat /\ InitialTip \in Nat
      BY BootnodeAssumption DEF KvRows, ChainOK
    <3>2. {InitialTip, kv.ledger_tip} \subseteq 0..(InitialTip + tip) /\ InitialTip + tip \in Nat
      BY <3>1
    <3>3. Max({InitialTip, kv.ledger_tip}) \in {InitialTip, kv.ledger_tip}
      BY <3>2, MaxIsMember
    <3> QED
      BY <1>1, <2>1, <3>1, <3>3, EmptyReply DEF restart, TipsInv
  <2>2. CASE UNCHANGED <<ledgerTip, call>>
    BY <1>1, <2>2 DEF TipsInv
  <2> QED
    BY <2>1, <2>2 DEF round_fails, bootnodeVars
<1> QED
  BY <1>2, <1>3, <1>4, <1>5

\* A ledger that closes keeps what is cached and what the wallet has true.
LEMMA LedgerClosesKeeps ==
  ASSUME BootnodeInv, ledger_closes
  PROVE  BootnodeInv'
<1> USE DEF BootnodeInv
<1>0. ChainGrows /\ UNCHANGED <<kv, pages, ledgerTip, task, wallet, call, mishaps>>
  BY DEF ledger_closes
<1>1. /\ ChainOK' /\ tip' = tip + 1 /\ Cursors \subseteq Cursors' /\ tip \in Nat
      /\ Events(Contract) \subseteq Events(Contract)'
      /\ \A c \in Cursors : \A e \in Events(Contract)' : Before(e, c) => e \in Events(Contract)
  BY <1>0, GrowthIsAhead DEF ChainOK
<1>2. Keys \subseteq Keys' /\ \A r \in Replies : r \in Replies'
  <2>1. \A r \in Replies : r \in Replies'
    BY <1>1 DEF Replies
  <2> QED
    BY <1>1, <2>1 DEF Keys
<1>3. ASSUME NEW k \in Keys, NEW page, Cacheable(k, page) PROVE Cacheable(k, page)'
  <2>1. PositionOf(k) \in Cursors /\ page \in Replies /\ Answers(PositionOf(k), page)
    BY <1>3, KeyPosition DEF Cacheable
  <2>2. page \in Replies' /\ Answers(PositionOf(k), page)'
    BY <1>0, <2>1, AnswersStay
  <2> QED
    BY <1>3, <2>2 DEF Cacheable
<1>4. kv' \in KvRows'
  BY <1>0, <1>1, <1>2 DEF KvRows
<1>5. CacheInv'
  BY <1>0, <1>2, <1>3 DEF CacheInv
<1>6. TaskInv'
  <2>1. task' \in Tasks' /\ task.key \in Keys
    BY <1>0, <1>1, <1>2 DEF TaskInv, Tasks
  <2> QED
    BY <1>0, <1>1, <1>3, <2>1 DEF TaskInv
<1>7. WalletInv'
  <2>1. wallet.key \in Keys /\ PositionOf(wallet.key) \in Cursors
    BY KeyPosition DEF WalletInv
  <2>2. wallet' \in [key : Keys', got : SUBSET Events(Contract)', from : Nat \union {NoCursor}]
    BY <1>0, <1>1, <1>2 DEF WalletInv
  <2> QED
    BY <1>0, <1>1, <2>1, <2>2 DEF WalletInv
<1>8. TipsInv'
  BY <1>0, <1>1 DEF TipsInv
<1> QED
  BY <1>1, <1>4, <1>5, <1>6, <1>7, <1>8

\* The invariant of the bootnode holds in every reachable state.
THEOREM BootnodeInvariant == BootnodeSpec => []BootnodeInv
<1>1. BootnodeInv /\ [BootnodeNext]_bootnodeVars => BootnodeInv'
  BY IndexerTaskKeeps, WalletCallKeeps, BootnodeMishapsKeep, LedgerClosesKeeps DEF BootnodeNext
<1> QED
  BY <1>1, BootnodeInitInv, PTL DEF BootnodeSpec

\* A cached page holds exactly the events between the key it is cached under and
\* its own cursor, whatever page size, window, failures and restarts.
THEOREM BootnodePagesAreFaithful == BootnodeSpec => []PagesAreFaithful
<1>1. BootnodeInv => PagesAreFaithful
  <2> SUFFICES ASSUME BootnodeInv PROVE PagesAreFaithful
    OBVIOUS
  <2> USE DEF BootnodeInv
  <2>1. tip \in Nat /\ tip <= MaxLedger /\ MaxLedger \in Nat
    BY EventChainAssumption DEF ChainOK
  <2>2. Cursors \subseteq (1..(MaxLedger + 1)) \X (0..MaxPerLedger)
    BY <2>1, EventChainAssumption DEF Cursors
  <2>3. /\ kv.last_cursor \in {NoCursor} \union ((1..(MaxLedger + 1)) \X (0..MaxPerLedger))
        /\ kv.in_sync \in BOOLEAN /\ kv.ledger_tip <= tip /\ kv.last_fully_indexed_ledger <= tip
    BY <2>2 DEF KvRows, Keys
  <2>4. \A k \in DOMAIN pages : pages[k].events # {} /\ pages[k].latest <= tip
    BY <2>1 DEF CacheInv, Cacheable, Replies
  <2>5. BootnodeTypeOK
    BY <2>3, <2>4 DEF BootnodeTypeOK, TipsInv, WalletInv
  <2> QED
    BY <2>5 DEF PagesAreFaithful, CacheInv, Cacheable, Answers
<1> QED
  BY <1>1, BootnodeInvariant, PTL

\* A wallet that follows the cursors of cached pages has every event behind it.
THEOREM BootnodeWalletHasNoGap == BootnodeSpec => []WalletHasNoGap
<1>1. BootnodeInv => WalletHasNoGap
  BY DEF BootnodeInv, WalletInv, WalletHasNoGap
<1> QED
  BY <1>1, BootnodeInvariant, PTL

-----------------------------------------------------------------------------
(* The wallet's indexer.                                                   *)

\* A call scans to the tip.
WholeScan == Window >= MaxLedger

Rows == [cursor : Keys, last_indexed : 1..tip, last_fully_indexed : 0..tip]

Rounds == [pc : {"idle", "fetch", "save", "progress"}, start : 0..tip, cursor : Keys, page : Nat,
           reply : Replies]

\* The readers that lose nothing: those of one RPC, and those of a bootnode whose
\* handoff never falls inside a scan.
Lossless == HasBootnode => WholeScan

\* Every event behind a position is stored, for such a reader.
Covered(pos) == Lossless => \A e \in Events(Contract) : Before(e, pos) => e \in raw

\* What a row of indexing_metadata says is true.
RowInv(row) ==
  /\ row.cursor # NoCursor => Covered(row.cursor)
  /\ ~ HasBootnode => row.cursor # NoCursor
  /\ WholeScan => /\ Covered(<<row.last_indexed, 0>>)
                  /\ Covered(<<row.last_fully_indexed + 1, 0>>)
                  /\ row.last_fully_indexed <= row.last_indexed
                  /\ row.cursor # NoCursor => row.last_fully_indexed <= row.cursor[1]

\* The rows are written together.
MetaInv ==
  /\ DOMAIN meta = {} \/ DOMAIN meta = Contract
  /\ \A c \in DOMAIN meta : meta[c] \in Rows /\ RowInv(meta[c])
  /\ \A c, d \in DOMAIN meta : meta[c] = meta[d]

\* A round stands at a position behind which everything is stored, and holds an
\* answer to it until the answer's progress is stored.
RoundInv ==
  /\ round \in Rounds
  /\ round.pc # "idle" =>
       /\ Position \in Cursors /\ Covered(Position)
       /\ WholeScan => \A c \in DOMAIN meta : meta[c].last_fully_indexed <= Position[1]
  /\ round.pc \in {"save", "progress"} =>
       /\ Answers(Position, round.reply) /\ round.reply.latest >= 1
       /\ WholeScan /\ round.reply.events = {} => round.reply.cursor = <<round.reply.latest + 1, 0>>
  /\ round.pc = "progress" => Covered(round.reply.cursor)

\* The inductive invariant of the indexer.
IndexerInv ==
  /\ ChainOK /\ oldest \in 1..MaxLedger /\ oldest <= tip /\ raw \subseteq Events(Contract)
  /\ mode \in {"init", "rpc", "bootnode", "handoff", "stopped"}
  /\ mode \in {"bootnode", "handoff"} => HasBootnode
  /\ MetaInv /\ RoundInv

\* What is covered stays covered when a ledger closes.
LEMMA CoveredStays ==
  ASSUME ChainOK, ChainGrows, UNCHANGED raw, NEW p \in Cursors, Covered(p)
  PROVE  Covered(p)'
BY GrowthIsAhead DEF Covered

\* What is covered stays covered when more is stored.
LEMMA CoveredGrows ==
  ASSUME UNCHANGED chain, raw \subseteq raw'
  PROVE  \A p : Covered(p) => Covered(p)'
BY DEF Covered, Events, tip

\* A reply that is stored covers everything behind its cursor.
LEMMA ReplyCovers ==
  ASSUME NEW pos, NEW r, Covered(pos), Answers(pos, r), r.events \subseteq raw'
         , UNCHANGED chain, raw \subseteq raw'
  PROVE  Covered(r.cursor)'
BY DEF Covered, Answers, Events, tip

\* The positions that rows speak of are cursors.
LEMMA RowPositions ==
  ASSUME ChainOK, NEW row \in Rows
  PROVE  <<row.last_indexed, 0>> \in Cursors /\ <<row.last_fully_indexed + 1, 0>> \in Cursors
<1>1. row.last_indexed \in 1..tip /\ row.last_fully_indexed \in 0..tip /\ tip \in Nat
  BY DEF Rows, ChainOK
<1> QED
  BY <1>1, EventChainAssumption DEF Cursors

\* The rows that a round reads all say the same.
LEMMA RowsAgree ==
  ASSUME ChainOK, MetaInv
  PROVE  /\ DOMAIN meta = {} => stored_cursor = NoCursor /\ start_ledger = 1
         /\ \A c \in DOMAIN meta : /\ stored_cursor = meta[c].cursor
                                   /\ start_ledger = meta[c].last_indexed
<1>1. CASE DOMAIN meta = {}
  BY <1>1 DEF stored_cursor, start_ledger, active_sync, min_pool_ledger
<1>2. ASSUME NEW c \in DOMAIN meta
      PROVE  stored_cursor = meta[c].cursor /\ start_ledger = meta[c].last_indexed
  <2>1. DOMAIN meta = Contract /\ \A d \in DOMAIN meta : meta[d] = meta[c]
    BY <1>2 DEF MetaInv
  <2>2. {meta[d].last_indexed : d \in active_sync} = {meta[c].last_indexed}
    BY <2>1 DEF active_sync
  <2>3. meta[c].last_indexed \in Nat
    BY DEF MetaInv, Rows, ChainOK
  <2>4. Min({meta[c].last_indexed}) = meta[c].last_indexed
    BY <2>3, MinIsLeast
  <2>5. Min(active_sync) \in active_sync
    BY <2>1, MinIsLeast, EventChainAssumption DEF active_sync
  <2>6. {meta[d].cursor : d \in active_sync} = {meta[c].cursor}
    BY <2>1 DEF active_sync
  <2>7. ~ (Cardinality({meta[d].cursor : d \in active_sync} \ {NoCursor}) > 1)
    <3>1. \/ {meta[d].cursor : d \in active_sync} \ {NoCursor} = {}
          \/ {meta[d].cursor : d \in active_sync} \ {NoCursor} = {meta[c].cursor}
      BY <2>6
    <3>2. Cardinality({}) = 0
      BY FS_EmptySet
    <3>3. Cardinality({meta[c].cursor}) = 1
      BY FS_Singleton
    <3>4. CASE {meta[d].cursor : d \in active_sync} \ {NoCursor} = {}
      <4>1. Cardinality({meta[d].cursor : d \in active_sync} \ {NoCursor}) = 0
        BY <3>2, <3>4, Zenon
      <4> QED
        BY <4>1
    <3>5. CASE {meta[d].cursor : d \in active_sync} \ {NoCursor} = {meta[c].cursor}
      <4>1. Cardinality({meta[d].cursor : d \in active_sync} \ {NoCursor}) = 1
        BY <3>3, <3>5, Zenon
      <4> QED
        BY <4>1
    <3> QED
      BY <3>1, <3>4, <3>5
  <2>8. start_ledger = meta[c].last_indexed
    BY <2>2, <2>4 DEF start_ledger, active_sync
  <2>9. stored_cursor = meta[Min(active_sync)].cursor
    BY <2>7 DEF stored_cursor, active_sync
  <2> QED
    BY <2>1, <2>5, <2>8, <2>9 DEF active_sync
<1> QED
  BY <1>1, <1>2

NextPosition == IF stored_cursor = NoCursor THEN <<start_ledger, 0>> ELSE stored_cursor

\* A round starts where everything behind is stored.
LEMMA NextIsCovered ==
  ASSUME ChainOK, MetaInv
  PROVE  /\ NextPosition \in Cursors /\ Covered(NextPosition)
         /\ WholeScan => \A c \in DOMAIN meta : meta[c].last_fully_indexed <= NextPosition[1]
         /\ start_ledger \in 1..tip /\ stored_cursor \in Keys
<1>1. CASE DOMAIN meta = {}
  <2>1. stored_cursor = NoCursor /\ start_ledger = 1 /\ NextPosition = <<1, 0>>
    BY <1>1, RowsAgree DEF NextPosition
  <2>2. Covered(<<1, 0>>)
    BY StartIsBehindAll DEF Covered
  <2>3. <<1, 0>> \in Cursors /\ 1 \in 1..tip
    BY EventChainAssumption DEF Cursors, ChainOK
  <2> QED
    BY <1>1, <2>1, <2>2, <2>3 DEF Keys
<1>2. ASSUME NEW c \in DOMAIN meta
      PROVE  /\ NextPosition \in Cursors /\ Covered(NextPosition)
             /\ WholeScan => \A d \in DOMAIN meta : meta[d].last_fully_indexed <= NextPosition[1]
             /\ start_ledger \in 1..tip /\ stored_cursor \in Keys
  <2>1. /\ stored_cursor = meta[c].cursor /\ start_ledger = meta[c].last_indexed
        /\ meta[c] \in Rows /\ RowInv(meta[c]) /\ \A d \in DOMAIN meta : meta[d] = meta[c]
    BY RowsAgree DEF MetaInv
  <2>2. start_ledger \in 1..tip /\ stored_cursor \in Keys
    BY <2>1 DEF Rows
  <2>3. CASE stored_cursor = NoCursor
    <3>1. HasBootnode
      BY <2>1, <2>3, IndexerAssumption DEF RowInv
    <3>3. Covered(<<meta[c].last_indexed, 0>>)
      BY <2>1, <3>1 DEF RowInv, Covered, Lossless
    <3>2. NextPosition = <<meta[c].last_indexed, 0>> /\ NextPosition[1] = meta[c].last_indexed
      BY <2>1, <2>3 DEF NextPosition
    <3> QED
      BY <2>1, <2>2, <3>2, <3>3, RowPositions DEF RowInv
  <2>4. CASE stored_cursor # NoCursor
    <3>1. NextPosition = meta[c].cursor /\ meta[c].cursor \in Cursors
      BY <2>1, <2>2, <2>4 DEF NextPosition, Keys
    <3> QED
      BY <2>1, <2>2, <2>4, <3>1 DEF RowInv
  <2> QED
    BY <2>3, <2>4
<1> QED
  BY <1>1, <1>2

\* The invariant holds on an empty database.
LEMMA IndexerInitInv == Init => IndexerInv
<1> SUFFICES ASSUME Init PROVE IndexerInv
  OBVIOUS
<1> USE DEF Init
<1>1. ChainOK /\ tip \in Nat /\ tip >= 1
  BY ChainInitOK DEF ChainOK
<1>2. NoReply \in Replies
  BY <1>1 DEF NoReply, Replies
<1>3. NoRound \in Rounds /\ NoRound.pc = "idle"
  BY <1>1, <1>2 DEF NoRound, Rounds, Keys
<1>4. RoundInv
  BY <1>3 DEF RoundInv
<1>5. MetaInv
  BY DEF MetaInv
<1> QED
  BY <1>1, <1>4, <1>5, EventChainAssumption DEF IndexerInv, ChainOK

\* A round that is over says nothing.
LEMMA NoRoundInv ==
  ASSUME ChainOK
  PROVE  NoRound \in Rounds /\ NoRound.pc = "idle" /\ NoReply \in Replies
<1>1. NoReply \in Replies
  BY DEF NoReply, Replies, ChainOK
<1> QED
  BY <1>1 DEF NoRound, Rounds, Keys, ChainOK

\* Clearing the cursors keeps the rows true.
LEMMA ClearingKeeps ==
  ASSUME ChainOK, MetaInv, HasBootnode, meta' = CursorsCleared, UNCHANGED <<chain, raw>>
  PROVE  /\ MetaInv' /\ DOMAIN meta' = DOMAIN meta
         /\ \A c \in DOMAIN meta : meta'[c].last_fully_indexed = meta[c].last_fully_indexed
<1>1. DOMAIN meta' = DOMAIN meta
  BY DEF CursorsCleared
<1>2. \A p : Covered(p) => Covered(p)'
  BY CoveredGrows
<1>3. Rows' = Rows /\ NoCursor \in Keys
  BY DEF Rows, Keys, Cursors, tip
<1>4. ASSUME NEW c \in DOMAIN meta
      PROVE  /\ meta'[c] \in Rows /\ meta'[c].cursor = NoCursor
             /\ meta'[c].last_indexed = meta[c].last_indexed
             /\ meta'[c].last_fully_indexed = meta[c].last_fully_indexed
             /\ meta'[c] = [meta[c] EXCEPT !.cursor = NoCursor]
  <2>1. meta'[c] = [meta[c] EXCEPT !.cursor = NoCursor] /\ meta[c] \in Rows
    BY DEF CursorsCleared, MetaInv
  <2> QED
    BY <1>3, <2>1 DEF Rows
<1>5. ASSUME NEW c \in DOMAIN meta PROVE RowInv(meta[c])'
  <2>1. RowInv(meta[c])
    BY DEF MetaInv
  <2> QED
    BY <1>2, <1>4, <2>1 DEF RowInv
<1>6. \A c, d \in DOMAIN meta : meta[c] = meta[d]
  BY DEF MetaInv
<1>7. ASSUME NEW c \in DOMAIN meta, NEW d \in DOMAIN meta PROVE meta'[c] = meta'[d]
  <2>1. meta[c] = meta[d]
    BY <1>6
  <2>2. /\ meta'[c] = [meta[c] EXCEPT !.cursor = NoCursor]
        /\ meta'[d] = [meta[d] EXCEPT !.cursor = NoCursor]
    BY <1>4
  <2> QED
    BY <2>1, <2>2, Zenon
<1> QED
  <2>1. DOMAIN meta' = {} \/ DOMAIN meta' = Contract
    BY <1>1 DEF MetaInv
  <2>2. \A c \in DOMAIN meta' : meta'[c] \in Rows' /\ RowInv(meta[c])'
    BY <1>1, <1>3, <1>4, <1>5
  <2> QED
    BY <1>1, <1>4, <1>7, <2>1, <2>2 DEF MetaInv

\* Neither rows nor rounds speak of the failures, the retention or the mode.
LEMMA RowsStay ==
  ASSUME MetaInv, UNCHANGED <<chain, raw, meta>>
  PROVE  MetaInv'
<1>1. Rows' = Rows /\ \A row : RowInv(row)' = RowInv(row)
  BY DEF Rows, Keys, Cursors, tip, RowInv, Covered, Events
<1> QED
  BY <1>1 DEF MetaInv

\* What is defined from the chain stays as it is while the chain does.
LEMMA ChainStays ==
  ASSUME UNCHANGED chain
  PROVE  /\ tip' = tip /\ Cursors' = Cursors /\ Keys' = Keys /\ Replies' = Replies
         /\ Rows' = Rows /\ Rounds' = Rounds /\ (ChainOK => ChainOK')
         /\ Events(Contract)' = Events(Contract)
         /\ \A pos, r : Answers(pos, r)' = Answers(pos, r)
<1>1. tip' = tip /\ Events(Contract)' = Events(Contract)
  BY DEF tip, Events
<1>2. Cursors' = Cursors
  BY <1>1 DEF Cursors
<1>3. Keys' = Keys /\ Replies' = Replies
  BY <1>1, <1>2 DEF Keys, Replies
<1>4. Rows' = Rows /\ Rounds' = Rounds /\ (ChainOK => ChainOK')
  BY <1>1, <1>3 DEF Rows, Rounds, ChainOK
<1> QED
  BY <1>1, <1>2, <1>3, <1>4 DEF Answers

\* A round in progress stays sound when only rows are cleared.
LEMMA RoundStays ==
  ASSUME RoundInv, UNCHANGED <<chain, raw, round>>, DOMAIN meta' = DOMAIN meta,
         \A c \in DOMAIN meta : meta'[c].last_fully_indexed = meta[c].last_fully_indexed
  PROVE  RoundInv'
<1>1. /\ Position' = Position /\ Cursors' = Cursors /\ Rounds' = Rounds
      /\ \A pos, r : Answers(pos, r)' = Answers(pos, r)
  BY ChainStays DEF Position
<1>2. \A p : Covered(p)' = Covered(p)
  BY ChainStays DEF Covered
<1> QED
  BY <1>1, <1>2 DEF RoundInv

\* A round that ends keeps the invariant of rounds.
LEMMA RoundEnds ==
  ASSUME ChainOK, UNCHANGED chain, round' = NoRound
  PROVE  RoundInv'
<1>1. round' \in Rounds' /\ round'.pc = "idle"
  BY NoRoundInv, ChainStays
<1> QED
  BY <1>1 DEF RoundInv

\* The listener's start, its way back to the RPC and the steps of the environment
\* that leave the chain alone.
LEMMA ListenerKeeps ==
  ASSUME IndexerInv,
         events_listener \/ resume_on_rpc \/ forget \/ init_fails \/ request_fails \/ reopen
         \/ fetch_forgotten \/ bootnode_handoff
  PROVE  IndexerInv'
<1> USE DEF IndexerInv, dbVars
<1>1. UNCHANGED <<chain, raw>>
  BY DEF events_listener, resume_on_rpc, forget, init_fails, request_fails, reopen,
     fetch_forgotten, bootnode_handoff
<1>2. ChainOK' /\ tip' = tip /\ raw' \subseteq Events(Contract)'
  BY <1>1, ChainStays
<1>3. oldest' \in 1..MaxLedger /\ oldest' <= tip'
  <2>1. UNCHANGED oldest \/ (oldest' = oldest + 1 /\ oldest < tip)
    BY DEF events_listener, resume_on_rpc, forget, init_fails, request_fails, reopen,
       fetch_forgotten, bootnode_handoff
  <2>2. tip \in 1..MaxLedger /\ MaxLedger \in Nat
    BY EventChainAssumption DEF ChainOK
  <2> QED
    BY <1>2, <2>1, <2>2
<1>4. /\ mode' \in {"init", "rpc", "bootnode", "handoff", "stopped"}
      /\ mode' \in {"bootnode", "handoff"} => HasBootnode
  BY DEF events_listener, resume_on_rpc, forget, init_fails, request_fails, reopen,
     fetch_forgotten, bootnode_handoff
<1>5. \/ UNCHANGED meta \/ (meta' = CursorsCleared /\ HasBootnode)
  BY DEF events_listener, resume_on_rpc, forget, init_fails, request_fails, reopen,
     fetch_forgotten, bootnode_handoff
<1>6. UNCHANGED round \/ round' = NoRound
  BY DEF events_listener, resume_on_rpc, forget, init_fails, request_fails, reopen,
     fetch_forgotten, bootnode_handoff
<1>7. /\ MetaInv' /\ DOMAIN meta' = DOMAIN meta
      /\ \A c \in DOMAIN meta : meta'[c].last_fully_indexed = meta[c].last_fully_indexed
  BY <1>1, <1>5, RowsStay, ClearingKeeps
<1>8. RoundInv'
  BY <1>1, <1>6, <1>7, RoundStays, RoundEnds
<1> QED
  BY <1>2, <1>3, <1>4, <1>7, <1>8

\* A round starts at the next position.
LEMMA BeginKeeps ==
  ASSUME IndexerInv, begin_round
  PROVE  IndexerInv'
<1> USE DEF IndexerInv
<1>1. /\ UNCHANGED <<chain, oldest, failures, raw, meta, mode>>
      /\ round' = [pc |-> "fetch", start |-> start_ledger, cursor |-> stored_cursor, page |-> 1,
                   reply |-> NoReply]
  BY DEF begin_round, dbVars
<1>2. ChainOK' /\ tip' = tip /\ MetaInv' /\ Rounds' = Rounds /\ Cursors' = Cursors
      /\ raw' \subseteq Events(Contract)'
  BY <1>1, ChainStays, RowsStay
<1>3. /\ NextPosition \in Cursors /\ Covered(NextPosition)
      /\ WholeScan => \A c \in DOMAIN meta : meta[c].last_fully_indexed <= NextPosition[1]
      /\ start_ledger \in 1..tip /\ stored_cursor \in Keys
  BY NextIsCovered
<1>4. round' \in Rounds
  <2>1. start_ledger \in 0..tip
    BY <1>3
  <2> QED
    BY <1>1, <1>3, <2>1, NoRoundInv DEF Rounds
<1>5. Position' = NextPosition /\ round'.pc = "fetch"
  BY <1>1 DEF Position, NextPosition
<1>6. Covered(Position)'
  BY <1>1, <1>3, <1>5, ChainStays DEF Covered
<1>7. RoundInv'
  BY <1>1, <1>2, <1>3, <1>4, <1>5, <1>6 DEF RoundInv
<1> QED
  BY <1>1, <1>2, <1>7

\* The round holds a reply that answers its position.
LEMMA FetchKeeps ==
  ASSUME IndexerInv, fetch_rpc \/ fetch_bootnode
  PROVE  IndexerInv'
<1> USE DEF IndexerInv
<1>1. /\ UNCHANGED <<chain, oldest, failures, raw, meta, mode>> /\ round.pc = "fetch"
  BY DEF fetch_rpc, fetch_bootnode, dbVars
<1>2. ChainOK' /\ tip' = tip /\ MetaInv' /\ Rounds' = Rounds /\ Cursors' = Cursors
      /\ raw' \subseteq Events(Contract)'
      /\ \A pos, r : Answers(pos, r)' = Answers(pos, r)
  BY <1>1, ChainStays, RowsStay
<1>3. round \in Rounds /\ Position \in Cursors /\ Covered(Position)
  BY <1>1 DEF RoundInv
<1>4. tip \in Nat /\ tip >= 1 /\ tip <= MaxLedger /\ MaxLedger \in Nat
      /\ Window \in Nat \ {0} /\ Position[1] \in Nat /\ Position[1] >= 1
  BY <1>3, CursorFields, EventChainAssumption DEF ChainOK
<1>5. \/ round' = NoRound
      \/ \E r \in Replies : /\ round' = [round EXCEPT !.pc = "save", !.reply = r]
                            /\ Answers(Position, r) /\ r.latest >= 1
                            /\ WholeScan /\ r.events = {} => r.cursor = <<r.latest + 1, 0>>
  <2>1. CASE fetch_rpc
    <3> DEFINE r == PageOf(Contract, Position, tip, Window)
    <3>1. /\ r \in Replies /\ r.latest = tip /\ Answers(Position, r)
          /\ Position[1] + Window > tip /\ r.events = {} => r.cursor = <<tip + 1, 0>>
      <4>1. tip \in 1..tip
        BY <1>4
      <4> QED
        BY <1>3, <1>4, <4>1, PageAnswers
    <3> HIDE DEF r
    <3>2. WholeScan => Position[1] + Window > tip
      BY <1>4 DEF WholeScan
    <3>3. round' = NoRound \/ round' = [round EXCEPT !.pc = "save", !.reply = r]
      BY <2>1 DEF fetch_rpc, r
    <3>4. /\ Answers(Position, r) /\ r.latest >= 1
          /\ WholeScan /\ r.events = {} => r.cursor = <<r.latest + 1, 0>>
      BY <1>4, <3>1, <3>2
    <3> QED
      BY <3>1, <3>3, <3>4, Zenon
  <2>2. CASE fetch_bootnode
    <3>1. PICK r \in BootnodePages(Position) : round' = [round EXCEPT !.pc = "save", !.reply = r]
      BY <2>2 DEF fetch_bootnode
    <3>2. PICK t \in 1..tip : r = PageOf(Contract, Position, t, Window) /\ r.events # {}
      BY <3>1 DEF BootnodePages
    <3>3. r \in Replies /\ r.latest = t /\ Answers(Position, r)
      BY <1>3, <1>4, <3>2, PageAnswers
    <3>4. /\ Answers(Position, r) /\ r.latest >= 1
          /\ WholeScan /\ r.events = {} => r.cursor = <<r.latest + 1, 0>>
      BY <1>4, <3>2, <3>3
    <3> QED
      BY <3>1, <3>3, <3>4, Zenon
  <2> QED
    BY <2>1, <2>2
<1>6. CASE round' = NoRound
  BY <1>1, <1>2, <1>6, RoundEnds
<1>7. CASE round' # NoRound
  <2>1. PICK r \in Replies : /\ round' = [round EXCEPT !.pc = "save", !.reply = r]
                             /\ Answers(Position, r) /\ r.latest >= 1
                             /\ WholeScan /\ r.events = {} => r.cursor = <<r.latest + 1, 0>>
    BY <1>5, <1>7
  <2>2. /\ round'.pc = "save" /\ round'.cursor = round.cursor /\ round'.start = round.start
        /\ round'.reply = r /\ round' \in Rounds
    BY <1>3, <2>1 DEF Rounds
  <2>3. Position' = Position
    BY <2>2 DEF Position
  <2>4. Covered(Position)'
    BY <1>1, <1>3, <2>3, ChainStays DEF Covered
  <2>5. WholeScan => \A c \in DOMAIN meta : meta[c].last_fully_indexed <= Position[1]
    BY <1>1 DEF RoundInv
  <2>6. RoundInv'
    BY <1>1, <1>2, <1>3, <2>1, <2>2, <2>3, <2>4, <2>5 DEF RoundInv
  <2> QED
    BY <1>1, <1>2, <2>6
<1> QED
  BY <1>6, <1>7

\* The page is stored before its progress.
LEMMA SaveKeeps ==
  ASSUME IndexerInv, save_events_batch
  PROVE  IndexerInv'
<1> USE DEF IndexerInv
<1>1. /\ UNCHANGED <<chain, oldest, failures, meta, mode>> /\ round.pc = "save"
      /\ raw' = raw \union round.reply.events
      /\ round' = [round EXCEPT !.pc = "progress"]
  BY DEF save_events_batch
<1>2. ChainOK' /\ tip' = tip /\ Rounds' = Rounds /\ Cursors' = Cursors /\ Rows' = Rows
      /\ Events(Contract)' = Events(Contract)
      /\ \A pos, r : Answers(pos, r)' = Answers(pos, r)
  BY <1>1, ChainStays
<1>3. /\ round \in Rounds /\ Position \in Cursors /\ Covered(Position)
      /\ Answers(Position, round.reply) /\ round.reply.latest >= 1
      /\ WholeScan /\ round.reply.events = {} =>
           round.reply.cursor = <<round.reply.latest + 1, 0>>
      /\ WholeScan => \A c \in DOMAIN meta : meta[c].last_fully_indexed <= Position[1]
  BY <1>1 DEF RoundInv
<1>4. /\ round'.pc = "progress" /\ round'.reply = round.reply /\ round'.cursor = round.cursor
      /\ round'.start = round.start /\ round' \in Rounds
  BY <1>1, <1>3 DEF Rounds
<1>5. Position' = Position
  BY <1>4 DEF Position
<1>6. \A p : Covered(p) => Covered(p)'
  BY <1>1, CoveredGrows
<1>7. Covered(round.reply.cursor)'
  <2>1. \A e \in Events(Contract) :
          Lossless /\ Before(e, round.reply.cursor) => e \in raw'
    BY <1>1, <1>3 DEF Covered, Answers
  <2> QED
    BY <1>2, <1>4, <2>1 DEF Covered
<1>8. MetaInv'
  <2>1. \A row : RowInv(row) => RowInv(row)'
    BY <1>6 DEF RowInv
  <2> QED
    BY <1>1, <1>2, <2>1 DEF MetaInv
<1>9. Covered(Position)'
  BY <1>3, <1>5, <1>1 DEF Covered, Events, tip
<1>10. RoundInv'
  BY <1>1, <1>2, <1>3, <1>4, <1>5, <1>7, <1>9 DEF RoundInv
<1>11. raw' \subseteq Events(Contract)'
  BY <1>1, <1>2, <1>3 DEF Answers
<1> QED
  BY <1>1, <1>2, <1>8, <1>10, <1>11

\* The ledger that a page's progress stands for lies behind its cursor.
LEMMA ProgressIsBehind ==
  ASSUME ChainOK, NEW pos \in Cursors, NEW r \in Replies, Answers(pos, r), r.latest >= 1
  PROVE  /\ progress_ledger(r) \in 1..tip
         /\ r.events # {} => /\ pos[1] <= progress_ledger(r)
                             /\ progress_ledger(r) <= r.cursor[1]
         /\ r.events = {} => progress_ledger(r) = r.latest
         /\ pos[1] <= r.cursor[1]
<1>1. /\ tip \in Nat /\ pos[1] \in Nat /\ pos[2] \in Nat /\ r.cursor \in Cursors
      /\ r.cursor[1] \in Nat /\ r.cursor[2] \in Nat
  BY CursorFields DEF ChainOK, Answers
<1>2. pos[1] <= r.cursor[1]
  BY <1>1 DEF Answers, Before
<1>3. CASE r.events = {}
  BY <1>1, <1>2, <1>3 DEF progress_ledger, Replies
<1>4. CASE r.events # {}
  <2> DEFINE T == {e[1] : e \in r.events}
  <2>1. \A e \in r.events : /\ e \in Events(Contract) /\ ~ Before(e, pos) /\ Before(e, r.cursor)
                            /\ e[1] \in 1..tip /\ e[2] \in Nat
    BY EventFields, EventChainAssumption DEF Answers
  <2>2. T \subseteq 0..tip /\ T # {}
    BY <1>1, <1>4, <2>1
  <2>3. Max(T) \in T
    BY <1>1, <2>2, MaxIsMember
  <2>4. PICK e \in r.events : Max(T) = e[1]
    BY <2>3
  <2>5. progress_ledger(r) = e[1]
    BY <1>4, <2>4 DEF progress_ledger
  <2>6. e[1] \in Nat /\ pos[1] <= e[1] /\ e[1] <= r.cursor[1]
    BY <1>1, <2>1, <2>4 DEF Before
  <2> QED
    BY <1>2, <1>4, <2>1, <2>5, <2>6
<1> QED
  BY <1>3, <1>4

\* The progress that is stored is true: the page is already there.
LEMMA ProgressKeeps ==
  ASSUME IndexerInv, save_sync_progress
  PROVE  IndexerInv'
<1> USE DEF IndexerInv
<1> DEFINE p == progress_ledger(round.reply)
           Fully(c) == CASE fully_indexed(round.reply) -> p
                         [] ~ fully_indexed(round.reply) /\ c \in DOMAIN meta
                              -> meta[c].last_fully_indexed
                         [] OTHER -> 0
<1>1. /\ UNCHANGED <<chain, oldest, failures, raw, mode>> /\ round.pc = "progress"
      /\ meta' = [c \in Contract |-> [cursor |-> round.reply.cursor, last_indexed |-> p,
                                      last_fully_indexed |-> Fully(c)]]
      /\ \/ round' = NoRound
         \/ /\ round.reply.events # {}
            /\ round' = [pc |-> "fetch", start |-> round.start, cursor |-> round.reply.cursor,
                         page |-> round.page + 1, reply |-> NoReply]
  BY DEF save_sync_progress
<1>2. /\ ChainOK' /\ tip' = tip /\ Rounds' = Rounds /\ Cursors' = Cursors /\ Rows' = Rows
      /\ Events(Contract)' = Events(Contract)
  BY <1>1, ChainStays
<1>3. /\ round \in Rounds /\ Position \in Cursors /\ Answers(Position, round.reply)
      /\ round.reply.latest >= 1 /\ Covered(round.reply.cursor)
      /\ WholeScan /\ round.reply.events = {} =>
           round.reply.cursor = <<round.reply.latest + 1, 0>>
      /\ WholeScan => \A c \in DOMAIN meta : meta[c].last_fully_indexed <= Position[1]
  BY <1>1 DEF RoundInv
<1>r. PICK r \in Replies : r = round.reply
  BY <1>3 DEF Rounds
<1>4. /\ p \in 1..tip /\ tip \in Nat /\ r.cursor \in Cursors /\ r.cursor # NoCursor
      /\ r.cursor[1] \in Nat /\ r.cursor[2] \in Nat /\ Position[1] \in Nat
      /\ r.events # {} => Position[1] <= p /\ p <= r.cursor[1]
      /\ r.events = {} => p = r.latest
      /\ Position[1] <= r.cursor[1]
  <2>1. r.cursor \in Cursors
    BY <1>3, <1>r DEF Answers
  <2> QED
    BY <1>3, <1>r, <2>1, ProgressIsBehind, CursorFields DEF ChainOK
<1>5. \A q : Covered(q)' = Covered(q)
  BY <1>1, <1>2 DEF Covered
<1>6. \A e \in Events(Contract) : e[1] \in Nat /\ e[2] \in Nat /\ e[2] >= 1
  BY EventFields, EventChainAssumption
<1>7. Covered(<<p, 0>>) \/ ~ WholeScan
  BY <1>3, <1>4, <1>6, <1>r DEF Covered, Before
<1>8. PICK m \in 1..tip : m = p
  BY <1>4
<1>9. PICK F : F = [c \in Contract |-> Fully(c)]
  OBVIOUS
<1>10. ASSUME NEW c \in Contract
       PROVE  /\ F[c] \in 0..tip
              /\ WholeScan => /\ Covered(<<F[c] + 1, 0>>) /\ F[c] <= m /\ F[c] <= r.cursor[1]
                              /\ r.events # {} => F[c] <= Position[1]
  <2>1. F[c] = Fully(c)
    BY <1>9
  <2>2. CASE r.events = {}
    <3>1. F[c] = m
      BY <1>8, <1>r, <2>1, <2>2 DEF fully_indexed
    <3>2. WholeScan => r.cursor = <<m + 1, 0>> /\ Covered(<<m + 1, 0>>) /\ m <= r.cursor[1]
      BY <1>3, <1>4, <1>8, <1>r, <2>2
    <3> QED
      BY <1>4, <2>2, <3>1, <3>2
  <2>3. CASE r.events # {} /\ c \in DOMAIN meta
    <3>1. F[c] = meta[c].last_fully_indexed
      BY <1>r, <2>1, <2>3 DEF fully_indexed
    <3>2. meta[c] \in Rows /\ RowInv(meta[c])
      BY <2>3 DEF MetaInv
    <3>3. F[c] \in 0..tip /\ (WholeScan => Covered(<<F[c] + 1, 0>>))
      BY <3>1, <3>2 DEF Rows, RowInv
    <3>4. WholeScan => F[c] <= Position[1]
      BY <1>3, <2>3, <3>1
    <3> QED
      BY <1>4, <1>8, <2>3, <3>3, <3>4
  <2>4. CASE r.events # {} /\ c \notin DOMAIN meta
    <3>1. F[c] = 0
      BY <1>r, <2>1, <2>4 DEF fully_indexed
    <3>2. Covered(<<0 + 1, 0>>)
      BY StartIsBehindAll DEF Covered
    <3> QED
      BY <1>4, <1>8, <3>1, <3>2
  <2> QED
    BY <2>2, <2>3, <2>4
<1>11. \A c, d \in Contract : F[c] = F[d]
  <2> SUFFICES ASSUME NEW c \in Contract, NEW d \in Contract PROVE F[c] = F[d]
    OBVIOUS
  <2>1. F[c] = Fully(c) /\ F[d] = Fully(d)
    BY <1>9
  <2>2. DOMAIN meta = {} \/ DOMAIN meta = Contract
    BY DEF MetaInv
  <2>3. c \in DOMAIN meta /\ d \in DOMAIN meta => meta[c] = meta[d]
    BY DEF MetaInv
  <2> QED
    BY <2>1, <2>2, <2>3
<1>12. meta' = [c \in Contract |-> [cursor |-> r.cursor, last_indexed |-> m,
                                   last_fully_indexed |-> F[c]]]
  BY <1>1, <1>8, <1>9, <1>r
<1> HIDE DEF p, Fully
<1>13. ASSUME NEW c \in Contract
       PROVE  meta'[c] \in Rows /\ RowInv(meta[c])'
  <2>1. /\ meta'[c] \in Rows /\ meta'[c].cursor = r.cursor /\ meta'[c].last_indexed = m
        /\ meta'[c].last_fully_indexed = F[c]
    BY <1>4, <1>8, <1>10, <1>12 DEF Rows, Keys
  <2>2. Covered(r.cursor)' /\ (WholeScan => Covered(<<m, 0>>)')
    BY <1>3, <1>5, <1>7, <1>8, <1>r
  <2>3. WholeScan => Covered(<<F[c] + 1, 0>>)'
    BY <1>5, <1>10
  <2> QED
    BY <1>4, <1>10, <2>1, <2>2, <2>3 DEF RowInv
<1>14. MetaInv'
  <2>1. DOMAIN meta' = Contract
    BY <1>12
  <2>2. \A c, d \in Contract : meta'[c] = meta'[d]
    BY <1>11, <1>12
  <2> QED
    BY <1>2, <1>13, <2>1, <2>2 DEF MetaInv
<1>15. RoundInv'
  <2>1. CASE round' = NoRound
    BY <1>1, <2>1, RoundEnds
  <2>2. CASE round' # NoRound
    <3>1. /\ r.events # {}
          /\ round' = [pc |-> "fetch", start |-> round.start, cursor |-> r.cursor,
                       page |-> round.page + 1, reply |-> NoReply]
      BY <1>1, <1>r, <2>2
    <3>2. round' \in Rounds /\ round'.pc = "fetch" /\ round'.cursor = r.cursor
      BY <1>3, <1>4, <3>1, NoRoundInv DEF Rounds, Keys
    <3>3. Position' = r.cursor
      BY <1>4, <3>2 DEF Position
    <3>4. Covered(Position)'
      BY <1>2, <1>1, <1>3, <1>r, <3>3 DEF Covered
    <3>5. WholeScan => \A c \in DOMAIN meta' : meta'[c].last_fully_indexed <= r.cursor[1]
      BY <1>10, <1>12
    <3> QED
      BY <1>2, <1>4, <3>2, <3>3, <3>4, <3>5 DEF RoundInv
  <2> QED
    BY <2>1, <2>2
<1> QED
  BY <1>1, <1>2, <1>14, <1>15

\* A ledger closes: everything it adds lies ahead of rows and rounds.
LEMMA CloseKeeps ==
  ASSUME IndexerInv, close_ledger
  PROVE  IndexerInv'
<1> USE DEF IndexerInv
<1>1. ChainGrows /\ UNCHANGED <<oldest, failures, raw, meta, mode, round>>
  BY DEF close_ledger, dbVars
<1>2. /\ ChainOK' /\ tip' = tip + 1 /\ tip \in Nat /\ Cursors \subseteq Cursors'
      /\ Events(Contract) \subseteq Events(Contract)'
  BY <1>1, GrowthIsAhead DEF ChainOK
<1>3. \A q \in Cursors : Covered(q) => Covered(q)'
  BY <1>1, CoveredStays
<1>4. Keys \subseteq Keys'
  BY <1>2 DEF Keys
<1>5. Rows \subseteq Rows'
  BY <1>2, <1>4 DEF Rows
<1>6. ASSUME NEW row \in Rows, RowInv(row) PROVE RowInv(row)'
  <2>1. <<row.last_indexed, 0>> \in Cursors /\ <<row.last_fully_indexed + 1, 0>> \in Cursors
    BY RowPositions
  <2>2. row.cursor # NoCursor => row.cursor \in Cursors
    BY DEF Rows, Keys
  <2> QED
    BY <1>3, <1>6, <2>1, <2>2 DEF RowInv
<1>7. MetaInv'
  BY <1>1, <1>5, <1>6 DEF MetaInv
<1>8. RoundInv'
  <2>1. Position' = Position
    BY <1>1 DEF Position
  <2>2. round \in Rounds /\ round.reply \in Replies
    BY DEF RoundInv, Rounds
  <2>3. round.reply \in Replies'
    BY <1>1, <1>2, <2>2 DEF Replies
  <2>4. round \in Rounds'
    BY <1>2, <1>4, <2>2, <2>3 DEF Rounds
  <2>5. round.pc # "idle" => Position \in Cursors /\ Covered(Position)'
    BY <1>1, <1>2, <1>3, <2>1 DEF RoundInv, Covered
  <2>6. round.pc \in {"save", "progress"} =>
          Answers(Position, round.reply)' /\ round.reply.cursor \in Cursors
    <3> SUFFICES ASSUME round.pc \in {"save", "progress"}
                 PROVE  Answers(Position, round.reply)' /\ round.reply.cursor \in Cursors
      OBVIOUS
    <3>1. Position \in Cursors /\ Answers(Position, round.reply) /\ round.reply.cursor \in Cursors
      BY DEF RoundInv, Answers
    <3>2. PICK q \in Cursors, r \in Replies : q = Position /\ r = round.reply
      BY <2>2, <3>1
    <3>3. Answers(q, r)'
      BY <1>1, <3>1, <3>2, AnswersStay
    <3> QED
      BY <1>1, <2>1, <3>1, <3>2, <3>3
  <2>7. round.pc = "progress" => Covered(round.reply.cursor)'
    <3> SUFFICES ASSUME round.pc = "progress" PROVE Covered(round.reply.cursor)'
      OBVIOUS
    <3>1. round.reply.cursor \in Cursors /\ Covered(round.reply.cursor)
      BY <2>6 DEF RoundInv
    <3>2. PICK q \in Cursors : q = round.reply.cursor
      BY <3>1
    <3>3. Covered(q)'
      BY <1>3, <3>1, <3>2
    <3> QED
      BY <1>1, <3>2, <3>3
  <2> QED
    BY <1>1, <1>2, <2>1, <2>4, <2>5, <2>6, <2>7 DEF RoundInv
<1>9. oldest' \in 1..MaxLedger /\ oldest' <= tip'
  BY <1>1, <1>2, EventChainAssumption
<1> QED
  BY <1>1, <1>2, <1>7, <1>8, <1>9

\* The invariant of the indexer holds in every reachable state, whatever the window.
THEOREM IndexerInvariant == Spec => []IndexerInv
<1>1. IndexerInv /\ [Next]_vars => IndexerInv'
  <2> SUFFICES ASSUME IndexerInv, [Next]_vars PROVE IndexerInv'
    OBVIOUS
  <2>1. CASE UNCHANGED vars
    <3>1. UNCHANGED <<chain, oldest, raw, meta, mode, round>>
      BY <2>1 DEF vars, dbVars
    <3>2. MetaInv' /\ RoundInv'
      BY <3>1, RowsStay, RoundStays DEF IndexerInv
    <3> QED
      BY <3>1, <3>2, ChainStays DEF IndexerInv
  <2> QED
    BY <2>1, ListenerKeeps, BeginKeeps, FetchKeeps, SaveKeeps, ProgressKeeps, CloseKeeps
    DEF Next, Indexing
<1> QED
  BY <1>1, IndexerInitInv, PTL DEF Spec

\* No event is skipped for good: an indexer that reads one RPC loses nothing,
\* whatever the window, page size and failures, and one that turns to a bootnode
\* loses nothing when a call scans to the tip.
THEOREM IndexerLosesNothing ==
  ASSUME HasBootnode => WholeScan
  PROVE  Spec => []NoEventLost
<1>1. IndexerInv => NoEventLost
  <2> SUFFICES ASSUME IndexerInv PROVE NoEventLost
    OBVIOUS
  <2>1. Covered(NextPosition)
    BY NextIsCovered DEF IndexerInv
  <2> QED
    BY <2>1 DEF NoEventLost, NextPosition, Covered, Lossless
<1> QED
  BY <1>1, IndexerInvariant, PTL

\* The rows of indexing_metadata, the stored events and the round stay in their
\* types, and no row speaks of a ledger past the tip, bounded windows included.
THEOREM IndexerTypes == Spec => []TypeOK
<1>1. IndexerInv => TypeOK
  <2> SUFFICES ASSUME IndexerInv PROVE TypeOK
    OBVIOUS
  <2> USE DEF IndexerInv
  <2>1. tip \in Nat /\ tip <= MaxLedger /\ MaxLedger \in Nat
    BY EventChainAssumption DEF ChainOK
  <2>2. ASSUME NEW c \in DOMAIN meta
        PROVE  /\ meta[c].cursor \in {NoCursor} \union ((1..(tip + 1)) \X Nat)
               /\ meta[c].last_indexed \in 1..tip
               /\ meta[c].last_fully_indexed \in 0..tip
    <3>1. meta[c] \in Rows
      BY DEF MetaInv
    <3>2. Cursors \subseteq (1..(tip + 1)) \X Nat
      BY <2>1, EventChainAssumption DEF Cursors
    <3> QED
      BY <3>1, <3>2 DEF Rows, Keys
  <2>3. round.pc \in {"idle", "fetch", "save", "progress"}
    BY DEF RoundInv, Rounds
  <2>4. DOMAIN meta \subseteq Contract /\ oldest \in 1..(MaxLedger + 1)
    BY <2>1 DEF MetaInv
  <2> QED
    BY <2>2, <2>3, <2>4 DEF TypeOK
<1> QED
  BY <1>1, IndexerInvariant, PTL
=============================================================================
