----------------------------- MODULE EventChain -----------------------------
(***************************************************************************)
(* The event stream of the deployment as the readers of a Soroban RPC see  *)
(* it: closed ledgers, the contracts that emitted their events, and the    *)
(* pages of getEvents.  Indexer, Bootnode and ProverApi read it.           *)
(*                                                                         *)
(* A position <<l, k>> stands for a cursor: the first k events of ledger l *)
(* and all earlier ones lie behind it.                                     *)
(***************************************************************************)
EXTENDS Naturals, Sequences, FiniteSets, FiniteSetsExt

CONSTANTS
  Contract,       \* contracts the deployment enables, in order of row id
  PageSize,       \* PAGE_SIZE, the limit of a request
  Window,         \* ledgers an RPC scans in one call
  NoCursor,       \* no cursor
  MaxLedger,      \* bound: ledgers closed
  MaxPerLedger    \* bound: events in one ledger

ASSUME EventChainAssumption ==
  /\ Contract \subseteq Nat
  /\ {PageSize, Window} \subseteq Nat \ {0}
  /\ NoCursor \notin Nat \X Nat
  /\ MaxLedger \in Nat \ {0} /\ MaxPerLedger \in Nat

VARIABLE chain    \* chain[l]: the contracts that emitted the events of ledger l

-----------------------------------------------------------------------------
Ledgers == UNION {[1..n -> Contract] : n \in 0..MaxPerLedger}

tip == Len(chain)

Before(p, q) == p[1] < q[1] \/ (p[1] = q[1] /\ p[2] <= q[2])

\* The events of some contracts.
Events(S) == {e \in (1..tip) \X (1..MaxPerLedger) :
                e[2] <= Len(chain[e[1]]) /\ chain[e[1]][e[2]] \in S}

\* The last ledger that a scan of `window` ledgers from a position looks at.
scanned_to(pos, t, window) ==
  IF pos[1] + window - 1 < t THEN pos[1] + window - 1 ELSE t

\* The events of some contracts after a position, up to a ledger.
AfterOf(S, pos, last) == {e \in Events(S) : e[1] <= last /\ ~ Before(e, pos)}

\* Where a scan stops: at the event that fills the page, or behind the last ledger
\* it looked at.
StopsAt(S, pos, t, window) ==
  LET last == scanned_to(pos, t, window)
      all  == AfterOf(S, pos, last)
      fills(e) == Cardinality({d \in all : Before(d, e)}) = PageSize
  IN  IF \E e \in all : fills(e) THEN CHOOSE e \in all : fills(e)
      ELSE IF pos[1] > t THEN pos
      ELSE <<last + 1, 0>>

\* What the RPC's getEvents answered for some contracts when t was the tip: the
\* events from the position up to where the scan stopped.
PageOf(S, pos, t, window) ==
  LET stop == StopsAt(S, pos, t, window)
  IN  [ events |-> {e \in AfterOf(S, pos, scanned_to(pos, t, window)) : Before(e, stop)},
        cursor |-> stop,
        latest |-> t ]

-----------------------------------------------------------------------------
\* Ledger 1 is the deployment ledger.
ChainInit == chain \in {<<l>> : l \in Ledgers}

\* Consensus closes the next ledger.
ChainGrows ==
  /\ tip < MaxLedger
  /\ \E l \in Ledgers : chain' = Append(chain, l)
=============================================================================
