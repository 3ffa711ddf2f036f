------------------------------ MODULE Relayer -------------------------------
(***************************************************************************)
(* The HTTP relayer.  Handlers take a lock, look the request up in a cache *)
(* of answers, read the account's sequence number, simulate, sign and      *)
(* submit, while ledgers close, clients disconnect and the process         *)
(* restarts.  A transaction is a request body and a sequence number.       *)
(***************************************************************************)
EXTENDS Naturals, Sequences, FiniteSets, Functions

CONSTANTS
  Handlers,   \* tasks that serve POST /relay
  Bodies,     \* request bodies, one for each fingerprint
  NoteOf,     \* NoteOf[b]: the note that body b spends
  MaxSeq,     \* bound: sequence numbers used
  None        \* no holder, no transaction, no answer

ASSUME RelayerAssumption ==
  /\ MaxSeq \in Nat
  /\ NoteOf \in [Bodies -> Range(NoteOf)]
  /\ None \notin Handlers \union Bodies

VARIABLES
  pc,           \* where each handler is
  body,         \* the request it serves
  seq,          \* the sequence number it read
  lock,         \* holder of sequence_lock
  relay_cache,  \* body to transaction
  answer,       \* the last answer of each handler
  account,      \* the account's sequence number on the ledger
  queue,        \* the account's transaction in the network's queue
  taken,        \* transactions the network took
  spent,        \* notes spent on the ledger
  elsewhere,    \* those spent by transactions of others
  failed        \* transactions that were charged and failed

handlerVars == <<pc, body, seq, lock, relay_cache, answer>>
chainVars == <<account, queue, taken, spent, elsewhere, failed>>
relayerVars == <<handlerVars, chainVars>>

Tx == Bodies \X (1..MaxSeq)

RelayerInit ==
  /\ pc = [h \in Handlers |-> "idle"]
  /\ body = [h \in Handlers |-> None]
  /\ seq = [h \in Handlers |-> 0]
  /\ lock = None
  /\ relay_cache = [b \in {} |-> None]
  /\ answer = [h \in Handlers |-> None]
  /\ account = 0 /\ queue = None /\ taken = {} /\ spent = {} /\ elsewhere = {} /\ failed = {}

-----------------------------------------------------------------------------
(* The network.                                                            *)

\* simulateTransaction runs the call on the last ledger.
Simulates(b) == NoteOf[b] \notin spent

\* The status of sendTransaction: one transaction of an account at a time.
Status(tx) ==
  CASE queue = tx                             -> "DUPLICATE"
    [] queue # tx /\ queue # None             -> "TRY_AGAIN_LATER"
    [] queue = None /\ tx[2] # account + 1    -> "ERROR"
    [] queue = None /\ tx[2] = account + 1    -> "PENDING"

Enqueue(tx) ==
  IF Status(tx) = "PENDING"
  THEN queue' = tx /\ taken' = taken \union {tx}
  ELSE UNCHANGED <<queue, taken>>

\* The queued transaction is applied: it is charged, and fails when its note
\* has been spent since.
close_ledger ==
  /\ queue # None
  /\ account' = account + 1
  /\ queue' = None
  /\ spent' = spent \union {NoteOf[queue[1]]}
  /\ failed' = IF Simulates(queue[1]) THEN failed ELSE failed \union {queue}
  /\ UNCHANGED <<handlerVars, taken, elsewhere>>

\* The queue lets a transaction go.
expire ==
  /\ queue # None
  /\ queue' = None
  /\ UNCHANGED <<handlerVars, account, taken, spent, elsewhere, failed>>

\* An owner spends a note without the relayer.
spend_elsewhere ==
  /\ \E b \in Bodies : /\ Simulates(b)
                       /\ spent' = spent \union {NoteOf[b]}
                       /\ elsewhere' = elsewhere \union {NoteOf[b]}
  /\ UNCHANGED <<handlerVars, account, queue, taken, failed>>

-----------------------------------------------------------------------------
(* The handler.                                                            *)

\* The guard of the lock is dropped.
Released(h) == IF lock = h THEN None ELSE lock

Ends(h, result) ==
  /\ pc' = [pc EXCEPT ![h] = "idle"]
  /\ body' = [body EXCEPT ![h] = None]
  /\ seq' = [seq EXCEPT ![h] = 0]
  /\ lock' = Released(h)
  /\ answer' = [answer EXCEPT ![h] = result]

Submitted(tx) == [hash |-> tx]

\* From<anyhow::Error> looks at the outermost context of an error alone.
RelayerError(chain) ==
  CASE Head(chain) = "txBAD_SEQ"         -> [error |-> "BadSequence"]
    [] Head(chain) = "account not found" -> [error |-> "RelayerAccountNotFound"]
    [] OTHER                             -> [error |-> "Internal"]

\* submit_tx puts its own context around the error of sendTransaction.
SendError(cause) == <<"sendTransaction failed", cause>>

request(h) ==
  /\ pc[h] = "idle"
  /\ \E b \in Bodies : body' = [body EXCEPT ![h] = b]
  /\ pc' = [pc EXCEPT ![h] = "waiting"]
  /\ answer' = [answer EXCEPT ![h] = None]
  /\ UNCHANGED <<seq, lock, relay_cache, chainVars>>

\* Mutant: the lock is not waited for.
CanLock_Mutant(h) == TRUE

CanLock(h) == lock = None

\* The lock, and the answer given before if there is one.
sequence_lock(h) ==
  /\ pc[h] = "waiting"
  /\ CanLock(h)
  /\ IF body[h] \in DOMAIN relay_cache
     THEN Ends(h, Submitted(relay_cache[body[h]]))
     ELSE /\ lock' = h
          /\ pc' = [pc EXCEPT ![h] = "prepare"]
          /\ UNCHANGED <<body, seq, answer>>
  /\ UNCHANGED <<relay_cache, chainVars>>

\* next_sequence of the ledger's account; a queued transaction does not count.
account_sequence(h) ==
  /\ pc[h] = "prepare" /\ account < MaxSeq
  /\ seq' = [seq EXCEPT ![h] = account + 1]
  /\ pc' = [pc EXCEPT ![h] = "simulate"]
  /\ UNCHANGED <<body, lock, relay_cache, answer, chainVars>>

simulate_transaction(h) ==
  /\ pc[h] = "simulate"
  /\ IF Simulates(body[h])
     THEN pc' = [pc EXCEPT ![h] = "signed"] /\ UNCHANGED <<body, seq, lock, answer>>
     ELSE Ends(h, [error |-> "SimulationRejected"])
  /\ UNCHANGED <<relay_cache, chainVars>>

\* Mutant: the sequence number is read again when the transaction is signed.
Signed_Mutant(h) == <<body[h], account + 1>>

Signed(h) == <<body[h], seq[h]>>

\* submit_tx: every status but ERROR is a success, and its hash is cached.
submit_tx(h) ==
  /\ pc[h] = "signed"
  /\ Enqueue(Signed(h))
  /\ IF Status(Signed(h)) = "ERROR"
     THEN Ends(h, RelayerError(SendError("txBAD_SEQ"))) /\ UNCHANGED relay_cache
     ELSE /\ Ends(h, Submitted(Signed(h)))
          /\ relay_cache' = [b \in DOMAIN relay_cache \union {body[h]} |->
                               IF b = body[h] THEN Signed(h) ELSE relay_cache[b]]
  /\ UNCHANGED <<account, spent, elsewhere, failed>>

\* The transaction reaches the network but its response does not come back.
response_lost(h) ==
  /\ pc[h] = "signed"
  /\ Enqueue(Signed(h))
  /\ Ends(h, RelayerError(SendError("timeout")))
  /\ UNCHANGED <<relay_cache, account, spent, elsewhere, failed>>

\* A request to the RPC fails.
request_fails(h) ==
  /\ pc[h] \in {"prepare", "simulate", "signed"}
  /\ Ends(h, RelayerError(<<"timeout">>))
  /\ UNCHANGED <<relay_cache, chainVars>>

\* The client disconnects: the task is dropped where it waits, which may be
\* for the response to a transaction that the network has.
disconnect(h) ==
  /\ pc[h] # "idle"
  /\ Ends(h, None)
  /\ \/ UNCHANGED <<queue, taken>>
     \/ pc[h] = "signed" /\ Status(Signed(h)) = "PENDING" /\ Enqueue(Signed(h))
  /\ UNCHANGED <<relay_cache, account, spent, elsewhere, failed>>

\* The process restarts: nothing of it is kept.
restart ==
  /\ pc' = [h \in Handlers |-> "idle"]
  /\ body' = [h \in Handlers |-> None]
  /\ seq' = [h \in Handlers |-> 0]
  /\ lock' = None
  /\ relay_cache' = [b \in {} |-> None]
  /\ answer' = [h \in Handlers |-> None]
  /\ UNCHANGED chainVars

RelayerNext ==
  \/ \E h \in Handlers :
       \/ request(h) \/ sequence_lock(h) \/ account_sequence(h)
       \/ simulate_transaction(h) \/ submit_tx(h) \/ response_lost(h) \/ request_fails(h)
       \/ disconnect(h)
  \/ restart
  \/ close_ledger \/ expire \/ spend_elsewhere

RelayerSpec == RelayerInit /\ [][RelayerNext]_relayerVars

-----------------------------------------------------------------------------
\* Every variable stays in its type, and only a handler at work has the lock.
RelayerTypeOK ==
  /\ pc \in [Handlers -> {"idle", "waiting", "prepare", "simulate", "signed"}]
  /\ body \in [Handlers -> Bodies \union {None}]
  /\ seq \in [Handlers -> 0..MaxSeq]
  /\ DOMAIN answer = Handlers
  /\ DOMAIN relay_cache \subseteq Bodies
  /\ \A b \in DOMAIN relay_cache : relay_cache[b] \in Tx
  /\ account \in 0..MaxSeq
  /\ queue \in Tx \union {None}
  /\ taken \subseteq Tx
  /\ failed \subseteq taken
  /\ elsewhere \subseteq spent /\ spent \subseteq Range(NoteOf)
  /\ lock \in Handlers \union {None}
  /\ lock # None => pc[lock] \in {"prepare", "simulate", "signed"}

\* The relayer never pays for a conflict of its own: a transaction of its
\* account that is charged and fails lost its note to somebody else's.  Two
\* requests that spend one note pass their simulations before either is
\* applied, and it is the sequence number, read before the simulation, that
\* keeps the second one out.
NoSelfConflict == \A tx \in failed : NoteOf[tx[1]] \in elsewhere

\* Why: a handler past the account's sequence number can no longer submit, and
\* one that is not simulated a note that the relayer has not spent since.
WorkInv ==
  \A h \in Handlers :
    /\ pc[h] # "idle" => body[h] \in Bodies
    /\ pc[h] \in {"simulate", "signed"} => seq[h] \in 1..(account + 1)
    /\ pc[h] = "signed" /\ seq[h] = account + 1 /\ NoteOf[body[h]] \in spent
         => NoteOf[body[h]] \in elsewhere

LockInv ==
  \A h \in Handlers : pc[h] \in {"prepare", "simulate", "signed"}
                        => lock = h /\ body[h] \notin DOMAIN relay_cache

QueueInv ==
  queue # None => /\ queue \in taken /\ queue[2] = account + 1
                  /\ NoteOf[queue[1]] \in spent => NoteOf[queue[1]] \in elsewhere

\* A request whose body was answered with a hash is answered with that hash
\* as long as the process lives, also when two copies of it run at once.
RetryGetsSameHash ==
  [][\A h \in Handlers :
       /\ pc[h] # "idle" /\ pc'[h] = "idle" /\ answer'[h] # None
       /\ body[h] \in DOMAIN relay_cache
       => answer'[h] = Submitted(relay_cache[body[h]])]_relayerVars

\* What the README says of the relayer: a hash that clients get, now or from the
\* cache, is that of a transaction submitted to the network.
CachedWasTaken == \A b \in DOMAIN relay_cache : relay_cache[b] \in taken
=============================================================================
