------------------------------ MODULE Submission ------------------------------
(***************************************************************************)
(* How the web client turns a user's intent into a transaction: it reads   *)
(* the account's sequence number, simulates, has the wallet sign, sends,   *)
(* and polls the RPC for the outcome.  Several tabs of one account may be  *)
(* at it at once, the user may try again after any answer, and requests to *)
(* the RPC may be lost.  The registry of public keys, which one of these   *)
(* transactions writes, is read back by others through its events.         *)
(***************************************************************************)
EXTENDS Integers, Sequences, FiniteSets

CONSTANTS
  Accounts,                  \* the accounts that submit
  Intents,                   \* what users want: [account, kind, keys]
  SpendNotes,                \* notes a spend can choose from
  AuthShapes,                \* the credentials of the entries simulation records
  MaxAttempts,               \* bound: attempts, of all intents
  MaxClosed,                 \* bound: ledgers closed without a transaction
  OpenTabs,                  \* bound: attempts running at once
  CONFIRM_POLL_ATTEMPTS,     \* polls before the client gives up
  AUTH_EXPIRATION_LEDGERS,   \* how long a signed authorization is valid
  Absent                     \* no value

Kinds == {"spend", "deposit", "register"}
Credentials == {"source", "wallet"}

ASSUME SubmissionAssumption ==
  /\ \A i \in Intents : i.account \in Accounts /\ i.kind \in Kinds
  /\ \A shape \in AuthShapes : shape \in Seq(Credentials)
  /\ AUTH_EXPIRATION_LEDGERS \in Nat
  /\ Absent \notin {"success", "failed", "refused", "unknown"}

VARIABLES
  attempts,     \* every attempt so far; its position is the transaction's hash
  queued,       \* the transactions the network holds: [hash, auth, expires]
  accountSeq,   \* the accounts' sequence numbers on the ledger
  closed,       \* the latest ledger
  registry,     \* DataKey::Registration(owner)
  keyEvents,    \* the registry's events, in order
  publicKeys    \* how many of them a reader has in its public_keys table

submissionVars ==
  <<attempts, queued, accountSeq, closed, registry, keyEvents, publicKeys>>

\* How an attempt ends.  "refused" is any error up to the status ERROR of
\* sendTransaction, "failed" a call that failed on the ledger, and "unknown" a lost
\* request or the end of the polls.

\* An entry of the authorization tree that simulation recorded: on behalf of the
\* transaction's source, or of an address that must sign for itself ("wallet").
AuthEntry(credential) == [credential |-> credential, signed |-> FALSE]

SubmissionInit ==
  /\ attempts = <<>> /\ queued = {}
  /\ accountSeq = [u \in Accounts |-> 0] /\ closed = 0
  /\ registry = [u \in Accounts |-> Absent]
  /\ keyEvents = <<>> /\ publicKeys = 0

Hashes == DOMAIN attempts
AccountOf(a) == attempts[a].intent.account
In(a, phase) == attempts[a].phase = phase

Becomes(a, attempt) == attempts' = [attempts EXCEPT ![a] = attempt]

\* The attempt ends and what it had in hand is gone.
Reported(attempt, report) ==
  [attempt EXCEPT !.phase = "done", !.report = report, !.auth = <<>>, !.expires = 0,
                  !.polls = 0]

NoteIsSpent(note) ==
  note # Absent /\ \E b \in Hashes : attempts[b].note = note /\ attempts[b].status = "SUCCESS"

Applied == { b \in Hashes : attempts[b].status = "SUCCESS" }

-----------------------------------------------------------------------------
(* The client.                                                             *)

\* The user starts an intent, for the first time or again.  The wallet shown is
\* the local database's and may lag: a spent note may still be offered.
starts(i) ==
  /\ Len(attempts) < MaxAttempts
  /\ Cardinality({ a \in Hashes : ~ In(a, "done") }) < OpenTabs
  /\ \E note \in IF i.kind = "spend" THEN SpendNotes ELSE {Absent} :
       attempts' = Append(attempts,
         [intent |-> i, note |-> note, phase |-> "sequence", seq |-> 0,
          before |-> {}, auth |-> <<>>, expires |-> 0, polls |-> 0, report |-> Absent,
          status |-> "NOT_FOUND"])
  /\ UNCHANGED <<queued, accountSeq, closed, registry, keyEvents, publicKeys>>

\* Whatever fails before the transaction is sent ends the attempt: the proof, a
\* worker that answers too late, the RPC, a simulation, a wallet that declines.
gives_up(a) ==
  /\ attempts[a].phase \in {"sequence", "simulate", "sign"}
  /\ Becomes(a, Reported(attempts[a], "refused"))
  /\ UNCHANGED <<queued, accountSeq, closed, registry, keyEvents, publicKeys>>

next_sequence(current) == current + 1

ledger_sequence_Mutant(account) ==
  accountSeq[account] + Cardinality({ tx \in queued : AccountOf(tx.hash) = account })

\* The sequence number that the account has on the ledger, whatever is queued.
ledger_sequence(account) == accountSeq[account]

\* The number is read and put in the envelope.  `before` records what had been
\* applied by then.
account_sequence(a) ==
  /\ In(a, "sequence")
  /\ Becomes(a, [attempts[a] EXCEPT !.seq = next_sequence(ledger_sequence(AccountOf(a))),
                                    !.before = Applied, !.phase = "simulate"])
  /\ UNCHANGED <<queued, accountSeq, closed, registry, keyEvents, publicKeys>>

auth_expiration_ledger == closed + AUTH_EXPIRATION_LEDGERS

\* Simulation runs the call on the latest ledger: a spent note fails.  Its fees
\* and entries go into the envelope, and its ledger dates the authorizations.
from_simulation(a) ==
  /\ In(a, "simulate")
  /\ ~ NoteIsSpent(attempts[a].note)
  /\ \E shape \in AuthShapes :
       Becomes(a, [attempts[a] EXCEPT
                     !.auth = [e \in DOMAIN shape |-> AuthEntry(shape[e])],
                     !.expires = auth_expiration_ledger, !.phase = "sign"])
  /\ UNCHANGED <<queued, accountSeq, closed, registry, keyEvents, publicKeys>>

\* The entries the wallet must sign: those of the user's own address that are not
\* signed yet.
needs_wallet_auth(entry) == entry.credential = "wallet" /\ ~ entry.signed

auth_sign_steps(auth) == { e \in DOMAIN auth : needs_wallet_auth(auth[e]) }

\* The signatures go into the entries they were made for.
unsigned_tx_for_signing(auth) ==
  [e \in DOMAIN auth |->
     [auth[e] EXCEPT !.signed = @ \/ e \in auth_sign_steps(auth)]]

\* The wallet is asked for each of those entries and then for the envelope.
sign_prepared_transaction(a) ==
  /\ In(a, "sign")
  /\ Becomes(a, [attempts[a] EXCEPT !.auth = unsigned_tx_for_signing(@), !.phase = "send"])
  /\ UNCHANGED <<queued, accountSeq, closed, registry, keyEvents, publicKeys>>

\* What sendTransaction answers: ERROR, always when the sequence number is not
\* the account's next one; TRY_AGAIN_LATER while the account has a transaction
\* queued; PENDING once the transaction is queued.
SendStatus(a) ==
  IF attempts[a].seq # accountSeq[AccountOf(a)] + 1 THEN {"ERROR"}
  ELSE IF \E tx \in queued : AccountOf(tx.hash) = AccountOf(a) THEN {"ERROR", "TRY_AGAIN_LATER"}
  ELSE {"ERROR", "PENDING"}

\* Only ERROR is a failure to the client; with any other status it has a hash and
\* polls for it.
send_transaction(attempt, status) ==
  IF status = "ERROR" THEN Reported(attempt, "refused")
  ELSE [attempt EXCEPT !.phase = "poll", !.auth = <<>>, !.expires = 0]

Envelope(a) ==
  [hash |-> a, auth |-> attempts[a].auth, expires |-> attempts[a].expires]

submit_tx(a) ==
  /\ In(a, "send")
  /\ \E status \in SendStatus(a) :
       /\ queued' = IF status = "PENDING" THEN queued \cup {Envelope(a)} ELSE queued
       /\ \/ Becomes(a, send_transaction(attempts[a], status))
          \/ Becomes(a, Reported(attempts[a], "unknown"))       \* the answer is lost
  /\ UNCHANGED <<accountSeq, closed, registry, keyEvents, publicKeys>>

\* The request is lost before it reaches the network.
submit_tx_lost(a) ==
  /\ In(a, "send")
  /\ Becomes(a, Reported(attempts[a], "unknown"))
  /\ UNCHANGED <<queued, accountSeq, closed, registry, keyEvents, publicKeys>>

confirm_tx_Mutant(status) == IF status = "SUCCESS" THEN "success" ELSE "failed"

\* One poll: what the client makes of getTransaction's status.
confirm_tx(status) ==
  CASE status = "SUCCESS" -> "success"
    [] status = "FAILED"  -> "failed"
    [] OTHER              -> "pending"

\* The outcome, the end of the polls, or another round.
Confirmed(attempt) ==
  LET result == confirm_tx(attempt.status) IN
    IF result # "pending" THEN Reported(attempt, result)
    ELSE IF attempt.polls + 1 = CONFIRM_POLL_ATTEMPTS THEN Reported(attempt, "unknown")
    ELSE [attempt EXCEPT !.polls = @ + 1]

polls_once(a) ==
  /\ In(a, "poll")
  /\ Becomes(a, Confirmed(attempts[a])) \/ Becomes(a, Reported(attempts[a], "unknown"))
  /\ UNCHANGED <<queued, accountSeq, closed, registry, keyEvents, publicKeys>>

-----------------------------------------------------------------------------
(* The network and the registry.                                           *)

\* The user's address signed every entry that asks for it, and in time.
Authorized(tx) ==
  \A e \in DOMAIN tx.auth :
    tx.auth[e].credential = "wallet" =>
      tx.auth[e].signed /\ closed + 1 <= tx.expires

register_Mutant(owner, keys) ==
  /\ registry' = [registry EXCEPT ![owner] = keys]
  /\ keyEvents' = IF registry[owner] # Absent THEN keyEvents
                  ELSE Append(keyEvents,
                         [owner |-> owner, keys |-> keys, ledger |-> closed + 1])

\* register: keys that are stored already are not announced again.
register(owner, keys) ==
  /\ registry' = [registry EXCEPT ![owner] = keys]
  /\ keyEvents' = IF registry[owner] = keys THEN keyEvents
                  ELSE Append(keyEvents,
                         [owner |-> owner, keys |-> keys, ledger |-> closed + 1])

\* A ledger closes with the transaction.  It takes the sequence number whether
\* its call succeeds or fails, and a call may fail for reasons of its own.
lands(tx) ==
  LET a == tx.hash IN
  /\ attempts[a].seq = accountSeq[AccountOf(a)] + 1
  /\ accountSeq' = [accountSeq EXCEPT ![AccountOf(a)] = @ + 1]
  /\ closed' = closed + 1
  /\ queued' = queued \ {tx}
  /\ \/ /\ Authorized(tx) /\ ~ NoteIsSpent(attempts[a].note)
        /\ Becomes(a, [attempts[a] EXCEPT !.status = "SUCCESS"])
        /\ IF attempts[a].intent.kind = "register"
             THEN register(AccountOf(a), attempts[a].intent.keys)
             ELSE UNCHANGED <<registry, keyEvents>>
     \/ Becomes(a, [attempts[a] EXCEPT !.status = "FAILED"]) /\ UNCHANGED <<registry, keyEvents>>
  /\ UNCHANGED publicKeys

\* The network drops a transaction.
drops(tx) ==
  /\ queued' = queued \ {tx}
  /\ UNCHANGED <<attempts, accountSeq, closed, registry, keyEvents, publicKeys>>

\* A ledger closes without any of these transactions.
closes ==
  /\ closed < MaxClosed
  /\ closed' = closed + 1
  /\ UNCHANGED <<attempts, queued, accountSeq, registry, keyEvents, publicKeys>>

\* A reader's database takes the next event; events are processed in their order.
save_public_key_events_batch ==
  /\ publicKeys < Len(keyEvents)
  /\ publicKeys' = publicKeys + 1
  /\ UNCHANGED <<attempts, queued, accountSeq, closed, registry, keyEvents>>

\* Nothing is left to do within the bounds.
settled ==
  /\ Len(attempts) = MaxAttempts /\ \A a \in Hashes : In(a, "done")
  /\ queued = {} /\ closed >= MaxClosed /\ publicKeys = Len(keyEvents)
  /\ UNCHANGED submissionVars

SubmissionNext ==
  \/ \E i \in Intents : starts(i)
  \/ \E a \in Hashes :
       \/ gives_up(a) \/ account_sequence(a) \/ from_simulation(a)
       \/ sign_prepared_transaction(a) \/ submit_tx(a) \/ submit_tx_lost(a)
       \/ polls_once(a)
  \/ \E tx \in queued : lands(tx) \/ drops(tx)
  \/ closes
  \/ save_public_key_events_batch
  \/ settled

SubmissionSpec == SubmissionInit /\ [][SubmissionNext]_submissionVars

-----------------------------------------------------------------------------
\* What submit_tx tells the user is true for good: "success" was applied, and an
\* attempt reported as failed or refused is not applied later either.  After such
\* a report a second attempt cannot pay twice; only a timeout or a lost request
\* leaves it open.
ReportsAreTruthful ==
  \A a \in Hashes :
    /\ attempts[a].report = "success" => attempts[a].status = "SUCCESS"
    /\ attempts[a].report \in {"failed", "refused"} =>
         attempts[a].status # "SUCCESS" /\ \A tx \in queued : tx.hash # a

\* The sequence number, read from the ledger and not counted in the client, makes
\* attempts that overlap exclude each other: an attempt that reads it while an
\* earlier one, timed out perhaps, is not on the ledger is not applied beside it.
\* This is all that keeps a deposit tried again from being made twice.
OverlappingAttemptsExclude ==
  \A a, b \in Hashes :
    a # b /\ AccountOf(a) = AccountOf(b)
      /\ attempts[a].status = "SUCCESS" /\ attempts[b].status = "SUCCESS" =>
        a \in attempts[b].before \/ b \in attempts[a].before

\* lookup_public_key_by_address: the keys of the owner's event of the latest
\* ledger among those processed.
lookup_public_key_by_address(owner) ==
  LET rows == { e \in 1..publicKeys : keyEvents[e].owner = owner } IN
    IF rows = {} THEN Absent
    ELSE keyEvents[CHOOSE e \in rows :
                     \A d \in rows : keyEvents[d].ledger <= keyEvents[e].ledger].keys

\* A reader that has processed every event finds for each owner the keys it
\* registered last, although a repeated registration is not announced and the
\* owner may go back to keys it had before.
SendersFindCurrentKeys ==
  publicKeys = Len(keyEvents) =>
    \A u \in Accounts :
      LET done == { a \in Hashes : /\ AccountOf(a) = u
                                   /\ attempts[a].intent.kind = "register"
                                   /\ attempts[a].status = "SUCCESS" } IN
        IF done = {} THEN lookup_public_key_by_address(u) = Absent
        ELSE \E a \in done :
               /\ \A b \in done : attempts[b].seq <= attempts[a].seq
               /\ lookup_public_key_by_address(u) = attempts[a].intent.keys
===============================================================================
