-------------------------- MODULE SubmissionProofs --------------------------
(***************************************************************************)
(* Proofs about Submission, for any accounts, intents, notes and bounds.   *)
(***************************************************************************)
EXTENDS Submission, TLAPS

Phases == {"sequence", "simulate", "sign", "send", "poll", "done"}
Unsent == {"sequence", "simulate", "sign", "send"}
Reports == {"success", "failed", "refused", "unknown"}
Entries == [credential : Credentials, signed : BOOLEAN]
Auths == Seq(Entries)
HashSets == SUBSET Nat

Attempt ==
  [intent : Intents, note : SpendNotes \union {Absent}, phase : Phases, seq : Nat,
   before : HashSets, auth : Auths, expires : Nat, polls : Nat,
   report : Reports \union {Absent}, status : {"NOT_FOUND", "SUCCESS", "FAILED"}]

AnyKeys == {i.keys : i \in Intents}
KeyEvent == [owner : Accounts, keys : AnyKeys, ledger : Nat]

\* The types.
SubmissionTypeOK ==
  /\ attempts \in Seq(Attempt)
  /\ queued \subseteq [hash : Hashes, auth : Auths, expires : Nat]
  /\ accountSeq \in [Accounts -> Nat]
  /\ closed \in Nat
  /\ registry \in [Accounts -> AnyKeys \union {Absent}]
  /\ keyEvents \in Seq(KeyEvent)
  /\ publicKeys \in 0..Len(keyEvents)

Landed(a) == attempts[a].status # "NOT_FOUND"

\* What an attempt's phase and report say of its transaction.
PhaseInv ==
  \A a \in Hashes :
    /\ attempts[a].phase # "done" => attempts[a].report = Absent
    /\ attempts[a].phase \in Unsent => ~ Landed(a)
    /\ attempts[a].report = "success" => attempts[a].status = "SUCCESS"
    /\ attempts[a].report = "failed" => attempts[a].status = "FAILED"
    /\ attempts[a].report = "refused" => ~ Landed(a)

\* A queued transaction was sent and not refused, is its account's only one and
\* has its account's next number.
QueuedInv ==
  \A tx \in queued :
    /\ attempts[tx.hash].phase \notin Unsent
    /\ attempts[tx.hash].report \notin {"success", "failed", "refused"}
    /\ ~ Landed(tx.hash)
    /\ attempts[tx.hash].seq = accountSeq[AccountOf(tx.hash)] + 1
    /\ \A other \in queued : AccountOf(other.hash) = AccountOf(tx.hash) => other = tx

\* A number that was read was the next one then; a transaction on the ledger used
\* up its number.
SeqInv ==
  /\ \A a \in Hashes :
       /\ attempts[a].seq <= accountSeq[AccountOf(a)] + 1
       /\ Landed(a) => attempts[a].seq \in 1..accountSeq[AccountOf(a)]
  /\ \A a, b \in Hashes :
       a # b /\ AccountOf(a) = AccountOf(b) /\ Landed(a) /\ Landed(b) =>
         attempts[a].seq # attempts[b].seq

\* What was applied after an attempt read its number has no smaller one.
BeforeInv ==
  \A a, b \in Hashes :
    /\ AccountOf(a) = AccountOf(b) /\ attempts[a].seq > 0
    /\ attempts[b].status = "SUCCESS" /\ b \notin attempts[a].before
    => attempts[b].seq >= attempts[a].seq

Registered(u) ==
  { a \in Hashes : /\ AccountOf(a) = u
                   /\ attempts[a].intent.kind = "register"
                   /\ attempts[a].status = "SUCCESS" }

\* The registry holds the keys of the registration with the highest number.
RegistryInv ==
  \A u \in Accounts :
    /\ Registered(u) = {} => registry[u] = Absent
    /\ Registered(u) # {} =>
         \E a \in Registered(u) :
           /\ \A b \in Registered(u) : attempts[b].seq <= attempts[a].seq
           /\ registry[u] = attempts[a].intent.keys

\* Every event has a ledger of its own, later than those of the events before it.
LedgersInv ==
  /\ \A e \in DOMAIN keyEvents : keyEvents[e].ledger <= closed
  /\ \A d, e \in DOMAIN keyEvents : d < e => keyEvents[d].ledger < keyEvents[e].ledger

\* The last event of an owner has what the registry holds.
EventsInv ==
  \A u \in Accounts :
    \/ registry[u] = Absent /\ \A e \in DOMAIN keyEvents : keyEvents[e].owner # u
    \/ \E e \in DOMAIN keyEvents :
         /\ keyEvents[e].owner = u /\ keyEvents[e].keys = registry[u]
         /\ \A d \in DOMAIN keyEvents : keyEvents[d].owner = u => d <= e

\* The inductive invariant.
SubmissionInv ==
  /\ SubmissionTypeOK
  /\ PhaseInv /\ QueuedInv /\ SeqInv /\ BeforeInv
  /\ RegistryInv /\ LedgersInv /\ EventsInv

-----------------------------------------------------------------------------
\* One attempt changes and the others keep theirs.
LEMMA BecomesChangesOne ==
  ASSUME attempts \in Seq(Attempt), NEW a \in Hashes, NEW new \in Attempt, Becomes(a, new)
  PROVE  /\ attempts' \in Seq(Attempt) /\ Hashes' = Hashes
         /\ attempts'[a] = new
         /\ \A b \in Hashes : b # a => attempts'[b] = attempts[b]
BY DEF Becomes, Hashes

\* The fields of an attempt.
LEMMA AttemptFields ==
  ASSUME attempts \in Seq(Attempt), NEW a \in Hashes
  PROVE  /\ attempts[a] \in Attempt
         /\ attempts[a].intent \in Intents /\ AccountOf(a) \in Accounts
         /\ attempts[a].seq \in Nat
<1>1. attempts[a] \in Attempt
  BY DEF Hashes
<1>2. attempts[a].intent \in Intents /\ attempts[a].seq \in Nat
  BY <1>1 DEF Attempt
<1> QED
  BY <1>1, <1>2, SubmissionAssumption DEF AccountOf

\* An attempt that reports has the type.
LEMMA ReportedType ==
  ASSUME NEW attempt \in Attempt, NEW report \in Reports
  PROVE  /\ Reported(attempt, report) \in Attempt
         /\ Reported(attempt, report).phase = "done"
         /\ Reported(attempt, report).report = report
         /\ Reported(attempt, report).intent = attempt.intent
         /\ Reported(attempt, report).status = attempt.status
         /\ Reported(attempt, report).seq = attempt.seq
         /\ Reported(attempt, report).before = attempt.before
<1>1. <<>> \in Auths /\ "done" \in Phases
  BY DEF Auths, Phases
<1>2. Reported(attempt, report) \in Attempt
  BY <1>1 DEF Reported, Attempt
<1>3. /\ Reported(attempt, report).phase = "done"
      /\ Reported(attempt, report).report = report
  BY <1>1 DEF Reported, Attempt
<1>4. /\ Reported(attempt, report).intent = attempt.intent
      /\ Reported(attempt, report).status = attempt.status
  BY <1>1 DEF Reported, Attempt
<1>5. /\ Reported(attempt, report).seq = attempt.seq
      /\ Reported(attempt, report).before = attempt.before
  BY <1>1 DEF Reported, Attempt
<1> QED
  BY <1>2, <1>3, <1>4, <1>5

\* The initial state satisfies the invariant.
LEMMA InitInv == SubmissionInit => SubmissionInv
<1> SUFFICES ASSUME SubmissionInit PROVE SubmissionInv
  OBVIOUS
<1> USE DEF SubmissionInit
<1>1. SubmissionTypeOK
  BY DEF SubmissionTypeOK
<1>2. Hashes = {} /\ DOMAIN keyEvents = {}
  BY DEF Hashes
<1>3. PhaseInv /\ QueuedInv /\ SeqInv /\ BeforeInv
  BY <1>2 DEF PhaseInv, QueuedInv, SeqInv, BeforeInv
<1>4. RegistryInv /\ LedgersInv /\ EventsInv
  BY <1>2 DEF RegistryInv, Registered, LedgersInv, EventsInv
<1> QED
  BY <1>1, <1>3, <1>4 DEF SubmissionInv

\* What an attempt may become by a step of its client: it keeps its intent, its
\* status, its number and what had been applied when it read it.
Same(a, new) ==
  /\ new.intent = attempts[a].intent /\ new.status = attempts[a].status
  /\ new.seq = attempts[a].seq /\ new.before = attempts[a].before

\* The transaction is queued only from the phase "send", with the next number and
\* as the only one of its account.
QueuesOnly(a) ==
  \/ queued' = queued
  \/ /\ queued' = queued \union {Envelope(a)}
     /\ In(a, "send") /\ attempts[a].seq = accountSeq[AccountOf(a)] + 1
     /\ \A tx \in queued : AccountOf(tx.hash) # AccountOf(a)

\* A step of a client that keeps to this keeps the invariant.
LEMMA ClientStep ==
  ASSUME SubmissionInv, NEW a \in Hashes, NEW new \in Attempt, Becomes(a, new),
         Same(a, new), QueuesOnly(a),
         UNCHANGED <<accountSeq, closed, registry, keyEvents, publicKeys>>,
         new.phase # "done" => new.report = Absent,
         new.phase \in Unsent => attempts[a].phase \in Unsent /\ queued' = queued,
         new.report = "success" => new.status = "SUCCESS",
         new.report = "failed" => new.status = "FAILED",
         new.report = "refused" => attempts[a].phase \in Unsent /\ queued' = queued
  PROVE  SubmissionInv'
<1> USE DEF SubmissionInv
<1>1. /\ attempts' \in Seq(Attempt) /\ Hashes' = Hashes
      /\ attempts'[a] = new
      /\ \A b \in Hashes : b # a => attempts'[b] = attempts[b]
  BY BecomesChangesOne DEF SubmissionTypeOK
<1>2. \A b \in Hashes : /\ attempts'[b].intent = attempts[b].intent
                        /\ attempts'[b].status = attempts[b].status
                        /\ attempts'[b].seq = attempts[b].seq
                        /\ attempts'[b].before = attempts[b].before
                        /\ AccountOf(b)' = AccountOf(b)
                        /\ Landed(b)' = Landed(b)
  BY <1>1 DEF Same, AccountOf, Landed
<1>3. SubmissionTypeOK'
  <2>1. Envelope(a) \in [hash : Hashes, auth : Auths, expires : Nat]
    BY AttemptFields DEF SubmissionTypeOK, Envelope, Attempt
  <2>2. queued' \subseteq [hash : Hashes', auth : Auths, expires : Nat]
    BY <1>1, <2>1 DEF SubmissionTypeOK, QueuesOnly
  <2> QED
    BY <1>1, <2>2 DEF SubmissionTypeOK
<1>4. PhaseInv'
  BY <1>1, <1>2 DEF PhaseInv, Landed
<1>5. QueuedInv'
  <2> SUFFICES ASSUME NEW tx \in queued'
               PROVE  /\ attempts'[tx.hash].phase \notin Unsent
                      /\ attempts'[tx.hash].report \notin {"success", "failed", "refused"}
                      /\ ~ Landed(tx.hash)'
                      /\ attempts'[tx.hash].seq = accountSeq'[AccountOf(tx.hash)'] + 1
                      /\ \A other \in queued' :
                           AccountOf(other.hash)' = AccountOf(tx.hash)' => other = tx
    BY DEF QueuedInv
  <2>1. \A t \in queued : t.hash \in Hashes
    BY DEF SubmissionTypeOK
  <2>2. CASE tx \in queued
    <3>1. /\ attempts[tx.hash].phase \notin Unsent /\ ~ Landed(tx.hash)
          /\ attempts[tx.hash].report \notin {"success", "failed", "refused"}
          /\ attempts[tx.hash].seq = accountSeq[AccountOf(tx.hash)] + 1
          /\ \A other \in queued : AccountOf(other.hash) = AccountOf(tx.hash) => other = tx
      BY <2>2 DEF QueuedInv
    <3>2. tx.hash \in Hashes
      BY <2>1, <2>2
    <3>3. attempts'[tx.hash].phase \notin Unsent /\ ~ Landed(tx.hash)'
      BY <1>1, <1>2, <3>1, <3>2
    <3>4. attempts'[tx.hash].report \notin {"success", "failed", "refused"}
      BY <1>1, <1>2, <3>1, <3>2 DEF Same, Landed
    <3>5. attempts'[tx.hash].seq = accountSeq'[AccountOf(tx.hash)'] + 1
      BY <1>2, <3>1, <3>2
    <3>6. ASSUME NEW other \in queued', AccountOf(other.hash)' = AccountOf(tx.hash)'
          PROVE  other = tx
      <4>1. CASE other \in queued
        BY <1>2, <2>1, <3>1, <3>2, <3>6, <4>1
      <4>2. CASE other \notin queued
        <5>1. other = Envelope(a) /\ other.hash = a
          BY <4>2 DEF QueuesOnly, Envelope
        <5> QED
          BY <1>2, <2>2, <3>2, <3>6, <4>2, <5>1 DEF QueuesOnly
      <4> QED
        BY <4>1, <4>2
    <3> QED
      BY <3>3, <3>4, <3>5, <3>6
  <2>3. CASE tx \notin queued
    <3>1. /\ tx = Envelope(a) /\ tx.hash = a /\ queued' = queued \union {tx}
          /\ In(a, "send") /\ attempts[a].seq = accountSeq[AccountOf(a)] + 1
          /\ \A t \in queued : AccountOf(t.hash) # AccountOf(a)
          /\ queued' # queued
      BY <2>3 DEF QueuesOnly, Envelope
    <3>2. attempts[a].phase \in Unsent /\ ~ Landed(a)
      BY <3>1 DEF In, Unsent, PhaseInv
    <3>3. new.phase \notin Unsent /\ new.report \notin {"success", "failed", "refused"}
      BY <3>1, <3>2 DEF Same, Landed
    <3>4. \A other \in queued' : AccountOf(other.hash)' = AccountOf(a)' => other = tx
      BY <1>2, <2>1, <3>1
    <3> QED
      BY <1>1, <1>2, <3>1, <3>2, <3>3, <3>4
  <2> QED
    BY <2>2, <2>3
<1>6. SeqInv'
  BY <1>1, <1>2 DEF SeqInv
<1>7. BeforeInv'
  BY <1>1, <1>2 DEF BeforeInv
<1>8. RegistryInv'
  <2>1. \A u \in Accounts : Registered(u)' = Registered(u)
    BY <1>1, <1>2 DEF Registered
  <2>2. \A u \in Accounts : Registered(u) \subseteq Hashes
    BY DEF Registered
  <2> QED
    BY <1>2, <2>1, <2>2 DEF RegistryInv
<1>9. LedgersInv' /\ EventsInv'
  BY DEF LedgersInv, EventsInv
<1> QED
  BY <1>3, <1>4, <1>5, <1>6, <1>7, <1>8, <1>9

\* The wallet's signatures keep the entries' type.
LEMMA SigningKeepsType ==
  ASSUME NEW auth \in Auths
  PROVE  unsigned_tx_for_signing(auth) \in Auths
<1> DEFINE signs(e) == auth[e].signed \/ e \in auth_sign_steps(auth)
<1>1. \A x \in Entries : \A b \in BOOLEAN : [x EXCEPT !.signed = b] \in Entries
  BY DEF Entries
<1>2. /\ DOMAIN auth = 1..Len(auth) /\ Len(auth) \in Nat
      /\ \A e \in DOMAIN auth : auth[e] \in Entries
  BY DEF Auths
<1>3. \A e \in DOMAIN auth : signs(e) \in BOOLEAN
  BY Zenon
<1> HIDE DEF signs
<1>4. \A e \in DOMAIN auth : [auth[e] EXCEPT !.signed = signs(e)] \in Entries
  BY <1>1, <1>2, <1>3
<1>5. unsigned_tx_for_signing(auth) = [e \in 1..Len(auth) |-> [auth[e] EXCEPT !.signed = signs(e)]]
  BY <1>2 DEF unsigned_tx_for_signing, signs
<1>6. unsigned_tx_for_signing(auth) \in [1..Len(auth) -> Entries]
  BY <1>2, <1>4, <1>5, ZenonT(60)
<1> QED
  BY <1>2, <1>6 DEF Auths

\* The actions of a client before the transaction is sent.
LEMMA PreparationKeeps ==
  ASSUME SubmissionInv, NEW a \in Hashes,
         gives_up(a) \/ from_simulation(a) \/ sign_prepared_transaction(a)
  PROVE  SubmissionInv'
<1> DEFINE att == attempts[a]
<1>0. att \in Attempt /\ closed \in Nat
  BY AttemptFields DEF SubmissionInv, SubmissionTypeOK
<1>1. CASE gives_up(a)
  <2>1. Becomes(a, Reported(att, "refused")) /\ att.phase \in Unsent
    BY <1>1 DEF gives_up, Unsent
  <2> QED
    BY <1>0, <1>1, <2>1, ReportedType, ClientStep DEF gives_up, Same, QueuesOnly, Reports, Unsent
<1>2. CASE from_simulation(a)
  <2>1. PICK shape \in AuthShapes :
          Becomes(a, [att EXCEPT !.auth = [e \in DOMAIN shape |-> AuthEntry(shape[e])],
                                 !.expires = auth_expiration_ledger, !.phase = "sign"])
    BY <1>2 DEF from_simulation
  <2> DEFINE auth == [e \in DOMAIN shape |-> AuthEntry(shape[e])]
             new == [att EXCEPT !.auth = auth, !.expires = auth_expiration_ledger,
                                !.phase = "sign"]
  <2>2. shape \in Seq(Credentials)
    BY SubmissionAssumption
  <2>3. /\ DOMAIN shape = 1..Len(shape) /\ Len(shape) \in Nat
        /\ \A e \in DOMAIN shape : AuthEntry(shape[e]) \in Entries
    BY <2>2 DEF AuthEntry, Entries
  <2>4. auth \in Auths /\ auth_expiration_ledger \in Nat /\ "sign" \in Phases
    BY <1>0, <2>3, SubmissionAssumption DEF Auths, auth_expiration_ledger, Phases
  <2> HIDE DEF auth
  <2>5. new \in Attempt /\ new.phase = "sign" /\ new.report = att.report
    BY <1>0, <2>4 DEF Attempt
  <2>6. Same(a, new)
    BY <1>0, <2>4 DEF Attempt, Same
  <2>7. att.phase \in Unsent /\ att.phase # "done" /\ att.report = Absent
    BY <1>2 DEF from_simulation, In, Unsent, SubmissionInv, PhaseInv
  <2>8. Becomes(a, new) /\ QueuesOnly(a)
        /\ UNCHANGED <<queued, accountSeq, closed, registry, keyEvents, publicKeys>>
    BY <1>2, <2>1 DEF from_simulation, QueuesOnly, auth
  <2> HIDE DEF new
  <2> QED
    BY <2>5, <2>6, <2>7, <2>8, ClientStep, SubmissionAssumption
<1>3. CASE sign_prepared_transaction(a)
  <2> DEFINE auth == unsigned_tx_for_signing(att.auth)
             new == [att EXCEPT !.auth = auth, !.phase = "send"]
  <2>3. auth \in Auths /\ "send" \in Phases
    BY <1>0, SigningKeepsType DEF Attempt, Phases
  <2>4. Becomes(a, new) /\ QueuesOnly(a)
        /\ UNCHANGED <<queued, accountSeq, closed, registry, keyEvents, publicKeys>>
    BY <1>3 DEF sign_prepared_transaction, QueuesOnly
  <2> HIDE DEF auth
  <2>5. new \in Attempt /\ new.phase = "send" /\ new.report = att.report
    BY <1>0, <2>3 DEF Attempt
  <2>6. Same(a, new)
    BY <1>0, <2>3 DEF Attempt, Same
  <2>7. att.phase \in Unsent /\ att.phase # "done" /\ att.report = Absent
    BY <1>3 DEF sign_prepared_transaction, In, Unsent, SubmissionInv, PhaseInv
  <2> HIDE DEF new
  <2> QED
    BY <2>4, <2>5, <2>6, <2>7, ClientStep, SubmissionAssumption
<1> QED
  BY <1>1, <1>2, <1>3

\* The actions of a client from the request that sends the transaction.
LEMMA SendingKeeps ==
  ASSUME SubmissionInv, NEW a \in Hashes,
         submit_tx(a) \/ submit_tx_lost(a) \/ polls_once(a)
  PROVE  SubmissionInv'
<1> DEFINE att == attempts[a]
<1>0. att \in Attempt
  BY AttemptFields DEF SubmissionInv, SubmissionTypeOK
<1>1. ASSUME Becomes(a, Reported(att, "unknown")), QueuesOnly(a),
             UNCHANGED <<accountSeq, closed, registry, keyEvents, publicKeys>>
      PROVE  SubmissionInv'
  BY <1>0, <1>1, ReportedType, ClientStep DEF Same, Reports, Unsent
<1>2. CASE submit_tx(a)
  <2>1. PICK status \in SendStatus(a) :
          /\ queued' = IF status = "PENDING" THEN queued \union {Envelope(a)} ELSE queued
          /\ \/ Becomes(a, send_transaction(att, status))
             \/ Becomes(a, Reported(att, "unknown"))
    BY <1>2 DEF submit_tx
  <2>2. QueuesOnly(a) /\ UNCHANGED <<accountSeq, closed, registry, keyEvents, publicKeys>>
    BY <1>2, <2>1 DEF submit_tx, QueuesOnly, SendStatus
  <2>3. att.phase = "send" /\ att.phase \in Unsent /\ att.report = Absent
    BY <1>2 DEF submit_tx, In, Unsent, SubmissionInv, PhaseInv
  <2>4. CASE Becomes(a, Reported(att, "unknown"))
    BY <1>1, <2>2, <2>4
  <2>5. CASE Becomes(a, send_transaction(att, status)) /\ status = "ERROR"
    <3>1. Becomes(a, Reported(att, "refused")) /\ queued' = queued
      BY <2>1, <2>5 DEF send_transaction
    <3> QED
      BY <1>0, <2>2, <2>3, <3>1, ReportedType, ClientStep DEF Same, Reports, Unsent
  <2>6. CASE Becomes(a, send_transaction(att, status)) /\ status # "ERROR"
    <3> DEFINE new == [att EXCEPT !.phase = "poll", !.auth = <<>>, !.expires = 0]
    <3>1. "poll" \in Phases /\ "poll" \notin Unsent /\ <<>> \in Auths
      BY DEF Phases, Unsent, Auths
    <3>2. new \in Attempt /\ new.phase = "poll" /\ new.report = att.report
      BY <1>0, <3>1 DEF Attempt
    <3>3. Same(a, new)
      BY <1>0, <3>1 DEF Attempt, Same
    <3>4. Becomes(a, new)
      BY <2>6 DEF send_transaction
    <3> HIDE DEF new
    <3> QED
      BY <2>2, <2>3, <3>1, <3>2, <3>3, <3>4, ClientStep, SubmissionAssumption
  <2> QED
    BY <2>1, <2>4, <2>5, <2>6
<1>3. CASE submit_tx_lost(a)
  BY <1>1, <1>3 DEF submit_tx_lost, QueuesOnly
<1>4. CASE polls_once(a)
  <2>1. QueuesOnly(a) /\ UNCHANGED <<queued, accountSeq, closed, registry, keyEvents, publicKeys>>
    BY <1>4 DEF polls_once, QueuesOnly
  <2>2. att.phase = "poll" /\ att.phase \notin Unsent /\ att.report = Absent
    BY <1>4 DEF polls_once, In, Unsent, SubmissionInv, PhaseInv
  <2>3. CASE Becomes(a, Reported(att, "unknown"))
    BY <1>1, <2>1, <2>3
  <2>4. CASE Becomes(a, Confirmed(att))
    <3>1. CASE att.status = "SUCCESS"
      <4>1. Becomes(a, Reported(att, "success"))
        BY <2>4, <3>1 DEF Confirmed, confirm_tx
      <4> QED
        BY <1>0, <2>1, <3>1, <4>1, ReportedType, ClientStep DEF Same, Reports, Unsent
    <3>2. CASE att.status = "FAILED"
      <4>1. Becomes(a, Reported(att, "failed"))
        BY <2>4, <3>2 DEF Confirmed, confirm_tx
      <4> QED
        BY <1>0, <2>1, <3>2, <4>1, ReportedType, ClientStep DEF Same, Reports, Unsent
    <3>3. CASE att.status \notin {"SUCCESS", "FAILED"}
      <4> DEFINE new == [att EXCEPT !.polls = @ + 1]
      <4>1. Becomes(a, Reported(att, "unknown")) \/ Becomes(a, new)
        BY <2>4, <3>3 DEF Confirmed, confirm_tx
      <4>2. new \in Attempt /\ new.phase = att.phase /\ new.report = att.report
        BY <1>0 DEF Attempt
      <4>3. Same(a, new)
        BY <1>0 DEF Attempt, Same
      <4> HIDE DEF new
      <4>4. CASE Becomes(a, new)
        BY <2>1, <2>2, <4>2, <4>3, <4>4, ClientStep, SubmissionAssumption
      <4> QED
        BY <1>1, <2>1, <4>1, <4>4
    <3> QED
      BY <3>1, <3>2, <3>3
  <2> QED
    BY <1>4, <2>3, <2>4 DEF polls_once
<1> QED
  BY <1>2, <1>3, <1>4

\* A new attempt has no number, no report and nothing on the ledger.
LEMMA StartsKeeps ==
  ASSUME SubmissionInv, NEW i \in Intents, starts(i)
  PROVE  SubmissionInv'
<1> USE DEF SubmissionInv
<1>1. PICK note \in IF i.kind = "spend" THEN SpendNotes ELSE {Absent} :
        attempts' = Append(attempts,
         [intent |-> i, note |-> note, phase |-> "sequence", seq |-> 0,
          before |-> {}, auth |-> <<>>, expires |-> 0, polls |-> 0, report |-> Absent,
          status |-> "NOT_FOUND"])
  BY DEF starts
<1> DEFINE new == [intent |-> i, note |-> note, phase |-> "sequence", seq |-> 0,
             before |-> {}, auth |-> <<>>, expires |-> 0, polls |-> 0, report |-> Absent,
             status |-> "NOT_FOUND"]
<1>0. PICK n \in Nat : n = Len(attempts) + 1
  BY DEF SubmissionTypeOK
<1>2. UNCHANGED <<queued, accountSeq, closed, registry, keyEvents, publicKeys>>
  BY DEF starts
<1>3. {} \in HashSets /\ <<>> \in Auths /\ "sequence" \in Phases
  BY DEF HashSets, Auths, Phases
<1>4. new \in Attempt
  BY <1>3 DEF Attempt
<1>5. /\ new.seq = 0 /\ new.status = "NOT_FOUND" /\ new.report = Absent
      /\ new.intent = i /\ new.phase = "sequence"
  OBVIOUS
<1>6. attempts' = Append(attempts, new)
  BY <1>1
<1> HIDE DEF new
<1>7. /\ attempts' \in Seq(Attempt) /\ Hashes' = Hashes \union {n} /\ n \notin Hashes
      /\ attempts'[n] = new
      /\ \A b \in Hashes : attempts'[b] = attempts[b]
  BY <1>0, <1>4, <1>6 DEF SubmissionTypeOK, Hashes
<1>8. \A b \in Hashes : AccountOf(b)' = AccountOf(b) /\ Landed(b)' = Landed(b)
  BY <1>7 DEF AccountOf, Landed
<1>9. ~ Landed(n)' /\ AccountOf(n)' \in Accounts
  BY <1>5, <1>7, SubmissionAssumption DEF Landed, AccountOf
<1>10. SubmissionTypeOK'
  BY <1>2, <1>7 DEF SubmissionTypeOK
<1>11. PhaseInv'
  BY <1>5, <1>7, <1>8, <1>9, SubmissionAssumption DEF PhaseInv
<1>12. QueuedInv'
  <2>1. \A tx \in queued : tx.hash \in Hashes
    BY DEF SubmissionTypeOK
  <2> QED
    BY <1>2, <1>7, <1>8, <2>1 DEF QueuedInv
<1>13. SeqInv'
  <2>1. accountSeq[AccountOf(n)'] \in Nat
    BY <1>9 DEF SubmissionTypeOK
  <2> QED
    BY <1>2, <1>5, <1>7, <1>8, <1>9, <2>1 DEF SeqInv
<1>14. BeforeInv'
  BY <1>5, <1>7, <1>8 DEF BeforeInv
<1>15. RegistryInv'
  <2>1. \A u \in Accounts : Registered(u)' = Registered(u) /\ Registered(u) \subseteq Hashes
    BY <1>5, <1>7, <1>8 DEF Registered
  <2> QED
    BY <1>2, <1>7, <2>1 DEF RegistryInv
<1>16. LedgersInv' /\ EventsInv'
  BY <1>2 DEF LedgersInv, EventsInv
<1> QED
  BY <1>10, <1>11, <1>12, <1>13, <1>14, <1>15, <1>16

\* The number that is read is the next one, and everything applied is before it.
LEMMA AccountSequenceKeeps ==
  ASSUME SubmissionInv, NEW a \in Hashes, account_sequence(a)
  PROVE  SubmissionInv'
<1> USE DEF SubmissionInv
<1> DEFINE att == attempts[a]
           next == accountSeq[AccountOf(a)] + 1
           new == [att EXCEPT !.seq = next, !.before = Applied, !.phase = "simulate"]
<1>1. att \in Attempt /\ AccountOf(a) \in Accounts /\ accountSeq[AccountOf(a)] \in Nat
  BY AttemptFields DEF SubmissionTypeOK
<1>2. next \in Nat /\ Applied \in HashSets /\ "simulate" \in Phases
  BY <1>1 DEF Applied, Hashes, HashSets, Phases, SubmissionTypeOK
<1>3. Becomes(a, new) /\ UNCHANGED <<queued, accountSeq, closed, registry, keyEvents, publicKeys>>
  BY DEF account_sequence, next_sequence, ledger_sequence
<1>4. /\ att.phase \in Unsent /\ att.report = Absent /\ ~ Landed(a)
      /\ \A tx \in queued : tx.hash # a
  BY DEF account_sequence, In, PhaseInv, QueuedInv, Unsent
<1> HIDE DEF next
<1>5. new \in Attempt
  BY <1>1, <1>2 DEF Attempt
<1>6. new.seq = next /\ new.before = Applied /\ new.phase = "simulate"
  BY <1>1, <1>2 DEF Attempt
<1>7. new.intent = att.intent /\ new.status = att.status /\ new.report = att.report
  BY <1>1, <1>2 DEF Attempt
<1> HIDE DEF new
<1>8. /\ attempts' \in Seq(Attempt) /\ Hashes' = Hashes
      /\ attempts'[a] = new
      /\ \A b \in Hashes : b # a => attempts'[b] = attempts[b]
  BY <1>3, <1>5, BecomesChangesOne DEF SubmissionTypeOK
<1>9. \A b \in Hashes : /\ AccountOf(b)' = AccountOf(b) /\ Landed(b)' = Landed(b)
                        /\ attempts'[b].status = attempts[b].status
                        /\ attempts'[b].intent = attempts[b].intent
                        /\ attempts'[b].report = attempts[b].report
                        /\ Landed(b) => attempts'[b].seq = attempts[b].seq
  BY <1>4, <1>7, <1>8 DEF AccountOf, Landed
<1>10. SubmissionTypeOK'
  BY <1>3, <1>8 DEF SubmissionTypeOK
<1>11. PhaseInv'
  BY <1>4, <1>6, <1>7, <1>8, <1>9, SubmissionAssumption DEF PhaseInv
<1>12. QueuedInv'
  <2>1. \A tx \in queued : tx.hash \in Hashes
    BY DEF SubmissionTypeOK
  <2> QED
    BY <1>3, <1>4, <1>8, <1>9, <2>1 DEF QueuedInv
<1>13. SeqInv'
  BY <1>1, <1>3, <1>4, <1>6, <1>8, <1>9 DEF SeqInv, next
<1>14. BeforeInv'
  <2> SUFFICES ASSUME NEW c \in Hashes, NEW b \in Hashes,
                      AccountOf(c)' = AccountOf(b)', attempts'[c].seq > 0,
                      attempts'[b].status = "SUCCESS", b \notin attempts'[c].before
               PROVE  attempts'[b].seq >= attempts'[c].seq
    BY <1>8 DEF BeforeInv
  <2>1. attempts[b].status = "SUCCESS" /\ b # a /\ attempts'[b] = attempts[b]
    BY <1>4, <1>8, <1>9 DEF Landed
  <2>2. CASE c = a
    BY <1>6, <1>8, <2>1, <2>2 DEF Applied
  <2>3. CASE c # a
    BY <1>8, <1>9, <2>1, <2>3 DEF BeforeInv
  <2> QED
    BY <2>2, <2>3
<1>15. RegistryInv'
  <2>1. \A u \in Accounts : Registered(u)' = Registered(u) /\ Registered(u) \subseteq Hashes
    BY <1>8, <1>9 DEF Registered
  <2>2. \A u \in Accounts : \A b \in Registered(u) : Landed(b)
    BY DEF Registered, Landed
  <2>3. \A u \in Accounts : \A b \in Registered(u) :
          attempts'[b].seq = attempts[b].seq /\ attempts'[b].intent = attempts[b].intent
    BY <1>9, <2>1, <2>2
  <2> QED
    BY <1>3, <2>1, <2>3 DEF RegistryInv
<1>16. LedgersInv' /\ EventsInv'
  BY <1>3 DEF LedgersInv, EventsInv
<1> QED
  BY <1>10, <1>11, <1>12, <1>13, <1>14, <1>15, <1>16

\* The events of the registry and their ledgers.
LEMMA KeyEventFields ==
  ASSUME keyEvents \in Seq(KeyEvent)
  PROVE  /\ DOMAIN keyEvents = 1..Len(keyEvents) /\ Len(keyEvents) \in Nat
         /\ \A e \in DOMAIN keyEvents : keyEvents[e].ledger \in Nat
<1>1. \A e \in DOMAIN keyEvents : keyEvents[e] \in KeyEvent
  OBVIOUS
<1>2. \A x \in KeyEvent : x.ledger \in Nat
  BY DEF KeyEvent
<1> QED
  BY <1>1, <1>2

\* register announces keys that differ from the ones stored, in a ledger of its own.
LEMMA RegisterKeeps ==
  ASSUME SubmissionTypeOK, LedgersInv, EventsInv, NEW u \in Accounts, NEW j \in Intents,
         register(u, j.keys), closed' = closed + 1, UNCHANGED publicKeys
  PROVE  /\ registry' = [registry EXCEPT ![u] = j.keys]
         /\ registry' \in [Accounts -> AnyKeys \union {Absent}]
         /\ keyEvents' \in Seq(KeyEvent)
         /\ publicKeys' \in 0..Len(keyEvents')
         /\ LedgersInv' /\ EventsInv'
<1> DEFINE new == [owner |-> u, keys |-> j.keys, ledger |-> closed + 1]
<1>1. /\ registry \in [Accounts -> AnyKeys \union {Absent}] /\ j.keys \in AnyKeys
      /\ keyEvents \in Seq(KeyEvent) /\ closed \in Nat /\ publicKeys \in 0..Len(keyEvents)
  BY DEF SubmissionTypeOK, AnyKeys
<1>2. new \in KeyEvent
  BY <1>1 DEF KeyEvent
<1>3. new.owner = u /\ new.keys = j.keys /\ new.ledger = closed + 1
  OBVIOUS
<1>4. registry' = [registry EXCEPT ![u] = j.keys]
  BY DEF register
<1>5. registry' \in [Accounts -> AnyKeys \union {Absent}]
  BY <1>1, <1>4
<1>6. /\ \A e \in DOMAIN keyEvents : keyEvents[e].ledger \in Nat
      /\ DOMAIN keyEvents = 1..Len(keyEvents) /\ Len(keyEvents) \in Nat
  BY <1>1, KeyEventFields
<1>7. CASE registry[u] = j.keys
  <2>1. keyEvents' = keyEvents /\ registry' = registry
    BY <1>1, <1>4, <1>7 DEF register
  <2>2. LedgersInv' /\ EventsInv'
    BY <1>1, <1>6, <2>1 DEF LedgersInv, EventsInv
  <2> QED
    BY <1>1, <1>4, <1>5, <2>1, <2>2
<1>8. CASE registry[u] # j.keys
  <2>1. keyEvents' = Append(keyEvents, new)
    BY <1>8 DEF register
  <2> HIDE DEF new
  <2>2. PICK n \in Nat : n = Len(keyEvents) + 1
    BY <1>6
  <2>3. /\ keyEvents' \in Seq(KeyEvent) /\ Len(keyEvents') = n /\ keyEvents'[n] = new
        /\ DOMAIN keyEvents' = DOMAIN keyEvents \union {n}
        /\ \A e \in DOMAIN keyEvents : e < n /\ keyEvents'[e] = keyEvents[e]
    BY <1>1, <1>2, <1>6, <2>1, <2>2
  <2>4. publicKeys' \in 0..Len(keyEvents')
    BY <1>1, <1>6, <2>2, <2>3
  <2>5. LedgersInv'
    BY <1>1, <1>3, <1>6, <2>2, <2>3 DEF LedgersInv
  <2>6. EventsInv'
    <3> SUFFICES ASSUME NEW v \in Accounts
                 PROVE  \/ registry'[v] = Absent /\ \A e \in DOMAIN keyEvents' : keyEvents'[e].owner # v
                        \/ \E e \in DOMAIN keyEvents' :
                             /\ keyEvents'[e].owner = v /\ keyEvents'[e].keys = registry'[v]
                             /\ \A d \in DOMAIN keyEvents' : keyEvents'[d].owner = v => d <= e
      BY DEF EventsInv
    <3>1. CASE v = u
      <4>1. registry'[v] = j.keys
        BY <1>1, <1>4, <3>1
      <4>2. \A d \in DOMAIN keyEvents' : d <= n
        BY <1>6, <2>2, <2>3
      <4> QED
        BY <1>3, <2>3, <3>1, <4>1, <4>2
    <3>2. CASE v # u
      <4>1. registry'[v] = registry[v]
        BY <1>1, <1>4, <3>2
      <4>2. keyEvents'[n].owner # v
        BY <1>3, <2>3, <3>2
      <4>3. CASE registry[v] = Absent /\ \A e \in DOMAIN keyEvents : keyEvents[e].owner # v
        BY <2>3, <4>1, <4>2, <4>3
      <4>4. CASE \E e \in DOMAIN keyEvents :
                   /\ keyEvents[e].owner = v /\ keyEvents[e].keys = registry[v]
                   /\ \A d \in DOMAIN keyEvents : keyEvents[d].owner = v => d <= e
        BY <2>3, <4>1, <4>2, <4>4
      <4> QED
        BY <4>3, <4>4 DEF EventsInv
    <3> QED
      BY <3>1, <3>2
  <2> QED
    BY <1>4, <1>5, <2>3, <2>4, <2>5, <2>6
<1> QED
  BY <1>7, <1>8

\* A ledger that closes with a transaction keeps the invariant.
LEMMA LandsKeeps ==
  ASSUME SubmissionInv, NEW tx \in queued, lands(tx)
  PROVE  SubmissionInv'
<1> USE DEF SubmissionInv
<1>1. PICK a \in Hashes : a = tx.hash
  BY DEF SubmissionTypeOK
<1> DEFINE att == attempts[a]
<1>2. PICK u \in Accounts : u = AccountOf(a)
  BY AttemptFields DEF SubmissionTypeOK
<1>3. att \in Attempt /\ att.seq \in Nat /\ att.intent \in Intents
  BY AttemptFields DEF SubmissionTypeOK
<1>4. /\ att.phase \notin Unsent /\ ~ Landed(a) /\ att.seq = accountSeq[u] + 1
      /\ att.report \notin {"success", "failed", "refused"}
      /\ \A other \in queued : AccountOf(other.hash) = u => other = tx
  BY <1>1, <1>2 DEF QueuedInv
<1>5. /\ accountSeq' = [accountSeq EXCEPT ![u] = @ + 1]
      /\ closed' = closed + 1 /\ queued' = queued \ {tx} /\ publicKeys' = publicKeys
  BY <1>1, <1>2 DEF lands
<1>6. PICK st \in {"SUCCESS", "FAILED"} :
        /\ Becomes(a, [att EXCEPT !.status = st])
        /\ \/ /\ st = "SUCCESS" /\ att.intent.kind = "register"
              /\ register(u, att.intent.keys)
           \/ /\ st = "FAILED" \/ att.intent.kind # "register"
              /\ UNCHANGED <<registry, keyEvents>>
  BY <1>1, <1>2 DEF lands
<1> DEFINE new == [att EXCEPT !.status = st]
<1>7. new \in Attempt /\ new.status = st /\ new.intent = att.intent
      /\ new.seq = att.seq /\ new.before = att.before
      /\ new.phase = att.phase /\ new.report = att.report
  BY <1>3 DEF Attempt
<1>8. Becomes(a, new)
  BY <1>6
<1> HIDE DEF new
<1>9. /\ attempts' \in Seq(Attempt) /\ Hashes' = Hashes
      /\ attempts'[a] = new
      /\ \A b \in Hashes : b # a => attempts'[b] = attempts[b]
  BY <1>7, <1>8, BecomesChangesOne DEF SubmissionTypeOK
<1>10. \A b \in Hashes : /\ AccountOf(b)' = AccountOf(b)
                         /\ attempts'[b].seq = attempts[b].seq
                         /\ attempts'[b].before = attempts[b].before
                         /\ attempts'[b].intent = attempts[b].intent
                         /\ b # a => Landed(b)' = Landed(b)
  BY <1>7, <1>9 DEF AccountOf, Landed
<1>11. \A b \in Hashes : AccountOf(b) \in Accounts /\ attempts[b].seq \in Nat
  BY AttemptFields DEF SubmissionTypeOK
<1>12. /\ accountSeq' \in [Accounts -> Nat] /\ accountSeq \in [Accounts -> Nat]
       /\ accountSeq'[u] = accountSeq[u] + 1
       /\ \A v \in Accounts : v # u => accountSeq'[v] = accountSeq[v]
  BY <1>5 DEF SubmissionTypeOK
<1>13. /\ registry' \in [Accounts -> AnyKeys \union {Absent}]
       /\ keyEvents' \in Seq(KeyEvent)
       /\ publicKeys' \in 0..Len(keyEvents')
       /\ LedgersInv' /\ EventsInv'
  <2>1. CASE UNCHANGED <<registry, keyEvents>>
    <3>1. EventsInv'
      BY <2>1 DEF EventsInv
    <3>2. \A e \in DOMAIN keyEvents : keyEvents[e].ledger \in Nat
      BY KeyEventFields DEF SubmissionTypeOK
    <3>3. LedgersInv'
      BY <1>5, <2>1, <3>2 DEF LedgersInv, SubmissionTypeOK
    <3> QED
      BY <1>5, <2>1, <3>1, <3>3 DEF SubmissionTypeOK
  <2>2. CASE register(u, att.intent.keys)
    BY <1>3, <1>5, <2>2, RegisterKeeps
  <2> QED
    BY <1>6, <2>1, <2>2
<1>14. SubmissionTypeOK'
  BY <1>5, <1>9, <1>12, <1>13 DEF SubmissionTypeOK
<1>15. PhaseInv'
  BY <1>4, <1>7, <1>9, <1>10, SubmissionAssumption DEF PhaseInv
<1>16. QueuedInv'
  <2>1. \A t \in queued' : t \in queued /\ t.hash \in Hashes /\ AccountOf(t.hash) # u
    BY <1>4, <1>5 DEF SubmissionTypeOK
  <2>2. \A t \in queued' : t.hash # a
    BY <1>2, <2>1
  <2> QED
    BY <1>9, <1>10, <1>11, <1>12, <2>1, <2>2 DEF QueuedInv
<1>17. SeqInv'
  <2>1. \A b \in Hashes : attempts'[b].seq <= accountSeq'[AccountOf(b)'] + 1
    BY <1>10, <1>11, <1>12 DEF SeqInv
  <2>2. \A b \in Hashes : b # a /\ Landed(b) =>
          /\ attempts[b].seq \in 1..accountSeq'[AccountOf(b)]
          /\ AccountOf(b) = u => attempts[b].seq < att.seq
    BY <1>4, <1>11, <1>12 DEF SeqInv
  <2>3. att.seq \in 1..accountSeq'[u]
    BY <1>3, <1>4, <1>12
  <2> QED
    BY <1>2, <1>9, <1>10, <1>11, <2>1, <2>2, <2>3 DEF SeqInv
<1>18. BeforeInv'
  <2> SUFFICES ASSUME NEW c \in Hashes, NEW b \in Hashes,
                      AccountOf(c)' = AccountOf(b)', attempts'[c].seq > 0,
                      attempts'[b].status = "SUCCESS", b \notin attempts'[c].before
               PROVE  attempts'[b].seq >= attempts'[c].seq
    BY <1>9 DEF BeforeInv
  <2>1. CASE b = a
    BY <1>2, <1>4, <1>10, <1>11, <1>12, <2>1 DEF SeqInv
  <2>2. CASE b # a
    BY <1>9, <1>10, <2>2 DEF BeforeInv
  <2> QED
    BY <2>1, <2>2
<1>19. RegistryInv'
  <2> SUFFICES ASSUME NEW v \in Accounts
               PROVE  /\ Registered(v)' = {} => registry'[v] = Absent
                      /\ Registered(v)' # {} =>
                           \E b \in Registered(v)' :
                             /\ \A c \in Registered(v)' : attempts'[c].seq <= attempts'[b].seq
                             /\ registry'[v] = attempts'[b].intent.keys
    BY DEF RegistryInv
  <2>1. Registered(v) \subseteq Hashes /\ a \notin Registered(v)
    BY <1>4 DEF Registered, Landed
  <2>2. CASE st = "SUCCESS" /\ att.intent.kind = "register" /\ v = u
    <3>1. Registered(v)' = Registered(v) \union {a}
      BY <1>2, <1>7, <1>9, <1>10, <2>2 DEF Registered
    <3>2. \A c \in Registered(v) : attempts'[c].seq <= attempts'[a].seq
      <4> TAKE c \in Registered(v)
      <4>1. c \in Hashes /\ AccountOf(c) = u /\ Landed(c)
        BY <2>1, <2>2 DEF Registered, Landed
      <4> QED
        BY <1>4, <1>10, <1>11, <1>12, <4>1 DEF SeqInv
    <3>3. registry'[v] = attempts'[a].intent.keys
      <4>1. register(u, att.intent.keys)
        BY <1>6, <2>2
      <4> QED
        BY <1>10, <2>2, <4>1 DEF register, SubmissionTypeOK
    <3> QED
      BY <1>10, <1>11, <3>1, <3>2, <3>3
  <2>3. CASE ~ (st = "SUCCESS" /\ att.intent.kind = "register" /\ v = u)
    <3>1. Registered(v)' = Registered(v)
      BY <1>2, <1>4, <1>7, <1>9, <1>10, <2>3 DEF Registered, Landed
    <3>2. registry'[v] = registry[v]
      <4>1. CASE UNCHANGED <<registry, keyEvents>>
        BY <4>1
      <4>2. CASE register(u, att.intent.keys) /\ v # u
        BY <4>2 DEF register, SubmissionTypeOK
      <4> QED
        BY <1>6, <2>3, <4>1, <4>2
    <3> QED
      BY <1>10, <2>1, <3>1, <3>2 DEF RegistryInv
  <2> QED
    BY <2>2, <2>3
<1> QED
  BY <1>13, <1>14, <1>15, <1>16, <1>17, <1>18, <1>19

\* Steps of the network and of a reader that change no attempt and no key.
LEMMA OthersKeep ==
  ASSUME SubmissionInv, UNCHANGED <<attempts, accountSeq, registry, keyEvents>>,
         queued' \subseteq queued, closed' \in Nat, closed' >= closed,
         publicKeys' \in 0..Len(keyEvents)
  PROVE  SubmissionInv'
<1> USE DEF SubmissionInv
<1>1. Hashes' = Hashes /\ \A a \in Hashes : AccountOf(a)' = AccountOf(a) /\ Landed(a)' = Landed(a)
  BY DEF Hashes, AccountOf, Landed
<1>2. SubmissionTypeOK'
  BY <1>1 DEF SubmissionTypeOK
<1>3. PhaseInv' /\ SeqInv' /\ BeforeInv'
  BY <1>1 DEF PhaseInv, SeqInv, BeforeInv
<1>4. QueuedInv'
  <2>1. \A tx \in queued : tx.hash \in Hashes
    BY DEF SubmissionTypeOK
  <2> QED
    BY <1>1, <2>1 DEF QueuedInv
<1>5. RegistryInv'
  <2>1. \A u \in Accounts : Registered(u)' = Registered(u)
    BY <1>1 DEF Registered
  <2> QED
    BY <2>1 DEF RegistryInv
<1>6. LedgersInv'
  BY KeyEventFields DEF LedgersInv, SubmissionTypeOK
<1>7. EventsInv'
  BY DEF EventsInv
<1> QED
  BY <1>2, <1>3, <1>4, <1>5, <1>6, <1>7

\* Every step keeps the invariant.
LEMMA StepInv == SubmissionInv /\ [SubmissionNext]_submissionVars => SubmissionInv'
<1> SUFFICES ASSUME SubmissionInv, [SubmissionNext]_submissionVars PROVE SubmissionInv'
  OBVIOUS
<1>0. closed \in Nat /\ publicKeys \in 0..Len(keyEvents) /\ keyEvents \in Seq(KeyEvent)
  BY DEF SubmissionInv, SubmissionTypeOK
<1>1. CASE UNCHANGED submissionVars
  BY <1>0, <1>1, OthersKeep DEF submissionVars
<1>2. ASSUME NEW i \in Intents, starts(i) PROVE SubmissionInv'
  BY <1>2, StartsKeeps
<1>3. ASSUME NEW a \in Hashes, account_sequence(a) PROVE SubmissionInv'
  BY <1>3, AccountSequenceKeeps
<1>4. ASSUME NEW a \in Hashes, gives_up(a) \/ from_simulation(a) \/ sign_prepared_transaction(a)
      PROVE  SubmissionInv'
  BY <1>4, PreparationKeeps
<1>5. ASSUME NEW a \in Hashes, submit_tx(a) \/ submit_tx_lost(a) \/ polls_once(a)
      PROVE  SubmissionInv'
  BY <1>5, SendingKeeps
<1>6. ASSUME NEW tx \in queued, lands(tx) PROVE SubmissionInv'
  BY <1>6, LandsKeeps
<1>7. ASSUME NEW tx \in queued, drops(tx) PROVE SubmissionInv'
  BY <1>0, <1>7, OthersKeep DEF drops
<1>8. CASE closes
  BY <1>0, <1>8, OthersKeep DEF closes
<1>9. CASE save_public_key_events_batch
  BY <1>0, <1>9, KeyEventFields, OthersKeep DEF save_public_key_events_batch
<1>10. CASE settled
  BY <1>1, <1>10 DEF settled
<1> QED
  BY <1>1, <1>2, <1>3, <1>4, <1>5, <1>6, <1>7, <1>8, <1>9, <1>10 DEF SubmissionNext

\* The invariant holds in every reachable state.
THEOREM SubmissionInvariant == SubmissionSpec => []SubmissionInv
BY InitInv, StepInv, PTL DEF SubmissionSpec

-----------------------------------------------------------------------------
\* What submit_tx tells the user stays true, whatever is lost, dropped, retried or
\* done by other tabs: success is on the ledger, failed and refused never will be.
THEOREM SubmissionReports == SubmissionSpec => []ReportsAreTruthful
<1>1. SubmissionInv => ReportsAreTruthful
  BY DEF SubmissionInv, PhaseInv, QueuedInv, ReportsAreTruthful, Landed
<1> QED
  BY <1>1, SubmissionInvariant, PTL

\* Of two attempts of one account that are both applied, one had read its number
\* after the other was applied, however many tabs, retries and intents there are.
THEOREM SubmissionExclusion == SubmissionSpec => []OverlappingAttemptsExclude
<1>1. SubmissionInv => OverlappingAttemptsExclude
  <2> SUFFICES ASSUME SubmissionInv, NEW a \in Hashes, NEW b \in Hashes,
                      a # b, AccountOf(a) = AccountOf(b),
                      attempts[a].status = "SUCCESS", attempts[b].status = "SUCCESS"
               PROVE  a \in attempts[b].before \/ b \in attempts[a].before
    BY DEF OverlappingAttemptsExclude
  <2>1. Landed(a) /\ Landed(b)
    BY DEF Landed
  <2>2. attempts[a].seq \in Nat /\ attempts[b].seq \in Nat /\ AccountOf(a) \in Accounts
    BY AttemptFields DEF SubmissionInv, SubmissionTypeOK
  <2>3. accountSeq[AccountOf(a)] \in Nat
    BY <2>2 DEF SubmissionInv, SubmissionTypeOK
  <2>4. attempts[a].seq # attempts[b].seq /\ attempts[a].seq > 0 /\ attempts[b].seq > 0
    BY <2>1, <2>2, <2>3 DEF SubmissionInv, SeqInv
  <2> QED
    BY <2>2, <2>4 DEF SubmissionInv, BeforeInv
<1> QED
  BY <1>1, SubmissionInvariant, PTL

\* A reader that has processed the registry's events finds the keys that each owner
\* registered last, for any order of registrations and of repetitions.
THEOREM SubmissionKeys == SubmissionSpec => []SendersFindCurrentKeys
<1>1. SubmissionInv => SendersFindCurrentKeys
  <2> SUFFICES ASSUME SubmissionInv, publicKeys = Len(keyEvents), NEW u \in Accounts
               PROVE  IF Registered(u) = {} THEN lookup_public_key_by_address(u) = Absent
                      ELSE \E a \in Registered(u) :
                             /\ \A b \in Registered(u) : attempts[b].seq <= attempts[a].seq
                             /\ lookup_public_key_by_address(u) = attempts[a].intent.keys
    BY DEF SendersFindCurrentKeys, Registered
  <2>1. lookup_public_key_by_address(u) = registry[u]
    <3> DEFINE rows == { e \in 1..publicKeys : keyEvents[e].owner = u }
               latest == CHOOSE e \in rows : \A d \in rows : keyEvents[d].ledger <= keyEvents[e].ledger
    <3>1. /\ DOMAIN keyEvents = 1..publicKeys /\ publicKeys \in Nat
          /\ \A e \in DOMAIN keyEvents : keyEvents[e].ledger \in Nat
      BY KeyEventFields DEF SubmissionInv, SubmissionTypeOK
    <3>2. CASE rows = {}
      <4>1. lookup_public_key_by_address(u) = Absent
        BY <3>2 DEF lookup_public_key_by_address
      <4>2. registry[u] = Absent
        BY <3>1, <3>2 DEF SubmissionInv, EventsInv
      <4> QED
        BY <4>1, <4>2
    <3>3. CASE rows # {}
      <4>1. PICK e \in DOMAIN keyEvents :
              /\ keyEvents[e].owner = u /\ keyEvents[e].keys = registry[u]
              /\ \A d \in DOMAIN keyEvents : keyEvents[d].owner = u => d <= e
        BY <3>1, <3>3 DEF SubmissionInv, EventsInv
      <4>2. e \in rows /\ \A d \in rows : d <= e /\ d \in DOMAIN keyEvents
        BY <3>1, <4>1
      <4>3. \A d \in rows : keyEvents[d].ledger <= keyEvents[e].ledger
        BY <3>1, <4>2 DEF SubmissionInv, LedgersInv
      <4>4. latest \in rows /\ \A d \in rows : keyEvents[d].ledger <= keyEvents[latest].ledger
        BY <4>2, <4>3
      <4>5. latest = e
        <5>1. keyEvents[e].ledger <= keyEvents[latest].ledger /\ latest <= e
          BY <4>2, <4>4
        <5>2. latest < e => keyEvents[latest].ledger < keyEvents[e].ledger
          BY <4>2, <4>4 DEF SubmissionInv, LedgersInv
        <5> QED
          BY <3>1, <4>2, <4>4, <5>1, <5>2
      <4>6. lookup_public_key_by_address(u) = keyEvents[latest].keys
        BY <3>3 DEF lookup_public_key_by_address
      <4> QED
        BY <4>1, <4>5, <4>6
    <3> QED
      BY <3>2, <3>3
  <2> QED
    BY <2>1 DEF SubmissionInv, RegistryInv
<1> QED
  BY <1>1, SubmissionInvariant, PTL
=============================================================================
