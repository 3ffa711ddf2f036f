---------------------------- MODULE RelayerProofs ---------------------------
(***************************************************************************)
(* Proofs about Relayer, for any handlers, bodies and notes.               *)
(***************************************************************************)
EXTENDS Relayer, TLAPS

Working == {"prepare", "simulate", "signed"}

\* The inductive invariant.
IInv == RelayerTypeOK /\ WorkInv /\ LockInv /\ QueueInv /\ NoSelfConflict

\* A fact about the definitions: no handler and no body is None.
LEMMA NoneIsNobody == None \notin Handlers /\ None \notin Bodies
BY RelayerAssumption

\* Every body spends one of the notes.
LEMMA NoteOfBody == \A b \in Bodies : NoteOf[b] \in Range(NoteOf)
BY RelayerAssumption DEF Range

\* The invariant holds when the process starts.
LEMMA InitIInv == RelayerInit => IInv
<1> SUFFICES ASSUME RelayerInit PROVE IInv
  OBVIOUS
<1> USE RelayerAssumption DEF RelayerInit
<1>1. RelayerTypeOK
  BY DEF RelayerTypeOK, Tx
<1>2. WorkInv
  BY DEF WorkInv
<1>3. LockInv
  BY DEF LockInv
<1>4. QueueInv /\ NoSelfConflict
  BY DEF QueueInv, NoSelfConflict
<1> QED
  BY <1>1, <1>2, <1>3, <1>4 DEF IInv

\* What ends a handler leaves the others alone and gives up its lock.
LEMMA EndsKeeps ==
  ASSUME IInv, NEW h \in Handlers, NEW r, Ends(h, r)
  PROVE  /\ pc' \in [Handlers -> {"idle", "waiting", "prepare", "simulate", "signed"}]
         /\ body' \in [Handlers -> Bodies \union {None}]
         /\ seq' \in [Handlers -> 0..MaxSeq]
         /\ pc'[h] = "idle"
         /\ \A g \in Handlers \ {h} : pc'[g] = pc[g] /\ body'[g] = body[g] /\ seq'[g] = seq[g]
         /\ \A g \in Handlers \ {h} : lock = g => lock' = g
         /\ lock' \in Handlers \union {None}
         /\ lock' # None => pc'[lock'] \in Working
         /\ answer' = [answer EXCEPT ![h] = r]
BY RelayerAssumption, NoneIsNobody DEF IInv, RelayerTypeOK, Ends, Released, Working

\* A handler that ends while the ledger and the cache stay as they are keeps
\* the invariant.
LEMMA EndsIInv ==
  ASSUME IInv, NEW h \in Handlers, NEW r, Ends(h, r),
         UNCHANGED <<relay_cache, chainVars>>
  PROVE  IInv'
<1> USE EndsKeeps DEF IInv, chainVars
<1>1. RelayerTypeOK'
  BY DEF RelayerTypeOK, Working
<1>2. WorkInv'
  BY DEF WorkInv
<1>3. LockInv'
  BY DEF LockInv
<1>4. QueueInv' /\ NoSelfConflict'
  BY DEF QueueInv, NoSelfConflict
<1> QED
  BY <1>1, <1>2, <1>3, <1>4

\* The network takes the transaction of a handler that ends, and the cache
\* learns the answer or stays as it is.
LEMMA EnqueueIInv ==
  ASSUME IInv, NEW h \in Handlers, NEW r, Ends(h, r), pc[h] = "signed",
         Enqueue(Signed(h)), UNCHANGED <<account, spent, elsewhere, failed>>,
         \/ UNCHANGED relay_cache
         \/ relay_cache' = [b \in DOMAIN relay_cache \union {body[h]} |->
                              IF b = body[h] THEN Signed(h) ELSE relay_cache[b]]
  PROVE  IInv'
<1>1. /\ Signed(h) \in Tx /\ Signed(h)[1] = body[h] /\ Signed(h)[2] = seq[h]
      /\ seq[h] = account + 1 /\ NoteOf[body[h]] \in spent => NoteOf[body[h]] \in elsewhere
  BY RelayerAssumption DEF IInv, RelayerTypeOK, WorkInv, Signed, Tx
<1>2. \/ UNCHANGED <<queue, taken>>
      \/ queue' = Signed(h) /\ taken' = taken \union {Signed(h)} /\ seq[h] = account + 1
  BY <1>1 DEF Enqueue, Status
<1>3. RelayerTypeOK'
  <2>1. DOMAIN relay_cache' \subseteq Bodies /\ \A b \in DOMAIN relay_cache' : relay_cache'[b] \in Tx
    BY <1>1 DEF IInv, RelayerTypeOK, WorkInv
  <2>2. queue' \in Tx \union {None} /\ taken' \subseteq Tx /\ failed' \subseteq taken'
    BY <1>1, <1>2 DEF IInv, RelayerTypeOK
  <2> QED
    BY <2>1, <2>2, EndsKeeps DEF IInv, RelayerTypeOK, Working
<1>4. WorkInv'
  BY EndsKeeps DEF IInv, WorkInv
<1>5. LockInv'
  <2> SUFFICES ASSUME NEW g \in Handlers, pc'[g] \in Working
               PROVE  lock' = g /\ body'[g] \notin DOMAIN relay_cache'
    BY DEF LockInv, Working
  <2>1. g # h /\ pc[g] \in Working
    BY EndsKeeps DEF Working
  <2>2. lock = g /\ lock = h
    BY <2>1 DEF IInv, LockInv, Working
  <2> QED
    BY <2>1, <2>2
<1>6. QueueInv'
  BY <1>1, <1>2 DEF IInv, QueueInv
<1>7. NoSelfConflict'
  BY DEF IInv, NoSelfConflict
<1> QED
  BY <1>3, <1>4, <1>5, <1>6, <1>7 DEF IInv

\* Every step keeps the invariant.
LEMMA StepIInv == IInv /\ [RelayerNext]_relayerVars => IInv'
<1> SUFFICES ASSUME IInv, [RelayerNext]_relayerVars PROVE IInv'
  OBVIOUS
<1> USE RelayerAssumption, NoneIsNobody
<1>1. CASE UNCHANGED relayerVars
  BY <1>1 DEF IInv, RelayerTypeOK, WorkInv, LockInv, QueueInv, NoSelfConflict, relayerVars, handlerVars, chainVars
<1>2. ASSUME NEW h \in Handlers, request(h) PROVE IInv'
  <2> USE <1>2 DEF IInv, request, chainVars
  <2>1. RelayerTypeOK'
    BY DEF RelayerTypeOK
  <2>2. WorkInv'
    BY DEF WorkInv, RelayerTypeOK
  <2>3. LockInv'
    BY DEF LockInv, RelayerTypeOK
  <2>4. QueueInv' /\ NoSelfConflict'
    BY DEF QueueInv, NoSelfConflict
  <2> QED
    BY <2>1, <2>2, <2>3, <2>4
<1>3. ASSUME NEW h \in Handlers, sequence_lock(h) PROVE IInv'
  <2>1. CASE body[h] \in DOMAIN relay_cache
    BY <1>3, <2>1, EndsIInv DEF sequence_lock
  <2>2. CASE body[h] \notin DOMAIN relay_cache
    <3> USE <1>3, <2>2 DEF IInv, sequence_lock, CanLock, chainVars
    <3>1. RelayerTypeOK'
      BY DEF RelayerTypeOK
    <3>2. WorkInv'
      BY DEF WorkInv, RelayerTypeOK
    <3>3. LockInv'
      BY DEF LockInv, RelayerTypeOK
    <3>4. QueueInv' /\ NoSelfConflict'
      BY DEF QueueInv, NoSelfConflict
    <3> QED
      BY <3>1, <3>2, <3>3, <3>4
  <2> QED
    BY <2>1, <2>2
<1>4. ASSUME NEW h \in Handlers, account_sequence(h) PROVE IInv'
  <2> USE <1>4 DEF IInv, account_sequence, chainVars
  <2>1. RelayerTypeOK'
    BY DEF RelayerTypeOK
  <2>2. WorkInv'
    BY DEF WorkInv, RelayerTypeOK
  <2>3. LockInv'
    BY DEF LockInv, RelayerTypeOK
  <2>4. QueueInv' /\ NoSelfConflict'
    BY DEF QueueInv, NoSelfConflict
  <2> QED
    BY <2>1, <2>2, <2>3, <2>4
<1>5. ASSUME NEW h \in Handlers, simulate_transaction(h) PROVE IInv'
  <2>1. CASE ~ Simulates(body[h])
    BY <1>5, <2>1, EndsIInv DEF simulate_transaction
  <2>2. CASE Simulates(body[h])
    <3> USE <1>5, <2>2 DEF IInv, simulate_transaction, Simulates, chainVars
    <3>1. RelayerTypeOK'
      BY DEF RelayerTypeOK
    <3>2. WorkInv'
      BY DEF WorkInv, RelayerTypeOK
    <3>3. LockInv'
      BY DEF LockInv, RelayerTypeOK
    <3>4. QueueInv' /\ NoSelfConflict'
      BY DEF QueueInv, NoSelfConflict
    <3> QED
      BY <3>1, <3>2, <3>3, <3>4
  <2> QED
    BY <2>1, <2>2
<1>6. ASSUME NEW h \in Handlers, submit_tx(h) PROVE IInv'
  BY <1>6, EnqueueIInv DEF submit_tx
<1>7. ASSUME NEW h \in Handlers, response_lost(h) PROVE IInv'
  BY <1>7, EnqueueIInv DEF response_lost
<1>8. ASSUME NEW h \in Handlers, request_fails(h) PROVE IInv'
  BY <1>8, EndsIInv DEF request_fails
<1>9. ASSUME NEW h \in Handlers, disconnect(h) PROVE IInv'
  <2>1. CASE UNCHANGED <<queue, taken>>
    BY <1>9, <2>1, EndsIInv DEF disconnect, chainVars
  <2>2. CASE pc[h] = "signed" /\ Enqueue(Signed(h))
    BY <1>9, <2>2, EnqueueIInv DEF disconnect
  <2> QED
    BY <1>9, <2>1, <2>2 DEF disconnect
<1>10. CASE restart
  <2> USE <1>10 DEF IInv, restart, chainVars
  <2>1. RelayerTypeOK'
    BY DEF RelayerTypeOK
  <2>2. WorkInv' /\ LockInv'
    BY DEF WorkInv, LockInv
  <2>3. QueueInv' /\ NoSelfConflict'
    BY DEF QueueInv, NoSelfConflict
  <2> QED
    BY <2>1, <2>2, <2>3
<1>11. CASE close_ledger
  <2> USE <1>11 DEF IInv, close_ledger, handlerVars
  <2>1. queue \in Tx /\ queue \in taken /\ queue[2] = account + 1 /\ queue[1] \in Bodies /\ queue[2] \in 1..MaxSeq
    BY DEF RelayerTypeOK, QueueInv, Tx
  <2>2. RelayerTypeOK'
    BY <2>1, NoteOfBody DEF RelayerTypeOK
  <2>3. WorkInv'
    BY <2>1 DEF WorkInv, RelayerTypeOK
  <2>4. LockInv' /\ QueueInv'
    BY DEF LockInv, QueueInv
  <2>5. NoSelfConflict'
    BY <2>1 DEF NoSelfConflict, QueueInv, Simulates
  <2> QED
    BY <2>2, <2>3, <2>4, <2>5
<1>12. CASE expire
  <2> USE <1>12 DEF IInv, expire, handlerVars
  <2>1. RelayerTypeOK'
    BY DEF RelayerTypeOK
  <2>2. WorkInv' /\ LockInv' /\ QueueInv' /\ NoSelfConflict'
    BY DEF WorkInv, LockInv, QueueInv, NoSelfConflict
  <2> QED
    BY <2>1, <2>2
<1>13. CASE spend_elsewhere
  <2> USE <1>13 DEF IInv, spend_elsewhere, handlerVars
  <2>1. RelayerTypeOK'
    BY NoteOfBody DEF RelayerTypeOK
  <2>2. WorkInv'
    BY DEF WorkInv
  <2>3. LockInv' /\ QueueInv' /\ NoSelfConflict'
    BY DEF LockInv, QueueInv, NoSelfConflict
  <2> QED
    BY <2>1, <2>2, <2>3
<1> QED
  BY <1>1, <1>2, <1>3, <1>4, <1>5, <1>6, <1>7, <1>8, <1>9, <1>10, <1>11, <1>12, <1>13 DEF RelayerNext

\* The invariant holds throughout.
LEMMA AlwaysIInv == RelayerSpec => []IInv
BY InitIInv, StepIInv, PTL DEF RelayerSpec

\* Type correctness of the relayer's state.
THEOREM TypeCorrect == RelayerSpec => []RelayerTypeOK
<1>1. IInv => RelayerTypeOK
  BY DEF IInv
<1> QED
  BY <1>1, AlwaysIInv, PTL

\* A transaction of the relayer that is charged and fails lost its note to
\* somebody else, for any number of handlers and bodies: the sequence number
\* that prepare_pool_transact reads before it simulates keeps the relayer from
\* submitting a second transaction for a note it has just spent.
THEOREM RelayerNeverConflicts == RelayerSpec => []NoSelfConflict
<1>1. IInv => NoSelfConflict
  BY DEF IInv
<1> QED
  BY <1>1, AlwaysIInv, PTL

\* Idempotence of /relay in one life of the process: the lock spans the lookup
\* in relay_cache and the insertion, so no copy of an answered request gets
\* another answer.
THEOREM RetriesAgree == RelayerSpec => RetryGetsSameHash
<1> DEFINE A == \A h \in Handlers :
                  /\ pc[h] # "idle" /\ pc'[h] = "idle" /\ answer'[h] # None
                  /\ body[h] \in DOMAIN relay_cache
                  => answer'[h] = Submitted(relay_cache[body[h]])
<1>1. IInv /\ [RelayerNext]_relayerVars => [A]_relayerVars
  <2> SUFFICES ASSUME IInv, RelayerNext, NEW h \in Handlers,
                      pc[h] # "idle", pc'[h] = "idle", answer'[h] # None,
                      body[h] \in DOMAIN relay_cache
               PROVE  answer'[h] = Submitted(relay_cache[body[h]])
    BY Zenon
  <2>1. pc[h] = "waiting"
    BY DEF IInv, LockInv, RelayerTypeOK
  <2>2. ASSUME NEW g \in Handlers, g # h,
               \/ request(g) \/ sequence_lock(g) \/ account_sequence(g)
               \/ simulate_transaction(g) \/ submit_tx(g) \/ response_lost(g)
               \/ request_fails(g) \/ disconnect(g)
        PROVE  FALSE
    <3>1. pc'[h] = pc[h]
      BY <2>2 DEF IInv, RelayerTypeOK, request, sequence_lock, account_sequence,
        simulate_transaction, submit_tx, response_lost, request_fails, disconnect, Ends
    <3> QED
      BY <3>1
  <2>3. CASE sequence_lock(h)
    BY <2>1, <2>3 DEF IInv, RelayerTypeOK, sequence_lock, Ends
  <2>4. CASE disconnect(h) \/ restart
    BY <2>4 DEF IInv, RelayerTypeOK, disconnect, restart, Ends
  <2>5. CASE request(h) \/ account_sequence(h) \/ simulate_transaction(h) \/ submit_tx(h)
             \/ response_lost(h) \/ request_fails(h)
    BY <2>1, <2>5 DEF request, account_sequence, simulate_transaction, submit_tx,
      response_lost, request_fails
  <2>6. CASE close_ledger \/ expire \/ spend_elsewhere
    BY <2>6 DEF close_ledger, expire, spend_elsewhere, handlerVars
  <2> QED
    BY <2>2, <2>3, <2>4, <2>5, <2>6 DEF RelayerNext
<1> QED
  BY <1>1, AlwaysIInv, PTL DEF RelayerSpec, RetryGetsSameHash
=============================================================================
