------------------------------- MODULE Flows -------------------------------
(***************************************************************************)
(* The transaction builder of the prover crate: deposit, withdraw and      *)
(* transfer over transact, the bulk-withdraw session that chains           *)
(* withdrawals through their change notes, and the derivation of notes     *)
(* from the outputs on chain.  A proof that is made lands or is lost; the  *)
(* caller of a session may learn of neither and build the step again.      *)
(*                                                                         *)
(* Hashes are free constructors: a commitment is the note it hides, a      *)
(* nullifier the note with its index and key.  Random blindings are fresh  *)
(* numbers.  u128 and i128 have NoteBits bits.                             *)
(***************************************************************************)
EXTENDS Integers, Sequences, SequencesExt, FiniteSetsExt

CONSTANTS
  NoteBits,       \* width of NoteAmount and ExtAmount
  FieldModulus,   \* the order of the scalar field
  CircuitBits,    \* 248, the range check of outputs
  User,           \* the account that builds, and
  Other,          \* the one it sends to
  Unset,          \* a key the caller leaves out
  Payees,         \* addresses outside the pool
  MaxLanded,      \* bound: transactions on chain
  MaxCalls,       \* bound: transactions built, and of them
  MaxWallet,      \* bound: those outside the session
  MaxPayees,      \* bound: recipients of a session
  MaxEvents       \* bound: what else comes between the steps of a session: the
                  \* wallet's transactions, given-up ones and changes of the ASP

ASSUME FlowsAssumption ==
  /\ {NoteBits, FieldModulus, CircuitBits} \subseteq Nat \ {0}
  /\ FieldModulus > 4 * 2 ^ NoteBits /\ 2 ^ NoteBits \in 2..(2 ^ CircuitBits)
  /\ User # Other /\ Unset \notin {User, Other}
  /\ {MaxLanded, MaxCalls, MaxWallet, MaxPayees, MaxEvents} \subseteq Nat

VARIABLES
  pool,      \* the pool: leaves with ciphertexts, nullifiers, payouts
  asp,       \* version of the ASP trees
  built,     \* the last transaction, and what the caller knows of it
  late,      \* transactions the caller gave up on, which may land yet
  bulk,      \* the bulk session
  blinding,  \* the next random blinding
  calls      \* transactions built by the session and the wallet, and upsets, to
             \* bound them

flowsVars == <<pool, asp, built, late, bulk, blinding, calls>>

-----------------------------------------------------------------------------
(* Amounts.                                                                *)

NoteMax == 2 ^ NoteBits - 1

ExtMin == - (2 ^ (NoteBits - 1))

ExtAmounts == ExtMin..(- ExtMin - 1)

Overflow == -1

checked_add(a, b) == IF a + b > NoteMax THEN Overflow ELSE a + b

\* The sum of the amounts of the first n notes, or payouts, of a list.
SumFirst(notes, n) ==
  LET sum[k \in Nat] == IF k = 0 THEN 0 ELSE sum[k - 1] + notes[k].amount
  IN  sum[n]

SumAmounts(notes) == SumFirst(notes, Len(notes))

\* No amount is negative, so one of the checked additions fails exactly if the
\* whole sum is too large.
sum_note_amounts(notes) == checked_add(SumAmounts(notes), 0)

\* Mutant: the signed number as it is.
field_from_ext_Mutant(x) == x

\* A withdrawal is the negative of its amount in the field.
field_from_ext(x) == IF x < 0 THEN FieldModulus + x ELSE x

-----------------------------------------------------------------------------
(* Notes and what the circuit asks of them.                                *)

Note(amount, key, b) == [amount |-> amount, key |-> key, blinding |-> b]

Nullifier(note, index) == <<note, index>>

\* The indices of a note in the tree, which count from 0 as on chain.
IndicesOf(note) == {k - 1 : k \in {j \in 1..Len(pool.leaves) : pool.leaves[j].note = note}}

\* PolicyTransaction over the inputs, outputs and public amount of artifacts.
CircuitHolds(a) ==
  /\ \A k \in 1..2 : a.ins[k].amount # 0 =>
       a.index[k] < a.root /\ pool.leaves[a.index[k] + 1].note = a.ins[k]
  /\ \A k \in 1..2 : a.outs[k].note.amount < 2 ^ CircuitBits
  /\ Nullifier(a.ins[1], a.index[1]) # Nullifier(a.ins[2], a.index[2])
  /\ (SumAmounts(a.ins) + a.public_amount) % FieldModulus
       = (a.outs[1].note.amount + a.outs[2].note.amount) % FieldModulus

-----------------------------------------------------------------------------
(* transact.                                                               *)

\* Mutant: the equation in arithmetic that wraps.
balanced_Mutant(inputs, ext, outputs) ==
  (SumAmounts(inputs) + ext - SumAmounts(outputs)) % (NoteMax + 1) = 0

\* The conservation equation, in checked arithmetic.
balanced(inputs, ext, outputs) ==
  LET i == sum_note_amounts(inputs)
      o == sum_note_amounts(outputs)
  IN  /\ Overflow \notin {i, o}
      /\ ext # ExtMin
      /\ IF ext >= 0 THEN checked_add(i, ext) = o ELSE i = checked_add(o, - ext)

\* Mutant: one key of the pair is enough.
keys_paired_Mutant(outputs) == TRUE

\* Both keys of an output are set, or neither; whose they are is not compared.
keys_paired(outputs) ==
  \A k \in 1..Len(outputs) : (outputs[k].to_note = Unset) = (outputs[k].to_enc = Unset)

\* A caller gives inputs [amount, blinding, index] and outputs
\* [amount, blinding, to_note, to_enc].
acceptable(inputs, ext, outputs) ==
  /\ Len(outputs) <= 2 /\ Len(inputs) <= 2
  /\ balanced(inputs, ext, outputs)
  /\ keys_paired(outputs)

dummy_input(b) == [amount |-> 0, blinding |-> b, index |-> 0]

zero_output(b) == [amount |-> 0, blinding |-> b, to_note |-> Unset, to_enc |-> Unset]

\* Both arrays are padded to two, each slot with a blinding of its own.
padded_inputs(slots, b) == slots \o [k \in 1..(2 - Len(slots)) |-> dummy_input(b + k - 1)]

padded_outputs(slots, b) == slots \o [k \in 1..(2 - Len(slots)) |-> zero_output(b + k - 1)]

\* A key left out is the sender's own.
KeyOf(key) == IF key = Unset THEN User ELSE key

commitment(out) == Note(out.amount, KeyOf(out.to_note), out.blinding)

\* What is encrypted, and to whom.
encrypt_output_note(out) ==
  [to |-> KeyOf(out.to_enc), amount |-> out.amount, blinding |-> out.blinding]

\* The caller named both keys, of two accounts: remembered for a property only.
mixed(out) == Unset \notin {out.to_note, out.to_enc} /\ out.to_note # out.to_enc

artifacts(inputs, ext, outputs, recipient, version, by) ==
  LET ins  == padded_inputs(inputs, blinding)
      outs == padded_outputs(outputs, blinding + 2)
  IN  [ ins           |-> [k \in 1..2 |-> Note(ins[k].amount, User, ins[k].blinding)],
        index         |-> [k \in 1..2 |-> ins[k].index],
        outs          |-> [k \in 1..2 |-> [note   |-> commitment(outs[k]),
                                           cipher |-> encrypt_output_note(outs[k]),
                                           mixed  |-> mixed(outs[k])]],
        root          |-> Len(pool.leaves),
        public_amount |-> field_from_ext(ext),
        ext           |-> ext,
        recipient     |-> recipient,
        asp           |-> version,
        by            |-> by,
        state         |-> "sent" ]

NoArtifacts == [state |-> "none"]

-----------------------------------------------------------------------------
(* Deposits, withdrawals and transfers of the user.                        *)

\* The notes the user derives from the outputs on chain: those that open, are
\* not zero, and match the commitment.
try_decrypt_and_derive_user_note(account, k) ==
  LET l == pool.leaves[k]
      n == Note(l.cipher.amount, account, l.cipher.blinding)
  IN  IF l.cipher.to = account /\ l.cipher.amount # 0 /\ n = l.note
      THEN {[note |-> n, nullifier |-> Nullifier(l.note, k - 1)]} ELSE {}

UserInputs == {[amount |-> d.note.amount, blinding |-> d.note.blinding, index |-> d.nullifier[2]] :
                 d \in UNION {try_decrypt_and_derive_user_note(User, k) : k \in 1..Len(pool.leaves)}}

\* Up to two of them; the order of two does not matter.
InputLists ==
  {<<>>} \union {<<i>> : i \in UserInputs}
    \union {p \in UserInputs \X UserInputs : p[1].index <= p[2].index}

\* An output to oneself, to the other account, with keys of both, or with one
\* key left out.
Outputs(b) ==
  [amount : 0..NoteMax, blinding : {b},
   to_note : {User, Other, Unset}, to_enc : {User, Other, Unset}]

\* Nothing, one output, one and change to oneself, or too many.
OutputLists ==
  {<<>>, [k \in 1..3 |-> zero_output(blinding + k)]}
    \union {<<o>> : o \in Outputs(blinding + 4)}
    \union {<<o, [zero_output(blinding + 5) EXCEPT !.amount = a]>> :
              o \in Outputs(blinding + 4), a \in 0..NoteMax}

\* One call at a time; a session's step is not interrupted.
MayCall == built.state # "sent" /\ calls.wallet + calls.bulk < MaxCalls

MayUpset == calls.wallet + calls.upsets < MaxEvents

MayPay == MayCall /\ MayUpset /\ bulk.state # "flight" /\ calls.wallet < MaxWallet

Builds(inputs, ext, outputs, recipient, version, by) ==
  /\ acceptable(inputs, ext, outputs)
  /\ built' = artifacts(inputs, ext, outputs, recipient, version, by)
  /\ blinding' = blinding + 6
  /\ calls' = [calls EXCEPT ![by] = @ + 1]
  /\ UNCHANGED <<pool, asp, late>>

deposit ==
  /\ MayPay
  /\ \E amount \in ExtAmounts, outputs \in OutputLists :
       Builds(<<>>, amount, outputs, "pool", asp, "wallet")
  /\ UNCHANGED bulk

\* The outputs made up when the caller gives none: the change, and a dummy.
change_outputs(total, amount) ==
  <<[zero_output(blinding + 4) EXCEPT !.amount = total - amount], zero_output(blinding + 5)>>

\* NoteAmount::try_from refuses a negative amount.
covers(inputs, amount) ==
  /\ amount >= 0
  /\ sum_note_amounts(inputs) # Overflow /\ sum_note_amounts(inputs) >= amount

withdraw ==
  /\ MayPay
  /\ \E inputs \in InputLists, amount \in ExtAmounts, to \in Payees :
       /\ covers(inputs, amount)
       /\ \E outputs \in OutputLists \union {change_outputs(sum_note_amounts(inputs), amount)} :
            Builds(inputs, - amount, outputs, to, asp, "wallet")
  /\ UNCHANGED bulk

transfer ==
  /\ MayPay
  /\ \E inputs \in InputLists \ {<<>>}, outputs \in OutputLists :
       Builds(inputs, 0, outputs, "pool", asp, "wallet")
  /\ UNCHANGED bulk

-----------------------------------------------------------------------------
(* BulkWithdrawSession.                                                    *)

NoBulk == [state |-> "none"]

PayLists == UNION {[1..n -> [to : Payees, amount : ExtAmounts]] : n \in 0..MaxPayees}

\* The balance after each payout in turn never goes below zero.
affordable(balance, recipients) ==
  /\ \A k \in 1..Len(recipients) : recipients[k].amount >= 0
  /\ SumAmounts(recipients) <= balance

\* new: one blinding per step is drawn ahead; the ASP proofs are those of now.
bulk_new ==
  /\ bulk = NoBulk
  /\ \E input \in UserInputs, recipients \in PayLists \ {<<>>} :
       /\ affordable(input.amount, recipients)
       /\ bulk' = [state |-> "ready", recipients |-> recipients, step |-> 0, asp |-> asp,
                   change |-> [k \in 1..Len(recipients) |-> blinding + k - 1],
                   amount |-> input.amount, blinding |-> input.blinding]
       /\ blinding' = blinding + Len(recipients)
  /\ UNCHANGED <<pool, asp, built, late, calls>>

is_done == bulk.step >= Len(bulk.recipients)

CurrentNote == Note(bulk.amount, User, bulk.blinding)

Payee == bulk.recipients[bulk.step + 1]

\* build_step with the witness of the current note, and withdraw on what it
\* returns.
build_step ==
  /\ MayCall /\ bulk.state = "ready" /\ ~ is_done
  /\ \E index \in IndicesOf(CurrentNote) :
       LET inputs == <<[amount |-> bulk.amount, blinding |-> bulk.blinding, index |-> index]>>
       IN  /\ covers(inputs, Payee.amount)
           /\ Builds(inputs, - Payee.amount,
                     <<[zero_output(bulk.change[bulk.step + 1]) EXCEPT !.amount = bulk.amount - Payee.amount],
                       zero_output(blinding + 5)>>, Payee.to, bulk.asp, "bulk")
  /\ bulk' = [bulk EXCEPT !.state = "flight"]

\* Mutant: the blinding of the next step's change is taken.
advanced_Mutant ==
  [bulk EXCEPT !.state = "ready", !.step = @ + 1, !.amount = @ - Payee.amount,
               !.blinding = bulk.change[Min({bulk.step + 2, Len(bulk.change)})]]

advanced ==
  [bulk EXCEPT !.state = "ready", !.step = @ + 1, !.amount = @ - Payee.amount,
               !.blinding = bulk.change[bulk.step + 1]]

\* The step is confirmed.
advance ==
  /\ bulk.state = "flight" /\ built.state = "landed"
  /\ bulk' = advanced
  /\ UNCHANGED <<pool, asp, built, late, blinding, calls>>

\* The step was refused, or nothing is known of it: it is built again.
step_again ==
  /\ bulk.state = "flight" /\ built.state \in {"rejected", "lost"}
  /\ bulk' = [bulk EXCEPT !.state = "ready"]
  /\ UNCHANGED <<pool, asp, built, late, blinding, calls>>

-----------------------------------------------------------------------------
(* The pool and the network.                                               *)

Accepted(a) ==
  /\ CircuitHolds(a) /\ a.asp = asp
  /\ \A k \in 1..2 : Nullifier(a.ins[k], a.index[k]) \notin pool.spent

Landed(a) ==
  [leaves |-> pool.leaves \o a.outs,
   spent  |-> pool.spent \union {Nullifier(a.ins[k], a.index[k]) : k \in 1..2},
   paid   |-> IF a.by = "bulk" THEN Append(pool.paid, [to |-> a.recipient, amount |-> - a.ext])
              ELSE pool.paid]

HasRoom == Len(pool.leaves) < 2 * MaxLanded

land ==
  /\ built.state = "sent" /\ HasRoom
  /\ IF Accepted(built)
     THEN pool' = Landed(built) /\ built' = [built EXCEPT !.state = "landed"]
     ELSE UNCHANGED pool /\ built' = [built EXCEPT !.state = "rejected"]
  /\ UNCHANGED <<asp, late, bulk, blinding, calls>>

Upset == MayUpset /\ calls' = [calls EXCEPT !.upsets = @ + 1]

give_up ==
  /\ built.state = "sent" /\ Upset
  /\ built' = [built EXCEPT !.state = "lost"]
  /\ late' = late \union {built}
  /\ UNCHANGED <<pool, asp, bulk, blinding>>

lands_late ==
  /\ HasRoom
  /\ \E a \in late :
       /\ late' = late \ {a}
       /\ pool' = IF Accepted(a) THEN Landed(a) ELSE pool
  /\ UNCHANGED <<asp, built, bulk, blinding, calls>>

asp_changes ==
  /\ Upset
  /\ asp' = asp + 1
  /\ UNCHANGED <<pool, built, late, bulk, blinding>>

Own(amount, b) ==
  [note   |-> Note(amount, User, b),
   cipher |-> [to |-> User, amount |-> amount, blinding |-> b],
   mixed  |-> FALSE]

\* The user has two notes from earlier transactions.
FlowsInit ==
  /\ pool = [leaves |-> <<Own(NoteMax, 1), Own(1, 2)>>, spent |-> {}, paid |-> <<>>]
  /\ asp = 0 /\ blinding = 3 /\ calls = [wallet |-> 0, bulk |-> 0, upsets |-> 0]
  /\ built = NoArtifacts /\ late = {} /\ bulk = NoBulk

FlowsNext ==
  \/ deposit \/ withdraw \/ transfer
  \/ bulk_new \/ build_step \/ advance \/ step_again
  \/ land \/ give_up \/ lands_late \/ asp_changes

FlowsSpec == FlowsInit /\ [][FlowsNext]_flowsVars

-----------------------------------------------------------------------------
\* Every variable of the builder stays in its type: amounts never leave their
\* width, and a session is within its list.
FlowsTypeOK ==
  /\ \A k \in 1..Len(pool.leaves) : pool.leaves[k].note.amount \in 0..NoteMax
  /\ built.state # "none" => built.public_amount \in 0..(FieldModulus - 1)
  /\ built.state \in {"none", "sent", "landed", "rejected", "lost"}
  /\ bulk.state \in {"none", "ready", "flight"}
  /\ bulk # NoBulk => /\ bulk.step \in 0..Len(bulk.recipients)
                      /\ bulk.amount \in 0..NoteMax
  /\ asp \in Nat

\* Whatever the flows return can be proved: sums that did not overflow, the
\* negative of a withdrawal in the field, and padding with distinct nullifiers
\* meet every constraint of the circuit.  The one exception is a caller that
\* names a note twice, which transact does not notice.
BuiltIsProvable ==
  built.state = "sent" =>
    \/ CircuitHolds(built)
    \/ built.ins[1].amount # 0 /\ built.ins[1] = built.ins[2] /\ built.index[1] = built.index[2]

\* The ciphertext of output k opens for the account whose note it is, and gives
\* the amount and blinding of the commitment and the nullifier that spending it
\* will publish.
CanBeFound(k) ==
  \E account \in {User, Other} :
    \E d \in try_decrypt_and_derive_user_note(account, k) :
      d.note = pool.leaves[k].note /\ d.nullifier = Nullifier(d.note, k - 1)

\* An output that holds value is lost only through its caller: transact compares
\* which keys are set and not whose they are, so the outputs that nobody finds
\* are exactly those for which the caller set keys of two accounts.  A key left
\* out, padding and change never lose one.
OutputsAreFindable ==
  \A k \in 1..Len(pool.leaves) : pool.leaves[k].note.amount # 0 =>
    (CanBeFound(k) <=> ~ pool.leaves[k].mixed)

\* Steps that are built again after a timeout, and transactions that land after
\* their caller gave up on them, never pay a recipient twice or out of order.
BulkPaysInOrder ==
  bulk # NoBulk =>
    /\ IsPrefix(pool.paid, bulk.recipients)
    /\ Len(pool.paid) \in {bulk.step, bulk.step + 1}

\* A session that is not over always has its note: the change of the last step
\* is on chain under the blinding the session holds, and covers every recipient
\* that is left.
BulkCanContinue ==
  bulk.state = "ready" /\ ~ is_done =>
    /\ IndicesOf(CurrentNote) # {}
    /\ SumAmounts(SubSeq(bulk.recipients, bulk.step + 1, Len(bulk.recipients))) <= bulk.amount

\* A bulk session pays each recipient once and in order, and always has the note
\* that its next step spends.
BulkIsExact == BulkPaysInOrder /\ BulkCanContinue
=============================================================================
