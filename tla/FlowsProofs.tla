----------------------------- MODULE FlowsProofs -----------------------------
(***************************************************************************)
(* Theorems about Flows: whatever the builder returns can be proved, every *)
(* output that holds value can be found by its owner, and a bulk session   *)
(* pays each recipient once and in order, for every list of recipients and *)
(* over any number of steps that are lost, built again and land late.      *)
(***************************************************************************)
EXTENDS Flows, SequenceTheorems, WellFoundedInduction, TLAPS

-----------------------------------------------------------------------------
(* Types.                                                                  *)

Notes == [amount : 0..NoteMax, key : {User, Other}, blinding : Nat]

Ciphers == [to : {User, Other}, amount : 0..NoteMax, blinding : Nat]

\* The ciphertext of a leaf is of the note it commits to, and it is for the note's
\* account unless the caller set the keys of two.
Leaves ==
  {l \in [note : Notes, cipher : Ciphers, mixed : BOOLEAN] :
     /\ l.cipher.amount = l.note.amount /\ l.cipher.blinding = l.note.blinding
     /\ l.mixed <=> l.cipher.to # l.note.key}

Payouts == [to : Payees, amount : ExtAmounts]

Txs ==
  [ins : [1..2 -> Notes], index : [1..2 -> Nat], outs : [1..2 -> Leaves], root : Nat,
   public_amount : 0..(FieldModulus - 1), ext : Int, recipient : Payees \union {"pool"},
   asp : Nat, by : {"wallet", "bulk"}, state : {"sent", "landed", "rejected", "lost"}]

Sessions ==
  [state : {"ready", "flight"}, recipients : Seq(Payouts), step : Nat, asp : Nat,
   change : Seq(Nat), amount : 0..NoteMax, blinding : Nat]

TypesOK ==
  /\ pool \in [leaves : Seq(Leaves), spent : SUBSET (Notes \X Nat),
               paid : Seq([to : Payees \union {"pool"}, amount : Int])]
  /\ asp \in Nat /\ blinding \in Nat
  /\ built \in Txs \union {NoArtifacts}
  /\ late \subseteq {a \in Txs : a.state = "sent"}
  /\ bulk \in Sessions \union {NoBulk}

-----------------------------------------------------------------------------
(* The inductive invariant.                                                *)

OnChain(b) == \E k \in 1..Len(pool.leaves) : pool.leaves[k].note.blinding = b

\* No blinding is on chain twice, and the next one is new.
LeavesOK ==
  /\ \A i \in 1..Len(pool.leaves) : pool.leaves[i].note.blinding < blinding
  /\ \A i, j \in 1..Len(pool.leaves) :
       pool.leaves[i].note.blinding = pool.leaves[j].note.blinding => i = j

\* The outputs of a transaction whose blindings no other transaction has: all but
\* the change of a step, which every transaction built for that step shares.
OwnOutputs(a) == IF a.by = "bulk" THEN {2} ELSE {1, 2}

\* A transaction of a session can only land as the session's current step.
StepOK(a) ==
  \/ Nullifier(a.ins[1], a.index[1]) \in pool.spent
  \/ /\ bulk.step < Len(bulk.recipients) /\ Len(pool.paid) = bulk.step
     /\ a.ins[1] = CurrentNote /\ a.index[1] \in IndicesOf(CurrentNote)
     /\ a.recipient = Payee.to /\ a.ext = - Payee.amount
     /\ Payee.amount \in 0..bulk.amount
     /\ a.outs[1].note = Note(bulk.amount - Payee.amount, User, bulk.change[bulk.step + 1])

\* A transaction that may still land.
PendingOK(a) ==
  /\ \A k \in OwnOutputs(a) :
       /\ a.outs[k].note.blinding < blinding
       /\ ~ OnChain(a.outs[k].note.blinding)
       /\ bulk # NoBulk =>
            \A j \in 1..Len(bulk.change) : a.outs[k].note.blinding # bulk.change[j]
  /\ a.by = "wallet" => a.outs[1].note.blinding # a.outs[2].note.blinding
  /\ a.by = "bulk" => bulk # NoBulk /\ StepOK(a)

Apart(a, b) ==
  \A i \in OwnOutputs(a), j \in OwnOutputs(b) : a.outs[i].note.blinding # b.outs[j].note.blinding

NetworkOK ==
  /\ built.state = "sent" => PendingOK(built)
  /\ \A a \in late : PendingOK(a)
  /\ \A a, b \in late : a # b => Apart(a, b)
  /\ built.state = "sent" => \A a \in late : Apart(built, a)

\* What is left to pay from step s on.
LeftFrom(s) == SumAmounts(bulk.recipients) - SumFirst(bulk.recipients, s)

PaidOK ==
  /\ Len(pool.paid) \in {bulk.step, bulk.step + 1}
  /\ bulk.step <= Len(bulk.recipients) /\ Len(pool.paid) <= Len(bulk.recipients)
  /\ \A k \in 1..Len(pool.paid) : pool.paid[k] = bulk.recipients[k]

ChangeOK ==
  /\ Len(bulk.change) = Len(bulk.recipients)
  /\ \A k \in 1..Len(bulk.change) : bulk.change[k] < blinding
  /\ \A i, j \in 1..Len(bulk.change) : bulk.change[i] = bulk.change[j] => i = j
  /\ \A k \in (Len(pool.paid) + 1)..Len(bulk.change) : ~ OnChain(bulk.change[k])

\* A step that is paid spent the session's note, and left its change on chain.
StepPaidOK ==
  Len(pool.paid) = bulk.step + 1 =>
    /\ IndicesOf(Note(bulk.amount - Payee.amount, User, bulk.change[bulk.step + 1])) # {}
    /\ \A i \in IndicesOf(CurrentNote) : Nullifier(CurrentNote, i) \in pool.spent

FlightOK ==
  bulk.state = "flight" =>
    /\ built.state # "none" /\ built.by = "bulk"
    /\ bulk.step < Len(bulk.recipients) /\ Payee.amount \in 0..bulk.amount
    /\ built.state = "landed" => Len(pool.paid) = bulk.step + 1

SessionOK ==
  IF bulk = NoBulk THEN pool.paid = <<>>
  ELSE /\ PaidOK /\ ChangeOK /\ StepPaidOK /\ FlightOK
       /\ IndicesOf(CurrentNote) # {}
       /\ LeftFrom(bulk.step) <= bulk.amount

ProofOK ==
  /\ built.state # "none" => built.root <= Len(pool.leaves)
  /\ BuiltIsProvable

FlowsInv == TypesOK /\ LeavesOK /\ NetworkOK /\ SessionOK /\ ProofOK

-----------------------------------------------------------------------------
(* Amounts and their sums.                                                 *)

\* The widths leave room for every amount in the field and in the circuit.
LEMMA Widths ==
  /\ NoteMax \in Nat /\ NoteMax >= 1 /\ NoteMax < 2 ^ CircuitBits /\ 2 ^ CircuitBits \in Int
  /\ FieldModulus \in Nat /\ FieldModulus > 4 * NoteMax /\ Overflow \notin Nat
<1>1. /\ 2 ^ NoteBits \in Int /\ 2 ^ CircuitBits \in Int /\ FieldModulus \in Nat
  BY FlowsAssumption
<1>2. /\ 2 ^ NoteBits >= 2 /\ 2 ^ NoteBits <= 2 ^ CircuitBits /\ FieldModulus > 4 * 2 ^ NoteBits
  BY <1>1, FlowsAssumption
<1> QED
  BY <1>1, <1>2 DEF NoteMax, Overflow

\* External amounts are integers.
LEMMA ExtAmountsAreInts == ExtMin \in Int /\ ExtAmounts \subseteq Int
<1>1. NoteBits - 1 \in Nat
  BY FlowsAssumption
<1>2. ExtMin \in Int
  BY <1>1 DEF ExtMin
<1> QED
  BY <1>2 DEF ExtAmounts

\* The field holds a sum of amounts as it is, and the order of the field is its zero.
LEMMA FieldSums ==
  ASSUME NEW x \in Nat, x < FieldModulus
  PROVE  x % FieldModulus = x /\ (x + FieldModulus) % FieldModulus = x
<1>1. FieldModulus \in Nat \ {0}
  BY FlowsAssumption
<1>2. x % FieldModulus = x
  BY <1>1
<1>3. (x + FieldModulus) % FieldModulus = x
  BY <1>1
<1> QED
  BY <1>2, <1>3

\* A set of numbers that is not empty has a least one.
LEMMA Least ==
  ASSUME NEW T, T \subseteq Nat, T # {}
  PROVE  \E x \in T : \A y \in T : x <= y
<1> DEFINE R == OpToRel(<, Nat)
<1>1. IsWellFoundedOn(R, Nat)
  BY NatLessThanWellFounded, Zenon
<1>2. \A x, y \in Nat : y < x => <<y, x>> \in R
  BY DEF OpToRel
<1> HIDE DEF R
<1>3. PICK x \in T : \A y \in T : ~ (<<y, x>> \in R)
  BY <1>1, WFMin
<1>4. ASSUME NEW y \in T PROVE x <= y
  <2>1. x \in Nat /\ y \in Nat /\ ~ (<<y, x>> \in R)
    BY <1>3
  <2>2. ~ (y < x)
    BY <1>2, <2>1
  <2> QED
    BY <2>1, <2>2
<1> QED
  BY <1>4

\* The partial sums of a list, as a function on 0..n.
PartialSums(g, notes, n) ==
  /\ g = [k \in 0..n |-> g[k]]
  /\ g[0] = 0
  /\ \A k \in 1..n : g[k] = g[k - 1] + notes[k].amount

\* Partial sums exist up to every n.
LEMMA PartialSumsExist ==
  ASSUME NEW notes, NEW n \in Nat
  PROVE  \E g : PartialSums(g, notes, n)
<1> DEFINE T == {m \in Nat : ~ (\E g : PartialSums(g, notes, m))}
<1> SUFFICES ASSUME T # {} PROVE FALSE
  OBVIOUS
<1>1. PICK m \in T : \A y \in T : m <= y
  BY Least
<1>2. CASE m = 0
  <2>1. PartialSums([k \in 0..0 |-> 0], notes, 0)
    BY DEF PartialSums
  <2> QED
    BY <1>1, <1>2, <2>1
<1>3. CASE m # 0
  <2>1. m \in Nat /\ m - 1 \in Nat /\ m - 1 \notin T
    BY <1>1, <1>3
  <2>2. PICK g : PartialSums(g, notes, m - 1)
    BY <2>1
  <2> DEFINE h == [k \in 0..m |-> IF k = m THEN g[m - 1] + notes[m].amount ELSE g[k]]
  <2>3. h[0] = 0 /\ h = [k \in 0..m |-> h[k]]
    BY <1>3, <2>1, <2>2 DEF PartialSums
  <2>4. ASSUME NEW k \in 1..m PROVE h[k] = h[k - 1] + notes[k].amount
    <3>1. k \in 0..m /\ k - 1 \in 0..m /\ k - 1 # m
      BY <2>1
    <3>2. h[k - 1] = g[k - 1]
      BY <3>1
    <3>3. CASE k = m
      BY <3>1, <3>2, <3>3
    <3>4. CASE k # m
      <4>1. k \in 1..(m - 1)
        BY <2>1, <3>4
      <4>2. g[k] = g[k - 1] + notes[k].amount
        BY <2>2, <4>1 DEF PartialSums
      <4> QED
        BY <3>1, <3>2, <3>4, <4>2
    <3> QED
      BY <3>3, <3>4
  <2>5. PartialSums(h, notes, m)
    BY <2>3, <2>4 DEF PartialSums
  <2> QED
    BY <1>1, <2>5
<1> QED
  BY <1>2, <1>3

\* Partial sums agree where both are defined.
LEMMA PartialSumsAgree ==
  ASSUME NEW notes, NEW n \in Nat, NEW m \in Nat, n <= m,
         NEW g, NEW h, PartialSums(g, notes, n), PartialSums(h, notes, m)
  PROVE  \A k \in 0..n : g[k] = h[k]
<1> DEFINE T == {k \in 0..n : g[k] # h[k]}
<1> SUFFICES ASSUME T # {} PROVE FALSE
  OBVIOUS
<1>1. T \subseteq Nat
  OBVIOUS
<1>2. PICK k \in T : \A y \in T : k <= y
  BY <1>1, Least
<1>3. k # 0
  BY <1>2 DEF PartialSums
<1>4. k - 1 \in 0..n /\ k \in 1..n /\ k \in 1..m /\ k - 1 \notin T
  BY <1>2, <1>3
<1>5. g[k - 1] = h[k - 1]
  BY <1>4
<1>6. g[k] = g[k - 1] + notes[k].amount /\ h[k] = h[k - 1] + notes[k].amount
  BY <1>4 DEF PartialSums
<1> QED
  BY <1>2, <1>5, <1>6

\* What SumFirst computes.
LEMMA SumStep ==
  ASSUME NEW notes
  PROVE  /\ SumFirst(notes, 0) = 0
         /\ \A n \in Nat : SumFirst(notes, n + 1) = SumFirst(notes, n) + notes[n + 1].amount
<1> DEFINE G(n) == CHOOSE g : PartialSums(g, notes, n)
           F == [n \in Nat |-> G(n)[n]]
           sum == CHOOSE f : f = [k \in Nat |-> IF k = 0 THEN 0 ELSE f[k - 1] + notes[k].amount]
<1>1. \A n \in Nat : PartialSums(G(n), notes, n)
  BY PartialSumsExist
<1> HIDE DEF G
<1>2. F[0] = 0
  BY <1>1 DEF PartialSums
<1>3. ASSUME NEW n \in Nat \ {0} PROVE F[n] = F[n - 1] + notes[n].amount
  <2>1. PartialSums(G(n - 1), notes, n - 1) /\ PartialSums(G(n), notes, n) /\ n - 1 \in Nat
    BY <1>1
  <2>2. G(n - 1)[n - 1] = G(n)[n - 1]
    BY <2>1, PartialSumsAgree
  <2>3. G(n)[n] = G(n)[n - 1] + notes[n].amount
    <3>1. n \in 1..n
      OBVIOUS
    <3> QED
      BY <2>1, <3>1 DEF PartialSums
  <2> QED
    BY <2>1, <2>2, <2>3
<1> HIDE DEF F
<1>4. F = [n \in Nat |-> F[n]]
  BY DEF F
<1>5. F = [k \in Nat |-> IF k = 0 THEN 0 ELSE F[k - 1] + notes[k].amount]
  BY <1>2, <1>3, <1>4
<1>6. sum = [k \in Nat |-> IF k = 0 THEN 0 ELSE sum[k - 1] + notes[k].amount]
  BY <1>5, Zenon
<1>7. \A n : SumFirst(notes, n) = sum[n]
  BY DEF SumFirst
<1> HIDE DEF sum
<1>8. sum[0] = 0 /\ \A n \in Nat : sum[n + 1] = sum[n] + notes[n + 1].amount
  BY <1>6
<1> QED
  BY <1>7, <1>8

\* Sums of integers are integers.
LEMMA SumIsInt ==
  ASSUME NEW notes, NEW n \in Nat, \A k \in 1..n : notes[k].amount \in Int
  PROVE  \A k \in 0..n : SumFirst(notes, k) \in Int
<1> DEFINE T == {k \in 0..n : SumFirst(notes, k) \notin Int}
<1> SUFFICES ASSUME T # {} PROVE FALSE
  OBVIOUS
<1>1. T \subseteq Nat
  OBVIOUS
<1>2. PICK k \in T : \A y \in T : k <= y
  BY <1>1, Least
<1>3. k # 0
  BY <1>2, SumStep
<1>4. k - 1 \in 0..n /\ k \in 1..n /\ k - 1 \in Nat /\ (k - 1) + 1 = k
  BY <1>2, <1>3
<1>5. k - 1 \notin T
  BY <1>2, <1>4
<1>6. SumFirst(notes, k) = SumFirst(notes, k - 1) + notes[k].amount
  BY <1>4, SumStep
<1> QED
  BY <1>2, <1>4, <1>5, <1>6

\* The sums of the lists that a transaction has.
LEMMA ShortSums ==
  ASSUME NEW notes
  PROVE  /\ Len(notes) = 0 => SumAmounts(notes) = 0
         /\ Len(notes) = 1 => SumAmounts(notes) = 0 + notes[1].amount
         /\ Len(notes) = 2 => SumAmounts(notes) = 0 + notes[1].amount + notes[2].amount
<1>1. SumFirst(notes, 0) = 0
  BY SumStep
<1>2. SumFirst(notes, 1) = 0 + notes[1].amount
  <2>1. SumFirst(notes, 0 + 1) = SumFirst(notes, 0) + notes[0 + 1].amount
    BY SumStep
  <2> QED BY <1>1, <2>1
<1>3. SumFirst(notes, 2) = 0 + notes[1].amount + notes[2].amount
  <2>1. SumFirst(notes, 1 + 1) = SumFirst(notes, 1) + notes[1 + 1].amount
    BY SumStep
  <2> QED BY <1>2, <2>1
<1> QED
  BY <1>1, <1>2, <1>3 DEF SumAmounts

\* What a list sums to from its place s on.
LEMMA SumOfRest ==
  ASSUME NEW r \in Seq(Payouts), NEW s \in 0..Len(r)
  PROVE  SumAmounts(SubSeq(r, s + 1, Len(r))) = SumAmounts(r) - SumFirst(r, s)
<1> DEFINE t == SubSeq(r, s + 1, Len(r))
           T == {k \in 0..Len(t) : SumFirst(t, k) # SumFirst(r, s + k) - SumFirst(r, s)}
<1>1. Len(t) = Len(r) - s /\ Len(t) \in Nat /\ \A k \in 1..Len(t) : t[k] = r[s + k]
  OBVIOUS
<1>2. ASSUME NEW k \in 1..Len(r) PROVE r[k].amount \in Int
  <2>1. r[k] \in Payouts
    OBVIOUS
  <2> QED
    BY <2>1, ExtAmountsAreInts DEF Payouts
<1>3. \A k \in 0..Len(r) : SumFirst(r, k) \in Int
  <2>1. Len(r) \in Nat
    OBVIOUS
  <2> QED
    BY <1>2, <2>1, SumIsInt
<1> HIDE DEF t
<1>4. T = {}
  <2> SUFFICES ASSUME T # {} PROVE FALSE
    OBVIOUS
  <2>1. T \subseteq Nat
    BY <1>1
  <2>2. PICK k \in T : \A y \in T : k <= y
    BY <2>1, Least
  <2>3. k # 0
    BY <1>3, <2>2, SumStep
  <2>4. /\ k - 1 \in 0..Len(t) /\ k \in 1..Len(t) /\ k - 1 \in Nat /\ (k - 1) + 1 = k
        /\ s + (k - 1) \in Nat /\ s + (k - 1) \in 0..Len(r) /\ s + k \in 1..Len(r)
        /\ (s + (k - 1)) + 1 = s + k
    BY <1>1, <2>2, <2>3
  <2>5. k - 1 \notin T
    BY <2>2, <2>4
  <2>6. SumFirst(t, k) = SumFirst(t, k - 1) + t[k].amount
    BY <2>4, SumStep
  <2>7. SumFirst(r, s + k) = SumFirst(r, s + (k - 1)) + r[s + k].amount
    BY <2>4, SumStep
  <2>8. SumFirst(t, k - 1) = SumFirst(r, s + (k - 1)) - SumFirst(r, s) /\ t[k] = r[s + k]
    BY <1>1, <2>4, <2>5
  <2>9. /\ SumFirst(r, s + (k - 1)) \in Int /\ SumFirst(r, s) \in Int /\ r[s + k].amount \in Int
    BY <1>2, <1>3, <2>4
  <2>10. PICK w : w = SumFirst(r, s + (k - 1))
    OBVIOUS
  <2>11. SumFirst(t, k) = (w - SumFirst(r, s)) + r[s + k].amount
    BY <2>6, <2>8, <2>10
  <2>12. SumFirst(r, s + k) = w + r[s + k].amount
    BY <2>7, <2>10
  <2>13. SumFirst(t, k) = SumFirst(r, s + k) - SumFirst(r, s)
    <3>1. \A x, y, z \in Int : (x - y) + z = (x + z) - y
      OBVIOUS
    <3> QED
      BY <2>9, <2>10, <2>11, <2>12, <3>1
  <2> QED
    BY <2>2, <2>4, <2>13
<1>5. Len(t) \in 0..Len(t) /\ s + Len(t) = Len(r)
  BY <1>1
<1>6. SumFirst(t, Len(t)) = SumFirst(r, Len(r)) - SumFirst(r, s)
  BY <1>4, <1>5
<1> QED
  BY <1>6 DEF SumAmounts, t

-----------------------------------------------------------------------------
(* What transact builds.                                                   *)

Ins == [amount : 0..NoteMax, blinding : Nat, index : Nat]

Outs ==
  [amount : 0..NoteMax, blinding : Nat, to_note : {User, Other, Unset}, to_enc : {User, Other, Unset}]

Paired(out) == (out.to_note = Unset) = (out.to_enc = Unset)

\* Inputs name notes of the user that are in the tree; of two, both hold value.
InputsOK(inputs) ==
  /\ inputs \in Seq(Ins) /\ Len(inputs) <= 2
  /\ \A k \in 1..Len(inputs) :
       /\ inputs[k].index < Len(pool.leaves)
       /\ pool.leaves[inputs[k].index + 1].note = Note(inputs[k].amount, User, inputs[k].blinding)
  /\ Len(inputs) = 2 => inputs[1].amount # 0 /\ inputs[2].amount # 0

OutputsOK(outputs) == outputs \in Seq(Outs) /\ Len(outputs) <= 2

\* A list of at most two.
LEMMA ShortLists ==
  ASSUME NEW S, NEW s \in Seq(S), Len(s) <= 2
  PROVE  Len(s) = 0 \/ Len(s) = 1 \/ Len(s) = 2
<1>1. Len(s) \in Nat
  OBVIOUS
<1>2. \A l \in Nat : l <= 2 => l = 0 \/ l = 1 \/ l = 2
  OBVIOUS
<1> QED
  BY <1>1, <1>2

\* Padding fills the slots that are left with dummies.
LEMMA PaddedInputs ==
  ASSUME NEW slots \in Seq(Ins), Len(slots) <= 2, NEW b \in Nat
  PROVE  /\ Len(slots) = 0 => /\ padded_inputs(slots, b)[1] = dummy_input(b)
                              /\ padded_inputs(slots, b)[2] = dummy_input(b + 1)
         /\ Len(slots) = 1 => /\ padded_inputs(slots, b)[1] = slots[1]
                              /\ padded_inputs(slots, b)[2] = dummy_input(b)
         /\ Len(slots) = 2 => /\ padded_inputs(slots, b)[1] = slots[1]
                              /\ padded_inputs(slots, b)[2] = slots[2]
         /\ padded_inputs(slots, b)[1] \in Ins /\ padded_inputs(slots, b)[2] \in Ins
<1> DEFINE n == 2 - Len(slots)
           pad == [k \in 1..n |-> dummy_input(b + k - 1)]
<1>1. n \in Nat /\ Len(slots) \in 0..2
  <2>1. Len(slots) \in Nat
    OBVIOUS
  <2>2. \A l \in Nat : l <= 2 => 2 - l \in Nat /\ l \in 0..2
    OBVIOUS
  <2> QED
    BY <2>1, <2>2
<1>2. \A k \in Nat : dummy_input(b + k) \in Ins
  BY Widths DEF dummy_input, Ins
<1>3. pad \in Seq(Ins) /\ Len(pad) = n
  <2>1. \A k \in 1..n : b + k - 1 = b + (k - 1) /\ k - 1 \in Nat
    BY <1>1
  <2>2. \A k \in 1..n : dummy_input(b + k - 1) \in Ins
    BY <1>2, <2>1
  <2> HIDE DEF n
  <2> QED
    BY <1>1, <2>2
<1>4. padded_inputs(slots, b) = slots \o pad
  BY DEF padded_inputs
<1>5. ASSUME NEW k \in 1..2
      PROVE  padded_inputs(slots, b)[k] = IF k <= Len(slots) THEN slots[k] ELSE pad[k - Len(slots)]
  BY <1>1, <1>3, <1>4
<1>6. \A k \in 1..2 : k > Len(slots) => pad[k - Len(slots)] = dummy_input(b + (k - Len(slots)) - 1)
  BY <1>1
<1>7. CASE Len(slots) = 0
  <2>1. padded_inputs(slots, b)[1] = dummy_input(b + 0) /\ padded_inputs(slots, b)[2] = dummy_input(b + 1)
    BY <1>5, <1>6, <1>7
  <2>2. b + 0 = b
    OBVIOUS
  <2> QED BY <1>2, <1>7, <2>1, <2>2
<1>8. CASE Len(slots) = 1
  <2>1. padded_inputs(slots, b)[1] = slots[1] /\ padded_inputs(slots, b)[2] = dummy_input(b + 0)
    BY <1>5, <1>6, <1>8
  <2>2. b + 0 = b /\ slots[1] \in Ins
    BY <1>8
  <2> QED BY <1>2, <1>8, <2>1, <2>2
<1>9. CASE Len(slots) = 2
  <2>1. padded_inputs(slots, b)[1] = slots[1] /\ padded_inputs(slots, b)[2] = slots[2]
    BY <1>5, <1>9
  <2>2. slots[1] \in Ins /\ slots[2] \in Ins
    BY <1>9
  <2> QED BY <1>9, <2>1, <2>2
<1> QED
  BY <1>1, <1>7, <1>8, <1>9

\* The same for outputs.
LEMMA PaddedOutputs ==
  ASSUME NEW slots \in Seq(Outs), Len(slots) <= 2, NEW b \in Nat
  PROVE  /\ Len(slots) = 0 => /\ padded_outputs(slots, b)[1] = zero_output(b)
                              /\ padded_outputs(slots, b)[2] = zero_output(b + 1)
         /\ Len(slots) = 1 => /\ padded_outputs(slots, b)[1] = slots[1]
                              /\ padded_outputs(slots, b)[2] = zero_output(b)
         /\ Len(slots) = 2 => /\ padded_outputs(slots, b)[1] = slots[1]
                              /\ padded_outputs(slots, b)[2] = slots[2]
         /\ padded_outputs(slots, b)[1] \in Outs /\ padded_outputs(slots, b)[2] \in Outs
<1> DEFINE n == 2 - Len(slots)
           pad == [k \in 1..n |-> zero_output(b + k - 1)]
<1>1. n \in Nat /\ Len(slots) \in 0..2
  <2>1. Len(slots) \in Nat
    OBVIOUS
  <2>2. \A l \in Nat : l <= 2 => 2 - l \in Nat /\ l \in 0..2
    OBVIOUS
  <2> QED
    BY <2>1, <2>2
<1>2. \A k \in Nat : zero_output(b + k) \in Outs
  BY Widths DEF zero_output, Outs
<1>3. pad \in Seq(Outs) /\ Len(pad) = n
  <2>1. \A k \in 1..n : b + k - 1 = b + (k - 1) /\ k - 1 \in Nat
    BY <1>1
  <2>2. \A k \in 1..n : zero_output(b + k - 1) \in Outs
    BY <1>2, <2>1
  <2> HIDE DEF n
  <2> QED
    BY <1>1, <2>2
<1>4. padded_outputs(slots, b) = slots \o pad
  BY DEF padded_outputs
<1>5. ASSUME NEW k \in 1..2
      PROVE  padded_outputs(slots, b)[k] = IF k <= Len(slots) THEN slots[k] ELSE pad[k - Len(slots)]
  BY <1>1, <1>3, <1>4
<1>6. \A k \in 1..2 : k > Len(slots) => pad[k - Len(slots)] = zero_output(b + (k - Len(slots)) - 1)
  BY <1>1
<1>7. CASE Len(slots) = 0
  <2>1. padded_outputs(slots, b)[1] = zero_output(b + 0) /\ padded_outputs(slots, b)[2] = zero_output(b + 1)
    BY <1>5, <1>6, <1>7
  <2>2. b + 0 = b
    OBVIOUS
  <2> QED BY <1>2, <1>7, <2>1, <2>2
<1>8. CASE Len(slots) = 1
  <2>1. padded_outputs(slots, b)[1] = slots[1] /\ padded_outputs(slots, b)[2] = zero_output(b + 0)
    BY <1>5, <1>6, <1>8
  <2>2. b + 0 = b /\ slots[1] \in Outs
    BY <1>8
  <2> QED BY <1>2, <1>8, <2>1, <2>2
<1>9. CASE Len(slots) = 2
  <2>1. padded_outputs(slots, b)[1] = slots[1] /\ padded_outputs(slots, b)[2] = slots[2]
    BY <1>5, <1>9
  <2>2. slots[1] \in Outs /\ slots[2] \in Outs
    BY <1>9
  <2> QED BY <1>9, <2>1, <2>2
<1> QED
  BY <1>1, <1>7, <1>8, <1>9

\* Sums that pass the checked equation are equal as integers and in the field.
LEMMA BalancedSums ==
  ASSUME NEW i \in Nat, NEW o \in Nat, NEW ext \in Int,
         checked_add(i, 0) # Overflow, checked_add(o, 0) # Overflow,
         IF ext >= 0 THEN checked_add(checked_add(i, 0), ext) = checked_add(o, 0)
         ELSE checked_add(i, 0) = checked_add(checked_add(o, 0), - ext)
  PROVE  /\ field_from_ext(ext) \in 0..(FieldModulus - 1)
         /\ (i + field_from_ext(ext)) % FieldModulus = o % FieldModulus
<1>1. i <= NoteMax /\ o <= NoteMax /\ checked_add(i, 0) = i /\ checked_add(o, 0) = o
  BY Widths DEF checked_add
<1>2. o \in Nat /\ o < FieldModulus
  BY <1>1, Widths
<1>3. CASE ext >= 0
  <2>1. checked_add(i, ext) = o
    BY <1>1, <1>3
  <2>2. i + ext = o
    BY <1>1, <1>3, <2>1, Widths DEF checked_add
  <2>3. field_from_ext(ext) = ext /\ ext \in 0..(FieldModulus - 1)
    BY <1>2, <1>3, <2>2, Widths DEF field_from_ext
  <2> QED
    BY <2>2, <2>3
<1>4. CASE ~ (ext >= 0)
  <2>1. i = checked_add(o, - ext)
    BY <1>1, <1>4
  <2>2. i = o - ext
    BY <1>1, <1>4, <2>1, Widths DEF checked_add
  <2>3. field_from_ext(ext) = FieldModulus + ext /\ FieldModulus + ext \in 0..(FieldModulus - 1)
    BY <1>1, <1>4, <2>2, Widths DEF field_from_ext
  <2>4. i + field_from_ext(ext) = o + FieldModulus
    BY <2>2, <2>3, Widths
  <2>5. (o + FieldModulus) % FieldModulus = o /\ o % FieldModulus = o
    BY <1>2, FieldSums
  <2> QED
    BY <2>3, <2>4, <2>5
<1> QED
  BY <1>3, <1>4

\* Padding adds nothing to the sum of the inputs, nor to that of the outputs.
LEMMA PaddedSums ==
  ASSUME NEW inputs \in Seq(Ins), Len(inputs) <= 2, NEW outputs \in Seq(Outs), Len(outputs) <= 2,
         NEW b \in Nat, NEW c \in Nat
  PROVE  /\ SumAmounts(inputs) \in Nat /\ SumAmounts(outputs) \in Nat
         /\ padded_inputs(inputs, b)[1].amount + padded_inputs(inputs, b)[2].amount
              = SumAmounts(inputs)
         /\ padded_outputs(outputs, c)[1].amount + padded_outputs(outputs, c)[2].amount
              = SumAmounts(outputs)
<1>1. /\ SumAmounts(inputs) \in Nat
      /\ padded_inputs(inputs, b)[1].amount + padded_inputs(inputs, b)[2].amount = SumAmounts(inputs)
  <2> DEFINE p == padded_inputs(inputs, b)
  <2>1. /\ Len(inputs) = 0 => p[1].amount = 0 /\ p[2].amount = 0
        /\ Len(inputs) = 1 => p[1] = inputs[1] /\ p[2].amount = 0
        /\ Len(inputs) = 2 => p[1] = inputs[1] /\ p[2] = inputs[2]
        /\ p[1] \in Ins /\ p[2] \in Ins
    <3>1. \A e \in Nat : dummy_input(e).amount = 0
      BY DEF dummy_input
    <3>2. b + 1 \in Nat
      OBVIOUS
    <3> QED
      BY <3>1, <3>2, PaddedInputs
  <2> HIDE DEF p
  <2>2. p[1].amount \in Nat /\ p[2].amount \in Nat
    <3>1. \A e \in Ins : e.amount \in Nat
      BY Widths DEF Ins
    <3> QED
      BY <2>1, <3>1
  <2>4. Len(inputs) = 0 \/ Len(inputs) = 1 \/ Len(inputs) = 2
    BY ShortLists
  <2>5. p[1].amount + p[2].amount = SumAmounts(inputs)
    BY <2>1, <2>2, <2>4, ShortSums
  <2> QED
    BY <2>2, <2>5 DEF p
<1>2. /\ SumAmounts(outputs) \in Nat
      /\ padded_outputs(outputs, c)[1].amount + padded_outputs(outputs, c)[2].amount = SumAmounts(outputs)
  <2> DEFINE p == padded_outputs(outputs, c)
  <2>1. /\ Len(outputs) = 0 => p[1].amount = 0 /\ p[2].amount = 0
        /\ Len(outputs) = 1 => p[1] = outputs[1] /\ p[2].amount = 0
        /\ Len(outputs) = 2 => p[1] = outputs[1] /\ p[2] = outputs[2]
        /\ p[1] \in Outs /\ p[2] \in Outs
    <3>1. \A e \in Nat : zero_output(e).amount = 0
      BY DEF zero_output
    <3>2. c + 1 \in Nat
      OBVIOUS
    <3> QED
      BY <3>1, <3>2, PaddedOutputs
  <2> HIDE DEF p
  <2>2. p[1].amount \in Nat /\ p[2].amount \in Nat
    <3>1. \A e \in Outs : e.amount \in Nat
      BY Widths DEF Outs
    <3> QED
      BY <2>1, <3>1
  <2>4. Len(outputs) = 0 \/ Len(outputs) = 1 \/ Len(outputs) = 2
    BY ShortLists
  <2>5. p[1].amount + p[2].amount = SumAmounts(outputs)
    BY <2>1, <2>2, <2>4, ShortSums
  <2> QED
    BY <2>2, <2>5 DEF p
<1> QED
  BY <1>1, <1>2

\* a is what transact builds for inputs, an amount and outputs that it accepts.
Made(a, inputs, ext, outputs, recipient, version, by) ==
  /\ InputsOK(inputs) /\ OutputsOK(outputs) /\ ext \in Int /\ acceptable(inputs, ext, outputs)
  /\ recipient \in Payees \union {"pool"} /\ version \in Nat /\ by \in {"wallet", "bulk"}
  /\ a = artifacts(inputs, ext, outputs, recipient, version, by)

\* The fields of what is built, and the equation of the circuit.
FieldsOK(a, inputs, ext, outputs, recipient, by) ==
  /\ a \in Txs /\ a.state = "sent" /\ a.by = by /\ a.ext = ext /\ a.recipient = recipient
  /\ a.root = Len(pool.leaves)
  /\ \A k \in 1..2 :
       /\ a.ins[k] = Note(padded_inputs(inputs, blinding)[k].amount, User,
                          padded_inputs(inputs, blinding)[k].blinding)
       /\ a.index[k] = padded_inputs(inputs, blinding)[k].index
       /\ a.outs[k].note = commitment(padded_outputs(outputs, blinding + 2)[k])
  /\ (SumAmounts(a.ins) + a.public_amount) % FieldModulus
       = (a.outs[1].note.amount + a.outs[2].note.amount) % FieldModulus

\* What is built has these fields.
LEMMA ArtifactsTyped ==
  ASSUME TypesOK,
         NEW a, NEW inputs, NEW ext, NEW outputs, NEW recipient, NEW version, NEW by,
         Made(a, inputs, ext, outputs, recipient, version, by)
  PROVE  FieldsOK(a, inputs, ext, outputs, recipient, by)
<1> DEFINE ins  == padded_inputs(inputs, blinding)
           outs == padded_outputs(outputs, blinding + 2)
<1>0. /\ InputsOK(inputs) /\ OutputsOK(outputs) /\ ext \in Int /\ acceptable(inputs, ext, outputs)
      /\ recipient \in Payees \union {"pool"} /\ version \in Nat /\ by \in {"wallet", "bulk"}
      /\ a = artifacts(inputs, ext, outputs, recipient, version, by)
  BY DEF Made
<1>1. /\ inputs \in Seq(Ins) /\ Len(inputs) <= 2 /\ outputs \in Seq(Outs) /\ Len(outputs) <= 2
      /\ blinding \in Nat /\ blinding + 2 \in Nat
  BY <1>0 DEF InputsOK, OutputsOK, TypesOK
<1>2. ins[1] \in Ins /\ ins[2] \in Ins /\ outs[1] \in Outs /\ outs[2] \in Outs
  BY <1>1, PaddedInputs, PaddedOutputs
<1>3. Paired(outs[1]) /\ Paired(outs[2])
  <2>1. \A k \in 1..Len(outputs) : Paired(outputs[k])
    BY <1>0 DEF acceptable, keys_paired, Paired
  <2>2. \A b : Paired(zero_output(b))
    BY DEF zero_output, Paired
  <2>4. Len(outputs) = 0 \/ Len(outputs) = 1 \/ Len(outputs) = 2
    BY <1>1, ShortLists
  <2>5. /\ outs[1] = outputs[1] \/ \E b : outs[1] = zero_output(b)
        /\ outs[2] = outputs[2] \/ \E b : outs[2] = zero_output(b)
        /\ Len(outputs) = 0 => \E b : outs[1] = zero_output(b)
        /\ Len(outputs) # 2 => \E b : outs[2] = zero_output(b)
    BY <1>1, <2>4, PaddedOutputs
  <2>6. Paired(outs[1])
    BY <2>1, <2>2, <2>4, <2>5
  <2>7. Paired(outs[2])
    BY <2>1, <2>2, <2>4, <2>5
  <2> QED
    BY <2>6, <2>7
<1>4. /\ SumAmounts(inputs) \in Nat /\ SumAmounts(outputs) \in Nat
      /\ ins[1].amount + ins[2].amount = SumAmounts(inputs)
      /\ outs[1].amount + outs[2].amount = SumAmounts(outputs)
  BY <1>1, PaddedSums
<1> HIDE DEF ins, outs
<1>5. /\ field_from_ext(ext) \in 0..(FieldModulus - 1)
      /\ (SumAmounts(inputs) + field_from_ext(ext)) % FieldModulus = SumAmounts(outputs) % FieldModulus
  BY <1>0, <1>4, BalancedSums DEF acceptable, balanced, sum_note_amounts
<1>6. a = [ ins           |-> [k \in 1..2 |-> Note(ins[k].amount, User, ins[k].blinding)],
            index         |-> [k \in 1..2 |-> ins[k].index],
            outs          |-> [k \in 1..2 |-> [note   |-> commitment(outs[k]),
                                               cipher |-> encrypt_output_note(outs[k]),
                                               mixed  |-> mixed(outs[k])]],
            root          |-> Len(pool.leaves),
            public_amount |-> field_from_ext(ext),
            ext           |-> ext,
            recipient     |-> recipient,
            asp           |-> version,
            by            |-> by,
            state         |-> "sent" ]
  BY <1>0 DEF artifacts, ins, outs
<1>7. /\ a.ins = [k \in 1..2 |-> Note(ins[k].amount, User, ins[k].blinding)]
      /\ a.index = [k \in 1..2 |-> ins[k].index]
      /\ a.outs = [k \in 1..2 |-> [note   |-> commitment(outs[k]),
                                   cipher |-> encrypt_output_note(outs[k]),
                                   mixed  |-> mixed(outs[k])]]
      /\ a.public_amount = field_from_ext(ext)
  BY <1>6
<1>8. ASSUME NEW k \in 1..2
      PROVE  /\ Note(ins[k].amount, User, ins[k].blinding) \in Notes /\ ins[k].index \in Nat
             /\ [note |-> commitment(outs[k]), cipher |-> encrypt_output_note(outs[k]),
                 mixed |-> mixed(outs[k])] \in Leaves
             /\ commitment(outs[k]).amount = outs[k].amount
  <2>1. ins[k] \in Ins /\ outs[k] \in Outs /\ Paired(outs[k])
    BY <1>2, <1>3
  <2>2. Note(ins[k].amount, User, ins[k].blinding) \in Notes /\ ins[k].index \in Nat
    BY <2>1 DEF Note, Notes, Ins
  <2>3. PICK o : o = outs[k] /\ o \in Outs /\ Paired(o)
    BY <2>1
  <2>4. /\ o.amount \in 0..NoteMax /\ o.blinding \in Nat
        /\ KeyOf(o.to_note) \in {User, Other} /\ KeyOf(o.to_enc) \in {User, Other}
    BY <2>3 DEF Outs, KeyOf
  <2>5. /\ commitment(o) \in Notes /\ commitment(o).amount = o.amount
        /\ commitment(o).blinding = o.blinding /\ commitment(o).key = KeyOf(o.to_note)
    BY <2>4 DEF commitment, Note, Notes
  <2>6. /\ encrypt_output_note(o) \in Ciphers /\ encrypt_output_note(o).amount = o.amount
        /\ encrypt_output_note(o).blinding = o.blinding
        /\ encrypt_output_note(o).to = KeyOf(o.to_enc)
    BY <2>4 DEF encrypt_output_note, Ciphers
  <2>7. mixed(o) \in BOOLEAN /\ (mixed(o) <=> KeyOf(o.to_enc) # KeyOf(o.to_note))
    BY <2>3, FlowsAssumption DEF mixed, KeyOf, Paired, Outs
  <2>8. [note |-> commitment(o), cipher |-> encrypt_output_note(o), mixed |-> mixed(o)] \in Leaves
    BY <2>5, <2>6, <2>7 DEF Leaves
  <2> QED
    BY <2>2, <2>3, <2>5, <2>6, <2>8
<1>9. a.ins \in [1..2 -> Notes] /\ a.index \in [1..2 -> Nat] /\ a.outs \in [1..2 -> Leaves]
  BY <1>7, <1>8
<1>10. Len(pool.leaves) \in Nat
  BY DEF TypesOK
<1>11. a \in Txs
  BY <1>0, <1>5, <1>6, <1>7, <1>9, <1>10 DEF Txs
<1>12. SumAmounts(a.ins) = SumAmounts(inputs)
  <2>1. Len(a.ins) = 2 /\ a.ins[1].amount = ins[1].amount /\ a.ins[2].amount = ins[2].amount
    BY <1>7, <1>9 DEF Note
  <2>2. ins[1].amount \in Nat /\ ins[2].amount \in Nat
    BY <1>2, Widths DEF Ins
  <2> QED
    BY <1>4, <2>1, <2>2, ShortSums
<1>13. a.outs[1].note.amount + a.outs[2].note.amount = SumAmounts(outputs)
  BY <1>4, <1>7, <1>8
<1> QED
  <2>1. /\ a.state = "sent" /\ a.by = by /\ a.ext = ext /\ a.recipient = recipient
        /\ a.root = Len(pool.leaves)
    BY <1>6
  <2>2. \A k \in 1..2 : /\ a.ins[k] = Note(ins[k].amount, User, ins[k].blinding)
                        /\ a.index[k] = ins[k].index /\ a.outs[k].note = commitment(outs[k])
    BY <1>7
  <2> QED
    BY <1>5, <1>7, <1>11, <1>12, <1>13, <2>1, <2>2 DEF ins, outs, FieldsOK

\* What is built meets every constraint of the circuit, unless it names a note twice.
LEMMA ArtifactsProvable ==
  ASSUME TypesOK, LeavesOK,
         NEW a, NEW inputs, NEW ext, NEW outputs, NEW recipient, NEW version, NEW by,
         Made(a, inputs, ext, outputs, recipient, version, by)
  PROVE  \/ CircuitHolds(a)
         \/ a.ins[1].amount # 0 /\ a.ins[1] = a.ins[2] /\ a.index[1] = a.index[2]
<1> DEFINE ins == padded_inputs(inputs, blinding)
<1>1. /\ inputs \in Seq(Ins) /\ Len(inputs) <= 2 /\ outputs \in Seq(Outs) /\ Len(outputs) <= 2
      /\ blinding \in Nat /\ blinding + 2 \in Nat
  BY DEF Made, InputsOK, OutputsOK, TypesOK
<1>2. /\ a \in Txs /\ a.root = Len(pool.leaves)
      /\ \A k \in 1..2 : /\ a.ins[k] = Note(ins[k].amount, User, ins[k].blinding)
                         /\ a.index[k] = ins[k].index
      /\ (SumAmounts(a.ins) + a.public_amount) % FieldModulus
           = (a.outs[1].note.amount + a.outs[2].note.amount) % FieldModulus
  BY ArtifactsTyped DEF FieldsOK
<1>3. /\ Len(inputs) = 0 => ins[1] = dummy_input(blinding) /\ ins[2] = dummy_input(blinding + 1)
      /\ Len(inputs) = 1 => ins[1] = inputs[1] /\ ins[2] = dummy_input(blinding)
      /\ Len(inputs) = 2 => ins[1] = inputs[1] /\ ins[2] = inputs[2]
  BY <1>1, PaddedInputs
<1> HIDE DEF ins
<1>4. Len(inputs) = 0 \/ Len(inputs) = 1 \/ Len(inputs) = 2
  BY <1>1, ShortLists
<1>5. \A b : dummy_input(b).amount = 0 /\ dummy_input(b).blinding = b
  BY DEF dummy_input
<1>6. \A k \in 1..2 : a.ins[k].amount = ins[k].amount /\ a.ins[k].blinding = ins[k].blinding
  BY <1>2 DEF Note
<1>7. \A k \in 1..2 : ins[k].amount # 0 => k \in 1..Len(inputs) /\ ins[k] = inputs[k]
  BY <1>3, <1>4, <1>5
<1>8. ASSUME NEW k \in 1..2, a.ins[k].amount # 0
      PROVE  a.index[k] < a.root /\ pool.leaves[a.index[k] + 1].note = a.ins[k]
  <2>1. k \in 1..Len(inputs) /\ ins[k] = inputs[k]
    BY <1>6, <1>7, <1>8
  <2>2. /\ inputs[k].index < Len(pool.leaves)
        /\ pool.leaves[inputs[k].index + 1].note = Note(inputs[k].amount, User, inputs[k].blinding)
    BY <2>1 DEF Made, InputsOK
  <2> QED
    BY <1>2, <2>1, <2>2
<1>9. ASSUME NEW k \in 1..2 PROVE a.outs[k].note.amount < 2 ^ CircuitBits
  <2>1. a.outs[k] \in Leaves
    BY <1>2 DEF Txs
  <2>2. a.outs[k].note.amount \in 0..NoteMax
    BY <2>1 DEF Leaves, Notes
  <2> QED
    BY <2>2, Widths
<1>10. ASSUME Len(inputs) # 2 PROVE a.ins[1] # a.ins[2]
  <2>1. CASE Len(inputs) = 0
    <3>1. ins[1].blinding = blinding /\ ins[2].blinding = blinding + 1
      BY <1>3, <1>5, <2>1
    <3>2. blinding # blinding + 1
      BY <1>1
    <3> QED
      BY <1>6, <3>1, <3>2
  <2>2. CASE Len(inputs) = 1
    <3>1. ins[1] = inputs[1] /\ ins[2].blinding = blinding
      BY <1>3, <1>5, <2>2
    <3>2. /\ inputs[1].index < Len(pool.leaves) /\ inputs[1] \in Ins
          /\ pool.leaves[inputs[1].index + 1].note = Note(inputs[1].amount, User, inputs[1].blinding)
      <4>1. 1 \in 1..Len(inputs)
        BY <2>2
      <4>2. inputs[1] \in Ins
        BY <1>1, <4>1
      <4>3. \A k \in 1..Len(inputs) :
              /\ inputs[k].index < Len(pool.leaves)
              /\ pool.leaves[inputs[k].index + 1].note
                   = Note(inputs[k].amount, User, inputs[k].blinding)
        BY DEF Made, InputsOK
      <4> QED
        BY <4>1, <4>2, <4>3
    <3>3. inputs[1].index + 1 \in 1..Len(pool.leaves) /\ inputs[1].blinding \in Nat
      <4>1. inputs[1].index \in Nat /\ inputs[1].blinding \in Nat
        BY <3>2 DEF Ins
      <4>2. Len(pool.leaves) \in Nat
        BY DEF TypesOK
      <4> QED
        BY <3>2, <4>1, <4>2
    <3>4. pool.leaves[inputs[1].index + 1].note.blinding < blinding
      BY <3>3 DEF LeavesOK
    <3>5. inputs[1].blinding < blinding
      BY <3>2, <3>4 DEF Note
    <3>6. ins[1].blinding # ins[2].blinding
      BY <1>1, <3>1, <3>3, <3>5
    <3> QED
      BY <1>6, <3>6
  <2> QED
    BY <1>4, <1>10, <2>1, <2>2
<1>11. ASSUME Len(inputs) = 2
       PROVE  a.ins[1].amount # 0 /\ (a.index[1] = a.index[2] => a.ins[1] = a.ins[2])
  <2>1. ins[1] = inputs[1] /\ ins[2] = inputs[2]
    BY <1>3, <1>11
  <2>2. /\ inputs[1].amount # 0
        /\ \A k \in 1..2 : pool.leaves[inputs[k].index + 1].note
                             = Note(inputs[k].amount, User, inputs[k].blinding)
    BY <1>11 DEF Made, InputsOK
  <2>3. \A k \in 1..2 : a.ins[k] = pool.leaves[a.index[k] + 1].note
    BY <1>2, <2>1, <2>2
  <2> QED
    BY <1>6, <2>1, <2>2, <2>3
<1>12. CASE Nullifier(a.ins[1], a.index[1]) # Nullifier(a.ins[2], a.index[2])
  BY <1>2, <1>8, <1>9, <1>12 DEF CircuitHolds
<1>13. CASE Nullifier(a.ins[1], a.index[1]) = Nullifier(a.ins[2], a.index[2])
  <2>1. a.ins[1] = a.ins[2] /\ a.index[1] = a.index[2]
    BY <1>13 DEF Nullifier
  <2> QED
    BY <1>10, <1>11, <2>1
<1> QED
  BY <1>12, <1>13

\* The blindings of what is built: those the caller gave, or new ones.
LEMMA ArtifactsBlindings ==
  ASSUME TypesOK,
         NEW a, NEW inputs, NEW ext, NEW outputs, NEW recipient, NEW version, NEW by,
         Made(a, inputs, ext, outputs, recipient, version, by)
  PROVE  /\ Len(outputs) = 0 => /\ a.outs[1].note.blinding = blinding + 2
                                /\ a.outs[2].note.blinding = blinding + 3
         /\ Len(outputs) = 1 => /\ a.outs[1].note.blinding = outputs[1].blinding
                                /\ a.outs[2].note.blinding = blinding + 2
         /\ Len(outputs) = 2 => /\ a.outs[1].note = commitment(outputs[1])
                                /\ a.outs[1].note.blinding = outputs[1].blinding
                                /\ a.outs[2].note.blinding = outputs[2].blinding
         /\ Len(inputs) = 1 => /\ a.ins[1] = Note(inputs[1].amount, User, inputs[1].blinding)
                               /\ a.index[1] = inputs[1].index
<1> DEFINE ins == padded_inputs(inputs, blinding)
           outs == padded_outputs(outputs, blinding + 2)
           b2 == blinding + 2
<1>1. /\ inputs \in Seq(Ins) /\ Len(inputs) <= 2 /\ outputs \in Seq(Outs) /\ Len(outputs) <= 2
      /\ blinding \in Nat /\ blinding + 2 \in Nat /\ (blinding + 2) + 1 = blinding + 3
  BY DEF Made, InputsOK, OutputsOK, TypesOK
<1>2. /\ \A k \in 1..2 : /\ a.ins[k] = Note(ins[k].amount, User, ins[k].blinding)
                         /\ a.index[k] = ins[k].index
                         /\ a.outs[k].note = commitment(outs[k])
  BY ArtifactsTyped DEF FieldsOK
<1>3. Len(inputs) = 1 => ins[1] = inputs[1]
  BY <1>1, PaddedInputs
<1>4. /\ Len(outputs) = 0 => outs[1] = zero_output(blinding + 2) /\ outs[2] = zero_output(blinding + 3)
      /\ Len(outputs) = 1 => outs[1] = outputs[1] /\ outs[2] = zero_output(blinding + 2)
      /\ Len(outputs) = 2 => outs[1] = outputs[1] /\ outs[2] = outputs[2]
  <2>1. b2 \in Nat
    BY <1>1
  <2>2. b2 + 1 = blinding + 3
    BY <1>1
  <2> HIDE DEF b2
  <2>3. /\ Len(outputs) = 0 => /\ padded_outputs(outputs, b2)[1] = zero_output(b2)
                               /\ padded_outputs(outputs, b2)[2] = zero_output(b2 + 1)
        /\ Len(outputs) = 1 => /\ padded_outputs(outputs, b2)[1] = outputs[1]
                               /\ padded_outputs(outputs, b2)[2] = zero_output(b2)
        /\ Len(outputs) = 2 => /\ padded_outputs(outputs, b2)[1] = outputs[1]
                               /\ padded_outputs(outputs, b2)[2] = outputs[2]
    BY <1>1, <2>1, PaddedOutputs
  <2> QED
    BY <2>2, <2>3, Zenon DEF b2
<1> HIDE DEF ins, outs
<1>5. \A k \in 1..2 : a.outs[k].note.blinding = outs[k].blinding
  BY <1>2 DEF commitment, Note
<1>6. \A b : zero_output(b).blinding = b
  BY DEF zero_output
<1>7. /\ a.outs[1].note = commitment(outs[1]) /\ a.index[1] = ins[1].index
      /\ a.ins[1] = Note(ins[1].amount, User, ins[1].blinding)
      /\ a.outs[1].note.blinding = outs[1].blinding /\ a.outs[2].note.blinding = outs[2].blinding
  BY <1>2, <1>5
<1> QED
  BY <1>3, <1>4, <1>6, <1>7, Zenon

-----------------------------------------------------------------------------
(* What the callers give.                                                  *)

\* What is on chain is a leaf.
LEMMA LeafTyped ==
  ASSUME TypesOK, NEW k \in 1..Len(pool.leaves)
  PROVE  /\ pool.leaves[k] \in Leaves /\ pool.leaves[k].note \in Notes
         /\ pool.leaves[k].note.blinding \in Nat /\ pool.leaves[k].note.amount \in 0..NoteMax
<1>1. pool.leaves[k] \in Leaves
  BY DEF TypesOK
<1>2. pool.leaves[k].note \in Notes
  BY <1>1 DEF Leaves
<1> QED
  BY <1>1, <1>2 DEF Notes

\* A note that the user derives is in the tree under its index, and holds value.
LEMMA UserInputOK ==
  ASSUME TypesOK, NEW i \in UserInputs
  PROVE  /\ i \in Ins /\ i.amount # 0 /\ i.index < Len(pool.leaves)
         /\ pool.leaves[i.index + 1].note = Note(i.amount, User, i.blinding)
<1>1. PICK k \in 1..Len(pool.leaves) :
        \E d \in try_decrypt_and_derive_user_note(User, k) :
          i = [amount |-> d.note.amount, blinding |-> d.note.blinding, index |-> d.nullifier[2]]
  BY DEF UserInputs
<1> DEFINE l == pool.leaves[k]
           n == Note(l.cipher.amount, User, l.cipher.blinding)
<1>2. /\ l.cipher.amount # 0 /\ n = l.note
      /\ i = [amount |-> n.amount, blinding |-> n.blinding, index |-> Nullifier(l.note, k - 1)[2]]
  BY <1>1 DEF try_decrypt_and_derive_user_note
<1>3. l \in Leaves /\ Len(pool.leaves) \in Nat
  BY DEF TypesOK
<1>4. l.cipher.amount \in 0..NoteMax /\ l.cipher.blinding \in Nat
  BY <1>3 DEF Leaves, Ciphers
<1> HIDE DEF l
<1>5. /\ i.amount = l.cipher.amount /\ i.blinding = l.cipher.blinding /\ i.index = k - 1
      /\ i = [amount |-> l.cipher.amount, blinding |-> l.cipher.blinding, index |-> k - 1]
  BY <1>2 DEF Note, Nullifier
<1>6. k - 1 \in Nat /\ k - 1 < Len(pool.leaves) /\ (k - 1) + 1 = k
  BY <1>3
<1>7. i \in Ins
  BY <1>4, <1>5, <1>6 DEF Ins
<1> QED
  BY <1>2, <1>5, <1>6, <1>7 DEF l

\* The lists that a withdrawal or a transfer may name.
LEMMA InputListsOK ==
  ASSUME TypesOK, NEW inputs \in InputLists
  PROVE  InputsOK(inputs)
<1>1. CASE inputs = <<>>
  BY <1>1 DEF InputsOK
<1>2. CASE inputs \in {<<i>> : i \in UserInputs}
  <2>1. PICK i \in UserInputs : inputs = <<i>>
    BY <1>2
  <2>2. /\ i \in Ins /\ i.index < Len(pool.leaves)
        /\ pool.leaves[i.index + 1].note = Note(i.amount, User, i.blinding)
    BY UserInputOK
  <2>3. inputs \in Seq(Ins) /\ Len(inputs) = 1 /\ inputs[1] = i
    BY <2>1, <2>2
  <2>4. \A k \in 1..1 : k = 1
    OBVIOUS
  <2> QED
    BY <2>2, <2>3, <2>4 DEF InputsOK
<1>3. CASE inputs \in UserInputs \X UserInputs
  <2>1. PICK i \in UserInputs, j \in UserInputs : inputs = <<i, j>>
    BY <1>3
  <2>2. /\ i \in Ins /\ i.amount # 0 /\ i.index < Len(pool.leaves)
        /\ pool.leaves[i.index + 1].note = Note(i.amount, User, i.blinding)
        /\ j \in Ins /\ j.amount # 0 /\ j.index < Len(pool.leaves)
        /\ pool.leaves[j.index + 1].note = Note(j.amount, User, j.blinding)
    BY UserInputOK
  <2>3. inputs \in Seq(Ins) /\ Len(inputs) = 2 /\ inputs[1] = i /\ inputs[2] = j
    BY <2>1, <2>2
  <2>4. \A k \in 1..2 : k = 1 \/ k = 2
    OBVIOUS
  <2> QED
    BY <2>2, <2>3, <2>4 DEF InputsOK
<1> QED
  BY <1>1, <1>2, <1>3 DEF InputLists

\* Outputs of a wallet's call: at most two, with new blindings.
FreshOutputs(outputs) ==
  /\ OutputsOK(outputs)
  /\ Len(outputs) \in {1, 2} => outputs[1].blinding = blinding + 4
  /\ Len(outputs) = 2 => outputs[2].blinding = blinding + 5

\* Lists that a caller gives are of this kind, or too long.
LEMMA OutputListsOK ==
  ASSUME TypesOK, NEW outputs \in OutputLists, Len(outputs) <= 2
  PROVE  FreshOutputs(outputs)
<1>1. blinding + 4 \in Nat /\ blinding + 5 \in Nat
  BY DEF TypesOK
<1>2. \A a \in 0..NoteMax : \A b \in Nat : [zero_output(b) EXCEPT !.amount = a] \in Outs
  BY DEF zero_output, Outs
<1>3. \A a : \A b : [zero_output(b) EXCEPT !.amount = a].blinding = b
  BY DEF zero_output
<1>4. \A o \in Outputs(blinding + 4) : o \in Outs /\ o.blinding = blinding + 4
  BY <1>1 DEF Outputs, Outs
<1>5. CASE outputs = <<>>
  BY <1>5 DEF FreshOutputs, OutputsOK
<1>6. CASE outputs = [k \in 1..3 |-> zero_output(blinding + k)]
  <2>1. Len(outputs) = 3
    BY <1>6
  <2> QED
    BY <2>1
<1>7. CASE outputs \in {<<o>> : o \in Outputs(blinding + 4)}
  <2>1. PICK o \in Outputs(blinding + 4) : outputs = <<o>>
    BY <1>7
  <2> QED
    BY <1>4, <2>1 DEF FreshOutputs, OutputsOK
<1>8. CASE outputs \in {<<o, [zero_output(blinding + 5) EXCEPT !.amount = a]>> :
                          o \in Outputs(blinding + 4), a \in 0..NoteMax}
  <2>1. PICK o \in Outputs(blinding + 4), a \in 0..NoteMax :
          outputs = <<o, [zero_output(blinding + 5) EXCEPT !.amount = a]>>
    BY <1>8
  <2> DEFINE p == [zero_output(blinding + 5) EXCEPT !.amount = a]
  <2>2. p \in Outs /\ p.blinding = blinding + 5
    BY <1>1, <1>2, <1>3
  <2>3. outputs = <<o, p>>
    BY <2>1
  <2> HIDE DEF p
  <2> QED
    BY <1>4, <2>2, <2>3 DEF FreshOutputs, OutputsOK
<1> QED
  BY <1>5, <1>6, <1>7, <1>8 DEF OutputLists

\* The change that a withdrawal makes up.
LEMMA ChangeOutputsOK ==
  ASSUME TypesOK, NEW total \in 0..NoteMax, NEW amount \in 0..total
  PROVE  FreshOutputs(change_outputs(total, amount))
<1> DEFINE p == [zero_output(blinding + 4) EXCEPT !.amount = total - amount]
           q == zero_output(blinding + 5)
<1>1. blinding + 4 \in Nat /\ blinding + 5 \in Nat /\ total - amount \in 0..NoteMax
  BY Widths DEF TypesOK
<1>2. p \in Outs /\ p.blinding = blinding + 4
  BY <1>1 DEF zero_output, Outs
<1>3. q \in Outs /\ q.blinding = blinding + 5
  BY <1>1, Widths DEF zero_output, Outs
<1>4. change_outputs(total, amount) = <<p, q>>
  BY DEF change_outputs
<1> HIDE DEF p, q
<1> QED
  BY <1>2, <1>3, <1>4 DEF FreshOutputs, OutputsOK

-----------------------------------------------------------------------------
(* Steps that leave the chain and the plan of the session alone.           *)

SameSession ==
  /\ (bulk' = NoBulk) <=> (bulk = NoBulk)
  /\ bulk'.recipients = bulk.recipients /\ bulk'.step = bulk.step /\ bulk'.change = bulk.change
  /\ bulk'.amount = bulk.amount /\ bulk'.blinding = bulk.blinding

\* The session's view of the chain stays what it is.
LEMMA SameView ==
  ASSUME pool' = pool, SameSession
  PROVE  /\ CurrentNote' = CurrentNote /\ Payee' = Payee
         /\ \A n : IndicesOf(n)' = IndicesOf(n)
         /\ \A b : OnChain(b)' <=> OnChain(b)
         /\ \A a : StepOK(a)' <=> StepOK(a)
         /\ PaidOK' <=> PaidOK
         /\ StepPaidOK' <=> StepPaidOK
         /\ (IndicesOf(CurrentNote) # {})' <=> (IndicesOf(CurrentNote) # {})
         /\ (LeftFrom(bulk.step) <= bulk.amount)' <=> (LeftFrom(bulk.step) <= bulk.amount)
<1>1. CurrentNote' = CurrentNote /\ Payee' = Payee
  BY DEF SameSession, CurrentNote, Payee
<1>2. \A n : IndicesOf(n)' = IndicesOf(n)
  BY DEF IndicesOf
<1>3. \A b : OnChain(b)' <=> OnChain(b)
  BY DEF OnChain
<1>4. IndicesOf(CurrentNote)' = IndicesOf(CurrentNote)
  BY DEF SameSession, IndicesOf, CurrentNote
<1>5. ASSUME NEW a PROVE StepOK(a)' <=> StepOK(a)
  BY <1>1, <1>4 DEF SameSession, StepOK, Nullifier, Note
<1>6. PaidOK' <=> PaidOK
  BY DEF SameSession, PaidOK
<1>7. IndicesOf(Note(bulk.amount - Payee.amount, User, bulk.change[bulk.step + 1]))'
        = IndicesOf(Note(bulk.amount - Payee.amount, User, bulk.change[bulk.step + 1]))
  BY <1>1 DEF SameSession, IndicesOf
<1>8. \A i : Nullifier(CurrentNote, i)' = Nullifier(CurrentNote, i)
  BY <1>1 DEF Nullifier
<1>9. StepPaidOK' <=> StepPaidOK
  BY <1>1, <1>4, <1>7, <1>8 DEF SameSession, StepPaidOK
<1>10. (LeftFrom(bulk.step) <= bulk.amount)' <=> (LeftFrom(bulk.step) <= bulk.amount)
  BY DEF SameSession, LeftFrom
<1> QED
  BY <1>1, <1>2, <1>3, <1>4, <1>5, <1>6, <1>9, <1>10

\* What is true of the chain, the network and the session stays so while blindings are drawn.
LEMMA SameChain ==
  ASSUME TypesOK, pool' = pool, SameSession, blinding' \in Nat, blinding' >= blinding
  PROVE  /\ LeavesOK => LeavesOK'
         /\ \A a \in Txs : PendingOK(a) => PendingOK(a)'
         /\ bulk # NoBulk /\ ChangeOK => ChangeOK'
<1>1. blinding \in Nat
  BY DEF TypesOK
<1>2. /\ \A b : OnChain(b)' <=> OnChain(b)
      /\ \A a : StepOK(a)' <=> StepOK(a)
  BY SameView
<1>3. ASSUME LeavesOK PROVE LeavesOK'
  <2>1. \A i \in 1..Len(pool.leaves) : pool.leaves[i].note.blinding \in Nat
    BY LeafTyped
  <2>2. \A i \in 1..Len(pool.leaves) : pool.leaves[i].note.blinding < blinding'
    BY <1>1, <1>3, <2>1 DEF LeavesOK
  <2> QED
    BY <1>3, <2>2 DEF LeavesOK
<1>4. ASSUME NEW a \in Txs, PendingOK(a) PROVE PendingOK(a)'
  <2>1. ASSUME NEW k \in OwnOutputs(a) PROVE a.outs[k].note.blinding < blinding'
    <3>1. k \in 1..2
      BY DEF OwnOutputs
    <3>2. a.outs[k] \in Leaves
      BY <3>1 DEF Txs
    <3>3. a.outs[k].note.blinding \in Nat
      BY <3>2 DEF Leaves, Notes
    <3>4. a.outs[k].note.blinding < blinding
      BY <1>4 DEF PendingOK
    <3> QED
      BY <1>1, <3>3, <3>4
  <2>2. ASSUME NEW k \in OwnOutputs(a)
        PROVE  /\ ~ OnChain(a.outs[k].note.blinding)'
               /\ (bulk # NoBulk)' => \A j \in 1..Len(bulk'.change) : a.outs[k].note.blinding # bulk'.change[j]
    <3>1. PICK b : b = a.outs[k].note.blinding
      OBVIOUS
    <3>2. ~ OnChain(b)
      BY <1>4, <3>1 DEF PendingOK
    <3>3. ~ OnChain(b)'
      BY <1>2, <3>2
    <3>4. bulk # NoBulk => \A j \in 1..Len(bulk.change) : a.outs[k].note.blinding # bulk.change[j]
      BY <1>4 DEF PendingOK
    <3> QED
      BY <3>1, <3>3, <3>4 DEF SameSession
  <2>3. /\ a.by = "wallet" => a.outs[1].note.blinding # a.outs[2].note.blinding
        /\ a.by = "bulk" => bulk' # NoBulk /\ StepOK(a)'
    BY <1>2, <1>4 DEF PendingOK, SameSession
  <2> QED
    BY <2>1, <2>2, <2>3 DEF PendingOK
<1>5. ASSUME bulk # NoBulk, ChangeOK PROVE ChangeOK'
  <2>1. \A k \in 1..Len(bulk.change) : bulk.change[k] \in Nat
    BY <1>5, SMTT(30) DEF TypesOK, Sessions
  <2>2. \A k \in 1..Len(bulk.change) : bulk.change[k] < blinding'
    BY <1>1, <1>5, <2>1 DEF ChangeOK
  <2>3. \A k \in (Len(pool.paid) + 1)..Len(bulk.change) : ~ OnChain(bulk.change[k])'
    BY <1>5 DEF ChangeOK, SameSession, OnChain
  <2> QED
    BY <1>5, <2>2, <2>3 DEF ChangeOK, SameSession
<1> QED
  BY <1>3, <1>4, <1>5

-----------------------------------------------------------------------------
(* A transaction is built.                                                 *)

\* The outputs that are only of a, with new blindings.
NewBlindings(a) ==
  /\ \A k \in OwnOutputs(a) : a.outs[k].note.blinding \in blinding..(blinding + 5)
  /\ a.by = "wallet" => a.outs[1].note.blinding # a.outs[2].note.blinding
  /\ a.by = "bulk" => bulk # NoBulk /\ StepOK(a)

\* The invariant survives a build.
LEMMA BuildKeeps ==
  ASSUME FlowsInv,
         NEW a, NEW inputs, NEW ext, NEW outputs, NEW recipient, NEW version, NEW by,
         Made(a, inputs, ext, outputs, recipient, version, by), built' = a,
         UNCHANGED <<pool, asp, late>>, blinding' = blinding + 6,
         SameSession, bulk' \in Sessions \union {NoBulk}, NewBlindings(a),
         bulk' # NoBulk => FlightOK'
  PROVE  FlowsInv'
<1>1. TypesOK /\ LeavesOK /\ NetworkOK /\ SessionOK /\ ProofOK
  BY DEF FlowsInv
<1>2. FieldsOK(a, inputs, ext, outputs, recipient, by)
  BY <1>1, ArtifactsTyped
<1>3. a \in Txs /\ a.state = "sent" /\ a.root = Len(pool.leaves)
  BY <1>2 DEF FieldsOK
<1>4. blinding \in Nat /\ blinding' \in Nat /\ blinding' >= blinding
  BY <1>1 DEF TypesOK
<1>5. TypesOK'
  BY <1>1, <1>3, <1>4 DEF TypesOK
<1>6. LeavesOK' /\ (\A b \in Txs : PendingOK(b) => PendingOK(b)') /\ (bulk # NoBulk /\ ChangeOK => ChangeOK')
  BY <1>1, <1>4, SameChain
<1>7. ASSUME NEW k \in OwnOutputs(a)
      PROVE  /\ a.outs[k].note.blinding \in Nat
             /\ a.outs[k].note.blinding >= blinding /\ a.outs[k].note.blinding < blinding'
  BY <1>4 DEF NewBlindings
<1>8. ASSUME NEW k \in OwnOutputs(a) PROVE ~ OnChain(a.outs[k].note.blinding)
  <2>1. \A i \in 1..Len(pool.leaves) :
          pool.leaves[i].note.blinding \in Nat /\ pool.leaves[i].note.blinding < blinding
    BY <1>1, LeafTyped DEF LeavesOK
  <2>2. \A i \in 1..Len(pool.leaves) : pool.leaves[i].note.blinding # a.outs[k].note.blinding
    BY <1>4, <1>7, <2>1
  <2> QED
    BY <2>2 DEF OnChain
<1>9. ASSUME NEW k \in OwnOutputs(a), bulk # NoBulk, NEW j \in 1..Len(bulk.change)
      PROVE  a.outs[k].note.blinding # bulk.change[j]
  <2>1. bulk.change \in Seq(Nat) /\ ChangeOK
    BY <1>1, <1>9 DEF TypesOK, Sessions, SessionOK
  <2>2. bulk.change[j] \in Nat
    BY <1>9, <2>1
  <2>3. bulk.change[j] < blinding
    BY <1>9, <2>1 DEF ChangeOK
  <2> QED
    BY <1>4, <1>7, <2>2, <2>3
<1>10. OwnOutputs(built)' = OwnOutputs(a) /\ (StepOK(built)' <=> StepOK(a)')
  BY DEF OwnOutputs, StepOK
<1>11. StepOK(a)' <=> StepOK(a)
  BY SameView
<1>12. PendingOK(built)'
  <2>1. \A b : OnChain(b)' <=> OnChain(b)
    BY SameView
  <2>2. \A k \in OwnOutputs(a) : ~ OnChain(built.outs[k].note.blinding)'
    BY <1>8 DEF OnChain
  <2>3. a.by = "bulk" => bulk' # NoBulk /\ StepOK(built)'
    BY <1>10, <1>11 DEF NewBlindings, SameSession
  <2>4. \A k \in OwnOutputs(a) : bulk' # NoBulk => \A j \in 1..Len(bulk'.change) : a.outs[k].note.blinding # bulk'.change[j]
    BY <1>9 DEF SameSession
  <2>5. a.by = "wallet" => a.outs[1].note.blinding # a.outs[2].note.blinding
    BY DEF NewBlindings
  <2> QED
    BY <1>7, <1>10, <2>2, <2>3, <2>4, <2>5 DEF PendingOK
<1>13. \A b \in late : b \in Txs
  BY <1>1 DEF TypesOK
<1>14. \A b \in late' : PendingOK(b)'
  BY <1>1, <1>6, <1>13 DEF NetworkOK
<1>15. \A b, c \in late' : b # c => Apart(b, c)'
  BY <1>1 DEF NetworkOK, Apart, OwnOutputs
<1>16. ASSUME NEW b \in late' PROVE Apart(built, b)'
  <2>1. ASSUME NEW i \in OwnOutputs(a), NEW j \in OwnOutputs(b)
        PROVE  a.outs[i].note.blinding # b.outs[j].note.blinding
    <3>1. b \in Txs /\ j \in 1..2 /\ b \in late
      BY <1>13 DEF OwnOutputs
    <3>2. b.outs[j] \in Leaves
      BY <3>1 DEF Txs
    <3>3. b.outs[j].note.blinding \in Nat
      BY <3>2 DEF Leaves, Notes
    <3>4. PendingOK(b)
      BY <1>1, <3>1 DEF NetworkOK
    <3>5. b.outs[j].note.blinding < blinding
      BY <3>4 DEF PendingOK
    <3> QED
      BY <1>4, <1>7, <3>3, <3>5
  <2> QED
    BY <1>10, <2>1 DEF Apart, OwnOutputs
<1>17. NetworkOK'
  BY <1>12, <1>14, <1>15, <1>16 DEF NetworkOK
<1>18. SessionOK'
  <2>1. CASE bulk = NoBulk
    BY <1>1, <2>1 DEF SessionOK, SameSession
  <2>2. CASE bulk # NoBulk
    <3>1. PaidOK' /\ StepPaidOK' /\ (IndicesOf(CurrentNote) # {})' /\ (LeftFrom(bulk.step) <= bulk.amount)'
      BY <1>1, <2>2, SameView DEF SessionOK
    <3>2. ChangeOK' /\ bulk' # NoBulk
      BY <1>1, <1>6, <2>2 DEF SessionOK, SameSession
    <3> QED
      BY <3>1, <3>2 DEF SessionOK
  <2> QED
    BY <2>1, <2>2
<1>19. \/ CircuitHolds(a)
       \/ a.ins[1].amount # 0 /\ a.ins[1] = a.ins[2] /\ a.index[1] = a.index[2]
  BY <1>1, ArtifactsProvable
<1>20. ProofOK'
  <2>1. CircuitHolds(built)' <=> CircuitHolds(a)
    BY DEF CircuitHolds
  <2>2. BuiltIsProvable'
    BY <1>19, <2>1 DEF BuiltIsProvable
  <2>3. built'.root <= Len(pool'.leaves)
    <3>1. Len(pool.leaves) \in Nat
      BY <1>1 DEF TypesOK
    <3> QED
      BY <1>3, <3>1
  <2> QED
    BY <2>2, <2>3 DEF ProofOK
<1> QED
  BY <1>5, <1>6, <1>17, <1>18, <1>20 DEF FlowsInv

\* A call of the wallet draws all the blindings of its outputs.
LEMMA WalletBuildKeeps ==
  ASSUME FlowsInv,
         NEW inputs, NEW ext \in Int, NEW outputs, NEW recipient \in Payees \union {"pool"},
         InputsOK(inputs), FreshOutputs(outputs), bulk.state # "flight",
         Builds(inputs, ext, outputs, recipient, asp, "wallet"), UNCHANGED bulk
  PROVE  FlowsInv'
<1>1. TypesOK
  BY DEF FlowsInv
<1>2. PICK a : a = artifacts(inputs, ext, outputs, recipient, asp, "wallet")
  OBVIOUS
<1>3. /\ acceptable(inputs, ext, outputs) /\ built' = a
      /\ blinding' = blinding + 6 /\ UNCHANGED <<pool, asp, late>>
  BY <1>2 DEF Builds
<1>4. Made(a, inputs, ext, outputs, recipient, asp, "wallet")
  BY <1>1, <1>2, <1>3 DEF Made, FreshOutputs, TypesOK
<1>5. a.by = "wallet"
  BY <1>1, <1>4, ArtifactsTyped DEF FieldsOK
<1>6. /\ a.outs[1].note.blinding \in blinding..(blinding + 5)
      /\ a.outs[2].note.blinding \in blinding..(blinding + 5)
      /\ a.outs[1].note.blinding # a.outs[2].note.blinding
  <2>1. blinding \in Nat
    BY <1>1 DEF TypesOK
  <2>2. Len(outputs) = 0 \/ Len(outputs) = 1 \/ Len(outputs) = 2
    BY ShortLists DEF FreshOutputs, OutputsOK
  <2>3. /\ Len(outputs) \in {1, 2} => outputs[1].blinding = blinding + 4
        /\ Len(outputs) = 2 => outputs[2].blinding = blinding + 5
    BY DEF FreshOutputs
  <2>4. /\ Len(outputs) = 0 => /\ a.outs[1].note.blinding = blinding + 2
                               /\ a.outs[2].note.blinding = blinding + 3
        /\ Len(outputs) = 1 => /\ a.outs[1].note.blinding = outputs[1].blinding
                               /\ a.outs[2].note.blinding = blinding + 2
        /\ Len(outputs) = 2 => /\ a.outs[1].note.blinding = outputs[1].blinding
                               /\ a.outs[2].note.blinding = outputs[2].blinding
    BY <1>1, <1>4, ArtifactsBlindings
  <2>5. CASE Len(outputs) = 0
    BY <2>1, <2>4, <2>5
  <2>6. CASE Len(outputs) = 1
    BY <2>1, <2>3, <2>4, <2>6
  <2>7. CASE Len(outputs) = 2
    BY <2>1, <2>3, <2>4, <2>7
  <2> QED
    BY <2>2, <2>5, <2>6, <2>7
<1>7. NewBlindings(a)
  BY <1>5, <1>6 DEF NewBlindings, OwnOutputs
<1>8. SameSession /\ bulk' \in Sessions \union {NoBulk}
  BY <1>1 DEF SameSession, TypesOK
<1>9. FlightOK'
  BY DEF FlightOK
<1> QED
  BY <1>3, <1>4, <1>7, <1>8, <1>9, BuildKeeps

\* A deposit takes no inputs.
LEMMA DepositKeeps == FlowsInv /\ deposit => FlowsInv'
<1> SUFFICES ASSUME FlowsInv, deposit PROVE FlowsInv'
  OBVIOUS
<1>1. PICK amount \in ExtAmounts, outputs \in OutputLists :
        Builds(<<>>, amount, outputs, "pool", asp, "wallet")
  BY DEF deposit
<1>2. TypesOK /\ amount \in Int /\ "pool" \in Payees \union {"pool"}
  BY ExtAmountsAreInts DEF FlowsInv
<1>3. Len(outputs) <= 2
  BY <1>1 DEF Builds, acceptable
<1>4. FreshOutputs(outputs)
  BY <1>2, <1>3, OutputListsOK
<1>5. InputsOK(<<>>)
  BY DEF InputsOK
<1>6. bulk.state # "flight" /\ UNCHANGED bulk
  BY DEF deposit, MayPay
<1> QED
  BY <1>1, <1>2, <1>4, <1>5, <1>6, WalletBuildKeeps

\* The sum of what a list of inputs covers.
LEMMA CoveredSum ==
  ASSUME TypesOK, NEW inputs, InputsOK(inputs), NEW amount \in Int, covers(inputs, amount)
  PROVE  sum_note_amounts(inputs) \in 0..NoteMax /\ amount \in 0..sum_note_amounts(inputs)
<1>1. inputs \in Seq(Ins) /\ Len(inputs) <= 2
  BY DEF InputsOK
<1>2. SumAmounts(inputs) \in Nat
  <2>1. <<>> \in Seq(Outs) /\ Len(<<>>) <= 2 /\ 0 \in Nat
    OBVIOUS
  <2> QED
    BY <1>1, <2>1, PaddedSums
<1>3. sum_note_amounts(inputs) # Overflow /\ sum_note_amounts(inputs) >= amount /\ amount >= 0
  BY DEF covers
<1>4. sum_note_amounts(inputs) \in 0..NoteMax
  BY <1>2, <1>3, Widths DEF sum_note_amounts, checked_add
<1> QED
  BY <1>3, <1>4, Widths

\* A withdrawal makes up its change or takes the caller's outputs.
LEMMA WithdrawKeeps == FlowsInv /\ withdraw => FlowsInv'
<1> SUFFICES ASSUME FlowsInv, withdraw PROVE FlowsInv'
  OBVIOUS
<1>1. PICK inputs \in InputLists, amount \in ExtAmounts, to \in Payees :
        /\ covers(inputs, amount)
        /\ \E outputs \in OutputLists \union {change_outputs(sum_note_amounts(inputs), amount)} :
             Builds(inputs, - amount, outputs, to, asp, "wallet")
  BY DEF withdraw
<1>2. PICK outputs \in OutputLists \union {change_outputs(sum_note_amounts(inputs), amount)} :
        Builds(inputs, - amount, outputs, to, asp, "wallet")
  BY <1>1
<1>3. TypesOK /\ amount \in Int /\ - amount \in Int /\ to \in Payees \union {"pool"}
  BY ExtAmountsAreInts DEF FlowsInv
<1>4. InputsOK(inputs)
  BY <1>3, InputListsOK
<1>5. Len(outputs) <= 2
  BY <1>2 DEF Builds, acceptable
<1>6. FreshOutputs(outputs)
  <2>1. CASE outputs \in OutputLists
    BY <1>3, <1>5, <2>1, OutputListsOK
  <2>2. CASE outputs = change_outputs(sum_note_amounts(inputs), amount)
    <3>1. sum_note_amounts(inputs) \in 0..NoteMax /\ amount \in 0..sum_note_amounts(inputs)
      BY <1>1, <1>3, <1>4, CoveredSum
    <3> QED
      BY <1>3, <2>2, <3>1, ChangeOutputsOK
  <2> QED
    BY <2>1, <2>2
<1>7. bulk.state # "flight" /\ UNCHANGED bulk
  BY DEF withdraw, MayPay
<1> QED
  BY <1>2, <1>3, <1>4, <1>6, <1>7, WalletBuildKeeps

\* A transfer moves nothing in or out.
LEMMA TransferKeeps == FlowsInv /\ transfer => FlowsInv'
<1> SUFFICES ASSUME FlowsInv, transfer PROVE FlowsInv'
  OBVIOUS
<1>1. PICK inputs \in InputLists, outputs \in OutputLists :
        Builds(inputs, 0, outputs, "pool", asp, "wallet")
  BY DEF transfer
<1>2. TypesOK /\ 0 \in Int /\ "pool" \in Payees \union {"pool"}
  BY DEF FlowsInv
<1>3. Len(outputs) <= 2
  BY <1>1 DEF Builds, acceptable
<1>4. FreshOutputs(outputs) /\ InputsOK(inputs)
  BY <1>2, <1>3, OutputListsOK, InputListsOK
<1>5. bulk.state # "flight" /\ UNCHANGED bulk
  BY DEF transfer, MayPay
<1> QED
  BY <1>1, <1>2, <1>4, <1>5, WalletBuildKeeps

-----------------------------------------------------------------------------
(* The session.                                                            *)

\* No blinding is on chain twice, so a note has one index.
LEMMA OneIndex ==
  ASSUME TypesOK, LeavesOK, NEW n, NEW i \in IndicesOf(n), NEW j \in IndicesOf(n)
  PROVE  i = j
<1>1. PICK k \in 1..Len(pool.leaves) : i = k - 1 /\ pool.leaves[k].note = n
  BY DEF IndicesOf
<1>2. PICK l \in 1..Len(pool.leaves) : j = l - 1 /\ pool.leaves[l].note = n
  BY DEF IndicesOf
<1>3. k = l
  BY <1>1, <1>2 DEF LeavesOK
<1> QED
  BY <1>1, <1>2, <1>3

\* An index of a note is a place in the tree.
LEMMA IndexIsPlace ==
  ASSUME TypesOK, NEW n, NEW i \in IndicesOf(n)
  PROVE  /\ i \in Nat /\ i < Len(pool.leaves) /\ i + 1 \in 1..Len(pool.leaves)
         /\ pool.leaves[i + 1].note = n
<1>1. PICK k \in 1..Len(pool.leaves) : i = k - 1 /\ pool.leaves[k].note = n
  BY DEF IndicesOf
<1>2. Len(pool.leaves) \in Nat
  BY DEF TypesOK
<1>3. i + 1 = k /\ i \in Nat /\ i < Len(pool.leaves)
  BY <1>1, <1>2
<1> QED
  BY <1>1, <1>3

\* A step is built from the session's note.
LEMMA BuildStepKeeps == FlowsInv /\ build_step => FlowsInv'
<1> SUFFICES ASSUME FlowsInv, build_step PROVE FlowsInv'
  OBVIOUS
<1> DEFINE p == [zero_output(bulk.change[bulk.step + 1]) EXCEPT !.amount = bulk.amount - Payee.amount]
           q == zero_output(blinding + 5)
           outputs == <<p, q>>
<1>1. PICK index \in IndicesOf(CurrentNote) :
        LET inputs == <<[amount |-> bulk.amount, blinding |-> bulk.blinding, index |-> index]>>
        IN  /\ covers(inputs, Payee.amount)
            /\ Builds(inputs, - Payee.amount, outputs, Payee.to, bulk.asp, "bulk")
  BY DEF build_step
<1>2. PICK i : i = [amount |-> bulk.amount, blinding |-> bulk.blinding, index |-> index]
  OBVIOUS
<1> DEFINE inputs == <<i>>
<1>3. covers(inputs, Payee.amount) /\ Builds(inputs, - Payee.amount, outputs, Payee.to, bulk.asp, "bulk")
  BY <1>1, <1>2
<1>4. TypesOK /\ LeavesOK /\ NetworkOK /\ SessionOK
  BY DEF FlowsInv
<1>5. bulk # NoBulk /\ bulk \in Sessions /\ bulk.state = "ready"
  BY <1>4 DEF build_step, TypesOK, NoBulk
<1>6. bulk.step \in Nat /\ Len(bulk.recipients) \in Nat /\ bulk.step + 1 \in 1..Len(bulk.recipients)
  <2>1. bulk.step \in Nat /\ Len(bulk.recipients) \in Nat
    BY <1>5 DEF Sessions
  <2>2. ~ (bulk.step >= Len(bulk.recipients))
    BY DEF build_step, is_done
  <2> QED
    BY <2>1, <2>2
<1>7. Payee \in Payouts /\ Payee.amount \in Int /\ - Payee.amount \in Int
  <2>1. Payee \in Payouts
    BY <1>5, <1>6 DEF Sessions, Payee
  <2>2. \A e \in Payouts : e.amount \in Int
    BY ExtAmountsAreInts DEF Payouts
  <2>3. Payee.amount \in Int
    BY <2>1, <2>2
  <2> QED
    BY <2>1, <2>3
<1>8. /\ index \in Nat /\ index < Len(pool.leaves) /\ pool.leaves[index + 1].note = CurrentNote
  BY <1>4, IndexIsPlace
<1>9. i \in Ins /\ i.index = index /\ Note(i.amount, User, i.blinding) = CurrentNote /\ i.amount = bulk.amount
  BY <1>2, <1>5, <1>8 DEF Ins, Sessions, CurrentNote
<1>10. InputsOK(inputs)
  <2>1. \A k \in 1..1 : k = 1
    OBVIOUS
  <2> QED
    BY <1>8, <1>9, <2>1 DEF InputsOK
<1>11. Payee.amount \in 0..bulk.amount /\ bulk.amount \in 0..NoteMax
  <2>1. sum_note_amounts(inputs) \in 0..NoteMax /\ Payee.amount \in 0..sum_note_amounts(inputs)
    BY <1>3, <1>4, <1>7, <1>10, CoveredSum
  <2>2. SumAmounts(inputs) = 0 + bulk.amount
    BY <1>9, ShortSums
  <2>3. bulk.amount \in 0..NoteMax
    BY <1>5 DEF Sessions
  <2>4. sum_note_amounts(inputs) = bulk.amount
    BY <2>2, <2>3, Widths DEF sum_note_amounts, checked_add
  <2> QED
    BY <2>1, <2>3, <2>4
<1>12. bulk.change[bulk.step + 1] \in Nat /\ blinding \in Nat /\ blinding + 5 \in Nat
  <2>1. bulk.change \in Seq(Nat) /\ Len(bulk.change) = Len(bulk.recipients)
    BY <1>4, <1>5 DEF Sessions, SessionOK, ChangeOK
  <2> QED
    BY <1>4, <1>6, <2>1, SMTT(30) DEF TypesOK
<1>13. /\ p \in Outs /\ p.blinding = bulk.change[bulk.step + 1]
       /\ commitment(p) = Note(bulk.amount - Payee.amount, User, bulk.change[bulk.step + 1])
  <2>1. bulk.amount - Payee.amount \in 0..NoteMax
    BY <1>7, <1>11, Widths
  <2> QED
    BY <1>12, <2>1 DEF zero_output, Outs, commitment, Note, KeyOf
<1>14. q \in Outs /\ q.blinding = blinding + 5
  BY <1>12, Widths DEF zero_output, Outs
<1> HIDE DEF p, q
<1>15. OutputsOK(outputs) /\ Len(outputs) = 2 /\ outputs[1] = p /\ outputs[2] = q
  BY <1>13, <1>14 DEF OutputsOK
<1>16. Len(inputs) = 1 /\ inputs[1] = i
  OBVIOUS
<1> HIDE DEF inputs, outputs
<1>17. PICK a : a = artifacts(inputs, - Payee.amount, outputs, Payee.to, bulk.asp, "bulk")
  OBVIOUS
<1>18. /\ acceptable(inputs, - Payee.amount, outputs) /\ built' = a
       /\ blinding' = blinding + 6 /\ UNCHANGED <<pool, asp, late>>
  BY <1>3, <1>17 DEF Builds
<1>19. Payee.to \in Payees \union {"pool"} /\ bulk.asp \in Nat
  BY <1>5, <1>7 DEF Payouts, Sessions
<1>20. Made(a, inputs, - Payee.amount, outputs, Payee.to, bulk.asp, "bulk")
  BY <1>7, <1>10, <1>15, <1>17, <1>18, <1>19 DEF Made
<1>21. a.by = "bulk" /\ a.recipient = Payee.to /\ a.ext = - Payee.amount
  BY <1>4, <1>20, ArtifactsTyped DEF FieldsOK
<1>22. /\ a.outs[1].note = commitment(p) /\ a.outs[2].note.blinding = blinding + 5
       /\ a.ins[1] = CurrentNote /\ a.index[1] = index
  <2>1. /\ Len(outputs) = 2 => /\ a.outs[1].note = commitment(outputs[1])
                               /\ a.outs[2].note.blinding = outputs[2].blinding
        /\ Len(inputs) = 1 => /\ a.ins[1] = Note(inputs[1].amount, User, inputs[1].blinding)
                              /\ a.index[1] = inputs[1].index
    BY <1>4, <1>20, ArtifactsBlindings
  <2> QED
    BY <1>9, <1>14, <1>15, <1>16, <2>1
<1>23. StepOK(a)
  <2>1. Len(pool.paid) = bulk.step \/ Len(pool.paid) = bulk.step + 1
    BY <1>4, <1>5 DEF SessionOK, PaidOK
  <2>2. CASE Len(pool.paid) = bulk.step
    <3>1. bulk.step < Len(bulk.recipients)
      BY <1>6
    <3> QED
      BY <1>11, <1>13, <1>21, <1>22, <2>2, <3>1 DEF StepOK
  <2>3. CASE Len(pool.paid) = bulk.step + 1
    <3>1. \A j \in IndicesOf(CurrentNote) : Nullifier(CurrentNote, j) \in pool.spent
      BY <1>4, <1>5, <2>3 DEF SessionOK, StepPaidOK
    <3> QED
      BY <1>22, <3>1 DEF StepOK
  <2> QED
    BY <2>1, <2>2, <2>3
<1>24. NewBlindings(a)
  <2>1. blinding + 5 \in blinding..(blinding + 5)
    BY <1>12
  <2> QED
    BY <1>5, <1>21, <1>22, <1>23, <2>1 DEF NewBlindings, OwnOutputs
<1>25. bulk' = [bulk EXCEPT !.state = "flight"]
  BY DEF build_step
<1>26. /\ bulk' \in Sessions /\ bulk' # NoBulk /\ bulk'.state = "flight" /\ SameSession
  <2>1. /\ bulk' \in Sessions /\ bulk'.state = "flight" /\ bulk'.recipients = bulk.recipients
        /\ bulk'.step = bulk.step /\ bulk'.change = bulk.change
        /\ bulk'.amount = bulk.amount /\ bulk'.blinding = bulk.blinding
    BY <1>5, <1>25 DEF Sessions
  <2>2. bulk' # NoBulk
    BY <2>1 DEF NoBulk
  <2> QED
    BY <1>5, <2>1, <2>2 DEF SameSession
<1>27. FlightOK'
  <2>1. built'.state = "sent" /\ built'.by = "bulk"
    BY <1>4, <1>18, <1>20, <1>21, ArtifactsTyped DEF FieldsOK
  <2>2. bulk'.step < Len(bulk'.recipients) /\ Payee' = Payee /\ bulk'.amount = bulk.amount
    BY <1>6, <1>18, <1>26, SameView DEF SameSession
  <2> QED
    BY <1>11, <2>1, <2>2 DEF FlightOK
<1> QED
  BY <1>18, <1>20, <1>24, <1>26, <1>27, BuildKeeps

\* A new session draws its blindings ahead and has paid nobody.
LEMMA BulkNewKeeps == FlowsInv /\ bulk_new => FlowsInv'
<1> SUFFICES ASSUME FlowsInv, bulk_new PROVE FlowsInv'
  OBVIOUS
<1>1. TypesOK /\ LeavesOK /\ NetworkOK /\ SessionOK /\ ProofOK
  BY DEF FlowsInv
<1>2. PICK input \in UserInputs, recipients \in PayLists \ {<<>>} :
        /\ affordable(input.amount, recipients)
        /\ bulk' = [state |-> "ready", recipients |-> recipients, step |-> 0, asp |-> asp,
                    change |-> [k \in 1..Len(recipients) |-> blinding + k - 1],
                    amount |-> input.amount, blinding |-> input.blinding]
        /\ blinding' = blinding + Len(recipients)
  BY DEF bulk_new
<1>3. bulk = NoBulk /\ UNCHANGED <<pool, asp, built, late, calls>>
  BY DEF bulk_new
<1>4. /\ input \in Ins /\ input.index < Len(pool.leaves)
      /\ pool.leaves[input.index + 1].note = Note(input.amount, User, input.blinding)
  BY <1>1, UserInputOK
<1>5. recipients \in Seq(Payouts) /\ Len(recipients) \in Nat
  <2>1. PICK n \in 0..MaxPayees : recipients \in [1..n -> Payouts]
    BY <1>2 DEF PayLists, Payouts
  <2> QED
    BY <2>1
<1>6. blinding \in Nat /\ blinding' \in Nat /\ blinding' >= blinding /\ asp \in Nat
  BY <1>1, <1>2, <1>5 DEF TypesOK
<1> DEFINE change == [k \in 1..Len(recipients) |-> blinding + k - 1]
<1>7. /\ change \in Seq(Nat) /\ Len(change) = Len(recipients)
      /\ \A k \in 1..Len(recipients) : change[k] = blinding + k - 1
  <2>1. \A k \in 1..Len(recipients) : blinding + k - 1 \in Nat
    BY <1>6
  <2> QED
    BY <1>5, <2>1
<1>8. /\ bulk'.state = "ready" /\ bulk'.recipients = recipients /\ bulk'.step = 0 /\ bulk'.asp = asp
      /\ bulk'.change = change /\ bulk'.amount = input.amount /\ bulk'.blinding = input.blinding
  BY <1>2
<1> HIDE DEF change
<1>9. bulk' \in Sessions
  <2>1. input.amount \in 0..NoteMax /\ input.blinding \in Nat
    BY <1>4 DEF Ins
  <2> QED
    BY <1>2, <1>5, <1>6, <1>7, <2>1 DEF Sessions, change
<1>10. bulk' # NoBulk
  BY <1>8 DEF NoBulk
<1>11. TypesOK'
  BY <1>1, <1>3, <1>6, <1>9 DEF TypesOK
<1>12. LeavesOK'
  <2>1. \A k \in 1..Len(pool.leaves) :
          pool.leaves[k].note.blinding \in Nat /\ pool.leaves[k].note.blinding < blinding
    BY <1>1, LeafTyped DEF LeavesOK
  <2>2. \A k \in 1..Len(pool.leaves) : pool.leaves[k].note.blinding < blinding'
    BY <1>6, <2>1
  <2> QED
    BY <1>1, <1>3, <2>2 DEF LeavesOK
<1>13. ASSUME NEW a \in Txs, PendingOK(a) PROVE PendingOK(a)'
  <2>1. a.by = "wallet"
    BY <1>3, <1>13 DEF PendingOK, Txs
  <2>2. ASSUME NEW k \in OwnOutputs(a)
        PROVE  /\ a.outs[k].note.blinding < blinding'
               /\ \A j \in 1..Len(change) : a.outs[k].note.blinding # change[j]
    <3>1. k \in 1..2
      BY DEF OwnOutputs
    <3>2. a.outs[k] \in Leaves
      BY <3>1 DEF Txs
    <3>3. a.outs[k].note.blinding \in Nat
      BY <3>2 DEF Leaves, Notes
    <3>4. a.outs[k].note.blinding < blinding
      BY <1>13 DEF PendingOK
    <3>5. \A j \in 1..Len(change) : change[j] \in Nat /\ change[j] >= blinding
      BY <1>5, <1>6, <1>7
    <3> QED
      BY <1>6, <3>3, <3>4, <3>5
  <2>3. \A k \in OwnOutputs(a) : ~ OnChain(a.outs[k].note.blinding)'
    BY <1>3, <1>13 DEF PendingOK, OnChain
  <2>4. a.outs[1].note.blinding # a.outs[2].note.blinding
    BY <1>13, <2>1 DEF PendingOK
  <2> QED
    BY <1>8, <2>1, <2>2, <2>3, <2>4 DEF PendingOK
<1>14. NetworkOK'
  <2>1. built.state = "sent" => built \in Txs
    BY <1>1 DEF TypesOK, NoArtifacts
  <2>2. built.state = "sent" => PendingOK(built)'
    <3>1. PICK a : a = built
      OBVIOUS
    <3>2. built.state = "sent" => PendingOK(a)'
      BY <1>1, <1>13, <2>1, <3>1 DEF NetworkOK
    <3>3. built' = a
      BY <1>3, <3>1
    <3>4. PendingOK(a)' => PendingOK(built)'
      BY <3>3 DEF PendingOK, OwnOutputs, OnChain, StepOK
    <3> QED
      BY <3>2, <3>4
  <2>3. \A a \in late : a \in Txs /\ PendingOK(a)'
    BY <1>1, <1>13 DEF NetworkOK, TypesOK
  <2> QED
    BY <1>1, <1>3, <2>2, <2>3 DEF NetworkOK, Apart, OwnOutputs
<1>15. pool'.paid = <<>> /\ Len(pool'.paid) = 0
  BY <1>1, <1>3 DEF SessionOK
<1>16. PaidOK'
  BY <1>5, <1>8, <1>15 DEF PaidOK
<1>17. ChangeOK'
  <2>1. \A k \in 1..Len(change) : change[k] < blinding'
    BY <1>2, <1>5, <1>6, <1>7
  <2>2. \A i, j \in 1..Len(change) : change[i] = change[j] => i = j
    BY <1>5, <1>6, <1>7
  <2>3. ASSUME NEW k \in 1..Len(change) PROVE ~ OnChain(change[k])
    <3>1. change[k] \in Nat /\ change[k] >= blinding
      BY <1>5, <1>6, <1>7
    <3>2. \A i \in 1..Len(pool.leaves) :
            pool.leaves[i].note.blinding \in Nat /\ pool.leaves[i].note.blinding < blinding
      BY <1>1, LeafTyped DEF LeavesOK
    <3> QED
      BY <1>6, <3>1, <3>2 DEF OnChain
  <2>4. \A k \in (Len(pool'.paid) + 1)..Len(bulk'.change) : k \in 1..Len(change)
    BY <1>8, <1>15
  <2>5. \A k \in (Len(pool'.paid) + 1)..Len(bulk'.change) : ~ OnChain(bulk.change[k])'
    BY <1>3, <1>8, <2>3, <2>4 DEF OnChain
  <2> QED
    BY <1>7, <1>8, <2>1, <2>2, <2>5 DEF ChangeOK
<1>18. StepPaidOK' /\ FlightOK'
  BY <1>8, <1>15 DEF StepPaidOK, FlightOK
<1>19. (IndicesOf(CurrentNote) # {})'
  <2>1. input.index \in Nat /\ Len(pool.leaves) \in Nat
    BY <1>1, <1>4 DEF Ins, TypesOK
  <2>2. input.index + 1 \in 1..Len(pool.leaves)
    BY <1>4, <2>1
  <2>3. pool'.leaves[input.index + 1].note = CurrentNote'
    BY <1>3, <1>4, <1>8 DEF CurrentNote
  <2>4. (input.index + 1) - 1 \in IndicesOf(CurrentNote)'
    BY <1>3, <2>2, <2>3 DEF IndicesOf
  <2> QED
    BY <2>4
<1>20. (LeftFrom(bulk.step) <= bulk.amount)'
  <2>1. \A k \in 1..Len(recipients) : recipients[k].amount \in Int
    <3>1. \A e \in Payouts : e.amount \in Int
      BY ExtAmountsAreInts DEF Payouts
    <3> QED
      BY <1>5, <3>1
  <2>2. SumAmounts(recipients) \in Int
    <3>1. \A k \in 0..Len(recipients) : SumFirst(recipients, k) \in Int
      BY <1>5, <2>1, SumIsInt
    <3> QED
      BY <1>5, <3>1 DEF SumAmounts
  <2>3. SumAmounts(recipients) <= input.amount
    BY <1>2 DEF affordable
  <2>4. SumFirst(recipients, 0) = 0
    BY SumStep
  <2>5. SumAmounts(recipients) - 0 = SumAmounts(recipients)
    BY <2>2
  <2> QED
    BY <1>8, <2>3, <2>4, <2>5 DEF LeftFrom
<1>21. SessionOK'
  BY <1>10, <1>16, <1>17, <1>18, <1>19, <1>20 DEF SessionOK
<1>22. ProofOK'
  BY <1>1, <1>3 DEF ProofOK, BuiltIsProvable, CircuitHolds
<1> QED
  BY <1>11, <1>12, <1>14, <1>21, <1>22 DEF FlowsInv

\* A confirmed step hands the session to its change note.
LEMMA AdvanceKeeps == FlowsInv /\ advance => FlowsInv'
<1> SUFFICES ASSUME FlowsInv, advance PROVE FlowsInv'
  OBVIOUS
<1>1. TypesOK /\ LeavesOK /\ NetworkOK /\ SessionOK /\ ProofOK
  BY DEF FlowsInv
<1>2. /\ bulk.state = "flight" /\ built.state = "landed" /\ bulk' = advanced
      /\ UNCHANGED <<pool, asp, built, late, blinding, calls>>
  BY DEF advance
<1>3. bulk \in Sessions /\ bulk # NoBulk
  BY <1>1, <1>2 DEF TypesOK, NoBulk
<1>4. /\ bulk.step \in Nat /\ bulk.recipients \in Seq(Payouts) /\ bulk.change \in Seq(Nat)
      /\ bulk.amount \in 0..NoteMax /\ Len(bulk.recipients) \in Nat
  BY <1>3 DEF Sessions
<1>5. PaidOK /\ ChangeOK /\ StepPaidOK /\ FlightOK /\ LeftFrom(bulk.step) <= bulk.amount
  BY <1>1, <1>3 DEF SessionOK
<1>6. /\ Len(pool.paid) = bulk.step + 1 /\ bulk.step < Len(bulk.recipients)
      /\ Payee.amount \in 0..bulk.amount
  BY <1>2, <1>5 DEF FlightOK
<1>7. bulk.step + 1 \in 1..Len(bulk.recipients) /\ bulk.change[bulk.step + 1] \in Nat
  BY <1>4, <1>5, <1>6, SMTT(30) DEF ChangeOK
<1> DEFINE rest == bulk.amount - Payee.amount
           b == bulk.change[bulk.step + 1]
<1>8. rest \in 0..NoteMax
  BY <1>4, <1>6, Widths
<1>9. /\ bulk' \in Sessions /\ bulk'.state = "ready" /\ bulk'.step = bulk.step + 1
      /\ bulk'.recipients = bulk.recipients /\ bulk'.change = bulk.change
      /\ bulk'.amount = rest /\ bulk'.blinding = b
  <2>1. bulk' = [bulk EXCEPT !.state = "ready", !.step = @ + 1, !.amount = rest, !.blinding = b]
    BY <1>2 DEF advanced
  <2> HIDE DEF rest, b
  <2>2. b \in Nat /\ bulk.step + 1 \in Nat
    BY <1>4, <1>7 DEF b
  <2> QED
    BY <1>3, <1>8, <2>1, <2>2 DEF Sessions
<1>10. bulk' # NoBulk
  BY <1>9 DEF NoBulk
<1>11. TypesOK'
  BY <1>1, <1>2, <1>9 DEF TypesOK
<1>12. LeavesOK'
  BY <1>1, <1>2 DEF LeavesOK
<1>13. ASSUME NEW a, PendingOK(a) PROVE PendingOK(a)'
  <2>1. a.by = "bulk" => Nullifier(a.ins[1], a.index[1]) \in pool.spent
    <3>1. Len(pool.paid) # bulk.step
      BY <1>4, <1>6
    <3> QED
      BY <1>13, <3>1 DEF PendingOK, StepOK
  <2>2. a.by = "bulk" => StepOK(a)'
    BY <1>2, <2>1 DEF StepOK, Nullifier
  <2>3. \A k \in OwnOutputs(a) : ~ OnChain(a.outs[k].note.blinding)'
    BY <1>2, <1>13 DEF PendingOK, OnChain
  <2> HIDE DEF rest, b
  <2>4. \A k \in OwnOutputs(a) : \A j \in 1..Len(bulk'.change) : a.outs[k].note.blinding # bulk'.change[j]
    BY <1>3, <1>9, <1>13 DEF PendingOK
  <2> QED
    BY <1>2, <1>10, <1>13, <2>2, <2>3, <2>4 DEF PendingOK
<1>14. NetworkOK'
  BY <1>1, <1>2, <1>13 DEF NetworkOK, Apart, OwnOutputs
<1>15. PaidOK'
  BY <1>2, <1>4, <1>5, <1>6, <1>9 DEF PaidOK
<1>16. ChangeOK'
  <2>1. \A k \in (Len(pool.paid) + 1)..Len(bulk.change) : ~ OnChain(bulk.change[k])'
    BY <1>2, <1>5, <1>9 DEF ChangeOK, OnChain
  <2> HIDE DEF rest, b
  <2> QED
    BY <1>2, <1>5, <1>9, <2>1 DEF ChangeOK
<1>17. StepPaidOK' /\ FlightOK'
  <2>1. Len(pool'.paid) # bulk'.step + 1
    BY <1>2, <1>4, <1>6, <1>9
  <2> QED
    BY <1>9, <2>1 DEF StepPaidOK, FlightOK
<1>18. (IndicesOf(CurrentNote) # {})'
  <2>1. IndicesOf(Note(rest, User, b)) # {}
    BY <1>5, <1>6 DEF StepPaidOK
  <2>2. CurrentNote' = Note(rest, User, b)
    BY <1>9 DEF CurrentNote
  <2> HIDE DEF rest, b
  <2>3. IndicesOf(CurrentNote)' = IndicesOf(Note(rest, User, b))
    BY <1>2, <2>2 DEF IndicesOf
  <2> QED
    BY <2>1, <2>3
<1>19. (LeftFrom(bulk.step) <= bulk.amount)'
  <2>1. \A k \in 1..Len(bulk.recipients) : bulk.recipients[k].amount \in Int
    <3>1. \A e \in Payouts : e.amount \in Int
      BY ExtAmountsAreInts DEF Payouts
    <3> QED
      BY <1>4, <3>1
  <2>2. \A k \in 0..Len(bulk.recipients) : SumFirst(bulk.recipients, k) \in Int
    BY <1>4, <2>1, SumIsInt
  <2>3. /\ SumAmounts(bulk.recipients) \in Int /\ SumFirst(bulk.recipients, bulk.step) \in Int
    BY <1>4, <1>6, <2>2 DEF SumAmounts
  <2>4. SumFirst(bulk.recipients, bulk.step + 1)
          = SumFirst(bulk.recipients, bulk.step) + Payee.amount
    BY <1>4, SumStep DEF Payee
  <2>5. SumAmounts(bulk.recipients) - SumFirst(bulk.recipients, bulk.step) <= bulk.amount
    BY <1>5 DEF LeftFrom
  <2>6. Payee.amount \in Int /\ bulk.amount \in Int
    BY <1>4, <1>6, Widths
  <2>7. SumAmounts(bulk.recipients) - SumFirst(bulk.recipients, bulk.step + 1) <= rest
    BY <2>3, <2>4, <2>5, <2>6
  <2> HIDE DEF rest, b
  <2> QED
    BY <1>9, <2>7 DEF LeftFrom
<1>20. SessionOK'
  BY <1>10, <1>15, <1>16, <1>17, <1>18, <1>19 DEF SessionOK
<1>21. ProofOK'
  BY <1>1, <1>2 DEF ProofOK, BuiltIsProvable, CircuitHolds
<1> QED
  BY <1>11, <1>12, <1>14, <1>20, <1>21 DEF FlowsInv

\* A step that was refused or lost is made ready again.
LEMMA StepAgainKeeps == FlowsInv /\ step_again => FlowsInv'
<1> SUFFICES ASSUME FlowsInv, step_again PROVE FlowsInv'
  OBVIOUS
<1>1. TypesOK /\ LeavesOK /\ NetworkOK /\ SessionOK /\ ProofOK
  BY DEF FlowsInv
<1>2. /\ bulk.state = "flight" /\ bulk' = [bulk EXCEPT !.state = "ready"]
      /\ UNCHANGED <<pool, asp, built, late, blinding, calls>>
  BY DEF step_again
<1>3. bulk \in Sessions /\ bulk # NoBulk
  BY <1>1, <1>2 DEF TypesOK, NoBulk
<1>4. bulk' \in Sessions /\ bulk'.state = "ready" /\ bulk' # NoBulk /\ SameSession
  <2>1. /\ bulk' \in Sessions /\ bulk'.state = "ready" /\ bulk'.recipients = bulk.recipients
        /\ bulk'.step = bulk.step /\ bulk'.change = bulk.change
        /\ bulk'.amount = bulk.amount /\ bulk'.blinding = bulk.blinding
    BY <1>2, <1>3 DEF Sessions
  <2>2. bulk' # NoBulk
    BY <2>1 DEF NoBulk
  <2> QED
    BY <1>3, <2>1, <2>2 DEF SameSession
<1>5. TypesOK'
  BY <1>1, <1>2, <1>4 DEF TypesOK
<1>6. blinding' \in Nat /\ blinding' >= blinding
  BY <1>1, <1>2 DEF TypesOK
<1>7. LeavesOK' /\ (\A a \in Txs : PendingOK(a) => PendingOK(a)') /\ (bulk # NoBulk /\ ChangeOK => ChangeOK')
  BY <1>1, <1>2, <1>4, <1>6, SameChain
<1>8. NetworkOK'
  <2>1. built.state = "sent" => PendingOK(built)'
    <3>1. built.state = "sent" => built \in Txs
      BY <1>1 DEF TypesOK, NoArtifacts
    <3>2. PICK a : a = built
      OBVIOUS
    <3>3. built.state = "sent" => PendingOK(a)'
      BY <1>1, <1>7, <3>1, <3>2 DEF NetworkOK
    <3>4. built' = a
      BY <1>2, <3>2
    <3>5. PendingOK(a)' => PendingOK(built)'
      BY <3>4 DEF PendingOK, OwnOutputs, OnChain, StepOK
    <3> QED
      BY <3>3, <3>5
  <2>2. \A a \in late : PendingOK(a)'
    BY <1>1, <1>7 DEF NetworkOK, TypesOK
  <2> QED
    BY <1>1, <1>2, <2>1, <2>2 DEF NetworkOK, Apart, OwnOutputs
<1>9. PaidOK' /\ StepPaidOK' /\ (IndicesOf(CurrentNote) # {})' /\ (LeftFrom(bulk.step) <= bulk.amount)'
  BY <1>1, <1>2, <1>3, <1>4, SameView DEF SessionOK
<1>10. ChangeOK' /\ FlightOK'
  BY <1>1, <1>3, <1>4, <1>7 DEF SessionOK, FlightOK
<1>11. SessionOK'
  BY <1>4, <1>9, <1>10 DEF SessionOK
<1>12. ProofOK'
  BY <1>1, <1>2 DEF ProofOK, BuiltIsProvable, CircuitHolds
<1> QED
  BY <1>5, <1>7, <1>8, <1>11, <1>12 DEF FlowsInv

\* A caller that gives up leaves its transaction to the network.
LEMMA GiveUpKeeps == FlowsInv /\ give_up => FlowsInv'
<1> SUFFICES ASSUME FlowsInv, give_up PROVE FlowsInv'
  OBVIOUS
<1>1. TypesOK /\ LeavesOK /\ NetworkOK /\ SessionOK /\ ProofOK
  BY DEF FlowsInv
<1>2. /\ built.state = "sent" /\ built' = [built EXCEPT !.state = "lost"]
      /\ late' = late \union {built} /\ UNCHANGED <<pool, asp, bulk, blinding>>
  BY DEF give_up
<1>3. built \in Txs
  BY <1>1, <1>2 DEF TypesOK, NoArtifacts
<1>4. built' \in Txs /\ built'.state = "lost" /\ built'.by = built.by /\ built'.root = built.root
  BY <1>2, <1>3 DEF Txs
<1>5. TypesOK'
  <2>1. late' \subseteq {a \in Txs : a.state = "sent"}
    BY <1>1, <1>2, <1>3 DEF TypesOK
  <2> QED
    BY <1>1, <1>2, <1>4, <2>1 DEF TypesOK
<1>6. LeavesOK'
  BY <1>1, <1>2 DEF LeavesOK
<1>7. ASSUME NEW a, PendingOK(a) PROVE PendingOK(a)'
  BY <1>2, <1>7 DEF PendingOK, OnChain, StepOK, Payee, CurrentNote, IndicesOf
<1>8. \A a \in late' : PendingOK(a)'
  <2> SUFFICES ASSUME NEW a \in late' PROVE PendingOK(a)'
    OBVIOUS
  <2>1. a \in late \/ a = built
    BY <1>2
  <2>2. PendingOK(a)
    BY <1>1, <1>2, <2>1 DEF NetworkOK
  <2> QED
    BY <1>7, <2>2
<1>9. \A a, b \in late' : a # b => Apart(a, b)'
  <2> SUFFICES ASSUME NEW a \in late', NEW b \in late', a # b PROVE Apart(a, b)'
    OBVIOUS
  <2>1. (a \in late \/ a = built) /\ (b \in late \/ b = built)
    BY <1>2
  <2>2. Apart(built, a) <=> Apart(a, built)
    BY DEF Apart
  <2>3. Apart(a, b)
    BY <1>1, <1>2, <2>1, <2>2 DEF NetworkOK
  <2> QED
    BY <2>3 DEF Apart, OwnOutputs
<1>10. NetworkOK'
  BY <1>4, <1>8, <1>9 DEF NetworkOK
<1>11. SessionOK'
  <2>1. CASE bulk = NoBulk
    BY <1>1, <1>2, <2>1 DEF SessionOK
  <2>2. CASE bulk # NoBulk
    <3>1. SameSession
      BY <1>2 DEF SameSession
    <3>2. PaidOK' /\ StepPaidOK' /\ (IndicesOf(CurrentNote) # {})' /\ (LeftFrom(bulk.step) <= bulk.amount)'
      BY <1>1, <1>2, <2>2, <3>1, SameView DEF SessionOK
    <3>3. ChangeOK'
      BY <1>1, <1>2, <2>2 DEF SessionOK, ChangeOK, OnChain
    <3>4. FlightOK'
      BY <1>1, <1>2, <1>4, <2>2 DEF SessionOK, FlightOK, Payee
    <3> QED
      BY <1>2, <2>2, <3>2, <3>3, <3>4 DEF SessionOK
  <2> QED
    BY <2>1, <2>2
<1>12. ProofOK'
  BY <1>1, <1>2, <1>4 DEF ProofOK, BuiltIsProvable
<1> QED
  BY <1>5, <1>6, <1>10, <1>11, <1>12 DEF FlowsInv

\* A change of the ASP trees refuses what was proved before, and touches nothing else.
LEMMA AspChangesKeeps == FlowsInv /\ asp_changes => FlowsInv'
<1> SUFFICES ASSUME FlowsInv, asp_changes PROVE FlowsInv'
  OBVIOUS
<1>1. asp' = asp + 1 /\ UNCHANGED <<pool, built, late, bulk, blinding>>
  BY DEF asp_changes
<1>2. TypesOK'
  <2>1. TypesOK /\ asp \in Nat
    BY DEF FlowsInv, TypesOK
  <2>2. asp' \in Nat
    BY <1>1, <2>1
  <2> QED
    BY <1>1, <2>1, <2>2 DEF TypesOK
<1>3. LeavesOK' /\ NetworkOK'
  BY <1>1 DEF FlowsInv, LeavesOK, NetworkOK, PendingOK, OnChain, StepOK, Payee, CurrentNote, IndicesOf,
       Apart, OwnOutputs
<1>4. SessionOK'
  BY <1>1 DEF FlowsInv, SessionOK, PaidOK, ChangeOK, StepPaidOK, FlightOK, OnChain, Payee, CurrentNote,
       IndicesOf, LeftFrom
<1>5. ProofOK'
  BY <1>1 DEF FlowsInv, ProofOK, BuiltIsProvable, CircuitHolds
<1> QED
  BY <1>2, <1>3, <1>4, <1>5 DEF FlowsInv

-----------------------------------------------------------------------------
(* A transaction lands.                                                    *)

\* Two elements are appended.
LEMMA AppendTwo ==
  ASSUME NEW S, NEW s \in Seq(S), NEW t \in [1..2 -> S]
  PROVE  /\ Len(s) \in Nat /\ Len(s \o t) = Len(s) + 2 /\ s \o t \in Seq(S)
         /\ \A k \in 1..Len(s) : (s \o t)[k] = s[k]
         /\ (s \o t)[Len(s) + 1] = t[1] /\ (s \o t)[Len(s) + 2] = t[2]
<1>1. t \in Seq(S) /\ Len(t) = 2
  <2>1. PICK n \in Nat : n = 2
    OBVIOUS
  <2>2. t \in [1..n -> S]
    BY <2>1
  <2>3. t \in Seq(S) /\ Len(t) = n
    BY <2>2
  <2> QED
    BY <2>1, <2>3
<1>2. /\ s \o t \in Seq(S) /\ Len(s \o t) = Len(s) + Len(t)
      /\ \A i \in 1..Len(s) + Len(t) :
           (s \o t)[i] = IF i <= Len(s) THEN s[i] ELSE t[i - Len(s)]
  BY <1>1, ConcatProperties
<1>3. Len(s) \in Nat
  OBVIOUS
<1> DEFINE c == s \o t
           n == Len(s)
<1>4. /\ n \in Nat /\ Len(c) = n + 2 /\ c \in Seq(S)
      /\ \A i \in 1..n + 2 : c[i] = IF i <= n THEN s[i] ELSE t[i - n]
  BY <1>1, <1>2, <1>3
<1> HIDE DEF c, n
<1>5. \A k \in 1..n : c[k] = s[k]
  BY <1>4
<1>6. c[n + 1] = t[1] /\ c[n + 2] = t[2]
  <2>1. /\ n + 1 \in 1..n + 2 /\ n + 2 \in 1..n + 2 /\ (n + 1) - n = 1 /\ (n + 2) - n = 2
        /\ ~ (n + 1 <= n) /\ ~ (n + 2 <= n)
    BY <1>4
  <2> QED
    BY <1>4, <2>1
<1> QED
  BY <1>4, <1>5, <1>6 DEF c, n

\* One element is appended.
LEMMA AppendOne ==
  ASSUME NEW S, NEW s \in Seq(S), NEW e \in S
  PROVE  /\ Len(s) \in Nat /\ Len(Append(s, e)) = Len(s) + 1 /\ Append(s, e) \in Seq(S)
         /\ \A k \in 1..Len(s) : Append(s, e)[k] = s[k]
         /\ Append(s, e)[Len(s) + 1] = e
<1>1. Len(s) \in Nat /\ Len(Append(s, e)) = Len(s) + 1 /\ Append(s, e) \in Seq(S)
  OBVIOUS
<1>2. \A k \in 1..Len(s) : Append(s, e)[k] = s[k]
  OBVIOUS
<1>3. Append(s, e)[Len(s) + 1] = e
  OBVIOUS
<1> QED
  BY <1>1, <1>2, <1>3

\* What the pool holds after a transaction.
LEMMA LandedPool ==
  ASSUME TypesOK, NEW a \in Txs, pool' = Landed(a)
  PROVE  /\ Len(pool.leaves) \in Nat /\ Len(pool'.leaves) = Len(pool.leaves) + 2
         /\ \A k \in 1..Len(pool.leaves) : pool'.leaves[k] = pool.leaves[k]
         /\ pool'.leaves[Len(pool.leaves) + 1] = a.outs[1]
         /\ pool'.leaves[Len(pool.leaves) + 2] = a.outs[2]
         /\ pool'.leaves \in Seq(Leaves)
         /\ pool'.spent = pool.spent \union {Nullifier(a.ins[k], a.index[k]) : k \in 1..2}
         /\ pool'.spent \subseteq Notes \X Nat
         /\ pool'.paid = IF a.by = "bulk" THEN Append(pool.paid, [to |-> a.recipient, amount |-> - a.ext])
                         ELSE pool.paid
         /\ pool' \in [leaves : Seq(Leaves), spent : SUBSET (Notes \X Nat),
                       paid : Seq([to : Payees \union {"pool"}, amount : Int])]
<1>1. /\ pool'.leaves = pool.leaves \o a.outs
      /\ pool'.spent = pool.spent \union {Nullifier(a.ins[k], a.index[k]) : k \in 1..2}
      /\ pool'.paid = IF a.by = "bulk" THEN Append(pool.paid, [to |-> a.recipient, amount |-> - a.ext])
                      ELSE pool.paid
      /\ pool' = [leaves |-> pool'.leaves, spent |-> pool'.spent, paid |-> pool'.paid]
  BY DEF Landed
<1>2. /\ pool.leaves \in Seq(Leaves) /\ pool.spent \subseteq Notes \X Nat
      /\ pool.paid \in Seq([to : Payees \union {"pool"}, amount : Int])
  BY DEF TypesOK
<1>3. /\ a.outs \in [1..2 -> Leaves] /\ a.ins \in [1..2 -> Notes] /\ a.index \in [1..2 -> Nat]
      /\ a.recipient \in Payees \union {"pool"} /\ a.ext \in Int
  BY DEF Txs
<1>4. /\ Len(pool.leaves) \in Nat /\ Len(pool.leaves \o a.outs) = Len(pool.leaves) + 2
      /\ pool.leaves \o a.outs \in Seq(Leaves)
      /\ \A k \in 1..Len(pool.leaves) : (pool.leaves \o a.outs)[k] = pool.leaves[k]
      /\ (pool.leaves \o a.outs)[Len(pool.leaves) + 1] = a.outs[1]
      /\ (pool.leaves \o a.outs)[Len(pool.leaves) + 2] = a.outs[2]
  <2>1. PICK s : s = pool.leaves
    OBVIOUS
  <2>2. PICK t : t = a.outs
    OBVIOUS
  <2>3. s \in Seq(Leaves) /\ t \in [1..2 -> Leaves]
    BY <1>2, <1>3, <2>1, <2>2
  <2>4. /\ Len(s) \in Nat /\ Len(s \o t) = Len(s) + 2 /\ s \o t \in Seq(Leaves)
        /\ \A k \in 1..Len(s) : (s \o t)[k] = s[k]
        /\ (s \o t)[Len(s) + 1] = t[1] /\ (s \o t)[Len(s) + 2] = t[2]
    BY <2>3, AppendTwo
  <2> QED
    BY <2>1, <2>2, <2>4
<1>5. /\ Len(pool.leaves) \in Nat /\ Len(pool'.leaves) = Len(pool.leaves) + 2
      /\ pool'.leaves \in Seq(Leaves)
      /\ \A k \in 1..Len(pool.leaves) : pool'.leaves[k] = pool.leaves[k]
  BY <1>1, <1>4
<1>6. /\ pool'.leaves[Len(pool.leaves) + 1] = a.outs[1]
      /\ pool'.leaves[Len(pool.leaves) + 2] = a.outs[2]
  BY <1>1, <1>4
<1>7. pool'.spent \subseteq Notes \X Nat
  BY <1>1, <1>2, <1>3 DEF Nullifier
<1>8. pool'.paid \in Seq([to : Payees \union {"pool"}, amount : Int])
  <2>1. - a.ext \in Int
    BY <1>3
  <2>2. [to |-> a.recipient, amount |-> - a.ext] \in [to : Payees \union {"pool"}, amount : Int]
    BY <1>3, <2>1
  <2>3. Append(pool.paid, [to |-> a.recipient, amount |-> - a.ext])
          \in Seq([to : Payees \union {"pool"}, amount : Int])
    BY <1>2, <2>2, AppendOne
  <2> QED
    BY <1>1, <1>2, <2>3
<1>9. pool' \in [leaves : Seq(Leaves), spent : SUBSET (Notes \X Nat),
                 paid : Seq([to : Payees \union {"pool"}, amount : Int])]
  BY <1>1, <1>5, <1>7, <1>8
<1> QED
  BY <1>1, <1>5, <1>6, <1>7, <1>9

\* The tree grows by the two outputs and keeps what it has.
LEMMA LandedTree ==
  ASSUME TypesOK, NEW a \in Txs, pool' = Landed(a)
  PROVE  /\ \A b : OnChain(b)' <=> OnChain(b) \/ (\E k \in 1..2 : b = a.outs[k].note.blinding)
         /\ \A n : IndicesOf(n) \subseteq IndicesOf(n)'
         /\ a.outs[1].note \in Notes /\ Len(pool.leaves) \in IndicesOf(a.outs[1].note)'
<1> DEFINE len == Len(pool.leaves)
<1>1. /\ len \in Nat /\ Len(pool'.leaves) = len + 2
      /\ \A k \in 1..len : pool'.leaves[k] = pool.leaves[k]
      /\ pool'.leaves[len + 1] = a.outs[1] /\ pool'.leaves[len + 2] = a.outs[2]
  BY LandedPool
<1> HIDE DEF len
<1>2. \A k : k \in 1..(len + 2) <=> k \in 1..len \/ k = len + 1 \/ k = len + 2
  BY <1>1
<1>3. ASSUME NEW b PROVE OnChain(b)' <=> OnChain(b) \/ (\E k \in 1..2 : b = a.outs[k].note.blinding)
  <2>1. OnChain(b)' <=> \E k \in 1..(len + 2) : pool'.leaves[k].note.blinding = b
    BY <1>1 DEF OnChain
  <2>2. OnChain(b) <=> \E k \in 1..len : pool.leaves[k].note.blinding = b
    BY DEF OnChain, len
  <2>3. (\E k \in 1..2 : b = a.outs[k].note.blinding)
          <=> a.outs[1].note.blinding = b \/ a.outs[2].note.blinding = b
    OBVIOUS
  <2>4. ASSUME NEW k \in 1..(len + 2), pool'.leaves[k].note.blinding = b
        PROVE  OnChain(b) \/ (\E j \in 1..2 : b = a.outs[j].note.blinding)
    BY <1>1, <1>2, <2>2, <2>3, <2>4
  <2>5. ASSUME NEW k \in 1..len, pool.leaves[k].note.blinding = b PROVE OnChain(b)'
    <3>1. k \in 1..(len + 2) /\ pool'.leaves[k] = pool.leaves[k]
      BY <1>1, <1>2
    <3> QED
      BY <2>1, <2>5, <3>1
  <2>6. ASSUME a.outs[1].note.blinding = b \/ a.outs[2].note.blinding = b PROVE OnChain(b)'
    <3>1. len + 1 \in 1..(len + 2) /\ len + 2 \in 1..(len + 2)
      BY <1>1
    <3> QED
      BY <1>1, <2>1, <2>6, <3>1
  <2> QED
    BY <2>1, <2>2, <2>3, <2>4, <2>5, <2>6
<1>4. ASSUME NEW n PROVE IndicesOf(n) \subseteq IndicesOf(n)'
  <2>1. ASSUME NEW k \in 1..len, pool.leaves[k].note = n
        PROVE  k \in 1..Len(pool'.leaves) /\ pool'.leaves[k].note = n
    BY <1>1, <1>2, <2>1
  <2> QED
    BY <2>1 DEF IndicesOf, len
<1>5. a.outs[1].note \in Notes
  <2>1. a.outs[1] \in Leaves
    BY DEF Txs
  <2> QED
    BY <2>1 DEF Leaves
<1>6. len \in IndicesOf(a.outs[1].note)'
  <2>1. len + 1 \in 1..Len(pool'.leaves) /\ (len + 1) - 1 = len
    BY <1>1
  <2>2. pool'.leaves[len + 1].note = a.outs[1].note
    BY <1>1
  <2> QED
    BY <2>1, <2>2 DEF IndicesOf
<1> QED
  BY <1>3, <1>4, <1>5, <1>6 DEF len

\* A transaction of the session that is accepted is the current step.
LEMMA LandsInTurn ==
  ASSUME NEW a, PendingOK(a), Accepted(a), a.by = "bulk"
  PROVE  /\ bulk # NoBulk
         /\ bulk.step < Len(bulk.recipients) /\ Len(pool.paid) = bulk.step
         /\ a.ins[1] = CurrentNote /\ a.index[1] \in IndicesOf(CurrentNote)
         /\ a.recipient = Payee.to /\ a.ext = - Payee.amount
         /\ Payee.amount \in 0..bulk.amount
         /\ a.outs[1].note = Note(bulk.amount - Payee.amount, User, bulk.change[bulk.step + 1])
<1>1. Nullifier(a.ins[1], a.index[1]) \notin pool.spent
  BY DEF Accepted
<1> QED
  BY <1>1 DEF PendingOK, StepOK

\* The place of the session's current step.
LEMMA StepInRange ==
  ASSUME TypesOK, bulk # NoBulk, ChangeOK, bulk.step < Len(bulk.recipients)
  PROVE  /\ bulk.step \in Nat /\ Len(bulk.recipients) \in Nat /\ Len(bulk.change) = Len(bulk.recipients)
         /\ bulk.step + 1 \in 1..Len(bulk.recipients) /\ bulk.step + 1 \in 1..Len(bulk.change)
         /\ Payee \in Payouts /\ bulk.change[bulk.step + 1] \in Nat
<1>1. bulk.step \in Nat /\ bulk.recipients \in Seq(Payouts) /\ bulk.change \in Seq(Nat)
  BY DEF TypesOK, Sessions
<1>2. Len(bulk.change) = Len(bulk.recipients) /\ Len(bulk.recipients) \in Nat
  BY <1>1 DEF ChangeOK
<1>3. bulk.step + 1 \in 1..Len(bulk.recipients)
  BY <1>1, <1>2
<1> QED
  BY <1>1, <1>2, <1>3 DEF Payee

\* The outputs of a transaction that lands are new on chain and differ.
LEMMA LandsFresh ==
  ASSUME FlowsInv, NEW a \in Txs, PendingOK(a), Accepted(a)
  PROVE  /\ a.outs[1].note.blinding # a.outs[2].note.blinding
         /\ \A k \in 1..2 : /\ a.outs[k].note.blinding < blinding
                            /\ ~ OnChain(a.outs[k].note.blinding)
<1>1. CASE a.by = "wallet"
  <2>1. OwnOutputs(a) = {1, 2}
    BY <1>1 DEF OwnOutputs
  <2> QED
    BY <1>1, <2>1 DEF PendingOK
<1>2. CASE a.by = "bulk"
  <2>1. /\ bulk # NoBulk /\ bulk.step < Len(bulk.recipients) /\ Len(pool.paid) = bulk.step
        /\ a.outs[1].note = Note(bulk.amount - Payee.amount, User, bulk.change[bulk.step + 1])
    BY <1>2, LandsInTurn
  <2>2. TypesOK /\ ChangeOK
    BY <2>1 DEF FlowsInv, SessionOK
  <2>3. bulk.step + 1 \in 1..Len(bulk.change) /\ bulk.step \in Nat
    BY <2>1, <2>2, StepInRange
  <2>4. a.outs[1].note.blinding = bulk.change[bulk.step + 1]
    BY <2>1 DEF Note
  <2>5. bulk.change[bulk.step + 1] < blinding
    BY <2>2, <2>3 DEF ChangeOK
  <2>6. ~ OnChain(bulk.change[bulk.step + 1])
    BY <2>1, <2>2, <2>3 DEF ChangeOK
  <2>7. OwnOutputs(a) = {2}
    BY <1>2 DEF OwnOutputs
  <2>8. /\ a.outs[2].note.blinding < blinding /\ ~ OnChain(a.outs[2].note.blinding)
        /\ a.outs[2].note.blinding # bulk.change[bulk.step + 1]
    BY <2>1, <2>3, <2>7 DEF PendingOK
  <2>9. \A k \in 1..2 : k = 1 \/ k = 2
    OBVIOUS
  <2> QED
    BY <2>4, <2>5, <2>6, <2>8, <2>9
<1> QED
  BY <1>1, <1>2 DEF Txs

\* No blinding comes on chain twice.
LEMMA LandingLeaves ==
  ASSUME FlowsInv, NEW a \in Txs, PendingOK(a), Accepted(a), pool' = Landed(a), blinding' = blinding
  PROVE  LeavesOK'
<1> DEFINE len == Len(pool.leaves)
           B(k) == pool.leaves[k].note.blinding
           C(k) == pool'.leaves[k].note.blinding
<1>1. TypesOK /\ LeavesOK
  BY DEF FlowsInv
<1>2. /\ len \in Nat /\ Len(pool'.leaves) = len + 2
      /\ \A k \in 1..len : pool'.leaves[k] = pool.leaves[k]
      /\ pool'.leaves[len + 1] = a.outs[1] /\ pool'.leaves[len + 2] = a.outs[2]
  BY <1>1, LandedPool
<1>3. /\ C(len + 1) # C(len + 2) /\ C(len + 1) < blinding /\ C(len + 2) < blinding
      /\ \A k \in 1..len : C(k) = B(k) /\ C(k) < blinding /\ C(k) # C(len + 1) /\ C(k) # C(len + 2)
  BY <1>1, <1>2, LandsFresh DEF LeavesOK, OnChain
<1>4. \A i, j \in 1..len : C(i) = C(j) => i = j
  BY <1>1, <1>3 DEF LeavesOK
<1>5. \A k : k \in 1..(len + 2) <=> k \in 1..len \/ k = len + 1 \/ k = len + 2
  BY <1>2
<1> HIDE DEF len, B, C
<1>6. \A k \in 1..(len + 2) : C(k) < blinding
  BY <1>3, <1>5
<1>7. \A i, j \in 1..(len + 2) : C(i) = C(j) => i = j
  BY <1>3, <1>4, <1>5
<1> QED
  BY <1>2, <1>6, <1>7 DEF LeavesOK, C

\* Where the session's note is does not change when something lands.
LEMMA LandingNote ==
  ASSUME FlowsInv, NEW a \in Txs, PendingOK(a), Accepted(a), pool' = Landed(a), blinding' = blinding,
         bulk' = bulk, bulk # NoBulk
  PROVE  IndicesOf(CurrentNote)' = IndicesOf(CurrentNote)
<1>1. TypesOK /\ LeavesOK /\ IndicesOf(CurrentNote) # {}
  BY DEF FlowsInv, SessionOK
<1>2. LeavesOK'
  BY LandingLeaves
<1>3. PICK n : n = CurrentNote
  OBVIOUS
<1>4. CurrentNote' = n
  BY <1>3 DEF CurrentNote
<1>5. IndicesOf(n) \subseteq IndicesOf(n)'
  BY <1>1, LandedTree
<1>6. IndicesOf(CurrentNote)' = IndicesOf(n)'
  BY <1>4 DEF IndicesOf
<1>7. PICK i : i \in IndicesOf(n)
  BY <1>1, <1>3
<1>8. PICK k \in 1..Len(pool'.leaves) : i = k - 1 /\ pool'.leaves[k].note = n
  BY <1>5, <1>7 DEF IndicesOf
<1>9. ASSUME NEW j \in IndicesOf(n)' PROVE j = i
  <2>1. PICK l \in 1..Len(pool'.leaves) : j = l - 1 /\ pool'.leaves[l].note = n
    BY DEF IndicesOf
  <2>2. l = k
    BY <1>2, <1>8, <2>1 DEF LeavesOK
  <2> QED
    BY <1>8, <2>1, <2>2
<1>10. IndicesOf(n)' = IndicesOf(n)
  BY <1>5, <1>7, <1>9
<1> QED
  BY <1>3, <1>6, <1>10

\* What else may still land stays as it was, or becomes void.
LEMMA LandingPending ==
  ASSUME FlowsInv, NEW a \in Txs, PendingOK(a), Accepted(a), pool' = Landed(a), blinding' = blinding,
         bulk' = bulk, NEW b \in Txs, PendingOK(b), Apart(a, b)
  PROVE  PendingOK(b)'
<1>1. TypesOK /\ LeavesOK
  BY DEF FlowsInv
<1>2. /\ pool'.spent = pool.spent \union {Nullifier(a.ins[k], a.index[k]) : k \in 1..2}
      /\ pool'.paid = IF a.by = "bulk" THEN Append(pool.paid, [to |-> a.recipient, amount |-> - a.ext])
                      ELSE pool.paid
  BY <1>1, LandedPool
<1>3. ASSUME NEW k \in OwnOutputs(b), NEW j \in 1..2
      PROVE  b.outs[k].note.blinding # a.outs[j].note.blinding
  <2>1. CASE j \in OwnOutputs(a)
    BY <2>1 DEF Apart
  <2>2. CASE j \notin OwnOutputs(a)
    <3>1. a.by = "bulk" /\ j = 1
      BY <2>2 DEF OwnOutputs
    <3>2. /\ bulk # NoBulk /\ bulk.step < Len(bulk.recipients)
          /\ a.outs[1].note = Note(bulk.amount - Payee.amount, User, bulk.change[bulk.step + 1])
      BY <3>1, LandsInTurn
    <3>3. bulk.step + 1 \in 1..Len(bulk.change)
      BY <1>1, <3>2, StepInRange DEF FlowsInv, SessionOK
    <3>4. b.outs[k].note.blinding # bulk.change[bulk.step + 1]
      BY <3>2, <3>3 DEF PendingOK
    <3> QED
      BY <3>1, <3>2, <3>4 DEF Note
  <2> QED
    BY <2>1, <2>2
<1>4. ASSUME NEW k \in OwnOutputs(b) PROVE ~ OnChain(b.outs[k].note.blinding)'
  <2>1. PICK x : x = b.outs[k].note.blinding
    OBVIOUS
  <2>2. OnChain(x)' <=> OnChain(x) \/ (\E j \in 1..2 : x = a.outs[j].note.blinding)
    BY <1>1, LandedTree
  <2>3. ~ OnChain(x)
    BY <2>1 DEF PendingOK
  <2>4. ~ OnChain(x)'
    BY <1>3, <2>1, <2>2, <2>3
  <2> QED
    BY <2>1, <2>4
<1>5. ASSUME b.by = "bulk" PROVE StepOK(b)'
  <2>1. StepOK(b) /\ bulk # NoBulk
    BY <1>5 DEF PendingOK
  <2>2. CASE Nullifier(b.ins[1], b.index[1]) \in pool.spent
    BY <1>2, <2>2 DEF StepOK, Nullifier
  <2>3. CASE Nullifier(b.ins[1], b.index[1]) \notin pool.spent
    <3>1. /\ bulk.step < Len(bulk.recipients) /\ Len(pool.paid) = bulk.step
          /\ b.ins[1] = CurrentNote /\ b.index[1] \in IndicesOf(CurrentNote)
          /\ b.recipient = Payee.to /\ b.ext = - Payee.amount
          /\ Payee.amount \in 0..bulk.amount
          /\ b.outs[1].note = Note(bulk.amount - Payee.amount, User, bulk.change[bulk.step + 1])
      BY <2>1, <2>3 DEF StepOK
    <3>2. CASE a.by = "wallet"
      <4>1. pool'.paid = pool.paid
        BY <1>2, <3>2
      <4>2. b.index[1] \in IndicesOf(CurrentNote)'
        BY <2>1, <3>1, LandingNote
      <4>3. CurrentNote' = CurrentNote /\ Payee' = Payee
        BY DEF CurrentNote, Payee
      <4> QED
        BY <3>1, <4>1, <4>2, <4>3 DEF StepOK
    <3>3. CASE a.by = "bulk"
      <4>1. a.ins[1] = CurrentNote /\ a.index[1] \in IndicesOf(CurrentNote)
        BY <3>3, LandsInTurn
      <4>2. a.index[1] = b.index[1]
        BY <1>1, <3>1, <4>1, OneIndex
      <4>3. Nullifier(b.ins[1], b.index[1]) \in pool'.spent
        BY <1>2, <3>1, <4>1, <4>2
      <4> QED
        BY <4>3 DEF StepOK, Nullifier
    <3> QED
      BY <3>2, <3>3 DEF Txs
  <2> QED
    BY <2>2, <2>3
<1>6. \A k \in OwnOutputs(b) : /\ b.outs[k].note.blinding < blinding'
                               /\ bulk' # NoBulk => \A j \in 1..Len(bulk'.change) :
                                                      b.outs[k].note.blinding # bulk'.change[j]
  BY DEF PendingOK
<1>7. /\ b.by = "wallet" => b.outs[1].note.blinding # b.outs[2].note.blinding
      /\ b.by = "bulk" => bulk' # NoBulk
  BY DEF PendingOK
<1> QED
  BY <1>4, <1>5, <1>6, <1>7 DEF PendingOK

\* The session is paid one recipient further, or left alone.
LEMMA LandingSession ==
  ASSUME FlowsInv, NEW a \in Txs, PendingOK(a), Accepted(a), pool' = Landed(a), blinding' = blinding,
         bulk' = bulk
  PROVE  /\ bulk = NoBulk => pool'.paid = <<>>
         /\ bulk # NoBulk => /\ PaidOK' /\ ChangeOK' /\ StepPaidOK'
                             /\ (IndicesOf(CurrentNote) # {})'
                             /\ (LeftFrom(bulk.step) <= bulk.amount)'
                             /\ Len(pool.paid) = bulk.step + 1 => Len(pool'.paid) = bulk.step + 1
                             /\ a.by = "bulk" => Len(pool'.paid) = bulk.step + 1
<1>1. TypesOK /\ LeavesOK
  BY DEF FlowsInv
<1>2. /\ pool'.spent = pool.spent \union {Nullifier(a.ins[k], a.index[k]) : k \in 1..2}
      /\ pool'.paid = IF a.by = "bulk" THEN Append(pool.paid, [to |-> a.recipient, amount |-> - a.ext])
                      ELSE pool.paid
  BY <1>1, LandedPool
<1>3. ASSUME bulk = NoBulk PROVE pool'.paid = <<>>
  <2>1. a.by # "bulk"
    BY <1>3 DEF PendingOK
  <2> QED
    BY <1>2, <1>3, <2>1 DEF FlowsInv, SessionOK
<1>4. ASSUME bulk # NoBulk
      PROVE  /\ PaidOK /\ ChangeOK /\ StepPaidOK
             /\ IndicesOf(CurrentNote)' = IndicesOf(CurrentNote) /\ (IndicesOf(CurrentNote) # {})'
             /\ (LeftFrom(bulk.step) <= bulk.amount)'
  <2>1. PaidOK /\ ChangeOK /\ StepPaidOK /\ IndicesOf(CurrentNote) # {} /\ LeftFrom(bulk.step) <= bulk.amount
    BY <1>4 DEF FlowsInv, SessionOK
  <2>2. IndicesOf(CurrentNote)' = IndicesOf(CurrentNote)
    BY <1>4, LandingNote
  <2>3. (LeftFrom(bulk.step) <= bulk.amount)'
    BY <2>1 DEF LeftFrom
  <2> QED
    BY <2>1, <2>2, <2>3
<1>5. ASSUME NEW x, ~ OnChain(x), \A j \in 1..2 : x # a.outs[j].note.blinding
      PROVE  ~ OnChain(x)'
  BY <1>1, <1>5, LandedTree
<1>6. CASE bulk # NoBulk /\ a.by = "wallet"
  <2>1. pool'.paid = pool.paid
    BY <1>2, <1>6
  <2>2. PaidOK'
    BY <1>4, <1>6, <2>1 DEF PaidOK
  <2>3. ASSUME NEW k \in (Len(pool'.paid) + 1)..Len(bulk'.change) PROVE ~ OnChain(bulk.change[k])'
    <3>1. PICK x : x = bulk.change[k]
      OBVIOUS
    <3>2. k \in 1..Len(bulk.change) /\ k \in (Len(pool.paid) + 1)..Len(bulk.change)
      <4>1. Len(pool.paid) \in Nat /\ Len(bulk.change) \in Nat
        BY <1>1, <1>6, SMTT(30) DEF TypesOK, Sessions
      <4> QED
        BY <2>1, <4>1
    <3>3. ~ OnChain(x)
      BY <1>4, <1>6, <3>1, <3>2 DEF ChangeOK
    <3>4. \A j \in 1..2 : x # a.outs[j].note.blinding
      <4>1. OwnOutputs(a) = 1..2
        BY <1>6 DEF OwnOutputs
      <4> QED
        BY <1>6, <3>1, <3>2, <4>1 DEF PendingOK
    <3>5. ~ OnChain(x)'
      BY <1>5, <3>3, <3>4
    <3> QED
      BY <3>1, <3>5 DEF OnChain
  <2>4. ChangeOK'
    BY <1>4, <1>6, <2>3 DEF ChangeOK
  <2>5. StepPaidOK'
    <3>1. CASE Len(pool.paid) = bulk.step + 1
      <4>1. PICK n : n = Note(bulk.amount - Payee.amount, User, bulk.change[bulk.step + 1])
        OBVIOUS
      <4>2. IndicesOf(n) # {} /\ \A i \in IndicesOf(CurrentNote) : Nullifier(CurrentNote, i) \in pool.spent
        BY <1>4, <1>6, <3>1, <4>1 DEF StepPaidOK
      <4>3. IndicesOf(n) \subseteq IndicesOf(n)'
        BY <1>1, LandedTree
      <4>4. IndicesOf(Note(bulk.amount - Payee.amount, User, bulk.change[bulk.step + 1]))' = IndicesOf(n)'
        BY <4>1 DEF IndicesOf, Payee
      <4>5. \A i \in IndicesOf(CurrentNote)' : Nullifier(CurrentNote, i)' \in pool'.spent
        BY <1>2, <1>4, <1>6, <4>2 DEF Nullifier, CurrentNote
      <4> QED
        BY <4>2, <4>3, <4>4, <4>5 DEF StepPaidOK
    <3>2. CASE Len(pool.paid) # bulk.step + 1
      BY <2>1, <3>2 DEF StepPaidOK
    <3> QED
      BY <3>1, <3>2
  <2> QED
    BY <1>4, <1>6, <2>1, <2>2, <2>4, <2>5
<1>7. CASE bulk # NoBulk /\ a.by = "bulk"
  <2>1. /\ bulk.step < Len(bulk.recipients) /\ Len(pool.paid) = bulk.step
        /\ a.ins[1] = CurrentNote /\ a.index[1] \in IndicesOf(CurrentNote)
        /\ a.recipient = Payee.to /\ a.ext = - Payee.amount
        /\ a.outs[1].note = Note(bulk.amount - Payee.amount, User, bulk.change[bulk.step + 1])
    BY <1>7, LandsInTurn
  <2>2. /\ bulk.step \in Nat /\ Len(bulk.recipients) \in Nat /\ Len(bulk.change) = Len(bulk.recipients)
        /\ bulk.step + 1 \in 1..Len(bulk.recipients) /\ bulk.step + 1 \in 1..Len(bulk.change)
        /\ Payee \in Payouts
    BY <1>1, <1>4, <1>7, <2>1, StepInRange
  <2>3. [to |-> a.recipient, amount |-> - a.ext] = Payee
    <3>1. \A e \in Payouts : e.amount \in Int /\ e = [to |-> e.to, amount |-> - (- e.amount)]
      <4>1. \A e \in Payouts : e.amount \in ExtAmounts
        BY DEF Payouts
      <4>2. \A e \in Payouts : e = [to |-> e.to, amount |-> e.amount]
        BY DEF Payouts
      <4>3. \A x \in Int : - (- x) = x
        OBVIOUS
      <4>4. \A e \in Payouts : e.amount \in Int
        BY <4>1, ExtAmountsAreInts
      <4> QED
        BY <4>2, <4>3, <4>4
    <3> QED
      BY <2>1, <2>2, <3>1
  <2>4. /\ Len(pool'.paid) = bulk.step + 1 /\ pool'.paid[bulk.step + 1] = Payee
        /\ \A k \in 1..Len(pool.paid) : pool'.paid[k] = pool.paid[k]
    <3>1. pool'.paid = Append(pool.paid, Payee)
      BY <1>2, <1>7, <2>3
    <3>2. pool.paid \in Seq([to : Payees \union {"pool"}, amount : Int])
      BY <1>1 DEF TypesOK
    <3>3. Payee \in [to : Payees \union {"pool"}, amount : Int]
      <4>1. \A e \in Payouts : e \in [to : Payees \union {"pool"}, amount : Int]
        BY ExtAmountsAreInts DEF Payouts
      <4> QED
        BY <2>2, <4>1
    <3> QED
      BY <2>1, <3>1, <3>2, <3>3, AppendOne
  <2>5. PaidOK'
    <3>1. \A k \in 1..Len(pool'.paid) : k \in 1..Len(pool.paid) \/ k = bulk.step + 1
      BY <2>1, <2>2, <2>4
    <3>2. \A k \in 1..Len(pool.paid) : pool.paid[k] = bulk.recipients[k]
      BY <1>4, <1>7 DEF PaidOK
    <3>3. \A k \in 1..Len(pool'.paid) : pool'.paid[k] = bulk.recipients[k]
      BY <2>4, <3>1, <3>2 DEF Payee
    <3> QED
      BY <2>1, <2>2, <2>4, <3>3 DEF PaidOK
  <2>6. a.outs[1].note.blinding = bulk.change[bulk.step + 1]
    BY <2>1 DEF Note
  <2>7. ASSUME NEW k \in (Len(pool'.paid) + 1)..Len(bulk'.change) PROVE ~ OnChain(bulk.change[k])'
    <3>1. PICK x : x = bulk.change[k]
      OBVIOUS
    <3>2. k \in 1..Len(bulk.change) /\ k \in (Len(pool.paid) + 1)..Len(bulk.change) /\ k # bulk.step + 1
      BY <2>1, <2>2, <2>4
    <3>3. ~ OnChain(x)
      BY <1>4, <1>7, <3>1, <3>2 DEF ChangeOK
    <3>4. x # bulk.change[bulk.step + 1]
      BY <1>4, <1>7, <2>2, <3>1, <3>2 DEF ChangeOK
    <3>5. x # a.outs[2].note.blinding
      <4>1. 2 \in OwnOutputs(a)
        BY DEF OwnOutputs
      <4> QED
        BY <1>7, <3>1, <3>2, <4>1 DEF PendingOK
    <3>6. \A j \in 1..2 : x # a.outs[j].note.blinding
      BY <2>6, <3>4, <3>5
    <3>7. ~ OnChain(x)'
      BY <1>5, <3>3, <3>6
    <3> QED
      BY <3>1, <3>7 DEF OnChain
  <2>8. ChangeOK'
    BY <1>4, <1>7, <2>7 DEF ChangeOK
  <2>9. StepPaidOK'
    <3>1. PICK n : n = a.outs[1].note
      OBVIOUS
    <3>2. IndicesOf(n)' # {}
      BY <1>1, <3>1, LandedTree
    <3>3. IndicesOf(Note(bulk.amount - Payee.amount, User, bulk.change[bulk.step + 1]))' = IndicesOf(n)'
      BY <2>1, <3>1 DEF IndicesOf, Payee
    <3>4. \A i \in IndicesOf(CurrentNote)' : i = a.index[1]
      BY <1>1, <1>4, <1>7, <2>1, OneIndex
    <3>5. \A i \in IndicesOf(CurrentNote)' : Nullifier(CurrentNote, i)' \in pool'.spent
      BY <1>2, <2>1, <3>4 DEF Nullifier, CurrentNote
    <3> QED
      BY <3>2, <3>3, <3>5 DEF StepPaidOK
  <2> QED
    BY <1>4, <1>7, <2>4, <2>5, <2>8, <2>9
<1> QED
  BY <1>3, <1>6, <1>7 DEF Txs


\* What was proved against a smaller tree is still true of a larger one.
LEMMA LandingProof ==
  ASSUME TypesOK, NEW a \in Txs, pool' = Landed(a), NEW b \in Txs, b.root <= Len(pool.leaves)
  PROVE  /\ b.root <= Len(pool'.leaves)
         /\ CircuitHolds(b) => CircuitHolds(b)'
<1> DEFINE len == Len(pool.leaves)
<1>1. /\ len \in Nat /\ Len(pool'.leaves) = len + 2
      /\ \A k \in 1..len : pool'.leaves[k] = pool.leaves[k]
  BY LandedPool
<1>2. b.root \in Nat /\ b.index \in [1..2 -> Nat]
  BY DEF Txs
<1>3. b.root <= len
  OBVIOUS
<1> HIDE DEF len
<1>4. b.root <= Len(pool'.leaves)
  BY <1>1, <1>2, <1>3
<1>5. ASSUME NEW k \in 1..2, b.index[k] < b.root
      PROVE  pool'.leaves[b.index[k] + 1].note = pool.leaves[b.index[k] + 1].note
  <2>1. b.index[k] + 1 \in 1..len
    BY <1>1, <1>2, <1>3, <1>5
  <2> QED
    BY <1>1, <2>1
<1>6. CircuitHolds(b) => CircuitHolds(b)'
  BY <1>5 DEF CircuitHolds
<1> QED
  BY <1>4, <1>6

\* A transaction of the caller lands, or is refused.
LEMMA LandKeeps == FlowsInv /\ land => FlowsInv'
<1> SUFFICES ASSUME FlowsInv, land PROVE FlowsInv'
  OBVIOUS
<1>1. TypesOK /\ LeavesOK /\ NetworkOK /\ SessionOK /\ ProofOK
  BY DEF FlowsInv
<1>2. /\ built.state = "sent" /\ UNCHANGED <<asp, late, bulk, blinding, calls>>
      /\ IF Accepted(built) THEN pool' = Landed(built) /\ built' = [built EXCEPT !.state = "landed"]
         ELSE UNCHANGED pool /\ built' = [built EXCEPT !.state = "rejected"]
  BY DEF land
<1>3. built \in Txs
  BY <1>1, <1>2 DEF TypesOK, NoArtifacts
<1>4. /\ built' \in Txs /\ built'.by = built.by /\ built'.root = built.root
      /\ built'.state = IF Accepted(built) THEN "landed" ELSE "rejected"
  BY <1>2, <1>3 DEF Txs
<1>5. PendingOK(built) /\ (\A a \in late : Apart(built, a) /\ PendingOK(a) /\ a \in Txs)
  BY <1>1, <1>2 DEF NetworkOK, TypesOK
<1>6. built.root <= Len(pool.leaves)
  BY <1>1, <1>2 DEF ProofOK
<1>7. CASE Accepted(built)
  <2>1. pool' = Landed(built)
    BY <1>2, <1>7
  <2>2. TypesOK'
    <3>1. pool' \in [leaves : Seq(Leaves), spent : SUBSET (Notes \X Nat),
                     paid : Seq([to : Payees \union {"pool"}, amount : Int])]
      BY <1>1, <1>3, <2>1, LandedPool
    <3> QED
      BY <1>1, <1>2, <1>4, <3>1 DEF TypesOK
  <2>3. LeavesOK'
    BY <1>2, <1>3, <1>5, <1>7, <2>1, LandingLeaves
  <2>4. NetworkOK'
    <3>1. \A a \in late : PendingOK(a)'
      BY <1>2, <1>3, <1>5, <1>7, <2>1, LandingPending
    <3> QED
      BY <1>1, <1>2, <1>4, <3>1 DEF NetworkOK, Apart, OwnOutputs
  <2>5. /\ bulk = NoBulk => pool'.paid = <<>>
        /\ bulk # NoBulk => /\ PaidOK' /\ ChangeOK' /\ StepPaidOK'
                            /\ (IndicesOf(CurrentNote) # {})'
                            /\ (LeftFrom(bulk.step) <= bulk.amount)'
                            /\ built.by = "bulk" => Len(pool'.paid) = bulk.step + 1
    BY <1>2, <1>3, <1>5, <1>7, <2>1, LandingSession
  <2>6. bulk # NoBulk => FlightOK'
    BY <1>1, <1>2, <1>4, <2>5 DEF SessionOK, FlightOK, Payee
  <2>7. SessionOK'
    BY <1>2, <2>5, <2>6 DEF SessionOK
  <2>8. ProofOK'
    <3>1. built.root <= Len(pool'.leaves)
      BY <1>1, <1>3, <1>6, <2>1, LandingProof
    <3>2. built'.root <= Len(pool'.leaves) /\ built'.state # "sent"
      BY <1>4, <1>7, <3>1
    <3> QED
      BY <3>2 DEF ProofOK, BuiltIsProvable
  <2> QED
    BY <2>2, <2>3, <2>4, <2>7, <2>8 DEF FlowsInv
<1>8. CASE ~ Accepted(built)
  <2>1. pool' = pool /\ built'.state = "rejected"
    BY <1>2, <1>4, <1>8
  <2>2. TypesOK' /\ LeavesOK'
    BY <1>1, <1>2, <1>4, <2>1 DEF TypesOK, LeavesOK
  <2>3. \A a \in late : PendingOK(a)'
    BY <1>2, <1>5, <2>1, ZenonT(60) DEF PendingOK, OnChain, StepOK, Payee, CurrentNote, IndicesOf
  <2>4. NetworkOK'
    BY <1>1, <1>2, <2>1, <2>3 DEF NetworkOK, Apart, OwnOutputs
  <2>5. SessionOK'
    BY <1>1, <1>2, <1>4, <2>1 DEF SessionOK, PaidOK, ChangeOK, StepPaidOK, FlightOK, OnChain, Payee,
       CurrentNote, IndicesOf, LeftFrom
  <2>6. ProofOK'
    <3>1. built'.root <= Len(pool'.leaves)
      BY <1>4, <1>6, <2>1
    <3> QED
      BY <2>1, <3>1 DEF ProofOK, BuiltIsProvable
  <2> QED
    BY <2>2, <2>4, <2>5, <2>6 DEF FlowsInv
<1> QED
  BY <1>7, <1>8

\* A transaction that its caller gave up on lands, or is refused.
LEMMA LandsLateKeeps == FlowsInv /\ lands_late => FlowsInv'
<1> SUFFICES ASSUME FlowsInv, lands_late PROVE FlowsInv'
  OBVIOUS
<1>1. TypesOK /\ LeavesOK /\ NetworkOK /\ SessionOK /\ ProofOK
  BY DEF FlowsInv
<1>2. PICK a \in late : /\ late' = late \ {a}
                        /\ pool' = IF Accepted(a) THEN Landed(a) ELSE pool
                        /\ UNCHANGED <<asp, built, bulk, blinding, calls>>
  BY DEF lands_late
<1>3. a \in Txs /\ PendingOK(a)
  BY <1>1 DEF TypesOK, NetworkOK
<1>4. late' \subseteq {b \in Txs : b.state = "sent"} /\ \A b \in late' : b \in late /\ b # a /\ b \in Txs
  BY <1>1, <1>2 DEF TypesOK
<1>5. built.state # "none" => built \in Txs
  BY <1>1 DEF TypesOK, NoArtifacts
<1>6. /\ \A b \in late' : PendingOK(b) /\ Apart(a, b)
      /\ built.state = "sent" => PendingOK(built) /\ Apart(a, built)
  <2>1. Apart(built, a) => Apart(a, built)
    BY DEF Apart
  <2> QED
    BY <1>1, <1>4, <2>1 DEF NetworkOK
<1>7. ASSUME \A b \in Txs : PendingOK(b) /\ Apart(a, b) => PendingOK(b)'
      PROVE  NetworkOK'
  <2>1. PICK b : b = built
    OBVIOUS
  <2>2. built.state = "sent" => PendingOK(b)'
    BY <1>5, <1>6, <1>7, <2>1
  <2>3. built' = b
    BY <1>2, <2>1
  <2>4. PendingOK(b)' => PendingOK(built)'
    BY <2>3 DEF PendingOK, OwnOutputs, OnChain, StepOK
  <2>5. \A c \in late' : PendingOK(c)'
    BY <1>4, <1>6, <1>7
  <2> QED
    BY <1>1, <1>2, <1>4, <2>2, <2>4, <2>5 DEF NetworkOK, Apart, OwnOutputs
<1>8. CASE Accepted(a)
  <2>1. pool' = Landed(a)
    BY <1>2, <1>8
  <2>2. TypesOK'
    <3>1. pool' \in [leaves : Seq(Leaves), spent : SUBSET (Notes \X Nat),
                     paid : Seq([to : Payees \union {"pool"}, amount : Int])]
      BY <1>1, <1>3, <2>1, LandedPool
    <3> QED
      BY <1>1, <1>2, <1>4, <3>1 DEF TypesOK
  <2>3. LeavesOK'
    BY <1>2, <1>3, <1>8, <2>1, LandingLeaves
  <2>4. NetworkOK'
    <3>1. \A b \in Txs : PendingOK(b) /\ Apart(a, b) => PendingOK(b)'
      BY <1>2, <1>3, <1>8, <2>1, LandingPending
    <3> QED
      BY <1>7, <3>1
  <2>5. /\ bulk = NoBulk => pool'.paid = <<>>
        /\ bulk # NoBulk => /\ PaidOK' /\ ChangeOK' /\ StepPaidOK'
                            /\ (IndicesOf(CurrentNote) # {})'
                            /\ (LeftFrom(bulk.step) <= bulk.amount)'
                            /\ Len(pool.paid) = bulk.step + 1 => Len(pool'.paid) = bulk.step + 1
    BY <1>2, <1>3, <1>8, <2>1, LandingSession
  <2>6. bulk # NoBulk => FlightOK'
    BY <1>1, <1>2, <2>5 DEF SessionOK, FlightOK, Payee
  <2>7. SessionOK'
    BY <1>2, <2>5, <2>6 DEF SessionOK
  <2>8. ProofOK'
    <3>1. PICK b : b = built
      OBVIOUS
    <3>2. built' = b
      BY <1>2, <3>1
    <3>3. b.state # "none" => b \in Txs /\ b.root <= Len(pool.leaves)
      BY <1>1, <1>5, <3>1 DEF ProofOK
    <3>4. b.state # "none" => b.root <= Len(pool'.leaves)
      BY <1>1, <1>3, <2>1, <3>3, LandingProof
    <3>5. b.state = "sent" => (CircuitHolds(b) => CircuitHolds(b)')
      BY <1>1, <1>3, <2>1, <3>3, LandingProof
    <3>6. CircuitHolds(b)' => CircuitHolds(built)'
      BY <3>2 DEF CircuitHolds
    <3>7. BuiltIsProvable
      BY <1>1 DEF ProofOK
    <3>8. BuiltIsProvable'
      BY <3>1, <3>2, <3>5, <3>6, <3>7 DEF BuiltIsProvable
    <3> QED
      BY <3>1, <3>2, <3>4, <3>8 DEF ProofOK
  <2> QED
    BY <2>2, <2>3, <2>4, <2>7, <2>8 DEF FlowsInv
<1>9. CASE ~ Accepted(a)
  <2>1. pool' = pool
    BY <1>2, <1>9
  <2>2. TypesOK' /\ LeavesOK'
    BY <1>1, <1>2, <1>4, <2>1 DEF TypesOK, LeavesOK
  <2>3. NetworkOK'
    <3>1. ASSUME NEW b, PendingOK(b) PROVE PendingOK(b)'
      BY <1>2, <2>1, <3>1, SMTT(30) DEF PendingOK, OnChain, StepOK, Payee, CurrentNote, IndicesOf
    <3> QED
      BY <1>7, <3>1
  <2>4. SessionOK'
    BY <1>1, <1>2, <2>1, ZenonT(60) DEF SessionOK, PaidOK, ChangeOK, StepPaidOK, FlightOK, OnChain, Payee,
       CurrentNote, IndicesOf, LeftFrom
  <2>5. ProofOK'
    BY <1>1, <1>2, <2>1 DEF ProofOK, BuiltIsProvable, CircuitHolds
  <2> QED
    BY <2>2, <2>3, <2>4, <2>5 DEF FlowsInv
<1> QED
  BY <1>8, <1>9

\* Every step of the builder, the session and the network keeps the invariant.
LEMMA FlowsStepKeeps == FlowsInv /\ [FlowsNext]_flowsVars => FlowsInv'
<1> SUFFICES ASSUME FlowsInv, [FlowsNext]_flowsVars PROVE FlowsInv'
  OBVIOUS
<1>1. CASE deposit
  BY <1>1, DepositKeeps
<1>2. CASE withdraw
  BY <1>2, WithdrawKeeps
<1>3. CASE transfer
  BY <1>3, TransferKeeps
<1>4. CASE bulk_new
  BY <1>4, BulkNewKeeps
<1>5. CASE build_step
  BY <1>5, BuildStepKeeps
<1>6. CASE advance
  BY <1>6, AdvanceKeeps
<1>7. CASE step_again
  BY <1>7, StepAgainKeeps
<1>8. CASE land
  BY <1>8, LandKeeps
<1>9. CASE give_up
  BY <1>9, GiveUpKeeps
<1>10. CASE lands_late
  BY <1>10, LandsLateKeeps
<1>11. CASE asp_changes
  BY <1>11, AspChangesKeeps
<1>12. CASE UNCHANGED flowsVars
  <2>1. UNCHANGED <<pool, asp, built, late, bulk, blinding>>
    BY <1>12 DEF flowsVars
  <2>2. TypesOK' /\ LeavesOK'
    BY <2>1 DEF FlowsInv, TypesOK, LeavesOK
  <2>3. NetworkOK'
    BY <2>1 DEF FlowsInv, NetworkOK, PendingOK, OnChain, StepOK, Payee, CurrentNote, IndicesOf, Apart,
       OwnOutputs
  <2>4. SessionOK'
    BY <2>1 DEF FlowsInv, SessionOK, PaidOK, ChangeOK, StepPaidOK, FlightOK, OnChain, Payee, CurrentNote,
       IndicesOf, LeftFrom
  <2>5. ProofOK'
    BY <2>1 DEF FlowsInv, ProofOK, BuiltIsProvable, CircuitHolds
  <2> QED
    BY <2>2, <2>3, <2>4, <2>5 DEF FlowsInv
<1> QED
  BY <1>1, <1>2, <1>3, <1>4, <1>5, <1>6, <1>7, <1>8, <1>9, <1>10, <1>11, <1>12 DEF FlowsNext

\* The two notes that the user starts with satisfy it.
LEMMA FlowsStarts == FlowsInit => FlowsInv
<1> SUFFICES ASSUME FlowsInit PROVE FlowsInv
  OBVIOUS
<1> DEFINE x == Own(NoteMax, 1)
           y == Own(1, 2)
<1>1. /\ pool = [leaves |-> <<x, y>>, spent |-> {}, paid |-> <<>>]
      /\ asp = 0 /\ blinding = 3 /\ built = NoArtifacts /\ late = {} /\ bulk = NoBulk
  BY DEF FlowsInit
<1>2. x.note.blinding = 1 /\ y.note.blinding = 2
  BY DEF Own, Note
<1>3. \A a \in 0..NoteMax : \A b \in Nat : Own(a, b) \in Leaves
  BY DEF Own, Note, Notes, Leaves, Ciphers
<1>4. x \in Leaves /\ y \in Leaves
  <2>1. NoteMax \in 0..NoteMax /\ 1 \in 0..NoteMax
    BY Widths
  <2> QED
    BY <1>3, <2>1
<1> HIDE DEF x, y
<1>5. /\ pool.leaves = <<x, y>> /\ pool.spent = {} /\ pool.paid = <<>>
      /\ Len(pool.leaves) = 2 /\ pool.leaves[1] = x /\ pool.leaves[2] = y
  BY <1>1
<1>6. \A k \in 1..Len(pool.leaves) : k = 1 \/ k = 2
  BY <1>5
<1>7. TypesOK
  <2>1. <<x, y>> \in Seq(Leaves)
    BY <1>4
  <2> QED
    BY <1>1, <2>1, FlowsAssumption DEF TypesOK
<1>8. LeavesOK
  BY <1>1, <1>2, <1>5, <1>6 DEF LeavesOK
<1>9. NetworkOK /\ ProofOK
  BY <1>1 DEF NetworkOK, ProofOK, BuiltIsProvable, NoArtifacts
<1>10. SessionOK
  BY <1>1, <1>5 DEF SessionOK
<1> QED
  BY <1>7, <1>8, <1>9, <1>10 DEF FlowsInv

-----------------------------------------------------------------------------
(* What the builder promises.                                              *)

\* In every state that the builder, a session and the network can reach: no
\* blinding is on chain twice, a transaction of the session that may still land
\* is void or the current step, and a session has its note.
THEOREM FlowsInvariant == FlowsSpec => []FlowsInv
<1>1. FlowsInit => FlowsInv
  BY FlowsStarts
<1>2. FlowsInv /\ [FlowsNext]_flowsVars => FlowsInv'
  BY FlowsStepKeeps
<1> QED
  BY <1>1, <1>2, PTL DEF FlowsSpec

\* Amounts never leave their width, public amounts are in the field, and a
\* session is within its list.
THEOREM FlowsTypes == FlowsSpec => []FlowsTypeOK
<1>1. FlowsInv => FlowsTypeOK
  <2> SUFFICES ASSUME FlowsInv PROVE FlowsTypeOK
    OBVIOUS
  <2>1. TypesOK /\ SessionOK
    BY DEF FlowsInv
  <2>2. \A k \in 1..Len(pool.leaves) : pool.leaves[k].note.amount \in 0..NoteMax
    BY <2>1, LeafTyped
  <2>3. /\ built.state # "none" => built.public_amount \in 0..(FieldModulus - 1)
        /\ built.state \in {"none", "sent", "landed", "rejected", "lost"}
    BY <2>1 DEF TypesOK, Txs, NoArtifacts
  <2>4. bulk.state \in {"none", "ready", "flight"}
    BY <2>1 DEF TypesOK, Sessions, NoBulk
  <2>5. bulk # NoBulk => bulk.step \in 0..Len(bulk.recipients) /\ bulk.amount \in 0..NoteMax
    BY <2>1 DEF TypesOK, Sessions, SessionOK, PaidOK
  <2>6. asp \in Nat
    BY <2>1 DEF TypesOK
  <2> QED
    BY <2>2, <2>3, <2>4, <2>5, <2>6 DEF FlowsTypeOK
<1> QED
  BY <1>1, FlowsInvariant, PTL

\* Whatever deposit, withdraw, transfer or a step of a session returns meets every
\* constraint of the circuit, also after the tree has grown, unless its caller
\* named a note twice: prove_transaction never fails on what the flows built.
THEOREM BuiltAlwaysProvable == FlowsSpec => []BuiltIsProvable
<1>1. FlowsInv => BuiltIsProvable
  BY DEF FlowsInv, ProofOK
<1> QED
  BY <1>1, FlowsInvariant, PTL

\* The owner of an output that holds value can decrypt it, and gets the note and
\* the nullifier that spending it publishes, unless the caller set the keys of two
\* accounts; what is made up for a caller, padding and change, is never lost.
THEOREM OutputsAlwaysFound == FlowsSpec => []OutputsAreFindable
<1>1. TypesOK => OutputsAreFindable
  <2> SUFFICES ASSUME TypesOK, NEW k \in 1..Len(pool.leaves), pool.leaves[k].note.amount # 0
               PROVE  CanBeFound(k) <=> ~ pool.leaves[k].mixed
    BY DEF OutputsAreFindable
  <2> DEFINE l == pool.leaves[k]
  <2>1. l \in Leaves /\ l.note \in Notes
    BY LeafTyped
  <2>2. /\ l.cipher.amount = l.note.amount /\ l.cipher.blinding = l.note.blinding
        /\ l.mixed <=> l.cipher.to # l.note.key
    BY <2>1 DEF Leaves
  <2>3. ASSUME ~ l.mixed PROVE CanBeFound(k)
    <3> DEFINE account == l.note.key
               d == [note |-> l.note, nullifier |-> Nullifier(l.note, k - 1)]
    <3>1. Note(l.cipher.amount, account, l.cipher.blinding) = l.note
      BY <2>1, <2>2 DEF Notes, Note
    <3>2. d \in try_decrypt_and_derive_user_note(account, k)
      BY <2>2, <2>3, <3>1 DEF try_decrypt_and_derive_user_note
    <3>3. account \in {User, Other} /\ d.note = l.note /\ d.nullifier = Nullifier(d.note, k - 1)
      BY <2>1 DEF Notes
    <3> QED
      BY <3>2, <3>3 DEF CanBeFound
  <2>4. ASSUME CanBeFound(k) PROVE ~ l.mixed
    <3>1. PICK account \in {User, Other} : try_decrypt_and_derive_user_note(account, k) # {}
      BY <2>4 DEF CanBeFound
    <3>2. l.cipher.to = account /\ Note(l.cipher.amount, account, l.cipher.blinding) = l.note
      BY <3>1 DEF try_decrypt_and_derive_user_note
    <3>3. l.note.key = account
      BY <3>2 DEF Note
    <3> QED
      BY <2>2, <3>2, <3>3
  <2> QED
    BY <2>3, <2>4
<1>2. FlowsInv => OutputsAreFindable
  BY <1>1 DEF FlowsInv
<1> QED
  BY <1>2, FlowsInvariant, PTL

\* A bulk session pays each recipient once and in order, and always has the note
\* that its next step spends, over any list of recipients and any number of steps
\* that were lost, built again or landed after their caller gave up on them.
THEOREM BulkIsAlwaysExact == FlowsSpec => []BulkIsExact
<1>1. FlowsInv => BulkPaysInOrder
  <2> SUFFICES ASSUME FlowsInv, bulk # NoBulk
               PROVE  IsPrefix(pool.paid, bulk.recipients) /\ Len(pool.paid) \in {bulk.step, bulk.step + 1}
    BY DEF BulkPaysInOrder
  <2>1. TypesOK /\ PaidOK
    BY DEF FlowsInv, SessionOK
  <2>2. PICK s : s = pool.paid
    OBVIOUS
  <2>3. PICK t : t = bulk.recipients
    OBVIOUS
  <2>4. /\ s \in Seq([to : Payees \union {"pool"}, amount : Int]) /\ t \in Seq(Payouts)
        /\ Len(s) <= Len(t) /\ \A k \in 1..Len(s) : s[k] = t[k]
    BY <2>1, <2>2, <2>3 DEF TypesOK, Sessions, PaidOK
  <2>5. SubSeq(s, 1, Len(s)) = SubSeq(t, 1, Len(s))
    BY <2>4
  <2>6. IsPrefix(s, t)
    BY <2>4, <2>5 DEF IsPrefix
  <2> QED
    BY <2>1, <2>2, <2>3, <2>6 DEF PaidOK
<1>2. FlowsInv => BulkCanContinue
  <2> SUFFICES ASSUME FlowsInv, bulk.state = "ready", ~ is_done
               PROVE  /\ IndicesOf(CurrentNote) # {}
                      /\ SumAmounts(SubSeq(bulk.recipients, bulk.step + 1, Len(bulk.recipients))) <= bulk.amount
    BY DEF BulkCanContinue
  <2>1. bulk \in Sessions /\ bulk # NoBulk
    BY DEF FlowsInv, TypesOK, NoBulk
  <2>2. IndicesOf(CurrentNote) # {} /\ LeftFrom(bulk.step) <= bulk.amount
    BY <2>1 DEF FlowsInv, SessionOK
  <2>3. bulk.recipients \in Seq(Payouts) /\ bulk.step \in 0..Len(bulk.recipients)
    BY <2>1 DEF Sessions, is_done
  <2>4. SumAmounts(SubSeq(bulk.recipients, bulk.step + 1, Len(bulk.recipients))) = LeftFrom(bulk.step)
    BY <2>3, SumOfRest DEF LeftFrom
  <2> QED
    BY <2>2, <2>4
<1>3. FlowsInv => BulkIsExact
  BY <1>1, <1>2 DEF BulkIsExact
<1> QED
  BY <1>3, FlowsInvariant, PTL
=============================================================================
