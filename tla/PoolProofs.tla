----------------------------- MODULE PoolProofs -----------------------------
(***************************************************************************)
(* Machine-checked proofs about the pool contract: its invariants, that it *)
(* implements ShieldedLedger, and that its tokens always back its notes.   *)
(***************************************************************************)
EXTENDS Pool, FiniteSetTheorems, WellFoundedInduction, TLAPS

\* A word is a nullifier and the laps beside it.
LEMMA WordParts ==
  ASSUME NEW n \in Word
  PROVE  n[1] \in Nullifier /\ n[2] \in 0..MaxLap /\ n = <<n[1], n[2]>>
BY DEF Word

\* Rewriting a call's nullifiers without laps leaves a canonical call as it is.
LEMMA CanonicalCall ==
  ASSUME NEW p \in Proof, validate_bn256_public_inputs(p)
  PROVE  Rewritten(p, <<0, 0>>) = p
<1>1. p.inputNullifiers \in Word \X Word
  BY DEF Proof
<1>2. p.inputNullifiers[1] \in Word /\ p.inputNullifiers[2] \in Word
      /\ p.inputNullifiers = <<p.inputNullifiers[1], p.inputNullifiers[2]>>
  BY <1>1
<1>3. p.inputNullifiers[1][2] = 0 /\ p.inputNullifiers[2][2] = 0
  BY DEF validate_bn256_public_inputs
<1>4. /\ p.inputNullifiers[1] = <<p.inputNullifiers[1][1], 0>>
      /\ p.inputNullifiers[2] = <<p.inputNullifiers[2][1], 0>>
  BY <1>2, <1>3, WordParts
<1>5. p.inputNullifiers = <<<<p.inputNullifiers[1][1], 0>>, <<p.inputNullifiers[2][1], 0>>>>
  BY <1>2, <1>4
<1>6. Rewritten(p, <<0, 0>>)
        = [p EXCEPT !.inputNullifiers = <<<<p.inputNullifiers[1][1], 0>>,
                                          <<p.inputNullifiers[2][1], 0>>>>]
  BY DEF Rewritten, Proof
<1>7. [p EXCEPT !.inputNullifiers = p.inputNullifiers] = p
  BY DEF Proof
<1> QED BY <1>5, <1>6, <1>7

\* Only a proof somebody built, with the data it was built for, is accepted.
LEMMA AcceptedFacts ==
  ASSUME TypeOK, NEW p \in Proof, NEW ext \in ExtData, NEW sender \in Accounts,
         Accepted(p, ext, sender)
  PROVE  /\ p \in proofs
         /\ ext.extAmount \in Int /\ ext.recipient \in Accounts
         /\ ext.extAmount > 0 => balance[sender] >= ext.extAmount
         /\ ext.extAmount < 0 => poolBalance >= -ext.extAmount
<1>1. validate_bn256_public_inputs(p) /\ Rewritten(p, <<0, 0>>) \in proofs
  BY DEF Accepted, verify_proof
<1>2. p \in proofs
  BY <1>1, CanonicalCall
<1> QED BY <1>2 DEF Accepted, ExtData

\* Token balances stay natural numbers when a call is accepted.
LEMMA MoveTokensType ==
  ASSUME TypeOK, NEW p \in Proof, NEW ext \in ExtData, NEW sender \in Accounts,
         Accepted(p, ext, sender), MoveTokens(ext, sender)
  PROVE  poolBalance' \in Nat /\ balance' \in [Accounts -> Nat]
<1>1. /\ ext.extAmount \in Int /\ ext.recipient \in Accounts
      /\ ext.extAmount > 0 => balance[sender] >= ext.extAmount
      /\ ext.extAmount < 0 => poolBalance >= -ext.extAmount
  BY AcceptedFacts
<1>2. balance \in [Accounts -> Nat] /\ poolBalance \in Nat
  BY DEF TypeOK
<1>3. CASE ext.extAmount > 0
  BY <1>1, <1>2, <1>3 DEF MoveTokens
<1>4. CASE ~ (ext.extAmount > 0)
  BY <1>1, <1>2, <1>4 DEF MoveTokens
<1> QED BY <1>3, <1>4

\* The tree and its ring stay in their types.
LEMMA InsertType ==
  ASSUME TypeOK, NEW a \in Note, NEW b \in Note, insert_two_leaves(a, b)
  PROVE  /\ leaves' \in Seq(Note)
         /\ roots' \in [0..(RootHistorySize - 1) -> Seq(Note) \union {NoRoot}]
         /\ currentRootIndex' \in 0..(RootHistorySize - 1)
<1>1. (currentRootIndex + 1) % RootHistorySize \in 0..(RootHistorySize - 1)
  BY TreeAssumption DEF TypeOK
<1>2. leaves \o <<a, b>> \in Seq(Note)
  BY DEF TypeOK
<1> QED BY <1>1, <1>2 DEF insert_two_leaves, TypeOK, RootOf


\* transact keeps the types.
LEMMA TransactType ==
  ASSUME TypeOK, NEW p \in Proof, NEW ext \in ExtData, NEW sender \in Accounts,
         Transact(p, ext, sender)
  PROVE  TypeOK'
<1>2. p.outputs[1] \in Note /\ p.outputs[2] \in Note
  BY DEF Proof
<1>3. /\ leaves' \in Seq(Note)
      /\ roots' \in [0..(RootHistorySize - 1) -> Seq(Note) \union {NoRoot}]
      /\ currentRootIndex' \in 0..(RootHistorySize - 1)
  BY <1>2, InsertType DEF Transact
<1>4. poolBalance' \in Nat /\ balance' \in [Accounts -> Nat]
  BY MoveTokensType DEF Transact
<1>5. /\ p.inputNullifiers \in Seq(Word)
      /\ p.inputNullifiers[1] \in Word /\ p.inputNullifiers[2] \in Word
  <2>1. p.inputNullifiers \in Word \X Word
    BY DEF Proof
  <2>2. PICK m \in Word, n \in Word : p.inputNullifiers = <<m, n>>
    BY <2>1
  <2>3. <<m, n>> \in Seq(Word) /\ <<m, n>>[1] = m /\ <<m, n>>[2] = n
    OBVIOUS
  <2> QED BY <2>2, <2>3
<1>6. nullifiers' \subseteq Word
  BY <1>5 DEF Transact, mark_spent, TypeOK
<1>7. published' \in Seq(Word)
  <2>1. published \in Seq(Word)
    BY DEF TypeOK
  <2> QED BY <1>5, <2>1 DEF Transact, mark_spent
<1> QED
  BY <1>3, <1>4, <1>6, <1>7 DEF Transact, TypeOK, cfgVars, aspVars

\* The field representation of an amount in bounds is a field element.
LEMMA PublicAmountType ==
  ASSUME NEW e \in (-MaxExtAmount)..MaxExtAmount
  PROVE  calculate_public_amount(e) \in 0..(FieldSize - 1)
BY AmountAssumption DEF calculate_public_amount, Abs

-----------------------------------------------------------------------------
(* The ring of roots.                                                      *)

\* Advancing the ring index modulo the ring's length.
LEMMA NextSlot ==
  ASSUME NEW i \in 0..(RootHistorySize - 1)
  PROVE  (i + 1) % RootHistorySize = IF i + 1 = RootHistorySize THEN 0 ELSE i + 1
<1>1. RootHistorySize \in Nat \ {0}
  BY TreeAssumption
<1>2. CASE i + 1 = RootHistorySize
  BY <1>1, <1>2
<1>3. CASE i + 1 < RootHistorySize
  BY <1>1, <1>3
<1> QED BY <1>1, <1>2, <1>3

\* Appending a pair leaves the earlier roots of the tree as they were.
LEMMA PairAppended ==
  ASSUME NEW ls \in Seq(Note), NEW a \in Note, NEW b \in Note, NEW n \in Nat,
         2 * n <= Len(ls)
  PROVE  /\ Len(ls \o <<a, b>>) = Len(ls) + 2
         /\ SubSeq(ls \o <<a, b>>, 1, 2 * n) = SubSeq(ls, 1, 2 * n)
BY SMT

\* A sequence is the prefix of itself of its own length.
LEMMA WholePrefix ==
  ASSUME NEW ls \in Seq(Note)
  PROVE  SubSeq(ls, 1, Len(ls)) = ls
BY SMT


\* The ring invariant is preserved by the insertion of a pair.
LEMMA RingStep ==
  ASSUME TypeOK, RingInv, NEW a \in Note, NEW b \in Note, insert_two_leaves(a, b)
  PROVE  RingInv'
<1> DEFINE H == RootHistorySize
           c == currentRootIndex
           N == RootCount
<1>1. H \in Nat \ {0} /\ c \in 0..(H - 1) /\ leaves \in Seq(Note)
  BY TreeAssumption DEF TypeOK
<1>2. leaves' = leaves \o <<a, b>> /\ c' = IF c + 1 = H THEN 0 ELSE c + 1
  BY <1>1, NextSlot DEF insert_two_leaves
<1>3. roots' = [roots EXCEPT ![c'] = leaves']
  BY DEF insert_two_leaves, RootOf
<1>4. Len(leaves) = 2 * N /\ N \in Nat
  BY <1>1 DEF RingInv, RootCount
<1>5. Len(leaves') = 2 * N' /\ N' = N + 1 /\ leaves' \in Seq(Note)
  <2>1. leaves' \in Seq(Note) /\ Len(leaves') = Len(leaves) + 2
    BY <1>1, <1>2
  <2>2. N' = Len(leaves') \div 2
    BY DEF RootCount
  <2>3. \A m \in Nat : (2 * m + 2) \div 2 = m + 1
    OBVIOUS
  <2> QED BY <1>4, <2>1, <2>2, <2>3
<1>6. \A n \in 0..N : SubSeq(leaves', 1, 2 * n) = SubSeq(leaves, 1, 2 * n)
  BY <1>1, <1>2, <1>4, PairAppended
<1>7. SubSeq(leaves', 1, 2 * N') = leaves'
  BY <1>5, WholePrefix
<1>8. ASSUME NEW j \in 0..(H - 1)
      PROVE  roots'[Slot(j)'] = IF j <= N' THEN SubSeq(leaves', 1, 2 * (N' - j))
                                           ELSE NoRoot
  <2>1. CASE j = 0
    <3>1. Slot(j)' = c'
      BY <2>1, <1>1, <1>2 DEF Slot
    <3>2. roots'[c'] = leaves'
      BY <1>1, <1>2, <1>3 DEF TypeOK
    <3>3. N' - j = N' /\ j <= N'
      BY <2>1, <1>4, <1>5
    <3> QED BY <3>1, <3>2, <3>3, <1>7
  <2>2. CASE j > 0
    <3> DEFINE k == j - 1
    <3>1. k \in 0..(H - 1)
      BY <2>2, <1>1
    <3>2. Slot(j)' = Slot(k) /\ Slot(k) # c' /\ Slot(k) \in 0..(H - 1)
      BY <2>2, <1>1, <1>2 DEF Slot
    <3>3. roots'[Slot(j)'] = roots[Slot(k)]
      BY <3>2, <1>3 DEF TypeOK
    <3>4. roots[Slot(k)] = IF k <= N THEN SubSeq(leaves, 1, 2 * (N - k)) ELSE NoRoot
      BY <3>1 DEF RingInv, PastRoot
    <3>5. CASE k <= N
      <4>1. N - k \in 0..N /\ N - k = N' - j /\ j <= N'
        BY <3>1, <3>5, <1>4, <1>5
      <4>2. SubSeq(leaves', 1, 2 * (N - k)) = SubSeq(leaves, 1, 2 * (N - k))
        BY <4>1, <1>6
      <4> QED BY <3>3, <3>4, <3>5, <4>1, <4>2
    <3>6. CASE ~ (k <= N)
      <4>1. ~ (j <= N')
        BY <3>1, <3>6, <1>4, <1>5
      <4> QED BY <3>3, <3>4, <3>6, <4>1
    <3> QED BY <3>5, <3>6
  <2> QED BY <2>1, <2>2, <1>1
<1> QED BY <1>5, <1>8 DEF RingInv, PastRoot


\* The latest root is the root of all leaves, and a known root is the root
\* of some prefix of them.
LEMMA KnownRoots ==
  ASSUME TypeOK, RingInv
  PROVE  /\ get_root = leaves
         /\ \A i \in 0..(RootHistorySize - 1) :
              \/ roots[i] = NoRoot
              \/ \E n \in 0..RootCount : /\ RootCount - n < RootHistorySize
                                         /\ roots[i] = PastRoot(n)
         /\ \A n \in 0..RootCount : RootCount - n < RootHistorySize =>
              \E i \in 0..(RootHistorySize - 1) : roots[i] = PastRoot(n)
<1> DEFINE H == RootHistorySize
           c == currentRootIndex
           N == RootCount
<1>1. H \in Nat \ {0} /\ c \in 0..(H - 1) /\ leaves \in Seq(Note)
  BY TreeAssumption DEF TypeOK
<1>2. Len(leaves) = 2 * N /\ N \in Nat
  BY <1>1 DEF RingInv, RootCount
<1>3. \A j \in 0..(H - 1) : roots[Slot(j)] = IF j <= N THEN PastRoot(N - j) ELSE NoRoot
  BY DEF RingInv
<1>4. get_root = leaves
  <2>1. 0 \in 0..(H - 1) /\ Slot(0) = c /\ 0 <= N /\ N - 0 = N
    BY <1>1, <1>2 DEF Slot
  <2>2. roots[c] = PastRoot(N)
    BY <2>1, <1>3
  <2>3. PastRoot(N) = leaves
    BY <1>1, <1>2, WholePrefix DEF PastRoot
  <2> QED BY <2>2, <2>3 DEF get_root
<1>5. ASSUME NEW i \in 0..(H - 1)
      PROVE  \/ roots[i] = NoRoot
             \/ \E n \in 0..N : N - n < H /\ roots[i] = PastRoot(n)
  <2> DEFINE j == IF i <= c THEN c - i ELSE c - i + H
  <2>1. j \in 0..(H - 1) /\ Slot(j) = i
    BY <1>1 DEF Slot
  <2>2. roots[i] = IF j <= N THEN PastRoot(N - j) ELSE NoRoot
    BY <2>1, <1>3
  <2>3. CASE j <= N
    <3>1. N - j \in 0..N /\ N - (N - j) < H
      BY <2>1, <2>3, <1>1, <1>2
    <3> QED BY <2>2, <2>3, <3>1
  <2> QED BY <2>2, <2>3
<1>6. ASSUME NEW n \in 0..N, N - n < H
      PROVE  \E i \in 0..(H - 1) : roots[i] = PastRoot(n)
  <2>1. N - n \in 0..(H - 1) /\ N - n <= N /\ N - (N - n) = n
    BY <1>1, <1>2, <1>6
  <2>2. Slot(N - n) \in 0..(H - 1)
    BY <2>1, <1>1 DEF Slot
  <2> QED BY <2>1, <2>2, <1>3
<1> QED BY <1>4, <1>5, <1>6

\* Roots of different sizes are different, and none is the zero word.
LEMMA RootsDiffer ==
  ASSUME TypeOK, RingInv, NEW m \in 0..RootCount, NEW n \in 0..RootCount,
         PastRoot(m) = PastRoot(n)
  PROVE  m = n
<1>1. leaves \in Seq(Note) /\ Len(leaves) = 2 * RootCount /\ RootCount \in Nat
  BY DEF TypeOK, RingInv, RootCount
<1>2. Len(SubSeq(leaves, 1, 2 * m)) = 2 * m /\ Len(SubSeq(leaves, 1, 2 * n)) = 2 * n
  BY <1>1
<1> QED BY <1>1, <1>2 DEF PastRoot

\* Every root the tree has had is a sequence of notes, a prefix of the leaves of now.
LEMMA RootsAreTrees ==
  ASSUME TypeOK, RingInv, NEW n \in 0..RootCount
  PROVE  /\ PastRoot(n) \in Seq(Note)
         /\ PastRoot(n) # NoRoot
         /\ Len(PastRoot(n)) <= Len(leaves)
         /\ \A i \in 1..Len(PastRoot(n)) : PastRoot(n)[i] = leaves[i]
<1>1. leaves \in Seq(Note) /\ Len(leaves) = 2 * RootCount /\ RootCount \in Nat
  BY DEF TypeOK, RingInv, RootCount
<1>2. SubSeq(leaves, 1, 2 * n) \in Seq(Note) /\ Len(SubSeq(leaves, 1, 2 * n)) = 2 * n
  BY <1>1
<1>3. \A i \in 1..(2 * n) : SubSeq(leaves, 1, 2 * n)[i] = leaves[i]
  BY <1>1
<1> QED BY <1>1, <1>2, <1>3, NoRootAssumption DEF PastRoot

\* The window of known roots follows from the ring invariant.
LEMMA RingGivesWindow == TypeOK /\ RingInv => RootWindow
<1> SUFFICES ASSUME TypeOK, RingInv, NEW n \in 0..RootCount
             PROVE  is_known_root(PastRoot(n)) <=> RootCount - n < RootHistorySize
  BY DEF RootWindow
<1>1. ASSUME is_known_root(PastRoot(n)) PROVE RootCount - n < RootHistorySize
  <2>1. PICK i \in 0..(RootHistorySize - 1) : roots[i] = PastRoot(n)
    BY <1>1 DEF is_known_root
  <2>2. PastRoot(n) # NoRoot
    BY RootsAreTrees
  <2>3. PICK m \in 0..RootCount : /\ RootCount - m < RootHistorySize
                                  /\ roots[i] = PastRoot(m)
    BY <2>1, <2>2, KnownRoots
  <2> QED BY <2>1, <2>3, RootsDiffer
<1>2. ASSUME RootCount - n < RootHistorySize PROVE is_known_root(PastRoot(n))
  BY <1>2, KnownRoots, RootsAreTrees DEF is_known_root
<1> QED BY <1>1, <1>2


-----------------------------------------------------------------------------
(* The inductive invariant.                                                *)

IInv == TypeOK /\ RingInv /\ SpentInv /\ NoDoubleSpend /\ IsFiniteSet(proofs)

\* The initial states satisfy the invariant.
LEMMA InitInv == Init => IInv
<1> SUFFICES ASSUME Init PROVE IInv
  OBVIOUS
<1>1. TypeOK
  BY AmountAssumption, TreeAssumption DEF Init, TypeOK, RootOf
<1>2. RingInv
  <2>1. leaves = <<>> /\ RootCount = 0 /\ currentRootIndex = 0
    BY DEF Init, RootCount
  <2>2. \A j \in 0..(RootHistorySize - 1) :
          /\ Slot(j) \in 0..(RootHistorySize - 1)
          /\ Slot(j) = 0 <=> j = 0
    BY <2>1, TreeAssumption DEF Slot
  <2>3. SubSeq(leaves, 1, 0) = <<>>
    BY <2>1
  <2>4. \A j \in 0..(RootHistorySize - 1) :
          roots[Slot(j)] = IF j = 0 THEN <<>> ELSE NoRoot
    BY <2>2 DEF Init, RootOf
  <2>5. ASSUME NEW j \in 0..(RootHistorySize - 1)
        PROVE  roots[Slot(j)] = IF j <= RootCount THEN PastRoot(RootCount - j) ELSE NoRoot
    <3>1. CASE j = 0
      <4>1. j <= RootCount /\ 2 * (RootCount - j) = 0
        BY <3>1, <2>1
      <4> QED BY <3>1, <4>1, <2>3, <2>4 DEF PastRoot
    <3>2. CASE j # 0
      <4>1. ~ (j <= RootCount)
        BY <3>2, <2>1, TreeAssumption
      <4> QED BY <3>2, <4>1, <2>4
    <3> QED BY <3>1, <3>2
  <2>6. Len(leaves) = 2 * RootCount
    BY <2>1
  <2> QED BY <2>5, <2>6 DEF RingInv
<1>3. SpentInv /\ NoDoubleSpend
  BY DEF Init, SpentInv, NoDoubleSpend
<1>4. IsFiniteSet(proofs)
  BY FS_EmptySet DEF Init
<1> QED BY <1>1, <1>2, <1>3, <1>4 DEF IInv

\* A tree of notes is a tree of what a prover may claim.
LEMMA TreesAreClaims ==
  /\ Note \subseteq FieldNote
  /\ Seq(Note) \subseteq Seq(FieldNote)
<1>1. Note \subseteq FieldNote
  BY AmountAssumption DEF Note, FieldNote
<1>2. ASSUME NEW t \in Seq(Note) PROVE t \in Seq(FieldNote)
  <2>1. \A i \in 1..Len(t) : t[i] \in FieldNote
    BY <1>1
  <2> QED BY <2>1
<1> QED BY <1>1, <1>2

\* What a prover opens is a note it may claim, and the nullifier a nullifier.
LEMMA WitnessFacts ==
  ASSUME NEW w \in Witness, NEW s \in 1..2, w.inputs[s] \in 0..Len(w.tree)
  PROVE  /\ InputNote(w, s) \in FieldNote
         /\ InputNullifier(w, s) \in Nullifier
<1>1. w.tree \in Seq(FieldNote) /\ w.inputs[s] \in Nat /\ w.signer \in Keys /\ w.id \in Nat
  BY DEF Witness
<1>2. InputNote(w, s) \in FieldNote
  <2>1. CASE w.inputs[s] = 0
    <3>1. 0 \in 0..(FieldSize - 1)
      BY AmountAssumption
    <3> QED BY <1>1, <2>1, <3>1 DEF InputNote, FieldNote
  <2>2. CASE w.inputs[s] # 0
    <3>1. w.inputs[s] \in 1..Len(w.tree)
      BY <1>1, <2>2
    <3> QED BY <1>1, <2>2, <3>1 DEF InputNote
  <2> QED BY <2>1, <2>2
<1>3. 2 * w.id + s \in Nat
  BY <1>1
<1> HIDE DEF InputNote
<1> QED BY <1>1, <1>2, <1>3 DEF InputNullifier, Nullifier

\* The balancing amount is a field element.
LEMMA BalancingType ==
  ASSUME NEW a \in Int, NEW b \in Int, NEW c \in Int, NEW d \in Int
  PROVE  (a + b - c - d) % FieldSize \in 0..(FieldSize - 1)
<1>1. FieldSize \in Nat \ {0}
  BY AmountAssumption
<1>2. PICK x \in Int : x = a + b - c - d
  OBVIOUS
<1>3. x % FieldSize \in 0..(FieldSize - 1)
  BY <1>1
<1> QED BY <1>2, <1>3

\* The proof an honest or dishonest prover builds is well typed.
LEMMA ProofType ==
  ASSUME NEW id \in Nat, NEW root \in Seq(FieldNote), NEW i \in 0..Len(root),
         NEW j \in i..Len(root), NEW signer \in Keys, NEW outputs \in Note \X Note,
         NEW ext \in ExtData, NEW m \in Seq(Keys), NEW b \in SUBSET Keys,
         NEW w, w = [id |-> id, tree |-> root, inputs |-> <<i, j>>, signer |-> signer]
  PROVE  [witness           |-> w,
          root              |-> root,
          publicAmount      |-> BalancingAmount(w, outputs),
          extDataHash       |-> ext,
          inputNullifiers   |-> InputNullifiers(w),
          outputs           |-> outputs,
          membershipRoot    |-> m,
          nonMembershipRoot |-> b] \in Proof
<1>1. i \in Nat /\ j \in 0..Len(root) /\ j \in Nat
  OBVIOUS
<1>2. w \in Witness /\ w.inputs = <<i, j>> /\ w.tree = root
  BY <1>1 DEF Witness
<1>3. \A s \in 1..2 : w.inputs[s] \in 0..Len(w.tree)
  BY <1>1, <1>2
<1>4. \A s \in 1..2 : InputNote(w, s) \in FieldNote /\ InputNullifier(w, s) \in Nullifier
  BY <1>2, <1>3, WitnessFacts
<1>5. InputNullifiers(w) \in Word \X Word
  BY <1>4, AmountAssumption DEF InputNullifiers, Word
<1>6. BalancingAmount(w, outputs) \in 0..(FieldSize - 1)
  <2>1. \A n \in FieldNote : n.amount \in Int
    BY AmountAssumption DEF FieldNote
  <2>2. outputs[1].amount \in Int /\ outputs[2].amount \in Int
    BY <2>1, TreesAreClaims
  <2>3. InputNote(w, 1).amount \in Int /\ InputNote(w, 2).amount \in Int
    BY <1>4, <2>1
  <2> HIDE DEF InputNote
  <2> QED BY <2>2, <2>3, BalancingType DEF BalancingAmount
<1> QED BY <1>2, <1>5, <1>6 DEF Proof

\* A proof that is built is well typed and satisfies the circuit; nothing but the
\* set of proofs changes.
LEMMA ProveAnyFacts ==
  ASSUME TypeOK, RingInv, IsFiniteSet(proofs), ProveAny
  PROVE  /\ \E p \in Proof : CircuitHolds(p) /\ proofs' = proofs \union {p}
         /\ UNCHANGED <<treeVars, nullifiers, tokenVars, cfgVars, aspVars, published>>
<1>1. Cardinality(proofs) \in Nat
  BY FS_CardinalityType
<1>2. get_root \in Seq(FieldNote)
  BY KnownRoots, TreesAreClaims DEF TypeOK
<1>3. get_asp_membership_root \in Seq(Keys) /\ get_asp_non_membership_root \in SUBSET Keys
  BY DEF TypeOK, get_asp_membership_root, get_asp_non_membership_root
<1>4. PICK root \in {get_root} \union MadeUpRoots,
           m \in {get_asp_membership_root} \union MadeUpMembers,
           b \in {get_asp_non_membership_root} \union MadeUpBlocked :
        \E i \in 0..Len(root) : \E j \in i..Len(root) :
        \E signer \in Keys, outputs \in Note \X Note, ext \in ExtData :
          LET w == [id |-> Cardinality(proofs), tree |-> root, inputs |-> <<i, j>>, signer |-> signer]
          IN  Prove([witness           |-> w,
                     root              |-> root,
                     publicAmount      |-> BalancingAmount(w, outputs),
                     extDataHash       |-> ext,
                     inputNullifiers   |-> InputNullifiers(w),
                     outputs           |-> outputs,
                     membershipRoot    |-> m,
                     nonMembershipRoot |-> b])
  BY DEF ProveAny
<1>5. PICK i \in 0..Len(root) : \E j \in i..Len(root) :
        \E signer \in Keys, outputs \in Note \X Note, ext \in ExtData :
          LET w == [id |-> Cardinality(proofs), tree |-> root, inputs |-> <<i, j>>, signer |-> signer]
          IN  Prove([witness           |-> w,
                     root              |-> root,
                     publicAmount      |-> BalancingAmount(w, outputs),
                     extDataHash       |-> ext,
                     inputNullifiers   |-> InputNullifiers(w),
                     outputs           |-> outputs,
                     membershipRoot    |-> m,
                     nonMembershipRoot |-> b])
  BY <1>4
<1>6. PICK j \in i..Len(root) : \E signer \in Keys, outputs \in Note \X Note, ext \in ExtData :
        LET w == [id |-> Cardinality(proofs), tree |-> root, inputs |-> <<i, j>>, signer |-> signer]
        IN  Prove([witness           |-> w,
                   root              |-> root,
                   publicAmount      |-> BalancingAmount(w, outputs),
                   extDataHash       |-> ext,
                   inputNullifiers   |-> InputNullifiers(w),
                   outputs           |-> outputs,
                   membershipRoot    |-> m,
                   nonMembershipRoot |-> b])
  BY <1>5
<1>7. PICK signer \in Keys, outputs \in Note \X Note, ext \in ExtData :
        LET w == [id |-> Cardinality(proofs), tree |-> root, inputs |-> <<i, j>>, signer |-> signer]
        IN  Prove([witness           |-> w,
                   root              |-> root,
                   publicAmount      |-> BalancingAmount(w, outputs),
                   extDataHash       |-> ext,
                   inputNullifiers   |-> InputNullifiers(w),
                   outputs           |-> outputs,
                   membershipRoot    |-> m,
                   nonMembershipRoot |-> b])
  BY <1>6
<1> PICK w :
      w = [id |-> Cardinality(proofs), tree |-> root, inputs |-> <<i, j>>, signer |-> signer]
  OBVIOUS
<1>8. root \in Seq(FieldNote) /\ m \in Seq(Keys) /\ b \in SUBSET Keys
  BY <1>2, <1>3, MadeUpAssumption
<1>9. PICK p : /\ p = [witness           |-> w,
                       root              |-> root,
                       publicAmount      |-> BalancingAmount(w, outputs),
                       extDataHash       |-> ext,
                       inputNullifiers   |-> InputNullifiers(w),
                       outputs           |-> outputs,
                       membershipRoot    |-> m,
                       nonMembershipRoot |-> b]
               /\ Prove(p)
  BY <1>7
<1>10. p \in Proof
  BY <1>1, <1>8, <1>9, ProofType
<1> QED BY <1>9, <1>10 DEF Prove

\* Every call a submitter can make carries well-typed public inputs.
LEMMA CallsAreProofs ==
  ASSUME TypeOK, RingInv, NEW q \in proofs, NEW ext \in ExtData, NEW p \in Calls(q, ext)
  PROVE  p \in Proof
<1>1. q \in Proof
  BY DEF TypeOK
<1>2. get_root \in Seq(FieldNote)
  BY KnownRoots, TreesAreClaims DEF TypeOK
<1>3. get_asp_membership_root \in Seq(Keys) /\ get_asp_non_membership_root \in SUBSET Keys
  BY DEF TypeOK, get_asp_membership_root, get_asp_non_membership_root
<1>4. calculate_public_amount(ext.extAmount) \in 0..(FieldSize - 1)
  BY PublicAmountType DEF ExtData
<1>5. [q EXCEPT !.extDataHash = ext,
                !.publicAmount = calculate_public_amount(ext.extAmount)] \in Proof
  BY <1>1, <1>4 DEF Proof
<1>6. [q EXCEPT !.root = get_root] \in Proof
  BY <1>1, <1>2 DEF Proof
<1>7. [q EXCEPT !.membershipRoot = get_asp_membership_root,
                !.nonMembershipRoot = get_asp_non_membership_root] \in Proof
  BY <1>1, <1>3 DEF Proof
<1>8. ASSUME NEW laps \in (0..MaxLap) \X (0..MaxLap) PROVE Rewritten(q, laps) \in Proof
  <2>1. q.inputNullifiers[1] \in Word /\ q.inputNullifiers[2] \in Word
    BY <1>1 DEF Proof
  <2>2. q.inputNullifiers[1][1] \in Nullifier /\ q.inputNullifiers[2][1] \in Nullifier
    BY <2>1, WordParts
  <2>3. <<<<q.inputNullifiers[1][1], laps[1]>>, <<q.inputNullifiers[2][1], laps[2]>>>>
          \in Word \X Word
    BY <2>2 DEF Word
  <2>4. Rewritten(q, laps)
          = [q EXCEPT !.inputNullifiers = <<<<q.inputNullifiers[1][1], laps[1]>>,
                                            <<q.inputNullifiers[2][1], laps[2]>>>>]
    BY <1>1 DEF Rewritten, Proof
  <2> QED BY <1>1, <2>3, <2>4 DEF Proof
<1> QED BY <1>1, <1>5, <1>6, <1>7, <1>8 DEF Calls

\* A call that changes the pool is the transact of some well-typed proof.
LEMMA SomeTransact ==
  ASSUME TypeOK, RingInv, TransactAny
  PROVE  \E p \in Proof, ext \in ExtData, sender \in Accounts : Transact(p, ext, sender)
<1>1. PICK q \in proofs, ext \in ExtData, sender \in Accounts :
        \E p \in Calls(q, ext) : Transact(p, ext, sender)
  BY DEF TransactAny
<1>2. PICK p \in Calls(q, ext) : Transact(p, ext, sender)
  BY <1>1
<1>3. p \in Proof
  BY CallsAreProofs
<1> QED BY <1>2, <1>3

\* Building a proof preserves the invariant.
LEMMA ProveStep ==
  ASSUME IInv, ProveAny
  PROVE  IInv'
<1>1. TypeOK /\ RingInv /\ IsFiniteSet(proofs)
  BY DEF IInv
<1>2. PICK p \in Proof : CircuitHolds(p) /\ proofs' = proofs \union {p}
  BY <1>1, ProveAnyFacts
<1>3. UNCHANGED <<treeVars, nullifiers, tokenVars, cfgVars, aspVars, published>>
  BY <1>1, ProveAnyFacts
<1>4. TypeOK'
  BY <1>1, <1>2, <1>3 DEF TypeOK, treeVars, tokenVars, cfgVars, aspVars
<1>5. RingInv' /\ NoDoubleSpend'
  BY <1>3 DEF IInv, RingInv, NoDoubleSpend, treeVars, Slot, RootCount, PastRoot
<1>6. SpentInv'
  BY <1>2, <1>3 DEF IInv, SpentInv
<1>7. IsFiniteSet(proofs')
  BY <1>1, <1>2, FS_AddElement
<1> QED BY <1>4, <1>5, <1>6, <1>7 DEF IInv

\* An accepted transaction preserves the invariant.
LEMMA TransactStep ==
  ASSUME IInv, NEW p \in Proof, NEW ext \in ExtData, NEW sender \in Accounts,
         Transact(p, ext, sender)
  PROVE  IInv'
<1>1. TypeOK /\ RingInv /\ SpentInv /\ NoDoubleSpend /\ Accepted(p, ext, sender)
  BY DEF IInv, Transact
<1>2. p \in proofs /\ CircuitHolds(p)
  BY <1>1, AcceptedFacts DEF SpentInv
<1>3. TypeOK'
  BY <1>1, TransactType
<1>4. RingInv'
  <2>1. p.outputs[1] \in Note /\ p.outputs[2] \in Note
    BY DEF Proof
  <2> QED BY <1>1, <2>1, RingStep DEF Transact
<1> DEFINE m == p.inputNullifiers[1]
           n == p.inputNullifiers[2]
           L == Len(published)
<1>5. /\ m \notin nullifiers /\ n \notin nullifiers
      /\ m \in Word /\ n \in Word /\ published \in Seq(Word)
      /\ p.inputNullifiers = <<m, n>>
  <2>1. p.inputNullifiers \in Word \X Word
    BY DEF Proof
  <2>2. m \in Word /\ n \in Word /\ p.inputNullifiers = <<m, n>>
    BY <2>1
  <2>3. m \notin nullifiers /\ n \notin nullifiers
    BY <1>1 DEF Accepted, is_spent
  <2> HIDE DEF m, n
  <2> QED BY <1>1, <2>2, <2>3 DEF TypeOK
<1>6. m[1] # n[1] /\ m[2] = 0 /\ n[2] = 0
  <2>1. /\ m = <<InputNullifier(p.witness, 1), 0>>
        /\ n = <<InputNullifier(p.witness, 2), 0>>
    BY <1>2 DEF CircuitHolds, InputNullifiers
  <2>2. InputNullifier(p.witness, 1) # InputNullifier(p.witness, 2)
    BY <1>2 DEF CircuitHolds
  <2> HIDE DEF m, n, InputNullifier
  <2> QED BY <2>1, <2>2
<1>7. published' = published \o <<m, n>> /\ nullifiers' = nullifiers \union {m, n}
  <2>1. /\ published' = published \o p.inputNullifiers
        /\ nullifiers' = nullifiers \union {p.inputNullifiers[s] : s \in 1..2}
    BY DEF Transact, mark_spent
  <2>2. {p.inputNullifiers[s] : s \in 1..2} = {m, n}
    OBVIOUS
  <2> HIDE DEF m, n
  <2> QED BY <1>5, <2>1, <2>2
<1>8. /\ DOMAIN published' = 1..(L + 2) /\ DOMAIN published = 1..L /\ L \in Nat
      /\ \A a \in 1..L : published'[a] = published[a]
      /\ published'[L + 1] = m /\ published'[L + 2] = n
      /\ \A a \in 1..L : published[a] \in Word
  BY <1>5, <1>7
<1>9. /\ nullifiers = {published[a] : a \in 1..L}
      /\ \A a \in 1..L : published[a][2] = 0
  BY <1>1, <1>8 DEF SpentInv
<1>10. ASSUME NEW a \in 1..L PROVE published[a][1] # m[1] /\ published[a][1] # n[1]
  <2>1. published[a] \in nullifiers /\ published[a] = <<published[a][1], 0>>
    BY <1>8, <1>9, WordParts
  <2>2. m = <<m[1], 0>> /\ n = <<n[1], 0>>
    BY <1>5, <1>6, WordParts
  <2> HIDE DEF m, n
  <2> QED BY <1>5, <2>1, <2>2
<1> HIDE DEF m, n, L
<1>11. NoDoubleSpend'
  <2> SUFFICES ASSUME NEW a \in 1..(L + 2), NEW b \in 1..(L + 2),
                      published'[a][1] = published'[b][1]
               PROVE  a = b
    BY <1>8 DEF NoDoubleSpend
  <2>1. CASE a \in 1..L /\ b \in 1..L
    BY <2>1, <1>1, <1>8 DEF NoDoubleSpend
  <2>2. CASE a \in 1..L /\ b \notin 1..L
    <3>1. published'[a] = published[a] /\ (published'[b] = m \/ published'[b] = n)
      BY <1>8, <2>2
    <3> QED BY <2>2, <3>1, <1>10
  <2>3. CASE a \notin 1..L /\ b \in 1..L
    <3>1. published'[b] = published[b] /\ (published'[a] = m \/ published'[a] = n)
      BY <1>8, <2>3
    <3> QED BY <2>3, <3>1, <1>10
  <2>4. CASE a \notin 1..L /\ b \notin 1..L
    BY <2>4, <1>6, <1>8
  <2> QED BY <2>1, <2>2, <2>3, <2>4
<1>12. SpentInv'
  <2>1. nullifiers' = {published'[a] : a \in 1..(L + 2)}
    <3>1. {published'[a] : a \in 1..(L + 2)} = {published'[a] : a \in 1..L} \union {m, n}
      BY <1>8
    <3>2. {published'[a] : a \in 1..L} = {published[a] : a \in 1..L}
      BY <1>8
    <3> QED BY <3>1, <3>2, <1>7, <1>9
  <2>2. \A a \in 1..(L + 2) : published'[a][2] = 0
    BY <1>6, <1>8, <1>9
  <2> QED BY <2>1, <2>2, <1>1, <1>8 DEF SpentInv, Transact
<1>13. IsFiniteSet(proofs')
  BY DEF IInv, Transact
<1> QED BY <1>3, <1>4, <1>11, <1>12, <1>13 DEF IInv

\* The administrative actions preserve the invariant.
LEMMA AdminStep ==
  ASSUME IInv,
         \/ \E caller, new \in Admins : update_admin(caller, new)
         \/ \E caller \in Admins, c \in MembershipContracts : update_asp_membership(caller, c)
         \/ \E caller \in Admins, c \in NonMembershipContracts :
              update_asp_non_membership(caller, c)
         \/ \E c \in MembershipContracts, k \in Keys : AspInsertLeaf(c, k)
         \/ \E c \in NonMembershipContracts, k \in Keys : AspBlock(c, k) \/ AspUnblock(c, k)
  PROVE  IInv'
<1>1. UNCHANGED <<treeVars, nullifiers, tokenVars, proofs, published>>
  BY DEF update_admin, update_asp_membership, update_asp_non_membership,
         AspInsertLeaf, AspBlock, AspUnblock, aspVars, cfgVars
<1>2. TypeOK
  BY DEF IInv
<1>3. /\ admin' \in Admins
      /\ aspMembership' \in MembershipContracts
      /\ aspNonMembership' \in NonMembershipContracts
  BY <1>2 DEF TypeOK, update_admin, update_asp_membership, update_asp_non_membership,
         AspInsertLeaf, AspBlock, AspUnblock, cfgVars
<1>4. members' \in [MembershipContracts -> Seq(Keys)]
  <2>1. CASE \E c \in MembershipContracts, k \in Keys : AspInsertLeaf(c, k)
    <3>1. PICK c \in MembershipContracts, k \in Keys : AspInsertLeaf(c, k)
      BY <2>1
    <3>2. members[c] \in Seq(Keys)
      BY <1>2 DEF TypeOK
    <3>3. Append(members[c], k) \in Seq(Keys)
      BY <3>2
    <3> QED BY <1>2, <3>1, <3>3 DEF TypeOK, AspInsertLeaf
  <2>2. CASE UNCHANGED members
    BY <1>2, <2>2 DEF TypeOK
  <2> QED
    BY <2>1, <2>2 DEF update_admin, update_asp_membership, update_asp_non_membership,
         AspBlock, AspUnblock, aspVars
<1>5. blocked' \in [NonMembershipContracts -> SUBSET Keys]
  BY <1>2 DEF TypeOK, update_admin, update_asp_membership, update_asp_non_membership,
         AspInsertLeaf, AspBlock, AspUnblock, aspVars
<1>6. TypeOK'
  BY <1>1, <1>2, <1>3, <1>4, <1>5 DEF TypeOK, treeVars, tokenVars
<1>7. RingInv' /\ NoDoubleSpend' /\ SpentInv' /\ IsFiniteSet(proofs')
  BY <1>1 DEF IInv, RingInv, NoDoubleSpend, SpentInv, treeVars, Slot, RootCount, PastRoot
<1> QED BY <1>6, <1>7 DEF IInv

\* Every step preserves the invariant.
LEMMA NextInv == IInv /\ [Next]_vars => IInv'
<1> SUFFICES ASSUME IInv, [Next]_vars PROVE IInv'
  OBVIOUS
<1>1. CASE ProveAny
  BY <1>1, ProveStep
<1>2. CASE TransactAny
  BY <1>2, SomeTransact, TransactStep DEF IInv
<1>3. CASE UNCHANGED vars
  BY <1>3 DEF IInv, TypeOK, RingInv, NoDoubleSpend, SpentInv, vars, treeVars, tokenVars,
              cfgVars, aspVars, Slot, RootCount, PastRoot
<1> QED BY <1>1, <1>2, <1>3, AdminStep DEF Next

\* The invariant holds in every reachable state.
LEMMA Invariance == Spec => []IInv
BY InitInv, NextInv, PTL DEF Spec

\* Types: token balances never go negative, the ring index stays in the ring,
\* and every proof in circulation has public inputs in the field.
THEOREM TypeCorrect == Spec => []TypeOK
<1>1. IInv => TypeOK
  BY DEF IInv
<1> QED BY <1>1, Invariance, PTL

\* transact spends a nullifier at most once, for every schedule of proofs.
THEOREM SpentAtMostOnce == Spec => []NoDoubleSpend
<1>1. IInv => NoDoubleSpend
  BY DEF IInv
<1> QED BY <1>1, Invariance, PTL

\* is_known_root accepts exactly the last RootHistorySize roots, for every
\* ring length and however often the ring has wrapped.
THEOREM WindowOfRoots == Spec => []RootWindow
<1>1. IInv => RootWindow
  BY RingGivesWindow DEF IInv
<1> QED BY <1>1, Invariance, PTL


-----------------------------------------------------------------------------
(* What a step may never do.                                               *)

\* A proof that is accepted against a known, possibly old, root speaks about
\* the notes that are in the tree now.
LEMMA KnownRootIsPrefix ==
  ASSUME TypeOK, RingInv, NEW r, is_known_root(r)
  PROVE  /\ r \in Seq(Note) /\ Len(r) <= Len(leaves)
         /\ \A i \in 1..Len(r) : r[i] = leaves[i]
<1>1. PICK k \in 0..(RootHistorySize - 1) : roots[k] = r /\ r # NoRoot
  BY DEF is_known_root
<1>2. PICK n \in 0..RootCount : r = PastRoot(n)
  BY <1>1, KnownRoots
<1> QED BY <1>2, RootsAreTrees

\* An accepted call was proved of notes that are in the tree now: it spends only
\* leaves that exist, are what the prover said they are, and were not spent.
LEMMA InputsAreLive ==
  ASSUME IInv, NEW p \in Proof, NEW ext \in ExtData, NEW sender \in Accounts,
         Accepted(p, ext, sender), NEW s \in 1..2, NEW i, i = p.witness.inputs[s], i # 0
  PROVE  /\ i \in UnspentLeaves /\ i \in 1..Len(leaves)
         /\ InputNote(p.witness, s) = leaves[i]
         /\ p.inputNullifiers[s] = LeafWord(i)
<1>1. TypeOK /\ RingInv /\ SpentInv
  BY DEF IInv
<1>2. p \in proofs /\ CircuitHolds(p)
  BY <1>1, AcceptedFacts DEF SpentInv
<1>3. /\ p.root \in Seq(Note) /\ Len(p.root) <= Len(leaves)
      /\ \A k \in 1..Len(p.root) : p.root[k] = leaves[k]
  BY <1>1, KnownRootIsPrefix DEF Accepted
<1>4. p.root = p.witness.tree /\ i \in 0..Len(p.root) /\ p.inputNullifiers = InputNullifiers(p.witness)
  BY <1>2 DEF CircuitHolds
<1>5. i \in 1..Len(p.root) /\ leaves \in Seq(Note) /\ i \in 1..Len(leaves)
  BY <1>1, <1>3, <1>4 DEF TypeOK
<1>6. InputNote(p.witness, s) = leaves[i]
  BY <1>3, <1>4, <1>5 DEF InputNote
<1> HIDE DEF InputNote
<1>7. InputNullifier(p.witness, s) = <<"leaf", i, leaves[i]>>
  BY <1>6 DEF InputNullifier
<1>8. p.inputNullifiers[s] = <<InputNullifier(p.witness, s), 0>>
  BY <1>4 DEF InputNullifiers
<1>9. p.inputNullifiers[s] = LeafWord(i) /\ ~ is_spent(p.inputNullifiers[s])
  BY <1>7, <1>8 DEF LeafWord, Accepted
<1> QED BY <1>5, <1>6, <1>9 DEF UnspentLeaves

\* A leaf whose word is among the nullifiers of an accepted call is an input of it.
LEMMA SpentIsInput ==
  ASSUME IInv, NEW p \in Proof, NEW ext \in ExtData, NEW sender \in Accounts,
         Accepted(p, ext, sender), NEW s \in 1..2, p.inputNullifiers[s][1][1] = "leaf"
  PROVE  /\ p.witness.inputs[s] # 0
         /\ p.inputNullifiers[s][1][2] = p.witness.inputs[s]
<1>1. p \in proofs /\ CircuitHolds(p)
  BY AcceptedFacts DEF IInv, SpentInv
<1>2. p.inputNullifiers[s] = <<InputNullifier(p.witness, s), 0>>
  BY <1>1 DEF CircuitHolds, InputNullifiers
<1> HIDE DEF InputNote
<1> QED BY <1>2 DEF InputNullifier

\* Leaves stay where they are.
LEMMA LeavesStay ==
  ASSUME TypeOK, NEW p \in Proof, NEW ext \in ExtData, NEW sender \in Accounts,
         Transact(p, ext, sender)
  PROVE  /\ leaves \in Seq(Note) /\ Len(leaves) \in Nat /\ Len(leaves') = Len(leaves) + 2
         /\ DOMAIN leaves' = 1..(Len(leaves) + 2) /\ DOMAIN leaves = 1..Len(leaves)
         /\ \A i \in 1..Len(leaves) : leaves'[i] = leaves[i]
         /\ leaves'[Len(leaves) + 1] = p.outputs[1] /\ leaves'[Len(leaves) + 2] = p.outputs[2]
         /\ p.outputs[1] \in Note /\ p.outputs[2] \in Note
<1>1. leaves \in Seq(Note) /\ p.outputs[1] \in Note /\ p.outputs[2] \in Note
  BY DEF TypeOK, Proof
<1>2. leaves' = leaves \o <<p.outputs[1], p.outputs[2]>>
  BY DEF Transact, insert_two_leaves
<1> QED BY <1>1, <1>2

\* An accepted call spends only notes whose owners are approved now.
LEMMA ApprovedStep ==
  ASSUME IInv, NEW p \in Proof, NEW ext \in ExtData, NEW sender \in Accounts,
         Transact(p, ext, sender), NEW i \in DOMAIN leaves,
         is_spent(LeafWord(i))', ~ is_spent(LeafWord(i))
  PROVE  /\ \E j \in DOMAIN members[aspMembership] :
              members[aspMembership][j] = leaves[i].owner
         /\ leaves[i].owner \notin blocked[aspNonMembership]
<1>1. TypeOK /\ RingInv /\ SpentInv /\ Accepted(p, ext, sender)
  BY DEF IInv, Transact
<1>2. p \in proofs /\ CircuitHolds(p)
  BY <1>1, AcceptedFacts DEF SpentInv
<1>3. LeafWord(i)' = LeafWord(i)
  <2>1. leaves'[i] = leaves[i]
    BY <1>1, LeavesStay
  <2> QED BY <2>1 DEF LeafWord
<1>4. PICK s \in 1..2 : p.inputNullifiers[s] = LeafWord(i)
  BY <1>3 DEF Transact, mark_spent, is_spent
<1>5. p.witness.inputs[s] # 0 /\ p.witness.inputs[s] = i
  BY <1>1, <1>4, SpentIsInput DEF LeafWord
<1>6. InputNote(p.witness, s) = leaves[i]
  BY <1>1, <1>5, InputsAreLive
<1>7. /\ \E j \in DOMAIN p.membershipRoot : p.membershipRoot[j] = InputNote(p.witness, s).owner
      /\ InputNote(p.witness, s).owner \notin p.nonMembershipRoot
  BY <1>2 DEF CircuitHolds
<1> QED BY <1>1, <1>6, <1>7 DEF Accepted, AspRootsCurrent,
            get_asp_membership_root, get_asp_non_membership_root

\* Only transact spends.
LEMMA OthersSpendNothing ==
  ASSUME [Next]_vars,
         ~ TransactAny
  PROVE  UNCHANGED <<tokenVars, nullifiers, treeVars>>
<1>1. CASE ProveAny
  BY <1>1 DEF ProveAny, Prove
<1>2. CASE Next /\ ~ ProveAny
  BY <1>2 DEF Next, update_admin, update_asp_membership, update_asp_non_membership,
         AspInsertLeaf, AspBlock, AspUnblock
<1>3. CASE UNCHANGED vars
  BY <1>3 DEF vars
<1> QED BY <1>1, <1>2, <1>3

\* Revocation is immediate: a note is spent only while its owner is approved
\* by the ASP contracts the pool points to.
THEOREM ApprovedSpendsOnly == Spec => OnlyApprovedSpend
<1>1. ASSUME IInv, [Next]_vars
      PROVE  [\A i \in DOMAIN leaves :
                is_spent(LeafWord(i))' /\ ~ is_spent(LeafWord(i)) =>
                  /\ \E j \in DOMAIN members[aspMembership] :
                       members[aspMembership][j] = leaves[i].owner
                  /\ leaves[i].owner \notin blocked[aspNonMembership]]_vars
  <2>1. CASE TransactAny
    BY <1>1, <2>1, SomeTransact, ApprovedStep DEF IInv
  <2>2. CASE UNCHANGED <<tokenVars, nullifiers, treeVars>>
    BY <2>2 DEF is_spent, LeafWord, treeVars
  <2> QED BY <1>1, <2>1, <2>2, OthersSpendNothing
<1> QED BY <1>1, Invariance, PTL DEF Spec, OnlyApprovedSpend

\* An accepted call does what one proof in circulation says, and no more.
LEMMA AsProvenStep ==
  ASSUME IInv, NEW p \in Proof, NEW ext \in ExtData, NEW sender \in Accounts,
         Transact(p, ext, sender)
  PROVE  /\ p \in proofs /\ ext = p.extDataHash
         /\ leaves' = leaves \o p.outputs
         /\ nullifiers' \ nullifiers = {p.inputNullifiers[s] : s \in 1..2}
         /\ poolBalance' - poolBalance = ext.extAmount
         /\ \A a \in Accounts : balance'[a] # balance[a] =>
              \/ ext.extAmount < 0 /\ a = ext.recipient /\ balance'[a] = balance[a] - ext.extAmount
              \/ ext.extAmount > 0 /\ balance'[a] = balance[a] - ext.extAmount
<1>1. TypeOK /\ Accepted(p, ext, sender)
  BY DEF IInv, Transact
<1>2. p \in proofs /\ ext.extAmount \in Int /\ ext.recipient \in Accounts
  BY <1>1, AcceptedFacts
<1>3. ext = p.extDataHash
  BY <1>1 DEF Accepted
<1>4. leaves' = leaves \o p.outputs
  <2>1. p.outputs \in Note \X Note
    BY DEF Proof
  <2>2. p.outputs = <<p.outputs[1], p.outputs[2]>>
    BY <2>1
  <2> QED BY <2>2 DEF Transact, insert_two_leaves
<1>5. nullifiers' \ nullifiers = {p.inputNullifiers[s] : s \in 1..2}
  BY <1>1 DEF Transact, mark_spent, Accepted, is_spent
<1>6. poolBalance \in Nat /\ balance \in [Accounts -> Nat]
  BY <1>1 DEF TypeOK
<1>7. poolBalance' - poolBalance = ext.extAmount
  BY <1>2, <1>6 DEF Transact, MoveTokens
<1>8. ASSUME NEW a \in Accounts, balance'[a] # balance[a]
      PROVE  \/ ext.extAmount < 0 /\ a = ext.recipient /\ balance'[a] = balance[a] - ext.extAmount
             \/ ext.extAmount > 0 /\ balance'[a] = balance[a] - ext.extAmount
  <2>1. CASE ext.extAmount > 0
    BY <1>2, <1>6, <1>8, <2>1 DEF Transact, MoveTokens
  <2>2. CASE ~ (ext.extAmount > 0)
    <3>1. balance' = [balance EXCEPT ![ext.recipient] = @ - ext.extAmount]
      BY <2>2 DEF Transact, MoveTokens
    <3>2. a = ext.recipient /\ balance'[a] = balance[a] - ext.extAmount
      BY <1>2, <1>6, <1>8, <3>1
    <3> QED BY <1>2, <1>6, <1>8, <2>2, <3>2
  <2> QED BY <2>1, <2>2
<1> QED BY <1>2, <1>3, <1>4, <1>5, <1>7, <1>8

\* Every change to the shielded state is, as a whole, what one prover proved:
\* a submitter that alters a proof's public inputs achieves nothing.
THEOREM ChangesAsProven == Spec => OnlyAsProven
<1>1. ASSUME IInv, [Next]_vars
      PROVE  [ treeVars' # treeVars \/ nullifiers' # nullifiers \/ tokenVars' # tokenVars =>
               \E p \in proofs :
                 LET e == p.extDataHash.extAmount
                     r == p.extDataHash.recipient
                 IN  /\ leaves' = leaves \o p.outputs
                     /\ nullifiers' \ nullifiers = {p.inputNullifiers[s] : s \in 1..2}
                     /\ poolBalance' - poolBalance = e
                     /\ \A a \in Accounts : balance'[a] # balance[a] =>
                          \/ e < 0 /\ a = r /\ balance'[a] = balance[a] - e
                          \/ e > 0 /\ balance'[a] = balance[a] - e ]_vars
  <2>1. CASE TransactAny
    <3>1. PICK p \in Proof, ext \in ExtData, sender \in Accounts : Transact(p, ext, sender)
      BY <1>1, <2>1, SomeTransact DEF IInv
    <3>2. /\ p \in proofs /\ ext = p.extDataHash
          /\ leaves' = leaves \o p.outputs
          /\ nullifiers' \ nullifiers = {p.inputNullifiers[s] : s \in 1..2}
          /\ poolBalance' - poolBalance = ext.extAmount
          /\ \A a \in Accounts : balance'[a] # balance[a] =>
               \/ ext.extAmount < 0 /\ a = ext.recipient /\ balance'[a] = balance[a] - ext.extAmount
               \/ ext.extAmount > 0 /\ balance'[a] = balance[a] - ext.extAmount
      BY <1>1, <3>1, AsProvenStep
    <3> QED BY <3>2
  <2>2. CASE UNCHANGED <<tokenVars, nullifiers, treeVars>>
    BY <2>2
  <2> QED BY <1>1, <2>1, <2>2, OthersSpendNothing
<1> QED BY <1>1, Invariance, PTL DEF Spec, OnlyAsProven

-----------------------------------------------------------------------------
(* The pool implements ShieldedLedger.                                     *)

\* What makes the mapping of unspent leaves to live notes a simulation: only
\* leaves that exist have been spent, so a new leaf is always live.
LeafInv == \A n \in nullifiers : n[1][1] = "leaf" => n[1][2] \in 1..Len(leaves)

\* Remainders of numbers below the modulus, and just above it.
LEMMA SmallRemainder ==
  ASSUME NEW F \in Nat \ {0}, NEW x \in 0..(F - 1)
  PROVE  x % F = x /\ (F + x) % F = x
BY SMT

\* The circuit's sums agree modulo the field; the bounds on amounts make them
\* agree as integers, for deposits, transfers and withdrawals alike.
LEMMA BalancedAsIntegers ==
  ASSUME NEW i1 \in 0..(MaxExtAmount - 1), NEW i2 \in 0..(MaxExtAmount - 1),
         NEW o1 \in 0..(MaxExtAmount - 1), NEW o2 \in 0..(MaxExtAmount - 1),
         NEW e \in Int, Abs(e) <= MaxExtAmount,
         (i1 + i2 + calculate_public_amount(e)) % FieldSize = (o1 + o2) % FieldSize
  PROVE  e = o1 + o2 - i1 - i2
<1>1. FieldSize \in Nat \ {0} /\ MaxExtAmount \in Nat /\ 4 * MaxExtAmount < FieldSize
  BY AmountAssumption
<1>2. o1 + o2 \in 0..(FieldSize - 1) /\ (o1 + o2) % FieldSize = o1 + o2
  BY <1>1, SmallRemainder
<1>3. CASE e >= 0
  <2>1. i1 + i2 + e \in 0..(FieldSize - 1)
    BY <1>1, <1>3 DEF Abs
  <2>2. (i1 + i2 + e) % FieldSize = i1 + i2 + e
    BY <1>1, <2>1, SmallRemainder
  <2> QED BY <1>2, <1>3, <2>2 DEF calculate_public_amount
<1>4. CASE e < 0
  <2>1. Abs(e) = -e /\ calculate_public_amount(e) = FieldSize + e
    BY <1>1, <1>4 DEF Abs, calculate_public_amount
  <2>2. CASE i1 + i2 + e >= 0
    <3>1. i1 + i2 + e \in 0..(FieldSize - 1)
      BY <1>1, <1>4, <2>2
    <3>2. (FieldSize + (i1 + i2 + e)) % FieldSize = i1 + i2 + e
      BY <1>1, <3>1, SmallRemainder
    <3>3. i1 + i2 + (FieldSize + e) = FieldSize + (i1 + i2 + e)
      BY <1>1
    <3> QED BY <1>2, <2>1, <3>2, <3>3
  <2>3. CASE i1 + i2 + e < 0
    <3>1. i1 + i2 + (FieldSize + e) \in 0..(FieldSize - 1)
      BY <1>1, <2>1, <2>3
    <3>2. (i1 + i2 + (FieldSize + e)) % FieldSize = i1 + i2 + (FieldSize + e)
      BY <1>1, <3>1, SmallRemainder
    <3>3. i1 + i2 + (FieldSize + e) > o1 + o2
      BY <1>1, <2>1
    <3> QED BY <1>2, <2>1, <3>2, <3>3
  <2> QED BY <2>2, <2>3
<1> QED BY <1>3, <1>4

\* Initially nothing has been spent.
LEMMA LeafInit == Init => LeafInv
BY DEF Init, LeafInv

\* Every step keeps the spent leaves among the existing ones.
LEMMA LeafStep == IInv /\ LeafInv /\ [Next]_vars => LeafInv'
<1> SUFFICES ASSUME IInv, LeafInv, [Next]_vars PROVE LeafInv'
  OBVIOUS
<1>1. CASE TransactAny
  <2>1. PICK p \in Proof, ext \in ExtData, sender \in Accounts : Transact(p, ext, sender)
    BY <1>1, SomeTransact DEF IInv
  <2>2. Accepted(p, ext, sender) /\ TypeOK
    BY <2>1 DEF Transact, IInv
  <2>3. Len(leaves') = Len(leaves) + 2 /\ Len(leaves) \in Nat
    BY <2>1, <2>2, LeavesStay
  <2>4. ASSUME NEW n \in nullifiers', n[1][1] = "leaf" PROVE n[1][2] \in 1..Len(leaves)
    <3>1. CASE n \in nullifiers
      BY <2>4, <3>1 DEF LeafInv
    <3>2. CASE \E s \in 1..2 : p.inputNullifiers[s] = n
      <4>1. PICK s \in 1..2 : p.inputNullifiers[s] = n
        BY <3>2
      <4>2. p.witness.inputs[s] # 0 /\ n[1][2] = p.witness.inputs[s]
        BY <2>2, <2>4, <4>1, SpentIsInput
      <4> QED BY <2>2, <4>2, InputsAreLive
    <3> QED BY <2>1, <2>4, <3>1, <3>2 DEF Transact, mark_spent
  <2> QED BY <2>3, <2>4 DEF LeafInv
<1>2. CASE UNCHANGED <<tokenVars, nullifiers, treeVars>>
  BY <1>2 DEF LeafInv, treeVars
<1> QED BY <1>1, <1>2, OthersSpendNothing

\* Only existing leaves are ever spent.
LEMMA LeafInvariance == Spec => [](IInv /\ LeafInv)
<1>1. IInv /\ LeafInv /\ [Next]_vars => LeafInv'
  BY LeafStep
<1> QED BY <1>1, LeafInit, Invariance, PTL DEF Spec

-----------------------------------------------------------------------------
(* The simulation.                                                         *)

\* The live notes of the ledger that the pool stands for.
Live == {<<i, leaves[i]>> : i \in UnspentLeaves}

\* The ledger's input for the s-th input of a proof.
LedgerInput(p, s) ==
  LET i == p.witness.inputs[s]
  IN  IF i = 0 THEN Ledger!Nothing ELSE <<i, leaves[i]>>

\* The amount an input of a well-typed proof claims is an integer, and the two
\* inputs are not the same leaf.
LEMMA InputFacts ==
  ASSUME NEW p \in Proof, CircuitHolds(p)
  PROVE  /\ \A s \in 1..2 : p.witness.inputs[s] \in Nat
         /\ p.witness.inputs[1] = p.witness.inputs[2] => p.witness.inputs[1] = 0
<1>1. \A s \in 1..2 : p.witness.inputs[s] \in Nat
  BY DEF Proof, Witness
<1>2. ASSUME p.witness.inputs[1] = p.witness.inputs[2], p.witness.inputs[1] # 0 PROVE FALSE
  <2>1. InputNote(p.witness, 1) = InputNote(p.witness, 2)
    BY <1>2 DEF InputNote
  <2> HIDE DEF InputNote
  <2> QED BY <1>2, <2>1 DEF CircuitHolds, InputNullifier
<1> QED BY <1>1, <1>2

\* What an accepted call opens is worth what the ledger says it retires.
LEMMA InputWorth ==
  ASSUME IInv, NEW p \in Proof, NEW ext \in ExtData, NEW sender \in Accounts,
         Accepted(p, ext, sender), NEW s \in 1..2
  PROVE  /\ LedgerInput(p, s) \in Live \union {Ledger!Nothing}
         /\ LedgerInput(p, s) = Ledger!Nothing <=> p.witness.inputs[s] = 0
         /\ Ledger!Worth(LedgerInput(p, s)) = InputNote(p.witness, s).amount
         /\ InputNote(p.witness, s).amount \in 0..(MaxExtAmount - 1)
<1>1. TypeOK /\ CircuitHolds(p)
  BY AcceptedFacts DEF IInv, SpentInv
<1>2. PICK i \in Nat : i = p.witness.inputs[s]
  BY <1>1, InputFacts
<1>3. CASE i = 0
  <2>1. 0 \in 0..(MaxExtAmount - 1)
    BY AmountAssumption
  <2> QED BY <1>2, <1>3, <2>1 DEF LedgerInput, Ledger!Worth, InputNote
<1>4. CASE i # 0
  <2>1. i \in UnspentLeaves /\ i \in 1..Len(leaves) /\ InputNote(p.witness, s) = leaves[i]
    BY <1>2, <1>4, InputsAreLive
  <2>2. leaves[i] \in Note
    BY <1>1, <2>1 DEF TypeOK
  <2>3. leaves[i].amount \in 0..(MaxExtAmount - 1)
    BY <2>2 DEF Note
  <2>4. LedgerInput(p, s) = <<i, leaves[i]>> /\ LedgerInput(p, s) # Ledger!Nothing
    BY <1>2, <1>4 DEF LedgerInput, Ledger!Nothing
  <2> HIDE DEF InputNote
  <2> QED BY <1>2, <1>4, <2>1, <2>3, <2>4 DEF Ledger!Worth, Live
<1> QED BY <1>3, <1>4

\* An accepted call retires live notes, not the same one twice, and pays the
\* difference between what it creates and what it retires.  The circuit only
\* balances the public amount the prover chose: it is the contract's comparison
\* with the external amount that ties that to the tokens.
LEMMA Balanced ==
  ASSUME IInv, NEW p \in Proof, NEW ext \in ExtData, NEW sender \in Accounts,
         Accepted(p, ext, sender)
  PROVE  LET a == LedgerInput(p, 1)
             b == LedgerInput(p, 2)
         IN  /\ a \in Live \union {Ledger!Nothing}
             /\ b \in Live \union {Ledger!Nothing}
             /\ a = b => a = Ledger!Nothing
             /\ ext.extAmount = p.outputs[1].amount + p.outputs[2].amount
                                 - Ledger!Worth(a) - Ledger!Worth(b)
<1>1. /\ TypeOK /\ SpentInv /\ CircuitHolds(p)
      /\ ext.extAmount \in Int
  BY AcceptedFacts DEF IInv, SpentInv
<1>2. \A s \in 1..2 :
        /\ LedgerInput(p, s) \in Live \union {Ledger!Nothing}
        /\ LedgerInput(p, s) = Ledger!Nothing <=> p.witness.inputs[s] = 0
        /\ Ledger!Worth(LedgerInput(p, s)) = InputNote(p.witness, s).amount
        /\ InputNote(p.witness, s).amount \in 0..(MaxExtAmount - 1)
  BY InputWorth
<1>3. LedgerInput(p, 1) = LedgerInput(p, 2) => LedgerInput(p, 1) = Ledger!Nothing
  <2>1. SUFFICES ASSUME p.witness.inputs[1] # 0, LedgerInput(p, 1) = LedgerInput(p, 2)
                 PROVE FALSE
    BY <1>2
  <2>2. p.witness.inputs[2] # 0
    BY <1>2, <2>1
  <2>3. p.witness.inputs[1] = p.witness.inputs[2]
    BY <2>1, <2>2 DEF LedgerInput
  <2> QED BY <1>1, <2>1, <2>3, InputFacts
<1>4. PICK o1 \in 0..(MaxExtAmount - 1), o2 \in 0..(MaxExtAmount - 1) :
        o1 = p.outputs[1].amount /\ o2 = p.outputs[2].amount
  BY DEF Proof, Note
<1>5. PICK i1 \in 0..(MaxExtAmount - 1), i2 \in 0..(MaxExtAmount - 1) :
        i1 = InputNote(p.witness, 1).amount /\ i2 = InputNote(p.witness, 2).amount
  BY <1>2
<1>6. /\ Abs(ext.extAmount) < MaxExtAmount
      /\ p.publicAmount = calculate_public_amount(ext.extAmount)
  BY DEF Accepted, PublicAmountMatches
<1>7. ext.extAmount = o1 + o2 - i1 - i2
  <2>1. (i1 + i2 + calculate_public_amount(ext.extAmount)) % FieldSize = (o1 + o2) % FieldSize
    BY <1>1, <1>4, <1>5, <1>6 DEF CircuitHolds
  <2>2. Abs(ext.extAmount) <= MaxExtAmount
    BY <1>1, <1>6, AmountAssumption DEF Abs
  <2> QED BY <1>1, <2>1, <2>2, BalancedAsIntegers
<1> QED BY <1>2, <1>3, <1>4, <1>5, <1>7

\* After an accepted call the unspent leaves are the old ones without the inputs
\* and with the two new ones, which hold the outputs.
LEMMA UnspentAfter ==
  ASSUME IInv, LeafInv, NEW p \in Proof, NEW ext \in ExtData, NEW sender \in Accounts,
         Transact(p, ext, sender)
  PROVE  LET n == Len(leaves) IN
         /\ leaves \in Seq(Note) /\ n \in Nat /\ Len(leaves') = n + 2
         /\ DOMAIN leaves' = 1..(n + 2) /\ DOMAIN leaves = 1..n
         /\ \A i \in 1..n : leaves'[i] = leaves[i]
         /\ leaves'[n + 1] = p.outputs[1] /\ leaves'[n + 2] = p.outputs[2]
         /\ p.outputs[1] \in Note /\ p.outputs[2] \in Note
         /\ \A s \in 1..2 : p.witness.inputs[s] # 0 => p.witness.inputs[s] \in 1..n
         /\ UnspentLeaves' = (UnspentLeaves \ {p.witness.inputs[1], p.witness.inputs[2]})
                             \union {n + 1, n + 2}
<1> DEFINE n == Len(leaves)
<1>1. TypeOK /\ Accepted(p, ext, sender)
  BY DEF IInv, Transact
<1>2. nullifiers' = nullifiers \union {p.inputNullifiers[s] : s \in 1..2}
  BY DEF Transact, mark_spent
<1>3. /\ leaves \in Seq(Note) /\ n \in Nat /\ Len(leaves') = n + 2
      /\ DOMAIN leaves' = 1..(n + 2) /\ DOMAIN leaves = 1..n
      /\ \A i \in 1..n : leaves'[i] = leaves[i]
      /\ leaves'[n + 1] = p.outputs[1] /\ leaves'[n + 2] = p.outputs[2]
      /\ p.outputs[1] \in Note /\ p.outputs[2] \in Note
  BY <1>1, LeavesStay
<1>4. ASSUME NEW s \in 1..2, p.witness.inputs[s] # 0 PROVE p.witness.inputs[s] \in 1..n
  BY <1>1, <1>4, InputsAreLive
<1>5. PICK i1, i2 : i1 = p.witness.inputs[1] /\ i2 = p.witness.inputs[2]
  OBVIOUS
<1>6. UnspentLeaves' = (UnspentLeaves \ {i1, i2}) \union {n + 1, n + 2}
  <2>1. ASSUME NEW i \in 1..n
        PROVE  i \in UnspentLeaves' <=> i \in UnspentLeaves /\ i # i1 /\ i # i2
    <3>1. LeafWord(i)' = LeafWord(i)
      BY <1>3 DEF LeafWord
    <3>2. ASSUME NEW s \in 1..2
          PROVE  p.inputNullifiers[s] = LeafWord(i) <=> p.witness.inputs[s] = i
      <4>1. ASSUME p.inputNullifiers[s] = LeafWord(i) PROVE p.witness.inputs[s] = i
        <5>1. p.inputNullifiers[s][1][1] = "leaf" /\ p.inputNullifiers[s][1][2] = i
          BY <4>1 DEF LeafWord
        <5> QED BY <1>1, <5>1, SpentIsInput
      <4>2. ASSUME p.witness.inputs[s] = i PROVE p.inputNullifiers[s] = LeafWord(i)
        <5>1. i # 0 /\ i = p.witness.inputs[s]
          BY <4>2
        <5> QED BY <1>1, <5>1, InputsAreLive
      <4> QED BY <4>1, <4>2
    <3>3. LeafWord(i)' \in nullifiers' <=> LeafWord(i) \in nullifiers \/ i1 = i \/ i2 = i
      BY <1>2, <1>5, <3>1, <3>2
    <3> QED BY <1>3, <3>3 DEF UnspentLeaves, is_spent
  <2>2. ASSUME NEW i \in {n + 1, n + 2} PROVE i \in UnspentLeaves'
    <3>1. i \notin 1..n /\ i \in 1..(n + 2)
      BY <1>3
    <3>2. LeafWord(i)'[1][1] = "leaf" /\ LeafWord(i)'[1][2] = i
      BY DEF LeafWord
    <3>3. LeafWord(i)' \notin nullifiers
      BY <3>1, <3>2 DEF LeafInv
    <3>4. ASSUME NEW s \in 1..2 PROVE p.inputNullifiers[s] # LeafWord(i)'
      <4>1. SUFFICES ASSUME p.inputNullifiers[s] = LeafWord(i)' PROVE FALSE
        OBVIOUS
      <4>2. p.inputNullifiers[s][1][1] = "leaf" /\ p.inputNullifiers[s][1][2] = i
        BY <3>2, <4>1
      <4>3. p.witness.inputs[s] # 0 /\ p.witness.inputs[s] = i
        BY <1>1, <4>2, SpentIsInput
      <4> QED BY <1>4, <3>1, <4>3
    <3>5. LeafWord(i)' \notin nullifiers'
      BY <1>2, <3>3, <3>4
    <3> QED BY <1>3, <3>1, <3>5 DEF UnspentLeaves, is_spent
  <2>3. UnspentLeaves \subseteq 1..n /\ UnspentLeaves' \subseteq 1..(n + 2)
    BY <1>3 DEF UnspentLeaves
  <2>4. 1..(n + 2) = (1..n) \union {n + 1, n + 2} /\ n + 1 \notin 1..n /\ n + 2 \notin 1..n
    BY <1>3
  <2> HIDE DEF n
  <2> QED BY <2>1, <2>2, <2>3, <2>4
<1> QED BY <1>3, <1>4, <1>5, <1>6

\* After an accepted call the live notes are the old ones without the inputs
\* and with the two outputs.
LEMMA LiveAfter ==
  ASSUME IInv, LeafInv, NEW p \in Proof, NEW ext \in ExtData, NEW sender \in Accounts,
         Transact(p, ext, sender)
  PROVE  Live' = (Live \ {LedgerInput(p, 1), LedgerInput(p, 2)})
                 \union {<<Len(leaves) + 1, p.outputs[1]>>, <<Len(leaves) + 2, p.outputs[2]>>}
<1> DEFINE n == Len(leaves)
<1>1. n \in Nat /\ leaves \in Seq(Note)
  BY UnspentAfter
<1>3. /\ DOMAIN leaves = 1..n
      /\ \A i \in 1..n : leaves'[i] = leaves[i]
      /\ leaves'[n + 1] = p.outputs[1] /\ leaves'[n + 2] = p.outputs[2]
  BY UnspentAfter
<1>5. PICK i1, i2 : i1 = p.witness.inputs[1] /\ i2 = p.witness.inputs[2]
  OBVIOUS
<1>6. UnspentLeaves' = (UnspentLeaves \ {i1, i2}) \union {n + 1, n + 2}
  BY <1>5, UnspentAfter
<1>7. /\ UnspentLeaves \subseteq 1..n
      /\ LedgerInput(p, 1) = IF i1 = 0 THEN <<0, 0>> ELSE <<i1, leaves[i1]>>
      /\ LedgerInput(p, 2) = IF i2 = 0 THEN <<0, 0>> ELSE <<i2, leaves[i2]>>
  BY <1>3, <1>5 DEF UnspentLeaves, LedgerInput, Ledger!Nothing
<1>8. Live' = {<<i, leaves'[i]>> : i \in UnspentLeaves'}
  BY DEF Live
<1>9. ASSUME NEW i \in UnspentLeaves
      PROVE  /\ <<i, leaves[i]>> = LedgerInput(p, 1) <=> i = i1
             /\ <<i, leaves[i]>> = LedgerInput(p, 2) <=> i = i2
  BY <1>1, <1>7, <1>9
<1> HIDE DEF n
<1> QED
  <2>1. Live \ {LedgerInput(p, 1), LedgerInput(p, 2)}
          = {<<i, leaves[i]>> : i \in UnspentLeaves \ {i1, i2}}
    BY <1>9 DEF Live
  <2>2. Live' = {<<i, leaves[i]>> : i \in UnspentLeaves \ {i1, i2}}
                \union {<<n + 1, p.outputs[1]>>, <<n + 2, p.outputs[2]>>}
    <3> DEFINE U == UnspentLeaves \ {i1, i2}
    <3>1. \A i \in U : leaves'[i] = leaves[i]
      BY <1>3, <1>7
    <3>2. Live' = {<<i, leaves'[i]>> : i \in U \union {n + 1, n + 2}}
      BY <1>6, <1>8
    <3> HIDE DEF U
    <3>3. {<<i, leaves'[i]>> : i \in U \union {n + 1, n + 2}}
            = {<<i, leaves'[i]>> : i \in U}
              \union {<<n + 1, leaves'[n + 1]>>, <<n + 2, leaves'[n + 2]>>}
      OBVIOUS
    <3>4. {<<i, leaves'[i]>> : i \in U} = {<<i, leaves[i]>> : i \in U}
      BY <3>1
    <3>5. Live' = {<<i, leaves[i]>> : i \in U}
                  \union {<<n + 1, p.outputs[1]>>, <<n + 2, p.outputs[2]>>}
      BY <1>3, <3>2, <3>3, <3>4
    <3> QED BY <3>5 DEF U
  <2> QED BY <2>1, <2>2 DEF n

\* An accepted call is a step of the ledger.
LEMMA TransactSettles ==
  ASSUME IInv, LeafInv, NEW p \in Proof, NEW ext \in ExtData, NEW sender \in Accounts,
         Transact(p, ext, sender)
  PROVE  Ledger!Next
<1> DEFINE a == LedgerInput(p, 1)
           b == LedgerInput(p, 2)
           e == ext.extAmount
           account == IF e > 0 THEN sender ELSE ext.recipient
<1>1. TypeOK /\ Accepted(p, ext, sender)
  BY DEF IInv, Transact
<1>2. /\ e \in Int /\ account \in Accounts
      /\ e > 0 => balance[sender] >= e
      /\ e < 0 => poolBalance >= -e
  BY <1>1, AcceptedFacts
<1>3. p.outputs[1] \in Note /\ p.outputs[2] \in Note
  BY DEF Proof
<1>4. /\ a \in Live \union {Ledger!Nothing} /\ b \in Live \union {Ledger!Nothing}
      /\ a = b => a = Ledger!Nothing
      /\ e = p.outputs[1].amount + p.outputs[2].amount - Ledger!Worth(a) - Ledger!Worth(b)
  BY <1>1, Balanced
<1>5. /\ poolBalance' = poolBalance + e
      /\ balance' = [balance EXCEPT ![account] = @ - e]
      /\ poolBalance \in Nat /\ balance[account] \in Nat
  BY <1>1, <1>2 DEF Transact, MoveTokens, TypeOK
<1>6. poolBalance' >= 0 /\ balance[account] >= e
  BY <1>2, <1>5
<1>7. Live' = (Live \ {a, b}) \union {<<Len(leaves) + 1, p.outputs[1]>>,
                                      <<Len(leaves) + 2, p.outputs[2]>>}
  BY LiveAfter
<1>8. Len(leaves') = Len(leaves) + 2
  BY <1>1, LeavesStay
<1> HIDE DEF a, b, e, account
<1>9. Ledger!Settle(a, b, p.outputs[1], p.outputs[2], account)
  BY <1>4, <1>5, <1>6, <1>7 DEF Ledger!Settle, Live
<1> QED BY <1>2, <1>3, <1>4, <1>8, <1>9 DEF Ledger!Next, Live

\* The pool contract implements the abstract ledger: for every number of
\* accounts, keys and contracts, every tree depth and ring length, and every
\* schedule of proofs and calls.
THEOREM PoolImplementsLedger == Spec => ImplementsLedger
<1>1. Init => Ledger!Init
  BY DEF Init, Ledger!Init, UnspentLeaves
<1>2. ASSUME IInv, LeafInv, [Next]_vars PROVE [Ledger!Next]_(Ledger!vars)
  <2>1. CASE TransactAny
    <3>1. PICK p \in Proof, ext \in ExtData, sender \in Accounts : Transact(p, ext, sender)
      BY <1>2, <2>1, SomeTransact DEF IInv
    <3>2. Ledger!Next
      BY <1>2, <3>1, TransactSettles
    <3> QED BY <3>2
  <2>2. CASE UNCHANGED <<tokenVars, nullifiers, treeVars>>
    BY <2>2 DEF Ledger!vars, tokenVars, treeVars, UnspentLeaves, is_spent, LeafWord
  <2> QED BY <1>2, <2>1, <2>2, OthersSpendNothing
<1> QED BY <1>1, <1>2, LeafInvariance, PTL DEF Spec, ImplementsLedger, Ledger!Spec

-----------------------------------------------------------------------------
(* Solvency: the pool's tokens are exactly what its unspent notes are      *)
(* worth, and so no fresh proof is ever turned away.                       *)

(* Sums.                                                                   *)

\* Every set of natural numbers that is not empty has a least element.
LEMMA Least ==
  ASSUME NEW T, T \subseteq Nat, T # {}
  PROVE  \E x \in T : \A y \in T : x <= y
<1> DEFINE R == OpToRel(<, Nat)
<1>1. IsWellFoundedOn(R, Nat)
  BY NatLessThanWellFounded, Zenon
<1>2. \A x, y \in Nat : y < x => <<y, x>> \in R
  BY DEF OpToRel
<1> HIDE DEF R
<1>3. PICK x \in T : \A y \in T : ~ (<<y, x>> \in R)
  BY <1>1, WFMin
<1>4. ASSUME NEW y \in T PROVE x <= y
  <2>1. x \in Nat /\ y \in Nat /\ ~ (<<y, x>> \in R)
    BY <1>3
  <2>2. ~ (y < x)
    BY <1>2, <2>1
  <2> QED
    BY <2>1, <2>2
<1> QED
  BY <1>4

\* The g of the partial sums of w up to n.
Sums(g, w, n) ==
  /\ g \in [0..n -> Int]
  /\ g[0] = 0
  /\ \A k \in 1..n : g[k] = g[k - 1] + w[k]

\* Partial sums exist up to every n.
LEMMA SumsExist ==
  ASSUME NEW w \in [Nat -> Int], NEW n \in Nat
  PROVE  \E g : Sums(g, w, n)
<1> DEFINE T == {m \in Nat : ~ (\E g : Sums(g, w, m))}
<1> SUFFICES ASSUME T # {} PROVE FALSE
  OBVIOUS
<1>1. PICK m \in T : \A y \in T : m <= y
  BY Least
<1>2. CASE m = 0
  <2>1. Sums([k \in 0..0 |-> 0], w, 0)
    BY DEF Sums
  <2> QED
    BY <1>1, <1>2, <2>1
<1>3. CASE m # 0
  <2>1. m \in Nat /\ m - 1 \in Nat /\ m - 1 \notin T
    BY <1>1, <1>3
  <2>2. PICK g : Sums(g, w, m - 1)
    BY <2>1
  <2> DEFINE h == [k \in 0..m |-> IF k = m THEN g[m - 1] + w[m] ELSE g[k]]
  <2>3. h \in [0..m -> Int] /\ h[0] = 0
    BY <1>3, <2>1, <2>2 DEF Sums
  <2>4. ASSUME NEW k \in 1..m PROVE h[k] = h[k - 1] + w[k]
    <3>1. k \in 0..m /\ k - 1 \in 0..m /\ k - 1 # m
      BY <2>1
    <3>2. h[k - 1] = g[k - 1]
      BY <3>1
    <3>3. CASE k = m
      BY <3>1, <3>2, <3>3
    <3>4. CASE k # m
      <4>1. k \in 1..(m - 1)
        BY <2>1, <3>4
      <4>2. g[k] = g[k - 1] + w[k]
        BY <2>2, <4>1 DEF Sums
      <4> QED
        BY <3>1, <3>2, <3>4, <4>2
    <3> QED
      BY <3>3, <3>4
  <2>5. Sums(h, w, m)
    BY <2>3, <2>4 DEF Sums
  <2> QED
    BY <1>1, <2>5
<1> QED
  BY <1>2, <1>3

\* Partial sums agree where both are defined.
LEMMA SumsAgree ==
  ASSUME NEW w \in [Nat -> Int], NEW n \in Nat, NEW m \in Nat, n <= m,
         NEW g, NEW h, Sums(g, w, n), Sums(h, w, m)
  PROVE  \A k \in 0..n : g[k] = h[k]
<1> DEFINE T == {k \in 0..n : g[k] # h[k]}
<1> SUFFICES ASSUME T # {} PROVE FALSE
  OBVIOUS
<1>1. T \subseteq Nat
  OBVIOUS
<1>2. PICK k \in T : \A y \in T : k <= y
  BY <1>1, Least
<1>3. k # 0
  BY <1>2 DEF Sums
<1>4. k - 1 \in 0..n /\ k \in 1..n /\ k \in 1..m /\ k - 1 \notin T
  BY <1>2, <1>3
<1>5. g[k - 1] = h[k - 1]
  BY <1>4
<1>6. g[k] = g[k - 1] + w[k] /\ h[k] = h[k - 1] + w[k]
  BY <1>4 DEF Sums
<1> QED
  BY <1>2, <1>5, <1>6

\* What Total computes.
LEMMA TotalIsSum ==
  ASSUME NEW w \in [Nat -> Int]
  PROVE  /\ Total(w, 0) = 0
         /\ \A n \in Nat : Total(w, n) \in Int /\ Total(w, n + 1) = Total(w, n) + w[n + 1]
<1> DEFINE G(n) == CHOOSE g : Sums(g, w, n)
           F == [n \in Nat |-> G(n)[n]]
           sum == CHOOSE f : f = [k \in Nat |-> IF k = 0 THEN 0 ELSE f[k - 1] + w[k]]
<1>1. \A n \in Nat : Sums(G(n), w, n)
  BY SumsExist
<1> HIDE DEF G
<1>2. F[0] = 0 /\ \A n \in Nat : F[n] \in Int
  BY <1>1 DEF Sums
<1>3. ASSUME NEW n \in Nat \ {0} PROVE F[n] = F[n - 1] + w[n]
  <2>1. Sums(G(n - 1), w, n - 1) /\ Sums(G(n), w, n) /\ n - 1 \in Nat
    BY <1>1
  <2>2. G(n - 1)[n - 1] = G(n)[n - 1]
    BY <2>1, SumsAgree
  <2>3. G(n)[n] = G(n)[n - 1] + w[n]
    BY <2>1 DEF Sums
  <2> QED
    BY <2>1, <2>2, <2>3
<1> HIDE DEF F
<1>4. F = [n \in Nat |-> F[n]]
  BY DEF F
<1>5. F = [k \in Nat |-> IF k = 0 THEN 0 ELSE F[k - 1] + w[k]]
  BY <1>2, <1>3, <1>4
<1>6. sum = [k \in Nat |-> IF k = 0 THEN 0 ELSE sum[k - 1] + w[k]]
  BY <1>5, Zenon
<1>7. \A n : Total(w, n) = sum[n]
  BY DEF Total
<1> HIDE DEF sum
<1>8. sum[0] = 0 /\ \A n \in Nat : sum[n + 1] = sum[n] + w[n + 1]
  BY <1>6
<1>9. \A n \in Nat : sum[n] = F[n]
  <2> DEFINE T == {n \in Nat : sum[n] # F[n]}
  <2> SUFFICES ASSUME T # {} PROVE FALSE
    OBVIOUS
  <2>1. PICK n \in T : \A y \in T : n <= y
    BY Least
  <2>2. n # 0
    BY <1>2, <1>8, <2>1
  <2>3. n - 1 \in Nat /\ n - 1 \notin T /\ n \in Nat \ {0} /\ (n - 1) + 1 = n
    BY <2>1, <2>2
  <2> QED
    BY <1>3, <1>8, <2>1, <2>3
<1> QED
  BY <1>2, <1>7, <1>8, <1>9

\* The sum depends on the summands only.
LEMMA TotalSame ==
  ASSUME NEW w \in [Nat -> Int], NEW v \in [Nat -> Int], NEW n \in Nat,
         \A k \in 1..n : v[k] = w[k]
  PROVE  Total(v, n) = Total(w, n)
<1> DEFINE T == {m \in 0..n : Total(v, m) # Total(w, m)}
<1> SUFFICES ASSUME T # {} PROVE FALSE
  OBVIOUS
<1>1. T \subseteq Nat
  OBVIOUS
<1>2. PICK m \in T : \A y \in T : m <= y
  BY <1>1, Least
<1>3. m # 0
  BY <1>2, TotalIsSum
<1>4. m - 1 \in Nat /\ m - 1 \in 0..n /\ m - 1 \notin T /\ m \in 1..n /\ (m - 1) + 1 = m
  BY <1>2, <1>3
<1>5. Total(v, m - 1) = Total(w, m - 1)
  BY <1>4
<1>6. Total(v, m) = Total(v, m - 1) + v[m] /\ Total(w, m) = Total(w, m - 1) + w[m]
  BY <1>4, TotalIsSum
<1> QED
  BY <1>2, <1>4, <1>5, <1>6

\* Changing one summand changes the sum by as much.
LEMMA TotalChange ==
  ASSUME NEW w \in [Nat -> Int], NEW v \in [Nat -> Int], NEW n \in Nat, NEW i \in 1..n,
         \A k \in 1..n : k # i => v[k] = w[k]
  PROVE  Total(v, n) = Total(w, n) - w[i] + v[i]
<1> DEFINE T == {m \in i..n : Total(v, m) # Total(w, m) - w[i] + v[i]}
<1>0. SUFFICES ASSUME T # {} PROVE FALSE
  <2>1. n \in i..n /\ n \notin T
    BY <1>0
  <2> QED
    BY <2>1
<1>1. i \in Nat /\ v[i] \in Int
  OBVIOUS
<1>2. T \subseteq Nat
  BY <1>1
<1>3. PICK m \in T : \A y \in T : m <= y
  BY <1>0, <1>2, Least
<1>4. /\ m \in Nat /\ m - 1 \in Nat /\ (m - 1) + 1 = m /\ m \in i..n
      /\ Total(v, m - 1) \in Int /\ Total(w, m - 1) \in Int /\ w[i] \in Int
  BY <1>1, <1>3, TotalIsSum
<1>5. Total(v, m) = Total(v, m - 1) + v[m] /\ Total(w, m) = Total(w, m - 1) + w[m]
  BY <1>1, <1>4, TotalIsSum
<1>6. CASE m = i
  <2>1. Total(v, m - 1) = Total(w, m - 1)
    <3>1. \A k \in 1..(m - 1) : k # i /\ k \in 1..n
      BY <1>1, <1>4, <1>6
    <3> QED
      BY <1>4, <3>1, TotalSame
  <2>2. Total(v, m) = Total(w, m) - w[i] + v[i]
    BY <1>1, <1>4, <1>5, <1>6, <2>1
  <2> QED
    BY <1>3, <2>2
<1>7. CASE m # i
  <2>1. m - 1 \in i..n /\ m - 1 \notin T
    BY <1>3, <1>4, <1>7
  <2>2. Total(v, m - 1) = Total(w, m - 1) - w[i] + v[i]
    BY <2>1
  <2>3. v[m] = w[m] /\ w[m] \in Int
    <3>1. m \in 1..n
      BY <1>1, <1>4
    <3> QED
      BY <1>4, <1>7, <3>1
  <2>4. Total(v, m) = Total(w, m) - w[i] + v[i]
    BY <1>4, <1>5, <2>2, <2>3
  <2> QED
    BY <1>3, <2>4
<1> QED
  BY <1>6, <1>7

\* A sum of nothing negative is not negative.
LEMMA TotalNotNegative ==
  ASSUME NEW w \in [Nat -> Int], NEW n \in Nat, \A k \in 1..n : w[k] >= 0
  PROVE  Total(w, n) >= 0
<1> DEFINE T == {m \in 0..n : ~ (Total(w, m) >= 0)}
<1> SUFFICES ASSUME T # {} PROVE FALSE
  BY TotalIsSum
<1>1. T \subseteq Nat
  OBVIOUS
<1>2. PICK m \in T : \A y \in T : m <= y
  BY <1>1, Least
<1>3. m # 0
  BY <1>2, TotalIsSum
<1>4. m - 1 \in Nat /\ m - 1 \in 0..n /\ m - 1 \notin T /\ m \in 1..n /\ (m - 1) + 1 = m
  BY <1>2, <1>3
<1>5. Total(w, m - 1) >= 0
  BY <1>4
<1>6. Total(w, m) = Total(w, m - 1) + w[m] /\ Total(w, m - 1) \in Int /\ w[m] \in Int
  BY <1>4, TotalIsSum
<1> QED
  BY <1>2, <1>4, <1>5, <1>6

\* Clearing two summands, where 0 stands for no summand.
LEMMA TotalCleared ==
  ASSUME NEW w \in [Nat -> Int], NEW v \in [Nat -> Int], NEW n \in Nat,
         NEW i \in 0..n, NEW j \in 0..n, w[0] = 0, i = j => i = 0,
         \A k \in 1..n : v[k] = IF k = i \/ k = j THEN 0 ELSE w[k]
  PROVE  Total(v, n) = Total(w, n) - w[i] - w[j]
<1>1. /\ Total(w, n) \in Int /\ w[i] \in Int /\ w[j] \in Int
  BY TotalIsSum
<1>2. PICK u : u = [k \in Nat |-> IF k = i THEN 0 ELSE w[k]]
  OBVIOUS
<1>3. u \in [Nat -> Int] /\ \A k \in Nat : u[k] = IF k = i THEN 0 ELSE w[k]
  BY <1>2
<1>4. Total(u, n) = Total(w, n) - w[i]
  <2>1. CASE i = 0
    <3>1. Total(u, n) = Total(w, n)
      BY <1>3, <2>1, TotalSame
    <3> QED
      BY <1>1, <2>1, <3>1
  <2>2. CASE i # 0
    <3>1. i \in 1..n /\ u[i] = 0
      BY <1>3, <2>2
    <3>2. \A k \in 1..n : k # i => u[k] = w[k]
      BY <1>3
    <3>3. Total(u, n) = Total(w, n) - w[i] + u[i]
      BY <1>3, <3>1, <3>2, TotalChange
    <3> QED
      BY <1>1, <3>1, <3>3
  <2> QED
    BY <2>1, <2>2
<1>5. Total(v, n) = Total(u, n) - w[j]
  <2>1. CASE j = 0
    <3>1. Total(v, n) = Total(u, n)
      BY <1>3, <2>1, TotalSame
    <3> QED
      BY <1>1, <1>4, <2>1, <3>1
  <2>2. CASE j # 0
    <3>1. j \in 1..n /\ u[j] = w[j] /\ v[j] = 0
      BY <1>3, <2>2
    <3>2. \A k \in 1..n : k # j => v[k] = u[k]
      BY <1>3
    <3>3. Total(v, n) = Total(u, n) - u[j] + v[j]
      BY <1>3, <3>1, <3>2, TotalChange
    <3> QED
      BY <1>1, <1>4, <3>1, <3>3
  <2> QED
    BY <2>1, <2>2
<1> QED
  BY <1>1, <1>4, <1>5

-----------------------------------------------------------------------------
(* Solvency.                                                               *)

\* Every leaf is worth a natural number.
LEMMA WorthsType ==
  ASSUME TypeOK
  PROVE  /\ Worths \in [Nat -> Int] /\ Worths[0] = 0 /\ \A k \in Nat : Worths[k] >= 0
         /\ \A k \in Nat : Worths[k] = IF k \in UnspentLeaves THEN leaves[k].amount ELSE 0
         /\ UnspentLeaves \subseteq 1..Len(leaves)
<1>1. UnspentLeaves \subseteq 1..Len(leaves)
  BY DEF UnspentLeaves, TypeOK
<1>2. \A k \in UnspentLeaves : leaves[k].amount \in Nat
  <2>1. \A k \in UnspentLeaves : leaves[k] \in Note
    BY <1>1 DEF TypeOK
  <2> QED
    BY <2>1, AmountAssumption DEF Note
<1>3. 0 \notin UnspentLeaves
  BY <1>1 DEF TypeOK
<1> QED
  BY <1>1, <1>2, <1>3 DEF Worths

\* An accepted call keeps the value of the unspent leaves equal to the balance.
LEMMA SolvencyStep ==
  ASSUME IInv, LeafInv, Solvency, NEW p \in Proof, NEW ext \in ExtData, NEW sender \in Accounts,
         Transact(p, ext, sender)
  PROVE  Solvency'
<1>1. TypeOK /\ Accepted(p, ext, sender) /\ CircuitHolds(p) /\ ext.extAmount \in Int
  <2>1. TypeOK /\ Accepted(p, ext, sender) /\ SpentInv
    BY DEF IInv, Transact
  <2> QED
    BY <2>1, AcceptedFacts DEF SpentInv
<1>2. PICK n \in Nat, i \in Nat, j \in Nat :
        n = Len(leaves) /\ i = p.witness.inputs[1] /\ j = p.witness.inputs[2]
  <2>1. Len(leaves) \in Nat
    BY <1>1 DEF TypeOK
  <2> QED
    BY <1>1, <2>1, InputFacts
<1>3. PICK w, v : w = Worths /\ v = Worths'
  OBVIOUS
<1>4. TypeOK'
  BY <1>1, TransactType
<1>5. /\ Len(leaves') = n + 2 /\ DOMAIN leaves = 1..n
      /\ \A k \in 1..n : leaves'[k] = leaves[k]
      /\ leaves'[n + 1] = p.outputs[1] /\ leaves'[n + 2] = p.outputs[2]
      /\ i \in 0..n /\ j \in 0..n
      /\ UnspentLeaves' = (UnspentLeaves \ {i, j}) \union {n + 1, n + 2}
      /\ UnspentLeaves \subseteq 1..n
  <2>1. /\ Len(leaves') = n + 2 /\ DOMAIN leaves = 1..n
        /\ \A k \in 1..n : leaves'[k] = leaves[k]
        /\ leaves'[n + 1] = p.outputs[1] /\ leaves'[n + 2] = p.outputs[2]
        /\ \A s \in 1..2 : p.witness.inputs[s] # 0 => p.witness.inputs[s] \in 1..n
        /\ UnspentLeaves' = (UnspentLeaves \ {i, j}) \union {n + 1, n + 2}
    BY <1>2, UnspentAfter
  <2>2. i \in 0..n /\ j \in 0..n
    BY <1>2, <2>1
  <2>3. UnspentLeaves \subseteq 1..n
    BY <2>1 DEF UnspentLeaves
  <2> QED
    BY <2>1, <2>2, <2>3
<1>6. /\ w \in [Nat -> Int] /\ w[0] = 0 /\ \A k \in Nat : w[k] >= 0
      /\ \A k \in Nat : w[k] = IF k \in UnspentLeaves THEN leaves[k].amount ELSE 0
  BY <1>1, <1>3, WorthsType
<1>7. /\ v \in [Nat -> Int]
      /\ \A k \in Nat : v[k] = IF k \in UnspentLeaves' THEN leaves'[k].amount ELSE 0
  <2>1. v = [k \in Nat |-> IF k \in UnspentLeaves' THEN leaves'[k].amount ELSE 0]
    BY <1>3 DEF Worths
  <2>2. UnspentLeaves' \subseteq 1..(n + 2) /\ leaves' \in Seq(Note) /\ Len(leaves') = n + 2
    <3>1. leaves' \in Seq(Note) /\ Len(leaves') = n + 2
      BY <1>4, <1>5 DEF TypeOK
    <3>2. DOMAIN leaves' = 1..(n + 2)
      BY <3>1
    <3> QED
      BY <3>1, <3>2 DEF UnspentLeaves
  <2>3. ASSUME NEW k \in UnspentLeaves' PROVE leaves'[k] \in Note
    <3>1. k \in 1..(n + 2) /\ leaves' \in Seq(Note) /\ Len(leaves') = n + 2
      BY <2>2
    <3>2. \A ls \in Seq(Note) : \A m \in 1..Len(ls) : ls[m] \in Note
      OBVIOUS
    <3> QED
      BY <3>1, <3>2
  <2>4. ASSUME NEW k \in UnspentLeaves' PROVE leaves'[k].amount \in Int
    BY <2>3, AmountAssumption DEF Note
  <2> QED
    BY <2>1, <2>4
<1>8. ASSUME NEW k \in 1..n PROVE v[k] = IF k = i \/ k = j THEN 0 ELSE w[k]
  <2>1. k \in Nat /\ k # n + 1 /\ k # n + 2 /\ leaves'[k] = leaves[k]
    BY <1>5
  <2>2. k \in UnspentLeaves' <=> k \in UnspentLeaves /\ k # i /\ k # j
    BY <1>5, <2>1
  <2>3. v[k] = IF k \in UnspentLeaves' THEN leaves'[k].amount ELSE 0
    BY <1>7, <2>1
  <2>4. w[k] = IF k \in UnspentLeaves THEN leaves[k].amount ELSE 0
    BY <1>6, <2>1
  <2> QED
    BY <2>1, <2>2, <2>3, <2>4
<1>9. v[n + 1] = p.outputs[1].amount /\ v[n + 2] = p.outputs[2].amount
  BY <1>5, <1>7
<1>10. Ledger!Worth(LedgerInput(p, 1)) = w[i] /\ Ledger!Worth(LedgerInput(p, 2)) = w[j]
       /\ (i = j => i = 0)
  <2>1. ASSUME NEW s \in 1..2, NEW k \in Nat, k = p.witness.inputs[s]
        PROVE  Ledger!Worth(LedgerInput(p, s)) = w[k]
    <3>1. CASE k = 0
      BY <1>6, <2>1, <3>1 DEF LedgerInput, Ledger!Worth
    <3>2. CASE k # 0
      <4>1. k \in UnspentLeaves
        BY <1>1, <2>1, <3>2, InputsAreLive
      <4>2. LedgerInput(p, s) = <<k, leaves[k]>> /\ LedgerInput(p, s) # Ledger!Nothing
        BY <2>1, <3>2 DEF LedgerInput, Ledger!Nothing
      <4> QED
        BY <1>6, <4>1, <4>2 DEF Ledger!Worth
    <3> QED
      BY <3>1, <3>2
  <2>2. i = j => i = 0
    BY <1>1, <1>2, InputFacts
  <2> QED
    BY <1>2, <2>1, <2>2
<1>11. ext.extAmount = p.outputs[1].amount + p.outputs[2].amount - w[i] - w[j]
  BY <1>1, <1>10, Balanced
<1>12. Total(v, n) = Total(w, n) - w[i] - w[j]
  <2>1. i \in 0..n /\ j \in 0..n /\ w \in [Nat -> Int] /\ v \in [Nat -> Int] /\ w[0] = 0
        /\ (i = j => i = 0)
    BY <1>5, <1>6, <1>7, <1>10
  <2> QED
    BY <1>8, <2>1, TotalCleared
<1>13. /\ Total(v, n + 1) = Total(v, n) + v[n + 1] /\ Total(w, n) \in Int
       /\ Total(v, n + 2) = Total(v, n + 1) + v[n + 2]
       /\ w[i] \in Int /\ w[j] \in Int /\ v[n + 1] \in Int /\ v[n + 2] \in Int
  <2>1. (n + 1) + 1 = n + 2 /\ n + 1 \in Nat
    OBVIOUS
  <2> QED
    BY <1>6, <1>7, <2>1, TotalIsSum
<1>14. poolBalance' = poolBalance + ext.extAmount /\ poolBalance = Total(w, n)
  BY <1>2, <1>3 DEF Transact, MoveTokens, Solvency, UnspentValue
<1>15. poolBalance' = Total(v, n + 2)
  BY <1>9, <1>11, <1>12, <1>13, <1>14
<1> QED
  BY <1>3, <1>5, <1>15 DEF Solvency, UnspentValue

\* The pool is solvent at the start and after every step.
LEMMA SolvencyInvariance == Spec => [](IInv /\ LeafInv /\ Solvency)
<1>1. Init => Solvency
  <2> SUFFICES ASSUME Init PROVE Solvency
    OBVIOUS
  <2>1. TypeOK
    BY InitInv DEF IInv
  <2>2. Total(Worths, 0) = 0
    BY <2>1, WorthsType, TotalIsSum
  <2> QED
    BY <2>2 DEF Init, Solvency, UnspentValue
<1>2. ASSUME IInv, LeafInv, Solvency, [Next]_vars PROVE Solvency'
  <2>1. CASE TransactAny
    <3>1. PICK p \in Proof, ext \in ExtData, sender \in Accounts : Transact(p, ext, sender)
      BY <1>2, <2>1, SomeTransact DEF IInv
    <3> QED
      BY <1>2, <3>1, SolvencyStep
  <2>2. CASE UNCHANGED <<tokenVars, nullifiers, treeVars>>
    BY <1>2, <2>2 DEF Solvency, UnspentValue, Worths, UnspentLeaves, LeafWord, is_spent,
                      tokenVars, treeVars
  <2> QED
    BY <1>2, <2>1, <2>2, OthersSpendNothing
<1> QED
  BY <1>1, <1>2, LeafInvariance, PTL DEF Spec

\* The tokens in the pool are what the unspent notes are worth, for every number
\* of notes, accounts, keys and calls.
THEOREM PoolIsSolvent == Spec => []Solvency
BY SolvencyInvariance, PTL

-----------------------------------------------------------------------------
(* The token's supply.                                                     *)

Holders == Cardinality(Accounts)

\* The accounts in some order.
Roster == CHOOSE g : g \in Bijection(1..Holders, Accounts)

\* What the accounts hold, in that order.
Funds == [k \in Nat |-> IF k \in 1..Holders THEN balance[Roster[k]] ELSE 0]

\* Tokens move between the pool and the accounts, and there are no others.
SupplyInv == poolBalance + Total(Funds, Holders) = Holders * InitialFunds

\* The roster names every account once.
LEMMA RosterNames ==
  /\ Holders \in Nat
  /\ \A k \in 1..Holders : Roster[k] \in Accounts
  /\ \A a \in Accounts : \E k \in 1..Holders : Roster[k] = a
  /\ \A j, k \in 1..Holders : Roster[j] = Roster[k] => j = k
<1>1. Holders \in Nat /\ ExistsBijection(1..Holders, Accounts)
  BY FS_CardinalityType, SupplyAssumption DEF Holders
<1>2. \E g : g \in Bijection(1..Holders, Accounts)
  BY <1>1, Zenon DEF ExistsBijection
<1>3. Roster \in Bijection(1..Holders, Accounts)
  BY <1>2, Zenon DEF Roster
<1> QED
  BY <1>1, <1>3 DEF Bijection, Injection, Surjection, IsInjective

\* The sum of equal summands.
LEMMA TotalOfEqual ==
  ASSUME NEW w \in [Nat -> Int], NEW n \in Nat, NEW x \in Nat, \A k \in 1..n : w[k] = x
  PROVE  Total(w, n) = n * x
<1> DEFINE T == {m \in 0..n : Total(w, m) # m * x}
<1>0. SUFFICES ASSUME T # {} PROVE FALSE
  <2>1. n \in 0..n /\ n \notin T
    BY <1>0
  <2> QED
    BY <2>1
<1>1. T \subseteq Nat
  OBVIOUS
<1>2. PICK m \in T : \A y \in T : m <= y
  BY <1>0, <1>1, Least
<1>3. m # 0
  BY <1>2, TotalIsSum
<1>4. m - 1 \in Nat /\ m - 1 \in 0..n /\ m - 1 \notin T /\ m \in 1..n /\ (m - 1) + 1 = m
  BY <1>2, <1>3
<1>5. Total(w, m - 1) = (m - 1) * x
  BY <1>4
<1>6. Total(w, m) = Total(w, m - 1) + x
  BY <1>4, TotalIsSum
<1>7. (m - 1) * x + x = m * x
  BY <1>4
<1> QED
  BY <1>2, <1>5, <1>6, <1>7

\* The accounts' funds are natural numbers.
LEMMA FundsType ==
  ASSUME TypeOK
  PROVE  /\ Funds \in [Nat -> Int] /\ \A k \in Nat : Funds[k] >= 0
         /\ \A k \in 1..Holders : Funds[k] = balance[Roster[k]]
BY RosterNames DEF Funds, TypeOK

\* No account, and not the pool, holds more than the supply, which fits i128.
LEMMA SupplyBounds ==
  ASSUME TypeOK, SupplyInv
  PROVE  poolBalance <= I128Max /\ \A a \in Accounts : balance[a] <= I128Max
<1>1. /\ Funds \in [Nat -> Int] /\ Holders \in Nat /\ Total(Funds, Holders) \in Int
      /\ \A k \in Nat : Funds[k] >= 0
  BY FundsType, RosterNames, TotalIsSum
<1>2. Total(Funds, Holders) >= 0
  BY <1>1, TotalNotNegative
<1>3. /\ Holders * InitialFunds <= I128Max /\ poolBalance \in Nat /\ I128Max \in Nat
      /\ Holders * InitialFunds \in Int
      /\ poolBalance + Total(Funds, Holders) = Holders * InitialFunds
  BY <1>1, SupplyAssumption, AmountAssumption DEF Holders, TypeOK, SupplyInv
<1>4. poolBalance <= I128Max
  BY <1>1, <1>2, <1>3
<1>5. ASSUME NEW a \in Accounts PROVE balance[a] <= I128Max
  <2>1. PICK k \in 1..Holders : Roster[k] = a
    BY RosterNames
  <2>2. PICK v : v = [m \in Nat |-> IF m = k THEN 0 ELSE Funds[m]]
    OBVIOUS
  <2>3. v \in [Nat -> Int] /\ v[k] = 0 /\ \A m \in Nat : v[m] = IF m = k THEN 0 ELSE Funds[m]
    BY <1>1, <2>2
  <2>4. \A m \in 1..Holders : v[m] >= 0 /\ (m # k => v[m] = Funds[m])
    BY <1>1, <2>3
  <2>5. Total(v, Holders) >= 0 /\ Total(v, Holders) \in Int
    BY <1>1, <2>3, <2>4, TotalNotNegative, TotalIsSum
  <2>6. Total(v, Holders) = Total(Funds, Holders) - Funds[k] + v[k]
    BY <1>1, <2>3, <2>4, TotalChange
  <2>7. Funds[k] = balance[a] /\ Funds[k] \in Int
    BY <1>1, <2>1, FundsType
  <2> QED
    BY <1>1, <1>3, <2>3, <2>5, <2>6, <2>7
<1> QED
  BY <1>4, <1>5

\* A transaction moves tokens from one holder to another.
LEMMA SupplyStep ==
  ASSUME TypeOK, SupplyInv, NEW p \in Proof, NEW ext \in ExtData, NEW sender \in Accounts,
         Transact(p, ext, sender)
  PROVE  SupplyInv'
<1>1. PICK a \in Accounts, e \in Int :
        /\ e = ext.extAmount /\ balance' = [balance EXCEPT ![a] = @ - e]
        /\ poolBalance' = poolBalance + e
  <2>1. ext.extAmount \in Int /\ ext.recipient \in Accounts
    BY DEF ExtData
  <2> QED
    BY <2>1 DEF Transact, MoveTokens
<1>2. PICK k \in 1..Holders : Roster[k] = a
  BY RosterNames
<1>3. PICK v : v = Funds'
  OBVIOUS
<1>4. v = [m \in Nat |-> IF m \in 1..Holders THEN balance'[Roster[m]] ELSE 0]
  BY <1>3 DEF Funds
<1>5. /\ Funds \in [Nat -> Int] /\ Holders \in Nat /\ Total(Funds, Holders) \in Int
      /\ \A m \in 1..Holders : Funds[m] = balance[Roster[m]]
  BY FundsType, RosterNames, TotalIsSum
<1>6. balance' \in [Accounts -> Int] /\ poolBalance \in Int
  <2>1. balance \in [Accounts -> Nat] /\ poolBalance \in Nat
    BY DEF TypeOK
  <2>2. \A b \in Accounts : balance[b] \in Int /\ balance[b] - e \in Int
    BY <2>1
  <2>3. balance' = [b \in Accounts |-> IF b = a THEN balance[b] - e ELSE balance[b]]
    BY <1>1, <2>1
  <2> QED
    BY <2>1, <2>2, <2>3
<1>7. v \in [Nat -> Int] /\ \A m \in 1..Holders : v[m] = balance'[Roster[m]]
  BY <1>4, <1>6, RosterNames
<1>8. \A m \in 1..Holders : m # k => v[m] = Funds[m]
  <2> SUFFICES ASSUME NEW m \in 1..Holders, m # k PROVE v[m] = Funds[m]
    OBVIOUS
  <2>1. Roster[m] \in Accounts /\ Roster[m] # a
    BY <1>2, RosterNames
  <2> QED
    BY <1>1, <1>5, <1>7, <2>1 DEF TypeOK
<1>9. v[k] = Funds[k] - e /\ Funds[k] \in Int
  <2>1. balance'[a] = balance[a] - e /\ balance[a] \in Int
    BY <1>1 DEF TypeOK
  <2> QED
    BY <1>2, <1>5, <1>7, <2>1
<1>10. Total(v, Holders) = Total(Funds, Holders) - Funds[k] + v[k]
  BY <1>5, <1>7, <1>8, TotalChange
<1>11. poolBalance' + Total(v, Holders) = poolBalance + Total(Funds, Holders)
  BY <1>1, <1>5, <1>6, <1>9, <1>10
<1> QED
  BY <1>3, <1>11 DEF SupplyInv

-----------------------------------------------------------------------------
(* Fresh proofs.                                                           *)

\* The supply is conserved.
LEMMA FundsInvariance == Spec => [](IInv /\ Solvency /\ SupplyInv)
<1>1. Init => SupplyInv
  <2> SUFFICES ASSUME Init PROVE SupplyInv
    OBVIOUS
  <2>1. TypeOK
    BY InitInv DEF IInv
  <2>2. Funds \in [Nat -> Int] /\ Holders \in Nat /\ InitialFunds \in Nat
    BY <2>1, FundsType, RosterNames, AmountAssumption
  <2>3. \A k \in 1..Holders : Funds[k] = InitialFunds
    BY <2>1, FundsType, RosterNames DEF Init
  <2>4. Total(Funds, Holders) = Holders * InitialFunds
    BY <2>2, <2>3, TotalOfEqual
  <2>5. Holders * InitialFunds \in Int
    BY <2>2
  <2> QED
    BY <2>4, <2>5 DEF Init, SupplyInv
<1>2. ASSUME IInv, SupplyInv, [Next]_vars PROVE SupplyInv'
  <2>1. CASE TransactAny
    <3>1. PICK p \in Proof, ext \in ExtData, sender \in Accounts : Transact(p, ext, sender)
      BY <1>2, <2>1, SomeTransact DEF IInv
    <3> QED
      BY <1>2, <3>1, SupplyStep DEF IInv
  <2>2. CASE UNCHANGED <<tokenVars, nullifiers, treeVars>>
    BY <1>2, <2>2 DEF SupplyInv, Funds, tokenVars
  <2> QED
    BY <1>2, <2>1, <2>2, OthersSpendNothing
<1> QED
  BY <1>1, <1>2, SolvencyInvariance, PTL DEF Spec

\* Two unspent inputs are not worth more than the pool holds.
LEMMA InputsAreBacked ==
  ASSUME TypeOK, Solvency, NEW i \in 0..Len(leaves), NEW j \in 0..Len(leaves), i = j => i = 0
  PROVE  Worths[i] + Worths[j] <= poolBalance
<1>1. /\ Worths \in [Nat -> Int] /\ Worths[0] = 0 /\ \A k \in Nat : Worths[k] >= 0
      /\ Len(leaves) \in Nat
  <2>1. Len(leaves) \in Nat
    BY DEF TypeOK
  <2> QED
    BY <2>1, WorthsType
<1>2. PICK v : v = [k \in Nat |-> IF k = i \/ k = j THEN 0 ELSE Worths[k]]
  OBVIOUS
<1>3. /\ v \in [Nat -> Int] /\ \A k \in 1..Len(leaves) : v[k] >= 0
      /\ \A k \in 1..Len(leaves) : v[k] = IF k = i \/ k = j THEN 0 ELSE Worths[k]
  <2>1. \A k \in Nat : Worths[k] \in Int
    BY <1>1
  <2>2. v \in [Nat -> Int] /\ \A k \in Nat : v[k] = IF k = i \/ k = j THEN 0 ELSE Worths[k]
    BY <1>2, <2>1
  <2>3. \A k \in 1..Len(leaves) : k \in Nat
    BY <1>1
  <2> QED
    BY <1>1, <2>2, <2>3
<1>4. Total(v, Len(leaves)) >= 0
  BY <1>1, <1>3, TotalNotNegative
<1>5. Total(v, Len(leaves)) = Total(Worths, Len(leaves)) - Worths[i] - Worths[j]
  <2> DEFINE w == Worths
             n == Len(leaves)
  <2>1. /\ w \in [Nat -> Int] /\ v \in [Nat -> Int] /\ n \in Nat /\ w[0] = 0
        /\ i \in 0..n /\ j \in 0..n /\ (i = j => i = 0)
        /\ \A k \in 1..n : v[k] = IF k = i \/ k = j THEN 0 ELSE w[k]
    BY <1>1, <1>3
  <2> HIDE DEF w, n
  <2>2. Total(v, n) = Total(w, n) - w[i] - w[j]
    BY <2>1, TotalCleared
  <2> QED
    BY <2>2 DEF w, n
<1>6. Total(Worths, Len(leaves)) \in Int /\ Worths[i] \in Int /\ Worths[j] \in Int
  <2>1. Worths[i] \in Int /\ Worths[j] \in Int
    <3>1. i \in Nat /\ j \in Nat
      BY <1>1
    <3> QED
      BY <1>1, <3>1
  <2> DEFINE w == Worths
             n == Len(leaves)
  <2>2. w \in [Nat -> Int] /\ n \in Nat
    BY <1>1
  <2> HIDE DEF w, n
  <2>3. Total(w, n) \in Int
    BY <2>2, TotalIsSum
  <2> QED
    BY <2>1, <2>3 DEF w, n
<1> QED
  BY <1>4, <1>5, <1>6 DEF Solvency, UnspentValue

\* A fresh proof is accepted.
LEMMA FreshIsAccepted ==
  ASSUME IInv, Solvency, SupplyInv, NEW p \in proofs, NEW sender \in Accounts,
         NEW n \in 0..RootCount, p.root = PastRoot(n), RootCount - n < RootHistorySize,
         PublicAmountMatches(p, p.extDataHash),
         \A s \in 1..2 : ~ is_spent(p.inputNullifiers[s]),
         AspRootsCurrent(p), p.extDataHash.extAmount <= balance[sender], HasRoom
  PROVE  Accepted(p, p.extDataHash, sender)
<1>1. /\ TypeOK /\ RingInv /\ p \in Proof /\ CircuitHolds(p)
      /\ p.publicAmount = calculate_public_amount(p.extDataHash.extAmount)
  BY DEF IInv, SpentInv, TypeOK, PublicAmountMatches
<1>2. /\ leaves \in Seq(Note) /\ Len(leaves) \in Nat /\ p.root \in Seq(Note)
      /\ Len(p.root) <= Len(leaves) /\ \A k \in 1..Len(p.root) : p.root[k] = leaves[k]
  BY <1>1, RootsAreTrees DEF TypeOK
<1>3. is_known_root(p.root)
  <2>1. RootWindow
    BY <1>1, RingGivesWindow
  <2> QED
    BY <2>1 DEF RootWindow
<1>4. verify_proof(p)
  <2>1. validate_bn256_public_inputs(p)
    BY <1>1 DEF CircuitHolds, InputNullifiers, validate_bn256_public_inputs
  <2> QED
    BY <1>1, <2>1, CanonicalCall DEF verify_proof
<1>5. ASSUME NEW s \in 1..2, NEW k, k = p.witness.inputs[s]
      PROVE  /\ k \in 0..Len(leaves)
             /\ InputNote(p.witness, s).amount = Worths[k]
             /\ InputNote(p.witness, s).amount \in 0..(MaxExtAmount - 1)
  <2>1. k \in 0..Len(p.root) /\ k \in Nat /\ p.witness.tree = p.root
    BY <1>1, <1>2, <1>5 DEF CircuitHolds
  <2>2. k \in 0..Len(leaves)
    BY <1>2, <2>1
  <2>3. CASE k = 0
    BY <1>1, <1>5, <2>2, <2>3, WorthsType, AmountAssumption DEF InputNote
  <2>4. CASE k # 0
    <3>1. k \in 1..Len(p.root) /\ k \in DOMAIN leaves
      BY <1>2, <2>1, <2>2, <2>4
    <3>2. InputNote(p.witness, s) = leaves[k] /\ leaves[k] \in Note
      BY <1>2, <1>5, <2>1, <2>4, <3>1 DEF InputNote
    <3>3. InputNullifier(p.witness, s) = <<"leaf", k, leaves[k]>>
      BY <1>5, <2>4, <3>2 DEF InputNullifier
    <3>4. p.inputNullifiers[s] = LeafWord(k)
      BY <1>1, <3>3 DEF CircuitHolds, InputNullifiers, LeafWord
    <3>5. k \in UnspentLeaves
      BY <3>1, <3>4 DEF UnspentLeaves
    <3>6. Worths[k] = leaves[k].amount
      BY <1>1, <2>1, <3>5, WorthsType
    <3>7. leaves[k].amount \in 0..(MaxExtAmount - 1)
      BY <3>2 DEF Note
    <3> QED
      BY <2>2, <3>2, <3>6, <3>7
  <2> QED
    BY <2>3, <2>4
<1>6. PICK i1 \in 0..(MaxExtAmount - 1), i2 \in 0..(MaxExtAmount - 1) :
        i1 = InputNote(p.witness, 1).amount /\ i2 = InputNote(p.witness, 2).amount
  BY <1>5
<1>7. i1 + i2 <= poolBalance
  <2>1. PICK k1, k2 : k1 = p.witness.inputs[1] /\ k2 = p.witness.inputs[2]
    OBVIOUS
  <2>2. /\ k1 \in 0..Len(leaves) /\ k2 \in 0..Len(leaves)
        /\ i1 = Worths[k1] /\ i2 = Worths[k2]
    BY <1>5, <1>6, <2>1
  <2>3. k1 = k2 => k1 = 0
    BY <1>1, <2>1, InputFacts
  <2>4. Worths[k1] + Worths[k2] <= poolBalance
    BY <1>1, <2>2, <2>3, InputsAreBacked
  <2> QED
    BY <2>2, <2>4
<1>8. PICK o1 \in 0..(MaxExtAmount - 1), o2 \in 0..(MaxExtAmount - 1) :
        o1 = p.outputs[1].amount /\ o2 = p.outputs[2].amount
  <2>1. p.outputs[1] \in Note /\ p.outputs[2] \in Note
    BY <1>1 DEF Proof
  <2> QED
    BY <2>1 DEF Note
<1>9. PICK e \in (-MaxExtAmount)..MaxExtAmount : e = p.extDataHash.extAmount
  BY <1>1 DEF Proof, ExtData
<1>10. e = o1 + o2 - i1 - i2
  <2>1. (i1 + i2 + calculate_public_amount(e)) % FieldSize = (o1 + o2) % FieldSize
    BY <1>1, <1>6, <1>8, <1>9 DEF CircuitHolds
  <2>2. e \in Int /\ Abs(e) <= MaxExtAmount
    BY AmountAssumption DEF Abs
  <2> QED
    BY <2>1, <2>2, BalancedAsIntegers
<1>11. /\ poolBalance \in Nat /\ poolBalance <= I128Max /\ balance[sender] <= I128Max
       /\ balance[sender] \in Nat
  BY <1>1, SupplyBounds DEF TypeOK
<1>12. /\ MaxExtAmount \in Nat /\ I128Max \in Nat /\ I128Max < MaxExtAmount
  BY AmountAssumption
<1>13. /\ e <= I128Max /\ -e <= poolBalance /\ -e <= I128Max /\ Abs(e) < MaxExtAmount
  <2>1. e \in Int /\ e <= I128Max
    BY <1>9, <1>11, <1>12
  <2>2. -e = i1 + i2 - o1 - o2 /\ o1 >= 0 /\ o2 >= 0
    BY <1>10, <1>12
  <2>3. -e <= poolBalance /\ -e <= I128Max
    BY <1>7, <1>11, <1>12, <2>1, <2>2
  <2> QED
    BY <1>12, <2>1, <2>3 DEF Abs
<1>14. /\ e > 0 => i256_to_i128_nonneg(e) /\ balance[sender] >= e
       /\ e < 0 => i256_to_i128_nonneg(-e) /\ poolBalance >= -e
  <2>1. e \in Int /\ e <= I128Max /\ -e <= poolBalance /\ -e <= I128Max
    BY <1>9, <1>12, <1>13
  <2>2. e < 0 => i256_to_i128_nonneg(-e) /\ poolBalance >= -e
    BY <1>11, <1>12, <2>1 DEF i256_to_i128_nonneg
  <2>3. e > 0 => i256_to_i128_nonneg(e)
    BY <1>12, <2>1 DEF i256_to_i128_nonneg
  <2>4. e > 0 => balance[sender] >= e
    BY <1>9, <1>11, <1>12, <1>13
  <2> QED
    BY <2>2, <2>3, <2>4
<1> QED
  BY <1>3, <1>4, <1>9, <1>13, <1>14 DEF Accepted

\* The contract turns no fresh proof away: when its root is in the history, its
\* inputs unspent, its ASP roots current, the sender has the tokens and the tree has
\* room, the pool has the tokens for it and every amount fits its type.
THEOREM FreshProofsPass == Spec => []FreshProofAccepted
<1>1. IInv /\ Solvency /\ SupplyInv => FreshProofAccepted
  BY FreshIsAccepted DEF FreshProofAccepted, AspRootsCurrent
<1> QED
  BY <1>1, FundsInvariance, PTL
=============================================================================
