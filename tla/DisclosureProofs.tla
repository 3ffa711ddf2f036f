-------------------------- MODULE DisclosureProofs --------------------------
(***************************************************************************)
(* Proofs about Disclosure, for any notes, contexts and bounds.  The       *)
(* argument: a file on the authority's page comes from an issued receipt   *)
(* and keeps its proof, a proof that verifies fixes root, commitment and   *)
(* hash, and the hash fixes the context, because every string goes in      *)
(* behind its length.                                                      *)
(***************************************************************************)
EXTENDS Disclosure, SequenceTheorems, TLAPS

-----------------------------------------------------------------------------
(* What goes into the hash.                                                *)

\* A string behind its length starts with the length and goes on with the string.
LEMMA FeedStr ==
  ASSUME NEW w \in Seq(Nat)
  PROVE  /\ feed_str(w) \in Seq(Nat) /\ Len(feed_str(w)) = Len(w) + 1
         /\ feed_str(w)[1] = Len(w)
         /\ \A i \in 1..Len(w) : feed_str(w)[i + 1] = w[i]
BY DEF feed_str

\* A string behind its length with more behind it.
LEMMA FeedFirst ==
  ASSUME NEW w \in Seq(Nat), NEW x \in Seq(Nat)
  PROVE  LET y == feed_str(w) \o x IN
         /\ y \in Seq(Nat) /\ Len(y) = Len(w) + 1 + Len(x)
         /\ y[1] = Len(w)
         /\ \A i \in 1..Len(w) : y[i + 1] = w[i]
         /\ \A i \in 1..Len(x) : y[i + (Len(w) + 1)] = x[i]
<1> DEFINE f == feed_str(w)
           y == f \o x
           m == Len(w)
           n == Len(x)
<1>1. f \in Seq(Nat) /\ Len(f) = m + 1 /\ f[1] = m
  BY FeedStr
<1>2. \A i \in 1..m : f[i + 1] = w[i]
  BY FeedStr
<1>3. m \in Nat /\ n \in Nat
  BY LenProperties
<1> HIDE DEF f, m, n
<1>4. /\ y \in Seq(Nat) /\ Len(y) = Len(f) + Len(x)
      /\ \A i \in 1..(Len(f) + Len(x)) : y[i] = IF i <= Len(f) THEN f[i] ELSE x[i - Len(f)]
  BY <1>1, ConcatProperties
<1>5. /\ Len(y) = m + 1 + n
      /\ \A i \in 1..(m + 1 + n) : y[i] = IF i <= m + 1 THEN f[i] ELSE x[i - (m + 1)]
  BY <1>1, <1>4, Zenon DEF n
<1> HIDE DEF y
<1>6. y[1] = m
  BY <1>1, <1>3, <1>5
<1>7. ASSUME NEW i \in 1..m
      PROVE  y[i + 1] = w[i]
  <2>1. i + 1 \in 1..(m + 1 + n) /\ i + 1 <= m + 1
    BY <1>3
  <2> QED
    BY <1>2, <1>5, <2>1, Zenon
<1>8. ASSUME NEW i \in 1..n
      PROVE  y[i + (m + 1)] = x[i]
  <2>1. i + (m + 1) \in 1..(m + 1 + n) /\ ~ (i + (m + 1) <= m + 1)
    BY <1>3
  <2>2. (i + (m + 1)) - (m + 1) = i
    BY <1>3
  <2> QED
    BY <1>5, <2>1, <2>2, Zenon
<1> QED
  BY <1>4, <1>5, <1>6, <1>7, <1>8, Zenon DEF f, y, m, n

\* Equal sums with equal first parts have equal second parts.
LEMMA Cancel ==
  ASSUME NEW a \in Nat, NEW b \in Nat, NEW c \in Nat, a + 1 + b = a + 1 + c
  PROVE  b = c
OBVIOUS

\* A string behind its length, then the rest: both can be read back.
LEMMA FeedIsInjective ==
  ASSUME NEW s \in Seq(Nat), NEW t \in Seq(Nat), NEW u \in Seq(Nat), NEW v \in Seq(Nat),
         feed_str(s) \o u = feed_str(t) \o v
  PROVE  s = t /\ u = v
<1> DEFINE y == feed_str(s) \o u
<1>1. /\ Len(y) = Len(s) + 1 + Len(u) /\ y[1] = Len(s)
      /\ \A i \in 1..Len(s) : y[i + 1] = s[i]
      /\ \A i \in 1..Len(u) : y[i + (Len(s) + 1)] = u[i]
  BY FeedFirst, Zenon
<1>2. y = feed_str(t) \o v
  OBVIOUS
<1>3. /\ Len(y) = Len(t) + 1 + Len(v) /\ y[1] = Len(t)
      /\ \A i \in 1..Len(t) : y[i + 1] = t[i]
      /\ \A i \in 1..Len(v) : y[i + (Len(t) + 1)] = v[i]
  <2> HIDE DEF y
  <2> QED
    BY <1>2, FeedFirst, ZenonT(60)
<1> HIDE DEF y
<1>4. Len(s) = Len(t)
  BY <1>1, <1>3, Zenon
<1>5. Len(s) \in Nat /\ Len(u) \in Nat /\ Len(v) \in Nat
  BY LenProperties, Zenon
<1>6. Len(u) = Len(v)
  <2>1. Len(s) + 1 + Len(u) = Len(s) + 1 + Len(v)
    BY <1>1, <1>3, <1>4, Zenon
  <2> QED
    BY <1>5, <2>1, Cancel, Zenon
<1>7. \A i \in 1..Len(s) : s[i] = t[i]
  BY <1>1, <1>3, <1>4, Zenon
<1>8. \A i \in 1..Len(u) : u[i] = v[i]
  BY <1>1, <1>3, <1>4, <1>6, Zenon
<1>9. s = t
  BY <1>4, <1>7, SeqEqual, ZenonT(30)
<1>10. u = v
  BY <1>6, <1>8, SeqEqual, ZenonT(30)
<1> QED
  BY <1>9, <1>10

\* A context is its five strings and its nonce.
LEMMA ContextParts ==
  ASSUME NEW c \in Context
  PROVE  /\ c.network \in Seq(Nat) /\ c.pool_address \in Seq(Nat)
         /\ c.authority_label \in Seq(Nat) /\ c.payload \in Seq(Nat)
         /\ c.purpose \in Seq(Nat) /\ c.nonce \in Nat /\ <<c.nonce>> \in Seq(Nat)
         /\ c = [network |-> c.network, pool_address |-> c.pool_address,
                 authority_label |-> c.authority_label, payload |-> c.payload,
                 purpose |-> c.purpose, nonce |-> c.nonce]
BY DEF Context

\* What is hashed behind each string.
Rest5(c) == <<c.nonce>>
Rest4(c) == feed_str(c.purpose) \o Rest5(c)
Rest3(c) == feed_str(c.payload) \o Rest4(c)
Rest2(c) == feed_str(c.authority_label) \o Rest3(c)
Rest1(c) == feed_str(c.pool_address) \o Rest2(c)

\* The hash is its first string and the rest, and every rest is a sequence of numbers.
LEMMA Rests ==
  ASSUME NEW c \in Context
  PROVE  /\ Rest1(c) \in Seq(Nat) /\ Rest2(c) \in Seq(Nat)
         /\ Rest3(c) \in Seq(Nat) /\ Rest4(c) \in Seq(Nat) /\ Rest5(c) \in Seq(Nat)
         /\ derive_ext_context_hash(c) = feed_str(c.network) \o Rest1(c)
<1>0. Rest5(c) \in Seq(Nat)
  BY ContextParts, Zenon DEF Rest5
<1>1. Rest4(c) \in Seq(Nat)
  BY <1>0, ContextParts, FeedFirst, Zenon DEF Rest4
<1>2. Rest3(c) \in Seq(Nat)
  BY <1>1, ContextParts, FeedFirst, Zenon DEF Rest3
<1>3. Rest2(c) \in Seq(Nat)
  BY <1>2, ContextParts, FeedFirst, Zenon DEF Rest2
<1>4. Rest1(c) \in Seq(Nat)
  BY <1>3, ContextParts, FeedFirst, Zenon DEF Rest1
<1> QED
  BY <1>0, <1>1, <1>2, <1>3, <1>4, Zenon
     DEF derive_ext_context_hash, Rest1, Rest2, Rest3, Rest4, Rest5

\* Contexts that hash alike are the same context.
LEMMA HashIsInjective ==
  ASSUME NEW c \in Context, NEW d \in Context,
         derive_ext_context_hash(c) = derive_ext_context_hash(d)
  PROVE  c = d
<1>1. c.network = d.network /\ Rest1(c) = Rest1(d)
  <2>1. feed_str(c.network) \o Rest1(c) = feed_str(d.network) \o Rest1(d)
    BY Rests, Zenon
  <2>2. /\ c.network \in Seq(Nat) /\ d.network \in Seq(Nat)
        /\ Rest1(c) \in Seq(Nat) /\ Rest1(d) \in Seq(Nat)
    BY ContextParts, Rests, Zenon
  <2> QED
    BY <2>1, <2>2, FeedIsInjective, ZenonT(60)
<1>2. c.pool_address = d.pool_address /\ Rest2(c) = Rest2(d)
  <2>1. feed_str(c.pool_address) \o Rest2(c) = feed_str(d.pool_address) \o Rest2(d)
    BY <1>1, Zenon DEF Rest1
  <2>2. /\ c.pool_address \in Seq(Nat) /\ d.pool_address \in Seq(Nat)
        /\ Rest2(c) \in Seq(Nat) /\ Rest2(d) \in Seq(Nat)
    BY ContextParts, Rests, Zenon
  <2> QED
    BY <2>1, <2>2, FeedIsInjective, ZenonT(60)
<1>3. c.authority_label = d.authority_label /\ Rest3(c) = Rest3(d)
  <2>1. feed_str(c.authority_label) \o Rest3(c) = feed_str(d.authority_label) \o Rest3(d)
    BY <1>2, Zenon DEF Rest2
  <2>2. /\ c.authority_label \in Seq(Nat) /\ d.authority_label \in Seq(Nat)
        /\ Rest3(c) \in Seq(Nat) /\ Rest3(d) \in Seq(Nat)
    BY ContextParts, Rests, Zenon
  <2> QED
    BY <2>1, <2>2, FeedIsInjective, ZenonT(60)
<1>4. c.payload = d.payload /\ Rest4(c) = Rest4(d)
  <2>1. feed_str(c.payload) \o Rest4(c) = feed_str(d.payload) \o Rest4(d)
    BY <1>3, Zenon DEF Rest3
  <2>2. /\ c.payload \in Seq(Nat) /\ d.payload \in Seq(Nat)
        /\ Rest4(c) \in Seq(Nat) /\ Rest4(d) \in Seq(Nat)
    BY ContextParts, Rests, Zenon
  <2> QED
    BY <2>1, <2>2, FeedIsInjective, ZenonT(60)
<1>5. c.purpose = d.purpose /\ Rest5(c) = Rest5(d)
  <2>1. feed_str(c.purpose) \o Rest5(c) = feed_str(d.purpose) \o Rest5(d)
    BY <1>4, Zenon DEF Rest4
  <2>2. /\ c.purpose \in Seq(Nat) /\ d.purpose \in Seq(Nat)
        /\ Rest5(c) \in Seq(Nat) /\ Rest5(d) \in Seq(Nat)
    BY ContextParts, Rests, Zenon
  <2> QED
    BY <2>1, <2>2, FeedIsInjective, ZenonT(60)
<1>6. c.nonce = d.nonce
  BY <1>5 DEF Rest5
<1> QED
  BY <1>1, <1>2, <1>3, <1>4, <1>5, <1>6, ContextParts, Zenon

-----------------------------------------------------------------------------
(* Receipts and files.                                                     *)

Keys == {CanonicalKey, "other"}
Hashes == Seq(Nat)
Statements == Nat \X OwnNotes \X Hashes

\* The shape of a receipt file.
Files ==
  [shape : BOOLEAN, vk_hash : Keys, context : Contexts, root : Nat, commitment : OwnNotes,
   hash : Hashes, proof : [key : Keys, of : Statements]]

\* The receipt an owner gets for note n under root k.
Honest(r, c, k, n) ==
  /\ c \in Contexts /\ n \in OwnNotes /\ k \in Nat /\ n \in 1..k
  /\ context_validate(c)
  /\ r = Receipt(c, k, n, derive_ext_context_hash(c))

\* An issued receipt speaks of a root the pool has had.
Genuine(r) == \E c, n : \E k \in 1..ledger.leaves : Honest(r, c, k, n)

\* A file that comes from an issued receipt.
FromIssued(r) == \E issued \in receipts : r \in Edited(issued)

\* derive_ext_context_hash yields a sequence of numbers.
LEMMA HashType ==
  ASSUME NEW c \in Contexts
  PROVE  derive_ext_context_hash(c) \in Hashes
<1>1. c \in Context
  BY DisclosureAssumption
<1>2. Rest1(c) \in Seq(Nat) /\ derive_ext_context_hash(c) = feed_str(c.network) \o Rest1(c)
  BY <1>1, Rests, Zenon
<1>3. c.network \in Seq(Nat)
  BY <1>1, ContextParts, Zenon
<1> QED
  BY <1>2, <1>3, FeedFirst, Zenon DEF Hashes

\* What an issued receipt says, and that its own checks pass.
LEMMA HonestParts ==
  ASSUME NEW r, NEW c, NEW k, NEW n, Honest(r, c, k, n)
  PROVE  /\ r \in Files
         /\ r.context = c /\ r.root = k /\ r.commitment = n
         /\ r.hash = derive_ext_context_hash(c)
         /\ r.proof = [key |-> CanonicalKey, of |-> Statement(k, n, r.hash)]
         /\ verify_proof(r) /\ verify_receipt_context(r)
<1> DEFINE h == derive_ext_context_hash(c)
<1>1. /\ c \in Contexts /\ n \in OwnNotes /\ k \in Nat
      /\ r = Receipt(c, k, n, h)
  BY DEF Honest
<1>2. h \in Hashes
  BY <1>1, HashType
<1> HIDE DEF h
<1>3. /\ r.context = c /\ r.root = k /\ r.commitment = n /\ r.hash = h
      /\ r.proof = [key |-> CanonicalKey, of |-> Statement(k, n, h)]
  BY <1>1 DEF Receipt
<1>4. [key |-> CanonicalKey, of |-> Statement(k, n, h)] \in [key : Keys, of : Statements]
  BY <1>1, <1>2 DEF Keys, Statements, Statement
<1>5. r \in Files
  BY <1>1, <1>2, <1>4 DEF Receipt, Files, Keys
<1> QED
  BY <1>3, <1>5 DEF verify_proof, verify_receipt_context, h

\* Whatever is edited in a file, its proof stays.
LEMMA EditedParts ==
  ASSUME NEW r \in Files, NEW f \in Edited(r), r.root >= 1
  PROVE  f \in Files /\ f.proof = r.proof /\ f.root >= 1
<1> USE DisclosureAssumption
<1>1. CASE f = r
  BY <1>1
<1>2. CASE f = [r EXCEPT !.shape = FALSE]
  BY <1>2 DEF Files
<1>3. CASE f = [r EXCEPT !.vk_hash = "other"]
  BY <1>3 DEF Files, Keys
<1>4. ASSUME NEW c \in Contexts, f = [r EXCEPT !.context = c]
      PROVE  f \in Files /\ f.proof = r.proof /\ f.root >= 1
  BY <1>4 DEF Files
<1>5. ASSUME NEW c \in Contexts, f = [r EXCEPT !.context = c, !.hash = derive_ext_context_hash(c)]
      PROVE  f \in Files /\ f.proof = r.proof /\ f.root >= 1
  BY <1>5, HashType DEF Files
<1>6. ASSUME NEW n \in OwnNotes, f = [r EXCEPT !.commitment = n]
      PROVE  f \in Files /\ f.proof = r.proof /\ f.root >= 1
  BY <1>6 DEF Files
<1>7. ASSUME NEW k \in 1..MaxRoots, f = [r EXCEPT !.root = k]
      PROVE  f \in Files /\ f.proof = r.proof /\ f.root >= 1
  BY <1>7 DEF Files
<1> QED
  BY <1>1, <1>2, <1>3, <1>4, <1>5, <1>6, <1>7 DEF Edited

\* A file on the page whose proof verifies has root and note of an issued receipt;
\* when its hash is that of its context, the context is the issued one, too.
LEMMA VerifiedFile ==
  ASSUME \A r \in receipts : Genuine(r), ledger.leaves \in Nat, NEW f, FromIssued(f)
  PROVE  /\ f \in Files /\ f.root >= 1
         /\ verify_proof(f) =>
              /\ f.root \in 1..ledger.leaves
              /\ SelectiveDisclosure(f.commitment, f.root)
         /\ verify_proof(f) /\ verify_receipt_context(f) =>
              \E r \in receipts : f.context = r.context /\ f.commitment = r.commitment
<1>1. PICK r \in receipts : f \in Edited(r)
  BY DEF FromIssued
<1>2. PICK c, n : \E k \in 1..ledger.leaves : Honest(r, c, k, n)
  BY DEF Genuine
<1>3. PICK k \in 1..ledger.leaves : Honest(r, c, k, n)
  BY <1>2
<1>4. /\ r \in Files
      /\ r.context = c /\ r.root = k /\ r.commitment = n
      /\ r.hash = derive_ext_context_hash(c)
      /\ r.proof = [key |-> CanonicalKey, of |-> Statement(k, n, r.hash)]
  BY <1>3, HonestParts
<1>5. f \in Files /\ f.proof = r.proof /\ f.root >= 1
  BY <1>1, <1>3, <1>4, EditedParts
<1>6. ASSUME verify_proof(f)
      PROVE  f.root = k /\ f.commitment = n /\ f.hash = derive_ext_context_hash(c)
  BY <1>4, <1>5, <1>6 DEF verify_proof, Statement
<1>7. n \in OwnNotes /\ n \in 1..k /\ c \in Contexts
  BY <1>3 DEF Honest
<1>8. f.context \in Contexts
  BY <1>5 DEF Files
<1>9. ASSUME verify_proof(f), verify_receipt_context(f)
      PROVE  f.context = c
  <2>1. derive_ext_context_hash(f.context) = derive_ext_context_hash(c)
    BY <1>6, <1>9 DEF verify_receipt_context
  <2>2. f.context \in Context /\ c \in Context
    BY <1>7, <1>8, DisclosureAssumption
  <2> QED
    BY <2>1, <2>2, HashIsInjective
<1> QED
  BY <1>3, <1>4, <1>5, <1>6, <1>7, <1>9 DEF SelectiveDisclosure

-----------------------------------------------------------------------------
(* The inductive invariant.                                                *)

Results ==
  [kind : {"report", "error"}, receipt : Files \union {Nil},
   proof : BOOLEAN, root : BOOLEAN, context : BOOLEAN]
Pendings ==
  [stage : {"none", "proof", "root", "context"}, receipt : Files \union {Nil},
   expected : Keys \union {Nil}, proof : BOOLEAN, root : BOOLEAN]
Pages ==
  [loaded : Files \union {Nil}, summary : BOOLEAN, visible : BOOLEAN,
   pending : Pendings, result : Results \union {Nil}]
Generations ==
  [pc : {"idle", "fetch", "inputs", "prove"}, note : OwnNotes \union {Nil},
   context : Contexts \union {Nil}, root : Nat \union {Nil}]

\* What the pool's answer about the root of a file tells from then on.
Answered(f, known) ==
  /\ known => f.root \in 1..ledger.leaves
  /\ ~ known /\ verify_proof(f) => ledger.leaves - f.root >= KnownRoots

PendingOK(p) ==
  /\ FromIssued(p.receipt)
  /\ p.stage \in {"root", "context"} => p.proof = verify_proof(p.receipt)
  /\ p.stage = "context" => Answered(p.receipt, p.root)

ResultOK(q) ==
  /\ FromIssued(q.receipt)
  /\ q.proof = verify_proof(q.receipt)
  /\ q.context = verify_receipt_context(q.receipt)
  /\ Answered(q.receipt, q.root)

\* A verification under way, and its result, are about the receipt the page shows.
PageOK ==
  /\ ver.summary => FromIssued(ver.loaded)
  /\ ver.visible => ver.summary
  /\ ver.pending.stage # "none" =>
       PendingOK(ver.pending) /\ (ver.visible => ver.pending.receipt = ver.loaded)
  /\ Verdict => ResultOK(ver.result) /\ (ver.visible => ver.result.receipt = ver.loaded)

GenerationOK ==
  /\ gen.pc # "idle" => gen.note \in OwnNotes /\ gen.context \in Contexts
                        /\ context_validate(gen.context)
  /\ gen.pc \in {"inputs", "prove"} => gen.root \in 0..ledger.leaves

DisclosureInv ==
  /\ ledger \in [leaves : Nat, spent : SUBSET OwnNotes]
  /\ gen \in Generations /\ GenerationOK
  /\ \A r \in receipts : Genuine(r)
  /\ ver \in Pages /\ PageOK

-----------------------------------------------------------------------------
(* What the pool and the receipts only ever add to.                        *)

\* A receipt stays genuine while the pool only adds leaves.
LEMMA GenuineStays ==
  ASSUME ledger.leaves \in Nat, ledger'.leaves \in Nat, ledger.leaves <= ledger'.leaves,
         NEW r, Genuine(r)
  PROVE  Genuine(r)'
<1>1. PICK c, n : \E k \in 1..ledger.leaves : Honest(r, c, k, n)
  BY DEF Genuine
<1>2. PICK k \in 1..ledger.leaves : Honest(r, c, k, n)
  BY <1>1
<1>3. k \in 1..ledger'.leaves
  OBVIOUS
<1> QED
  BY <1>2, <1>3 DEF Genuine

\* The pool's answer about a root stays true while the pool only adds leaves.
LEMMA AnsweredStays ==
  ASSUME ledger.leaves \in Nat, ledger'.leaves \in Nat, ledger.leaves <= ledger'.leaves,
         NEW f \in Files, NEW known \in BOOLEAN, Answered(f, known)
  PROVE  Answered(f, known)'
<1>1. f.root \in Nat
  BY DEF Files
<1> QED
  BY <1>1, DisclosureAssumption DEF Answered

\* A step that leaves the authority's page alone keeps what is known about it.
LEMMA PageStays ==
  ASSUME DisclosureInv, ledger'.leaves \in Nat, ledger.leaves <= ledger'.leaves,
         receipts \subseteq receipts', ver' = ver
  PROVE  PageOK'
<1>1. ledger.leaves \in Nat
  BY DEF DisclosureInv
<1>2. ASSUME NEW f, FromIssued(f)
      PROVE  FromIssued(f)' /\ f \in Files
  <2>1. FromIssued(f)'
    BY <1>2 DEF FromIssued
  <2>2. f \in Files
    BY <1>1, <1>2, VerifiedFile DEF DisclosureInv
  <2> QED
    BY <2>1, <2>2
<1>3. ASSUME PendingOK(ver.pending)
      PROVE  PendingOK(ver.pending)'
  <2>1. ver.pending.receipt \in Files /\ FromIssued(ver.pending.receipt)'
    BY <1>2, <1>3 DEF PendingOK
  <2>2. ver.pending.root \in BOOLEAN
    BY DEF DisclosureInv, Pages, Pendings
  <2>3. Answered(ver.pending.receipt, ver.pending.root) =>
          Answered(ver.pending.receipt, ver.pending.root)'
    BY <1>1, <2>1, <2>2, AnsweredStays DEF Answered
  <2> QED
    BY <1>3, <2>1, <2>3 DEF PendingOK, verify_proof
<1>4. ASSUME Verdict, ResultOK(ver.result)
      PROVE  ResultOK(ver.result)'
  <2>1. ver.result.receipt \in Files /\ FromIssued(ver.result.receipt)'
    BY <1>2, <1>4 DEF ResultOK
  <2>2. ver.result.root \in BOOLEAN
    BY <1>4 DEF DisclosureInv, Pages, Results, Verdict
  <2>3. Answered(ver.result.receipt, ver.result.root)'
    BY <1>1, <1>4, <2>1, <2>2, AnsweredStays DEF ResultOK, Answered
  <2> QED
    BY <1>4, <2>1, <2>3 DEF ResultOK, verify_proof, verify_receipt_context
<1>5. Verdict' <=> Verdict
  BY DEF Verdict
<1> QED
  BY <1>2, <1>3, <1>4, <1>5 DEF DisclosureInv, PageOK

-----------------------------------------------------------------------------
(* The steps.                                                              *)

\* New leaves, spent notes and the database following them keep the invariant.
LEMMA PoolAndDatabaseSteps ==
  ASSUME DisclosureInv, pool_transacts \/ local_processes
  PROVE  DisclosureInv'
<1>1. /\ ledger' \in [leaves : Nat, spent : SUBSET OwnNotes]
      /\ ledger.leaves \in Nat /\ ledger'.leaves \in Nat /\ ledger.leaves <= ledger'.leaves
  <2>1. CASE pool_transacts
    <3>1. PICK spends \in {{}} \union {{n} : n \in (OwnNotes \intersect 1..ledger.leaves) \ ledger.spent} :
            ledger' = [leaves |-> ledger.leaves + 1, spent |-> ledger.spent \union spends]
      BY <2>1 DEF pool_transacts
    <3>2. ledger.spent \union spends \subseteq OwnNotes /\ ledger.leaves \in Nat
      BY DEF DisclosureInv
    <3> QED
      BY <3>1, <3>2
  <2>2. CASE local_processes
    BY <2>2 DEF local_processes, DisclosureInv
  <2> QED
    BY <2>1, <2>2
<1>2. gen' = gen /\ receipts' = receipts /\ ver' = ver
  BY DEF pool_transacts, local_processes
<1>3. GenerationOK'
  BY <1>1, <1>2 DEF GenerationOK, DisclosureInv, context_validate
<1>4. \A r \in receipts' : Genuine(r)'
  BY <1>1, <1>2, GenuineStays DEF DisclosureInv
<1>5. PageOK'
  BY <1>1, <1>2, PageStays
<1> QED
  BY <1>1, <1>2, <1>3, <1>4, <1>5 DEF DisclosureInv

\* The steps of a generation before its proof keep the invariant, failures included.
LEMMA OwnerSteps ==
  ASSUME DisclosureInv,
         click_generate \/ fetch_chain_state \/ disclosure_inputs \/ generation_fails
  PROVE  DisclosureInv'
<1>1. ledger' = ledger /\ receipts' = receipts /\ ver' = ver
  BY DEF click_generate, fetch_chain_state, disclosure_inputs, generation_fails
<1>2. PageOK'
  BY <1>1, PageStays DEF DisclosureInv
<1>3. \A r \in receipts' : Genuine(r)'
  BY <1>1 DEF DisclosureInv, Genuine
<1>4. Idling \in Generations /\ Idling.pc = "idle"
  BY DEF Idling, Generations
<1>5. ledger.leaves \in Nat
  BY DEF DisclosureInv
<1>6. gen' \in Generations /\ GenerationOK'
  <2>1. CASE click_generate
    <3>1. PICK n \in OwnNotes : \E c \in Contexts :
            /\ context_validate(c)
            /\ gen' = [pc |-> "fetch", note |-> n, context |-> c, root |-> Nil]
      BY <2>1 DEF click_generate
    <3>2. PICK c \in Contexts :
            /\ context_validate(c)
            /\ gen' = [pc |-> "fetch", note |-> n, context |-> c, root |-> Nil]
      BY <3>1
    <3> QED
      BY <3>2 DEF Generations, GenerationOK, context_validate
  <2>2. CASE fetch_chain_state
    <3>1. gen.pc = "fetch" /\ gen' = [gen EXCEPT !.pc = "inputs", !.root = ledger.leaves]
      BY <2>2 DEF fetch_chain_state
    <3>2. /\ gen \in Generations /\ gen.note \in OwnNotes /\ gen.context \in Contexts
          /\ context_validate(gen.context)
      BY <3>1 DEF DisclosureInv, GenerationOK
    <3>3. /\ gen' \in Generations /\ gen'.note = gen.note /\ gen'.context = gen.context
          /\ gen'.root = ledger.leaves
      BY <1>5, <3>1, <3>2 DEF Generations
    <3> QED
      BY <1>1, <1>5, <3>2, <3>3 DEF GenerationOK, context_validate
  <2>3. CASE disclosure_inputs
    <3>1. \/ gen' = [gen EXCEPT !.pc = "fetch"]
          \/ gen' = Idling
          \/ gen' = [gen EXCEPT !.pc = "prove"]
      BY <2>3 DEF disclosure_inputs
    <3>2. gen.pc = "inputs"
      BY <2>3 DEF disclosure_inputs
    <3>3. CASE gen' = Idling
      BY <1>4, <3>3 DEF GenerationOK
    <3>4. ASSUME NEW pc \in {"fetch", "prove"}, gen' = [gen EXCEPT !.pc = pc]
          PROVE  gen' \in Generations /\ GenerationOK'
      <4>1. /\ gen \in Generations /\ gen.note \in OwnNotes /\ gen.context \in Contexts
            /\ context_validate(gen.context) /\ gen.root \in 0..ledger.leaves
        BY <3>2 DEF DisclosureInv, GenerationOK
      <4>2. /\ gen' \in Generations /\ gen'.pc = pc
            /\ gen'.note = gen.note /\ gen'.context = gen.context /\ gen'.root = gen.root
        BY <3>4, <4>1 DEF Generations
      <4> QED
        BY <1>1, <4>1, <4>2 DEF GenerationOK, context_validate
    <3> QED
      BY <3>1, <3>3, <3>4
  <2>4. CASE generation_fails
    BY <1>4, <2>4 DEF generation_fails, GenerationOK
  <2> QED
    BY <2>1, <2>2, <2>3, <2>4
<1> QED
  BY <1>1, <1>2, <1>3, <1>6 DEF DisclosureInv

\* A receipt that is issued is genuine.
LEMMA ProveStep ==
  ASSUME DisclosureInv, prove_receipt
  PROVE  DisclosureInv'
<1> DEFINE r == Receipt(gen.context, gen.root, gen.note, derive_ext_context_hash(gen.context))
<1>1. /\ ledger' = ledger /\ ver' = ver /\ gen' = Idling /\ receipts' = receipts \union {r}
      /\ gen.pc = "prove" /\ gen.note \in OwnNotes /\ gen.note \in 1..gen.root
  BY DEF prove_receipt, SelectiveDisclosure
<1>2. ledger.leaves \in Nat /\ gen.root \in 0..ledger.leaves /\ gen.context \in Contexts
  BY <1>1 DEF DisclosureInv, GenerationOK
<1>3. gen.root \in 1..ledger.leaves
  BY <1>1, <1>2, DisclosureAssumption
<1>4. Honest(r, gen.context, gen.root, gen.note)
  BY <1>1, <1>2, <1>3 DEF Honest, DisclosureInv, GenerationOK
<1> HIDE DEF r
<1>5. Genuine(r)
  BY <1>3, <1>4 DEF Genuine
<1>6. \A x \in receipts' : Genuine(x)'
  BY <1>1, <1>5 DEF DisclosureInv, Genuine
<1>7. PageOK'
  BY <1>1, <1>2, PageStays
<1>8. gen' \in Generations /\ GenerationOK'
  BY <1>1 DEF Idling, Generations, GenerationOK
<1> QED
  BY <1>1, <1>6, <1>7, <1>8 DEF DisclosureInv

\* A file is loaded: what runs or was reported before is out of sight.
LEMMA LoadStep ==
  ASSUME DisclosureInv, load
  PROVE  ver' \in Pages /\ PageOK'
<1>1. PICK issued \in receipts : \E r \in Edited(issued) : load_receipt(r)
  BY DEF load
<1>2. PICK r \in Edited(issued) : load_receipt(r)
  BY <1>1
<1>3. ledger' = ledger /\ receipts' = receipts
  BY DEF load
<1>4. FromIssued(r)
  BY <1>2 DEF FromIssued
<1>5. r \in Files
  BY <1>4, VerifiedFile DEF DisclosureInv
<1>6. ver \in Pages
  BY DEF DisclosureInv
<1>7. /\ ver' \in Pages
      /\ ver'.pending = ver.pending /\ ver'.result = ver.result /\ ver'.visible = FALSE
      /\ ver'.summary => ver'.loaded = r
  BY <1>2, <1>5, <1>6 DEF load_receipt, Pages
<1>8. ASSUME NEW f
      PROVE  FromIssued(f)' <=> FromIssued(f)
  BY <1>3 DEF FromIssued
<1>9. ASSUME NEW f, NEW b
      PROVE  Answered(f, b)' <=> Answered(f, b)
  BY <1>3 DEF Answered, verify_proof
<1>10. ver.pending.stage # "none" => PendingOK(ver.pending)'
  BY <1>7, <1>8, <1>9 DEF DisclosureInv, PageOK, PendingOK, verify_proof
<1>11. Verdict' => ResultOK(ver.result)'
  BY <1>7, <1>8, <1>9 DEF DisclosureInv, PageOK, ResultOK, Verdict, verify_proof, verify_receipt_context
<1> QED
  BY <1>4, <1>7, <1>8, <1>10, <1>11 DEF PageOK, Verdict

\* The steps of a verification.
LEMMA VerificationSteps ==
  ASSUME DisclosureInv,
         \/ click_verify \/ verify_receipt_proof \/ check_known_root \/ report
         \/ verification_fails
  PROVE  ver' \in Pages /\ PageOK'
<1>1. ledger' = ledger /\ receipts' = receipts
  BY DEF click_verify, verify_receipt_proof, check_known_root, report, verification_fails
<1>2. ver \in Pages /\ ver.pending \in Pendings /\ ledger.leaves \in Nat
  BY DEF DisclosureInv, Pages
<1>3. ASSUME NEW f
      PROVE  FromIssued(f)' <=> FromIssued(f)
  BY <1>1 DEF FromIssued
<1>4. ASSUME NEW f, NEW b
      PROVE  Answered(f, b)' <=> Answered(f, b)
  BY <1>1 DEF Answered, verify_proof
<1>5. NotPending \in Pendings /\ NotPending.stage = "none" /\ Error \in Results /\ Error.kind = "error"
  BY DEF NotPending, Pending, Pendings, Error, Results
<1>6. ASSUME ends(Error)
      PROVE  ver' \in Pages /\ PageOK'
  <2>1. /\ ver' \in Pages /\ ver'.pending = NotPending /\ ver'.result = Error
        /\ ver'.loaded = ver.loaded /\ ver'.summary = ver.summary /\ ver'.visible = ver.visible
    BY <1>2, <1>5, <1>6 DEF ends, Pages
  <2> QED
    BY <1>3, <1>5, <2>1 DEF DisclosureInv, PageOK, Verdict
<1>7. CASE click_verify
  <2>1. PICK expected \in Keys :
          ver' = [ver EXCEPT !.pending = Pending("proof", ver.loaded, expected),
                             !.visible = TRUE, !.result = Nil]
    BY <1>7 DEF click_verify, Keys
  <2> DEFINE q == Pending("proof", ver.loaded, expected)
  <2>2. q \in Pendings /\ q.stage = "proof" /\ q.receipt = ver.loaded
    BY <1>2, <2>1 DEF Pending, Pendings, Pages
  <2> HIDE DEF q
  <2>3. /\ ver' \in Pages /\ ver'.pending = q /\ ver'.result = Nil
        /\ ver'.loaded = ver.loaded /\ ver'.summary = ver.summary
    BY <1>2, <2>1, <2>2 DEF Pages, q
  <2>4. ver.summary /\ FromIssued(ver.loaded)
    BY <1>7 DEF click_verify, DisclosureInv, PageOK
  <2> QED
    BY <1>3, <2>2, <2>3, <2>4 DEF PageOK, PendingOK, Verdict
<1>8. CASE verify_receipt_proof
  <2> DEFINE p == ver.pending
  <2>1. CASE ver' = [ver EXCEPT !.pending.stage = "root", !.pending.proof = verify_proof(p.receipt)]
    <3>1. verify_proof(p.receipt) \in BOOLEAN
      BY DEF verify_proof
    <3>2. /\ ver' \in Pages /\ ver'.pending.stage = "root" /\ ver'.pending.receipt = p.receipt
          /\ ver'.loaded = ver.loaded /\ ver'.summary = ver.summary
          /\ ver'.visible = ver.visible /\ ver'.result = ver.result
      BY <1>2, <2>1, <3>1 DEF Pages, Pendings
    <3>3. ver'.pending.proof = verify_proof(p.receipt)
      BY <1>2, <2>1, <3>1 DEF Pages, Pendings
    <3>4. p.stage # "none"
      BY <1>8 DEF verify_receipt_proof
    <3>5. PendingOK(ver.pending)'
      BY <1>3, <3>2, <3>3, <3>4 DEF DisclosureInv, PageOK, PendingOK, verify_proof
    <3>6. Verdict' => Verdict /\ ResultOK(ver.result)'
      BY <1>3, <1>4, <3>2 DEF DisclosureInv, PageOK, ResultOK, Verdict, verify_proof, verify_receipt_context
    <3> QED
      BY <1>3, <3>2, <3>4, <3>5, <3>6 DEF DisclosureInv, PageOK
  <2> QED
    BY <1>6, <1>8, <2>1 DEF verify_receipt_proof
<1>9. CASE check_known_root
  <2> DEFINE p == ver.pending
             known == is_known_root(p.receipt.root)
  <2>0. p.stage = "root"
    BY <1>9 DEF check_known_root
  <2>1. CASE ver' = [ver EXCEPT !.pending.stage = "context", !.pending.root = known]
    <3>1. FromIssued(p.receipt)
      BY <2>0 DEF DisclosureInv, PageOK, PendingOK
    <3>2. /\ p.receipt \in Files /\ p.receipt.root >= 1
          /\ verify_proof(p.receipt) => p.receipt.root \in 1..ledger.leaves
      BY <1>2, <3>1, VerifiedFile DEF DisclosureInv
    <3>3. p.receipt.root \in Nat
      BY <3>2 DEF Files
    <3>4. known \in BOOLEAN /\ Answered(p.receipt, known)
      BY <1>2, <3>2, <3>3, DisclosureAssumption DEF is_known_root, Answered
    <3> HIDE DEF known
    <3>5. /\ ver' \in Pages /\ ver'.pending.stage = "context" /\ ver'.pending.receipt = p.receipt
          /\ ver'.pending.proof = p.proof
          /\ ver'.loaded = ver.loaded /\ ver'.summary = ver.summary
          /\ ver'.visible = ver.visible /\ ver'.result = ver.result
      BY <1>2, <2>1, <3>4 DEF Pages, Pendings
    <3>6. ver'.pending.root = known
      BY <1>2, <2>1, <3>4 DEF Pages, Pendings
    <3>7. PendingOK(ver.pending)'
      BY <1>3, <1>4, <2>0, <3>4, <3>5, <3>6 DEF DisclosureInv, PageOK, PendingOK, verify_proof
    <3>8. Verdict' => Verdict /\ ResultOK(ver.result)'
      BY <1>3, <1>4, <3>5 DEF DisclosureInv, PageOK, ResultOK, Verdict, verify_proof, verify_receipt_context
    <3> QED
      BY <1>3, <2>0, <3>5, <3>7, <3>8 DEF DisclosureInv, PageOK
  <2> QED
    BY <1>6, <1>9, <2>1 DEF check_known_root
<1>10. CASE report
  <2> DEFINE p == ver.pending
             q == [kind |-> "report", receipt |-> p.receipt, proof |-> p.proof, root |-> p.root,
                   context |-> verify_receipt_context(p.receipt)]
  <2>1. p.stage = "context" /\ ends(q)
    BY <1>10 DEF report
  <2>2. verify_receipt_context(p.receipt) \in BOOLEAN
    BY DEF verify_receipt_context
  <2>3. /\ q \in Results /\ q.receipt = p.receipt /\ q.proof = p.proof /\ q.root = p.root
        /\ q.context = verify_receipt_context(p.receipt)
    BY <1>2, <2>2 DEF Results, Pendings
  <2> HIDE DEF q
  <2>4. /\ ver' \in Pages /\ ver'.pending = NotPending /\ ver'.result = q
        /\ ver'.loaded = ver.loaded /\ ver'.summary = ver.summary /\ ver'.visible = ver.visible
    BY <1>2, <1>5, <2>1, <2>3 DEF ends, Pages
  <2>5. PendingOK(p) /\ (ver.visible => p.receipt = ver.loaded)
    BY <2>1 DEF DisclosureInv, PageOK
  <2>6. ResultOK(ver.result)'
    BY <1>3, <1>4, <2>1, <2>3, <2>4, <2>5 DEF PendingOK, ResultOK, verify_proof, verify_receipt_context
  <2> QED
    BY <1>3, <1>5, <2>3, <2>4, <2>5, <2>6 DEF DisclosureInv, PageOK
<1>11. CASE verification_fails
  BY <1>6, <1>11 DEF verification_fails
<1> QED
  BY <1>7, <1>8, <1>9, <1>10, <1>11

-----------------------------------------------------------------------------
(* The theorems.                                                           *)

\* Of every behaviour of the two pages, the pool and the database: issued receipts
\* speak of roots the pool has had, and what the authority's page verifies or
\* reports is about the file it shows.
THEOREM DisclosureInvariant == DisclosureSpec => []DisclosureInv
<1>1. DisclosureInit => DisclosureInv
  <2> SUFFICES ASSUME DisclosureInit PROVE DisclosureInv
    OBVIOUS
  <2> USE DEF DisclosureInit
  <2>1. NotPending \in Pendings /\ NotPending.stage = "none"
    BY DEF NotPending, Pending, Pendings
  <2>2. ver \in Pages /\ ver.pending = NotPending /\ ver.summary = FALSE /\ ver.visible = FALSE
        /\ ver.result = Nil
    BY <2>1 DEF Pages
  <2>3. PageOK
    BY <2>1, <2>2 DEF PageOK, Verdict
  <2>4. ledger \in [leaves : Nat, spent : SUBSET OwnNotes]
    OBVIOUS
  <2>5. gen \in Generations /\ GenerationOK
    BY DEF Idling, Generations, GenerationOK
  <2>6. \A r \in receipts : Genuine(r)
    OBVIOUS
  <2> QED
    BY <2>2, <2>3, <2>4, <2>5, <2>6 DEF DisclosureInv
<1>2. DisclosureInv /\ [DisclosureNext]_disclosureVars => DisclosureInv'
  <2> SUFFICES ASSUME DisclosureInv, [DisclosureNext]_disclosureVars
               PROVE  DisclosureInv'
    OBVIOUS
  <2>1. CASE pool_transacts \/ local_processes
    BY <2>1, PoolAndDatabaseSteps
  <2>2. CASE click_generate \/ fetch_chain_state \/ disclosure_inputs \/ generation_fails
    BY <2>2, OwnerSteps
  <2>3. CASE prove_receipt
    BY <2>3, ProveStep
  <2>4. ASSUME ledger' = ledger, receipts' = receipts, gen' = gen, ver' \in Pages, PageOK'
        PROVE  DisclosureInv'
    BY <2>4 DEF DisclosureInv, GenerationOK, Genuine, context_validate
  <2>5. CASE load
    <3>1. ledger' = ledger /\ receipts' = receipts /\ gen' = gen
      BY <2>5 DEF load
    <3> QED
      BY <2>4, <2>5, <3>1, LoadStep
  <2>6. CASE \/ click_verify \/ verify_receipt_proof \/ check_known_root \/ report
             \/ verification_fails
    <3>1. ledger' = ledger /\ receipts' = receipts /\ gen' = gen
      BY <2>6 DEF click_verify, verify_receipt_proof, check_known_root, report, verification_fails
    <3> QED
      BY <2>4, <2>6, <3>1, VerificationSteps
  <2>7. CASE UNCHANGED disclosureVars
    <3>1. ledger' = ledger /\ receipts' = receipts /\ gen' = gen /\ ver' = ver
      BY <2>7 DEF disclosureVars
    <3>2. PageOK'
      BY <3>1, PageStays DEF DisclosureInv
    <3> QED
      BY <2>4, <3>1, <3>2 DEF DisclosureInv
  <2> QED
    BY <2>1, <2>2, <2>3, <2>5, <2>6, <2>7 DEF DisclosureNext
<1> QED
  BY <1>1, <1>2, PTL DEF DisclosureSpec

\* The badge "fully verified" is always about the receipt the authority reads, and
\* context, note and root are those of an issued receipt, whatever was edited.
THEOREM VerdictsAreTrue == DisclosureSpec => []VerdictIsTrue
<1>1. DisclosureInv => VerdictIsTrue
  <2> SUFFICES ASSUME DisclosureInv, ver.visible, FullyVerified
               PROVE  /\ ver.summary => ver.result.receipt = ver.loaded
                      /\ \E r \in receipts : /\ ver.result.receipt.context = r.context
                                             /\ ver.result.receipt.commitment = r.commitment
                      /\ ver.result.receipt.root \in 1..ledger.leaves
                      /\ SelectiveDisclosure(ver.result.receipt.commitment, ver.result.receipt.root)
    BY DEF VerdictIsTrue
  <2>1. ResultOK(ver.result) /\ ver.result.receipt = ver.loaded
    BY DEF FullyVerified, DisclosureInv, PageOK
  <2>2. verify_proof(ver.result.receipt) /\ verify_receipt_context(ver.result.receipt)
    BY <2>1 DEF FullyVerified, ResultOK
  <2>3. FromIssued(ver.result.receipt)
    BY <2>1 DEF ResultOK
  <2> QED
    BY <2>1, <2>2, <2>3, VerifiedFile DEF DisclosureInv
<1> QED
  BY <1>1, DisclosureInvariant, PTL

\* A receipt as it was issued passes the checks of proof and context for ever; its
\* root is refused only when the pool has moved past its history.
THEOREM HonestReceiptsPass == DisclosureSpec => []HonestReceiptPasses
<1>1. DisclosureInv => HonestReceiptPasses
  <2> SUFFICES ASSUME DisclosureInv, Verdict, ver.result.receipt \in receipts
               PROVE  /\ ver.result.proof /\ ver.result.context
                      /\ ver.result.root \/ ledger.leaves - ver.result.receipt.root >= KnownRoots
    BY DEF HonestReceiptPasses
  <2>1. ResultOK(ver.result) /\ Genuine(ver.result.receipt)
    BY DEF DisclosureInv, PageOK
  <2>2. verify_proof(ver.result.receipt) /\ verify_receipt_context(ver.result.receipt)
    BY <2>1, HonestParts DEF Genuine
  <2>3. ver.result \in Results
    BY DEF DisclosureInv, Pages, Verdict
  <2>4. ver.result.proof /\ ver.result.context
    BY <2>1, <2>2 DEF ResultOK
  <2>5. ver.result.root \/ ledger.leaves - ver.result.receipt.root >= KnownRoots
    BY <2>1, <2>2, <2>3 DEF ResultOK, Answered, Results
  <2> QED
    BY <2>4, <2>5
<1> QED
  BY <1>1, DisclosureInvariant, PTL
=============================================================================
