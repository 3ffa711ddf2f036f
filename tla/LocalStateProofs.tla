-------------------------- MODULE LocalStateProofs --------------------------
(***************************************************************************)
(* Proofs about the wallet's database, for any accounts, pools, batch      *)
(* sizes, pages and bounds: its tables, its notes and what it shows when   *)
(* the processor rests.                                                    *)
(***************************************************************************)
EXTENDS LocalState, FiniteSetTheorems, WellFoundedInduction, TLAPS

-----------------------------------------------------------------------------
(* The inductive invariant.                                                *)

Owner == Account \union {Stranger}
Event ==
  [kind : {"nullifier"}, ledger : Nat, pool : Pool, nullifier : Nat \X Nat]
    \union [kind : {"commitment"}, ledger : Nat, pool : Pool, commitment : Nat, index : Nat,
            owner : Owner, text : Ciphertexts]
    \union [kind : {"leaf"}, ledger : Nat, leaf : Owner, index : Nat]
    \union [kind : {"unhandled"}, ledger : Nat]

\* The events S of c carry the n numbers from b on in a field, in order.
Counts(c, S, field, b, n) ==
  /\ \A i \in S : c[i][field] \in b..(b + n - 1)
  /\ \A i, j \in S : i < j => c[i][field] < c[j][field]
  /\ \A v \in b..(b + n - 1) : \E i \in S : c[i][field] = v

\* The contracts number commitments and leaves, and spend a note once.
ChainOK ==
  /\ chain \in Seq(Event) /\ ledger \in Nat
  /\ \A i \in 1..Len(chain) : chain[i].ledger <= ledger
  /\ \A i, j \in 1..Len(chain) : i <= j => chain[i].ledger <= chain[j].ledger
  /\ \E n \in Nat : Counts(chain, Numbers("commitment"), "commitment", 1, n)
  /\ \A p \in Pool : \E n \in Nat : Counts(chain, Commitments(p), "index", 0, n)
  /\ \E n \in Nat : Counts(chain, Numbers("leaf"), "index", 0, n)
  /\ \A j \in Numbers("nullifier") :
       \/ chain[j].nullifier = <<0, j>>
       \/ \E i \in Numbers("commitment") : chain[i].pool = chain[j].pool /\ chain[j].nullifier = SpentBy(i)
  /\ \A i, j \in Numbers("nullifier") : chain[i].nullifier = chain[j].nullifier => i = j

\* A table that has an event of a kind has all earlier ones.
Closed(S, kind) == \A i \in S : \A j \in Numbers(kind) : j < i => j \in S

\* The tables hold the oldest events of their kinds, each once, and the batch in
\* work the oldest ones without a row.
TablesOK ==
  /\ pool_commitments \in Seq(Nat) /\ IsInjective(pool_commitments)
  /\ pool_nullifiers \in Seq(Nat) /\ IsInjective(pool_nullifiers)
  /\ asp_leaves \in [DOMAIN asp_leaves -> Nat]
  /\ \A k \in DOMAIN asp_leaves : chain[asp_leaves[k]].index = k
  /\ Closed(Range(pool_commitments), "commitment")
  /\ Closed(Range(pool_nullifiers), "nullifier")
  /\ Closed(Range(asp_leaves), "leaf")

WorkOK ==
  /\ work \in [batch : SUBSET Nat, pools : Seq(Pool), at : Nat, did : BOOLEAN]
  /\ IsFiniteSet(keys)
  /\ pc \in {"nullifiers", "commitments", "leaves"} =>
       /\ work.batch \subseteq 1..raw
       /\ \A i \in work.batch : \A j \in Unprocessed : j < i => j \in work.batch
  /\ work.at >= 1

\* Nullifier row j spends commitment row i.
Spends(j, i) ==
  /\ chain[pool_nullifiers[j]].pool = chain[pool_commitments[i]].pool
  /\ chain[pool_nullifiers[j]].nullifier = SpentBy(pool_commitments[i])

\* A note belongs to its owner, is spent by the row it names, and is marked as
\* spent when the row that spends it is behind the mark; a note behind its
\* owner's scan is there.
NotesOK ==
  /\ user_notes \in [DOMAIN user_notes -> [account : Account, nullifier_id : Nat]]
  /\ \A i \in DOMAIN user_notes :
       /\ chain[pool_commitments[i]].owner = user_notes[i].account
       /\ chain[pool_commitments[i]].text # "short"
       /\ user_notes[i].nullifier_id # 0 => Spends(user_notes[i].nullifier_id, i)
       /\ user_notes[i].nullifier_id = 0 =>
            \A j \in 1..Len(pool_nullifiers) :
              Spends(j, i) => j > nullifier_scan[chain[pool_commitments[i]].pool]
  /\ \A p \in Pool, a \in Account : \A i \in RowsOf(pool_commitments, p) :
       i <= scan[p][a] /\ chain[pool_commitments[i]].owner = a => i \in DOMAIN user_notes

ScannedPool(p) == \A a \in keys : \A i \in RowsOf(pool_commitments, p) : i <= scan[p][a]
ReconciledPool(p) == \A j \in RowsOf(pool_nullifiers, p) : j <= nullifier_scan[p]

\* No ciphertext on the chain is too short to be read.
NoShort == \A i \in Numbers("commitment") : chain[i].text # "short"

\* An iteration that has found nothing to do so far has left nothing behind it.
RestOK ==
  /\ pc = "scan" /\ ~ work.did =>
       /\ Unprocessed = {}
       /\ keys # {} => work.pools = PoolsOf(pool_commitments)
       /\ \A k \in 1..Len(work.pools) : k < work.at => ScannedPool(work.pools[k])
  /\ pc = "reconcile" /\ ~ work.did =>
       /\ Unprocessed = {} /\ \A p \in Pool : ScannedPool(p)
       /\ work.pools = PoolsOf(pool_nullifiers)
       /\ \A k \in 1..Len(work.pools) : k < work.at => ReconciledPool(work.pools[k])
  /\ pc = "idle" /\ ~ kicked =>
       Unprocessed = {} /\ \A p \in Pool : ScannedPool(p) /\ ReconciledPool(p)

IInv == ChainOK /\ TypeOK /\ TablesOK /\ WorkOK /\ NotesOK /\ (NoShort => RestOK)
-----------------------------------------------------------------------------
(* Finite sets of numbers, in order.                                       *)

\* Every set of natural numbers that is not empty has a least element.
LEMMA Least ==
  ASSUME NEW T, T \subseteq Nat, T # {}
  PROVE  \E x \in T : \A y \in T : x <= y
<1> DEFINE R == OpToRel(<, Nat)
<1>1. IsWellFoundedOn(R, Nat)
  BY NatLessThanWellFounded, Zenon
<1>2. \A x, y \in Nat : y < x => <<y, x>> \in R
  BY DEF OpToRel
<1> HIDE DEF R
<1>3. PICK x \in T : \A y \in T : ~ (<<y, x>> \in R)
  BY <1>1, WFMin
<1>4. ASSUME NEW y \in T PROVE x <= y
  <2>1. x \in Nat /\ y \in Nat /\ ~ (<<y, x>> \in R)
    BY <1>3
  <2>2. ~ (y < x)
    BY <1>2, <2>1
  <2> QED
    BY <2>1, <2>2
<1> QED
  BY <1>4

\* Every bounded one has a greatest element.
LEMMA Greatest ==
  ASSUME NEW n \in Nat, NEW T, T \subseteq 0..n, T # {}
  PROVE  \E x \in T : \A y \in T : y <= x
<1> DEFINE D == {n - x : x \in T}
<1>0. \A x \in T : x \in 0..n /\ n - x \in Nat
  OBVIOUS
<1>1. D \subseteq Nat /\ D # {}
  BY <1>0
<1>2. PICK d \in D : \A y \in D : d <= y
  BY <1>1, Least
<1>3. PICK m \in T : d = n - m
  OBVIOUS
<1>4. \A y \in T : m >= y
  <2> TAKE y \in T
  <2>1. n - y \in D /\ y \in 0..n /\ m \in 0..n
    OBVIOUS
  <2>2. n - m <= n - y
    BY <1>2, <1>3, <2>1
  <2> QED
    BY <2>1, <2>2
<1>5. m \in 0..n /\ \A y \in T : y \in 0..n /\ y <= m
  BY <1>4
<1> QED
  BY <1>5

\* Min and Max are what they say.
LEMMA MinMax ==
  ASSUME NEW n \in Nat, NEW T, T \subseteq 0..n, T # {}
  PROVE  /\ Min(T) \in T /\ \A y \in T : Min(T) <= y
         /\ Max(T) \in T /\ \A y \in T : y <= Max(T)
<1>1. \E x \in T : \A y \in T : x <= y
  <2>1. T \subseteq Nat
    OBVIOUS
  <2> QED
    BY <2>1, Least
<1>2. Min(T) \in T /\ \A y \in T : Min(T) <= y
  BY <1>1 DEF Min
<1>3. \E x \in T : \A y \in T : x >= y
  <2>1. PICK x \in T : \A y \in T : y <= x
    BY Greatest
  <2>2. \A y \in T : x >= y
    <3> TAKE y \in T
    <3>1. x \in 0..n /\ y \in 0..n /\ y <= x
      BY <2>1
    <3> QED
      BY <3>1
  <2> QED
    BY <2>2
<1>4. Max(T) \in T /\ \A y \in T : Max(T) >= y
  BY <1>3 DEF Max
<1>5. \A y \in T : y <= Max(T)
  <2> TAKE y \in T
  <2>1. Max(T) \in 0..n /\ y \in 0..n /\ Max(T) >= y
    BY <1>4
  <2> QED
    BY <2>1
<1> QED
  BY <1>2, <1>4, <1>5

\* Elements of a set are ranked 0, 1, 2 and so on by how many are below them.
LEMMA Ranks ==
  ASSUME NEW S, S \subseteq Nat, IsFiniteSet(S)
  PROVE  /\ Cardinality(S) \in Nat
         /\ \A x \in S : Cardinality(Below(S, x)) \in 0..(Cardinality(S) - 1)
         /\ \A x, y \in S : x < y => Cardinality(Below(S, x)) < Cardinality(Below(S, y))
         /\ \A k \in 0..(Cardinality(S) - 1) : \E x \in S : Cardinality(Below(S, x)) = k
<1> DEFINE rank == [x \in S |-> Cardinality(Below(S, x))]
           T == 0..(Cardinality(S) - 1)
<1>1. Cardinality(S) \in Nat
  BY FS_CardinalityType
<1>2. ASSUME NEW x \in S
      PROVE  /\ IsFiniteSet(Below(S, x)) /\ Cardinality(Below(S, x)) \in Nat
             /\ x \notin Below(S, x)
  <2>1. Below(S, x) \in SUBSET S /\ x \notin Below(S, x)
    BY DEF Below
  <2>2. IsFiniteSet(Below(S, x))
    BY <2>1, FS_Subset
  <2> QED
    BY <2>1, <2>2, FS_CardinalityType
<1>3. ASSUME NEW x \in S PROVE Cardinality(Below(S, x)) \in T
  <2>1. /\ IsFiniteSet(S \ {x}) /\ Cardinality(S \ {x}) = Cardinality(S) - 1
    BY FS_RemoveElement
  <2>2. Below(S, x) \in SUBSET (S \ {x})
    BY <1>2 DEF Below
  <2>3. Cardinality(Below(S, x)) <= Cardinality(S \ {x})
    BY <2>1, <2>2, FS_Subset
  <2> QED
    BY <1>1, <1>2, <2>1, <2>3
<1>4. ASSUME NEW x \in S, NEW y \in S, x < y
      PROVE  Cardinality(Below(S, x)) < Cardinality(Below(S, y))
  <2>1. Cardinality(Below(S, x) \union {x}) = Cardinality(Below(S, x)) + 1
    BY <1>2, FS_AddElement
  <2>2. Below(S, x) \union {x} \in SUBSET Below(S, y)
    <3>1. x \in Nat /\ y \in Nat
      OBVIOUS
    <3>2. ASSUME NEW z \in Below(S, x) PROVE z \in Below(S, y)
      <4>1. z \in S /\ z \in Nat /\ z < x
        BY DEF Below
      <4>2. z < y
        BY <1>4, <3>1, <4>1
      <4> QED
        BY <4>1, <4>2 DEF Below
    <3>3. x \in Below(S, y)
      BY <1>4 DEF Below
    <3> QED
      BY <3>2, <3>3
  <2>3. Cardinality(Below(S, x) \union {x}) <= Cardinality(Below(S, y))
    BY <1>2, <2>2, FS_Subset
  <2> QED
    BY <1>2, <2>1, <2>3
<1>5. rank \in Injection(S, T)
  <2>1. rank \in [S -> T]
    BY <1>3
  <2>2. ASSUME NEW x \in S, NEW y \in S, rank[x] = rank[y] PROVE x = y
    <3>1. ~ (x < y) /\ ~ (y < x)
      BY <1>2, <1>4, <2>2
    <3> QED
      BY <3>1
  <2> QED
    BY <2>1, <2>2 DEF Injection, IsInjective
<1>6. IsFiniteSet(T) /\ Cardinality(T) = Cardinality(S)
  <2>1. 0 \in Int /\ Cardinality(S) - 1 \in Int
    BY <1>1
  <2>2. IsFiniteSet(T) /\ Cardinality(T) = IF 0 > Cardinality(S) - 1 THEN 0 ELSE (Cardinality(S) - 1) - 0 + 1
    BY <2>1, FS_Interval
  <2> QED
    BY <1>1, <2>2
<1>7. rank \in Surjection(S, T)
  BY <1>5, <1>6, FS_Injection
<1>8. \A k \in T : \E x \in S : rank[x] = k
  BY <1>7 DEF Surjection
<1> QED
  BY <1>1, <1>3, <1>4, <1>8

\* InOrder lists the elements of a set once each, in order.
LEMMA Sorts ==
  ASSUME NEW S, S \subseteq Nat, IsFiniteSet(S)
  PROVE  LET s == InOrder(S) IN
         /\ Cardinality(S) \in Nat /\ Len(s) = Cardinality(S)
         /\ s \in [1..Cardinality(S) -> S] /\ s \in Seq(S)
         /\ \A i, j \in 1..Cardinality(S) : i < j => s[i] < s[j]
         /\ \A x \in S : \E i \in 1..Cardinality(S) : s[i] = x
         /\ \A k \in 1..Cardinality(S) : Cardinality(Below(S, s[k])) = k - 1
<1> DEFINE s == InOrder(S)
           N == Cardinality(S)
           rank(x) == Cardinality(Below(S, x))
<1>1. N \in Nat
  BY Ranks
<1>2. ASSUME NEW k \in 1..N PROVE s[k] \in S /\ rank(s[k]) = k - 1
  <2>1. k - 1 \in 0..(N - 1)
    BY <1>1
  <2>2. \E x \in S : rank(x) = k - 1
    BY <2>1, Ranks
  <2>3. s[k] = CHOOSE x \in S : rank(x) = k - 1
    BY DEF InOrder
  <2> HIDE DEF rank, s
  <2> QED
    BY <2>2, <2>3
<1>3. s \in [1..N -> S]
  BY <1>2 DEF InOrder
<1>4. \A x, y \in S : x < y => rank(x) < rank(y)
  BY Ranks
<1>5. \A x \in S : rank(x) \in 0..(N - 1)
  BY Ranks
<1> HIDE DEF s, rank, N
<1>6. Len(s) = N /\ s \in Seq(S)
  BY <1>1, <1>3
<1>7. ASSUME NEW i \in 1..N, NEW j \in 1..N, i < j PROVE s[i] < s[j]
  <2>1. s[i] \in Nat /\ s[j] \in Nat /\ rank(s[i]) = i - 1 /\ rank(s[j]) = j - 1
    BY <1>2
  <2>2. ~ (s[j] < s[i])
    BY <1>1, <1>2, <1>4, <1>7, <2>1
  <2>3. s[i] # s[j]
    BY <1>1, <1>7, <2>1
  <2> QED
    BY <2>1, <2>2, <2>3
<1>8. ASSUME NEW x \in S PROVE \E i \in 1..N : s[i] = x
  <2>1. rank(x) \in 0..(N - 1)
    BY <1>5
  <2> DEFINE i == rank(x) + 1
  <2>2. i \in 1..N /\ i - 1 = rank(x)
    BY <1>1, <2>1
  <2>3. s[i] \in S /\ rank(s[i]) = rank(x)
    BY <1>2, <2>2
  <2>4. rank(x) \in Nat
    BY <1>1, <2>1
  <2> HIDE DEF i
  <2>5. ~ (s[i] < x) /\ ~ (x < s[i])
    <3>1. s[i] < x => rank(s[i]) < rank(x)
      BY <1>4, <2>3
    <3>2. x < s[i] => rank(x) < rank(s[i])
      BY <1>4, <2>3
    <3> QED
      BY <2>3, <2>4, <3>1, <3>2
  <2>6. s[i] = x
    <3>1. s[i] \in Nat /\ x \in Nat
      BY <2>3
    <3> QED
      BY <2>5, <3>1
  <2> QED
    BY <2>2, <2>6
<1>9. /\ N \in Nat /\ Len(s) = N /\ s \in [1..N -> S] /\ s \in Seq(S)
      /\ \A i, j \in 1..N : i < j => s[i] < s[j]
      /\ \A x \in S : \E i \in 1..N : s[i] = x
      /\ \A k \in 1..N : rank(s[k]) = k - 1
  BY <1>1, <1>2, <1>3, <1>6, <1>7, <1>8
<1> QED
  BY <1>9 DEF s, N, rank

\* First takes the n least elements: none only if there are none, and no gap.
LEMMA FirstFacts ==
  ASSUME NEW S, S \subseteq Nat, IsFiniteSet(S), NEW n \in Int
  PROVE  /\ First(S, n) \subseteq S /\ IsFiniteSet(First(S, n))
         /\ n >= 1 /\ S # {} => First(S, n) # {}
         /\ \A x \in First(S, n) : \A y \in S : y < x => y \in First(S, n)
<1>1. First(S, n) \in SUBSET S
  BY DEF First
<1>2. IsFiniteSet(First(S, n))
  BY <1>1, FS_Subset
<1>3. ASSUME n >= 1, S # {} PROVE First(S, n) # {}
  <2>1. Cardinality(S) \in Nat /\ Cardinality(S) # 0
    BY <1>3, FS_CardinalityType, FS_EmptySet
  <2>2. 0 \in 0..(Cardinality(S) - 1)
    BY <2>1
  <2>3. PICK x \in S : Cardinality(Below(S, x)) = 0
    BY <2>2, Ranks
  <2>4. x \in First(S, n)
    BY <1>3, <2>3 DEF First
  <2> QED
    BY <2>4
<1>4. ASSUME NEW x \in First(S, n), NEW y \in S, y < x PROVE y \in First(S, n)
  <2>1. x \in S /\ Cardinality(Below(S, x)) < n
    BY DEF First
  <2>2. Cardinality(Below(S, y)) < Cardinality(Below(S, x))
    BY <1>4, <2>1, Ranks
  <2>3. Cardinality(Below(S, y)) \in 0..(Cardinality(S) - 1) /\ Cardinality(Below(S, x)) \in 0..(Cardinality(S) - 1) /\ Cardinality(S) \in Nat
    BY <2>1, Ranks
  <2>4. Cardinality(Below(S, y)) < n
    BY <2>1, <2>2, <2>3
  <2> QED
    BY <2>4 DEF First
<1> QED
  BY <1>1, <1>2, <1>3, <1>4

-----------------------------------------------------------------------------
(* The chain.                                                              *)

\* What the fields of an event are.
LEMMA EventFields ==
  ASSUME ChainOK, NEW i \in 1..Len(chain)
  PROVE  /\ chain[i].kind \in {"nullifier", "commitment", "leaf", "unhandled"}
         /\ chain[i].ledger \in Nat
         /\ chain[i].kind = "nullifier" => chain[i].pool \in Pool /\ chain[i].nullifier \in Nat \X Nat
         /\ chain[i].kind = "commitment" => /\ chain[i].pool \in Pool /\ chain[i].commitment \in Nat
                                            /\ chain[i].index \in Nat /\ chain[i].owner \in Owner
                                            /\ chain[i].text \in Ciphertexts
         /\ chain[i].kind = "leaf" => chain[i].index \in Nat /\ chain[i].leaf \in Owner
<1>1. chain[i] \in Event
  BY DEF ChainOK
<1> QED
  BY <1>1 DEF Event

\* Every event of a kind the wallet knows parses as what it is.
LEMMA Parses ==
  ASSUME ChainOK, NEW i \in 1..Len(chain), NEW kind \in {"nullifier", "commitment", "leaf"}
  PROVE  parse_event(i) = kind <=> chain[i].kind = kind
<1>1. chain[i] \in Event
  BY DEF ChainOK
<1>2. CASE chain[i] \in [kind : {"nullifier"}, ledger : Nat, pool : Pool, nullifier : Nat \X Nat]
  <2>1. chain[i].kind = "nullifier" /\ "nullifier" \in DOMAIN chain[i]
    BY <1>2
  <2> QED
    BY <2>1 DEF parse_event, Fields
<1>3. CASE chain[i] \in [kind : {"commitment"}, ledger : Nat, pool : Pool, commitment : Nat, index : Nat,
                         owner : Owner, text : Ciphertexts]
  <2>1. /\ chain[i].kind = "commitment"
        /\ {"commitment", "index", "text"} \subseteq DOMAIN chain[i]
    BY <1>3
  <2> QED
    BY <2>1 DEF parse_event, Fields
<1>4. CASE chain[i] \in [kind : {"leaf"}, ledger : Nat, leaf : Owner, index : Nat]
  <2>1. chain[i].kind = "leaf" /\ {"leaf", "index"} \subseteq DOMAIN chain[i]
    BY <1>4
  <2> QED
    BY <2>1 DEF parse_event, Fields
<1>5. CASE chain[i] \in [kind : {"unhandled"}, ledger : Nat]
  <2>1. chain[i].kind = "unhandled"
    BY <1>5
  <2> QED
    BY <2>1 DEF parse_event, Fields
<1> QED
  BY <1>1, <1>2, <1>3, <1>4, <1>5 DEF Event

\* The elements of a concatenation.
LEMMA Concat ==
  ASSUME NEW X, NEW a \in Seq(X), NEW b \in Seq(X), NEW L, L = Len(a), NEW n, n = Len(b)
  PROVE  /\ a \o b \in Seq(X) /\ L \in Nat /\ n \in Nat /\ Len(a \o b) = L + n
         /\ \A i \in 1..L : (a \o b)[i] = a[i]
         /\ \A k \in 1..n : (a \o b)[L + k] = b[k]
<1>1. a \o b \in Seq(X) /\ L \in Nat /\ n \in Nat /\ Len(a \o b) = L + n
  OBVIOUS
<1>2. \A i \in 1..L : (a \o b)[i] = a[i]
  OBVIOUS
<1>3. ASSUME NEW k \in 1..n PROVE (a \o b)[L + k] = b[k]
  <2>1. L + k \in 1..(L + n) /\ L + k > L /\ (L + k) - L = k
    BY <1>1
  <2> QED
    BY <2>1
<1> QED
  BY <1>1, <1>2, <1>3

\* Numbered events are as many as their numbers.
LEMMA CountsAll ==
  ASSUME NEW c, NEW S, NEW field, NEW b \in Nat, NEW n \in Nat, S \subseteq Nat, Counts(c, S, field, b, n)
  PROVE  /\ IsFiniteSet(S) /\ Cardinality(S) = n
         /\ \A i, j \in S : c[i][field] = c[j][field] => i = j
<1> DEFINE T == b..(b + n - 1)
           f == [i \in S |-> c[i][field]]
<1>1. \A i, j \in S : c[i][field] = c[j][field] => i = j
  <2> SUFFICES ASSUME NEW i \in S, NEW j \in S, c[i][field] = c[j][field] PROVE i = j
    OBVIOUS
  <2>1. c[i][field] \in T /\ i \in Nat /\ j \in Nat
    BY DEF Counts
  <2>2. c[i][field] \in Int
    BY <2>1
  <2>3. ~ (i < j) /\ ~ (j < i)
    BY <2>2 DEF Counts
  <2> QED
    BY <2>1, <2>3
<1>2. f \in Injection(S, T) /\ f \in Surjection(S, T)
  BY <1>1 DEF Counts, Injection, IsInjective, Surjection
<1>3. IsFiniteSet(T) /\ Cardinality(T) = n
  <2>1. b \in Int /\ b + n - 1 \in Int
    OBVIOUS
  <2>2. IsFiniteSet(T) /\ Cardinality(T) = IF b > b + n - 1 THEN 0 ELSE (b + n - 1) - b + 1
    BY <2>1, FS_Interval
  <2> QED
    BY <2>2
<1> HIDE DEF T, f
<1> QED
  BY <1>1, <1>2, <1>3, FS_Injection

\* Events at consecutive places that carry consecutive numbers.
LEMMA CountsNew ==
  ASSUME NEW d, NEW field, NEW e \in Nat, NEW m \in Nat, NEW o \in Nat,
         \A k \in 1..m : d[o + k][field] = e + k - 1,
         NEW new, \A i : i \in new <=> \E k \in 1..m : i = o + k
  PROVE  Counts(d, new, field, e, m)
<1>1. ASSUME NEW i \in new PROVE d[i][field] \in e..(e + m - 1)
  <2>1. PICK k \in 1..m : i = o + k
    OBVIOUS
  <2>2. d[i][field] = e + k - 1
    BY <2>1
  <2> QED
    BY <2>2
<1>2. ASSUME NEW i \in new, NEW j \in new, i < j PROVE d[i][field] < d[j][field]
  <2>1. PICK k \in 1..m : i = o + k
    OBVIOUS
  <2>2. PICK l \in 1..m : j = o + l
    OBVIOUS
  <2>3. d[i][field] = e + k - 1 /\ d[j][field] = e + l - 1 /\ k < l
    BY <1>2, <2>1, <2>2
  <2> QED
    BY <2>3
<1>3. ASSUME NEW v \in e..(e + m - 1) PROVE \E i \in new : d[i][field] = v
  <2> DEFINE k == v - e + 1
  <2>1. k \in 1..m /\ e + k - 1 = v
    OBVIOUS
  <2> HIDE DEF k
  <2>2. o + k \in new /\ d[o + k][field] = v
    BY <2>1
  <2> QED
    BY <2>2
<1> QED
  BY <1>1, <1>2, <1>3 DEF Counts

\* Appending events with the next numbers keeps them numbered.
LEMMA CountsGrow ==
  ASSUME NEW c, NEW d, NEW S, \A i \in S : d[i] = c[i],
         NEW field, NEW b \in Nat, NEW n \in Nat, Counts(c, S, field, b, n),
         NEW m \in Nat, NEW new, NEW e, e = b + n, Counts(d, new, field, e, m),
         \A i \in S : \A j \in new : i < j, S \subseteq Nat, new \subseteq Nat
  PROVE  Counts(d, S \union new, field, b, n + m)
<1>1. ASSUME NEW i \in S PROVE d[i][field] = c[i][field] /\ c[i][field] \in b..(b + n - 1)
  BY DEF Counts
<1>2. ASSUME NEW i \in new PROVE d[i][field] \in (b + n)..(b + n + m - 1)
  BY DEF Counts
<1>3. ASSUME NEW i \in S \union new PROVE d[i][field] \in b..(b + (n + m) - 1)
  <2>1. CASE i \in S
    BY <1>1, <2>1
  <2>2. CASE i \in new
    BY <1>2, <2>2
  <2> QED
    BY <2>1, <2>2
<1>4. ASSUME NEW i \in S \union new, NEW j \in S \union new, i < j
      PROVE  d[i][field] < d[j][field]
  <2>1. CASE i \in S /\ j \in S
    BY <1>1, <1>4, <2>1 DEF Counts
  <2>2. CASE i \in S /\ j \in new
    BY <1>1, <1>2, <2>2
  <2>3. CASE i \in new /\ j \in S
    <3>1. j < i /\ i \in Nat /\ j \in Nat
      BY <2>3
    <3> QED
      BY <1>4, <3>1
  <2>4. CASE i \in new /\ j \in new
    BY <1>4, <2>4 DEF Counts
  <2> QED
    BY <2>1, <2>2, <2>3, <2>4
<1>5. ASSUME NEW v \in b..(b + (n + m) - 1) PROVE \E i \in S \union new : d[i][field] = v
  <2>0. v \in Int /\ b + n - 1 \in Int
    OBVIOUS
  <2>1. CASE v <= b + n - 1
    <3>1. v \in b..(b + n - 1)
      BY <2>1
    <3>2. PICK i \in S : c[i][field] = v
      BY <3>1 DEF Counts
    <3> QED
      BY <1>1, <3>2
  <2>2. CASE v > b + n - 1
    <3>1. v \in e..(e + m - 1)
      BY <2>2
    <3>2. PICK i \in new : d[i][field] = v
      BY <3>1 DEF Counts
    <3> QED
      BY <3>2
  <2>3. v <= b + n - 1 \/ v > b + n - 1
    BY <2>0
  <2> HIDE DEF Counts
  <2> QED
    BY <2>1, <2>2, <2>3, Zenon
<1> QED
  BY <1>3, <1>4, <1>5 DEF Counts

\* A set without new events stays numbered.
LEMMA CountsStay ==
  ASSUME NEW c, NEW d, NEW L \in Nat, NEW S, S \subseteq 1..L, \A i \in 1..L : d[i] = c[i],
         NEW field, NEW b \in Nat, NEW n \in Nat, Counts(c, S, field, b, n)
  PROVE  Counts(d, S, field, b, n)
<1>1. \A i \in S : d[i][field] = c[i][field]
  OBVIOUS
<1> QED
  BY <1>1 DEF Counts

\* The chain grew by events of the next ledger.
Appended ==
  /\ chain' \in Seq(Event) /\ Len(chain') >= Len(chain) /\ ledger' = ledger + 1
  /\ \A i \in 1..Len(chain) : chain'[i] = chain[i]
  /\ \A i \in (Len(chain) + 1)..Len(chain') : chain'[i].ledger = ledger + 1

\* The positions of the new events.
NewOf(kind) == {i \in (Len(chain) + 1)..Len(chain') : chain'[i].kind = kind}

\* The events of a kind, old and new, and the ledgers in order.
LEMMA Appends ==
  ASSUME ChainOK, Appended
  PROVE  /\ \A kind : Numbers(kind)' = Numbers(kind) \union NewOf(kind)
         /\ \A i \in 1..Len(chain') : chain'[i].ledger <= ledger'
         /\ \A i, j \in 1..Len(chain') : i <= j => chain'[i].ledger <= chain'[j].ledger
         /\ Len(chain) \in Nat /\ Len(chain') \in Nat
<1>1. Len(chain) \in Nat /\ Len(chain') \in Nat /\ ledger \in Nat
  BY DEF ChainOK, Appended
<1>2. \A i \in 1..Len(chain) : chain[i].ledger \in Nat
  BY EventFields
<1>3. ASSUME NEW i \in 1..Len(chain')
      PROVE  \/ i \in 1..Len(chain) /\ chain'[i] = chain[i]
             \/ i \in (Len(chain) + 1)..Len(chain') /\ chain'[i].ledger = ledger + 1
  BY <1>1 DEF Appended
<1>4. ASSUME NEW kind PROVE Numbers(kind)' = Numbers(kind) \union NewOf(kind)
  <2>1. Len(chain') >= Len(chain) /\ \A i \in 1..Len(chain) : chain'[i] = chain[i]
    BY DEF Appended
  <2> QED
    BY <1>1, <2>1 DEF Numbers, NewOf
<1>5. ASSUME NEW i \in 1..Len(chain') PROVE chain'[i].ledger <= ledger'
  <2>1. ledger' = ledger + 1 /\ \A j \in 1..Len(chain) : chain[j].ledger <= ledger
    BY DEF Appended, ChainOK
  <2> QED
    BY <1>1, <1>2, <1>3, <2>1
<1>6. ASSUME NEW i \in 1..Len(chain'), NEW j \in 1..Len(chain'), i <= j
      PROVE  chain'[i].ledger <= chain'[j].ledger
  <2>1. CASE j \in 1..Len(chain)
    <3>1. i \in 1..Len(chain)
      BY <1>1, <1>6, <2>1
    <3> QED
      BY <1>6, <2>1, <3>1 DEF ChainOK, Appended
  <2>2. CASE j \notin 1..Len(chain)
    <3>1. chain'[j].ledger = ledger'
      BY <1>3, <2>2 DEF Appended
    <3> QED
      BY <1>5, <3>1
  <2> QED
    BY <2>1, <2>2
<1> QED
  BY <1>1, <1>4, <1>5, <1>6

\* Where no nullifier is new, the spent notes stay as they are.
LEMMA SpendsStay ==
  ASSUME ChainOK, Appended, NewOf("nullifier") = {}
  PROVE  /\ \A j \in Numbers("nullifier")' :
              \/ chain'[j].nullifier = <<0, j>>
              \/ \E i \in Numbers("commitment")' :
                   chain'[i].pool = chain'[j].pool /\ chain'[j].nullifier = SpentBy(i)'
         /\ \A i, j \in Numbers("nullifier")' : chain'[i].nullifier = chain'[j].nullifier => i = j
<1>1. /\ Numbers("nullifier")' = Numbers("nullifier")
      /\ Numbers("commitment") \subseteq Numbers("commitment")'
  BY Appends
<1>2. \A j \in Numbers("nullifier") : chain'[j] = chain[j]
  BY DEF Numbers, Appended
<1>3. \A i \in Numbers("commitment") : chain'[i] = chain[i] /\ SpentBy(i)' = SpentBy(i)
  BY DEF Numbers, SpentBy, Appended
<1>4. ASSUME NEW j \in Numbers("nullifier")
      PROVE  \/ chain'[j].nullifier = <<0, j>>
             \/ \E i \in Numbers("commitment")' :
                  chain'[i].pool = chain'[j].pool /\ chain'[j].nullifier = SpentBy(i)'
  <2>1. CASE chain[j].nullifier = <<0, j>>
    BY <1>2, <2>1
  <2>2. CASE \E i \in Numbers("commitment") : chain[i].pool = chain[j].pool /\ chain[j].nullifier = SpentBy(i)
    BY <1>1, <1>2, <1>3, <2>2
  <2> QED
    BY <2>1, <2>2 DEF ChainOK
<1>5. \A i, j \in Numbers("nullifier") : chain'[i].nullifier = chain'[j].nullifier => i = j
  BY <1>2 DEF ChainOK
<1> QED
  BY <1>1, <1>4, <1>5

\* A broken event changes no numbering.
LEMMA BrokenKeepsChain ==
  ASSUME ChainOK, emits_broken
  PROVE  ChainOK' /\ Appended
<1> DEFINE L == Len(chain)
           e == [kind |-> "unhandled", ledger |-> ledger + 1]
<1>1. L \in Nat /\ ledger \in Nat /\ chain \in Seq(Event) /\ e \in Event
  BY DEF ChainOK, Event
<1>2. chain' = Append(chain, e) /\ ledger' = ledger + 1
  BY DEF emits_broken
<1>3. Appended
  BY <1>1, <1>2 DEF Appended
<1>4. L + 1 \in 1..Len(chain') /\ \A kind : NewOf(kind) = IF kind = "unhandled" THEN {L + 1} ELSE {}
  BY <1>1, <1>2 DEF NewOf
<1> HIDE DEF e
<1>5. \A kind : kind # "unhandled" => Numbers(kind)' = Numbers(kind)
  BY <1>3, <1>4, Appends
<1>6. \A i \in 1..L : chain'[i] = chain[i]
  BY <1>3 DEF Appended
<1>7. \A p : Commitments(p)' = Commitments(p)
  BY <1>5, <1>6 DEF Commitments, Numbers
<1>8. \A p, kind : Commitments(p) \subseteq 1..L /\ Numbers(kind) \subseteq 1..L
  BY DEF Commitments, Numbers
<1>9. \E n \in Nat : Counts(chain', Numbers("commitment")', "commitment", 1, n)
  <2>1. PICK n \in Nat : Counts(chain, Numbers("commitment"), "commitment", 1, n)
    BY DEF ChainOK
  <2>2. Counts(chain', Numbers("commitment"), "commitment", 1, n)
    BY <1>1, <1>6, <1>8, <2>1, CountsStay
  <2> QED
    BY <1>5, <2>2
<1>10. ASSUME NEW p \in Pool PROVE \E n \in Nat : Counts(chain', Commitments(p)', "index", 0, n)
  <2>1. PICK n \in Nat : Counts(chain, Commitments(p), "index", 0, n)
    BY DEF ChainOK
  <2>2. Counts(chain', Commitments(p), "index", 0, n)
    BY <1>1, <1>6, <1>8, <2>1, CountsStay
  <2> QED
    BY <1>7, <2>2
<1>11. \E n \in Nat : Counts(chain', Numbers("leaf")', "index", 0, n)
  <2>1. PICK n \in Nat : Counts(chain, Numbers("leaf"), "index", 0, n)
    BY DEF ChainOK
  <2>2. Counts(chain', Numbers("leaf"), "index", 0, n)
    BY <1>1, <1>6, <1>8, <2>1, CountsStay
  <2> QED
    BY <1>5, <2>2
<1>12. /\ chain' \in Seq(Event) /\ ledger' \in Nat
  BY <1>1, <1>2, <1>3 DEF Appended
<1>13. NewOf("nullifier") = {}
  BY <1>4
<1> QED
  BY <1>3, <1>9, <1>10, <1>11, <1>12, <1>13, Appends, SpendsStay DEF ChainOK

\* insert_leaf gives the new leaves the next indexes.
LEMMA LeafKeepsChain ==
  ASSUME ChainOK, insert_leaf
  PROVE  ChainOK' /\ Appended
<1> DEFINE L == Len(chain)
           N == Cardinality(Numbers("leaf"))
<1>1. PICK m \in 1..2 : \E new \in [1..m -> Account \union {Stranger}] :
             chain' = chain \o [j \in 1..m |-> [kind |-> "leaf", ledger |-> ledger + 1,
                                                leaf |-> new[j], index |-> N + j - 1]]
  BY DEF insert_leaf
<1>2. PICK new \in [1..m -> Owner] :
             chain' = chain \o [j \in 1..m |-> [kind |-> "leaf", ledger |-> ledger + 1,
                                                leaf |-> new[j], index |-> N + j - 1]]
  BY <1>1 DEF Owner
<1> DEFINE ev == [j \in 1..m |-> [kind |-> "leaf", ledger |-> ledger + 1,
                                  leaf |-> new[j], index |-> N + j - 1]]
<1>3. PICK n \in Nat : Counts(chain, Numbers("leaf"), "index", 0, n)
  BY DEF ChainOK
<1>4. N = n
  <2>1. Numbers("leaf") \subseteq Nat
    BY DEF Numbers
  <2> QED
    BY <1>3, <2>1, CountsAll
<1>5. L \in Nat /\ ledger \in Nat /\ chain \in Seq(Event) /\ m \in Nat /\ ledger' = ledger + 1
  BY DEF ChainOK, insert_leaf
<1>6. ASSUME NEW j \in 1..m
      PROVE  ev[j] \in Event /\ ev[j].kind = "leaf" /\ ev[j].ledger = ledger + 1 /\ ev[j].index = n + j - 1
  <2>1. new[j] \in Owner /\ n + j - 1 \in Nat /\ ledger + 1 \in Nat
    BY <1>5
  <2> QED
    BY <1>4, <2>1 DEF Event
<1>7. ev \in Seq(Event) /\ Len(ev) = m /\ chain' = chain \o ev
  <2>1. ev \in [1..m -> Event]
    BY <1>6
  <2> QED
    BY <1>2, <1>5, <2>1
<1> HIDE DEF ev, N
<1>8. /\ chain' \in Seq(Event) /\ Len(chain') = L + m
      /\ \A i \in 1..L : chain'[i] = chain[i]
      /\ \A j \in 1..m : chain'[L + j] = ev[j]
  BY <1>5, <1>7
<1>9. \A i \in (L + 1)..Len(chain') : \E j \in 1..m : i = L + j
  <2> TAKE i \in (L + 1)..Len(chain')
  <2>1. i - L \in 1..m /\ i = L + (i - L)
    BY <1>5, <1>8
  <2> QED
    BY <2>1
<1>10. Appended
  <2>1. ASSUME NEW i \in (L + 1)..Len(chain') PROVE chain'[i].ledger = ledger + 1
    <3>1. PICK j \in 1..m : i = L + j
      BY <1>9
    <3>2. chain'[i] = ev[j] /\ ev[j].ledger = ledger + 1
      BY <1>6, <1>8, <3>1
    <3> QED
      BY <3>2
  <2>2. Len(chain') >= L
    BY <1>5, <1>8
  <2> QED
    BY <1>5, <1>8, <2>1, <2>2 DEF Appended
<1>11. /\ NewOf("leaf") = {L + j : j \in 1..m}
       /\ \A kind : kind # "leaf" => NewOf(kind) = {}
  <2>1. ASSUME NEW j \in 1..m PROVE L + j \in (L + 1)..Len(chain') /\ chain'[L + j].kind = "leaf"
    <3>1. L + j \in (L + 1)..Len(chain')
      BY <1>5, <1>8
    <3>2. chain'[L + j] = ev[j] /\ ev[j].kind = "leaf"
      BY <1>6, <1>8
    <3> QED
      BY <3>1, <3>2
  <2> QED
    BY <1>9, <2>1, ZenonT(60) DEF NewOf
<1>12. /\ \A kind : kind # "leaf" => Numbers(kind)' = Numbers(kind)
       /\ Numbers("leaf")' = Numbers("leaf") \union {L + j : j \in 1..m}
  <2>1. \A kind : Numbers(kind)' = Numbers(kind) \union NewOf(kind)
    BY <1>10, Appends
  <2> QED
    BY <1>11, <2>1
<1>13. \A p : Commitments(p)' = Commitments(p)
  BY <1>8, <1>12 DEF Commitments, Numbers
<1>14. \A p, kind : Commitments(p) \subseteq 1..L /\ Numbers(kind) \subseteq 1..L
  BY DEF Commitments, Numbers
<1>15. \E k \in Nat : Counts(chain', Numbers("commitment")', "commitment", 1, k)
  <2>1. PICK k \in Nat : Counts(chain, Numbers("commitment"), "commitment", 1, k)
    BY DEF ChainOK
  <2>2. Counts(chain', Numbers("commitment"), "commitment", 1, k)
    BY <1>5, <1>8, <1>14, <2>1, CountsStay
  <2> QED
    BY <1>12, <2>2
<1>16. ASSUME NEW p \in Pool PROVE \E k \in Nat : Counts(chain', Commitments(p)', "index", 0, k)
  <2>1. PICK k \in Nat : Counts(chain, Commitments(p), "index", 0, k)
    BY DEF ChainOK
  <2>2. Counts(chain', Commitments(p), "index", 0, k)
    BY <1>5, <1>8, <1>14, <2>1, CountsStay
  <2> QED
    BY <1>13, <2>2
<1>17. \E k \in Nat : Counts(chain', Numbers("leaf")', "index", 0, k)
  <2> DEFINE fresh == {L + j : j \in 1..m}
  <2>1. ASSUME NEW j \in 1..m PROVE chain'[L + j]["index"] = n + j - 1
    BY <1>6, <1>8
  <2>2. /\ \A i : i \in fresh <=> \E j \in 1..m : i = L + j
        /\ fresh \subseteq Nat /\ \A i \in 1..L : \A j \in fresh : i < j
    BY <1>5
  <2> HIDE DEF fresh, L
  <2>3. Counts(chain', fresh, "index", n, m)
    BY <1>5, <2>1, <2>2, CountsNew, Zenon
  <2>4. /\ n = 0 + n /\ 0 \in Nat /\ \A i \in Numbers("leaf") : chain'[i] = chain[i]
        /\ Numbers("leaf") \subseteq Nat /\ \A i \in Numbers("leaf") : \A j \in fresh : i < j
    <3>1. Numbers("leaf") \subseteq 1..L
      BY <1>14
    <3>2. n = 0 + n /\ 0 \in Nat /\ 1..L \subseteq Nat
      BY <1>5
    <3> QED
      BY <1>8, <2>2, <3>1, <3>2
  <2>5. Counts(chain', Numbers("leaf") \union fresh, "index", 0, n + m)
    BY <1>3, <1>5, <2>2, <2>3, <2>4, CountsGrow
  <2>6. n + m \in Nat
    BY <1>5
  <2> QED
    BY <1>12, <2>5, <2>6 DEF fresh
<1>18. NewOf("nullifier") = {} /\ chain' \in Seq(Event) /\ ledger' \in Nat
  BY <1>5, <1>8, <1>11
<1> QED
  BY <1>10, <1>15, <1>16, <1>17, <1>18, Appends, SpendsStay DEF ChainOK

\* A pool transaction gives its commitments the next numbers and indexes, and its
\* nullifiers are new.
LEMMA TransactKeepsChain ==
  ASSUME ChainOK, NEW p \in Pool, transact(p), ledger' = ledger + 1
  PROVE  ChainOK' /\ Appended
<1> DEFINE L == Len(chain)
           M == L + Inputs
           first == Cardinality(Commitments(p))
           count == Cardinality(Numbers("commitment"))
           nulls(spent) ==
             [k \in 1..Inputs |->
                [kind |-> "nullifier", ledger |-> ledger + 1, pool |-> p,
                 nullifier |-> LET s == InOrder(spent)
                               IN  IF k <= Len(s) THEN SpentBy(s[k]) ELSE <<0, Len(chain) + k>>]]
           outs(owners, text) ==
             [k \in 1..Outputs |->
                [kind |-> "commitment", ledger |-> ledger + 1, pool |-> p, commitment |-> count + k,
                 index |-> first + k - 1, owner |-> owners[k], text |-> text[k]]]
<1>1. PICK spent \in UNION {kSubset(k, Commitments(p)) : k \in 0..Inputs},
           owners \in [1..Outputs -> Account \union {Stranger}],
           text \in [1..Outputs -> Ciphertexts] :
             /\ \A i \in spent : ~ SpentIn(i, 1..Len(chain))
             /\ chain' = (chain \o nulls(spent)) \o outs(owners, text)
  BY DEF transact
<1>2. /\ L \in Nat /\ ledger \in Nat /\ chain \in Seq(Event) /\ Inputs \in Nat /\ Outputs \in Nat
      /\ M \in Nat
  BY LocalStateAssumption, SMTT(30) DEF ChainOK
<1>3. spent \subseteq Commitments(p)
  BY <1>1 DEF kSubset
<1>4. PICK n \in Nat : Counts(chain, Numbers("commitment"), "commitment", 1, n)
  BY DEF ChainOK
<1>5. PICK q \in Nat : Counts(chain, Commitments(p), "index", 0, q)
  BY DEF ChainOK
<1>6. \A r, kind : Commitments(r) \subseteq 1..L /\ Numbers(kind) \subseteq 1..L
  BY DEF Commitments, Numbers
<1>7. \A r, kind : Commitments(r) \subseteq Nat /\ Numbers(kind) \subseteq Nat
  BY DEF Commitments, Numbers
<1>8. /\ count = n /\ first = q /\ IsFiniteSet(Commitments(p))
      /\ \A i, j \in Numbers("commitment") : chain[i].commitment = chain[j].commitment => i = j
  <2>1. Cardinality(Numbers("commitment")) = n
        /\ \A i, j \in Numbers("commitment") : chain[i]["commitment"] = chain[j]["commitment"] => i = j
    <3>1. Numbers("commitment") \subseteq Nat /\ 1 \in Nat
      BY <1>7
    <3> HIDE DEF first, count, L
    <3> QED
      BY <1>4, <3>1, CountsAll
  <2>2. Cardinality(Commitments(p)) = q /\ IsFiniteSet(Commitments(p))
    <3>1. Commitments(p) \subseteq Nat /\ 0 \in Nat
      BY <1>7
    <3> HIDE DEF first, count, L
    <3> QED
      BY <1>5, <3>1, CountsAll
  <2> QED
    BY <2>1, <2>2
<1> DEFINE s == InOrder(spent)
           S == Len(s)
           V(k) == IF k <= S THEN SpentBy(s[k]) ELSE <<0, L + k>>
<1>9. /\ S \in Nat /\ \A k \in 1..S : s[k] \in spent
      /\ \A i, j \in 1..S : i < j => s[i] < s[j]
  <2>1. IsFiniteSet(spent) /\ spent \subseteq Nat
    BY <1>3, <1>7, <1>8, FS_Subset
  <2> QED
    BY <2>1, Sorts
<1> HIDE DEF s, S
<1>10. \A i \in Numbers("commitment") :
          /\ chain[i].commitment \in 1..n /\ chain[i].commitment \in Nat /\ chain[i].index \in Nat
          /\ SpentBy(i) = <<chain[i].commitment, chain[i].index>>
          /\ SpentBy(i)[1] = chain[i].commitment /\ SpentBy(i)[1] # 0
  <2> TAKE i \in Numbers("commitment")
  <2>1. chain[i]["commitment"] \in 1..(1 + n - 1)
    BY <1>4 DEF Counts
  <2>2. i \in 1..Len(chain) /\ chain[i].kind = "commitment"
    BY DEF Numbers
  <2>3. chain[i].index \in Nat /\ chain[i].commitment \in Nat
    BY <2>2, EventFields
  <2> QED
    BY <2>1, <2>3 DEF SpentBy
<1>11. spent \subseteq Numbers("commitment") /\ \A i \in spent : chain[i].pool = p
  BY <1>3 DEF Commitments
<1>12. ASSUME NEW k \in 1..Inputs
       PROVE  /\ nulls(spent)[k] \in Event /\ nulls(spent)[k].kind = "nullifier"
              /\ nulls(spent)[k].ledger = ledger + 1 /\ nulls(spent)[k].pool = p
              /\ nulls(spent)[k].nullifier = V(k)
  <2>1. nulls(spent)[k] = [kind |-> "nullifier", ledger |-> ledger + 1, pool |-> p, nullifier |-> V(k)]
    BY DEF s, S
  <2>2. V(k) \in Nat \X Nat
    <3>1. CASE k <= S
      <4>1. k \in 1..S
        BY <1>9, <3>1
      <4>2. s[k] \in Numbers("commitment")
        BY <1>9, <1>11, <4>1
      <4> QED
        BY <1>10, <3>1, <4>2
    <3>2. CASE ~ (k <= S)
      <4>1. L + k \in Nat
        BY <1>2
      <4> QED
        BY <3>2, <4>1
    <3> QED
      BY <3>1, <3>2
  <2> HIDE DEF V, nulls
  <2> QED
    BY <1>2, <2>1, <2>2 DEF Event
<1>13. ASSUME NEW k \in 1..Outputs
       PROVE  LET e == outs(owners, text)[k] IN
              /\ e \in Event /\ e.kind = "commitment" /\ e.ledger = ledger + 1 /\ e.pool = p
              /\ e.commitment = n + k /\ e.index = q + k - 1
  <2>1. owners[k] \in Owner /\ text[k] \in Ciphertexts /\ n + k \in Nat /\ q + k - 1 \in Nat
    BY <1>1, <1>2 DEF Owner
  <2>2. outs(owners, text)[k] =
          [kind |-> "commitment", ledger |-> ledger + 1, pool |-> p, commitment |-> n + k,
           index |-> q + k - 1, owner |-> owners[k], text |-> text[k]]
    BY <1>8
  <2> HIDE DEF outs
  <2> QED
    BY <1>2, <2>1, <2>2 DEF Event
<1> DEFINE a == nulls(spent)
           b == outs(owners, text)
<1>14. a \in Seq(Event) /\ Len(a) = Inputs /\ b \in Seq(Event) /\ Len(b) = Outputs
  <2>1. a \in [1..Inputs -> Event] /\ b \in [1..Outputs -> Event]
    BY <1>12, <1>13
  <2> HIDE DEF a, b
  <2> QED
    BY <1>2, <2>1
<1>15. chain' = (chain \o a) \o b
  BY <1>1
<1>16. /\ \A k \in 1..Inputs : /\ a[k].kind = "nullifier" /\ a[k].ledger = ledger + 1 /\ a[k].pool = p
                              /\ a[k].nullifier = V(k)
       /\ \A k \in 1..Outputs : /\ b[k].kind = "commitment" /\ b[k].ledger = ledger + 1 /\ b[k].pool = p
                                /\ b[k].commitment = n + k /\ b[k].index = q + k - 1
  BY <1>12, <1>13
<1> HIDE DEF a, b, V, first, count
<1>17. /\ chain' \in Seq(Event) /\ Len(chain') = M + Outputs
       /\ \A i \in 1..L : chain'[i] = chain[i]
       /\ \A k \in 1..Inputs : chain'[L + k] = a[k]
       /\ \A k \in 1..Outputs : chain'[M + k] = b[k]
  <2> DEFINE d == chain \o a
  <2> HIDE DEF L
  <2>0. L = Len(chain) /\ Inputs = Len(a) /\ Outputs = Len(b)
    BY <1>14 DEF L
  <2>1. /\ d \in Seq(Event) /\ Len(d) = M /\ \A i \in 1..L : d[i] = chain[i]
        /\ \A k \in 1..Inputs : d[L + k] = a[k]
    <3>1. chain \in Seq(Event) /\ a \in Seq(Event)
      BY <1>2, <1>14
    <3> QED
      BY <2>0, <3>1, Concat
  <2> HIDE DEF d, M
  <2>2. /\ d \o b \in Seq(Event) /\ Len(d \o b) = M + Outputs
        /\ \A i \in 1..M : (d \o b)[i] = d[i]
        /\ \A k \in 1..Outputs : (d \o b)[M + k] = b[k]
    <3>1. d \in Seq(Event) /\ b \in Seq(Event) /\ M = Len(d)
      BY <1>14, <2>1
    <3> QED
      BY <2>0, <3>1, Concat
  <2> USE DEF L, M
  <2>3. \A i \in 1..L : i \in 1..M
    BY <1>2
  <2>4. \A k \in 1..Inputs : L + k \in 1..M
    BY <1>2
  <2>5. chain' = d \o b
    BY <1>15 DEF d
  <2> HIDE DEF L, M
  <2> QED
    BY <2>1, <2>2, <2>3, <2>4, <2>5
<1>18. ASSUME NEW i \in (L + 1)..Len(chain')
       PROVE  (\E k \in 1..Inputs : i = L + k) \/ (\E k \in 1..Outputs : i = M + k)
  <2>1. CASE i <= M
    <3>1. i - L \in 1..Inputs /\ i = L + (i - L)
      BY <1>2, <2>1
    <3> QED
      BY <3>1
  <2>2. CASE i > M
    <3>1. i - M \in 1..Outputs /\ i = M + (i - M)
      BY <1>2, <1>17, <2>2
    <3> QED
      BY <3>1
  <2> QED
    BY <1>2, <2>1, <2>2
<1> DEFINE fresh == {M + k : k \in 1..Outputs}
<1>fresh. /\ \A i : i \in fresh <=> \E k \in 1..Outputs : i = M + k
       /\ fresh \subseteq Nat /\ \A i \in 1..L : \A j \in fresh : i < j
  BY <1>2
<1> HIDE DEF fresh
<1>19. Appended
  <2>1. ASSUME NEW i \in (L + 1)..Len(chain') PROVE chain'[i].ledger = ledger + 1
    <3> HIDE DEF L, M
    <3>1. CASE \E k \in 1..Inputs : i = L + k
      <4>1. PICK k \in 1..Inputs : i = L + k
        BY <3>1
      <4>2. chain'[i] = a[k] /\ a[k].ledger = ledger + 1
        BY <1>16, <1>17, <4>1
      <4> QED
        BY <4>2
    <3>2. CASE \E k \in 1..Outputs : i = M + k
      <4>1. PICK k \in 1..Outputs : i = M + k
        BY <3>2
      <4>2. chain'[i] = b[k] /\ b[k].ledger = ledger + 1
        BY <1>16, <1>17, <4>1
      <4> QED
        BY <4>2
    <3> QED
      BY <1>18, <3>1, <3>2
  <2>2. Len(chain') >= Len(chain)
    BY <1>2, <1>17
  <2> QED
    BY <1>17, <2>1, <2>2 DEF Appended
<1>20. /\ NewOf("nullifier") = {L + k : k \in 1..Inputs}
       /\ NewOf("commitment") = fresh
       /\ NewOf("leaf") = {}
  <2>1. ASSUME NEW k \in 1..Inputs PROVE L + k \in (L + 1)..Len(chain') /\ chain'[L + k].kind = "nullifier"
    <3>1. L + k \in (L + 1)..Len(chain')
      BY <1>2, <1>17
    <3>2. chain'[L + k] = a[k] /\ a[k].kind = "nullifier"
      BY <1>16, <1>17
    <3> QED
      BY <3>1, <3>2
  <2>2. ASSUME NEW k \in 1..Outputs PROVE M + k \in (L + 1)..Len(chain') /\ chain'[M + k].kind = "commitment"
    <3>1. M + k \in (L + 1)..Len(chain')
      BY <1>2, <1>17
    <3>2. chain'[M + k] = b[k] /\ b[k].kind = "commitment"
      BY <1>16, <1>17
    <3> QED
      BY <3>1, <3>2
  <2>3. \A kind, i : i \in NewOf(kind) <=> i \in (L + 1)..Len(chain') /\ chain'[i].kind = kind
    BY DEF NewOf
  <2> HIDE DEF M, L
  <2>4. \A i : i \in NewOf("nullifier") <=> \E k \in 1..Inputs : i = L + k
    BY <1>18, <2>1, <2>2, <2>3
  <2>5. \A i : i \in NewOf("commitment") <=> i \in fresh
    BY <1>18, <1>fresh, <2>1, <2>2, <2>3
  <2>6. \A i : i \notin NewOf("leaf")
    BY <1>18, <2>1, <2>2, <2>3
  <2> QED
    BY <2>4, <2>5, <2>6
<1>21. /\ Numbers("nullifier")' = Numbers("nullifier") \union {L + k : k \in 1..Inputs}
       /\ Numbers("commitment")' = Numbers("commitment") \union fresh
       /\ Numbers("leaf")' = Numbers("leaf")
  BY <1>19, <1>20, Appends
<1>22. /\ Commitments(p)' = Commitments(p) \union fresh
       /\ \A r : r # p => Commitments(r)' = Commitments(r)
  <2>1. \A i \in Numbers("commitment") : chain'[i] = chain[i]
    BY <1>6, <1>17
  <2>2. \A k \in 1..Outputs : chain'[M + k].pool = p
    BY <1>16, <1>17
  <2> QED
    BY <1>21, <1>fresh, <2>1, <2>2 DEF Commitments
<1>23. \E k \in Nat : Counts(chain', Numbers("commitment")', "commitment", 1, k)
  <2> DEFINE e == 1 + n
  <2>1. ASSUME NEW k \in 1..Outputs PROVE chain'[M + k]["commitment"] = e + k - 1
    <3>1. chain'[M + k].commitment = n + k
      BY <1>16, <1>17
    <3> QED
      BY <3>1
  <2>2. e \in Nat /\ e = 1 + n /\ 1 \in Nat /\ Outputs \in Nat /\ M \in Nat
    BY <1>2
  <2> HIDE DEF e, M, L
  <2>3. Counts(chain', fresh, "commitment", e, Outputs)
    BY <2>1, <2>2, <1>fresh, CountsNew, Zenon
  <2>4. /\ \A i \in Numbers("commitment") : chain'[i] = chain[i]
        /\ Numbers("commitment") \subseteq Nat /\ \A i \in Numbers("commitment") : \A j \in fresh : i < j
    BY <1>6, <1>7, <1>17, <1>fresh
  <2>5. Counts(chain', Numbers("commitment") \union fresh, "commitment", 1, n + Outputs)
    BY <1>4, <1>fresh, <2>2, <2>3, <2>4, CountsGrow
  <2>6. n + Outputs \in Nat
    BY <1>2
  <2> QED
    BY <1>21, <2>5, <2>6
<1>24. \E k \in Nat : Counts(chain', Commitments(p)', "index", 0, k)
  <2> DEFINE e == 0 + q
  <2>1. ASSUME NEW k \in 1..Outputs PROVE chain'[M + k]["index"] = e + k - 1
    <3>1. chain'[M + k].index = q + k - 1
      BY <1>16, <1>17
    <3> QED
      BY <3>1
  <2>2. e \in Nat /\ e = 0 + q /\ 0 \in Nat /\ Outputs \in Nat /\ M \in Nat
    BY <1>2
  <2> HIDE DEF e, M, L
  <2>3. Counts(chain', fresh, "index", e, Outputs)
    BY <2>1, <2>2, <1>fresh, CountsNew, Zenon
  <2>4. /\ \A i \in Commitments(p) : chain'[i] = chain[i]
        /\ Commitments(p) \subseteq Nat /\ \A i \in Commitments(p) : \A j \in fresh : i < j
    BY <1>6, <1>7, <1>17, <1>fresh
  <2>5. Counts(chain', Commitments(p) \union fresh, "index", 0, q + Outputs)
    BY <1>5, <1>fresh, <2>2, <2>3, <2>4, CountsGrow
  <2>6. q + Outputs \in Nat
    BY <1>2
  <2> QED
    BY <1>22, <2>5, <2>6
<1>25. ASSUME NEW r \in Pool, r # p PROVE \E k \in Nat : Counts(chain', Commitments(r)', "index", 0, k)
  <2>1. PICK k \in Nat : Counts(chain, Commitments(r), "index", 0, k)
    BY DEF ChainOK
  <2>2. Counts(chain', Commitments(r), "index", 0, k)
    BY <1>2, <1>6, <1>17, <2>1, CountsStay
  <2> QED
    BY <1>22, <1>25, <2>2
<1>26. \E k \in Nat : Counts(chain', Numbers("leaf")', "index", 0, k)
  <2>1. PICK k \in Nat : Counts(chain, Numbers("leaf"), "index", 0, k)
    BY DEF ChainOK
  <2>2. Counts(chain', Numbers("leaf"), "index", 0, k)
    BY <1>2, <1>6, <1>17, <2>1, CountsStay
  <2> QED
    BY <1>21, <2>2
<1>27. \A i \in Numbers("commitment") : chain'[i] = chain[i] /\ SpentBy(i)' = SpentBy(i)
  BY <1>6, <1>17 DEF SpentBy
<1>28. \A j \in Numbers("nullifier") : chain'[j] = chain[j] /\ j \in 1..L
  BY <1>6, <1>17
<1>29. ASSUME NEW k \in 1..Inputs
       PROVE  /\ chain'[L + k].pool = p /\ chain'[L + k].nullifier = V(k)
              /\ \/ V(k) = <<0, L + k>>
                 \/ k \in 1..S /\ s[k] \in spent /\ V(k) = SpentBy(s[k])
  <2>1. chain'[L + k] = a[k] /\ a[k].pool = p /\ a[k].nullifier = V(k)
    BY <1>16, <1>17
  <2>2. CASE k <= S
    <3>1. k \in 1..S
      BY <1>9, <2>2
    <3> QED
      BY <1>9, <2>1, <2>2, <3>1 DEF V
  <2>3. CASE ~ (k <= S)
    BY <2>1, <2>3 DEF V
  <2> QED
    BY <2>2, <2>3
<1>30. ASSUME NEW j \in Numbers("nullifier")'
       PROVE  \/ chain'[j].nullifier = <<0, j>>
              \/ \E i \in Numbers("commitment")' :
                   chain'[i].pool = chain'[j].pool /\ chain'[j].nullifier = SpentBy(i)'
  <2>1. CASE j \in Numbers("nullifier")
    <3>1. \/ chain[j].nullifier = <<0, j>>
          \/ \E i \in Numbers("commitment") : chain[i].pool = chain[j].pool /\ chain[j].nullifier = SpentBy(i)
      BY <2>1 DEF ChainOK
    <3> QED
      BY <1>21, <1>27, <1>28, <2>1, <3>1
  <2>2. CASE j \notin Numbers("nullifier")
    <3>1. PICK k \in 1..Inputs : j = L + k
      BY <1>21, <2>2
    <3>2. CASE V(k) = <<0, L + k>>
      BY <1>29, <3>1, <3>2
    <3>3. CASE k \in 1..S /\ s[k] \in spent /\ V(k) = SpentBy(s[k])
      <4>1. s[k] \in Numbers("commitment") /\ chain[s[k]].pool = p
        BY <1>11, <3>3
      <4> QED
        BY <1>21, <1>27, <1>29, <3>1, <3>3, <4>1
    <3> QED
      BY <1>29, <3>2, <3>3
  <2> QED
    BY <2>1, <2>2
\* A nullifier of the transaction is on the chain for the first time.
<1>31. ASSUME NEW j \in Numbers("nullifier"), NEW k \in 1..Inputs PROVE chain[j].nullifier # V(k)
  <2>1. CASE V(k) = <<0, L + k>>
    <3>1. chain[j].nullifier # <<0, L + k>>
      <4>1. CASE chain[j].nullifier = <<0, j>>
        <5>1. j # L + k
          BY <1>2, <1>28
        <5> QED
          BY <4>1, <5>1
      <4>2. CASE \E i \in Numbers("commitment") : chain[j].nullifier = SpentBy(i)
        BY <1>10, <4>2
      <4> QED
        BY <4>1, <4>2 DEF ChainOK
    <3> QED
      BY <2>1, <3>1
  <2>2. CASE k \in 1..S /\ s[k] \in spent /\ V(k) = SpentBy(s[k])
    <3> SUFFICES ASSUME chain[j].nullifier = SpentBy(s[k]) PROVE FALSE
      BY <2>2
    <3>1. s[k] \in Numbers("commitment") /\ chain[s[k]].pool = p
      BY <1>11, <2>2
    <3>2. PICK i \in Numbers("commitment") : chain[i].pool = chain[j].pool /\ chain[j].nullifier = SpentBy(i)
      BY <1>10, <3>1 DEF ChainOK
    <3>3. chain[i].commitment = chain[s[k]].commitment
      <4>1. SpentBy(i)[1] = SpentBy(s[k])[1]
        BY <3>2
      <4> QED
        BY <1>10, <3>1, <3>2, <4>1
    <3>4. i = s[k]
      BY <1>8, <3>1, <3>2, <3>3
    <3>5. SpentIn(s[k], 1..L)
      BY <1>28, <3>1, <3>2, <3>4 DEF SpentIn
    <3> QED
      BY <1>1, <2>2, <3>5
  <2> QED
    BY <1>29, <2>1, <2>2
<1>32. ASSUME NEW k \in 1..Inputs, NEW l \in 1..Inputs, V(k) = V(l) PROVE k = l
  <2>1. CASE V(k) = <<0, L + k>> /\ V(l) = <<0, L + l>>
    <3>1. L + k = L + l
      <4>1. V(k)[2] = L + k /\ V(l)[2] = L + l
        BY <2>1
      <4> QED
        BY <1>32, <4>1
    <3> QED
      BY <1>2, <3>1
  <2>2. CASE k \in 1..S /\ V(k) = SpentBy(s[k]) /\ l \in 1..S /\ V(l) = SpentBy(s[l])
    <3>1. s[k] \in Numbers("commitment") /\ s[l] \in Numbers("commitment")
      BY <1>9, <1>11, <2>2
    <3>2. chain[s[k]].commitment = chain[s[l]].commitment
      <4>1. SpentBy(s[k])[1] = SpentBy(s[l])[1]
        BY <1>32, <2>2
      <4> QED
        BY <1>10, <3>1, <4>1
    <3>3. s[k] = s[l]
      BY <1>8, <3>1, <3>2
    <3>4. s[k] \in Nat
      BY <1>7, <3>1
    <3>5. ~ (k < l) /\ ~ (l < k)
      BY <1>9, <2>2, <3>3, <3>4
    <3> QED
      BY <2>2, <3>5
  <2>3. CASE V(k) = <<0, L + k>> /\ l \in 1..S /\ s[l] \in spent /\ V(l) = SpentBy(s[l])
    <3>1. V(k)[1] = 0 /\ V(l)[1] # 0
      <4>1. s[l] \in Numbers("commitment")
        BY <1>11, <2>3
      <4> QED
        BY <1>10, <2>3, <4>1
    <3> QED
      BY <1>32, <3>1
  <2>4. CASE V(l) = <<0, L + l>> /\ k \in 1..S /\ s[k] \in spent /\ V(k) = SpentBy(s[k])
    <3>1. V(l)[1] = 0 /\ V(k)[1] # 0
      <4>1. s[k] \in Numbers("commitment")
        BY <1>11, <2>4
      <4> QED
        BY <1>10, <2>4, <4>1
    <3> QED
      BY <1>32, <3>1
  <2> QED
    BY <1>29, <2>1, <2>2, <2>3, <2>4
<1>33. \A i, j \in Numbers("nullifier")' : chain'[i].nullifier = chain'[j].nullifier => i = j
  <2> SUFFICES ASSUME NEW i \in Numbers("nullifier")', NEW j \in Numbers("nullifier")',
                      chain'[i].nullifier = chain'[j].nullifier
               PROVE  i = j
    OBVIOUS
  <2>1. CASE i \in Numbers("nullifier") /\ j \in Numbers("nullifier")
    BY <1>28, <2>1 DEF ChainOK
  <2>2. CASE i \in Numbers("nullifier") /\ \E k \in 1..Inputs : j = L + k
    BY <1>28, <1>29, <1>31, <2>2
  <2>3. CASE j \in Numbers("nullifier") /\ \E k \in 1..Inputs : i = L + k
    BY <1>28, <1>29, <1>31, <2>3
  <2>4. CASE (\E k \in 1..Inputs : i = L + k) /\ (\E k \in 1..Inputs : j = L + k)
    BY <1>29, <1>32, <2>4
  <2> QED
    BY <1>21, <2>1, <2>2, <2>3, <2>4
<1>34. ledger' \in Nat
  BY <1>2
<1>35. \A r \in Pool : \E k \in Nat : Counts(chain', Commitments(r)', "index", 0, k)
  BY <1>24, <1>25
<1> QED
  BY <1>17, <1>19, <1>23, <1>26, <1>30, <1>33, <1>34, <1>35, Appends DEF ChainOK

-----------------------------------------------------------------------------
(* Steps of the chain leave the database alone.                            *)

\* The rows of the tables are events the database has.
LEMMA RowFacts ==
  ASSUME TypeOK, TablesOK
  PROVE  /\ raw \in Nat /\ raw <= Len(chain) /\ 1..raw \subseteq 1..Len(chain)
         /\ Len(pool_commitments) \in Nat /\ Len(pool_nullifiers) \in Nat
         /\ DOMAIN pool_commitments = 1..Len(pool_commitments)
         /\ DOMAIN pool_nullifiers = 1..Len(pool_nullifiers)
         /\ \A i \in 1..Len(pool_commitments) :
              /\ pool_commitments[i] \in 1..raw /\ pool_commitments[i] \in 1..Len(chain)
              /\ pool_commitments[i] \in Range(pool_commitments)
              /\ chain[pool_commitments[i]].kind = "commitment"
         /\ \A i \in 1..Len(pool_nullifiers) :
              /\ pool_nullifiers[i] \in 1..raw /\ pool_nullifiers[i] \in 1..Len(chain)
              /\ pool_nullifiers[i] \in Range(pool_nullifiers)
              /\ chain[pool_nullifiers[i]].kind = "nullifier"
         /\ \A k \in DOMAIN asp_leaves :
              /\ asp_leaves[k] \in 1..raw /\ asp_leaves[k] \in 1..Len(chain)
              /\ asp_leaves[k] \in Range(asp_leaves)
              /\ chain[asp_leaves[k]].kind = "leaf"
<1>0. raw \in 0..Len(chain)
  BY DEF TypeOK
<1>1. raw \in Nat /\ raw <= Len(chain) /\ 1..raw \subseteq 1..Len(chain)
  BY <1>0
<1>2. /\ Len(pool_commitments) \in Nat /\ Len(pool_nullifiers) \in Nat
      /\ DOMAIN pool_commitments = 1..Len(pool_commitments)
      /\ DOMAIN pool_nullifiers = 1..Len(pool_nullifiers)
  BY DEF TablesOK
<1>3. ASSUME NEW i \in 1..Len(pool_commitments)
      PROVE  /\ pool_commitments[i] \in 1..raw /\ pool_commitments[i] \in Range(pool_commitments)
             /\ chain[pool_commitments[i]].kind = "commitment"
  <2>1. pool_commitments[i] \in Range(pool_commitments)
    BY <1>2 DEF Range
  <2>2. pool_commitments[i] \in Numbers("commitment") \cap (1..raw)
    BY <2>1 DEF TypeOK
  <2> QED
    BY <2>1, <2>2 DEF Numbers
<1>4. ASSUME NEW i \in 1..Len(pool_nullifiers)
      PROVE  /\ pool_nullifiers[i] \in 1..raw /\ pool_nullifiers[i] \in Range(pool_nullifiers)
             /\ chain[pool_nullifiers[i]].kind = "nullifier"
  <2>1. pool_nullifiers[i] \in Range(pool_nullifiers)
    BY <1>2 DEF Range
  <2>2. pool_nullifiers[i] \in Numbers("nullifier") \cap (1..raw)
    BY <2>1 DEF TypeOK
  <2> QED
    BY <2>1, <2>2 DEF Numbers
<1>5. ASSUME NEW k \in DOMAIN asp_leaves
      PROVE  /\ asp_leaves[k] \in 1..raw /\ asp_leaves[k] \in Range(asp_leaves)
             /\ chain[asp_leaves[k]].kind = "leaf"
  <2>1. asp_leaves[k] \in Range(asp_leaves)
    BY DEF Range
  <2>2. asp_leaves[k] \in Numbers("leaf") \cap (1..raw)
    BY <2>1 DEF TypeOK
  <2> QED
    BY <2>1, <2>2 DEF Numbers
<1> QED
  BY <1>1, <1>2, <1>3, <1>4, <1>5

\* When the chain grows the tables mean what they meant.
LEMMA GrowKeeps ==
  ASSUME IInv, ChainOK', Appended,
         UNCHANGED <<raw, fully, keys, tableVars, pc, work, kicked, crashes>>
  PROVE  IInv'
<1> USE DEF tableVars
<1>0. ChainOK /\ TypeOK /\ TablesOK /\ WorkOK /\ NotesOK /\ (NoShort => RestOK)
  BY DEF IInv
<1>1. /\ raw \in Nat /\ 1..raw \subseteq 1..Len(chain)
      /\ Len(pool_commitments) \in Nat /\ Len(pool_nullifiers) \in Nat
      /\ \A i \in 1..Len(pool_commitments) : pool_commitments[i] \in 1..raw
      /\ \A i \in 1..Len(pool_nullifiers) : pool_nullifiers[i] \in 1..raw
      /\ \A k \in DOMAIN asp_leaves : asp_leaves[k] \in 1..raw
      /\ Len(chain) \in Nat /\ Len(chain') \in Nat /\ Len(chain) <= Len(chain')
      /\ ledger \in Nat /\ ledger' = ledger + 1
  BY <1>0, RowFacts, Appends DEF Appended, ChainOK
<1>2. \A i \in 1..raw : chain'[i] = chain[i]
  BY <1>1 DEF Appended
<1>3. \A kind : /\ Numbers(kind) \subseteq Numbers(kind)'
               /\ \A i \in Numbers(kind)' : i \in Numbers(kind) \/ i > Len(chain)
  BY <1>0, <1>1, Appends DEF NewOf
<1>4. Unprocessed' = Unprocessed
  BY DEF Unprocessed
<1>5. /\ \A i \in 1..Len(pool_commitments) : /\ chain'[pool_commitments[i]] = chain[pool_commitments[i]]
                                            /\ SpentBy(pool_commitments[i])' = SpentBy(pool_commitments[i])
      /\ \A i \in 1..Len(pool_nullifiers) : chain'[pool_nullifiers[i]] = chain[pool_nullifiers[i]]
      /\ \A k \in DOMAIN asp_leaves : chain'[asp_leaves[k]] = chain[asp_leaves[k]]
  BY <1>1, <1>2 DEF SpentBy
<1>6. /\ \A p : RowsOf(pool_commitments, p)' = RowsOf(pool_commitments, p)
      /\ \A p : RowsOf(pool_nullifiers, p)' = RowsOf(pool_nullifiers, p)
  BY <1>5 DEF RowsOf
<1>7. \A j \in 1..Len(pool_nullifiers), i \in 1..Len(pool_commitments) : Spends(j, i)' <=> Spends(j, i)
  BY <1>5 DEF Spends
<1>8. /\ PoolsOf(pool_commitments)' = PoolsOf(pool_commitments)
      /\ PoolsOf(pool_nullifiers)' = PoolsOf(pool_nullifiers)
  <2>1. Range(pool_commitments) \subseteq 1..raw /\ Range(pool_nullifiers) \subseteq 1..raw
    BY <1>0 DEF TypeOK
  <2>2. {chain'[i].pool : i \in Range(pool_commitments)} = {chain[i].pool : i \in Range(pool_commitments)}
    BY <1>2, <2>1
  <2>3. {chain'[i].pool : i \in Range(pool_nullifiers)} = {chain[i].pool : i \in Range(pool_nullifiers)}
    BY <1>2, <2>1
  <2> QED
    BY <2>2, <2>3 DEF PoolsOf
<1>9. TypeOK'
  <2>1. raw \in 0..Len(chain') /\ fully \in 0..ledger'
    <3>1. fully \in 0..ledger
      BY <1>0 DEF TypeOK
    <3>2. raw <= Len(chain)
      BY <1>0, RowFacts
    <3> QED
      BY <1>1, <3>1, <3>2
  <2>2. /\ Range(pool_commitments) \subseteq Numbers("commitment")' \cap (1..raw)
        /\ Range(pool_nullifiers) \subseteq Numbers("nullifier")' \cap (1..raw)
        /\ Range(asp_leaves) \subseteq Numbers("leaf")' \cap (1..raw)
    BY <1>0, <1>3 DEF TypeOK
  <2> QED
    BY <1>0, <2>1, <2>2 DEF TypeOK
<1>10. TablesOK'
  <2>1. ASSUME NEW S, NEW kind, S \subseteq 1..raw, Closed(S, kind) PROVE Closed(S, kind)'
    <3> SUFFICES ASSUME NEW i \in S, NEW j \in Numbers(kind)', j < i PROVE j \in S
      BY DEF Closed
    <3>1. i \in 1..Len(chain) /\ j \in Nat
      BY <1>1, <2>1 DEF Numbers
    <3>2. j \in Numbers(kind)
      BY <1>1, <1>3, <3>1
    <3> QED
      BY <2>1, <3>2 DEF Closed
  <2>2. /\ Range(pool_commitments) \subseteq 1..raw /\ Range(pool_nullifiers) \subseteq 1..raw
        /\ Range(asp_leaves) \subseteq 1..raw
    BY <1>0 DEF TypeOK
  <2>3. /\ Closed(Range(pool_commitments), "commitment")' /\ Closed(Range(pool_nullifiers), "nullifier")'
        /\ Closed(Range(asp_leaves), "leaf")'
    BY <1>0, <2>1, <2>2 DEF TablesOK
  <2> QED
    BY <1>0, <1>5, <2>3 DEF TablesOK
<1>11. WorkOK'
  BY <1>0, <1>4 DEF WorkOK
<1>12. NotesOK'
  <2>1. ASSUME NEW i \in DOMAIN user_notes
        PROVE  /\ chain'[pool_commitments[i]].owner = user_notes[i].account
               /\ chain'[pool_commitments[i]].text # "short"
               /\ user_notes[i].nullifier_id # 0 => Spends(user_notes[i].nullifier_id, i)'
               /\ user_notes[i].nullifier_id = 0 =>
                    \A j \in 1..Len(pool_nullifiers) :
                      Spends(j, i)' => j > nullifier_scan[chain'[pool_commitments[i]].pool]
    <3>1. /\ i \in 1..Len(pool_commitments) /\ user_notes[i].nullifier_id \in 0..Len(pool_nullifiers)
      BY <1>0 DEF TypeOK
    <3>2. user_notes[i].nullifier_id # 0 => user_notes[i].nullifier_id \in 1..Len(pool_nullifiers)
      BY <1>1, <3>1
    <3>3. chain'[pool_commitments[i]] = chain[pool_commitments[i]]
      BY <1>5, <3>1
    <3>4. /\ chain[pool_commitments[i]].owner = user_notes[i].account
          /\ chain[pool_commitments[i]].text # "short"
          /\ user_notes[i].nullifier_id # 0 => Spends(user_notes[i].nullifier_id, i)
          /\ user_notes[i].nullifier_id = 0 =>
               \A j \in 1..Len(pool_nullifiers) :
                 Spends(j, i) => j > nullifier_scan[chain[pool_commitments[i]].pool]
      BY <1>0 DEF NotesOK
    <3>5. user_notes[i].nullifier_id # 0 => Spends(user_notes[i].nullifier_id, i)'
      <4> SUFFICES ASSUME user_notes[i].nullifier_id # 0 PROVE Spends(user_notes[i].nullifier_id, i)'
        OBVIOUS
      <4>1. PICK j \in 1..Len(pool_nullifiers) : j = user_notes[i].nullifier_id
        BY <3>2
      <4>2. Spends(j, i)
        BY <3>4, <4>1
      <4> QED
        BY <1>5, <3>1, <4>1, <4>2 DEF Spends
    <3> QED
      BY <1>7, <3>1, <3>3, <3>4, <3>5
  <2>2. \A p \in Pool, a \in Account : \A i \in RowsOf(pool_commitments, p)' :
          i <= scan[p][a] /\ chain'[pool_commitments[i]].owner = a => i \in DOMAIN user_notes
    <3> SUFFICES ASSUME NEW p \in Pool, NEW a \in Account, NEW i \in RowsOf(pool_commitments, p)',
                        i <= scan[p][a], chain'[pool_commitments[i]].owner = a
                 PROVE  i \in DOMAIN user_notes
      OBVIOUS
    <3>1. i \in RowsOf(pool_commitments, p) /\ i \in 1..Len(pool_commitments)
      BY <1>6 DEF RowsOf
    <3>2. chain[pool_commitments[i]].owner = a
      BY <1>5, <3>1
    <3> QED
      BY <1>0, <3>1, <3>2 DEF NotesOK
  <2> QED
    BY <1>0, <2>1, <2>2 DEF NotesOK
<1>13. NoShort' => RestOK'
  <2> SUFFICES ASSUME NoShort' PROVE RestOK'
    OBVIOUS
  <2>1. NoShort
    <3>1. \A i \in Numbers("commitment") : i \in Numbers("commitment")' /\ chain'[i] = chain[i]
      BY <1>3 DEF Numbers, Appended
    <3> QED
      BY <3>1 DEF NoShort
  <2>2. \A p : (ScannedPool(p)' <=> ScannedPool(p)) /\ (ReconciledPool(p)' <=> ReconciledPool(p))
    BY <1>6 DEF ScannedPool, ReconciledPool
  <2> QED
    BY <1>0, <1>4, <1>8, <2>1, <2>2 DEF RestOK
<1> QED
  BY <1>9, <1>10, <1>11, <1>12, <1>13 DEF IInv

-----------------------------------------------------------------------------
(* Requests, and steps of the processor that write no table.               *)

\* The pools of some rows are listed, each of them.
LEMMA PoolsListed ==
  ASSUME NEW rows \in Seq(Nat), \A i \in 1..Len(rows) : chain[rows[i]].pool \in Pool
  PROVE  /\ PoolsOf(rows) \in Seq(Pool)
         /\ \A i \in 1..Len(rows) : \E k \in 1..Len(PoolsOf(rows)) : PoolsOf(rows)[k] = chain[rows[i]].pool
<1> DEFINE S == {chain[i].pool : i \in Range(rows)}
           f == [i \in 1..Len(rows) |-> chain[rows[i]].pool]
<1>1. Len(rows) \in Nat /\ Range(rows) = {rows[i] : i \in 1..Len(rows)}
  BY DEF Range
<1>2. \A i \in 1..Len(rows) : chain[rows[i]].pool \in S
  BY <1>1
<1>3. \A q \in S : \E i \in 1..Len(rows) : q = chain[rows[i]].pool
  BY <1>1
<1>4. PoolsOf(rows) = InOrder(S)
  BY DEF PoolsOf
<1> HIDE DEF S
<1>5. f \in Surjection(1..Len(rows), S)
  <2>1. f \in [1..Len(rows) -> S]
    BY <1>2
  <2>2. \A q \in S : \E i \in 1..Len(rows) : f[i] = q
    BY <1>3
  <2> HIDE DEF f
  <2> QED
    BY <2>1, <2>2 DEF Surjection
<1>6. IsFiniteSet(1..Len(rows))
  <2>1. 1 \in Int /\ Len(rows) \in Int
    BY <1>1
  <2> QED
    BY <2>1, FS_Interval
<1> HIDE DEF f
<1>7. IsFiniteSet(S)
  BY <1>5, <1>6, FS_Surjection
<1>8. S \subseteq Pool /\ S \subseteq Nat
  BY <1>3, LocalStateAssumption
<1>9. /\ Cardinality(S) \in Nat /\ Len(InOrder(S)) = Cardinality(S) /\ InOrder(S) \in [1..Cardinality(S) -> S]
      /\ \A x \in S : \E i \in 1..Cardinality(S) : InOrder(S)[i] = x
  BY <1>7, <1>8, Sorts
<1>10. InOrder(S) \in Seq(Pool)
  <2>1. InOrder(S) \in [1..Cardinality(S) -> Pool]
    BY <1>8, <1>9
  <2> QED
    BY <1>9, <2>1
<1> QED
  BY <1>2, <1>4, <1>9, <1>10

\* The chain stays well formed when it stays.
LEMMA ChainStays ==
  ASSUME ChainOK, UNCHANGED chainVars
  PROVE  ChainOK'
<1>1. chain' = chain /\ ledger' = ledger
  BY DEF chainVars
<1>2. /\ \A kind : Numbers(kind)' = Numbers(kind)
      /\ \A p : Commitments(p)' = Commitments(p)
      /\ \A i : SpentBy(i)' = SpentBy(i)
  BY <1>1 DEF Numbers, Commitments, SpentBy
<1> QED
  BY <1>1, <1>2 DEF ChainOK

\* A step that writes no table needs a look at where the processor is only.
LEMMA ControlKeeps ==
  ASSUME IInv, UNCHANGED <<chainVars, raw, keys, tableVars>>,
         fully' \in 0..ledger, kicked' \in BOOLEAN, crashes' \in 0..MaxCrashes,
         pc' \in {"idle", "yield", "events", "nullifiers", "commitments", "leaves", "scan", "reconcile"},
         WorkOK', NoShort => RestOK'
  PROVE  IInv'
<1> USE DEF chainVars, tableVars
<1>1. ChainOK' /\ TablesOK'
  <2>1. ChainOK'
    BY ChainStays DEF IInv
  <2>2. TablesOK'
    BY DEF IInv, TablesOK, Numbers, Closed
  <2> QED
    BY <2>1, <2>2
<1>2. TypeOK'
  BY DEF IInv, TypeOK, Numbers
<1>3. NotesOK'
  <2>1. NotesOK
    BY DEF IInv
  <2>2. /\ chain' = chain /\ pool_commitments' = pool_commitments /\ pool_nullifiers' = pool_nullifiers
        /\ nullifier_scan' = nullifier_scan /\ scan' = scan /\ user_notes' = user_notes
    OBVIOUS
  <2>3. /\ \A i, j : Spends(j, i)' <=> Spends(j, i)
        /\ \A p : RowsOf(pool_commitments, p)' = RowsOf(pool_commitments, p)
    BY <2>2 DEF Spends, SpentBy, RowsOf
  <2> QED
    BY <2>1, <2>2, <2>3 DEF NotesOK
<1>4. NoShort' <=> NoShort
  BY DEF NoShort, Numbers
<1> QED
  BY <1>1, <1>2, <1>3, <1>4 DEF IInv

\* The types a step of the processor may use.
LEMMA IInvTypes ==
  ASSUME IInv
  PROVE  /\ fully \in 0..ledger /\ kicked \in BOOLEAN /\ crashes \in 0..MaxCrashes
         /\ pc \in {"idle", "yield", "events", "nullifiers", "commitments", "leaves", "scan", "reconcile"}
         /\ work \in [batch : SUBSET Nat, pools : Seq(Pool), at : Nat, did : BOOLEAN]
         /\ work.batch \subseteq Nat /\ work.pools \in Seq(Pool) /\ work.at \in Nat /\ work.at >= 1
         /\ work.did \in BOOLEAN
         /\ NoWork \in [batch : SUBSET Nat, pools : Seq(Pool), at : Nat, did : BOOLEAN]
         /\ NoWork.at = 1 /\ NoWork.did = FALSE
         /\ IsFiniteSet(keys)
         /\ PoolsOf(pool_commitments) \in Seq(Pool) /\ PoolsOf(pool_nullifiers) \in Seq(Pool)
<1>1. ChainOK /\ TypeOK /\ TablesOK /\ WorkOK
  BY DEF IInv
<1>2. NoWork \in [batch : SUBSET Nat, pools : Seq(Pool), at : Nat, did : BOOLEAN]
      /\ NoWork.at = 1 /\ NoWork.did = FALSE
  BY DEF NoWork
<1>3. /\ \A i \in 1..Len(pool_commitments) : chain[pool_commitments[i]].pool \in Pool
      /\ \A i \in 1..Len(pool_nullifiers) : chain[pool_nullifiers[i]].pool \in Pool
  BY <1>1, RowFacts, EventFields
<1>4. PoolsOf(pool_commitments) \in Seq(Pool) /\ PoolsOf(pool_nullifiers) \in Seq(Pool)
  BY <1>1, <1>3, PoolsListed DEF TablesOK
<1>5. /\ work \in [batch : SUBSET Nat, pools : Seq(Pool), at : Nat, did : BOOLEAN]
      /\ work.at >= 1 /\ IsFiniteSet(keys)
  BY <1>1 DEF WorkOK
<1>6. /\ fully \in 0..ledger /\ kicked \in BOOLEAN /\ crashes \in 0..MaxCrashes
      /\ pc \in {"idle", "yield", "events", "nullifiers", "commitments", "leaves", "scan", "reconcile"}
  BY <1>1 DEF TypeOK
<1>7. /\ work.batch \subseteq Nat /\ work.pools \in Seq(Pool) /\ work.at \in Nat /\ work.did \in BOOLEAN
  BY <1>5
<1> QED
  BY <1>2, <1>4, <1>5, <1>6, <1>7

\* A page of events: more to do, and a wake-up for it.
LEMMA SaveEventsKeeps ==
  ASSUME IInv, save_events_batch
  PROVE  IInv'
<1> USE DEF chainVars, tableVars
<1>1. ChainOK /\ TypeOK /\ TablesOK /\ WorkOK /\ NotesOK
  BY DEF IInv
<1>2. raw \in Nat /\ raw <= Len(chain) /\ Len(chain) \in Nat /\ PageSize \in Nat
  BY <1>1, RowFacts, LocalStateAssumption DEF ChainOK
<1>3. raw' \in 0..Len(chain) /\ raw <= raw'
  <2> DEFINE T == {Len(chain), raw + PageSize}
  <2>1. T \subseteq 0..(Len(chain) + (raw + PageSize)) /\ T # {} /\ Len(chain) + (raw + PageSize) \in Nat
    BY <1>2
  <2>2. Min(T) \in T /\ \A y \in T : Min(T) <= y
    BY <2>1, MinMax
  <2>3. raw' = Min(T)
    BY DEF save_events_batch
  <2> QED
    BY <1>2, <2>2, <2>3
<1>4. 1..raw \subseteq 1..raw'
  BY <1>2, <1>3
<1>5. pc \in {"idle", "yield"} /\ kicked' = TRUE /\ pc' = pc
  BY DEF save_events_batch, AtRequest
<1>6. TypeOK'
  <2>1. /\ Range(pool_commitments) \subseteq Numbers("commitment") \cap (1..raw')
        /\ Range(pool_nullifiers) \subseteq Numbers("nullifier") \cap (1..raw')
        /\ Range(asp_leaves) \subseteq Numbers("leaf") \cap (1..raw')
    BY <1>1, <1>4 DEF TypeOK
  <2> QED
    BY <1>1, <1>3, <1>5, <2>1 DEF TypeOK, save_events_batch, Numbers
<1>7. ChainOK' /\ TablesOK' /\ NotesOK'
  <2>1. UNCHANGED <<chainVars, tableVars>>
    BY DEF save_events_batch
  <2>2. ChainOK'
    BY <1>1, <2>1, ChainStays
  <2>3. TablesOK'
    BY <1>1, <2>1 DEF TablesOK, Closed, Numbers
  <2>4. NotesOK'
    BY <1>1, <2>1 DEF NotesOK, Spends, SpentBy, RowsOf
  <2> QED
    BY <2>2, <2>3, <2>4
<1>8. WorkOK' /\ RestOK'
  <2>1. WorkOK'
    BY <1>1, <1>5 DEF WorkOK, save_events_batch
  <2>2. RestOK'
    BY <1>5 DEF RestOK
  <2> QED
    BY <2>1, <2>2
<1> QED
  BY <1>6, <1>7, <1>8 DEF IInv

\* A recorded ledger changes no table.
LEMMA SyncProgressKeeps ==
  ASSUME IInv, save_sync_progress
  PROVE  IInv'
<1> USE DEF chainVars, tableVars
<1>1. fully' \in 0..ledger
  <2>1. PICK l \in (fully + 1)..ledger : fully' = l
    BY DEF save_sync_progress
  <2>2. fully \in 0..ledger /\ ledger \in Nat
    BY DEF IInv, TypeOK, ChainOK
  <2> QED
    BY <2>1, <2>2
<1>2. WorkOK'
  BY DEF IInv, WorkOK, save_sync_progress, Unprocessed
<1>3. NoShort => RestOK'
  BY DEF IInv, RestOK, save_sync_progress, Unprocessed, ScannedPool, ReconciledPool, RowsOf, PoolsOf
<1>4. UNCHANGED <<chainVars, raw, keys, tableVars, kicked, crashes, pc>>
  BY DEF save_sync_progress
<1> QED
  BY <1>1, <1>2, <1>3, <1>4, IInvTypes, ControlKeeps

\* An account that logs in has a wake-up to be scanned for.
LEMMA LoginKeeps ==
  ASSUME IInv, save_encryption_and_note_keypairs
  PROVE  IInv'
<1> USE DEF chainVars, tableVars
<1>1. ChainOK /\ TypeOK /\ TablesOK /\ WorkOK /\ NotesOK
  BY DEF IInv
<1>2. PICK a \in Account \ keys : keys' = keys \union {a}
  BY DEF save_encryption_and_note_keypairs
<1>3. pc \in {"idle", "yield"} /\ kicked' = TRUE /\ pc' = pc
  BY DEF save_encryption_and_note_keypairs, AtRequest
<1>4. UNCHANGED <<chainVars, raw, fully, tableVars, work, crashes>>
  BY DEF save_encryption_and_note_keypairs
<1>5. TypeOK'
  BY <1>1, <1>2, <1>3, <1>4 DEF TypeOK, Numbers
<1>6. ChainOK' /\ TablesOK' /\ NotesOK'
  <2>1. ChainOK'
    BY <1>1, <1>4, ChainStays
  <2>2. TablesOK'
    BY <1>1, <1>4 DEF TablesOK, Closed, Numbers
  <2>3. NotesOK'
    BY <1>1, <1>4 DEF NotesOK, Spends, SpentBy, RowsOf
  <2> QED
    BY <2>1, <2>2, <2>3
<1>7. WorkOK'
  <2>1. IsFiniteSet(keys')
    BY <1>1, <1>2, FS_AddElement DEF WorkOK
  <2> QED
    BY <1>1, <1>3, <1>4, <2>1 DEF WorkOK
<1>8. RestOK'
  BY <1>3 DEF RestOK
<1> QED
  BY <1>5, <1>6, <1>7, <1>8 DEF IInv

\* Taking a wake-up, going on after a wait, and closing the tab.
LEMMA WakesKeep ==
  ASSUME IInv, wake \/ resume \/ crash
  PROVE  IInv'
<1> USE DEF chainVars, tableVars
<1>1. /\ UNCHANGED <<chainVars, raw, fully, keys, tableVars>>
      /\ work' = NoWork \/ work' = work
      /\ (pc' = "events" /\ kicked' \in BOOLEAN) \/ (pc' = "idle" /\ kicked' = TRUE)
      /\ crashes' = crashes \/ (crashes < MaxCrashes /\ crashes' = crashes + 1)
  BY IInvTypes DEF wake, resume, crash
<1>2. crashes' \in 0..MaxCrashes
  <2>1. MaxCrashes \in Nat /\ crashes \in 0..MaxCrashes
    BY IInvTypes, LocalStateAssumption
  <2>2. crashes' = crashes \/ (crashes < MaxCrashes /\ crashes' = crashes + 1)
    BY <1>1
  <2> QED
    BY <2>1, <2>2
<1>3. WorkOK'
  <2>1. /\ work' \in [batch : SUBSET Nat, pools : Seq(Pool), at : Nat, did : BOOLEAN]
        /\ work'.at >= 1
    <3>1. CASE work' = NoWork
      BY <3>1, IInvTypes
    <3>2. CASE work' = work
      BY <3>2, IInvTypes
    <3> QED
      BY <1>1, <3>1, <3>2
  <2>2. IsFiniteSet(keys)'
    BY <1>1, IInvTypes
  <2>3. pc' \notin {"nullifiers", "commitments", "leaves"}
    BY <1>1
  <2> QED
    BY <2>1, <2>2, <2>3 DEF WorkOK
<1>4. RestOK'
  BY <1>1 DEF RestOK
<1> QED
  BY <1>1, <1>2, <1>3, <1>4, IInvTypes, ControlKeeps

\* The events without a row are finitely many.
LEMMA UnprocessedFinite ==
  ASSUME IInv
  PROVE  Unprocessed \subseteq Nat /\ Unprocessed \subseteq 1..raw /\ IsFiniteSet(Unprocessed)
<1>1. raw \in Nat
  BY RowFacts DEF IInv
<1>2. Unprocessed \in SUBSET (1..raw)
  BY DEF Unprocessed
<1>3. IsFiniteSet(1..raw)
  <2>1. 1 \in Int /\ raw \in Int
    BY <1>1
  <2> QED
    BY <2>1, FS_Interval
<1>4. IsFiniteSet(Unprocessed)
  BY <1>2, <1>3, FS_Subset
<1> QED
  BY <1>1, <1>2, <1>4

\* A batch is cut with no gap, and there is none only when all is processed.
LEMMA ProcessEventsKeeps ==
  ASSUME IInv, process_events
  PROVE  IInv'
<1> USE DEF chainVars, tableVars
<1>1. UNCHANGED <<chainVars, raw, fully, keys, tableVars, kicked, crashes>>
  BY DEF process_events
<1>2. /\ get_unprocessed_events \subseteq Unprocessed
      /\ Unprocessed # {} => get_unprocessed_events # {}
      /\ \A x \in get_unprocessed_events : \A y \in Unprocessed : y < x => y \in get_unprocessed_events
  <2>1. FETCH_LIMIT \in Int /\ FETCH_LIMIT >= 1
    BY LocalStateAssumption
  <2> QED
    BY <2>1, UnprocessedFinite, FirstFacts DEF get_unprocessed_events
<1>3. /\ Unprocessed' = Unprocessed
      /\ PoolsOf(pool_commitments)' = PoolsOf(pool_commitments)
  BY <1>1 DEF Unprocessed, PoolsOf
<1>4. CASE get_unprocessed_events = {} /\ StartScan(FALSE)
  <2>1. pc' = "scan" /\ work' = [NoWork EXCEPT !.did = FALSE,
                                   !.pools = IF keys = {} THEN <<>> ELSE PoolsOf(pool_commitments)]
    BY <1>4 DEF StartScan
  <2> DEFINE q == IF keys = {} THEN <<>> ELSE PoolsOf(pool_commitments)
  <2>2. q \in Seq(Pool)
    BY IInvTypes
  <2>3. work' = [batch |-> {}, pools |-> q, at |-> 1, did |-> FALSE]
    BY <2>1 DEF NoWork
  <2> HIDE DEF q
  <2>4. WorkOK'
    <3>1. work' \in [batch : SUBSET Nat, pools : Seq(Pool), at : Nat, did : BOOLEAN] /\ work'.at = 1
      BY <2>2, <2>3
    <3>2. pc' \notin {"nullifiers", "commitments", "leaves"} /\ IsFiniteSet(keys')
      <4>1. IsFiniteSet(keys)
        BY IInvTypes
      <4> QED
        BY <1>1, <2>1, <4>1
    <3> QED
      BY <3>1, <3>2 DEF WorkOK
  <2>5. RestOK'
    <3>0. keys # {} => q = PoolsOf(pool_commitments)
      BY DEF q
    <3>1. Unprocessed = {}
      BY <1>2, <1>4
    <3>2. \A k \in 1..Len(q) : ~ (k < 1)
      BY <2>2
    <3>3. work'.pools = q /\ work'.at = 1
      BY <2>3
    <3> QED
      BY <1>1, <1>3, <2>1, <3>0, <3>1, <3>2, <3>3 DEF RestOK
  <2> QED
    BY <1>1, <2>1, <2>4, <2>5, IInvTypes, ControlKeeps
<1>5. CASE /\ pc' = "nullifiers"
           /\ work' = [NoWork EXCEPT !.batch = get_unprocessed_events, !.did = TRUE]
  <2>1. work' = [batch |-> get_unprocessed_events, pools |-> <<>>, at |-> 1, did |-> TRUE]
    BY <1>5 DEF NoWork
  <2>2. get_unprocessed_events \subseteq Nat /\ get_unprocessed_events \subseteq 1..raw
    BY <1>2, UnprocessedFinite
  <2>3. WorkOK'
    <3>1. /\ work' \in [batch : SUBSET Nat, pools : Seq(Pool), at : Nat, did : BOOLEAN]
          /\ work'.at = 1 /\ work'.batch = get_unprocessed_events
      <4>1. <<>> \in Seq(Pool)
        OBVIOUS
      <4> HIDE DEF get_unprocessed_events
      <4> QED
        BY <2>1, <2>2, <4>1
    <3> QED
      BY <1>1, <1>2, <1>3, <2>2, <3>1, IInvTypes DEF WorkOK
  <2>4. RestOK'
    BY <1>5 DEF RestOK
  <2> QED
    BY <1>1, <1>5, <2>3, <2>4, IInvTypes, ControlKeeps
<1> QED
  BY <1>4, <1>5 DEF process_events

\* After the last pool every pool is scanned.
LEMMA ScanDoneKeeps ==
  ASSUME IInv, scan_done
  PROVE  IInv'
<1> USE DEF chainVars, tableVars
<1>1. /\ UNCHANGED <<chainVars, raw, fully, keys, tableVars, kicked, crashes>>
      /\ pc = "scan" /\ work.at > Len(work.pools) /\ pc' = "reconcile"
      /\ work' = [work EXCEPT !.at = 1, !.pools = PoolsOf(pool_nullifiers)]
  BY DEF scan_done
<1>2. work' = [batch |-> work.batch, pools |-> PoolsOf(pool_nullifiers), at |-> 1, did |-> work.did]
  BY <1>1, IInvTypes
<1>3. WorkOK'
  BY <1>1, <1>2, IInvTypes DEF WorkOK
<1>4. /\ Unprocessed' = Unprocessed
      /\ PoolsOf(pool_nullifiers)' = PoolsOf(pool_nullifiers)
      /\ \A p : ScannedPool(p)' <=> ScannedPool(p)
  BY <1>1 DEF Unprocessed, PoolsOf, ScannedPool, RowsOf
<1>5. ASSUME NoShort, ~ work.did PROVE Unprocessed = {} /\ \A p \in Pool : ScannedPool(p)
  <2>1. /\ Unprocessed = {}
        /\ keys # {} => work.pools = PoolsOf(pool_commitments)
        /\ \A k \in 1..Len(work.pools) : k < work.at => ScannedPool(work.pools[k])
    BY <1>1, <1>5 DEF IInv, RestOK
  <2>2. ASSUME NEW p \in Pool, NEW a \in keys, NEW i \in RowsOf(pool_commitments, p)
        PROVE  i <= scan[p][a]
    <3>1. pool_commitments \in Seq(Nat) /\ \A j \in 1..Len(pool_commitments) : chain[pool_commitments[j]].pool \in Pool
      BY RowFacts, EventFields DEF IInv, TablesOK
    <3>2. i \in 1..Len(pool_commitments) /\ chain[pool_commitments[i]].pool = p
      BY DEF RowsOf
    <3>3. work.pools = PoolsOf(pool_commitments)
      BY <2>1
    <3>4. PICK k \in 1..Len(work.pools) : work.pools[k] = p
      BY <3>1, <3>2, <3>3, PoolsListed
    <3>5. k < work.at
      BY <1>1, IInvTypes
    <3> QED
      BY <2>1, <3>4, <3>5 DEF ScannedPool
  <2> QED
    BY <2>1, <2>2 DEF ScannedPool
<1>6. NoShort => RestOK'
  <2> SUFFICES ASSUME NoShort, ~ work.did PROVE RestOK'
    BY <1>1, <1>2 DEF RestOK
  <2>1. Unprocessed = {} /\ \A p \in Pool : ScannedPool(p)
    BY <1>5
  <2>2. work'.pools = PoolsOf(pool_nullifiers) /\ work'.at = 1 /\ \A k \in 1..Len(PoolsOf(pool_nullifiers)) : ~ (k < 1)
    BY <1>2, IInvTypes
  <2> QED
    BY <1>1, <1>4, <2>1, <2>2 DEF RestOK
<1> QED
  BY <1>1, <1>3, <1>6, IInvTypes, ControlKeeps

\* The processor rests only after an iteration that left nothing to do.
LEMMA ReconcileDoneKeeps ==
  ASSUME IInv, reconcile_done
  PROVE  IInv'
<1> USE DEF chainVars, tableVars
<1>1. /\ UNCHANGED <<chainVars, raw, fully, keys, tableVars, kicked, crashes>>
      /\ pc = "reconcile" /\ work.at > Len(work.pools) /\ work' = NoWork
      /\ pc' = IF work.did THEN "yield" ELSE "idle"
  BY DEF reconcile_done
<1>2. WorkOK'
  BY <1>1, IInvTypes DEF WorkOK
<1>3. /\ Unprocessed' = Unprocessed
      /\ \A p : ScannedPool(p)' <=> ScannedPool(p)
      /\ \A p : ReconciledPool(p)' <=> ReconciledPool(p)
  BY <1>1 DEF Unprocessed, ScannedPool, ReconciledPool, RowsOf
<1>4. ASSUME NoShort, ~ work.did
      PROVE  Unprocessed = {} /\ \A p \in Pool : ScannedPool(p) /\ ReconciledPool(p)
  <2>1. /\ Unprocessed = {} /\ work.pools = PoolsOf(pool_nullifiers) /\ \A p \in Pool : ScannedPool(p)
        /\ \A k \in 1..Len(work.pools) : k < work.at => ReconciledPool(work.pools[k])
    BY <1>1, <1>4 DEF IInv, RestOK
  <2>2. ASSUME NEW p \in Pool, NEW i \in RowsOf(pool_nullifiers, p)
        PROVE  i <= nullifier_scan[p]
    <3>1. pool_nullifiers \in Seq(Nat) /\ \A j \in 1..Len(pool_nullifiers) : chain[pool_nullifiers[j]].pool \in Pool
      BY RowFacts, EventFields DEF IInv, TablesOK
    <3>2. i \in 1..Len(pool_nullifiers) /\ chain[pool_nullifiers[i]].pool = p
      BY DEF RowsOf
    <3>3. PICK k \in 1..Len(work.pools) : work.pools[k] = p
      BY <2>1, <3>1, <3>2, PoolsListed
    <3>4. k < work.at
      BY <1>1, IInvTypes
    <3> QED
      BY <2>1, <2>2, <3>3, <3>4 DEF ReconciledPool
  <2> QED
    BY <2>1, <2>2 DEF ReconciledPool
<1>5. NoShort => RestOK'
  <2> SUFFICES ASSUME NoShort PROVE RestOK'
    OBVIOUS
  <2>1. CASE work.did
    BY <1>1, <2>1 DEF RestOK
  <2>2. CASE ~ work.did
    BY <1>1, <1>3, <1>4, <2>2 DEF RestOK
  <2> QED
    BY <2>1, <2>2
<1>6. pc' \in {"idle", "yield", "events", "nullifiers", "commitments", "leaves", "scan", "reconcile"}
  BY <1>1
<1> QED
  BY <1>1, <1>2, <1>5, <1>6, IInvTypes, ControlKeeps

-----------------------------------------------------------------------------
(* The batch goes into the tables.                                         *)

\* What tells the rows of a table apart also tells their events apart.
LEMMA Distinct ==
  ASSUME ChainOK
  PROVE  /\ \A i, j \in Numbers("commitment") : chain[i].commitment = chain[j].commitment => i = j
         /\ \A i, j \in Numbers("leaf") : chain[i].index = chain[j].index => i = j
         /\ \A i, j \in Numbers("nullifier") : chain[i].nullifier = chain[j].nullifier => i = j
<1>1. \A kind : Numbers(kind) \subseteq Nat
  BY DEF Numbers
<1>2. PICK n \in Nat : Counts(chain, Numbers("commitment"), "commitment", 1, n)
  BY DEF ChainOK
<1>3. PICK m \in Nat : Counts(chain, Numbers("leaf"), "index", 0, m)
  BY DEF ChainOK
<1>4. \A i, j \in Numbers("commitment") : chain[i]["commitment"] = chain[j]["commitment"] => i = j
  BY <1>1, <1>2, CountsAll
<1>5. \A i, j \in Numbers("leaf") : chain[i]["index"] = chain[j]["index"] => i = j
  BY <1>1, <1>3, CountsAll
<1> QED
  BY <1>4, <1>5 DEF ChainOK

\* InsertNew appends a row for each event that has none.
LEMMA Inserts ==
  ASSUME NEW rows \in Seq(Nat), IsInjective(rows), NEW new, new \subseteq Nat, IsFiniteSet(new), NEW field,
         \A i, j \in Range(rows) \union new : chain[i][field] = chain[j][field] => i = j
  PROVE  LET r == InsertNew(rows, new, field) IN
         /\ r \in Seq(Nat) /\ IsInjective(r)
         /\ Len(rows) \in Nat /\ Len(r) \in Nat /\ Len(rows) <= Len(r)
         /\ \A i \in 1..Len(rows) : r[i] = rows[i]
         /\ Range(r) = Range(rows) \union new
<1> DEFINE kept == {i \in new : /\ \A j \in Range(rows) : chain[j][field] # chain[i][field]
                                /\ \A j \in new : j > i => chain[j][field] # chain[i][field]}
           s == InOrder(kept)
           b == Reverse(s)
           n == Cardinality(kept)
           L == Len(rows)
           r == InsertNew(rows, new, field)
<1>1. r = rows \o b
  BY DEF InsertNew
<1>2. \A i : i \in kept <=> i \in new /\ i \notin Range(rows)
  <2>1. ASSUME NEW i \in kept PROVE i \in new /\ i \notin Range(rows)
    OBVIOUS
  <2>2. ASSUME NEW i \in new, i \notin Range(rows) PROVE i \in kept
    <3>1. \A j \in Range(rows) : chain[j][field] # chain[i][field]
      BY <2>2
    <3>2. ASSUME NEW j \in new, j > i PROVE chain[j][field] # chain[i][field]
      <4>1. j # i
        BY <3>2
      <4> QED
        BY <4>1
    <3> QED
      BY <3>1, <3>2
  <2> QED
    BY <2>1, <2>2
<1>3. kept \subseteq Nat /\ IsFiniteSet(kept)
  BY FS_Subset
<1> HIDE DEF kept, r
<1>4. /\ n \in Nat /\ Len(s) = n /\ s \in [1..n -> kept]
      /\ \A i, j \in 1..n : i < j => s[i] < s[j]
      /\ \A x \in kept : \E i \in 1..n : s[i] = x
  BY <1>3, Sorts
<1> HIDE DEF n
<1>5. b = [i \in 1..n |-> s[n - i + 1]]
  BY <1>4 DEF Reverse
<1> HIDE DEF s
<1>6. /\ b \in Seq(Nat) /\ n = Len(b)
      /\ \A i \in 1..n : b[i] = s[n - i + 1] /\ n - i + 1 \in 1..n
  <2>1. \A i \in 1..n : n - i + 1 \in 1..n
    BY <1>4
  <2>2. \A i \in 1..n : s[n - i + 1] \in Nat
    BY <1>3, <1>4, <2>1
  <2> QED
    BY <1>4, <1>5, <2>1, <2>2
<1>7. /\ \A i \in 1..n : b[i] \in kept
      /\ \A i, j \in 1..n : b[i] = b[j] => i = j
      /\ \A x \in kept : \E i \in 1..n : b[i] = x
  <2>1. \A i \in 1..n : b[i] \in kept
    BY <1>4, <1>6
  <2>2. ASSUME NEW i \in 1..n, NEW j \in 1..n, b[i] = b[j] PROVE i = j
    <3>0. \A k \in 1..n : s[k] \in Nat
      BY <1>3, <1>4
    <3>1. /\ n - i + 1 \in 1..n /\ n - j + 1 \in 1..n /\ s[n - i + 1] = s[n - j + 1]
      BY <1>6, <2>2
    <3>2. ~ (n - i + 1 < n - j + 1) /\ ~ (n - j + 1 < n - i + 1)
      BY <3>0, <3>1, <1>4
    <3> QED
      BY <3>2, <1>4
  <2>3. ASSUME NEW x \in kept PROVE \E i \in 1..n : b[i] = x
    <3>1. PICK k \in 1..n : s[k] = x
      BY <1>4
    <3>2. n - k + 1 \in 1..n /\ n - (n - k + 1) + 1 = k
      BY <1>4
    <3> QED
      BY <1>5, <3>1, <3>2
  <2> QED
    BY <2>1, <2>2, <2>3
<1> HIDE DEF b
<1>8. /\ r \in Seq(Nat) /\ L \in Nat /\ Len(r) = L + n
      /\ \A i \in 1..L : r[i] = rows[i]
      /\ \A k \in 1..n : r[L + k] = b[k]
  BY <1>1, <1>6, Concat
<1>9. /\ DOMAIN rows = 1..L /\ DOMAIN r = 1..Len(r)
  BY <1>8
<1>10. \A i \in 1..Len(r) : i \in 1..L \/ \E k \in 1..n : i = L + k
  <2>1. ASSUME NEW i \in 1..Len(r), i \notin 1..L PROVE i - L \in 1..n /\ i = L + (i - L)
    BY <1>4, <1>8, <2>1
  <2> QED
    BY <2>1
<1> HIDE DEF L
<1>11. Range(r) = Range(rows) \union new
  <2>1. ASSUME NEW x \in Range(r) PROVE x \in Range(rows) \union new
    <3>1. PICK i \in 1..Len(r) : x = r[i]
      BY <1>9 DEF Range
    <3>2. CASE i \in 1..L
      BY <1>8, <1>9, <3>1, <3>2 DEF Range
    <3>3. CASE \E k \in 1..n : i = L + k
      <4>1. PICK k \in 1..n : i = L + k
        BY <3>3
      <4> QED
        BY <1>2, <1>7, <1>8, <3>1, <4>1
    <3> QED
      BY <1>10, <3>2, <3>3
  <2>2. ASSUME NEW x \in Range(rows) PROVE x \in Range(r)
    <3>1. PICK i \in 1..L : x = rows[i]
      BY <1>9 DEF Range
    <3>2. i \in 1..Len(r) /\ r[i] = x
      BY <1>4, <1>8, <3>1
    <3> QED
      BY <1>9, <3>2 DEF Range
  <2>3. ASSUME NEW x \in new, x \notin Range(rows) PROVE x \in Range(r)
    <3>1. PICK k \in 1..n : b[k] = x
      BY <1>2, <1>7, <2>3
    <3>2. L + k \in 1..Len(r) /\ r[L + k] = x
      <4>1. PICK j : j = L + k
        OBVIOUS
      <4>2. r[j] = x
        BY <1>8, <3>1, <4>1
      <4>3. j \in 1..Len(r)
        BY <1>4, <1>8, <4>1
      <4> QED
        BY <4>1, <4>2, <4>3
    <3> QED
      BY <1>9, <3>2 DEF Range
  <2> QED
    BY <2>1, <2>2, <2>3
<1>12. IsInjective(r)
  <2>1. \A i, j \in 1..L : rows[i] = rows[j] => i = j
    BY <1>9 DEF IsInjective
  <2>2. \A i \in 1..L : rows[i] \in Range(rows)
    BY <1>9 DEF Range
  <2>3. ASSUME NEW i \in 1..Len(r), NEW j \in 1..Len(r), r[i] = r[j] PROVE i = j
    <3>1. CASE i \in 1..L /\ j \in 1..L
      BY <1>8, <2>1, <2>3, <3>1
    <3>2. CASE i \in 1..L /\ \E k \in 1..n : j = L + k
      <4>1. PICK k \in 1..n : j = L + k
        BY <3>2
      <4>2. r[j] \in kept /\ r[i] \in Range(rows)
        BY <1>7, <1>8, <2>2, <3>2, <4>1
      <4> QED
        BY <1>2, <2>3, <4>2
    <3>3. CASE j \in 1..L /\ \E k \in 1..n : i = L + k
      <4>1. PICK k \in 1..n : i = L + k
        BY <3>3
      <4>2. r[i] \in kept /\ r[j] \in Range(rows)
        BY <1>7, <1>8, <2>2, <3>3, <4>1
      <4> QED
        BY <1>2, <2>3, <4>2
    <3>4. CASE (\E k \in 1..n : i = L + k) /\ (\E k \in 1..n : j = L + k)
      BY <1>7, <1>8, <2>3, <3>4
    <3> QED
      BY <1>10, <3>1, <3>2, <3>3, <3>4
  <2> QED
    BY <1>9, <2>3 DEF IsInjective
<1>13. Len(r) \in Nat /\ L <= Len(r)
  BY <1>4, <1>8
<1> QED
  BY <1>8, <1>11, <1>12, <1>13 DEF r, L

\* The events of a kind in the batch come right after the ones in the table.
LEMMA BatchCloses ==
  ASSUME IInv, pc \in {"nullifiers", "commitments", "leaves"},
         NEW kind \in {"nullifier", "commitment", "leaf"}, NEW R, Closed(R, kind),
         \A j \in Numbers(kind) \cap (1..raw) : j \in Unprocessed \/ j \in R
  PROVE  /\ OfKind(kind) \subseteq Numbers(kind) \cap (1..raw)
         /\ OfKind(kind) \subseteq Nat /\ IsFiniteSet(OfKind(kind))
         /\ Closed(R \union OfKind(kind), kind)
<1>1. /\ work.batch \subseteq 1..raw
      /\ \A i \in work.batch : \A j \in Unprocessed : j < i => j \in work.batch
  BY DEF IInv, WorkOK
<1>2. raw \in Nat /\ 1..raw \subseteq 1..Len(chain)
  BY RowFacts DEF IInv
<1>3. \A i \in 1..raw : parse_event(i) = kind <=> i \in Numbers(kind)
  <2>1. \A i \in 1..raw : i \in 1..Len(chain) /\ (parse_event(i) = kind <=> chain[i].kind = kind)
    BY <1>2, Parses DEF IInv
  <2> QED
    BY <2>1 DEF Numbers
<1>4. OfKind(kind) \subseteq Numbers(kind) \cap (1..raw)
  BY <1>1, <1>3 DEF OfKind
<1>5. OfKind(kind) \subseteq Nat /\ IsFiniteSet(OfKind(kind))
  <2>1. IsFiniteSet(1..raw)
    <3>1. 1 \in Int /\ raw \in Int
      BY <1>2
    <3> QED
      BY <3>1, FS_Interval
  <2>2. OfKind(kind) \subseteq 1..raw
    BY <1>4
  <2>3. IsFiniteSet(OfKind(kind))
    BY <2>1, <2>2, FS_Subset
  <2> QED
    BY <1>2, <2>2, <2>3
<1>6. ASSUME NEW i \in OfKind(kind), NEW j \in Numbers(kind), j < i PROVE j \in R \union OfKind(kind)
  <2>1. i \in work.batch /\ i \in 1..raw
    BY <1>4 DEF OfKind
  <2>2. j \in 1..raw
    BY <1>2, <1>6, <2>1 DEF Numbers
  <2>3. CASE j \in Unprocessed
    BY <1>1, <1>3, <1>6, <2>1, <2>2, <2>3 DEF OfKind
  <2> QED
    BY <2>2, <2>3
<1>7. Closed(R \union OfKind(kind), kind)
  BY <1>6 DEF Closed
<1> QED
  BY <1>4, <1>5, <1>7

\* Every event that parses is in its table or in none.
LEMMA RowOrNone ==
  ASSUME IInv
  PROVE  /\ \A j \in Numbers("nullifier") \cap (1..raw) : j \in Unprocessed \/ j \in Range(pool_nullifiers)
         /\ \A j \in Numbers("commitment") \cap (1..raw) : j \in Unprocessed \/ j \in Range(pool_commitments)
         /\ \A j \in Numbers("leaf") \cap (1..raw) : j \in Unprocessed \/ j \in Range(asp_leaves)
<1>1. /\ \A j \in Range(pool_commitments) : chain[j].kind = "commitment"
      /\ \A j \in Range(pool_nullifiers) : chain[j].kind = "nullifier"
      /\ \A j \in Range(asp_leaves) : chain[j].kind = "leaf"
  BY DEF IInv, TypeOK, Numbers
<1> QED
  BY <1>1 DEF Unprocessed, Numbers

\* A batch stays closed when fewer events are without a row.
LEMMA WorkStays ==
  ASSUME IInv, pc \in {"nullifiers", "commitments", "leaves"},
         UNCHANGED <<raw, keys, work>>, Unprocessed' \subseteq Unprocessed
  PROVE  WorkOK'
<1>1. /\ work \in [batch : SUBSET Nat, pools : Seq(Pool), at : Nat, did : BOOLEAN]
      /\ IsFiniteSet(keys) /\ work.batch \subseteq 1..raw /\ work.at >= 1
      /\ \A i \in work.batch : \A j \in Unprocessed : j < i => j \in work.batch
  BY DEF IInv, WorkOK
<1> QED
  BY <1>1 DEF WorkOK

\* The new nullifiers are ahead of every mark.
LEMMA SaveNullifiersKeeps ==
  ASSUME IInv, save_nullifier_events_batch
  PROVE  IInv'
<1> USE DEF chainVars, tableVars
<1> DEFINE L == Len(pool_nullifiers)
<1>1. /\ UNCHANGED <<chain, ledger, raw, fully, keys, pool_commitments, asp_leaves, user_notes,
                     scan, nullifier_scan, work, kicked, crashes>>
      /\ pc = "nullifiers" /\ pc' = "commitments"
      /\ pool_nullifiers' = InsertNew(pool_nullifiers, OfKind("nullifier"), "nullifier")
  BY DEF save_nullifier_events_batch
<1>2. TypeOK /\ TablesOK /\ NotesOK /\ ChainOK
  BY DEF IInv
<1>3. Numbers("nullifier")' = Numbers("nullifier") /\ \A kind : Numbers(kind)' = Numbers(kind)
  BY <1>1 DEF Numbers
<1>4. /\ OfKind("nullifier") \subseteq Numbers("nullifier") \cap (1..raw)
      /\ OfKind("nullifier") \subseteq Nat /\ IsFiniteSet(OfKind("nullifier"))
      /\ Closed(Range(pool_nullifiers) \union OfKind("nullifier"), "nullifier")
  BY <1>1, <1>2, BatchCloses, RowOrNone DEF TablesOK
<1>5. Range(pool_nullifiers) \subseteq Numbers("nullifier") \cap (1..raw)
  BY <1>2 DEF TypeOK
<1>6. \A i, j \in Range(pool_nullifiers) \union OfKind("nullifier") :
        chain[i]["nullifier"] = chain[j]["nullifier"] => i = j
  BY <1>2, <1>4, <1>5, Distinct
<1>7. /\ pool_nullifiers' \in Seq(Nat) /\ IsInjective(pool_nullifiers')
      /\ L \in Nat /\ Len(pool_nullifiers') \in Nat /\ L <= Len(pool_nullifiers')
      /\ \A i \in 1..L : pool_nullifiers'[i] = pool_nullifiers[i]
      /\ Range(pool_nullifiers') = Range(pool_nullifiers) \union OfKind("nullifier")
  <2>1. pool_nullifiers \in Seq(Nat) /\ IsInjective(pool_nullifiers)
    BY <1>2 DEF TablesOK
  <2> QED
    BY <1>1, <1>4, <1>6, <2>1, Inserts
<1> HIDE DEF L
<1>8. ChainOK'
  BY <1>1, <1>2, ChainStays
<1>9. TypeOK'
  <2>1. Range(pool_nullifiers') \subseteq Numbers("nullifier")' \cap (1..raw')
    BY <1>1, <1>3, <1>4, <1>5, <1>7
  <2>2. 0..L \subseteq 0..Len(pool_nullifiers')
    BY <1>7
  <2>3. nullifier_scan' \in [Pool -> 0..Len(pool_nullifiers')]
    BY <1>1, <1>2, <2>2 DEF TypeOK, L
  <2>4. \A i \in DOMAIN user_notes : user_notes[i].nullifier_id \in 0..Len(pool_nullifiers')
    BY <1>2, <2>2 DEF TypeOK, L
  <2>5. /\ raw' \in 0..Len(chain') /\ fully' \in 0..ledger' /\ keys' \subseteq Account
        /\ Range(pool_commitments') \subseteq Numbers("commitment")' \cap (1..raw')
        /\ Range(asp_leaves') \subseteq Numbers("leaf")' \cap (1..raw')
        /\ DOMAIN user_notes' \subseteq 1..Len(pool_commitments')
        /\ \A i \in DOMAIN user_notes : user_notes[i].account \in keys
        /\ scan' \in [Pool -> [Account -> 0..Len(pool_commitments')]]
        /\ kicked' \in BOOLEAN /\ crashes' \in 0..MaxCrashes
    BY <1>1, <1>2, <1>3 DEF TypeOK
  <2> QED
    BY <1>1, <2>1, <2>3, <2>4, <2>5 DEF TypeOK
<1>10. TablesOK'
  <2>1. Closed(Range(pool_nullifiers), "nullifier")'
    BY <1>3, <1>4, <1>7 DEF Closed
  <2> QED
    BY <1>1, <1>2, <1>3, <1>7, <2>1 DEF TablesOK, Closed
<1>11. WorkOK'
  <2>1. Unprocessed' \subseteq Unprocessed
    BY <1>1, <1>7 DEF Unprocessed
  <2> QED
    BY <1>1, <2>1, WorkStays
<1>12. NotesOK'
  <2>1. ASSUME NEW i, NEW j \in 1..L PROVE Spends(j, i)' <=> Spends(j, i)
    BY <1>1, <1>7 DEF Spends, SpentBy
  <2>2. ASSUME NEW i \in DOMAIN user_notes, user_notes[i].nullifier_id # 0
        PROVE  Spends(user_notes[i].nullifier_id, i)'
    <3>1. user_notes[i].nullifier_id \in 1..L
      BY <1>2, <1>7, <2>2 DEF TypeOK, L
    <3>2. Spends(user_notes[i].nullifier_id, i)
      BY <1>2, <2>2 DEF NotesOK
    <3> QED
      BY <1>1, <2>1, <3>1, <3>2
  <2>3. ASSUME NEW i \in DOMAIN user_notes, user_notes[i].nullifier_id = 0,
               NEW j \in 1..Len(pool_nullifiers'), Spends(j, i)'
        PROVE  j > nullifier_scan[chain[pool_commitments[i]].pool]
    <3>1. CASE j \in 1..L
      BY <1>2, <2>1, <2>3, <3>1 DEF NotesOK, L
    <3>2. CASE j > L
      <4>1. i \in 1..Len(pool_commitments)
        BY <1>2 DEF TypeOK
      <4>2. chain[pool_commitments[i]].pool \in Pool
        BY <1>2, <4>1, RowFacts, EventFields
      <4>3. nullifier_scan[chain[pool_commitments[i]].pool] \in 0..L
        BY <1>2, <4>2 DEF TypeOK, L
      <4> QED
        BY <1>7, <3>2, <4>3
    <3> QED
      BY <1>7, <3>1, <3>2
  <2> QED
    BY <1>1, <1>2, <2>2, <2>3 DEF NotesOK, RowsOf
<1>13. RestOK'
  BY <1>1 DEF RestOK
<1> QED
  BY <1>8, <1>9, <1>10, <1>11, <1>12, <1>13 DEF IInv

\* The new commitments are ahead of every scan.
LEMMA SaveCommitmentsKeeps ==
  ASSUME IInv, save_commitment_events_batch
  PROVE  IInv'
<1> USE DEF chainVars, tableVars
<1> DEFINE L == Len(pool_commitments)
<1>1. /\ UNCHANGED <<chain, ledger, raw, fully, keys, pool_nullifiers, asp_leaves, user_notes,
                     scan, nullifier_scan, work, kicked, crashes>>
      /\ pc = "commitments" /\ pc' = "leaves"
      /\ pool_commitments' = InsertNew(pool_commitments, OfKind("commitment"), "commitment")
  BY DEF save_commitment_events_batch
<1>2. TypeOK /\ TablesOK /\ NotesOK /\ ChainOK
  BY DEF IInv
<1>3. Numbers("commitment")' = Numbers("commitment") /\ \A kind : Numbers(kind)' = Numbers(kind)
  BY <1>1 DEF Numbers
<1>4. /\ OfKind("commitment") \subseteq Numbers("commitment") \cap (1..raw)
      /\ OfKind("commitment") \subseteq Nat /\ IsFiniteSet(OfKind("commitment"))
      /\ Closed(Range(pool_commitments) \union OfKind("commitment"), "commitment")
  BY <1>1, <1>2, BatchCloses, RowOrNone DEF TablesOK
<1>5. Range(pool_commitments) \subseteq Numbers("commitment") \cap (1..raw)
  BY <1>2 DEF TypeOK
<1>6. \A i, j \in Range(pool_commitments) \union OfKind("commitment") :
        chain[i]["commitment"] = chain[j]["commitment"] => i = j
  BY <1>2, <1>4, <1>5, Distinct
<1>7. /\ pool_commitments' \in Seq(Nat) /\ IsInjective(pool_commitments')
      /\ L \in Nat /\ Len(pool_commitments') \in Nat /\ L <= Len(pool_commitments')
      /\ \A i \in 1..L : pool_commitments'[i] = pool_commitments[i]
      /\ Range(pool_commitments') = Range(pool_commitments) \union OfKind("commitment")
  <2>1. pool_commitments \in Seq(Nat) /\ IsInjective(pool_commitments)
    BY <1>2 DEF TablesOK
  <2> QED
    BY <1>1, <1>4, <1>6, <2>1, Inserts
<1> HIDE DEF L
<1>8. ChainOK'
  BY <1>1, <1>2, ChainStays
<1>9. TypeOK'
  <2>1. Range(pool_commitments') \subseteq Numbers("commitment")' \cap (1..raw')
    BY <1>1, <1>3, <1>4, <1>5, <1>7
  <2>2. 0..L \subseteq 0..Len(pool_commitments') /\ 1..L \subseteq 1..Len(pool_commitments')
    BY <1>7
  <2>3. scan' \in [Pool -> [Account -> 0..Len(pool_commitments')]]
    <3>1. scan \in [Pool -> [Account -> 0..L]]
      BY <1>2 DEF TypeOK, L
    <3> QED
      BY <1>1, <2>2, <3>1
  <2>4. DOMAIN user_notes' \subseteq 1..Len(pool_commitments')
    BY <1>1, <1>2, <2>2 DEF TypeOK, L
  <2>5. /\ raw' \in 0..Len(chain') /\ fully' \in 0..ledger' /\ keys' \subseteq Account
        /\ Range(pool_nullifiers') \subseteq Numbers("nullifier")' \cap (1..raw')
        /\ Range(asp_leaves') \subseteq Numbers("leaf")' \cap (1..raw')
        /\ \A i \in DOMAIN user_notes' : /\ user_notes'[i].account \in keys'
                                         /\ user_notes'[i].nullifier_id \in 0..Len(pool_nullifiers')
        /\ nullifier_scan' \in [Pool -> 0..Len(pool_nullifiers')]
        /\ kicked' \in BOOLEAN /\ crashes' \in 0..MaxCrashes
    BY <1>1, <1>2, <1>3 DEF TypeOK
  <2> QED
    BY <1>1, <2>1, <2>3, <2>4, <2>5 DEF TypeOK
<1>10. TablesOK'
  <2>1. Closed(Range(pool_commitments), "commitment")'
    BY <1>3, <1>4, <1>7 DEF Closed
  <2> QED
    BY <1>1, <1>2, <1>3, <1>7, <2>1 DEF TablesOK, Closed
<1>11. WorkOK'
  <2>1. Unprocessed' \subseteq Unprocessed
    BY <1>1, <1>7 DEF Unprocessed
  <2> QED
    BY <1>1, <2>1, WorkStays
<1>12. NotesOK'
  <2>1. DOMAIN user_notes \subseteq 1..L
    BY <1>2 DEF TypeOK, L
  <2>2. ASSUME NEW i \in 1..L, NEW j PROVE Spends(j, i)' <=> Spends(j, i)
    BY <1>1, <1>7 DEF Spends, SpentBy
  <2>3. ASSUME NEW p \in Pool, NEW a \in Account, NEW i \in RowsOf(pool_commitments, p)',
               i <= scan[p][a], chain[pool_commitments'[i]].owner = a
        PROVE  i \in DOMAIN user_notes
    <3>1. scan[p][a] \in 0..L
      BY <1>2 DEF TypeOK, L
    <3>2. i \in 1..Len(pool_commitments') /\ chain[pool_commitments'[i]].pool = p
      BY <1>1 DEF RowsOf
    <3>3. i \in 1..L
      BY <1>7, <2>3, <3>1, <3>2
    <3>4. i \in RowsOf(pool_commitments, p) /\ chain[pool_commitments[i]].owner = a
      BY <1>7, <2>3, <3>2, <3>3 DEF RowsOf, L
    <3> QED
      BY <1>2, <2>3, <3>4 DEF NotesOK
  <2>4. ASSUME NEW i \in DOMAIN user_notes
        PROVE  /\ chain[pool_commitments'[i]].owner = user_notes[i].account
               /\ chain[pool_commitments'[i]].text # "short"
               /\ user_notes[i].nullifier_id # 0 => Spends(user_notes[i].nullifier_id, i)'
               /\ user_notes[i].nullifier_id = 0 =>
                    \A j \in 1..Len(pool_nullifiers) :
                      Spends(j, i)' => j > nullifier_scan[chain[pool_commitments'[i]].pool]
    BY <1>1, <1>2, <1>7, <2>1, <2>2 DEF NotesOK
  <2> QED
    BY <1>1, <1>2, <2>3, <2>4 DEF NotesOK
<1>13. RestOK'
  BY <1>1 DEF RestOK
<1> QED
  BY <1>8, <1>9, <1>10, <1>11, <1>12, <1>13 DEF IInv

\* The leaf table gains the leaves of the batch.
LEMMA SaveLeavesKeeps ==
  ASSUME IInv, save_leaf_added_events_batch
  PROVE  IInv'
<1> USE DEF chainVars, tableVars
<1> DEFINE new == OfKind("leaf")
           D == DOMAIN asp_leaves \union {chain[i].index : i \in new}
<1>1. /\ UNCHANGED <<chain, ledger, raw, fully, keys, pool_commitments, pool_nullifiers, user_notes,
                     scan, nullifier_scan, kicked, crashes>>
      /\ pc = "leaves" /\ StartScan(TRUE)
      /\ asp_leaves' = [k \in D |-> IF k \in DOMAIN asp_leaves THEN asp_leaves[k]
                                    ELSE Max({i \in new : chain[i].index = k})]
  BY DEF save_leaf_added_events_batch
<1>2. TypeOK /\ TablesOK /\ NotesOK /\ ChainOK
  BY DEF IInv
<1>3. Numbers("leaf")' = Numbers("leaf") /\ \A kind : Numbers(kind)' = Numbers(kind)
  BY <1>1 DEF Numbers
<1>4. /\ new \subseteq Numbers("leaf") \cap (1..raw)
      /\ Closed(Range(asp_leaves) \union new, "leaf")
  BY <1>1, <1>2, BatchCloses, RowOrNone DEF TablesOK
<1> HIDE DEF new
<1>5. Range(asp_leaves) \subseteq Numbers("leaf") \cap (1..raw)
  BY <1>2 DEF TypeOK
<1>6. ASSUME NEW k \in D, k \notin DOMAIN asp_leaves
      PROVE  /\ Max({i \in new : chain[i].index = k}) \in new
             /\ chain[Max({i \in new : chain[i].index = k})].index = k
  <2> DEFINE T == {i \in new : chain[i].index = k}
  <2>1. T # {} /\ T \subseteq 0..raw
    BY <1>4, <1>6
  <2>2. raw \in Nat
    BY <1>2, RowFacts
  <2>3. Max(T) \in T
    BY <2>1, <2>2, MinMax
  <2> QED
    BY <2>3
<1>7. /\ asp_leaves' \in [D -> Nat] /\ DOMAIN asp_leaves' = D
      /\ \A k \in D : chain[asp_leaves'[k]].index = k /\ asp_leaves'[k] \in Range(asp_leaves) \union new
      /\ \A k \in DOMAIN asp_leaves : k \in D /\ asp_leaves'[k] = asp_leaves[k]
  <2>1. ASSUME NEW k \in D
        PROVE  /\ asp_leaves'[k] \in Range(asp_leaves) \union new
               /\ chain[asp_leaves'[k]].index = k
    <3>1. CASE k \in DOMAIN asp_leaves
      BY <1>1, <1>2, <3>1 DEF TablesOK, Range
    <3>2. CASE k \notin DOMAIN asp_leaves
      BY <1>1, <1>6, <3>2
    <3> QED
      BY <3>1, <3>2
  <2>2. Range(asp_leaves) \union new \subseteq Nat
    BY <1>4, <1>5
  <2>3. DOMAIN asp_leaves' = D /\ asp_leaves' = [k \in D |-> asp_leaves'[k]]
    BY <1>1
  <2> HIDE DEF D
  <2>4. asp_leaves' \in [D -> Nat]
    BY <2>1, <2>2, <2>3
  <2>5. \A k \in DOMAIN asp_leaves : k \in D /\ asp_leaves'[k] = asp_leaves[k]
    BY <1>1 DEF D
  <2> QED
    BY <2>1, <2>3, <2>4, <2>5
<1>8. Range(asp_leaves') = Range(asp_leaves) \union new
  <2>1. Range(asp_leaves') \subseteq Range(asp_leaves) \union new
    BY <1>7 DEF Range
  <2>2. Range(asp_leaves) \subseteq Range(asp_leaves')
    BY <1>7 DEF Range
  <2>3. ASSUME NEW i \in new PROVE i \in Range(asp_leaves')
    <3>1. chain[i].index \in D
      OBVIOUS
    <3>2. /\ asp_leaves'[chain[i].index] \in Numbers("leaf") /\ i \in Numbers("leaf")
          /\ chain[asp_leaves'[chain[i].index]].index = chain[i].index
      BY <1>4, <1>5, <1>7, <3>1
    <3>3. asp_leaves'[chain[i].index] = i
      BY <1>2, <3>2, Distinct
    <3> QED
      BY <1>7, <3>1, <3>3 DEF Range
  <2> QED
    BY <2>1, <2>2, <2>3
<1> HIDE DEF D
<1>9. ChainOK'
  BY <1>1, <1>2, ChainStays
<1>10. pc' = "scan" /\ work'.did = TRUE /\ WorkOK'
  <2> DEFINE q == IF keys = {} THEN <<>> ELSE PoolsOf(pool_commitments)
  <2>1. q \in Seq(Pool)
    BY IInvTypes
  <2>2. pc' = "scan" /\ work' = [batch |-> {}, pools |-> q, at |-> 1, did |-> TRUE]
    BY <1>1 DEF StartScan, NoWork
  <2> HIDE DEF q
  <2>3. /\ work' \in [batch : SUBSET Nat, pools : Seq(Pool), at : Nat, did : BOOLEAN]
        /\ work'.at = 1 /\ work'.did = TRUE
    BY <2>1, <2>2
  <2>4. pc' \notin {"nullifiers", "commitments", "leaves"} /\ IsFiniteSet(keys')
    <3>1. IsFiniteSet(keys)
      BY IInvTypes
    <3> QED
      BY <1>1, <2>2, <3>1
  <2> QED
    BY <2>2, <2>3, <2>4 DEF WorkOK
<1>11. TypeOK'
  <2>1. Range(asp_leaves') \subseteq Numbers("leaf")' \cap (1..raw')
    BY <1>1, <1>3, <1>4, <1>5, <1>8
  <2>2. /\ raw' \in 0..Len(chain') /\ fully' \in 0..ledger' /\ keys' \subseteq Account
        /\ Range(pool_commitments') \subseteq Numbers("commitment")' \cap (1..raw')
        /\ Range(pool_nullifiers') \subseteq Numbers("nullifier")' \cap (1..raw')
        /\ DOMAIN user_notes' \subseteq 1..Len(pool_commitments')
        /\ \A i \in DOMAIN user_notes' : /\ user_notes'[i].account \in keys'
                                         /\ user_notes'[i].nullifier_id \in 0..Len(pool_nullifiers')
        /\ scan' \in [Pool -> [Account -> 0..Len(pool_commitments')]]
        /\ nullifier_scan' \in [Pool -> 0..Len(pool_nullifiers')]
        /\ kicked' \in BOOLEAN /\ crashes' \in 0..MaxCrashes
    BY <1>1, <1>2, <1>3 DEF TypeOK
  <2> QED
    BY <1>10, <2>1, <2>2 DEF TypeOK
<1>12. TablesOK'
  <2>1. Closed(Range(asp_leaves), "leaf")'
    BY <1>3, <1>4, <1>8 DEF Closed
  <2>2. asp_leaves' \in [DOMAIN asp_leaves' -> Nat] /\ \A k \in DOMAIN asp_leaves' : chain'[asp_leaves'[k]].index = k
    BY <1>1, <1>7
  <2>3. /\ Closed(Range(pool_commitments), "commitment")'
        /\ Closed(Range(pool_nullifiers), "nullifier")'
    BY <1>1, <1>2, <1>3 DEF TablesOK, Closed
  <2> QED
    BY <1>1, <1>2, <2>1, <2>2, <2>3 DEF TablesOK
<1>13. NotesOK'
  BY <1>1, <1>2 DEF NotesOK, Spends, SpentBy, RowsOf
<1>14. RestOK'
  BY <1>10 DEF RestOK
<1> QED
  BY <1>9, <1>10, <1>11, <1>12, <1>13, <1>14 DEF IInv

-----------------------------------------------------------------------------
(* The scan of a pool.                                                     *)

\* The states of a scan of pool p before and after each of its m turns.
Visits(g, p, quota, m) ==
  /\ g = [k \in 0..m |-> g[k]]
  /\ g[0] = [quota |-> quota, last |-> [a \in keys |-> scan[p][a]]]
  /\ \A k \in 1..m : g[k] = Turn(p, g[k - 1], InOrder(keys)[((k - 1) % Len(InOrder(keys))) + 1])

\* The least of two numbers.
LEMMA MinTwo ==
  ASSUME NEW x \in Int, NEW y \in Int
  PROVE  Min({x, y}) \in Int /\ (x >= 1 /\ y >= 1 => Min({x, y}) >= 1)
<1>1. \E z \in {x, y} : \A w \in {x, y} : z <= w
  <2>1. CASE x <= y
    BY <2>1
  <2>2. CASE y <= x
    BY <2>2
  <2> QED
    BY <2>1, <2>2
<1>2. Min({x, y}) \in {x, y}
  BY <1>1, Zenon DEF Min
<1> QED
  BY <1>2

\* Any number of turns can be taken.
LEMMA VisitsExist ==
  ASSUME NEW p, NEW quota, NEW n \in Nat
  PROVE  \E g : Visits(g, p, quota, n)
<1> DEFINE T == {m \in Nat : ~ (\E g : Visits(g, p, quota, m))}
<1> SUFFICES ASSUME T # {} PROVE FALSE
  OBVIOUS
<1>1. PICK m \in T : \A y \in T : m <= y
  BY Least
<1>2. CASE m = 0
  <2> DEFINE s == [quota |-> quota, last |-> [a \in keys |-> scan[p][a]]]
             g == [k \in 0..0 |-> s]
  <2>1. g[0] = s /\ \A k : k \notin 1..0
    OBVIOUS
  <2>2. g = [k \in 0..0 |-> g[k]]
    OBVIOUS
  <2>3. Visits(g, p, quota, 0)
    BY <2>1, <2>2 DEF Visits
  <2> QED
    BY <1>1, <1>2, <2>3
<1>3. CASE m # 0
  <2>1. m \in Nat /\ m - 1 \in Nat /\ m - 1 \notin T
    BY <1>1, <1>3
  <2>2. PICK g : Visits(g, p, quota, m - 1)
    BY <2>1
  <2> DEFINE A(k) == InOrder(keys)[((k - 1) % Len(InOrder(keys))) + 1]
             t == Turn(p, g[m - 1], A(m))
             h == [k \in 0..m |-> IF k = m THEN t ELSE g[k]]
  <2>3. \A k \in 1..(m - 1) : g[k] = Turn(p, g[k - 1], A(k))
    BY <2>2 DEF Visits
  <2>4. h[0] = g[0] /\ h = [k \in 0..m |-> h[k]] /\ h[m] = t
    BY <1>3, <2>1
  <2>5. ASSUME NEW k \in 1..m PROVE h[k] = Turn(p, h[k - 1], A(k))
    <3>1. k \in 0..m /\ k - 1 \in 0..m /\ k - 1 # m
      BY <2>1
    <3>2. h[k - 1] = g[k - 1]
      BY <3>1
    <3>3. CASE k = m
      BY <2>4, <3>2, <3>3
    <3>4. CASE k # m
      <4>1. k \in 1..(m - 1)
        BY <2>1, <3>4
      <4>2. h[k] = g[k]
        BY <3>1, <3>4
      <4> QED
        BY <2>3, <3>2, <4>1, <4>2
    <3> QED
      BY <3>3, <3>4
  <2> HIDE DEF h
  <2>6. Visits(h, p, quota, m)
    BY <2>2, <2>4, <2>5 DEF Visits
  <2> QED
    BY <1>1, <2>6
<1> QED
  BY <1>2, <1>3

\* ScannedTo is where such a sequence of turns ends.
LEMMA ScanVisits ==
  ASSUME NEW p, NEW quota \in Nat, Len(InOrder(keys)) \in Nat
  PROVE  \E g : /\ Visits(g, p, quota, quota * Len(InOrder(keys)))
                /\ ScannedTo(p, quota) = g[quota * Len(InOrder(keys))].last
<1> DEFINE n == Len(InOrder(keys))
           N == quota * n
           S == [quota |-> quota, last |-> [a \in keys |-> scan[p][a]]]
           A(k) == InOrder(keys)[((k - 1) % n) + 1]
           visit == CHOOSE f : f = [k \in 0..N |-> IF k = 0 THEN S ELSE Turn(p, f[k - 1], A(k))]
<1>1. ScannedTo(p, quota) = visit[N].last
  BY DEF ScannedTo
<1>2. N \in Nat
  OBVIOUS
<1>3. PICK g : Visits(g, p, quota, N)
  BY <1>2, VisitsExist
<1>4. g = [k \in 0..N |-> g[k]] /\ g[0] = S /\ \A k \in 1..N : g[k] = Turn(p, g[k - 1], A(k))
  BY <1>3 DEF Visits
<1> HIDE DEF N, S, A
<1>5. g = [k \in 0..N |-> IF k = 0 THEN S ELSE Turn(p, g[k - 1], A(k))]
  <2>1. \A k \in 0..N : k = 0 \/ k \in 1..N
    BY <1>2
  <2>2. \A k \in 0..N : g[k] = IF k = 0 THEN S ELSE Turn(p, g[k - 1], A(k))
    BY <1>4, <2>1
  <2> QED
    BY <1>4, <2>2
<1>6. visit = [k \in 0..N |-> IF k = 0 THEN S ELSE Turn(p, visit[k - 1], A(k))]
  BY <1>5, Zenon
<1> HIDE DEF visit
<1>7. \A k \in 0..N : visit[k] = IF k = 0 THEN S ELSE Turn(p, visit[k - 1], A(k))
  BY <1>6, Zenon
<1>8. visit[0] = S /\ \A k \in 1..N : visit[k] = Turn(p, visit[k - 1], A(k))
  BY <1>2, <1>7
<1>9. visit = [k \in 0..N |-> visit[k]]
  <2>1. DOMAIN visit = 0..N /\ visit = [k \in DOMAIN visit |-> visit[k]]
    BY <1>6, Zenon
  <2> QED
    BY <2>1
<1>10. Visits(visit, p, quota, N)
  BY <1>8, <1>9 DEF Visits, S, A
<1> QED
  BY <1>1, <1>10 DEF N

\* A turn leaves the state alone, or moves its account to a later row; while
\* there is quota, it leaves alone only an account with no row left.
LEMMA TurnFacts ==
  ASSUME NEW p, NEW s \in [quota : Int, last : [keys -> Nat]], NEW a \in keys,
         Len(pool_commitments) \in Nat
  PROVE  LET t == Turn(p, s, a) IN
         /\ t \in [quota : Int, last : [keys -> Nat]]
         /\ \A b \in keys : \/ t.last[b] = s.last[b]
                            \/ (t.last[b] > s.last[b] /\ t.last[b] \in RowsOf(pool_commitments, p))
         /\ t = s \/ t.last[a] > s.last[a]
         /\ s.quota >= 1 /\ t = s => \A i \in RowsOf(pool_commitments, p) : i <= s.last[a]
<1> DEFINE V == RowsOf(pool_commitments, p)
           W == {i \in V : i > s.last[a]}
           m == Min({s.quota, ACCOUNT_CHUNK})
           r == First(W, m)
           t == Turn(p, s, a)
<1>0. s.quota \in Int /\ s.last \in [keys -> Nat] /\ s.last[a] \in Nat
  OBVIOUS
<1>1. t = IF r = {} THEN s
          ELSE [quota |-> s.quota - Cardinality(r), last |-> [s.last EXCEPT ![a] = Max(r)]]
  BY DEF Turn
<1>2. V \subseteq 1..Len(pool_commitments) /\ W \subseteq 0..Len(pool_commitments)
  BY DEF RowsOf
<1>3. W \subseteq Nat /\ IsFiniteSet(W)
  <2>1. IsFiniteSet(0..Len(pool_commitments))
    <3>1. 0 \in Int /\ Len(pool_commitments) \in Int
      OBVIOUS
    <3> QED
      BY <3>1, FS_Interval
  <2>2. IsFiniteSet(W)
    BY <1>2, <2>1, FS_Subset
  <2> QED
    BY <1>2, <2>2
<1>4. m \in Int /\ (s.quota >= 1 => m >= 1)
  <2>1. ACCOUNT_CHUNK \in Int /\ ACCOUNT_CHUNK >= 1
    BY LocalStateAssumption
  <2> QED
    BY <1>0, <2>1, MinTwo
<1>5. \A i \in W : i \in V /\ i > s.last[a]
  OBVIOUS
<1>6. \A i \in V : i \notin W => i <= s.last[a]
  BY <1>0, <1>2
<1> HIDE DEF W, m, V
<1>7. /\ r \subseteq W /\ IsFiniteSet(r)
      /\ m >= 1 /\ W # {} => r # {}
  BY <1>3, <1>4, FirstFacts
<1> HIDE DEF r, t
<1>8. CASE r = {}
  <2>1. t = s
    BY <1>1, <1>8
  <2>2. s.quota >= 1 => \A i \in V : i <= s.last[a]
    BY <1>4, <1>6, <1>7, <1>8
  <2> QED
    BY <2>1, <2>2 DEF t, V
<1>9. CASE r # {}
  <2>1. Max(r) \in r
    <3>1. r \subseteq 0..Len(pool_commitments)
      BY <1>2, <1>7
    <3> QED
      BY <1>9, <3>1, MinMax
  <2>2. Max(r) \in V /\ Max(r) > s.last[a] /\ Max(r) \in Nat
    BY <1>3, <1>5, <1>7, <2>1
  <2>3. Cardinality(r) \in Nat
    BY <1>7, FS_CardinalityType
  <2> DEFINE l == [s.last EXCEPT ![a] = Max(r)]
  <2>4. l \in [keys -> Nat] /\ l[a] = Max(r) /\ \A b \in keys : b # a => l[b] = s.last[b]
    BY <1>0, <2>2
  <2>5. t = [quota |-> s.quota - Cardinality(r), last |-> l]
    BY <1>1, <1>9
  <2> HIDE DEF l
  <2>6. t \in [quota : Int, last : [keys -> Nat]] /\ t.last = l
    BY <1>0, <2>3, <2>4, <2>5
  <2>7. t # s
    <3>1. l[a] # s.last[a]
      BY <1>0, <2>2, <2>4
    <3> QED
      BY <2>6, <3>1
  <2>8. ASSUME NEW b \in keys
        PROVE  t.last[b] = s.last[b] \/ (t.last[b] > s.last[b] /\ t.last[b] \in V)
    <3>1. CASE b = a
      BY <2>2, <2>4, <2>6, <3>1
    <3>2. CASE b # a
      BY <2>4, <2>6, <3>2
    <3> QED
      BY <3>1, <3>2
  <2>9. t.last[a] > s.last[a]
    BY <2>2, <2>4, <2>6
  <2> QED
    BY <2>6, <2>7, <2>8, <2>9 DEF t, V
<1> QED
  BY <1>8, <1>9

\* The turns of n accounts go round.
LEMMA Rounds ==
  ASSUME NEW n \in Nat, NEW quota \in Nat, quota >= 1
  PROVE  /\ quota * n \in Nat /\ n <= quota * n /\ (n = 0 => quota * n = 0)
         /\ \A k \in 1..(quota * n) : ((k - 1) % n) + 1 \in 1..n
         /\ \A k \in 1..n : ((k - 1) % n) + 1 = k
<1>1. quota * n \in Nat /\ (n = 0 => quota * n = 0)
  OBVIOUS
<1>2. n <= quota * n
  <2>1. quota * n = (quota - 1) * n + n /\ (quota - 1) * n \in Nat
    OBVIOUS
  <2> QED
    BY <2>1
<1>3. ASSUME NEW k \in 1..(quota * n) PROVE ((k - 1) % n) + 1 \in 1..n
  <2>1. n > 0 /\ k - 1 \in Nat
    BY <1>1
  <2>2. (k - 1) % n \in 0..(n - 1)
    BY <2>1
  <2> QED
    BY <2>2
<1>4. ASSUME NEW k \in 1..n PROVE ((k - 1) % n) + 1 = k
  <2>1. (k - 1) % n = k - 1
    OBVIOUS
  <2> QED
    BY <2>1
<1> QED
  BY <1>1, <1>2, <1>3, <1>4

\* A scan ends at a row of the pool, and moves unless no account has one left.
LEMMA ScanFacts ==
  ASSUME IInv, NEW p \in Pool, NEW quota \in Nat, quota >= 1
  PROVE  LET to == ScannedTo(p, quota) IN
         /\ \A a \in keys : \/ to[a] = scan[p][a]
                            \/ (to[a] > scan[p][a] /\ to[a] \in RowsOf(pool_commitments, p))
         /\ (\A a \in keys : to[a] = scan[p][a]) => ScannedPool(p)
<1> DEFINE n == Len(InOrder(keys))
           N == quota * n
           A(k) == InOrder(keys)[((k - 1) % n) + 1]
           V == RowsOf(pool_commitments, p)
           to == ScannedTo(p, quota)
<1>1. /\ n \in Nat /\ \A k \in 1..n : InOrder(keys)[k] \in keys
      /\ \A a \in keys : \E k \in 1..n : InOrder(keys)[k] = a
  <2>1. keys \subseteq Nat /\ IsFiniteSet(keys)
    BY LocalStateAssumption, IInvTypes DEF IInv, TypeOK
  <2> QED
    BY <2>1, Sorts
<1>2. /\ N \in Nat /\ n <= N
      /\ \A k \in 1..N : A(k) \in keys
      /\ \A k \in 1..n : A(k) = InOrder(keys)[k]
  BY <1>1, Rounds
<1>3. PICK g : /\ Visits(g, p, quota, N) /\ to = g[N].last
  BY <1>1, ScanVisits
<1>4. /\ g[0] = [quota |-> quota, last |-> [a \in keys |-> scan[p][a]]]
      /\ \A k \in 1..N : g[k] = Turn(p, g[k - 1], A(k))
  BY <1>3 DEF Visits
<1>5. /\ \A a \in keys : scan[p][a] \in Nat
      /\ Len(pool_commitments) \in Nat /\ V \subseteq Nat
  <2>1. scan \in [Pool -> [Account -> 0..Len(pool_commitments)]] /\ keys \subseteq Account
    BY DEF IInv, TypeOK
  <2>2. Len(pool_commitments) \in Nat
    BY RowFacts DEF IInv
  <2> QED
    BY <2>1, <2>2 DEF RowsOf
<1> HIDE DEF N, A, n, to
<1> DEFINE P(k) ==
      /\ g[k] \in [quota : Int, last : [keys -> Nat]]
      /\ \A b \in keys : \/ g[k].last[b] = scan[p][b]
                         \/ (g[k].last[b] > scan[p][b] /\ g[k].last[b] \in V)
      /\ \/ \E b \in keys : g[k].last[b] > scan[p][b]
         \/ (g[k] = g[0] /\ \A i \in 1..k : \A j \in V : j <= scan[p][A(i)])
<1>6. P(0) /\ g[0].quota = quota /\ \A b \in keys : g[0].last[b] = scan[p][b]
  BY <1>4, <1>5
<1>7. ASSUME NEW k \in 1..N, P(k - 1) PROVE P(k)
  <2> DEFINE s == g[k - 1]
             t == g[k]
             a == A(k)
  <2>0. t = Turn(p, s, a) /\ a \in keys /\ s \in [quota : Int, last : [keys -> Nat]]
    BY <1>2, <1>4, <1>7
  <2>1. /\ t \in [quota : Int, last : [keys -> Nat]]
        /\ \A b \in keys : t.last[b] = s.last[b] \/ (t.last[b] > s.last[b] /\ t.last[b] \in V)
        /\ t = s \/ t.last[a] > s.last[a]
        /\ s.quota >= 1 /\ t = s => \A i \in V : i <= s.last[a]
    <3> HIDE DEF s, a, t
    <3> QED
      BY <1>5, <2>0, TurnFacts
  <2>2. \A b \in keys : s.last[b] = scan[p][b] \/ (s.last[b] > scan[p][b] /\ s.last[b] \in V)
    BY <1>7
  <2>3. (\E b \in keys : s.last[b] > scan[p][b])
          \/ (s = g[0] /\ \A i \in 1..(k - 1) : \A j \in V : j <= scan[p][A(i)])
    BY <1>7
  <2> HIDE DEF s, t, P
  <2>4. \A b \in keys : s.last[b] \in Nat /\ t.last[b] \in Nat
    BY <2>0, <2>1
  <2>5. \A b \in keys : t.last[b] = scan[p][b] \/ (t.last[b] > scan[p][b] /\ t.last[b] \in V)
    BY <1>5, <2>1, <2>2, <2>4
  <2>6. CASE \E b \in keys : s.last[b] > scan[p][b]
    <3>1. \E b \in keys : t.last[b] > scan[p][b]
      BY <1>5, <2>1, <2>4, <2>6
    <3> QED
      BY <2>1, <2>5, <3>1 DEF P, t
  <2>7. CASE s = g[0] /\ \A i \in 1..(k - 1) : \A j \in V : j <= scan[p][A(i)]
    <3>1. s.quota >= 1 /\ s.last[a] = scan[p][a]
      BY <1>6, <2>0, <2>7
    <3>2. CASE t.last[a] > s.last[a]
      <4>1. \E b \in keys : t.last[b] > scan[p][b]
        BY <2>0, <3>1, <3>2
      <4> QED
        BY <2>1, <2>5, <4>1 DEF P, t
    <3>3. CASE t = s
      <4>1. \A j \in V : j <= scan[p][a]
        BY <2>1, <3>1, <3>3
      <4>2. \A i \in 1..k : i = k \/ i \in 1..(k - 1)
        BY <1>2
      <4>3. ASSUME NEW i \in 1..k, NEW j \in V PROVE j <= scan[p][A(i)]
        BY <2>7, <4>1, <4>2
      <4>4. t = g[0]
        BY <2>7, <3>3
      <4> QED
        BY <2>1, <2>5, <4>3, <4>4 DEF P, t
    <3> QED
      BY <2>1, <3>2, <3>3
  <2> QED
    BY <2>3, <2>6, <2>7
<1> HIDE DEF P
<1>8. P(N)
  <2> DEFINE T == {k \in 0..N : ~ P(k)}
  <2> SUFFICES ASSUME T # {} PROVE FALSE
    BY <1>2
  <2>1. T \subseteq Nat
    OBVIOUS
  <2>2. PICK k \in T : \A y \in T : k <= y
    BY <2>1, Least
  <2>3. k # 0
    BY <1>6, <2>2
  <2>4. k \in 1..N /\ k - 1 \in 0..N /\ k - 1 \notin T
    BY <1>2, <2>2, <2>3
  <2> QED
    BY <1>7, <2>2, <2>4
<1>9. \A a \in keys : to[a] = scan[p][a] \/ (to[a] > scan[p][a] /\ to[a] \in V)
  BY <1>3, <1>8 DEF P
<1>10. ASSUME \A a \in keys : to[a] = scan[p][a] PROVE ScannedPool(p)
  <2>1. ~ (\E b \in keys : g[N].last[b] > scan[p][b])
    BY <1>3, <1>5, <1>10
  <2>2. \A i \in 1..N : \A j \in V : j <= scan[p][A(i)]
    BY <1>8, <2>1 DEF P
  <2>3. ASSUME NEW a \in keys, NEW j \in V PROVE j <= scan[p][a]
    <3>1. PICK k \in 1..n : InOrder(keys)[k] = a
      BY <1>1
    <3>2. k \in 1..N /\ A(k) = a
      BY <1>1, <1>2, <3>1
    <3> QED
      BY <2>2, <3>2
  <2> QED
    BY <2>3 DEF ScannedPool
<1> QED
  BY <1>9, <1>10 DEF to

\* The row a new note is marked with is the first one that spends it.
LEMMA NullifierRowFacts ==
  ASSUME TypeOK, TablesOK, NEW i \in 1..Len(pool_commitments)
  PROVE  /\ NullifierRow(i) \in 0..Len(pool_nullifiers)
         /\ NullifierRow(i) # 0 => Spends(NullifierRow(i), i)
         /\ NullifierRow(i) = 0 => \A j \in 1..Len(pool_nullifiers) : ~ Spends(j, i)
<1> DEFINE e == pool_commitments[i]
           js == {j \in RowsOf(pool_nullifiers, chain[e].pool) :
                    chain[pool_nullifiers[j]].nullifier = SpentBy(e)}
<1>1. NullifierRow(i) = IF js = {} THEN 0 ELSE Min(js)
  BY DEF NullifierRow
<1>2. \A j : j \in js <=> j \in 1..Len(pool_nullifiers) /\ Spends(j, i)
  BY DEF RowsOf, Spends
<1>3. Len(pool_nullifiers) \in Nat
  BY RowFacts
<1> HIDE DEF js
<1>4. CASE js = {}
  BY <1>1, <1>2, <1>3, <1>4
<1>5. CASE js # {}
  <2>1. js \subseteq 0..Len(pool_nullifiers)
    BY <1>2, <1>3
  <2>2. Min(js) \in js
    BY <1>3, <1>5, <2>1, MinMax
  <2>3. NullifierRow(i) \in 1..Len(pool_nullifiers) /\ Spends(NullifierRow(i), i)
    BY <1>1, <1>2, <1>5, <2>2
  <2> QED
    BY <1>3, <2>3
<1> QED
  BY <1>4, <1>5

\* A pool's share of the limit is at least one row.
LEMMA QuotaFacts ==
  ASSUME NEW n \in Nat, NEW i \in 1..n
  PROVE  Quota(i, n) \in Nat /\ Quota(i, n) >= 1
<1>1. FETCH_LIMIT \in Nat /\ FETCH_LIMIT >= 1 /\ n >= 1
  BY LocalStateAssumption
<1>2. CASE FETCH_LIMIT < n
  BY <1>2 DEF Quota
<1>3. CASE ~ (FETCH_LIMIT < n)
  <2>1. FETCH_LIMIT \div n \in Nat /\ FETCH_LIMIT \div n >= 1
    BY <1>1, <1>3
  <2>2. Quota(i, n) = (FETCH_LIMIT \div n) + (IF i <= FETCH_LIMIT % n THEN 1 ELSE 0)
    BY <1>3 DEF Quota
  <2> QED
    BY <2>1, <2>2
<1> QED
  BY <1>2, <1>3

\* A scan stores each note it passes, with the row that spends it.
LEMMA ScanKeeps ==
  ASSUME IInv, scan_commitments_for_user_notes
  PROVE  IInv'
<1> USE DEF chainVars, tableVars
<1> DEFINE p == work.pools[work.at]
           to == ScannedTo(p, Quota(work.at, Len(work.pools)))
           rows == [a \in keys |-> {i \in RowsOf(pool_commitments, p) : scan[p][a] < i /\ i <= to[a]}]
           found == {i \in RowsOf(pool_commitments, p) :
                       \E a \in keys : i \in rows[a] /\ chain[pool_commitments[i]].owner = a}
           short == \E a \in keys : \E i \in rows[a] : chain[pool_commitments[i]].text = "short"
<1>1. /\ pc = "scan" /\ work.at <= Len(work.pools)
      /\ UNCHANGED <<chain, ledger, raw, fully, keys, pool_commitments, pool_nullifiers, asp_leaves,
                     nullifier_scan, kicked, crashes>>
  BY ZenonT(60) DEF scan_commitments_for_user_notes
<1>2. \/ short /\ pc' = "idle" /\ work' = NoWork /\ UNCHANGED <<user_notes, scan>>
      \/ /\ ~ short /\ pc' = pc
         /\ user_notes' = [i \in DOMAIN user_notes \union found |->
                             IF i \in DOMAIN user_notes THEN user_notes[i]
                             ELSE [account |-> chain[pool_commitments[i]].owner,
                                   nullifier_id |-> NullifierRow(i)]]
         /\ scan' = [scan EXCEPT ![p] = [a \in Account |-> IF a \in keys THEN to[a] ELSE scan[p][a]]]
         /\ work' = [work EXCEPT !.at = work.at + 1, !.did = work.did \/ \E a \in keys : rows[a] # {}]
  BY ZenonT(60) DEF scan_commitments_for_user_notes
<1>3. TypeOK /\ TablesOK /\ NotesOK /\ ChainOK
  BY DEF IInv
<1>4. p \in Pool /\ work.at \in 1..Len(work.pools) /\ Len(work.pools) \in Nat
  BY <1>1, IInvTypes
<1>5. /\ \A a \in keys : to[a] = scan[p][a] \/ (to[a] > scan[p][a] /\ to[a] \in RowsOf(pool_commitments, p))
      /\ (\A a \in keys : to[a] = scan[p][a]) => ScannedPool(p)
  BY <1>4, QuotaFacts, ScanFacts
<1>6. /\ Len(pool_commitments) \in Nat
      /\ RowsOf(pool_commitments, p) \subseteq 1..Len(pool_commitments)
      /\ \A q \in Pool, a \in Account : scan[q][a] \in 0..Len(pool_commitments)
      /\ keys \subseteq Account /\ DOMAIN user_notes \subseteq 1..Len(pool_commitments)
  BY <1>3, RowFacts DEF TypeOK, RowsOf
<1>7. \A a \in keys : rows[a] = {i \in RowsOf(pool_commitments, p) : scan[p][a] < i /\ i <= to[a]}
  OBVIOUS
<1> HIDE DEF p, to, rows
<1>8. CASE short /\ pc' = "idle" /\ work' = NoWork /\ UNCHANGED <<user_notes, scan>>
  <2>1. PICK a \in keys : \E i \in rows[a] : chain[pool_commitments[i]].text = "short"
    BY <1>8
  <2>2. PICK i \in rows[a] : chain[pool_commitments[i]].text = "short"
    BY <2>1
  <2>3. i \in 1..Len(pool_commitments)
    BY <1>6, <1>7
  <2>4. pool_commitments[i] \in Numbers("commitment")
    BY <1>3, <2>3, RowFacts DEF Numbers
  <2>5. ~ NoShort
    BY <2>2, <2>4 DEF NoShort
  <2>6. WorkOK'
    <3>1. IsFiniteSet(keys') /\ pc' \notin {"nullifiers", "commitments", "leaves"}
      <4>1. IsFiniteSet(keys)
        BY IInvTypes
      <4> QED
        BY <1>1, <1>8, <4>1
    <3> QED
      BY <1>8, <3>1, IInvTypes DEF WorkOK
  <2> QED
    BY <1>1, <1>8, <2>5, <2>6, IInvTypes, ControlKeeps
<1>9. CASE /\ ~ short /\ pc' = pc
           /\ user_notes' = [i \in DOMAIN user_notes \union found |->
                               IF i \in DOMAIN user_notes THEN user_notes[i]
                               ELSE [account |-> chain[pool_commitments[i]].owner,
                                     nullifier_id |-> NullifierRow(i)]]
           /\ scan' = [scan EXCEPT ![p] = [a \in Account |-> IF a \in keys THEN to[a] ELSE scan[p][a]]]
           /\ work' = [work EXCEPT !.at = work.at + 1, !.did = work.did \/ \E a \in keys : rows[a] # {}]
  <2>1. \A i \in found :
          /\ i \in 1..Len(pool_commitments) /\ chain[pool_commitments[i]].owner \in keys
          /\ chain[pool_commitments[i]].text # "short"
    BY <1>6, <1>9
  <2>2. /\ scan' \in [Pool -> [Account -> 0..Len(pool_commitments)]]
        /\ \A q \in Pool, a \in Account : scan[q][a] <= scan'[q][a]
        /\ \A q \in Pool, a \in Account : (q = p /\ a \in keys) \/ scan'[q][a] = scan[q][a]
        /\ \A a \in keys : scan'[p][a] = to[a]
    <3> DEFINE f == [a \in Account |-> IF a \in keys THEN to[a] ELSE scan[p][a]]
    <3>1. \A a \in keys : to[a] \in 0..Len(pool_commitments) /\ scan[p][a] <= to[a]
      BY <1>4, <1>5, <1>6
    <3>2. /\ f \in [Account -> 0..Len(pool_commitments)]
          /\ \A a \in Account : scan[p][a] <= f[a] /\ (a \in keys \/ f[a] = scan[p][a])
          /\ \A a \in keys : f[a] = to[a]
      BY <1>4, <1>6, <3>1
    <3>3. scan' = [scan EXCEPT ![p] = f] /\ scan \in [Pool -> [Account -> 0..Len(pool_commitments)]]
      BY <1>3, <1>9 DEF TypeOK
    <3> HIDE DEF f
    <3>4. scan'[p] = f /\ \A q \in Pool : q = p \/ scan'[q] = scan[q]
      BY <1>4, <3>3
    <3>5. scan' \in [Pool -> [Account -> 0..Len(pool_commitments)]]
      BY <3>2, <3>3
    <3>6. \A q \in Pool, a \in Account : scan[q][a] <= scan'[q][a]
      BY <1>6, <3>2, <3>4
    <3> QED
      BY <1>6, <3>2, <3>4, <3>5, <3>6
  <2> DEFINE D == DOMAIN user_notes \union found
  <2>3. DOMAIN user_notes' = D
    BY <1>9
  <2>4. ASSUME NEW i \in D
        PROVE  /\ user_notes'[i] \in [account : Account, nullifier_id : Nat]
               /\ user_notes'[i].account \in keys /\ user_notes'[i].nullifier_id \in 0..Len(pool_nullifiers)
               /\ chain[pool_commitments[i]].owner = user_notes'[i].account
               /\ chain[pool_commitments[i]].text # "short"
               /\ user_notes'[i].nullifier_id # 0 => Spends(user_notes'[i].nullifier_id, i)
               /\ user_notes'[i].nullifier_id = 0 =>
                    \A j \in 1..Len(pool_nullifiers) :
                      Spends(j, i) => j > nullifier_scan[chain[pool_commitments[i]].pool]
    <3>1. CASE i \in DOMAIN user_notes
      <4>1. user_notes'[i] = user_notes[i]
        BY <1>9, <3>1
      <4> QED
        BY <1>3, <3>1, <4>1 DEF TypeOK, NotesOK
    <3>2. CASE i \notin DOMAIN user_notes
      <4>1. user_notes'[i] = [account |-> chain[pool_commitments[i]].owner, nullifier_id |-> NullifierRow(i)]
        BY <1>9, <3>2
      <4>2. i \in found
        BY <3>2
      <4>3. /\ NullifierRow(i) \in 0..Len(pool_nullifiers)
            /\ NullifierRow(i) # 0 => Spends(NullifierRow(i), i)
            /\ NullifierRow(i) = 0 => \A j \in 1..Len(pool_nullifiers) : ~ Spends(j, i)
        BY <1>3, <2>1, <4>2, NullifierRowFacts
      <4> QED
        BY <1>6, <2>1, <4>1, <4>2, <4>3
    <3> QED
      BY <3>1, <3>2
  <2>5. ASSUME NEW q \in Pool, NEW a \in Account, NEW i \in RowsOf(pool_commitments, q),
               i <= scan'[q][a], chain[pool_commitments[i]].owner = a
        PROVE  i \in D
    <3>1. CASE i <= scan[q][a]
      BY <1>3, <2>5, <3>1 DEF NotesOK
    <3>2. CASE ~ (i <= scan[q][a])
      <4>1. q = p /\ a \in keys /\ i <= to[a]
        BY <2>2, <2>5, <3>2
      <4>2. i \in Nat /\ scan[p][a] \in Nat
        BY <1>4, <1>6, <2>5, <4>1
      <4>3. i \in rows[a]
        BY <1>7, <2>5, <3>2, <4>1, <4>2
      <4> QED
        BY <2>5, <4>1, <4>3
    <3> QED
      BY <3>1, <3>2
  <2> HIDE DEF found
  <2>6. ChainOK'
    BY <1>1, <1>3, ChainStays
  <2>7. TypeOK'
    <3>1. D \subseteq 1..Len(pool_commitments)
      BY <1>6, <2>1
    <3>2. /\ DOMAIN user_notes' \subseteq 1..Len(pool_commitments')
          /\ \A i \in DOMAIN user_notes' : /\ user_notes'[i].account \in keys'
                                           /\ user_notes'[i].nullifier_id \in 0..Len(pool_nullifiers')
          /\ scan' \in [Pool -> [Account -> 0..Len(pool_commitments')]]
      BY <1>1, <2>2, <2>3, <2>4, <3>1
    <3> QED
      BY <1>1, <1>3, <1>9, <3>2 DEF TypeOK, Numbers
  <2>8. TablesOK'
    BY <1>1, <1>3 DEF TablesOK, Closed, Numbers
  <2>9. work' \in [batch : SUBSET Nat, pools : Seq(Pool), at : Nat, did : BOOLEAN] /\ WorkOK'
    <3> DEFINE d == work.did \/ \E a \in keys : rows[a] # {}
    <3>1. d \in BOOLEAN
      OBVIOUS
    <3>2. work' = [work EXCEPT !.at = work.at + 1, !.did = d]
      BY <1>9
    <3> HIDE DEF d
    <3>3. work' \in [batch : SUBSET Nat, pools : Seq(Pool), at : Nat, did : BOOLEAN] /\ work'.at >= 1
      <4>1. work' = [batch |-> work.batch, pools |-> work.pools, at |-> work.at + 1, did |-> d]
        BY <3>2, IInvTypes
      <4> QED
        BY <3>1, <4>1, IInvTypes
    <3>4. IsFiniteSet(keys') /\ pc' \notin {"nullifiers", "commitments", "leaves"}
      <4>1. IsFiniteSet(keys)
        BY IInvTypes
      <4> QED
        BY <1>1, <1>9, <4>1
    <3> QED
      BY <3>3, <3>4 DEF WorkOK
  <2>10. NotesOK'
    <3>0. user_notes' = [i \in D |-> user_notes'[i]]
      <4>1. user_notes' = [i \in D |-> IF i \in DOMAIN user_notes THEN user_notes[i]
                                       ELSE [account |-> chain[pool_commitments[i]].owner,
                                             nullifier_id |-> NullifierRow(i)]]
        BY <1>9
      <4> HIDE DEF D
      <4> QED
        BY <4>1
    <3> HIDE DEF D
    <3>1. user_notes' \in [DOMAIN user_notes' -> [account : Account, nullifier_id : Nat]]
      BY <2>3, <2>4, <3>0
    <3>2. \A i, j : Spends(j, i)' <=> Spends(j, i)
      BY <1>1 DEF Spends, SpentBy
    <3>3. ASSUME NEW i \in DOMAIN user_notes'
          PROVE  /\ chain'[pool_commitments'[i]].owner = user_notes'[i].account
                 /\ chain'[pool_commitments'[i]].text # "short"
                 /\ user_notes'[i].nullifier_id # 0 => Spends(user_notes[i].nullifier_id, i)'
                 /\ user_notes'[i].nullifier_id = 0 =>
                      \A j \in 1..Len(pool_nullifiers') :
                        Spends(j, i)' => j > nullifier_scan'[chain'[pool_commitments'[i]].pool]
      <4>1. i \in D
        BY <2>3
      <4>2. Spends(user_notes[i].nullifier_id, i)' <=> Spends(user_notes'[i].nullifier_id, i)
        BY <1>1 DEF Spends, SpentBy
      <4> QED
        BY <1>1, <2>4, <3>2, <4>1, <4>2
    <3>4. \A q \in Pool, a \in Account : \A i \in RowsOf(pool_commitments, q)' :
            i <= scan'[q][a] /\ chain'[pool_commitments'[i]].owner = a => i \in DOMAIN user_notes'
      <4>1. \A q : RowsOf(pool_commitments, q)' = RowsOf(pool_commitments, q)
        BY <1>1 DEF RowsOf
      <4> QED
        BY <1>1, <2>3, <2>5, <4>1
    <3> QED
      BY <3>1, <3>3, <3>4 DEF NotesOK
  <2>11. NoShort => RestOK'
    <3> SUFFICES ASSUME NoShort, ~ work'.did PROVE RestOK'
      BY <1>1, <1>9 DEF RestOK
    <3>1. ~ work.did /\ (\A a \in keys : rows[a] = {}) /\ work'.at = work.at + 1 /\ work'.pools = work.pools
      BY <1>9, IInvTypes
    <3>2. /\ Unprocessed = {} /\ (keys # {} => work.pools = PoolsOf(pool_commitments))
          /\ \A k \in 1..Len(work.pools) : k < work.at => ScannedPool(work.pools[k])
      BY <1>1, <3>1 DEF IInv, RestOK
    <3>3. ScannedPool(p)
      <4>1. ASSUME NEW a \in keys PROVE to[a] = scan[p][a]
        <5>1. to[a] \notin rows[a]
          BY <3>1
        <5>2. ~ (to[a] > scan[p][a] /\ to[a] \in RowsOf(pool_commitments, p))
          BY <1>4, <1>6, <1>7, <5>1
        <5> QED
          BY <1>5, <5>2
      <4> QED
        BY <1>5, <4>1
    <3>4. ASSUME NEW q \in Pool, ScannedPool(q) PROVE ScannedPool(q)'
      <4>1. RowsOf(pool_commitments, q)' = RowsOf(pool_commitments, q) /\ RowsOf(pool_commitments, q) \subseteq Nat
        BY <1>1, <1>6 DEF RowsOf
      <4>2. \A a \in keys : scan[q][a] \in Nat /\ scan'[q][a] \in Nat /\ scan[q][a] <= scan'[q][a]
        BY <1>6, <2>2
      <4>3. \A a \in keys : \A i \in RowsOf(pool_commitments, q) : i <= scan'[q][a]
        BY <3>4, <4>1, <4>2 DEF ScannedPool
      <4> QED
        BY <1>1, <4>1, <4>3 DEF ScannedPool
    <3>5. ASSUME NEW k \in 1..Len(work.pools), k < work'.at PROVE ScannedPool(work.pools[k])'
      <4>1. k < work.at \/ k = work.at
        BY <3>1, <3>5, IInvTypes
      <4>2. PICK q \in Pool : q = work.pools[k]
        BY IInvTypes
      <4>3. ScannedPool(q)
        BY <3>2, <3>3, <4>1, <4>2 DEF p
      <4>4. ScannedPool(q)'
        BY <3>4, <4>3
      <4>5. q = work'.pools[k]
        BY <3>1, <4>2
      <4> QED
        BY <4>4, <4>5 DEF ScannedPool
    <3>6. Unprocessed' = Unprocessed /\ PoolsOf(pool_commitments)' = PoolsOf(pool_commitments)
      BY <1>1 DEF Unprocessed, PoolsOf
    <3> QED
      BY <1>1, <1>9, <3>1, <3>2, <3>5, <3>6 DEF RestOK
  <2>12. (NoShort => RestOK)'
    <3>1. NoShort' <=> NoShort
      BY <1>1 DEF NoShort, Numbers
    <3> QED
      BY <2>11, <3>1
  <2> QED
    BY <2>6, <2>7, <2>8, <2>9, <2>10, <2>12 DEF IInv
<1> QED
  BY <1>2, <1>8, <1>9, SMTT(30)

\* Reconciliation marks the notes that the rows it passes spend.
LEMMA ReconcileKeeps ==
  ASSUME IInv, reconcile_nullifiers
  PROVE  IInv'
<1> USE DEF chainVars, tableVars
<1> DEFINE p == work.pools[work.at]
           ahead == {j \in RowsOf(pool_nullifiers, p) : j > nullifier_scan[p]}
           next == First(ahead, FETCH_LIMIT)
           Hits(i) == {j \in next : chain[pool_nullifiers[j]].nullifier = SpentBy(pool_commitments[i])}
           Hit(i) == user_notes[i].nullifier_id = 0 /\ Hits(i) # {} /\ chain[pool_commitments[i]].pool = p
<1>1. /\ pc = "reconcile" /\ work.at <= Len(work.pools)
      /\ UNCHANGED <<chain, ledger, raw, fully, keys, pool_commitments, pool_nullifiers, asp_leaves,
                     scan, pc, kicked, crashes>>
      /\ nullifier_scan' = [nullifier_scan EXCEPT ![p] = Mark(p, next)]
      /\ work' = [work EXCEPT !.at = work.at + 1, !.did = work.did \/ next # {}]
  BY DEF reconcile_nullifiers
<1>2. user_notes' = [i \in DOMAIN user_notes |->
                       IF Hit(i) THEN [user_notes[i] EXCEPT !.nullifier_id = Min(Hits(i))] ELSE user_notes[i]]
  BY DEF reconcile_nullifiers
<1>3. TypeOK /\ TablesOK /\ NotesOK /\ ChainOK
  BY DEF IInv
<1>4. p \in Pool /\ work.at \in 1..Len(work.pools) /\ Len(work.pools) \in Nat
  BY <1>1, IInvTypes
<1>5. /\ Len(pool_nullifiers) \in Nat
      /\ RowsOf(pool_nullifiers, p) \subseteq 1..Len(pool_nullifiers)
      /\ \A q \in Pool : nullifier_scan[q] \in 0..Len(pool_nullifiers)
      /\ nullifier_scan \in [Pool -> 0..Len(pool_nullifiers)]
  BY <1>3, RowFacts DEF TypeOK, RowsOf
<1>6. ahead \subseteq RowsOf(pool_nullifiers, p) /\ ahead \subseteq Nat /\ IsFiniteSet(ahead)
  <2>1. IsFiniteSet(1..Len(pool_nullifiers))
    <3>1. 1 \in Int /\ Len(pool_nullifiers) \in Int
      BY <1>5
    <3> QED
      BY <3>1, FS_Interval
  <2>2. ahead \subseteq 1..Len(pool_nullifiers)
    BY <1>5
  <2>3. IsFiniteSet(ahead)
    BY <2>1, <2>2, FS_Subset
  <2> QED
    BY <2>2, <2>3
<1>7. \A j : j \in ahead <=> j \in RowsOf(pool_nullifiers, p) /\ j > nullifier_scan[p]
  OBVIOUS
<1> HIDE DEF ahead, p
<1>8. /\ next \subseteq ahead
      /\ ahead # {} => next # {}
      /\ \A x \in next : \A y \in ahead : y < x => y \in next
  <2>1. FETCH_LIMIT \in Int /\ FETCH_LIMIT >= 1
    BY LocalStateAssumption
  <2> QED
    BY <1>6, <2>1, FirstFacts
<1>9. next \subseteq 0..Len(pool_nullifiers) /\ next \subseteq Nat
  <2>1. next \subseteq 1..Len(pool_nullifiers)
    BY <1>5, <1>6, <1>8
  <2> HIDE DEF next
  <2> QED
    BY <1>5, <2>1
<1> HIDE DEF next
<1>10. /\ Mark(p, next) \in 0..Len(pool_nullifiers)
       /\ next = {} => Mark(p, next) = nullifier_scan[p]
       /\ \A j \in ahead : j <= Mark(p, next) => j \in next
  <2>1. CASE next = {}
    BY <1>4, <1>5, <1>8, <2>1 DEF Mark
  <2>2. CASE next # {}
    <3>1. Mark(p, next) = Max(next) /\ Max(next) \in next
      BY <1>5, <1>9, <2>2, MinMax DEF Mark
    <3>2. ASSUME NEW j \in ahead, j <= Max(next) PROVE j \in next
      <4>1. j \in Nat /\ Max(next) \in Nat
        BY <1>6, <1>9, <3>1
      <4>2. j < Max(next) \/ j = Max(next)
        BY <3>2, <4>1
      <4> QED
        BY <1>8, <3>1, <4>2
    <3> QED
      BY <1>9, <2>2, <3>1, <3>2
  <2> QED
    BY <2>1, <2>2
<1> DEFINE mark == Mark(p, next)
<1> HIDE DEF mark
<1>11. /\ nullifier_scan' \in [Pool -> 0..Len(pool_nullifiers)]
       /\ nullifier_scan'[p] = mark
       /\ \A q \in Pool : q = p \/ nullifier_scan'[q] = nullifier_scan[q]
  <2>1. nullifier_scan' = [nullifier_scan EXCEPT ![p] = mark] /\ mark \in 0..Len(pool_nullifiers)
    BY <1>1, <1>10 DEF mark
  <2> QED
    BY <1>4, <1>5, <2>1
<1>12. \A i, j : j \in Hits(i) <=> j \in next /\ chain[pool_nullifiers[j]].nullifier = SpentBy(pool_commitments[i])
  OBVIOUS
<1> HIDE DEF Hits
<1>13. ASSUME NEW i \in DOMAIN user_notes, Hit(i)
       PROVE  /\ user_notes'[i] = [account |-> user_notes[i].account, nullifier_id |-> Min(Hits(i))]
              /\ Min(Hits(i)) \in 1..Len(pool_nullifiers) /\ Spends(Min(Hits(i)), i)
  <2>1. user_notes[i] \in [account : Account, nullifier_id : Nat]
    BY <1>3 DEF NotesOK
  <2>2. user_notes'[i] = [user_notes[i] EXCEPT !.nullifier_id = Min(Hits(i))]
    <3> HIDE DEF Hit
    <3> QED
      BY <1>2, <1>13
  <2>3. Hits(i) # {} /\ Hits(i) \subseteq 0..Len(pool_nullifiers)
    BY <1>9, <1>12, <1>13
  <2>4. Min(Hits(i)) \in Hits(i)
    BY <1>5, <2>3, MinMax
  <2>5. Min(Hits(i)) \in RowsOf(pool_nullifiers, p)
    BY <1>6, <1>8, <1>12, <2>4
  <2>6. chain[pool_nullifiers[Min(Hits(i))]].nullifier = SpentBy(pool_commitments[i])
    BY <1>12, <2>4
  <2>7. Min(Hits(i)) \in 1..Len(pool_nullifiers) /\ Spends(Min(Hits(i)), i)
    BY <1>5, <1>13, <2>5, <2>6 DEF Spends, RowsOf
  <2>8. user_notes'[i] = [account |-> user_notes[i].account, nullifier_id |-> Min(Hits(i))]
    BY <2>1, <2>2
  <2> QED
    BY <2>7, <2>8
<1>14. ASSUME NEW i \in DOMAIN user_notes, ~ Hit(i) PROVE user_notes'[i] = user_notes[i]
  <2> HIDE DEF Hit
  <2> QED
    BY <1>2, <1>14
<1>15. DOMAIN user_notes' = DOMAIN user_notes /\ user_notes' = [i \in DOMAIN user_notes |-> user_notes'[i]]
  <2> HIDE DEF Hit
  <2> QED
    BY <1>2
<1>16. ASSUME NEW i \in DOMAIN user_notes
       PROVE  /\ user_notes'[i] \in [account : Account, nullifier_id : Nat]
              /\ user_notes'[i].account \in keys /\ user_notes'[i].nullifier_id \in 0..Len(pool_nullifiers)
              /\ chain[pool_commitments[i]].owner = user_notes'[i].account
              /\ chain[pool_commitments[i]].text # "short"
              /\ user_notes'[i].nullifier_id # 0 => Spends(user_notes'[i].nullifier_id, i)
              /\ user_notes'[i].nullifier_id = 0 =>
                   \A j \in 1..Len(pool_nullifiers) :
                     Spends(j, i) => j > nullifier_scan'[chain[pool_commitments[i]].pool]
  <2>0. /\ user_notes[i] \in [account : Account, nullifier_id : Nat]
        /\ user_notes[i].account \in keys /\ user_notes[i].nullifier_id \in 0..Len(pool_nullifiers)
        /\ chain[pool_commitments[i]].owner = user_notes[i].account
        /\ chain[pool_commitments[i]].text # "short"
        /\ user_notes[i].nullifier_id # 0 => Spends(user_notes[i].nullifier_id, i)
        /\ user_notes[i].nullifier_id = 0 =>
             \A j \in 1..Len(pool_nullifiers) :
               Spends(j, i) => j > nullifier_scan[chain[pool_commitments[i]].pool]
    BY <1>3 DEF TypeOK, NotesOK
  <2>1. CASE Hit(i)
    <3>1. /\ user_notes'[i] = [account |-> user_notes[i].account, nullifier_id |-> Min(Hits(i))]
          /\ Min(Hits(i)) \in 1..Len(pool_nullifiers) /\ Spends(Min(Hits(i)), i)
      BY <1>13, <2>1
    <3> QED
      BY <1>5, <2>0, <3>1
  <2>2. CASE ~ Hit(i)
    <3>1. user_notes'[i] = user_notes[i]
      BY <1>14, <2>2
    <3>2. ASSUME user_notes[i].nullifier_id = 0, NEW j \in 1..Len(pool_nullifiers), Spends(j, i)
          PROVE  j > nullifier_scan'[chain[pool_commitments[i]].pool]
      <4>1. j > nullifier_scan[chain[pool_commitments[i]].pool]
        BY <2>0, <3>2
      <4>2. CASE chain[pool_commitments[i]].pool = p
        <5>1. j \in ahead
          BY <1>7, <3>2, <4>1, <4>2 DEF Spends, RowsOf
        <5>2. j \notin next
          BY <1>12, <2>2, <3>2, <4>2 DEF Spends
        <5>3. ~ (j <= mark)
          BY <1>10, <5>1, <5>2 DEF mark
        <5>4. mark \in Nat /\ j \in Nat
          BY <1>10 DEF mark
        <5> QED
          BY <1>11, <4>2, <5>3, <5>4
      <4>3. CASE chain[pool_commitments[i]].pool # p
        <5>1. i \in 1..Len(pool_commitments)
          BY <1>3 DEF TypeOK
        <5>2. chain[pool_commitments[i]].pool \in Pool
          BY <1>3, <5>1, RowFacts, EventFields
        <5> QED
          BY <1>11, <4>1, <4>3, <5>2
      <4> QED
        BY <4>2, <4>3
    <3> QED
      BY <2>0, <3>1, <3>2
  <2> QED
    BY <2>1, <2>2
<1>17. ChainOK'
  BY <1>1, <1>3, ChainStays
<1>18. TypeOK'
  <2>1. /\ \A i \in DOMAIN user_notes' : /\ user_notes'[i].account \in keys'
                                         /\ user_notes'[i].nullifier_id \in 0..Len(pool_nullifiers')
        /\ nullifier_scan' \in [Pool -> 0..Len(pool_nullifiers')]
    BY <1>1, <1>11, <1>15, <1>16
  <2>2. DOMAIN user_notes' \subseteq 1..Len(pool_commitments')
    BY <1>1, <1>3, <1>15 DEF TypeOK
  <2> QED
    BY <1>1, <1>3, <2>1, <2>2 DEF TypeOK, Numbers
<1>19. TablesOK'
  BY <1>1, <1>3 DEF TablesOK, Closed, Numbers
<1>20. /\ work'.at = work.at + 1 /\ work'.pools = work.pools
       /\ ~ work'.did => ~ work.did /\ next = {}
       /\ WorkOK'
  <2> DEFINE d == work.did \/ next # {}
  <2>1. d \in BOOLEAN /\ (~ d => ~ work.did /\ next = {})
    OBVIOUS
  <2>2. work' = [work EXCEPT !.at = work.at + 1, !.did = d]
    BY <1>1
  <2> HIDE DEF d
  <2>3. work' = [batch |-> work.batch, pools |-> work.pools, at |-> work.at + 1, did |-> d]
    BY <2>2, IInvTypes
  <2>4. work' \in [batch : SUBSET Nat, pools : Seq(Pool), at : Nat, did : BOOLEAN] /\ work'.at >= 1
    BY <2>1, <2>3, IInvTypes
  <2>5. IsFiniteSet(keys') /\ pc' \notin {"nullifiers", "commitments", "leaves"}
    <3>1. IsFiniteSet(keys)
      BY IInvTypes
    <3> QED
      BY <1>1, <3>1
  <2>6. WorkOK'
    BY <2>4, <2>5 DEF WorkOK
  <2> QED
    BY <2>1, <2>3, <2>6
<1>21. NotesOK'
  <2>1. user_notes' \in [DOMAIN user_notes' -> [account : Account, nullifier_id : Nat]]
    BY <1>15, <1>16
  <2>2. \A i, j : Spends(j, i)' <=> Spends(j, i)
    BY <1>1 DEF Spends, SpentBy
  <2>3. ASSUME NEW i \in DOMAIN user_notes'
        PROVE  /\ chain'[pool_commitments'[i]].owner = user_notes'[i].account
               /\ chain'[pool_commitments'[i]].text # "short"
               /\ user_notes'[i].nullifier_id # 0 => Spends(user_notes[i].nullifier_id, i)'
               /\ user_notes'[i].nullifier_id = 0 =>
                    \A j \in 1..Len(pool_nullifiers') :
                      Spends(j, i)' => j > nullifier_scan'[chain'[pool_commitments'[i]].pool]
    <3>1. i \in DOMAIN user_notes
      BY <1>15
    <3>2. Spends(user_notes[i].nullifier_id, i)' <=> Spends(user_notes'[i].nullifier_id, i)
      BY <1>1 DEF Spends, SpentBy
    <3> QED
      BY <1>1, <1>16, <2>2, <3>1, <3>2
  <2>4. \A q \in Pool, a \in Account : \A i \in RowsOf(pool_commitments, q)' :
          i <= scan'[q][a] /\ chain'[pool_commitments'[i]].owner = a => i \in DOMAIN user_notes'
    <3>1. \A q : RowsOf(pool_commitments, q)' = RowsOf(pool_commitments, q)
      BY <1>1 DEF RowsOf
    <3> QED
      BY <1>1, <1>3, <1>15, <3>1 DEF NotesOK
  <2> QED
    BY <2>1, <2>3, <2>4 DEF NotesOK
<1>22. NoShort => RestOK'
  <2> SUFFICES ASSUME NoShort, ~ work'.did PROVE RestOK'
    BY <1>1 DEF RestOK
  <2>1. ~ work.did /\ next = {}
    BY <1>20
  <2>2. /\ Unprocessed = {} /\ work.pools = PoolsOf(pool_nullifiers) /\ \A q \in Pool : ScannedPool(q)
        /\ \A k \in 1..Len(work.pools) : k < work.at => ReconciledPool(work.pools[k])
    BY <1>1, <2>1 DEF IInv, RestOK
  <2>3. ReconciledPool(p)
    <3>1. ahead = {}
      BY <1>8, <2>1
    <3>2. \A j \in RowsOf(pool_nullifiers, p) : ~ (j > nullifier_scan[p])
      BY <1>7, <3>1
    <3> QED
      BY <1>4, <1>5, <3>2 DEF ReconciledPool
  <2>4. \A q \in Pool : nullifier_scan'[q] = nullifier_scan[q]
    BY <1>10, <1>11, <2>1 DEF mark
  <2>5. \A q \in Pool : (ReconciledPool(q)' <=> ReconciledPool(q)) /\ (ScannedPool(q)' <=> ScannedPool(q))
    BY <1>1, <2>4 DEF ReconciledPool, ScannedPool, RowsOf
  <2>6. ASSUME NEW k \in 1..Len(work.pools), k < work'.at PROVE ReconciledPool(work.pools[k])'
    <3>1. k < work.at \/ k = work.at
      BY <1>20, <2>6, IInvTypes
    <3>2. PICK q \in Pool : q = work.pools[k]
      BY IInvTypes
    <3>3. ReconciledPool(q)
      BY <2>2, <2>3, <3>1, <3>2 DEF p
    <3>4. ReconciledPool(q)'
      BY <2>5, <3>3
    <3>5. q = work'.pools[k]
      BY <1>20, <3>2
    <3> QED
      BY <3>4, <3>5 DEF ReconciledPool
  <2>7. Unprocessed' = Unprocessed /\ PoolsOf(pool_nullifiers)' = PoolsOf(pool_nullifiers)
    BY <1>1 DEF Unprocessed, PoolsOf
  <2> QED
    BY <1>1, <1>20, <2>2, <2>5, <2>6, <2>7 DEF RestOK
<1>23. (NoShort => RestOK)'
  <2>1. NoShort' <=> NoShort
    BY <1>1 DEF NoShort, Numbers
  <2> QED
    BY <1>22, <2>1
<1> QED
  BY <1>17, <1>18, <1>19, <1>20, <1>21, <1>23 DEF IInv

-----------------------------------------------------------------------------
(* The invariant.                                                          *)

\* An empty database agrees with an empty chain.
LEMMA InitKeeps ==
  ASSUME Init
  PROVE  IInv
<1>1. /\ chain = <<>> /\ ledger = 0 /\ raw = 0 /\ fully = 0 /\ keys = {}
      /\ pool_commitments = <<>> /\ pool_nullifiers = <<>> /\ asp_leaves = <<>> /\ user_notes = <<>>
      /\ scan = [p \in Pool |-> [a \in Account |-> 0]] /\ nullifier_scan = [p \in Pool |-> 0]
      /\ pc = "idle" /\ work = NoWork /\ kicked = TRUE /\ crashes = 0
  BY DEF Init
<1>2. /\ \A kind : Numbers(kind) = {}
      /\ \A p : Commitments(p) = {} /\ RowsOf(pool_commitments, p) = {} /\ RowsOf(pool_nullifiers, p) = {}
      /\ Range(pool_commitments) = {} /\ Range(pool_nullifiers) = {} /\ Range(asp_leaves) = {}
  BY <1>1 DEF Numbers, Commitments, RowsOf, Range
<1>3. ChainOK
  <2>1. \A field, b : b \in Nat => Counts(chain, {}, field, b, 0)
    BY DEF Counts
  <2>2. chain \in Seq(Event) /\ \A i : i \notin 1..Len(chain)
    BY <1>1
  <2> QED
    BY <1>1, <1>2, <2>1, <2>2 DEF ChainOK
<1>4. TypeOK
  BY <1>1, <1>2, LocalStateAssumption DEF TypeOK
<1>5. TablesOK
  BY <1>1, <1>2 DEF TablesOK, Closed, IsInjective
<1>6. WorkOK
  BY <1>1, FS_EmptySet DEF WorkOK, NoWork
<1>7. NotesOK
  BY <1>1, <1>2 DEF NotesOK
<1>8. RestOK
  BY <1>1 DEF RestOK
<1> QED
  BY <1>3, <1>4, <1>5, <1>6, <1>7, <1>8 DEF IInv

\* Every step keeps the invariant.
LEMMA StepKeeps ==
  ASSUME IInv, [Next]_vars
  PROVE  IInv'
<1>0. ChainOK
  BY DEF IInv
<1>1. CASE Transact
  <2>1. PICK p \in Pool : transact(p)
    BY <1>1 DEF Transact
  <2>2. ledger' = ledger + 1 /\ UNCHANGED <<raw, fully, keys, tableVars, pc, work, kicked, crashes>>
    BY <1>1 DEF Transact
  <2>3. ChainOK' /\ Appended
    BY <1>0, <2>1, <2>2, TransactKeepsChain
  <2> QED
    BY <2>2, <2>3, GrowKeeps
<1>2. CASE insert_leaf
  <2>1. UNCHANGED <<raw, fully, keys, tableVars, pc, work, kicked, crashes>>
    BY <1>2 DEF insert_leaf
  <2> QED
    BY <1>0, <1>2, <2>1, LeafKeepsChain, GrowKeeps
<1>3. CASE emits_broken
  <2>1. UNCHANGED <<raw, fully, keys, tableVars, pc, work, kicked, crashes>>
    BY <1>3 DEF emits_broken
  <2> QED
    BY <1>0, <1>3, <2>1, BrokenKeepsChain, GrowKeeps
<1>4. CASE save_events_batch
  BY <1>4, SaveEventsKeeps
<1>5. CASE save_sync_progress
  BY <1>5, SyncProgressKeeps
<1>6. CASE save_encryption_and_note_keypairs
  BY <1>6, LoginKeeps
<1>7. CASE wake \/ resume \/ crash
  BY <1>7, WakesKeep
<1>8. CASE process_events
  BY <1>8, ProcessEventsKeeps
<1>9. CASE save_nullifier_events_batch
  BY <1>9, SaveNullifiersKeeps
<1>10. CASE save_commitment_events_batch
  BY <1>10, SaveCommitmentsKeeps
<1>11. CASE save_leaf_added_events_batch
  BY <1>11, SaveLeavesKeeps
<1>12. CASE scan_commitments_for_user_notes
  BY <1>12, ScanKeeps
<1>13. CASE scan_done
  BY <1>13, ScanDoneKeeps
<1>14. CASE reconcile_nullifiers
  BY <1>14, ReconcileKeeps
<1>15. CASE reconcile_done
  BY <1>15, ReconcileDoneKeeps
<1>16. CASE UNCHANGED vars
  <2>1. UNCHANGED <<chainVars, raw, fully, keys, tableVars, pc, work, kicked, crashes>>
    BY <1>16 DEF vars
  <2>2. WorkOK'
    <3>1. WorkOK /\ Unprocessed' = Unprocessed
      BY <2>1 DEF IInv, Unprocessed, tableVars
    <3> QED
      BY <2>1, <3>1 DEF WorkOK
  <2>3. NoShort => RestOK'
    <3> SUFFICES ASSUME NoShort PROVE RestOK'
      OBVIOUS
    <3>1. RestOK
      BY DEF IInv
    <3>2. UNCHANGED <<chain, raw, keys, pool_commitments, pool_nullifiers, asp_leaves, scan, nullifier_scan,
                      pc, work, kicked>>
      BY <2>1 DEF chainVars, tableVars
    <3>3. Unprocessed' = Unprocessed
      BY <3>2 DEF Unprocessed
    <3>4. \A p : (ScannedPool(p)' <=> ScannedPool(p)) /\ (ReconciledPool(p)' <=> ReconciledPool(p))
      BY <3>2 DEF ScannedPool, ReconciledPool, RowsOf
    <3>5. /\ PoolsOf(pool_commitments)' = PoolsOf(pool_commitments)
          /\ PoolsOf(pool_nullifiers)' = PoolsOf(pool_nullifiers)
      BY <3>2 DEF PoolsOf
    <3>6. \A k : /\ ScannedPool(work.pools[k])' <=> ScannedPool(work.pools[k])
                 /\ ReconciledPool(work.pools[k])' <=> ReconciledPool(work.pools[k])
      BY <3>2 DEF ScannedPool, ReconciledPool, RowsOf
    <3> QED
      BY <3>1, <3>2, <3>3, <3>4, <3>5, <3>6 DEF RestOK
  <2>4. /\ fully' \in 0..ledger /\ kicked' \in BOOLEAN /\ crashes' \in 0..MaxCrashes
        /\ pc' \in {"idle", "yield", "events", "nullifiers", "commitments", "leaves", "scan", "reconcile"}
    BY <2>1, IInvTypes
  <2> QED
    BY <2>1, <2>2, <2>3, <2>4, ControlKeeps
<1> QED
  BY <1>1, <1>2, <1>3, <1>4, <1>5, <1>6, <1>7, <1>8, <1>9, <1>10, <1>11, <1>12, <1>13, <1>14, <1>15, <1>16
     DEF Next, Processor

\* The invariant holds in every behaviour of the chain, the indexer, the
\* processor and the tab, closed at any point.
THEOREM LocalStateInvariant == Spec => []IInv
<1>1. Init => IInv
  BY InitKeeps
<1>2. IInv /\ [Next]_vars => IInv'
  BY StepKeeps
<1> QED
  BY <1>1, <1>2, PTL DEF Spec

\* No spend is missed for good (reconcile_nullifiers, scan_commitments_for_user_notes):
\* a note still unspent whose nullifier is stored is ahead of the mark.
THEOREM NoMissedSpendAlways == Spec => []NoMissedSpend
<1>1. IInv => NoMissedSpend
  <2> SUFFICES ASSUME IInv, NEW i \in DOMAIN user_notes, user_notes[i].nullifier_id = 0, NullifierRow(i) # 0
               PROVE  NullifierRow(i) > nullifier_scan[chain[pool_commitments[i]].pool]
    BY DEF NoMissedSpend
  <2>1. TypeOK /\ TablesOK /\ NotesOK
    BY DEF IInv
  <2>2. i \in 1..Len(pool_commitments)
    BY <2>1 DEF TypeOK
  <2>3. NullifierRow(i) \in 0..Len(pool_nullifiers) /\ Spends(NullifierRow(i), i) /\ Len(pool_nullifiers) \in Nat
    BY <2>1, <2>2, NullifierRowFacts, RowFacts
  <2>4. NullifierRow(i) \in 1..Len(pool_nullifiers)
    BY <2>3
  <2> QED
    BY <2>1, <2>3, <2>4 DEF NotesOK
<1> QED
  BY <1>1, LocalStateInvariant, PTL

-----------------------------------------------------------------------------
(* What the wallet shows.                                                  *)

\* The notes of account a the first n events of the chain hold.
Mine(a, n) == {i \in Numbers("commitment") \cap (1..n) : chain[i].owner = a /\ chain[i].text = "valid"}

\* Every note the wallet shows is its account's on the chain, and one shown as
\* spent is spent.
LEMMA NotesAreReal ==
  ASSUME IInv, NEW i \in DOMAIN user_notes
  PROVE  /\ i \in 1..Len(pool_commitments)
         /\ pool_commitments[i] \in Mine(user_notes[i].account, raw)
         /\ user_notes[i].nullifier_id # 0 => SpentIn(pool_commitments[i], 1..raw)
<1>1. TypeOK /\ TablesOK /\ NotesOK /\ ChainOK
  BY DEF IInv
<1>2. i \in 1..Len(pool_commitments)
  BY <1>1 DEF TypeOK
<1>3. pool_commitments[i] \in Numbers("commitment") \cap (1..raw)
  BY <1>1, <1>2, RowFacts DEF Numbers
<1>4. chain[pool_commitments[i]].text \in Ciphertexts
  BY <1>1, <1>2, RowFacts, EventFields
<1>5. chain[pool_commitments[i]].text = "valid"
  BY <1>1, <1>4, LocalStateAssumption DEF NotesOK
<1>6. chain[pool_commitments[i]].owner = user_notes[i].account
  BY <1>1 DEF NotesOK
<1>7. ASSUME user_notes[i].nullifier_id # 0 PROVE SpentIn(pool_commitments[i], 1..raw)
  <2> DEFINE j == user_notes[i].nullifier_id
  <2>1. Spends(j, i)
    BY <1>1, <1>7 DEF NotesOK
  <2>2. j \in 0..Len(pool_nullifiers) /\ Len(pool_nullifiers) \in Nat
    BY <1>1, RowFacts DEF TypeOK
  <2>3. j \in 1..Len(pool_nullifiers)
    BY <1>7, <2>2
  <2>4. pool_nullifiers[j] \in (1..raw) \cap Numbers("nullifier")
    BY <1>1, <2>3, RowFacts DEF Numbers
  <2> QED
    BY <2>1, <2>4 DEF Spends, SpentIn
<1> QED
  BY <1>2, <1>3, <1>5, <1>6, <1>7 DEF Mine

\* When the processor rests every note there is is in the wallet, and a spent
\* one is marked.
LEMMA RestShowsAll ==
  ASSUME IInv, NoShort, pc = "idle", ~ kicked, NEW a \in keys, NEW e \in Mine(a, raw)
  PROVE  \E i \in DOMAIN user_notes :
           /\ pool_commitments[i] = e /\ user_notes[i].account = a
           /\ SpentIn(e, 1..raw) => user_notes[i].nullifier_id # 0
<1>1. TypeOK /\ TablesOK /\ NotesOK /\ ChainOK
  BY DEF IInv
<1>2. Unprocessed = {} /\ \A p \in Pool : ScannedPool(p) /\ ReconciledPool(p)
  BY DEF IInv, RestOK
<1>3. e \in Numbers("commitment") \cap (1..raw) /\ chain[e].owner = a
  BY DEF Mine
<1>4. e \in Range(pool_commitments)
  BY <1>2, <1>3, RowOrNone
<1>5. PICK i \in 1..Len(pool_commitments) : pool_commitments[i] = e
  BY <1>1, <1>4, RowFacts DEF Range
<1> DEFINE p == chain[e].pool
<1>6. p \in Pool
  BY <1>1, <1>3, EventFields DEF Numbers
<1>7. i \in RowsOf(pool_commitments, p)
  BY <1>5 DEF RowsOf
<1>8. i <= scan[p][a]
  BY <1>2, <1>6, <1>7 DEF ScannedPool
<1>9. a \in Account
  BY <1>1 DEF TypeOK
<1>10. i \in DOMAIN user_notes
  BY <1>1, <1>3, <1>5, <1>6, <1>7, <1>8, <1>9 DEF NotesOK
<1>11. user_notes[i].account = a
  BY <1>1, <1>3, <1>5, <1>10 DEF NotesOK
<1>12. ASSUME SpentIn(e, 1..raw), user_notes[i].nullifier_id = 0 PROVE FALSE
  <2>1. PICK n \in (1..raw) \cap Numbers("nullifier") :
          chain[n].pool = chain[e].pool /\ chain[n].nullifier = SpentBy(e)
    BY <1>12 DEF SpentIn
  <2>2. n \in Range(pool_nullifiers)
    BY <1>2, <2>1, RowOrNone
  <2>3. PICK j \in 1..Len(pool_nullifiers) : pool_nullifiers[j] = n
    BY <1>1, <2>2, RowFacts DEF Range
  <2>4. Spends(j, i) /\ j \in RowsOf(pool_nullifiers, p)
    BY <1>5, <2>1, <2>3 DEF Spends, RowsOf
  <2>5. j > nullifier_scan[p]
    BY <1>1, <1>5, <1>10, <1>12, <2>4 DEF NotesOK
  <2>6. j <= nullifier_scan[p]
    BY <1>2, <1>6, <2>4 DEF ReconciledPool
  <2>7. nullifier_scan[p] \in Nat /\ j \in Nat
    BY <1>1, <1>6, RowFacts DEF TypeOK
  <2> QED
    BY <2>5, <2>6, <2>7
<1> QED
  BY <1>5, <1>10, <1>11, <1>12

\* Two rows are of two events.
LEMMA OneRowEach ==
  ASSUME IInv, NEW i \in DOMAIN user_notes, NEW j \in DOMAIN user_notes,
         pool_commitments[i] = pool_commitments[j]
  PROVE  i = j
<1>1. TypeOK /\ TablesOK
  BY DEF IInv
<1>2. i \in DOMAIN pool_commitments /\ j \in DOMAIN pool_commitments
  BY <1>1, RowFacts DEF TypeOK
<1> QED
  BY <1>1, <1>2 DEF TablesOK, IsInjective

\* When the processor rests and no ciphertext is too short, every account that
\* is logged in sees exactly its notes, spent and unspent: for any batch size,
\* chunk, page, number of pools and order of events, keys and closed tabs.
THEOREM WalletAgreesAtRest == Spec => [](NoShort => WalletAgrees)
<1>1. IInv => (NoShort => WalletAgrees)
  <2> SUFFICES ASSUME IInv, NoShort, pc = "idle", ~ kicked, NEW a \in keys
               PROVE  Agrees(a, raw)
    BY DEF WalletAgrees
  <2>1. ASSUME NEW e PROVE e \in Unspent(a) <=> e \in Mine(a, raw) /\ ~ SpentIn(e, 1..raw)
    <3>1. ASSUME e \in Unspent(a) PROVE e \in Mine(a, raw) /\ ~ SpentIn(e, 1..raw)
      <4>1. PICK i \in DOMAIN user_notes :
              pool_commitments[i] = e /\ user_notes[i].account = a /\ user_notes[i].nullifier_id = 0
        BY <3>1 DEF Unspent
      <4>2. e \in Mine(a, raw)
        BY <4>1, NotesAreReal
      <4>3. PICK j \in DOMAIN user_notes :
              pool_commitments[j] = e /\ (SpentIn(e, 1..raw) => user_notes[j].nullifier_id # 0)
        BY <4>2, RestShowsAll
      <4>4. i = j
        BY <4>1, <4>3, OneRowEach
      <4> QED
        BY <4>1, <4>2, <4>3, <4>4
    <3>2. ASSUME e \in Mine(a, raw), ~ SpentIn(e, 1..raw) PROVE e \in Unspent(a)
      <4>1. PICK i \in DOMAIN user_notes : pool_commitments[i] = e /\ user_notes[i].account = a
        BY <3>2, RestShowsAll
      <4>2. user_notes[i].nullifier_id = 0
        BY <3>2, <4>1, NotesAreReal
      <4> QED
        BY <4>1, <4>2 DEF Unspent
    <3> QED
      BY <3>1, <3>2
  <2>2. ASSUME NEW e PROVE e \in Spent(a) <=> e \in Mine(a, raw) /\ SpentIn(e, 1..raw)
    <3>1. ASSUME e \in Spent(a) PROVE e \in Mine(a, raw) /\ SpentIn(e, 1..raw)
      <4>1. PICK i \in DOMAIN user_notes :
              pool_commitments[i] = e /\ user_notes[i].account = a /\ user_notes[i].nullifier_id # 0
        BY <3>1 DEF Spent
      <4> QED
        BY <4>1, NotesAreReal
    <3>2. ASSUME e \in Mine(a, raw), SpentIn(e, 1..raw) PROVE e \in Spent(a)
      <4>1. PICK i \in DOMAIN user_notes :
              pool_commitments[i] = e /\ user_notes[i].account = a /\ user_notes[i].nullifier_id # 0
        BY <3>2, RestShowsAll
      <4> QED
        BY <4>1 DEF Spent
    <3> QED
      BY <3>1, <3>2
  <2> DEFINE mine == {i \in Numbers("commitment") \cap (1..raw) :
                        chain[i].owner = a /\ chain[i].text = "valid"}
  <2>3. mine = Mine(a, raw)
    BY DEF Mine
  <2>4. /\ Unspent(a) = {i \in mine : ~ SpentIn(i, 1..raw)}
        /\ Spent(a) = {i \in mine : SpentIn(i, 1..raw)}
    BY <2>1, <2>2, <2>3
  <2> QED
    BY <2>4 DEF Agrees
<1> QED
  BY <1>1, LocalStateInvariant, PTL

\* What the wallet shows of any account at any moment, ciphertexts that fail a
\* scan or not.
NeverInvents ==
  \A a \in Account :
    /\ Unspent(a) \union Spent(a) \subseteq Mine(a, raw)
    /\ \A e \in Spent(a) : SpentIn(e, 1..raw)

\* The wallet never shows a note that is not its account's on the chain, nor one
\* as spent that is not, also in the middle of an iteration, behind a tab closed
\* between two writes and with ciphertexts that fail a scan.
THEOREM NeverInventsANote == Spec => []NeverInvents
<1>1. IInv => NeverInvents
  BY NotesAreReal DEF NeverInvents, Unspent, Spent
<1> QED
  BY <1>1, LocalStateInvariant, PTL

-----------------------------------------------------------------------------
(* The Merkle leaves.                                                      *)

\* A set of numbers with every number below each of its own counts from zero.
LEMMA CountsFromZero ==
  ASSUME NEW n \in Nat, NEW I, I \subseteq 0..(n - 1), \A v \in I : \A u \in 0..v : u \in I
  PROVE  Cardinality(I) \in Nat /\ I = 0..(Cardinality(I) - 1)
<1>1. CASE I = {}
  BY <1>1, FS_EmptySet
<1>2. CASE I # {}
  <2>1. I \subseteq 0..n
    OBVIOUS
  <2>2. PICK m \in I : \A y \in I : y <= m
    BY <1>2, <2>1, Greatest
  <2>3. m \in Nat /\ I = 0..m
    <3>1. m \in Nat
      BY <2>1, <2>2
    <3>2. \A v \in I : v \in 0..m
      BY <2>1, <2>2, <3>1
    <3> QED
      BY <3>1, <3>2
  <2>4. Cardinality(0..m) = m + 1
    <3>1. 0 \in Int /\ m \in Int /\ ~ (0 > m)
      BY <2>3
    <3>2. Cardinality(0..m) = m - 0 + 1
      BY <3>1, FS_Interval
    <3> QED
      BY <2>3, <3>2
  <2> QED
    BY <2>3, <2>4
<1> QED
  BY <1>1, <1>2

\* The oldest events of a numbered kind carry the first numbers.
LEMMA OldestFirst ==
  ASSUME NEW c, NEW S, S \subseteq Nat, NEW field, NEW n \in Nat, Counts(c, S, field, 0, n),
         NEW R, R \subseteq S, \A i \in R : \A j \in S : j < i => j \in R
  PROVE  /\ IsFiniteSet(R) /\ Cardinality(R) \in Nat
         /\ Counts(c, R, field, 0, Cardinality(R))
         /\ \A e \in S : e \in R <=> c[e][field] < Cardinality(R)
<1> DEFINE I == {c[e][field] : e \in R}
           m == Cardinality(I)
<1>1. /\ \A i \in S : c[i][field] \in 0..(n - 1)
      /\ \A i, j \in S : i < j => c[i][field] < c[j][field]
      /\ \A v \in 0..(n - 1) : \E i \in S : c[i][field] = v
  BY DEF Counts
<1>2. I \subseteq 0..(n - 1)
  BY <1>1
<1>3. ASSUME NEW v \in I, NEW u \in 0..v PROVE u \in I
  <2>1. PICK e \in R : c[e][field] = v
    OBVIOUS
  <2>2. v \in 0..(n - 1) /\ u \in 0..(n - 1)
    BY <1>2
  <2>3. PICK d \in S : c[d][field] = u
    BY <1>1, <2>2
  <2>4. e \in Nat /\ d \in Nat /\ ~ (c[e][field] < c[d][field])
    BY <2>1, <2>2, <2>3
  <2>5. d < e \/ d = e
    BY <1>1, <2>3, <2>4
  <2>6. d \in R
    BY <2>3, <2>5
  <2> QED
    BY <2>3, <2>6
<1>4. m \in Nat /\ I = 0..(m - 1)
  BY <1>2, <1>3, CountsFromZero
<1>5. \A v : v \in I <=> \E e \in R : c[e][field] = v
  OBVIOUS
<1> HIDE DEF I, m
<1>6. Counts(c, R, field, 0, m)
  <2>1. \A v : v \in I <=> v \in 0..(0 + m - 1)
    BY <1>4
  <2> QED
    BY <1>1, <1>5, <2>1 DEF Counts
<1>7. IsFiniteSet(R) /\ Cardinality(R) = m
  BY <1>4, <1>6, CountsAll
<1>8. ASSUME NEW e \in S PROVE e \in R <=> c[e][field] < m
  <2>1. ASSUME e \in R PROVE c[e][field] < m
    <3>1. c[e][field] \in I
      BY <1>5, <2>1
    <3>2. c[e][field] \in 0..(m - 1)
      BY <1>4, <3>1
    <3> QED
      BY <1>4, <3>2
  <2>2. ASSUME c[e][field] < m PROVE e \in R
    <3>1. c[e][field] \in I
      BY <1>1, <1>4, <2>2
    <3>2. PICK d \in R : c[d][field] = c[e][field]
      BY <1>5, <3>1
    <3>3. d = e
      BY <3>2, CountsAll
    <3> QED
      BY <3>3
  <2> QED
    BY <2>1, <2>2
<1> QED
  BY <1>4, <1>6, <1>7, <1>8

\* The rank of a numbered event is its number.
LEMMA RankIsNumber ==
  ASSUME NEW c, NEW S, S \subseteq Nat, NEW field, NEW n \in Nat, Counts(c, S, field, 0, n)
  PROVE  \A e \in S : \A v : c[e][field] = v => Cardinality(Below(S, e)) = v
<1> SUFFICES ASSUME NEW e \in S PROVE Cardinality(Below(S, e)) = c[e][field]
  OBVIOUS
<1> DEFINE R == Below(S, e)
<1>1. /\ R \subseteq S /\ \A i \in R : \A j \in S : j < i => j \in R
      /\ e \notin R /\ \A d \in S : d \in R <=> d < e
  BY DEF Below
<1> HIDE DEF R
<1>2. /\ Cardinality(R) \in Nat
      /\ \A d \in S : d \in R <=> c[d][field] < Cardinality(R)
      /\ Counts(c, R, field, 0, Cardinality(R))
  BY <1>1, OldestFirst
<1> DEFINE m == Cardinality(R)
           v == c[e][field]
<1> HIDE DEF m
<1>3. v \in 0..(n - 1) /\ m \in Nat /\ ~ (v < m)
  BY <1>1, <1>2 DEF Counts, m
<1>4. ASSUME m < v PROVE FALSE
  <2>1. m \in 0..(n - 1)
    BY <1>3, <1>4
  <2>2. PICK d \in S : c[d][field] = m
    BY <2>1 DEF Counts
  <2>3. d \notin R
    BY <1>2, <1>3, <2>2 DEF m
  <2>4. ~ (d < e)
    BY <1>1, <2>3
  <2>5. ~ (e < d)
    BY <1>3, <1>4, <2>2 DEF Counts
  <2>6. d \in Nat /\ e \in Nat
    OBVIOUS
  <2>7. d = e
    BY <2>4, <2>5, <2>6
  <2> QED
    BY <1>3, <1>4, <2>2, <2>7
<1>5. m = v
  <2> HIDE DEF v
  <2> QED
    BY <1>3, <1>4
<1> QED
  BY <1>5 DEF m, R

\* The rows of a pool are its oldest commitments.
LEMMA PoolRows ==
  ASSUME IInv, NEW p \in Pool, NEW R, R = {pool_commitments[i] : i \in RowsOf(pool_commitments, p)}
  PROVE  /\ R \subseteq Commitments(p) /\ Commitments(p) \subseteq Nat
         /\ \A i \in R : \A j \in Commitments(p) : j < i => j \in R
<1>1. TypeOK /\ TablesOK
  BY DEF IInv
<1>2. \A e : e \in R <=> e \in Range(pool_commitments) /\ chain[e].pool = p
  BY <1>1, RowFacts DEF RowsOf, Range
<1>3. Range(pool_commitments) \subseteq Numbers("commitment")
  BY <1>1 DEF TypeOK
<1>4. Commitments(p) \subseteq Nat
  BY DEF Commitments, Numbers
<1>5. R \subseteq Commitments(p)
  BY <1>2, <1>3 DEF Commitments
<1>6. ASSUME NEW i \in R, NEW j \in Commitments(p), j < i PROVE j \in R
  BY <1>1, <1>2, <1>6 DEF TablesOK, Closed, Commitments
<1> QED
  BY <1>4, <1>5, <1>6

\* The tables keep their types, and the local Merkle leaves of a pool are an
\* unbroken prefix of the contract's, in its order
\* (get_pool_commitment_leaves_ordered): for any batch size and any page.
THEOREM TablesAreAlwaysSound == Spec => []TablesAreSound
<1>1. IInv => TablesAreSound
  <2> SUFFICES ASSUME IInv, NEW p \in Pool
               PROVE  LET r == get_pool_commitment_leaves_ordered(p)
                      IN  r.ok /\ r.rows = SubSeq(InOrder(Commitments(p)), 1, Len(r.rows))
    BY DEF IInv, TablesAreSound, LeavesArePrefix
  <2> DEFINE C == Commitments(p)
             R == {pool_commitments[i] : i \in RowsOf(pool_commitments, p)}
             I == {chain[e].index : e \in R}
             f == [k \in I |-> CHOOSE e \in R : chain[e].index = k]
             m == Cardinality(R)
             r == get_pool_commitment_leaves_ordered(p)
             s == InOrder(C)
  <2>1. r = Ordered(f)
    BY DEF get_pool_commitment_leaves_ordered
  <2>2. \A k : k \in I <=> \E e \in R : chain[e].index = k
    OBVIOUS
  <2>3. R \subseteq C /\ C \subseteq Nat /\ \A i \in R : \A j \in C : j < i => j \in R
    BY PoolRows
  <2>4. PICK n \in Nat : Counts(chain, C, "index", 0, n)
    BY DEF IInv, ChainOK
  <2> HIDE DEF R, C, I, r, s, f
  <2>5. /\ m \in Nat /\ Counts(chain, R, "index", 0, m) /\ IsFiniteSet(R)
    BY <2>3, <2>4, OldestFirst
  <2>6. IsFiniteSet(C) /\ Cardinality(C) = n /\ \A i, j \in C : chain[i].index = chain[j].index => i = j
    <3>1. IsFiniteSet(C) /\ Cardinality(C) = n /\ \A i, j \in C : chain[i]["index"] = chain[j]["index"] => i = j
      BY <2>3, <2>4, CountsAll
    <3> QED
      BY <3>1
  <2>7. I = 0..(m - 1)
    <3>1. /\ \A i \in R : chain[i].index \in 0..(0 + m - 1)
          /\ \A v \in 0..(0 + m - 1) : \E i \in R : chain[i].index = v
      BY <2>5 DEF Counts
    <3>2. 0 + m - 1 = m - 1
      BY <2>5
    <3> HIDE DEF m
    <3> QED
      BY <2>2, <3>1, <3>2
  <2>8. Cardinality(I) = m
    <3>1. 0 \in Int /\ m - 1 \in Int
      BY <2>5
    <3>2. Cardinality(0..(m - 1)) = IF 0 > m - 1 THEN 0 ELSE (m - 1) - 0 + 1
      BY <3>1, FS_Interval
    <3> HIDE DEF m
    <3> QED
      BY <2>5, <2>7, <3>2
  <2>9. DOMAIN f = I /\ \A k \in I : f[k] \in R /\ chain[f[k]].index = k
    BY <2>2 DEF f
  <2>10. r = [ok |-> TRUE, rows |-> [k \in 1..m |-> f[k - 1]]]
    BY <2>1, <2>7, <2>8, <2>9 DEF Ordered
  <2>11. m <= n
    BY <2>3, <2>6, FS_Subset
  <2>12. /\ Len(s) = n /\ s \in Seq(C) /\ \A k \in 1..n : s[k] \in C
         /\ \A k \in 1..n : Cardinality(Below(C, s[k])) = k - 1
    <3>1. /\ Len(s) = Cardinality(C) /\ s \in Seq(C) /\ s \in [1..Cardinality(C) -> C]
          /\ \A k \in 1..Cardinality(C) : Cardinality(Below(C, s[k])) = k - 1
      BY <2>3, <2>6, Sorts DEF s
    <3> QED
      BY <2>6, <3>1
  <2> HIDE DEF m
  <2>13. ASSUME NEW k \in 1..m PROVE f[k - 1] = s[k]
    <3>1. k \in 1..n /\ k - 1 \in I
      BY <2>5, <2>7, <2>11
    <3>2. chain[s[k]].index = k - 1
      <4>1. s[k] \in C /\ Cardinality(Below(C, s[k])) = k - 1
        BY <2>12, <3>1
      <4>2. PICK e \in C : e = s[k]
        BY <4>1
      <4>3. Cardinality(Below(C, e)) = chain[e].index
        <5>1. C \subseteq Nat
          BY <2>3
        <5>2. \A d \in C : \A v : chain[d]["index"] = v => Cardinality(Below(C, d)) = v
          BY <2>4, <5>1, RankIsNumber, Zenon
        <5> QED
          BY <5>2
      <4> QED
        BY <4>1, <4>2, <4>3
    <3> QED
      <4>1. f[k - 1] \in R /\ chain[f[k - 1]].index = k - 1
        BY <2>9, <3>1
      <4>2. PICK i : i = f[k - 1]
        OBVIOUS
      <4>3. PICK j : j = s[k]
        OBVIOUS
      <4>4. i \in C /\ chain[i].index = k - 1
        BY <2>3, <4>1, <4>2
      <4>5. j \in C /\ chain[j].index = k - 1
        BY <2>12, <3>1, <3>2, <4>3
      <4>6. i = j
        BY <2>6, <4>4, <4>5, Zenon
      <4> QED
        BY <4>2, <4>3, <4>6
  <2>14. r.ok /\ r.rows = [k \in 1..m |-> s[k]] /\ Len(r.rows) = m
    <3> DEFINE t == [k \in 1..m |-> f[k - 1]]
    <3>1. r.ok /\ r.rows = t
      BY <2>10
    <3>2. t = [k \in 1..m |-> s[k]]
      BY <2>13
    <3>3. Len([k \in 1..m |-> s[k]]) = m
      BY <2>5
    <3> QED
      BY <3>1, <3>2, <3>3
  <2>15. SubSeq(s, 1, m) = [k \in 1..m |-> s[k]]
    BY <2>5, <2>11, <2>12
  <2> QED
    BY <2>14, <2>15 DEF r, s, C
<1> QED
  BY <1>1, LocalStateInvariant, PTL

\* A membership proof is built against the root the contract had at the ledger of
\* the read (check_asp_membership_precondition): as many leaves are the same
\* leaves, and the account's is among them.
THEOREM MembershipProofAlwaysMatches == Spec => []MembershipProofMatches
<1>1. IInv => MembershipProofMatches
  <2> SUFFICES ASSUME IInv, NEW a \in keys, NEW l \in 1..ledger,
                      check_asp_membership_precondition(a, l) = "UserIndex"
               PROVE  LET r == get_all_asp_membership_leaves_ordered
                      IN  /\ r.ok /\ Range(r.rows) = LeavesAt(l)
                          /\ \E i \in LeavesAt(l) : chain[i].leaf = a
    BY DEF MembershipProofMatches
  <2> DEFINE C == Numbers("leaf")
             R == Range(asp_leaves)
             D == DOMAIN asp_leaves
             A == LeavesAt(l)
             m == Cardinality(R)
             r == get_all_asp_membership_leaves_ordered
  <2>1. TypeOK /\ TablesOK /\ ChainOK
    BY DEF IInv
  <2>2. RootMatches(l) /\ \E k \in D : chain[asp_leaves[k]].leaf = a
    <3>1. fully \in Nat /\ l \in Nat
      BY <2>1 DEF TypeOK, ChainOK
    <3> QED
      BY <3>1 DEF check_asp_membership_precondition
  <2>3. PICK n \in Nat : Counts(chain, C, "index", 0, n)
    BY <2>1 DEF ChainOK
  <2>4. C \subseteq Nat /\ R \subseteq C /\ \A i \in R : \A j \in C : j < i => j \in R
    BY <2>1 DEF TypeOK, TablesOK, Closed, Numbers
  <2>5. A \subseteq C /\ \A i \in A : \A j \in C : j < i => j \in A
    <3>1. ASSUME NEW i \in A, NEW j \in C, j < i PROVE j \in A
      <4>1. i \in 1..Len(chain) /\ j \in 1..Len(chain) /\ chain[i].ledger <= l
        BY DEF LeavesAt, Numbers
      <4>2. chain[j].ledger <= chain[i].ledger
        BY <2>1, <3>1, <4>1 DEF ChainOK
      <4>3. chain[i].ledger \in Nat /\ chain[j].ledger \in Nat /\ l \in Int
        BY <2>1, <4>1, EventFields DEF ChainOK
      <4> QED
        BY <4>1, <4>2, <4>3 DEF LeavesAt
    <3> QED
      BY <3>1 DEF LeavesAt
  <2> HIDE DEF C, A
  <2>6. /\ IsFiniteSet(R) /\ m \in Nat /\ Counts(chain, R, "index", 0, m)
        /\ \A e \in C : e \in R <=> chain[e]["index"] < m
    <3> HIDE DEF R
    <3> QED
      BY <2>3, <2>4, OldestFirst
  <2>7. \A e \in C : e \in A <=> chain[e]["index"] < Cardinality(A)
    BY <2>3, <2>4, <2>5, OldestFirst
  <2>8. \A k \in D : asp_leaves[k] \in R /\ chain[asp_leaves[k]].index = k
    BY <2>1 DEF TablesOK, Range
  <2>9. \A e \in R : \E k \in D : asp_leaves[k] = e
    BY DEF Range
  <2> HIDE DEF R, D, m
  <2>10. D = 0..(m - 1)
    <3>1. /\ \A i \in R : chain[i].index \in 0..(0 + m - 1)
          /\ \A v \in 0..(0 + m - 1) : \E i \in R : chain[i].index = v
      BY <2>6 DEF Counts
    <3>2. 0 + m - 1 = m - 1
      BY <2>6
    <3>3. \A v \in 0..(m - 1) : v \in D
      BY <2>8, <2>9, <3>1, <3>2
    <3>4. \A k \in D : k \in 0..(m - 1)
      BY <2>8, <3>1, <3>2
    <3> QED
      BY <3>3, <3>4
  <2>11. Cardinality(D) = m /\ D # {} /\ Max(D) = m - 1
    <3>1. 0 \in Int /\ m - 1 \in Int
      BY <2>6
    <3>2. Cardinality(0..(m - 1)) = IF 0 > m - 1 THEN 0 ELSE (m - 1) - 0 + 1
      BY <3>1, FS_Interval
    <3>3. Cardinality(D) = m
      BY <2>6, <2>10, <3>2
    <3>4. D # {}
      BY <2>2
    <3>5. m >= 1 /\ m - 1 \in D /\ D \subseteq 0..m
      BY <2>6, <2>10, <3>4
    <3>6. Max(D) \in D /\ \A y \in D : y <= Max(D)
      BY <2>6, <3>4, <3>5, MinMax
    <3>7. Max(D) \in 0..(m - 1) /\ m - 1 <= Max(D)
      BY <2>10, <3>5, <3>6
    <3> QED
      BY <2>6, <3>3, <3>4, <3>7
  <2>12. Cardinality(A) = m
    BY <2>2, <2>6, <2>11 DEF RootMatches, A, D
  <2>13. A = R
    BY <2>4, <2>5, <2>6, <2>7, <2>12
  <2>14. r = [ok |-> TRUE, rows |-> [k \in 1..m |-> asp_leaves[k - 1]]]
    BY <2>10, <2>11 DEF get_all_asp_membership_leaves_ordered, Ordered, D
  <2> HIDE DEF r
  <2>15. Range([k \in 1..m |-> asp_leaves[k - 1]]) = R
    <3> DEFINE t == [k \in 1..m |-> asp_leaves[k - 1]]
    <3>1. \A k \in 1..m : k - 1 \in D
      BY <2>6, <2>10
    <3>2. \A k \in D : k + 1 \in 1..m /\ (k + 1) - 1 = k
      BY <2>6, <2>10
    <3>3. DOMAIN t = 1..m /\ \A k \in 1..m : t[k] = asp_leaves[k - 1]
      OBVIOUS
    <3> HIDE DEF t
    <3>4. ASSUME NEW e \in R PROVE e \in Range(t)
      <4>1. PICK k \in D : asp_leaves[k] = e
        BY <2>9
      <4>2. k + 1 \in DOMAIN t /\ t[k + 1] = e
        BY <3>2, <3>3, <4>1
      <4> QED
        BY <4>2 DEF Range
    <3>5. ASSUME NEW e \in Range(t) PROVE e \in R
      <4>1. PICK k \in 1..m : t[k] = e
        BY <3>3 DEF Range
      <4> QED
        BY <2>8, <3>1, <3>3, <4>1
    <3>6. Range(t) = R
      BY <3>4, <3>5
    <3> QED
      BY <3>6 DEF t
  <2>16. r.ok /\ Range(r.rows) = A
    BY <2>13, <2>14, <2>15
  <2>17. \E i \in A : chain[i].leaf = a
    BY <2>2, <2>8, <2>13
  <2> QED
    BY <2>16, <2>17 DEF r, A
<1> QED
  BY <1>1, LocalStateInvariant, PTL
=============================================================================
