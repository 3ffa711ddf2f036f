----------------------------- MODULE TreeProofs -----------------------------
(***************************************************************************)
(* Theorems about the trees, for every depth, every set of keys, values    *)
(* and leaves, and any number of operations.                               *)
(*                                                                         *)
(* The Merkle trees: the contracts' incremental trees, the client's prefix *)
(* tree and the circuit's path check agree on the root of the complete     *)
(* tree.  Nothing is assumed of the hash.                                  *)
(*                                                                         *)
(* The sparse Merkle trees of the contract and of the client: the root     *)
(* depends on what is stored alone, every search is exact, exactly the     *)
(* keys that are not stored have a proof of absence.  Here the hash        *)
(* determines what was hashed.                                             *)
(***************************************************************************)
EXTENDS MerkleTree, ClientSmt, SequenceTheorems, WellFoundedInduction, TLAPS

-----------------------------------------------------------------------------
(* The Merkle trees: what their recursive functions compute.               *)

\* Every set of natural numbers that is not empty has a least element.
LEMMA Least ==
  ASSUME NEW T, T \subseteq Nat, T # {}
  PROVE  \E x \in T : \A y \in T : x <= y
<1> DEFINE R == OpToRel(<, Nat)
<1>1. IsWellFoundedOn(R, Nat)
  BY NatLessThanWellFounded, Zenon
<1>2. \A x, y \in Nat : y < x => <<y, x>> \in R
  BY DEF OpToRel
<1> HIDE DEF R
<1>3. PICK x \in T : \A y \in T : ~ (<<y, x>> \in R)
  BY <1>1, WFMin
<1>4. ASSUME NEW y \in T PROVE x <= y
  <2>1. x \in Nat /\ y \in Nat /\ ~ (<<y, x>> \in R)
    BY <1>3
  <2>2. ~ (y < x)
    BY <1>2, <2>1
  <2> QED
    BY <2>1, <2>2
<1> QED
  BY <1>4

\* Induction over the levels of the tree: a set of levels that has the lowest, and
\* the next after each of its own, has them all.
LEMMA Upwards ==
  ASSUME NEW T, 0 \in T, \A lvl \in 0..(Levels - 1) : lvl \in T => lvl + 1 \in T
  PROVE  \A lvl \in 0..Levels : lvl \in T
<1> DEFINE U == {lvl \in 0..Levels : lvl \notin T}
<1> SUFFICES ASSUME U # {} PROVE FALSE
  OBVIOUS
<1>1. U \subseteq Nat /\ Levels \in Nat
  BY MerkleAssumption
<1>2. PICK m \in U : \A y \in U : m <= y
  BY <1>1, Least
<1>3. m # 0
  BY <1>2
<1>4. m - 1 \in 0..(Levels - 1) /\ m - 1 \in 0..Levels /\ (m - 1) + 1 = m
  BY <1>1, <1>2, <1>3
<1>5. m - 1 \notin U
  BY <1>2, <1>4
<1> QED
  BY <1>2, <1>4, <1>5

\* The levels of the tree.
LEMMA LevelFacts ==
  /\ Levels \in Nat /\ Levels >= 1 /\ 0 \in 0..Levels /\ Levels \in 0..Levels
  /\ \A lvl \in 0..(Levels - 1) : lvl \in 0..Levels /\ lvl + 1 \in 0..Levels /\ lvl + 1 # 0 /\ (lvl + 1) - 1 = lvl
BY MerkleAssumption

\* The part of Zeroes up to level n.
ZeroesTo(g, n) ==
  g = [i \in 0..n |-> IF i = 0 THEN ZeroLeaf ELSE hash_pair(g[i - 1], g[i - 1])]

\* Every level above the leaves hashes two empty subtrees.
LEMMA ZeroesUnfold ==
  /\ Zeroes[0] = ZeroLeaf
  /\ \A lvl \in 0..(Levels - 1) : Zeroes[lvl + 1] = hash_pair(Zeroes[lvl], Zeroes[lvl])
  /\ DOMAIN Zeroes = 0..Levels
<1> DEFINE T == {m \in 0..Levels : \E g : ZeroesTo(g, m)}
<1>1. 0 \in T
  <2>1. ZeroesTo([i \in 0..0 |-> ZeroLeaf], 0)
    BY DEF ZeroesTo
  <2> QED
    BY <2>1, LevelFacts
<1>2. ASSUME NEW lvl \in 0..(Levels - 1), lvl \in T PROVE lvl + 1 \in T
  <2>1. PICK g : ZeroesTo(g, lvl)
    BY <1>2
  <2> DEFINE h == [i \in 0..(lvl + 1) |-> IF i = lvl + 1 THEN hash_pair(g[lvl], g[lvl]) ELSE g[i]]
  <2>2. ASSUME NEW i \in 0..(lvl + 1)
        PROVE  h[i] = IF i = 0 THEN ZeroLeaf ELSE hash_pair(h[i - 1], h[i - 1])
    <3>1. CASE i = lvl + 1
      <4>1. h[i] = hash_pair(g[lvl], g[lvl]) /\ i # 0 /\ i - 1 = lvl /\ h[lvl] = g[lvl]
        BY <3>1
      <4> QED
        BY <4>1
    <3>2. CASE i # lvl + 1
      <4>1. i \in 0..lvl /\ h[i] = g[i] /\ i # 0 => h[i - 1] = g[i - 1]
        BY <3>2
      <4> QED
        BY <2>1, <4>1 DEF ZeroesTo
    <3> QED
      BY <3>1, <3>2
  <2>3. ZeroesTo(h, lvl + 1)
    BY <2>2 DEF ZeroesTo
  <2> QED
    BY <2>3, LevelFacts
<1>3. Levels \in T
  <2> HIDE DEF T
  <2> QED
    BY <1>1, <1>2, Upwards, LevelFacts
<1>4. \E g : g = [i \in 0..Levels |-> IF i = 0 THEN ZeroLeaf ELSE hash_pair(g[i - 1], g[i - 1])]
  BY <1>3 DEF ZeroesTo
<1>5. Zeroes = [i \in 0..Levels |-> IF i = 0 THEN ZeroLeaf ELSE hash_pair(Zeroes[i - 1], Zeroes[i - 1])]
  BY <1>4 DEF Zeroes
<1> QED
  BY <1>5, LevelFacts

\* The positions above an index, up to level n.
AboveTo(g, n, index) ==
  g = [i \in 0..n |-> IF i = 0 THEN index ELSE g[i - 1] \div 2]
\* Every step up halves a position.
LEMMA AboveUnfold ==
  ASSUME NEW index
  PROVE  /\ Above(index)[0] = index
         /\ \A lvl \in 0..(Levels - 1) : Above(index)[lvl + 1] = Above(index)[lvl] \div 2
<1> DEFINE T == {m \in 0..Levels : \E g : AboveTo(g, m, index)}
<1>1. 0 \in T
  <2>1. AboveTo([i \in 0..0 |-> index], 0, index)
    BY DEF AboveTo
  <2> QED
    BY <2>1, LevelFacts
<1>2. ASSUME NEW lvl \in 0..(Levels - 1), lvl \in T PROVE lvl + 1 \in T
  <2>1. PICK g : AboveTo(g, lvl, index)
    BY <1>2
  <2> DEFINE h == [i \in 0..(lvl + 1) |-> IF i = lvl + 1 THEN g[lvl] \div 2
                                        ELSE g[i]]
  <2>2. ASSUME NEW i \in 0..(lvl + 1)
        PROVE  h[i] = IF i = 0 THEN index ELSE h[i - 1] \div 2
    <3>1. CASE i = lvl + 1
      <4>1. h[i] = (g[lvl] \div 2) /\ i # 0 /\ i - 1 = lvl /\ h[lvl] = g[lvl]
        BY <3>1
      <4> QED
        BY <4>1
    <3>2. CASE i # lvl + 1
      <4>1. i \in 0..lvl /\ h[i] = g[i] /\ i # 0 => h[i - 1] = g[i - 1]
        BY <3>2
      <4> QED
        BY <2>1, <4>1 DEF AboveTo
    <3> QED
      BY <3>1, <3>2
  <2>3. AboveTo(h, lvl + 1, index)
    BY <2>2 DEF AboveTo
  <2> QED
    BY <2>3, LevelFacts
<1>3. Levels \in T
  <2> HIDE DEF T
  <2> QED
    BY <1>1, <1>2, Upwards, LevelFacts
<1> DEFINE f == Above(index)
<1>4. \E g : g = [i \in 0..Levels |-> IF i = 0 THEN index ELSE g[i - 1] \div 2]
  BY <1>3 DEF AboveTo
<1>5. f = [i \in 0..Levels |-> IF i = 0 THEN index ELSE f[i - 1] \div 2]
  BY <1>4 DEF Above
<1> HIDE DEF f
<1>6. /\ f[0] = index
      /\ \A lvl \in 0..(Levels - 1) : f[lvl + 1] = f[lvl] \div 2
  BY <1>5, LevelFacts
<1> QED
  BY <1>6 DEF f

\* The hashes on a path, up to level n.
HashesTo(g, n, from, hash, siblings, index) ==
  g = [i \in 0..n |-> IF i <= from THEN hash
                       ELSE IF IsRight(index, i - 1) THEN hash_pair(siblings[i - 1], g[i - 1])
                       ELSE hash_pair(g[i - 1], siblings[i - 1])]
\* Every step up hashes a node with its sibling.
LEMMA HashesUnfold ==
  ASSUME NEW from \in Nat, NEW hash, NEW siblings, NEW index
  PROVE  /\ HashesUp(from, hash, siblings, index)[0] = hash
         /\ \A lvl \in 0..(Levels - 1) :
              HashesUp(from, hash, siblings, index)[lvl + 1] =
                IF lvl + 1 <= from THEN hash
                ELSE IF IsRight(index, lvl) THEN hash_pair(siblings[lvl], HashesUp(from, hash, siblings, index)[lvl])
                ELSE hash_pair(HashesUp(from, hash, siblings, index)[lvl], siblings[lvl])
<1> DEFINE T == {m \in 0..Levels : \E g : HashesTo(g, m, from, hash, siblings, index)}
<1>1. 0 \in T
  <2>1. HashesTo([i \in 0..0 |-> hash], 0, from, hash, siblings, index)
    BY DEF HashesTo
  <2> QED
    BY <2>1, LevelFacts
<1>2. ASSUME NEW lvl \in 0..(Levels - 1), lvl \in T PROVE lvl + 1 \in T
  <2>1. PICK g : HashesTo(g, lvl, from, hash, siblings, index)
    BY <1>2
  <2> DEFINE h == [i \in 0..(lvl + 1) |-> IF i = lvl + 1 THEN IF lvl + 1 <= from THEN hash
                        ELSE IF IsRight(index, lvl) THEN hash_pair(siblings[lvl], g[lvl])
                        ELSE hash_pair(g[lvl], siblings[lvl])
                                        ELSE g[i]]
  <2>2. ASSUME NEW i \in 0..(lvl + 1)
        PROVE  h[i] = IF i <= from THEN hash
                       ELSE IF IsRight(index, i - 1) THEN hash_pair(siblings[i - 1], h[i - 1])
                       ELSE hash_pair(h[i - 1], siblings[i - 1])
    <3>1. CASE i = lvl + 1
      <4>1. h[i] = (IF lvl + 1 <= from THEN hash
                        ELSE IF IsRight(index, lvl) THEN hash_pair(siblings[lvl], g[lvl])
                        ELSE hash_pair(g[lvl], siblings[lvl])) /\ i # 0 /\ i - 1 = lvl /\ h[lvl] = g[lvl]
        BY <3>1
      <4> QED
        BY <4>1
    <3>2. CASE i # lvl + 1
      <4>1. i \in 0..lvl /\ h[i] = g[i] /\ i # 0 => h[i - 1] = g[i - 1]
        BY <3>2
      <4> QED
        BY <2>1, <4>1 DEF HashesTo
    <3> QED
      BY <3>1, <3>2
  <2>3. HashesTo(h, lvl + 1, from, hash, siblings, index)
    BY <2>2 DEF HashesTo
  <2> QED
    BY <2>3, LevelFacts
<1>3. Levels \in T
  <2> HIDE DEF T
  <2> QED
    BY <1>1, <1>2, Upwards, LevelFacts
<1> DEFINE f == HashesUp(from, hash, siblings, index)
<1>4. \E g : g = [i \in 0..Levels |-> IF i <= from THEN hash
                       ELSE IF IsRight(index, i - 1) THEN hash_pair(siblings[i - 1], g[i - 1])
                       ELSE hash_pair(g[i - 1], siblings[i - 1])]
  BY <1>3 DEF HashesTo
<1>5. f = [i \in 0..Levels |-> IF i <= from THEN hash
                       ELSE IF IsRight(index, i - 1) THEN hash_pair(siblings[i - 1], f[i - 1])
                       ELSE hash_pair(f[i - 1], siblings[i - 1])]
  BY <1>4 DEF HashesUp
<1> HIDE DEF f
<1>6. /\ f[0] = hash
      /\ \A lvl \in 0..(Levels - 1) : f[lvl + 1] = IF lvl + 1 <= from THEN hash
                        ELSE IF IsRight(index, lvl) THEN hash_pair(siblings[lvl], f[lvl])
                        ELSE hash_pair(f[lvl], siblings[lvl])
  BY <1>5, LevelFacts
<1> QED
  BY <1>6 DEF f

\* The leaves of the complete tree, and a level of it over the one below.
Bottom(ls) == [j \in Nat |-> IF j < Len(ls) THEN ls[j + 1] ELSE ZeroLeaf]

Parents(below) == [j \in Nat |-> hash_pair(below[2 * j], below[2 * j + 1])]

\* The nodes of the complete tree, level by level.
Nodes(ls) ==
  CHOOSE node : node = [lvl \in 0..Levels |-> IF lvl = 0 THEN Bottom(ls) ELSE Parents(node[lvl - 1])]

\* The nodes up to level n.
NodesTo(g, n, ls) ==
  g = [i \in 0..n |-> IF i = 0 THEN Bottom(ls) ELSE Parents(g[i - 1])]
\* Every level of the complete tree is built from the one below.
LEMMA NodesUnfold ==
  ASSUME NEW ls
  PROVE  /\ Nodes(ls)[0] = Bottom(ls)
         /\ \A lvl \in 0..(Levels - 1) : Nodes(ls)[lvl + 1] = Parents(Nodes(ls)[lvl])
<1> DEFINE T == {m \in 0..Levels : \E g : NodesTo(g, m, ls)}
<1>1. 0 \in T
  <2>1. NodesTo([i \in 0..0 |-> Bottom(ls)], 0, ls)
    BY DEF NodesTo
  <2> QED
    BY <2>1, LevelFacts
<1>2. ASSUME NEW lvl \in 0..(Levels - 1), lvl \in T PROVE lvl + 1 \in T
  <2>1. PICK g : NodesTo(g, lvl, ls)
    BY <1>2
  <2> DEFINE h == [i \in 0..(lvl + 1) |-> IF i = lvl + 1 THEN Parents(g[lvl])
                                        ELSE g[i]]
  <2>2. ASSUME NEW i \in 0..(lvl + 1)
        PROVE  h[i] = IF i = 0 THEN Bottom(ls) ELSE Parents(h[i - 1])
    <3>1. CASE i = lvl + 1
      <4>1. h[i] = (Parents(g[lvl])) /\ i # 0 /\ i - 1 = lvl /\ h[lvl] = g[lvl]
        BY <3>1
      <4> QED
        BY <4>1
    <3>2. CASE i # lvl + 1
      <4>1. i \in 0..lvl /\ h[i] = g[i] /\ i # 0 => h[i - 1] = g[i - 1]
        BY <3>2
      <4> QED
        BY <2>1, <4>1 DEF NodesTo
    <3> QED
      BY <3>1, <3>2
  <2>3. NodesTo(h, lvl + 1, ls)
    BY <2>2 DEF NodesTo
  <2> QED
    BY <2>3, LevelFacts
<1>3. Levels \in T
  <2> HIDE DEF T
  <2> QED
    BY <1>1, <1>2, Upwards, LevelFacts
<1> DEFINE f == Nodes(ls)
<1>4. \E g : g = [i \in 0..Levels |-> IF i = 0 THEN Bottom(ls) ELSE Parents(g[i - 1])]
  BY <1>3 DEF NodesTo
<1>5. f = [i \in 0..Levels |-> IF i = 0 THEN Bottom(ls) ELSE Parents(f[i - 1])]
  BY <1>4 DEF Nodes
<1> HIDE DEF f
<1>6. /\ f[0] = Bottom(ls)
      /\ \A lvl \in 0..(Levels - 1) : f[lvl + 1] = Parents(f[lvl])
  BY <1>5, LevelFacts
<1> QED
  BY <1>6 DEF f

\* A row of the client's tree over the one below, with an empty node as padding.
Row(below, empty) ==
  [k \in 1..((Len(below) + 1) \div 2) |->
     hash_pair(IF 2 * k - 2 < Len(below) THEN below[2 * k - 2 + 1] ELSE empty,
               IF 2 * k - 1 < Len(below) THEN below[2 * k - 1 + 1] ELSE empty)]

\* The levels of the client's tree up to level n.
RowsTo(g, n, ls) ==
  g = [i \in 0..n |-> IF i = 0 THEN IF ls = <<>> THEN <<Zeroes[0]>> ELSE ls
                       ELSE Row(g[i - 1], Zeroes[i - 1])]
\* Every level of the client's tree is built from the one below.
LEMMA BuiltUnfold ==
  ASSUME NEW ls
  PROVE  /\ BuiltLevels(ls)[0] = IF ls = <<>> THEN <<Zeroes[0]>> ELSE ls
         /\ \A lvl \in 0..(Levels - 1) : BuiltLevels(ls)[lvl + 1] = Row(BuiltLevels(ls)[lvl], Zeroes[lvl])
<1> DEFINE T == {m \in 0..Levels : \E g : RowsTo(g, m, ls)}
<1>1. 0 \in T
  <2>1. RowsTo([i \in 0..0 |-> IF ls = <<>> THEN <<Zeroes[0]>> ELSE ls], 0, ls)
    BY DEF RowsTo
  <2> QED
    BY <2>1, LevelFacts
<1>2. ASSUME NEW lvl \in 0..(Levels - 1), lvl \in T PROVE lvl + 1 \in T
  <2>1. PICK g : RowsTo(g, lvl, ls)
    BY <1>2
  <2> DEFINE h == [i \in 0..(lvl + 1) |-> IF i = lvl + 1 THEN Row(g[lvl], Zeroes[lvl])
                                        ELSE g[i]]
  <2>2. ASSUME NEW i \in 0..(lvl + 1)
        PROVE  h[i] = IF i = 0 THEN IF ls = <<>> THEN <<Zeroes[0]>> ELSE ls
                       ELSE Row(h[i - 1], Zeroes[i - 1])
    <3>1. CASE i = lvl + 1
      <4>1. h[i] = (Row(g[lvl], Zeroes[lvl])) /\ i # 0 /\ i - 1 = lvl /\ h[lvl] = g[lvl]
        BY <3>1
      <4> QED
        BY <4>1
    <3>2. CASE i # lvl + 1
      <4>1. i \in 0..lvl /\ h[i] = g[i] /\ i # 0 => h[i - 1] = g[i - 1]
        BY <3>2
      <4> QED
        BY <2>1, <4>1 DEF RowsTo
    <3> QED
      BY <3>1, <3>2
  <2>3. RowsTo(h, lvl + 1, ls)
    BY <2>2, ZenonT(60) DEF RowsTo
  <2> QED
    BY <2>3, LevelFacts
<1>3. Levels \in T
  <2> HIDE DEF T
  <2> QED
    BY <1>1, <1>2, Upwards, LevelFacts
<1> DEFINE f == BuiltLevels(ls)
<1>4. \E g : g = [i \in 0..Levels |-> IF i = 0 THEN IF ls = <<>> THEN <<Zeroes[0]>> ELSE ls
                       ELSE Row(g[i - 1], Zeroes[i - 1])]
  BY <1>3 DEF RowsTo
<1>5. f = [i \in 0..Levels |-> IF i = 0 THEN IF ls = <<>> THEN <<Zeroes[0]>> ELSE ls
                       ELSE Row(f[i - 1], Zeroes[i - 1])]
  BY <1>4, ZenonT(60) DEF BuiltLevels, Row
<1> HIDE DEF f
<1>6. /\ f[0] = IF ls = <<>> THEN <<Zeroes[0]>> ELSE ls
      /\ \A lvl \in 0..(Levels - 1) : f[lvl + 1] = Row(f[lvl], Zeroes[lvl])
  BY <1>5, LevelFacts
<1> QED
  BY <1>6 DEF f

\* The powers of two that max_leaves is the last of.
Shifts == CHOOSE shifted : shifted = [lvl \in 0..Levels |-> IF lvl = 0 THEN 1 ELSE 2 * shifted[lvl - 1]]

\* The powers of two up to n.
ShiftsTo(g, n) ==
  g = [i \in 0..n |-> IF i = 0 THEN 1 ELSE 2 * g[i - 1]]
\* Every level doubles the room.
LEMMA ShiftsUnfold ==
  /\ Shifts[0] = 1 /\ \A lvl \in 0..(Levels - 1) : Shifts[lvl + 1] = 2 * Shifts[lvl]
  /\ max_leaves = Shifts[Levels]
<1> DEFINE T == {m \in 0..Levels : \E g : ShiftsTo(g, m)}
<1>1. 0 \in T
  <2>1. ShiftsTo([i \in 0..0 |-> 1], 0)
    BY DEF ShiftsTo
  <2> QED
    BY <2>1, LevelFacts
<1>2. ASSUME NEW lvl \in 0..(Levels - 1), lvl \in T PROVE lvl + 1 \in T
  <2>1. PICK g : ShiftsTo(g, lvl)
    BY <1>2
  <2> DEFINE h == [i \in 0..(lvl + 1) |-> IF i = lvl + 1 THEN 2 * g[lvl]
                                        ELSE g[i]]
  <2>2. ASSUME NEW i \in 0..(lvl + 1)
        PROVE  h[i] = IF i = 0 THEN 1 ELSE 2 * h[i - 1]
    <3>1. CASE i = lvl + 1
      <4>1. h[i] = (2 * g[lvl]) /\ i # 0 /\ i - 1 = lvl /\ h[lvl] = g[lvl]
        BY <3>1
      <4> QED
        BY <4>1
    <3>2. CASE i # lvl + 1
      <4>1. i \in 0..lvl /\ h[i] = g[i] /\ i # 0 => h[i - 1] = g[i - 1]
        BY <3>2
      <4> QED
        BY <2>1, <4>1 DEF ShiftsTo
    <3> QED
      BY <3>1, <3>2
  <2>3. ShiftsTo(h, lvl + 1)
    BY <2>2 DEF ShiftsTo
  <2> QED
    BY <2>3, LevelFacts
<1>3. Levels \in T
  <2> HIDE DEF T
  <2> QED
    BY <1>1, <1>2, Upwards, LevelFacts
<1> DEFINE f == Shifts
<1>4. \E g : g = [i \in 0..Levels |-> IF i = 0 THEN 1 ELSE 2 * g[i - 1]]
  BY <1>3 DEF ShiftsTo
<1>5. f = [i \in 0..Levels |-> IF i = 0 THEN 1 ELSE 2 * f[i - 1]]
  BY <1>4 DEF Shifts
<1> HIDE DEF f
<1>6. /\ f[0] = 1
      /\ \A lvl \in 0..(Levels - 1) : f[lvl + 1] = 2 * f[lvl]
  BY <1>5, LevelFacts
<1>7. max_leaves = Shifts[Levels]
  BY DEF max_leaves, Shifts
<1> QED
  BY <1>6, <1>7 DEF f

-----------------------------------------------------------------------------
(* Positions.                                                              *)

\* Positions are natural numbers.
LEMMA AboveNat ==
  ASSUME NEW n \in Nat
  PROVE  \A lvl \in 0..Levels : Above(n)[lvl] \in Nat
<1> DEFINE T == {lvl \in 0..Levels : Above(n)[lvl] \in Nat}
<1>1. 0 \in T
  BY AboveUnfold, LevelFacts
<1>2. ASSUME NEW lvl \in 0..(Levels - 1), lvl \in T PROVE lvl + 1 \in T
  BY <1>2, AboveUnfold, LevelFacts
<1> HIDE DEF T
<1>3. \A lvl \in 0..Levels : lvl \in T
  BY <1>1, <1>2, Upwards
<1> QED
  BY <1>3 DEF T

\* Where two leaves are at the same place, or next to each other, on a level, they
\* are on every level above it.
LEMMA AboveStep ==
  ASSUME NEW a \in Nat, NEW b \in Nat, NEW from \in 0..Levels,
         Above(b)[from] \in {Above(a)[from], Above(a)[from] + 1}
  PROVE  \A lvl \in from..Levels : Above(b)[lvl] \in {Above(a)[lvl], Above(a)[lvl] + 1}
<1> DEFINE P(lvl) == Above(b)[lvl] \in {Above(a)[lvl], Above(a)[lvl] + 1}
           T == {lvl \in 0..Levels : lvl < from \/ P(lvl)}
<1>1. 0 \in T
  <2>1. from = 0 \/ 0 < from
    BY LevelFacts
  <2> QED
    BY <2>1, LevelFacts
<1>2. ASSUME NEW lvl \in 0..(Levels - 1), lvl \in T PROVE lvl + 1 \in T
  <2>1. lvl \in 0..Levels /\ lvl + 1 \in 0..Levels /\ lvl \in Nat /\ from \in Nat
    BY LevelFacts
  <2>2. CASE lvl + 1 <= from
    BY <2>1, <2>2
  <2>3. CASE ~ (lvl + 1 <= from)
    <3>1. P(lvl)
      BY <1>2, <2>1, <2>3
    <3>2. Above(a)[lvl] \in Nat /\ Above(b)[lvl] \in Nat
      BY <2>1, AboveNat
    <3>3. \A x, y \in Nat : y \in {x, x + 1} => y \div 2 \in {x \div 2, x \div 2 + 1}
      OBVIOUS
    <3>4. P(lvl + 1)
      BY <3>1, <3>2, <3>3, AboveUnfold
    <3> QED
      BY <2>1, <3>4
  <2> QED
    BY <2>2, <2>3
<1> HIDE DEF T
<1>3. \A lvl \in 0..Levels : lvl \in T
  BY <1>1, <1>2, Upwards
<1>4. ASSUME NEW lvl \in from..Levels PROVE P(lvl)
  <2>1. lvl \in 0..Levels /\ ~ (lvl < from)
    BY LevelFacts
  <2> QED
    BY <1>3, <2>1 DEF T
<1> QED
  BY <1>4

\* The same place on a level is the same place on every level above it.
LEMMA AboveSame ==
  ASSUME NEW a \in Nat, NEW b \in Nat, NEW from \in 0..Levels, Above(b)[from] = Above(a)[from]
  PROVE  \A lvl \in from..Levels : Above(b)[lvl] = Above(a)[lvl]
<1> DEFINE T == {lvl \in 0..Levels : lvl < from \/ Above(b)[lvl] = Above(a)[lvl]}
<1>1. 0 \in T
  <2>1. from = 0 \/ 0 < from
    BY LevelFacts
  <2> QED
    BY <2>1, LevelFacts
<1>2. ASSUME NEW lvl \in 0..(Levels - 1), lvl \in T PROVE lvl + 1 \in T
  <2>1. lvl \in 0..Levels /\ lvl + 1 \in 0..Levels /\ lvl \in Nat /\ from \in Nat
    BY LevelFacts
  <2>2. CASE lvl + 1 <= from
    BY <2>1, <2>2
  <2>3. CASE ~ (lvl + 1 <= from)
    BY <1>2, <2>1, <2>3, AboveUnfold
  <2> QED
    BY <2>2, <2>3
<1> HIDE DEF T
<1>3. \A lvl \in 0..Levels : lvl \in T
  BY <1>1, <1>2, Upwards
<1>4. ASSUME NEW lvl \in from..Levels PROVE Above(b)[lvl] = Above(a)[lvl]
  <2>1. lvl \in 0..Levels /\ ~ (lvl < from)
    BY LevelFacts
  <2> QED
    BY <1>3, <2>1 DEF T
<1> QED
  BY <1>4

\* Positions keep the order of the leaves.
LEMMA AboveOrder ==
  ASSUME NEW a \in Nat, NEW b \in Nat, a <= b
  PROVE  \A lvl \in 0..Levels : Above(a)[lvl] <= Above(b)[lvl]
<1> DEFINE T == {lvl \in 0..Levels : Above(a)[lvl] <= Above(b)[lvl]}
<1>1. 0 \in T
  BY AboveUnfold, LevelFacts
<1>2. ASSUME NEW lvl \in 0..(Levels - 1), lvl \in T PROVE lvl + 1 \in T
  <2>1. lvl \in 0..Levels /\ lvl + 1 \in 0..Levels
    BY LevelFacts
  <2>2. Above(a)[lvl] \in Nat /\ Above(b)[lvl] \in Nat
    BY <2>1, AboveNat
  <2>3. \A x, y \in Nat : x <= y => x \div 2 <= y \div 2
    OBVIOUS
  <2> QED
    BY <1>2, <2>1, <2>2, <2>3, AboveUnfold
<1> HIDE DEF T
<1>3. \A lvl \in 0..Levels : lvl \in T
  BY <1>1, <1>2, Upwards
<1> QED
  BY <1>3 DEF T

\* The room of the tree is a number.
LEMMA MaxIsInt == max_leaves \in Nat /\ \A lvl \in 0..Levels : Shifts[lvl] \in Nat
<1> DEFINE T == {lvl \in 0..Levels : Shifts[lvl] \in Nat}
<1>1. 0 \in T
  BY ShiftsUnfold, LevelFacts
<1>2. ASSUME NEW lvl \in 0..(Levels - 1), lvl \in T PROVE lvl + 1 \in T
  BY <1>2, ShiftsUnfold, LevelFacts
<1>3. \A lvl \in 0..Levels : lvl \in T
  <2> HIDE DEF T
  <2> QED
    BY <1>1, <1>2, Upwards
<1> QED
  BY <1>3, ShiftsUnfold, LevelFacts

\* Every leaf that the tree has room for is below its root.
LEMMA AboveRoot ==
  ASSUME NEW n \in Nat, n < max_leaves
  PROVE  Above(n)[Levels] = 0
<1> DEFINE U == {lvl \in 0..Levels : Above(n)[lvl] < Shifts[Levels - lvl]}
<1>1. 0 \in U
  BY AboveUnfold, ShiftsUnfold, LevelFacts
<1>2. ASSUME NEW lvl \in 0..(Levels - 1), lvl \in U PROVE lvl + 1 \in U
  <2>1. /\ lvl \in 0..Levels /\ lvl + 1 \in 0..Levels /\ Levels - (lvl + 1) \in 0..(Levels - 1)
        /\ (Levels - (lvl + 1)) + 1 = Levels - lvl /\ Levels - lvl \in 0..Levels
        /\ Levels - (lvl + 1) \in 0..Levels
    BY LevelFacts
  <2>2. Shifts[Levels - lvl] = 2 * Shifts[Levels - (lvl + 1)]
    BY <2>1, ShiftsUnfold
  <2>3. Above(n)[lvl] \in Nat /\ Shifts[Levels - (lvl + 1)] \in Nat
    BY <2>1, AboveNat, MaxIsInt
  <2>4. \A x, y \in Nat : x < 2 * y => x \div 2 < y
    OBVIOUS
  <2>5. Above(n)[lvl] \div 2 < Shifts[Levels - (lvl + 1)]
    BY <1>2, <2>2, <2>3, <2>4
  <2> QED
    BY <2>1, <2>5, AboveUnfold
<1> HIDE DEF U
<1>3. \A lvl \in 0..Levels : lvl \in U
  BY <1>1, <1>2, Upwards
<1>4. Above(n)[Levels] < Shifts[Levels - Levels]
  BY <1>3, LevelFacts DEF U
<1>5. Shifts[Levels - Levels] = 1
  BY ShiftsUnfold, LevelFacts
<1>6. Above(n)[Levels] \in Nat
  BY AboveNat, LevelFacts
<1> QED
  BY <1>4, <1>5, <1>6

-----------------------------------------------------------------------------
(* Nodes of the complete tree.                                             *)

\* A node hashes the two below it.
LEMMA NodeAbove ==
  ASSUME NEW ls, NEW lvl \in 0..(Levels - 1), NEW i \in Nat
  PROVE  Nodes(ls)[lvl + 1][i] = hash_pair(Nodes(ls)[lvl][2 * i], Nodes(ls)[lvl][2 * i + 1])
<1>1. PICK r : r = Nodes(ls)[lvl]
  OBVIOUS
<1>2. Nodes(ls)[lvl + 1] = [j \in Nat |-> hash_pair(r[2 * j], r[2 * j + 1])]
  BY <1>1, NodesUnfold DEF Parents
<1> QED
  BY <1>1, <1>2

\* A leaf is below one of the two children of each node above it.
LEMMA ChildOf ==
  ASSUME NEW lvl \in 0..(Levels - 1), NEW i \in Nat, NEW k \in Nat,
         Above(k)[lvl] = 2 * i \/ Above(k)[lvl] = 2 * i + 1
  PROVE  Above(k)[lvl + 1] = i
<1>1. (2 * i) \div 2 = i /\ (2 * i + 1) \div 2 = i
  OBVIOUS
<1> QED
  BY <1>1, AboveUnfold

\* A node depends on the leaves below it only.
LEMMA SameNodes ==
  ASSUME NEW ls, NEW ms, NEW level \in 0..Levels, NEW place \in Nat,
         \A k \in Nat : Above(k)[level] = place => Bottom(ls)[k] = Bottom(ms)[k]
  PROVE  Nodes(ls)[level][place] = Nodes(ms)[level][place]
<1> DEFINE Same(lvl, i) == \A k \in Nat : Above(k)[lvl] = i => Bottom(ls)[k] = Bottom(ms)[k]
           T == {lvl \in 0..Levels : \A i \in Nat : Same(lvl, i) => Nodes(ls)[lvl][i] = Nodes(ms)[lvl][i]}
<1>1. 0 \in T
  <2>1. ASSUME NEW i \in Nat, Same(0, i) PROVE Nodes(ls)[0][i] = Nodes(ms)[0][i]
    <3>1. Above(i)[0] = i
      BY AboveUnfold
    <3> QED
      BY <2>1, <3>1, NodesUnfold
  <2> QED
    BY <2>1, LevelFacts
<1>2. ASSUME NEW lvl \in 0..(Levels - 1), lvl \in T PROVE lvl + 1 \in T
  <2>1. ASSUME NEW i \in Nat, Same(lvl + 1, i) PROVE Nodes(ls)[lvl + 1][i] = Nodes(ms)[lvl + 1][i]
    <3>1. Same(lvl, 2 * i) /\ Same(lvl, 2 * i + 1)
      BY <2>1, ChildOf
    <3>2. 2 * i \in Nat /\ 2 * i + 1 \in Nat
      OBVIOUS
    <3> HIDE DEF Same
    <3>3. /\ Nodes(ls)[lvl][2 * i] = Nodes(ms)[lvl][2 * i]
          /\ Nodes(ls)[lvl][2 * i + 1] = Nodes(ms)[lvl][2 * i + 1]
      BY <1>2, <3>1, <3>2
    <3>4. /\ Nodes(ls)[lvl + 1][i] = hash_pair(Nodes(ls)[lvl][2 * i], Nodes(ls)[lvl][2 * i + 1])
          /\ Nodes(ms)[lvl + 1][i] = hash_pair(Nodes(ms)[lvl][2 * i], Nodes(ms)[lvl][2 * i + 1])
      BY NodeAbove
    <3> QED
      BY <3>3, <3>4
  <2> QED
    BY <2>1, LevelFacts
<1>3. Same(level, place)
  OBVIOUS
<1> HIDE DEF Same
<1>4. level \in T
  <2> HIDE DEF T
  <2> QED
    BY <1>1, <1>2, Upwards
<1> QED
  BY <1>3, <1>4

\* A node with no leaf below it is zero of its level.
LEMMA EmptyNodes ==
  ASSUME NEW ls, NEW level \in 0..Levels, NEW place \in Nat,
         \A k \in Nat : Above(k)[level] = place => ~ (k < Len(ls))
  PROVE  Nodes(ls)[level][place] = Zeroes[level]
<1> DEFINE Empty(lvl, i) == \A k \in Nat : Above(k)[lvl] = i => ~ (k < Len(ls))
           T == {lvl \in 0..Levels : \A i \in Nat : Empty(lvl, i) => Nodes(ls)[lvl][i] = Zeroes[lvl]}
<1>1. 0 \in T
  <2>1. ASSUME NEW i \in Nat, Empty(0, i) PROVE Nodes(ls)[0][i] = Zeroes[0]
    <3>1. ~ (i < Len(ls))
      BY <2>1, AboveUnfold
    <3>2. Nodes(ls)[0] = [j \in Nat |-> IF j < Len(ls) THEN ls[j + 1] ELSE ZeroLeaf]
      BY NodesUnfold DEF Bottom
    <3> QED
      BY <3>1, <3>2, ZeroesUnfold
  <2> QED
    BY <2>1, LevelFacts
<1>2. ASSUME NEW lvl \in 0..(Levels - 1), lvl \in T PROVE lvl + 1 \in T
  <2>1. ASSUME NEW i \in Nat, Empty(lvl + 1, i) PROVE Nodes(ls)[lvl + 1][i] = Zeroes[lvl + 1]
    <3>1. Empty(lvl, 2 * i) /\ Empty(lvl, 2 * i + 1)
      BY <2>1, ChildOf
    <3>2. 2 * i \in Nat /\ 2 * i + 1 \in Nat
      OBVIOUS
    <3> HIDE DEF Empty
    <3>3. Nodes(ls)[lvl][2 * i] = Zeroes[lvl] /\ Nodes(ls)[lvl][2 * i + 1] = Zeroes[lvl]
      BY <1>2, <3>1, <3>2
    <3> QED
      BY <3>3, NodeAbove, ZeroesUnfold, ZenonT(60)
  <2> QED
    BY <2>1, LevelFacts
<1>3. Empty(level, place)
  OBVIOUS
<1> HIDE DEF Empty
<1>4. level \in T
  <2> HIDE DEF T
  <2> QED
    BY <1>1, <1>2, Upwards
<1> QED
  BY <1>3, <1>4

\* The sibling of a position.
Sibling(pos) == IF pos % 2 = 1 THEN pos - 1 ELSE pos + 1

\* The siblings of the complete tree, on the path of a leaf from a level up.
AreSiblings(ls, index, from, siblings) ==
  \A lvl \in from..(Levels - 1) : siblings[lvl] = Nodes(ls)[lvl][Sibling(Above(index)[lvl])]

\* The hashes of a path are the nodes of the complete tree.
AreNodes(ls, index, from, h) ==
  \A lvl \in from..Levels : h[lvl] = Nodes(ls)[lvl][Above(index)[lvl]]

\* Hashing up with the siblings of the complete tree yields its nodes.
LEMMA HashesAreNodes ==
  ASSUME NEW ls, NEW index \in Nat, NEW from \in 0..Levels, NEW siblings,
         NEW hash, hash = Nodes(ls)[from][Above(index)[from]],
         AreSiblings(ls, index, from, siblings)
  PROVE  AreNodes(ls, index, from, HashesUp(from, hash, siblings, index))
<1> DEFINE h == HashesUp(from, hash, siblings, index)
           T == {lvl \in 0..Levels : IF lvl <= from THEN h[lvl] = hash
                                     ELSE h[lvl] = Nodes(ls)[lvl][Above(index)[lvl]]}
<1>0. from \in Nat /\ from \in 0..Levels
  BY LevelFacts
<1>1. h[0] = hash
  BY <1>0, HashesUnfold
<1>2. ASSUME NEW lvl \in 0..(Levels - 1)
      PROVE  h[lvl + 1] = IF lvl + 1 <= from THEN hash
                          ELSE IF IsRight(index, lvl) THEN hash_pair(siblings[lvl], h[lvl])
                          ELSE hash_pair(h[lvl], siblings[lvl])
  BY <1>0, HashesUnfold
<1> HIDE DEF h
<1>3. 0 \in T
  BY <1>0, <1>1, LevelFacts
<1>4. ASSUME NEW lvl \in 0..(Levels - 1), lvl \in T PROVE lvl + 1 \in T
  <2>1. lvl \in Nat /\ lvl \in 0..Levels /\ lvl + 1 \in 0..Levels
    BY LevelFacts
  <2>2. CASE lvl + 1 <= from
    BY <1>2, <2>1, <2>2
  <2>3. CASE ~ (lvl + 1 <= from)
    <3> DEFINE p == Above(index)[lvl]
    <3>1. lvl \in from..(Levels - 1) /\ (lvl <= from => lvl = from)
      BY <1>0, <2>1, <2>3
    <3>2. h[lvl] = Nodes(ls)[lvl][p] /\ siblings[lvl] = Nodes(ls)[lvl][Sibling(p)]
      BY <1>4, <3>1 DEF AreSiblings
    <3>3. p \in Nat /\ Above(index)[lvl + 1] = p \div 2
      BY <2>1, AboveNat, AboveUnfold
    <3>4. IsRight(index, lvl) <=> p % 2 = 1
      BY DEF IsRight
    <3> HIDE DEF p
    <3>5. PICK q \in Nat : q = p \div 2
      BY <3>3
    <3>6. CASE p % 2 = 1
      <4>1. p = 2 * q + 1 /\ Sibling(p) = 2 * q
        BY <3>3, <3>5, <3>6 DEF Sibling
      <4>2. h[lvl + 1] = hash_pair(Nodes(ls)[lvl][2 * q], Nodes(ls)[lvl][2 * q + 1])
        BY <1>2, <2>3, <3>2, <3>4, <3>6, <4>1
      <4>3. h[lvl + 1] = Nodes(ls)[lvl + 1][q]
        BY <4>2, NodeAbove
      <4> QED
        BY <2>1, <2>3, <3>3, <3>5, <4>3
    <3>7. CASE p % 2 # 1
      <4>1. p = 2 * q /\ Sibling(p) = 2 * q + 1
        BY <3>3, <3>5, <3>7 DEF Sibling
      <4>2. h[lvl + 1] = hash_pair(Nodes(ls)[lvl][2 * q], Nodes(ls)[lvl][2 * q + 1])
        BY <1>2, <2>3, <3>2, <3>4, <3>7, <4>1
      <4>3. h[lvl + 1] = Nodes(ls)[lvl + 1][q]
        BY <4>2, NodeAbove
      <4> QED
        BY <2>1, <2>3, <3>3, <3>5, <4>3
    <3> QED
      BY <3>6, <3>7
  <2> QED
    BY <2>2, <2>3
<1>5. \A lvl \in 0..Levels : lvl \in T
  <2> HIDE DEF T
  <2> QED
    BY <1>3, <1>4, Upwards
<1>6. ASSUME NEW lvl \in from..Levels PROVE h[lvl] = Nodes(ls)[lvl][Above(index)[lvl]]
  <2>1. lvl \in 0..Levels /\ (lvl <= from => lvl = from)
    <3>1. \A a, b, c \in Nat : b \in a..c => b \in 0..c /\ (b <= a => b = a)
      OBVIOUS
    <3>2. lvl \in Nat
      BY <1>0
    <3> QED
      BY <1>0, <3>1, <3>2, LevelFacts
  <2> QED
    BY <1>5, <2>1
<1> QED
  BY <1>6 DEF h, AreNodes

-----------------------------------------------------------------------------
(* The trees of the contracts.                                             *)

\* A filled subtree that a later leaf is paired with is the node it stands for.
FilledOK ==
  \A lvl \in 0..(Levels - 1) : IsRight(nextIndex, lvl) =>
    filledSubtrees[lvl] = Nodes(leaves)[lvl][Above(nextIndex)[lvl] - 1]

\* The pool inserts pairs.
PairsOK == contract = "pool" => nextIndex % 2 = 0

TreeInv == TreeTypeOK /\ FilledOK /\ PairsOK /\ treeRoot = Nodes(leaves)[Levels][0]

\* A climb from the new node recomputes the nodes above it, and keeps the filled
\* subtrees for the leaves that come next.
LEMMA ClimbKeeps ==
  ASSUME TreeInv, nextIndex < max_leaves,
         NEW ls, NEW from \in 0..Levels, NEW hash, NEW next \in Nat,
         Len(ls) = next, nextIndex < next, \A k \in 1..nextIndex : ls[k] = leaves[k],
         hash = Nodes(ls)[from][Above(nextIndex)[from]],
         \A k \in nextIndex..(next - 1) : Above(k)[from] = Above(nextIndex)[from],
         Above(next)[from] = Above(nextIndex)[from] + 1,
         Climb(from, hash)
  PROVE  /\ treeRoot' = Nodes(ls)[Levels][0] /\ DOMAIN filledSubtrees' = 0..Levels
         /\ \A lvl \in from..(Levels - 1) : IsRight(next, lvl) =>
              filledSubtrees'[lvl] = Nodes(ls)[lvl][Above(next)[lvl] - 1]
<1> DEFINE n == nextIndex
           s == [lvl \in 0..Levels |-> IF IsRight(n, lvl) THEN filledSubtrees[lvl] ELSE Zeroes[lvl]]
           h == HashesUp(from, hash, s, n)
<1>0. n \in Nat /\ Len(leaves) = n /\ from \in Nat /\ from \in 0..Levels
  BY LevelFacts DEF TreeInv, TreeTypeOK
<1>1. \A lvl \in from..(Levels - 1) :
        lvl \in 0..(Levels - 1) /\ lvl \in 0..Levels /\ lvl + 1 \in 0..Levels /\ lvl \in from..Levels
  BY <1>0, LevelFacts
<1>2. ASSUME NEW lvl \in from..Levels
      PROVE  /\ \A k \in n..(next - 1) : Above(k)[lvl] = Above(n)[lvl]
             /\ \A k \in 0..(n - 1) : Above(k)[lvl] <= Above(n)[lvl]
  <2>1. ASSUME NEW k \in n..(next - 1) PROVE Above(k)[lvl] = Above(n)[lvl]
    <3>1. k \in Nat
      BY <1>0
    <3> QED
      BY <1>0, <3>1, AboveSame
  <2>2. ASSUME NEW k \in 0..(n - 1) PROVE Above(k)[lvl] <= Above(n)[lvl]
    <3>1. k \in Nat /\ k <= n /\ lvl \in 0..Levels
      BY <1>0, LevelFacts
    <3> QED
      BY <1>0, <3>1, AboveOrder
  <2> QED
    BY <2>1, <2>2
<1>3. ASSUME NEW k \in 0..(n - 1) PROVE Bottom(ls)[k] = Bottom(leaves)[k]
  <2>1. k \in Nat /\ k < Len(ls) /\ k < Len(leaves) /\ k + 1 \in 1..n
    BY <1>0
  <2> QED
    BY <2>1 DEF Bottom
<1>4. ASSUME NEW lvl \in from..(Levels - 1), IsRight(n, lvl)
      PROVE  Nodes(ls)[lvl][Above(n)[lvl] - 1] = filledSubtrees[lvl]
  <2>1. Above(n)[lvl] \in Nat /\ Above(n)[lvl] % 2 = 1
    BY <1>0, <1>1, <1>4, AboveNat DEF IsRight
  <2>2. Above(n)[lvl] - 1 \in Nat
    BY <2>1
  <2>3. ASSUME NEW k \in Nat, Above(k)[lvl] = Above(n)[lvl] - 1 PROVE Bottom(ls)[k] = Bottom(leaves)[k]
    <3>1. Above(n)[lvl] <= Above(k)[lvl] => FALSE
      BY <2>1, <2>3
    <3>2. ~ (n <= k)
      BY <1>0, <1>1, <3>1, AboveOrder
    <3>3. k \in 0..(n - 1)
      BY <1>0, <3>2
    <3> QED
      BY <1>3, <3>3
  <2>4. Nodes(ls)[lvl][Above(n)[lvl] - 1] = Nodes(leaves)[lvl][Above(n)[lvl] - 1]
    <3>1. PICK place \in Nat : place = Above(n)[lvl] - 1
      BY <2>2
    <3>2. \A k \in Nat : Above(k)[lvl] = place => Bottom(ls)[k] = Bottom(leaves)[k]
      BY <2>3, <3>1
    <3>3. Nodes(ls)[lvl][place] = Nodes(leaves)[lvl][place]
      BY <1>1, <3>2, SameNodes
    <3> QED
      BY <3>1, <3>3
  <2> QED
    BY <1>1, <1>4, <2>4 DEF TreeInv, FilledOK
<1>5. ASSUME NEW lvl \in from..(Levels - 1) PROVE s[lvl] = Nodes(ls)[lvl][Sibling(Above(n)[lvl])]
  <2>1. Above(n)[lvl] \in Nat /\ (IsRight(n, lvl) <=> Above(n)[lvl] % 2 = 1)
    BY <1>0, <1>1, AboveNat DEF IsRight
  <2>2. CASE IsRight(n, lvl)
    BY <1>1, <1>4, <2>1, <2>2 DEF Sibling
  <2>3. CASE ~ IsRight(n, lvl)
    <3>1. ASSUME NEW k \in Nat, Above(k)[lvl] = Above(n)[lvl] + 1 PROVE ~ (k < next)
      <4>1. SUFFICES ASSUME k < next PROVE FALSE
        OBVIOUS
      <4>2. k \in n..(next - 1) \/ k \in 0..(n - 1)
        BY <1>0, <4>1
      <4>3. Above(k)[lvl] <= Above(n)[lvl]
        BY <1>1, <1>2, <2>1, <4>2
      <4> QED
        BY <2>1, <3>1, <4>3
    <3>2. Nodes(ls)[lvl][Above(n)[lvl] + 1] = Zeroes[lvl]
      <4>1. Above(n)[lvl] + 1 \in Nat
        BY <2>1
      <4> QED
        BY <1>1, <3>1, <4>1, EmptyNodes
    <3> QED
      BY <1>1, <2>1, <2>3, <3>2 DEF Sibling
  <2> QED
    BY <2>2, <2>3
<1> HIDE DEF s
<1>6. \A lvl \in from..Levels : h[lvl] = Nodes(ls)[lvl][Above(n)[lvl]]
  <2>1. \A lvl \in from..(Levels - 1) : s[lvl] = Nodes(ls)[lvl][Sibling(Above(n)[lvl])]
    BY <1>5
  <2>2. PICK index \in Nat : index = n
    BY <1>0
  <2>3. PICK siblings : siblings = s
    OBVIOUS
  <2>4. hash = Nodes(ls)[from][Above(index)[from]]
    BY <2>2
  <2>5. AreSiblings(ls, index, from, siblings)
    BY <2>1, <2>2, <2>3 DEF AreSiblings
  <2>6. AreNodes(ls, index, from, HashesUp(from, hash, siblings, index))
    BY <1>0, <2>4, <2>5, HashesAreNodes, Zenon
  <2> QED
    BY <2>2, <2>3, <2>6 DEF AreNodes
<1>7. Path(from, hash) = h
  BY DEF Path, s
<1> HIDE DEF h
<1>8. /\ treeRoot' = h[Levels]
      /\ filledSubtrees' =
           [lvl \in 0..Levels |-> IF lvl \in from..(Levels - 1) /\ ~ IsRight(n, lvl)
                                  THEN h[lvl] ELSE filledSubtrees[lvl]]
  BY <1>7 DEF Climb
<1>9. treeRoot' = Nodes(ls)[Levels][0]
  <2>1. Above(n)[Levels] = 0
    BY <1>0, AboveRoot
  <2>2. Levels \in from..Levels
    BY <1>0, LevelFacts
  <2> QED
    BY <1>6, <1>8, <2>1, <2>2
<1>10. ASSUME NEW lvl \in from..(Levels - 1), IsRight(next, lvl)
       PROVE  filledSubtrees'[lvl] = Nodes(ls)[lvl][Above(next)[lvl] - 1]
  <2>1. Above(next)[lvl] \in {Above(n)[lvl], Above(n)[lvl] + 1}
    BY <1>0, <1>1, AboveStep
  <2>2. Above(n)[lvl] \in Nat /\ Above(next)[lvl] \in Nat /\ Above(next)[lvl] % 2 = 1
    BY <1>0, <1>1, <1>10, AboveNat DEF IsRight
  <2>3. filledSubtrees'[lvl] = IF ~ IsRight(n, lvl) THEN h[lvl] ELSE filledSubtrees[lvl]
    BY <1>1, <1>8
  <2>4. CASE IsRight(n, lvl)
    <3>1. Above(n)[lvl] % 2 = 1
      BY <2>4 DEF IsRight
    <3>2. Above(next)[lvl] = Above(n)[lvl]
      BY <2>1, <2>2, <3>1
    <3> QED
      BY <1>4, <2>3, <2>4, <3>2
  <2>5. CASE ~ IsRight(n, lvl)
    <3>1. Above(n)[lvl] % 2 # 1
      BY <2>5 DEF IsRight
    <3>2. Above(next)[lvl] - 1 = Above(n)[lvl]
      BY <2>1, <2>2, <3>1
    <3> QED
      BY <1>1, <1>6, <2>3, <2>5, <3>2
  <2> QED
    BY <2>4, <2>5
<1> QED
  BY <1>8, <1>9, <1>10

\* The tree of the pool grows by a pair.
LEMMA PairKeeps ==
  ASSUME TreeInv, NEW a \in Leaf, NEW b \in Leaf, insert_two_leaves(a, b)
  PROVE  TreeInv'
<1>1. /\ contract = "pool" /\ nextIndex % 2 = 0 /\ nextIndex + 2 <= max_leaves
      /\ Climb(1, hash_pair(a, b)) /\ nextIndex' = nextIndex + 2
      /\ leaves' = leaves \o <<a, b>> /\ contract' = contract
  BY DEF insert_two_leaves
<1>2. /\ nextIndex \in Nat /\ nextIndex \in 0..max_leaves /\ leaves \in Seq(Leaf) /\ Len(leaves) = nextIndex
      /\ nextIndex + 1 \in Nat /\ nextIndex + 2 \in Nat
  BY DEF TreeInv, TreeTypeOK
<1>3. /\ leaves' \in Seq(Leaf) /\ Len(leaves') = nextIndex + 2
      /\ \A k \in 1..nextIndex : leaves'[k] = leaves[k]
      /\ leaves'[nextIndex + 1] = a /\ leaves'[nextIndex + 2] = b
  <2>1. <<a, b>> \in Seq(Leaf) /\ Len(<<a, b>>) = 2
    OBVIOUS
  <2>2. leaves' \in Seq(Leaf) /\ Len(leaves') = nextIndex + 2
    BY <1>1, <1>2, <2>1
  <2>3. \A k \in 1..(nextIndex + 2) :
          leaves'[k] = IF k <= nextIndex THEN leaves[k] ELSE <<a, b>>[k - nextIndex]
    <3>1. PICK pair \in Seq(Leaf) : pair = <<a, b>>
      BY <2>1
    <3>2. PICK ms : ms = leaves'
      OBVIOUS
    <3>3. ms = leaves \o pair /\ Len(pair) = 2
      BY <1>1, <2>1, <3>1, <3>2
    <3>4. \A k \in 1..(Len(leaves) + Len(pair)) :
            (leaves \o pair)[k] = IF k <= Len(leaves) THEN leaves[k] ELSE pair[k - Len(leaves)]
      BY <1>2, ConcatProperties
    <3> QED
      BY <1>2, <3>1, <3>2, <3>3, <3>4
  <2>4. \A k \in 1..nextIndex : k \in 1..(nextIndex + 2) /\ k <= nextIndex
    BY <1>2
  <2>5. /\ nextIndex + 1 \in 1..(nextIndex + 2) /\ ~ (nextIndex + 1 <= nextIndex)
        /\ (nextIndex + 1) - nextIndex = 1
        /\ nextIndex + 2 \in 1..(nextIndex + 2) /\ ~ (nextIndex + 2 <= nextIndex)
        /\ (nextIndex + 2) - nextIndex = 2
    BY <1>2
  <2> QED
    BY <2>2, <2>3, <2>4, <2>5
<1> DEFINE n == nextIndex
           ls == leaves'
<1>4. PICK q \in Nat : q = n \div 2
  BY <1>2
<1>5. /\ n = 2 * q /\ n \div 2 = q /\ (n + 1) \div 2 = q /\ (n + 2) \div 2 = q + 1
      /\ (n + 2) % 2 = 0
  BY <1>1, <1>2, <1>4
<1>6. 0 \in 0..(Levels - 1) /\ 0 + 1 = 1 /\ 1 \in 0..Levels
  BY LevelFacts
<1>7. Above(n)[1] = q /\ Above(n + 1)[1] = q /\ Above(n + 2)[1] = q + 1
  <2>1. \A m : Above(m)[1] = m \div 2
    BY <1>6, AboveUnfold
  <2> QED
    BY <1>5, <2>1
<1>8. hash_pair(a, b) = Nodes(ls)[1][Above(n)[1]]
  <2>1. Nodes(ls)[0 + 1][q] = hash_pair(Nodes(ls)[0][2 * q], Nodes(ls)[0][2 * q + 1])
    BY <1>6, NodeAbove
  <2>2. Bottom(ls)[n] = a /\ Bottom(ls)[n + 1] = b
    <3>1. n < Len(ls) /\ n + 1 < Len(ls) /\ (n + 1) + 1 = n + 2
      BY <1>2, <1>3
    <3> QED
      BY <1>2, <1>3, <3>1 DEF Bottom
  <2>3. Nodes(ls)[0] = Bottom(ls)
    BY NodesUnfold
  <2>4. 2 * q = n /\ 2 * q + 1 = n + 1
    BY <1>5
  <2> QED
    BY <1>6, <1>7, <2>1, <2>2, <2>3, <2>4
<1>9. \A k \in n..((n + 2) - 1) : Above(k)[1] = Above(n)[1]
  <2>1. \A k \in n..((n + 2) - 1) : k = n \/ k = n + 1
    BY <1>2
  <2> QED
    BY <1>7, <2>1
<1>10. n < max_leaves /\ n < n + 2
  <2>1. max_leaves \in Int
    BY MaxIsInt
  <2> QED
    BY <1>1, <1>2, <2>1
<1>11. /\ treeRoot' = Nodes(ls)[Levels][0] /\ DOMAIN filledSubtrees' = 0..Levels
       /\ \A lvl \in 1..(Levels - 1) : IsRight(n + 2, lvl) =>
            filledSubtrees'[lvl] = Nodes(ls)[lvl][Above(n + 2)[lvl] - 1]
  <2>1. Above(n + 2)[1] = Above(n)[1] + 1
    BY <1>7
  <2>2. PICK from \in 0..Levels : from = 1
    BY <1>6
  <2>3. /\ hash_pair(a, b) = Nodes(ls)[from][Above(n)[from]]
        /\ \A k \in n..((n + 2) - 1) : Above(k)[from] = Above(n)[from]
        /\ Above(n + 2)[from] = Above(n)[from] + 1
        /\ Climb(from, hash_pair(a, b))
    BY <1>1, <1>8, <1>9, <2>1, <2>2
  <2> HIDE DEF ls
  <2>4. Len(ls) = n + 2 /\ \A k \in 1..n : ls[k] = leaves[k]
    BY <1>3 DEF ls
  <2>5. /\ treeRoot' = Nodes(ls)[Levels][0] /\ DOMAIN filledSubtrees' = 0..Levels
        /\ \A lvl \in from..(Levels - 1) : IsRight(n + 2, lvl) =>
             filledSubtrees'[lvl] = Nodes(ls)[lvl][Above(n + 2)[lvl] - 1]
    BY <1>2, <1>10, <2>3, <2>4, ClimbKeeps
  <2> QED
    BY <2>2, <2>5
<1>12. FilledOK'
  <2>1. ASSUME NEW lvl \in 0..(Levels - 1), IsRight(n + 2, lvl)
        PROVE  filledSubtrees'[lvl] = Nodes(ls)[lvl][Above(n + 2)[lvl] - 1]
    <3>1. lvl # 0
      BY <1>5, <2>1, AboveUnfold DEF IsRight
    <3>2. lvl \in 1..(Levels - 1)
      BY <3>1
    <3> QED
      BY <1>11, <2>1, <3>2
  <2>2. PICK m : m = n + 2
    OBVIOUS
  <2>3. nextIndex' = m
    BY <1>1, <2>2
  <2>4. \A lvl \in 0..(Levels - 1) : IsRight(m, lvl) =>
          filledSubtrees'[lvl] = Nodes(leaves')[lvl][Above(m)[lvl] - 1]
    BY <2>1, <2>2
  <2> QED
    BY <2>3, <2>4 DEF FilledOK
<1>13. TreeTypeOK'
  <2>1. max_leaves \in Int
    BY MaxIsInt
  <2>2. nextIndex + 2 \in 0..max_leaves
    BY <1>1, <1>2, <2>1
  <2> QED
    BY <1>1, <1>3, <1>11, <2>2 DEF TreeTypeOK
<1>14. PairsOK'
  BY <1>1, <1>5 DEF PairsOK
<1> QED
  BY <1>11, <1>12, <1>13, <1>14 DEF TreeInv

\* The tree of the ASP membership contract grows by one leaf.
LEMMA LeafKeeps ==
  ASSUME TreeInv, NEW a \in Leaf, insert_member_leaf(a)
  PROVE  TreeInv'
<1>1. /\ contract = "asp-membership" /\ nextIndex < max_leaves
      /\ Climb(0, a) /\ nextIndex' = nextIndex + 1
      /\ leaves' = Append(leaves, a) /\ contract' = contract
  BY DEF insert_member_leaf
<1>2. /\ nextIndex \in Nat /\ nextIndex \in 0..max_leaves /\ leaves \in Seq(Leaf) /\ Len(leaves) = nextIndex
      /\ nextIndex + 1 \in Nat
  BY DEF TreeInv, TreeTypeOK
<1>3. /\ leaves' \in Seq(Leaf) /\ Len(leaves') = nextIndex + 1
      /\ \A k \in 1..nextIndex : leaves'[k] = leaves[k]
      /\ leaves'[nextIndex + 1] = a
  BY <1>1, <1>2
<1> DEFINE n == nextIndex
           ls == leaves'
<1>4. Above(n)[0] = n /\ Above(n + 1)[0] = n + 1
  BY AboveUnfold
<1>5. a = Nodes(ls)[0][Above(n)[0]]
  <2>1. Bottom(ls)[n] = a
    <3>1. n < Len(ls)
      BY <1>2, <1>3
    <3> QED
      BY <1>2, <1>3, <3>1 DEF Bottom
  <2>2. Nodes(ls)[0] = Bottom(ls)
    BY NodesUnfold
  <2> QED
    BY <1>4, <2>1, <2>2
<1>6. \A k \in n..((n + 1) - 1) : Above(k)[0] = Above(n)[0]
  <2>1. \A k \in n..((n + 1) - 1) : k = n
    BY <1>2
  <2> QED
    BY <2>1
<1>7. /\ treeRoot' = Nodes(ls)[Levels][0] /\ DOMAIN filledSubtrees' = 0..Levels
      /\ \A lvl \in 0..(Levels - 1) : IsRight(n + 1, lvl) =>
           filledSubtrees'[lvl] = Nodes(ls)[lvl][Above(n + 1)[lvl] - 1]
  <2>1. PICK from \in 0..Levels : from = 0
    BY LevelFacts
  <2>2. /\ a = Nodes(ls)[from][Above(n)[from]]
        /\ \A k \in n..((n + 1) - 1) : Above(k)[from] = Above(n)[from]
        /\ Above(n + 1)[from] = Above(n)[from] + 1
        /\ Climb(from, a)
    BY <1>1, <1>4, <1>5, <1>6, <2>1
  <2> HIDE DEF ls
  <2>3. Len(ls) = n + 1 /\ n < n + 1 /\ \A k \in 1..n : ls[k] = leaves[k]
    BY <1>2, <1>3 DEF ls
  <2>4. /\ treeRoot' = Nodes(ls)[Levels][0] /\ DOMAIN filledSubtrees' = 0..Levels
        /\ \A lvl \in from..(Levels - 1) : IsRight(n + 1, lvl) =>
             filledSubtrees'[lvl] = Nodes(ls)[lvl][Above(n + 1)[lvl] - 1]
    BY <1>1, <1>2, <2>2, <2>3, ClimbKeeps
  <2> QED
    BY <2>1, <2>4
<1>8. FilledOK'
  <2>1. PICK m : m = n + 1
    OBVIOUS
  <2>2. nextIndex' = m
    BY <1>1, <2>1
  <2>3. \A lvl \in 0..(Levels - 1) : IsRight(m, lvl) =>
          filledSubtrees'[lvl] = Nodes(leaves')[lvl][Above(m)[lvl] - 1]
    BY <1>7, <2>1
  <2> QED
    BY <2>2, <2>3 DEF FilledOK
<1>9. TreeTypeOK'
  <2>1. max_leaves \in Int
    BY MaxIsInt
  <2>2. nextIndex + 1 \in 0..max_leaves
    BY <1>1, <1>2, <2>1
  <2> QED
    BY <1>1, <1>3, <1>7, <2>2 DEF TreeTypeOK
<1>10. PairsOK'
  BY <1>1 DEF PairsOK
<1> QED
  BY <1>7, <1>8, <1>9, <1>10 DEF TreeInv

\* An empty tree satisfies the invariant.
LEMMA EmptyTree ==
  ASSUME TreeInit
  PROVE  TreeInv
<1>1. /\ filledSubtrees = Zeroes /\ nextIndex = 0 /\ treeRoot = Zeroes[Levels] /\ leaves = <<>>
  BY DEF TreeInit
<1>2. TreeTypeOK
  <2>1. 0 \in 0..max_leaves
    BY MaxIsInt
  <2> QED
    BY <1>1, <2>1, ZeroesUnfold DEF TreeTypeOK
<1>3. FilledOK
  <2> DEFINE T == {lvl \in 0..Levels : Above(0)[lvl] = 0}
  <2>1. 0 \in T
    BY AboveUnfold, LevelFacts
  <2>2. ASSUME NEW lvl \in 0..(Levels - 1), lvl \in T PROVE lvl + 1 \in T
    BY <2>2, AboveUnfold, LevelFacts
  <2>3. \A lvl \in 0..Levels : lvl \in T
    <3> HIDE DEF T
    <3> QED
      BY <2>1, <2>2, Upwards
  <2>4. ASSUME NEW lvl \in 0..(Levels - 1) PROVE ~ IsRight(0, lvl)
    BY <2>3, LevelFacts DEF IsRight
  <2> QED
    BY <1>1, <2>4 DEF FilledOK
<1>4. treeRoot = Nodes(leaves)[Levels][0]
  <2>1. \A k \in Nat : ~ (k < Len(leaves))
    BY <1>1
  <2>2. Levels \in 0..Levels /\ 0 \in Nat
    BY LevelFacts
  <2>3. Nodes(leaves)[Levels][0] = Zeroes[Levels]
    BY <2>1, <2>2, EmptyNodes
  <2> QED
    BY <1>1, <2>3
<1>5. PairsOK
  BY <1>1 DEF PairsOK
<1> QED
  BY <1>2, <1>3, <1>4, <1>5 DEF TreeInv

\* For every depth: a contract's tree holds the root of the complete tree over
\* its leaves, and on every level the left sibling that the next leaf needs.
THEOREM TreeInvariant == TreeSpec => []TreeInv
<1>1. TreeInit => TreeInv
  BY EmptyTree
<1>2. TreeInv /\ [TreeNext]_treeVars => TreeInv'
  <2> SUFFICES ASSUME TreeInv, [TreeNext]_treeVars PROVE TreeInv'
    OBVIOUS
  <2>1. ASSUME NEW a \in Leaf, NEW b \in Leaf, insert_two_leaves(a, b) PROVE TreeInv'
    BY <2>1, PairKeeps
  <2>2. ASSUME NEW a \in Leaf, insert_member_leaf(a) PROVE TreeInv'
    BY <2>2, LeafKeeps
  <2>3. CASE UNCHANGED treeVars
    BY <2>3 DEF treeVars, TreeInv, TreeTypeOK, FilledOK, PairsOK
  <2> QED
    BY <2>1, <2>2, <2>3 DEF TreeNext
<1> QED
  BY <1>1, <1>2, PTL DEF TreeSpec

\* Every variable keeps its type: in particular no insertion ever passes the last
\* leaf the tree has room for.
THEOREM TreeTypes == TreeSpec => []TreeTypeOK
<1>1. TreeInv => TreeTypeOK
  BY DEF TreeInv
<1> QED
  BY <1>1, TreeInvariant, PTL

-----------------------------------------------------------------------------
(* The tree of the client and the path of the circuit.                     *)

\* A node of a level that is kept up to its last node that is not empty.
Filled(level, empty, i) == IF i < Len(level) THEN level[i + 1] ELSE empty

\* A level of the client's tree holds the nodes of the complete tree.
HoldsNodes(level, ls, lvl) ==
  /\ Len(level) \in Nat /\ Len(level) >= 1
  /\ \A i \in Nat : Filled(level, Zeroes[lvl], i) = Nodes(ls)[lvl][i]

\* The row above a level that holds its nodes holds its own.
LEMMA RowHolds ==
  ASSUME NEW ls, NEW lvl \in 0..(Levels - 1), NEW below, HoldsNodes(below, ls, lvl)
  PROVE  HoldsNodes(Row(below, Zeroes[lvl]), ls, lvl + 1)
<1> DEFINE row == Row(below, Zeroes[lvl])
           Lower(i) == Filled(below, Zeroes[lvl], i)
<1>1. PICK len \in Nat : len = Len(below)
  BY DEF HoldsNodes
<1>2. PICK half \in Nat : half = (len + 1) \div 2
  OBVIOUS
<1>3. len >= 1 /\ half >= 1 /\ \A i \in Nat : ~ (i < half) => ~ (2 * i < len) /\ ~ (2 * i + 1 < len)
  BY <1>1, <1>2 DEF HoldsNodes
<1>4. row = [k \in 1..half |-> hash_pair(Lower(2 * k - 2), Lower(2 * k - 1))]
  BY <1>1, <1>2 DEF Row, Filled
<1>5. \A i \in Nat : Lower(i) = Nodes(ls)[lvl][i] /\ (~ (i < len) => Lower(i) = Zeroes[lvl])
  BY <1>1 DEF HoldsNodes, Filled
<1> HIDE DEF row, Lower
<1>6. Len(row) = half
  BY <1>4
<1>7. ASSUME NEW i \in Nat
      PROVE  Filled(row, Zeroes[lvl + 1], i) = Nodes(ls)[lvl + 1][i]
  <2>1. 2 * i \in Nat /\ 2 * i + 1 \in Nat
    OBVIOUS
  <2>2. Nodes(ls)[lvl + 1][i] = hash_pair(Lower(2 * i), Lower(2 * i + 1))
    BY <1>5, <2>1, NodeAbove
  <2>3. CASE i < half
    <3>1. i + 1 \in 1..half /\ 2 * (i + 1) - 2 = 2 * i /\ 2 * (i + 1) - 1 = 2 * i + 1
      BY <2>3
    <3>2. row[i + 1] = hash_pair(Lower(2 * i), Lower(2 * i + 1))
      BY <1>4, <3>1
    <3> QED
      BY <1>6, <2>2, <2>3, <3>2 DEF Filled
  <2>4. CASE ~ (i < half)
    <3>1. Lower(2 * i) = Zeroes[lvl] /\ Lower(2 * i + 1) = Zeroes[lvl]
      BY <1>3, <1>5, <2>1, <2>4
    <3> QED
      BY <1>6, <2>2, <2>4, <3>1, ZeroesUnfold DEF Filled
  <2> QED
    BY <2>3, <2>4
<1> QED
  BY <1>3, <1>6, <1>7 DEF HoldsNodes, row

\* Every level of the client's tree holds the nodes of the complete tree.
LEMMA BuiltHolds ==
  ASSUME NEW S, NEW ls \in Seq(S)
  PROVE  \A lvl \in 0..Levels : HoldsNodes(BuiltLevels(ls)[lvl], ls, lvl)
<1> DEFINE T == {lvl \in 0..Levels : HoldsNodes(BuiltLevels(ls)[lvl], ls, lvl)}
<1>1. 0 \in T
  <2>1. Len(ls) \in Nat
    OBVIOUS
  <2>2. Nodes(ls)[0] = Bottom(ls) /\ Zeroes[0] = ZeroLeaf
    BY NodesUnfold, ZeroesUnfold
  <2>3. CASE ls = <<>>
    <3>1. BuiltLevels(ls)[0] = <<ZeroLeaf>> /\ Len(<<ZeroLeaf>>) = 1 /\ Len(ls) = 0
      BY <2>2, <2>3, BuiltUnfold
    <3>2. ASSUME NEW i \in Nat PROVE Filled(<<ZeroLeaf>>, ZeroLeaf, i) = Bottom(ls)[i]
      <4>1. Bottom(ls)[i] = ZeroLeaf
        BY <3>1 DEF Bottom
      <4>2. i < 1 => <<ZeroLeaf>>[i + 1] = ZeroLeaf
        OBVIOUS
      <4> QED
        BY <3>1, <4>1, <4>2 DEF Filled
    <3>3. PICK level : level = <<ZeroLeaf>>
      OBVIOUS
    <3>4. HoldsNodes(level, ls, 0)
      <4>1. Len(level) = 1 /\ \A i \in Nat : Filled(level, ZeroLeaf, i) = Bottom(ls)[i]
        BY <3>1, <3>2, <3>3
      <4> QED
        BY <2>2, <4>1 DEF HoldsNodes
    <3> QED
      BY <3>1, <3>3, <3>4, LevelFacts
  <2>4. CASE ls # <<>>
    <3>1. BuiltLevels(ls)[0] = ls /\ Len(ls) >= 1
      BY <2>4, BuiltUnfold
    <3>2. ASSUME NEW i \in Nat PROVE Filled(ls, ZeroLeaf, i) = Bottom(ls)[i]
      BY DEF Filled, Bottom
    <3> QED
      BY <2>1, <2>2, <3>1, <3>2, LevelFacts DEF HoldsNodes
  <2> QED
    BY <2>3, <2>4
<1>2. ASSUME NEW lvl \in 0..(Levels - 1), lvl \in T PROVE lvl + 1 \in T
  <2>1. HoldsNodes(BuiltLevels(ls)[lvl], ls, lvl)
    BY <1>2
  <2>2. HoldsNodes(Row(BuiltLevels(ls)[lvl], Zeroes[lvl]), ls, lvl + 1)
    BY <2>1, RowHolds
  <2> QED
    BY <2>2, BuiltUnfold, LevelFacts
<1> HIDE DEF T
<1>3. \A lvl \in 0..Levels : lvl \in T
  BY <1>1, <1>2, Upwards
<1> QED
  BY <1>3 DEF T

\* The client's root is the root of the complete tree.
LEMMA BuiltRoot ==
  ASSUME NEW S, NEW ls \in Seq(S)
  PROVE  built_root(ls) = Nodes(ls)[Levels][0]
<1> DEFINE top == BuiltLevels(ls)[Levels]
<1>1. HoldsNodes(top, ls, Levels)
  BY BuiltHolds, LevelFacts
<1> HIDE DEF top
<1>2. Len(top) \in Nat /\ 0 < Len(top) /\ 0 + 1 = 1 /\ 0 \in Nat
  BY <1>1 DEF HoldsNodes
<1>3. top[1] = Nodes(ls)[Levels][0]
  <2>1. Filled(top, Zeroes[Levels], 0) = Nodes(ls)[Levels][0]
    BY <1>1, <1>2 DEF HoldsNodes
  <2> QED
    BY <1>2, <2>1 DEF Filled
<1> QED
  BY <1>3 DEF built_root, top

\* The path the client hands to the circuit leads to the root of the complete tree.
LEMMA PathAccepted ==
  ASSUME NEW S, NEW ls \in Seq(S), NEW k \in 1..Len(ls), Len(ls) <= max_leaves
  PROVE  CircuitRoot(ls[k], path_elements(ls, k - 1), k - 1) = Nodes(ls)[Levels][0]
<1> DEFINE elements == path_elements(ls, k - 1)
<1>1. PICK index \in Nat : index = k - 1 /\ k = index + 1 /\ index < Len(ls)
  OBVIOUS
<1>2. index < max_leaves
  BY <1>1, MaxIsInt
<1>3. ASSUME NEW lvl \in 0..(Levels - 1)
      PROVE  elements[lvl] = Nodes(ls)[lvl][Sibling(Above(index)[lvl])]
  <2>1. lvl \in 0..Levels /\ HoldsNodes(BuiltLevels(ls)[lvl], ls, lvl)
    BY BuiltHolds, LevelFacts
  <2>2. PICK pos \in Nat : pos = Above(index)[lvl]
    BY <2>1, AboveNat
  <2>3. PICK sib \in Nat : sib = Sibling(pos)
    BY DEF Sibling
  <2>4. PICK level : level = BuiltLevels(ls)[lvl]
    OBVIOUS
  <2>5. elements[lvl] = Filled(level, Zeroes[lvl], sib)
    <3>1. elements[lvl] = IF Sibling(Above(index)[lvl]) < Len(BuiltLevels(ls)[lvl])
                          THEN BuiltLevels(ls)[lvl][Sibling(Above(index)[lvl]) + 1] ELSE Zeroes[lvl]
      BY <1>1 DEF path_elements, Sibling
    <3> QED
      BY <2>2, <2>3, <2>4, <3>1 DEF Filled
  <2> HIDE DEF elements
  <2>6. Filled(level, Zeroes[lvl], sib) = Nodes(ls)[lvl][sib]
    BY <2>1, <2>4 DEF HoldsNodes
  <2> QED
    BY <2>2, <2>3, <2>5, <2>6
<1>4. PICK siblings : siblings = elements
  OBVIOUS
<1>5. AreSiblings(ls, index, 0, siblings)
  BY <1>3, <1>4 DEF AreSiblings
<1>6. PICK leaf : leaf = ls[k]
  OBVIOUS
<1>7. leaf = Nodes(ls)[0][Above(index)[0]]
  <2>1. Above(index)[0] = index /\ Nodes(ls)[0] = Bottom(ls)
    BY AboveUnfold, NodesUnfold
  <2>2. Bottom(ls)[index] = ls[index + 1]
    BY <1>1 DEF Bottom
  <2> QED
    BY <1>1, <1>6, <2>1, <2>2
<1>8. 0 \in 0..Levels /\ Levels \in 0..Levels
  BY LevelFacts
<1>9. AreNodes(ls, index, 0, HashesUp(0, leaf, siblings, index))
  BY <1>5, <1>7, <1>8, HashesAreNodes, Zenon
<1>10. HashesUp(0, leaf, siblings, index)[Levels] = Nodes(ls)[Levels][Above(index)[Levels]]
  BY <1>8, <1>9 DEF AreNodes
<1>11. Above(index)[Levels] = 0
  BY <1>2, AboveRoot
<1> HIDE DEF elements
<1>12. CircuitRoot(ls[k], elements, k - 1) = HashesUp(0, leaf, siblings, index)[Levels]
  BY <1>1, <1>4, <1>6 DEF CircuitRoot
<1> QED
  BY <1>10, <1>11, <1>12 DEF elements

\* The contract, the client and the circuit always agree, for every depth: the
\* contract's root is that of the complete tree over its leaves, a client that
\* has indexed them computes it too, and for every leaf a path the circuit accepts.
THEOREM TreesAlwaysMatch == TreeSpec => []TreesAgree
<1>1. ASSUME TreeInv PROVE TreesAgree
  <2>1. leaves \in Seq(Leaf) /\ Len(leaves) <= max_leaves /\ treeRoot = Nodes(leaves)[Levels][0]
    BY <1>1, MaxIsInt DEF TreeInv, TreeTypeOK
  <2>2. ReferenceRoot(leaves) = Nodes(leaves)[Levels][0]
    BY DEF ReferenceRoot, Nodes, Bottom, Parents
  <2>3. built_root(leaves) = treeRoot
    BY <2>1, BuiltRoot
  <2>4. \A k \in 1..Len(leaves) : CircuitRoot(leaves[k], path_elements(leaves, k - 1), k - 1) = treeRoot
    BY <2>1, PathAccepted
  <2>5. DOMAIN leaves = 1..Len(leaves)
    BY <2>1
  <2> QED
    BY <2>1, <2>2, <2>3, <2>4, <2>5 DEF TreesAgree, RootIsReference, ClientAgrees
<1>2. TreeInv => TreesAgree
  BY <1>1
<1> QED
  BY <1>2, TreeInvariant, PTL

-----------------------------------------------------------------------------
(* The sparse tree: what its recursive functions compute.                  *)

\* Induction up to a number: a set that has 0, and the next after each number below n
\* that it has, has them all.
LEMMA Induct ==
  ASSUME NEW n \in Nat, NEW T, 0 \in T, \A k \in 0..(n - 1) : k \in T => k + 1 \in T
  PROVE  \A k \in 0..n : k \in T
<1> DEFINE U == {k \in 0..n : k \notin T}
<1> SUFFICES ASSUME U # {} PROVE FALSE
  OBVIOUS
<1>1. U \subseteq Nat
  OBVIOUS
<1>2. PICK m \in U : \A y \in U : m <= y
  BY <1>1, Least
<1>3. m # 0
  BY <1>2
<1>4. m - 1 \in 0..(n - 1) /\ m - 1 \in 0..n /\ (m - 1) + 1 = m
  BY <1>2, <1>3
<1>5. m - 1 \notin U
  BY <1>2, <1>4
<1> QED
  BY <1>2, <1>4, <1>5

\* The levels of the sparse tree.
LEMMA BitLevels ==
  /\ KeyBits \in Nat /\ KeyBits >= 1 /\ 0 \in 0..KeyBits /\ KeyBits \in 0..KeyBits
  /\ \A lvl \in 0..(KeyBits - 1) :
       lvl \in 0..KeyBits /\ lvl + 1 \in 0..KeyBits /\ lvl + 1 # 0 /\ (lvl + 1) - 1 = lvl
BY SmtAssumption

\* A key after up to n divisions.
HalvedTo(g, n, key) ==
  g = [i \in 0..n |-> IF i = 0 THEN key ELSE g[i - 1] \div 2]

\* Every division takes half of the last.
LEMMA HalvedUnfold ==
  ASSUME NEW key
  PROVE  /\ halved(key)[0] = key
         /\ \A i \in 0..(KeyBits - 1) : halved(key)[i + 1] = halved(key)[i] \div 2
<1> DEFINE T == {m \in 0..KeyBits : \E g : HalvedTo(g, m, key)}
<1>1. 0 \in T
  <2>1. HalvedTo([i \in 0..0 |-> key], 0, key)
    BY DEF HalvedTo
  <2> QED
    BY <2>1, BitLevels
<1>2. ASSUME NEW lvl \in 0..(KeyBits - 1), lvl \in T PROVE lvl + 1 \in T
  <2>1. PICK g : HalvedTo(g, lvl, key)
    BY <1>2
  <2>2. PICK new : new = g[lvl] \div 2
    OBVIOUS
  <2> DEFINE h == [i \in 0..(lvl + 1) |-> IF i = lvl + 1 THEN new ELSE g[i]]
  <2>3. ASSUME NEW i \in 0..(lvl + 1)
        PROVE  h[i] = IF i = 0 THEN key ELSE h[i - 1] \div 2
    <3>1. CASE i = lvl + 1
      <4>1. h[i] = new /\ i # 0 /\ i - 1 = lvl /\ h[lvl] = g[lvl]
        BY <3>1
      <4> HIDE DEF h
      <4> QED
        BY <2>2, <4>1
    <3>2. CASE i # lvl + 1
      <4>1. i \in 0..lvl /\ h[i] = g[i]
        BY <3>2
      <4>2. i # 0 => h[i - 1] = g[i - 1]
        BY <3>2
      <4>3. g[i] = IF i = 0 THEN key ELSE g[i - 1] \div 2
        BY <2>1, <4>1 DEF HalvedTo
      <4> HIDE DEF h
      <4> QED
        BY <4>1, <4>2, <4>3
    <3> QED
      BY <3>1, <3>2
  <2>4. HalvedTo(h, lvl + 1, key)
    <3>1. h = [i \in 0..(lvl + 1) |-> h[i]]
      OBVIOUS
    <3> HIDE DEF h
    <3> QED
      BY <2>3, <3>1, Zenon DEF HalvedTo
  <2> QED
    BY <2>4, BitLevels
<1>3. KeyBits \in T
  <2> HIDE DEF T
  <2> QED
    BY <1>1, <1>2, Induct, BitLevels
<1> DEFINE f == halved(key)
<1>4. \E g : g = [i \in 0..KeyBits |-> IF i = 0 THEN key ELSE g[i - 1] \div 2]
  BY <1>3 DEF HalvedTo
<1>5. f = [i \in 0..KeyBits |-> IF i = 0 THEN key ELSE f[i - 1] \div 2]
  BY <1>4, Zenon DEF halved
<1> HIDE DEF f
<1>6. /\ f[0] = key
      /\ \A i \in 0..(KeyBits - 1) : f[i + 1] = f[i] \div 2
  <2>1. f[0] = key
    BY <1>5, BitLevels
  <2>2. ASSUME NEW i \in 0..(KeyBits - 1) PROVE f[i + 1] = f[i] \div 2
    <3>1. i + 1 \in 0..KeyBits /\ i + 1 # 0 /\ (i + 1) - 1 = i
      BY BitLevels
    <3>2. f[i + 1] = IF (i + 1) = 0 THEN key ELSE f[(i + 1) - 1] \div 2
      BY <1>5, <3>1, Zenon
    <3> QED
      BY <3>1, <3>2
  <2> QED
    BY <2>1, <2>2
<1> QED
  BY <1>6 DEF f

\* The hashes down to level n.
DescentTo(g, n, top, store, key) ==
  g = [i \in 0..n |-> IF i = 0 THEN top
                  ELSE IF Inner(g[i - 1], store) THEN Child(g[i - 1], split_bits(key, i - 1)) ELSE Zero]

\* Every step down goes from an internal node to one of its children.
LEMMA DescentUnfold ==
  ASSUME NEW top, NEW store, NEW key
  PROVE  /\ Descent(top, store, key)[0] = top
         /\ \A i \in 0..(KeyBits - 1) : Descent(top, store, key)[i + 1] = IF Inner(Descent(top, store, key)[i], store) THEN Child(Descent(top, store, key)[i], split_bits(key, i)) ELSE Zero
<1> DEFINE T == {m \in 0..KeyBits : \E g : DescentTo(g, m, top, store, key)}
<1>1. 0 \in T
  <2>1. DescentTo([i \in 0..0 |-> top], 0, top, store, key)
    BY DEF DescentTo
  <2> QED
    BY <2>1, BitLevels
<1>2. ASSUME NEW lvl \in 0..(KeyBits - 1), lvl \in T PROVE lvl + 1 \in T
  <2>1. PICK g : DescentTo(g, lvl, top, store, key)
    BY <1>2
  <2>2. PICK new : new = IF Inner(g[lvl], store) THEN Child(g[lvl], split_bits(key, lvl)) ELSE Zero
    OBVIOUS
  <2> DEFINE h == [i \in 0..(lvl + 1) |-> IF i = lvl + 1 THEN new ELSE g[i]]
  <2>3. ASSUME NEW i \in 0..(lvl + 1)
        PROVE  h[i] = IF i = 0 THEN top
                  ELSE IF Inner(h[i - 1], store) THEN Child(h[i - 1], split_bits(key, i - 1)) ELSE Zero
    <3>1. CASE i = lvl + 1
      <4>1. h[i] = new /\ i # 0 /\ i - 1 = lvl /\ h[lvl] = g[lvl]
        BY <3>1
      <4> HIDE DEF h
      <4> QED
        BY <2>2, <4>1
    <3>2. CASE i # lvl + 1
      <4>1. i \in 0..lvl /\ h[i] = g[i]
        BY <3>2
      <4>2. i # 0 => h[i - 1] = g[i - 1]
        BY <3>2
      <4>3. g[i] = IF i = 0 THEN top
                  ELSE IF Inner(g[i - 1], store) THEN Child(g[i - 1], split_bits(key, i - 1)) ELSE Zero
        BY <2>1, <4>1 DEF DescentTo
      <4> HIDE DEF h
      <4> QED
        BY <4>1, <4>2, <4>3
    <3> QED
      BY <3>1, <3>2
  <2>4. DescentTo(h, lvl + 1, top, store, key)
    <3>1. h = [i \in 0..(lvl + 1) |-> h[i]]
      OBVIOUS
    <3> HIDE DEF h
    <3> QED
      BY <2>3, <3>1, Zenon DEF DescentTo
  <2> QED
    BY <2>4, BitLevels
<1>3. KeyBits \in T
  <2> HIDE DEF T
  <2> QED
    BY <1>1, <1>2, Induct, BitLevels
<1> DEFINE f == Descent(top, store, key)
<1>4. \E g : g = [i \in 0..KeyBits |-> IF i = 0 THEN top
                  ELSE IF Inner(g[i - 1], store) THEN Child(g[i - 1], split_bits(key, i - 1)) ELSE Zero]
  BY <1>3 DEF DescentTo
<1>5. f = [i \in 0..KeyBits |-> IF i = 0 THEN top
                  ELSE IF Inner(f[i - 1], store) THEN Child(f[i - 1], split_bits(key, i - 1)) ELSE Zero]
  BY <1>4, Zenon DEF Descent
<1> HIDE DEF f
<1>6. /\ f[0] = top
      /\ \A i \in 0..(KeyBits - 1) : f[i + 1] = IF Inner(f[i], store) THEN Child(f[i], split_bits(key, i)) ELSE Zero
  <2>1. f[0] = top
    BY <1>5, BitLevels
  <2>2. ASSUME NEW i \in 0..(KeyBits - 1) PROVE f[i + 1] = IF Inner(f[i], store) THEN Child(f[i], split_bits(key, i)) ELSE Zero
    <3>1. i + 1 \in 0..KeyBits /\ i + 1 # 0 /\ (i + 1) - 1 = i
      BY BitLevels
    <3>2. f[i + 1] = IF (i + 1) = 0 THEN top
                  ELSE IF Inner(f[(i + 1) - 1], store) THEN Child(f[(i + 1) - 1], split_bits(key, (i + 1) - 1)) ELSE Zero
      BY <1>5, <3>1, Zenon
    <3> QED
      BY <3>1, <3>2
  <2> QED
    BY <2>1, <2>2
<1> QED
  BY <1>6 DEF f

\* The hashes of the m lowest levels of a path of n.
PathTo(g, m, n, key, siblings, joined, end) ==
  g = [i \in (n + 1 - m)..(n + 1) |-> IF i = n + 1 THEN end ELSE IF i \in joined THEN Join(key, i - 1, g[i + 1], siblings[i]) ELSE g[i + 1]]

\* Every step up joins a hash with its sibling, or passes it on.
LEMMA RehashedUnfold ==
  ASSUME NEW key, NEW siblings, NEW joined, NEW end, Len(siblings) \in Nat
  PROVE  LET up == Rehashed(key, siblings, joined, end)
             n  == Len(siblings)
         IN  /\ DOMAIN up = 1..(n + 1)
             /\ up[n + 1] = end
             /\ \A i \in 1..n :
                  up[i] = IF i \in joined THEN Join(key, i - 1, up[i + 1], siblings[i]) ELSE up[i + 1]
<1> DEFINE n == Len(siblings)
           T == {m \in 0..n : \E g : PathTo(g, m, n, key, siblings, joined, end)}
<1> n \in Nat
  OBVIOUS
<1> HIDE DEF n
<1>1. 0 \in T
  <2>1. PathTo([i \in (n + 1)..(n + 1) |-> end], 0, n, key, siblings, joined, end)
    <3>1. n + 1 - 0 = n + 1 /\ \A i \in (n + 1)..(n + 1) : i = n + 1
      OBVIOUS
    <3> QED
      BY <3>1 DEF PathTo
  <2> QED
    BY <2>1
<1>2. ASSUME NEW m \in 0..(n - 1), m \in T PROVE m + 1 \in T
  <2>1. PICK g : PathTo(g, m, n, key, siblings, joined, end)
    BY <1>2
  <2>2. PICK k \in 1..n : k = n - m
    OBVIOUS
  <2>3. n + 1 - m = k + 1 /\ n + 1 - (m + 1) = k /\ k # n + 1 /\ k + 1 \in (k + 1)..(n + 1)
    BY <2>2
  <2>4. PICK new : new = IF k \in joined THEN Join(key, k - 1, g[k + 1], siblings[k]) ELSE g[k + 1]
    OBVIOUS
  <2> DEFINE h == [i \in k..(n + 1) |-> IF i = k THEN new ELSE g[i]]
  <2>5. ASSUME NEW i \in k..(n + 1)
        PROVE  h[i] = IF i = n + 1 THEN end ELSE IF i \in joined THEN Join(key, i - 1, h[i + 1], siblings[i]) ELSE h[i + 1]
    <3>1. CASE i = k
      <4>1. h[i] = new /\ i # n + 1 /\ h[i + 1] = g[k + 1]
        BY <2>3, <3>1
      <4> HIDE DEF h
      <4> QED
        BY <2>4, <3>1, <4>1
    <3>2. CASE i # k
      <4>1. i \in (k + 1)..(n + 1) /\ h[i] = g[i]
        BY <3>2
      <4>2. i # n + 1 => h[i + 1] = g[i + 1]
        BY <3>2
      <4>3. g[i] = IF i = n + 1 THEN end ELSE IF i \in joined THEN Join(key, i - 1, g[i + 1], siblings[i]) ELSE g[i + 1]
        BY <2>1, <2>3, <4>1 DEF PathTo
      <4> HIDE DEF h
      <4> QED
        BY <4>1, <4>2, <4>3
    <3> QED
      BY <3>1, <3>2
  <2>6. PathTo(h, m + 1, n, key, siblings, joined, end)
    <3>1. h = [i \in k..(n + 1) |-> h[i]]
      OBVIOUS
    <3> HIDE DEF h
    <3> QED
      BY <2>3, <2>5, <3>1, Zenon DEF PathTo
  <2>7. m + 1 \in 0..n
    OBVIOUS
  <2> QED
    BY <2>6, <2>7
<1>3. n \in T
  <2>1. n \in 0..n
    OBVIOUS
  <2> HIDE DEF T
  <2> QED
    BY <1>1, <1>2, <2>1, Induct
<1>4. \E g : g = [i \in 1..(n + 1) |-> IF i = n + 1 THEN end ELSE IF i \in joined THEN Join(key, i - 1, g[i + 1], siblings[i]) ELSE g[i + 1]]
  <2>1. n + 1 - n = 1
    OBVIOUS
  <2> QED
    BY <1>3, <2>1 DEF PathTo
<1> DEFINE f == Rehashed(key, siblings, joined, end)
<1>5. f = [i \in 1..(n + 1) |-> IF i = n + 1 THEN end ELSE IF i \in joined THEN Join(key, i - 1, f[i + 1], siblings[i]) ELSE f[i + 1]]
  BY <1>4, Zenon DEF Rehashed, n
<1>6. DOMAIN f = 1..(n + 1)
  BY <1>5
<1> HIDE DEF f
<1>7. f[n + 1] = end
  <2>1. n + 1 \in 1..(n + 1)
    OBVIOUS
  <2> QED
    BY <1>5, <2>1
<1>8. ASSUME NEW i \in 1..n PROVE f[i] = IF i \in joined THEN Join(key, i - 1, f[i + 1], siblings[i]) ELSE f[i + 1]
  <2>1. i \in 1..(n + 1) /\ i # n + 1
    OBVIOUS
  <2> QED
    BY <1>5, <2>1, Zenon
<1> QED
  BY <1>6, <1>7, <1>8 DEF f, n

\* The stores after the m lowest levels of n.
StoreTo(g, m, n, store, gone, added) ==
  g = [i \in (n + 1 - m)..(n + 1) |-> IF i = n + 1 THEN store ELSE (g[i + 1] \ gone[i]) \union added[i]]

\* The last store is reached level by level.
LEMMA RewrittenUnfold ==
  ASSUME NEW store, NEW gone, NEW added, Len(added) \in Nat
  PROVE  \E up :
           /\ up[Len(added) + 1] = store /\ Rewritten(store, gone, added) = up[1]
           /\ \A i \in 1..Len(added) : up[i] = (up[i + 1] \ gone[i]) \union added[i]
<1> DEFINE n == Len(added)
           T == {m \in 0..n : \E g : StoreTo(g, m, n, store, gone, added)}
<1> n \in Nat
  OBVIOUS
<1> HIDE DEF n
<1>1. 0 \in T
  <2>1. StoreTo([i \in (n + 1)..(n + 1) |-> store], 0, n, store, gone, added)
    <3>1. n + 1 - 0 = n + 1 /\ \A i \in (n + 1)..(n + 1) : i = n + 1
      OBVIOUS
    <3> QED
      BY <3>1 DEF StoreTo
  <2> QED
    BY <2>1
<1>2. ASSUME NEW m \in 0..(n - 1), m \in T PROVE m + 1 \in T
  <2>1. PICK g : StoreTo(g, m, n, store, gone, added)
    BY <1>2
  <2>2. PICK k \in 1..n : k = n - m
    OBVIOUS
  <2>3. n + 1 - m = k + 1 /\ n + 1 - (m + 1) = k /\ k # n + 1 /\ k + 1 \in (k + 1)..(n + 1)
    BY <2>2
  <2>4. PICK new : new = (g[k + 1] \ gone[k]) \union added[k]
    OBVIOUS
  <2> DEFINE h == [i \in k..(n + 1) |-> IF i = k THEN new ELSE g[i]]
  <2>5. ASSUME NEW i \in k..(n + 1)
        PROVE  h[i] = IF i = n + 1 THEN store ELSE (h[i + 1] \ gone[i]) \union added[i]
    <3>1. CASE i = k
      <4>1. h[i] = new /\ i # n + 1 /\ h[i + 1] = g[k + 1]
        BY <2>3, <3>1
      <4> HIDE DEF h
      <4> QED
        BY <2>4, <3>1, <4>1
    <3>2. CASE i # k
      <4>1. i \in (k + 1)..(n + 1) /\ h[i] = g[i]
        BY <3>2
      <4>2. i # n + 1 => h[i + 1] = g[i + 1]
        BY <3>2
      <4>3. g[i] = IF i = n + 1 THEN store ELSE (g[i + 1] \ gone[i]) \union added[i]
        BY <2>1, <2>3, <4>1 DEF StoreTo
      <4> HIDE DEF h
      <4> QED
        BY <4>1, <4>2, <4>3
    <3> QED
      BY <3>1, <3>2
  <2>6. StoreTo(h, m + 1, n, store, gone, added)
    <3>1. h = [i \in k..(n + 1) |-> h[i]]
      OBVIOUS
    <3> HIDE DEF h
    <3> QED
      BY <2>3, <2>5, <3>1, Zenon DEF StoreTo
  <2>7. m + 1 \in 0..n
    OBVIOUS
  <2> QED
    BY <2>6, <2>7
<1>3. n \in T
  <2>1. n \in 0..n
    OBVIOUS
  <2> HIDE DEF T
  <2> QED
    BY <1>1, <1>2, <2>1, Induct
<1>4. \E g : g = [i \in 1..(n + 1) |-> IF i = n + 1 THEN store ELSE (g[i + 1] \ gone[i]) \union added[i]]
  <2>1. n + 1 - n = 1
    OBVIOUS
  <2> QED
    BY <1>3, <2>1 DEF StoreTo
<1> DEFINE f == CHOOSE up : up = [i \in 1..(n + 1) |->
                                  IF i = n + 1 THEN store ELSE (up[i + 1] \ gone[i]) \union added[i]]
<1>5. f = [i \in 1..(n + 1) |-> IF i = n + 1 THEN store ELSE (f[i + 1] \ gone[i]) \union added[i]]
  BY <1>4, Zenon
<1>6. Rewritten(store, gone, added) = f[1]
  BY Zenon DEF Rewritten, n
<1> HIDE DEF f
<1>7. f[n + 1] = store
  <2>1. n + 1 \in 1..(n + 1)
    OBVIOUS
  <2> QED
    BY <1>5, <2>1
<1>8. ASSUME NEW i \in 1..n PROVE f[i] = (f[i + 1] \ gone[i]) \union added[i]
  <2>1. i \in 1..(n + 1) /\ i # n + 1
    OBVIOUS
  <2> QED
    BY <1>5, <2>1, Zenon
<1> QED
  BY <1>6, <1>7, <1>8 DEF n

\* The subtrees of the n lowest levels.
SubtreesTo(g, n, pairs) ==
  g = [i \in 0..n |-> IF i = 0 THEN Tips(pairs) ELSE Grown(pairs, KeyBits - i, g[i - 1])]

\* The subtrees of every level are grown from those of the next.
LEMMA SubtreesUnfold ==
  ASSUME NEW pairs
  PROVE  /\ Subtrees(pairs)[0] = Tips(pairs)
         /\ \A i \in 0..(KeyBits - 1) : Subtrees(pairs)[i + 1] = Grown(pairs, KeyBits - (i + 1), Subtrees(pairs)[i])
<1> DEFINE T == {m \in 0..KeyBits : \E g : SubtreesTo(g, m, pairs)}
<1>1. 0 \in T
  <2>1. SubtreesTo([i \in 0..0 |-> Tips(pairs)], 0, pairs)
    BY DEF SubtreesTo
  <2> QED
    BY <2>1, BitLevels
<1>2. ASSUME NEW lvl \in 0..(KeyBits - 1), lvl \in T PROVE lvl + 1 \in T
  <2>1. PICK g : SubtreesTo(g, lvl, pairs)
    BY <1>2
  <2>2. PICK new : new = Grown(pairs, KeyBits - (lvl + 1), g[lvl])
    OBVIOUS
  <2> DEFINE h == [i \in 0..(lvl + 1) |-> IF i = lvl + 1 THEN new ELSE g[i]]
  <2>3. ASSUME NEW i \in 0..(lvl + 1)
        PROVE  h[i] = IF i = 0 THEN Tips(pairs) ELSE Grown(pairs, KeyBits - i, h[i - 1])
    <3>1. CASE i = lvl + 1
      <4>1. h[i] = new /\ i # 0 /\ i - 1 = lvl /\ h[lvl] = g[lvl]
        BY <3>1
      <4> HIDE DEF h
      <4> QED
        BY <2>2, <4>1
    <3>2. CASE i # lvl + 1
      <4>1. i \in 0..lvl /\ h[i] = g[i]
        BY <3>2
      <4>2. i # 0 => h[i - 1] = g[i - 1]
        BY <3>2
      <4>3. g[i] = IF i = 0 THEN Tips(pairs) ELSE Grown(pairs, KeyBits - i, g[i - 1])
        BY <2>1, <4>1 DEF SubtreesTo
      <4> HIDE DEF h
      <4> QED
        BY <4>1, <4>2, <4>3
    <3> QED
      BY <3>1, <3>2
  <2>4. SubtreesTo(h, lvl + 1, pairs)
    <3>1. h = [i \in 0..(lvl + 1) |-> h[i]]
      OBVIOUS
    <3> HIDE DEF h
    <3> QED
      BY <2>3, <3>1, Zenon DEF SubtreesTo
  <2> QED
    BY <2>4, BitLevels
<1>3. KeyBits \in T
  <2> HIDE DEF T
  <2> QED
    BY <1>1, <1>2, Induct, BitLevels
<1> DEFINE f == Subtrees(pairs)
<1>4. \E g : g = [i \in 0..KeyBits |-> IF i = 0 THEN Tips(pairs) ELSE Grown(pairs, KeyBits - i, g[i - 1])]
  BY <1>3 DEF SubtreesTo
<1>5. f = [i \in 0..KeyBits |-> IF i = 0 THEN Tips(pairs) ELSE Grown(pairs, KeyBits - i, f[i - 1])]
  BY <1>4, Zenon DEF Subtrees
<1> HIDE DEF f
<1>6. /\ f[0] = Tips(pairs)
      /\ \A i \in 0..(KeyBits - 1) : f[i + 1] = Grown(pairs, KeyBits - (i + 1), f[i])
  <2>1. f[0] = Tips(pairs)
    BY <1>5, BitLevels
  <2>2. ASSUME NEW i \in 0..(KeyBits - 1) PROVE f[i + 1] = Grown(pairs, KeyBits - (i + 1), f[i])
    <3>1. i + 1 \in 0..KeyBits /\ i + 1 # 0 /\ (i + 1) - 1 = i
      BY BitLevels
    <3>2. f[i + 1] = IF (i + 1) = 0 THEN Tips(pairs) ELSE Grown(pairs, KeyBits - (i + 1), f[(i + 1) - 1])
      BY <1>5, <3>1, Zenon
    <3> QED
      BY <3>1, <3>2
  <2> QED
    BY <2>1, <2>2
<1> QED
  BY <1>6 DEF f

-----------------------------------------------------------------------------
(* Hashes and keys.                                                        *)

\* A leaf, an internal node and the empty hash can be told apart, and give back
\* what they were made of.
LEMMA HashFacts ==
  /\ \A k, v : /\ IsLeaf(hash_leaf(k, v)) /\ ~ IsInternal(hash_leaf(k, v)) /\ hash_leaf(k, v) # Zero
               /\ hash_leaf(k, v)[2] = k /\ hash_leaf(k, v)[3] = v
  /\ \A l, r : /\ IsInternal(hash_internal(l, r)) /\ ~ IsLeaf(hash_internal(l, r))
               /\ hash_internal(l, r) # Zero
               /\ hash_internal(l, r)[1] = l /\ hash_internal(l, r)[2] = r
  /\ ~ IsLeaf(Zero) /\ ~ IsInternal(Zero)
<1>1. ASSUME NEW k, NEW v
      PROVE  /\ Len(<<"leaf", k, v>>) = 3
             /\ <<"leaf", k, v>>[2] = k /\ <<"leaf", k, v>>[3] = v
  OBVIOUS
<1>2. ASSUME NEW l, NEW r PROVE Len(<<l, r>>) = 2 /\ <<l, r>>[1] = l /\ <<l, r>>[2] = r
  OBVIOUS
<1>3. Len(<<>>) = 0
  OBVIOUS
<1>4. ASSUME NEW k, NEW v
      PROVE  /\ IsLeaf(hash_leaf(k, v)) /\ ~ IsInternal(hash_leaf(k, v)) /\ hash_leaf(k, v) # Zero
             /\ hash_leaf(k, v)[2] = k /\ hash_leaf(k, v)[3] = v
  BY <1>1, <1>3 DEF hash_leaf, IsLeaf, IsInternal, Zero
<1>5. ASSUME NEW l, NEW r
      PROVE  /\ IsInternal(hash_internal(l, r)) /\ ~ IsLeaf(hash_internal(l, r))
             /\ hash_internal(l, r) # Zero
             /\ hash_internal(l, r)[1] = l /\ hash_internal(l, r)[2] = r
  BY <1>2, <1>3 DEF hash_internal, IsLeaf, IsInternal, Zero
<1>6. ~ IsLeaf(Zero) /\ ~ IsInternal(Zero)
  BY <1>3 DEF IsLeaf, IsInternal, Zero
<1> QED
  BY <1>4, <1>5, <1>6

\* Leaves that are the same have the same pair, and nodes the same children.
LEMMA LeafInjective ==
  ASSUME NEW k, NEW v, NEW j, NEW w, hash_leaf(k, v) = hash_leaf(j, w)
  PROVE  k = j /\ v = w
<1>1. hash_leaf(k, v)[2] = k /\ hash_leaf(j, w)[2] = j /\ hash_leaf(k, v)[3] = v /\ hash_leaf(j, w)[3] = w
  BY HashFacts
<1> QED
  BY <1>1

\* The same for internal nodes.
LEMMA NodeInjective ==
  ASSUME NEW a, NEW b, NEW c, NEW d, hash_internal(a, b) = hash_internal(c, d)
  PROVE  a = c /\ b = d
<1>1. /\ hash_internal(a, b)[1] = a /\ hash_internal(c, d)[1] = c
      /\ hash_internal(a, b)[2] = b /\ hash_internal(c, d)[2] = d
  BY HashFacts
<1> QED
  BY <1>1

\* The child on a side of an internal node.
LEMMA NodeChild ==
  ASSUME NEW a, NEW b
  PROVE  Child(hash_internal(a, b), FALSE) = a /\ Child(hash_internal(a, b), TRUE) = b
BY HashFacts DEF Child

\* A join gives back its child and its sibling.
LEMMA JoinFacts ==
  ASSUME NEW key, NEW i, NEW c, NEW s
  PROVE  /\ IsInternal(Join(key, i, c, s)) /\ Join(key, i, c, s) # Zero /\ ~ IsLeaf(Join(key, i, c, s))
         /\ Child(Join(key, i, c, s), split_bits(key, i)) = c
         /\ Child(Join(key, i, c, s), ~ split_bits(key, i)) = s
         /\ \A d, t : Join(key, i, c, s) = Join(key, i, d, t) => c = d /\ s = t
<1>1. split_bits(key, i) \in BOOLEAN
  BY DEF split_bits
<1>2. CASE split_bits(key, i)
  <2>1. \A d, t : Join(key, i, d, t) = hash_internal(t, d)
    BY <1>2 DEF Join
  <2>2. \A d, t : Join(key, i, c, s) = Join(key, i, d, t) => c = d /\ s = t
    BY <2>1, HashFacts
  <2> QED
    BY <1>2, <2>1, <2>2, HashFacts DEF Child
<1>3. CASE ~ split_bits(key, i)
  <2>1. \A d, t : Join(key, i, d, t) = hash_internal(d, t)
    BY <1>3 DEF Join
  <2>2. \A d, t : Join(key, i, c, s) = Join(key, i, d, t) => c = d /\ s = t
    BY <2>1, HashFacts
  <2> QED
    BY <1>3, <2>1, <2>2, HashFacts DEF Child
<1> QED
  BY <1>2, <1>3

\* Two keys take the same way down to a level.
Agree(a, b, lvl) == \A i \in 0..(lvl - 1) : split_bits(a, i) = split_bits(b, i)

\* Keys that agree on every bit are the same.
LEMMA SameBits ==
  ASSUME NEW a \in Keys, NEW b \in Keys, Agree(a, b, KeyBits)
  PROVE  a = b
<1>1. ASSUME NEW c \in Keys PROVE \A k \in 0..KeyBits : halved(c)[k] \in Nat
  <2> DEFINE T == {k \in 0..KeyBits : halved(c)[k] \in Nat}
  <2>1. 0 \in T
    BY HalvedUnfold, SmtAssumption, BitLevels
  <2>2. ASSUME NEW k \in 0..(KeyBits - 1), k \in T PROVE k + 1 \in T
    <3>1. halved(c)[k + 1] = halved(c)[k] \div 2
      BY HalvedUnfold
    <3>2. halved(c)[k] \in Nat
      BY <2>2
    <3>3. PICK x \in Nat : x = halved(c)[k]
      BY <3>2
    <3>4. x \div 2 \in Nat
      OBVIOUS
    <3> QED
      BY <3>1, <3>3, <3>4, BitLevels
  <2> HIDE DEF T
  <2>3. \A k \in 0..KeyBits : k \in T
    BY <2>1, <2>2, Induct, BitLevels
  <2> QED
    BY <2>3 DEF T
<1> DEFINE D == {k \in 0..KeyBits : halved(a)[KeyBits - k] = halved(b)[KeyBits - k]}
<1>2. 0 \in D
  <2>1. KeyBits - 0 = KeyBits
    BY BitLevels
  <2> QED
    BY <2>1, SmtAssumption, BitLevels
<1>3. ASSUME NEW k \in 0..(KeyBits - 1), k \in D PROVE k + 1 \in D
  <2>1. PICK i \in 0..(KeyBits - 1) : i = KeyBits - (k + 1)
    BY BitLevels
  <2>2. KeyBits - k = i + 1 /\ i \in 0..KeyBits
    BY <2>1, BitLevels
  <2>3. PICK x \in Nat, y \in Nat : x = halved(a)[i] /\ y = halved(b)[i]
    BY <1>1, <2>2
  <2>4. halved(a)[i + 1] = x \div 2 /\ halved(b)[i + 1] = y \div 2
    BY <2>3, HalvedUnfold
  <2>5. x \div 2 = y \div 2
    BY <1>3, <2>2, <2>4
  <2>6. (x % 2 = 1) <=> (y % 2 = 1)
    BY <2>3 DEF Agree, split_bits
  <2>7. x = y
    BY <2>5, <2>6
  <2> QED
    BY <2>1, <2>3, <2>7, BitLevels
<1> HIDE DEF D
<1>4. KeyBits \in D
  BY <1>2, <1>3, Induct, BitLevels
<1>5. halved(a)[0] = halved(b)[0]
  <2>1. KeyBits - KeyBits = 0
    BY BitLevels
  <2> QED
    BY <1>4, <2>1 DEF D
<1> QED
  BY <1>5, HalvedUnfold

-----------------------------------------------------------------------------
(* The tree of a set of pairs.                                             *)

Pairs == Keys \X Nat

\* The hash of a set's subtree at a level.
TreeOf(S, lvl) == Subtrees(Pairs)[KeyBits - lvl][S]

Big(S) == \E e, d \in S : e # d

\* What holds of the pairs below a node: one value for a key, and the same way down.
Coherent(S, lvl) ==
  /\ S \subseteq Pairs
  /\ \A e, d \in S : e[1] = d[1] => e = d
  /\ \A e, d \in S : Agree(e[1], d[1], lvl)

\* A set is empty, has one element or has two.
LEMMA Sizes ==
  ASSUME NEW S
  PROVE  /\ S = {} \/ Single(S) \/ Big(S)
         /\ Single(S) => S # {} /\ ~ Big(S)
         /\ Big(S) => S # {}
         /\ \A e : S = {e} => Single(S)
BY DEF Single, Big

\* The subtree of a set, by its size.
LEMMA TreeUnfold ==
  ASSUME NEW S, S \subseteq Pairs, NEW lvl \in 0..KeyBits
  PROVE  /\ S = {} => TreeOf(S, lvl) = Zero
         /\ \A e : S = {e} => TreeOf(S, lvl) = hash_leaf(e[1], e[2])
         /\ lvl < KeyBits /\ Big(S) =>
              TreeOf(S, lvl) = hash_internal(TreeOf(Side(S, lvl, FALSE), lvl + 1),
                                             TreeOf(Side(S, lvl, TRUE), lvl + 1))
<1>1. S \in SUBSET Pairs
  OBVIOUS
<1>2. \A e : S = {e} => Single(S) /\ S # {} /\ LeafOf(S) = hash_leaf(e[1], e[2])
  <2>1. ASSUME NEW e, S = {e} PROVE LeafOf(S) = hash_leaf(e[1], e[2])
    <3>1. (CHOOSE d \in S : TRUE) = e
      BY <2>1
    <3> QED
      BY <3>1 DEF LeafOf
  <2> QED
    BY <2>1, Sizes
<1>3. CASE lvl = KeyBits
  <2>1. TreeOf(S, lvl) = Tips(Pairs)[S]
    <3>1. KeyBits - lvl = 0
      BY <1>3, BitLevels
    <3> QED
      BY <3>1, SubtreesUnfold DEF TreeOf
  <2>2. Tips(Pairs)[S] = IF Single(S) THEN LeafOf(S) ELSE Zero
    BY <1>1 DEF Tips
  <2>3. TreeOf(S, lvl) = (IF Single(S) THEN LeafOf(S) ELSE Zero)
    BY <2>1, <2>2
  <2>4. S = {} => ~ Single(S)
    BY Sizes
  <2>5. ~ (lvl < KeyBits)
    BY <1>3, BitLevels
  <2>6. \A e : S = {e} => TreeOf(S, lvl) = hash_leaf(e[1], e[2])
    BY <1>2, <2>3
  <2> QED
    BY <2>3, <2>4, <2>5, <2>6
<1>4. CASE lvl < KeyBits
  <2>1. PICK i \in 0..(KeyBits - 1) : i = KeyBits - (lvl + 1)
    BY <1>4, BitLevels
  <2>2. KeyBits - lvl = i + 1 /\ KeyBits - (i + 1) = lvl
    BY <2>1, BitLevels
  <2> DEFINE below == Subtrees(Pairs)[i]
  <2>3. TreeOf(S, lvl) = Grown(Pairs, lvl, below)[S]
    BY <2>2, SubtreesUnfold DEF TreeOf
  <2>4. \A R : below[R] = TreeOf(R, lvl + 1)
    BY <2>1 DEF TreeOf
  <2> HIDE DEF below
  <2>5. Grown(Pairs, lvl, below)[S] =
          IF S = {} THEN Zero
          ELSE IF Single(S) THEN LeafOf(S)
          ELSE hash_internal(below[Side(S, lvl, FALSE)], below[Side(S, lvl, TRUE)])
    BY <1>1 DEF Grown
  <2>6. S = {} => TreeOf(S, lvl) = Zero
    BY <2>3, <2>5
  <2>7. \A e : S = {e} => TreeOf(S, lvl) = hash_leaf(e[1], e[2])
    BY <1>2, <2>3, <2>5
  <2>8. Big(S) => TreeOf(S, lvl) = hash_internal(TreeOf(Side(S, lvl, FALSE), lvl + 1),
                                                 TreeOf(Side(S, lvl, TRUE), lvl + 1))
    <3>1. Big(S) => S # {} /\ ~ Single(S)
      BY Sizes
    <3> QED
      BY <2>3, <2>4, <2>5, <3>1
  <2> QED
    BY <2>6, <2>7, <2>8
<1>5. lvl = KeyBits \/ lvl < KeyBits
  BY BitLevels
<1> QED
  BY <1>3, <1>4, <1>5, Zenon

\* The canonical root of a set is its subtree at the root.
LEMMA RootIsTree ==
  ASSUME NEW P, P \subseteq Pairs
  PROVE  CanonicalRoot(P) = TreeOf(P, 0)
<1> DEFINE D == {k \in 0..KeyBits : \A S \in SUBSET P : Subtrees(P)[k][S] = Subtrees(Pairs)[k][S]}
<1>1. \A S \in SUBSET P : S \in SUBSET Pairs
  OBVIOUS
<1>2. 0 \in D
  <2>1. ASSUME NEW S \in SUBSET P PROVE Subtrees(P)[0][S] = Subtrees(Pairs)[0][S]
    <3>1. Tips(P)[S] = (IF Single(S) THEN LeafOf(S) ELSE Zero)
      BY DEF Tips
    <3>2. Tips(Pairs)[S] = (IF Single(S) THEN LeafOf(S) ELSE Zero)
      BY <1>1 DEF Tips
    <3> QED
      BY <3>1, <3>2, SubtreesUnfold
  <2> QED
    BY <2>1, BitLevels
<1>3. ASSUME NEW k \in 0..(KeyBits - 1), k \in D PROVE k + 1 \in D
  <2> DEFINE lvl == KeyBits - (k + 1)
             f == Subtrees(P)[k]
             g == Subtrees(Pairs)[k]
  <2>1. ASSUME NEW S \in SUBSET P PROVE Subtrees(P)[k + 1][S] = Subtrees(Pairs)[k + 1][S]
    <3>1. Subtrees(P)[k + 1] = Grown(P, lvl, f) /\ Subtrees(Pairs)[k + 1] = Grown(Pairs, lvl, g)
      BY SubtreesUnfold
    <3>2. f[Side(S, lvl, FALSE)] = g[Side(S, lvl, FALSE)] /\ f[Side(S, lvl, TRUE)] = g[Side(S, lvl, TRUE)]
      <4>1. Side(S, lvl, FALSE) \in SUBSET P /\ Side(S, lvl, TRUE) \in SUBSET P
        BY DEF Side
      <4> QED
        BY <1>3, <4>1
    <3> HIDE DEF lvl, f, g
    <3>3. Grown(P, lvl, f)[S] =
            (IF S = {} THEN Zero
             ELSE IF Single(S) THEN LeafOf(S)
             ELSE hash_internal(f[Side(S, lvl, FALSE)], f[Side(S, lvl, TRUE)]))
      BY DEF Grown
    <3>4. Grown(Pairs, lvl, g)[S] =
            (IF S = {} THEN Zero
             ELSE IF Single(S) THEN LeafOf(S)
             ELSE hash_internal(g[Side(S, lvl, FALSE)], g[Side(S, lvl, TRUE)]))
      BY <1>1 DEF Grown
    <3> QED
      BY <3>1, <3>2, <3>3, <3>4
  <2> QED
    BY <2>1, BitLevels
<1> HIDE DEF D
<1>4. KeyBits \in D
  BY <1>2, <1>3, Induct, BitLevels
<1>5. KeyBits - 0 = KeyBits
  BY BitLevels
<1> QED
  BY <1>4, <1>5 DEF D, CanonicalRoot, TreeOf

\* A node below which there are two pairs is not at the last level; they part.
LEMMA Parts ==
  ASSUME NEW lvl \in 0..KeyBits, NEW S, Coherent(S, lvl)
  PROVE  /\ Big(S) => lvl < KeyBits
         /\ lvl < KeyBits => \A b \in BOOLEAN : Coherent(Side(S, lvl, b), lvl + 1)
         /\ S = Side(S, lvl, FALSE) \union Side(S, lvl, TRUE)
<1>1. \A e \in S : e[1] \in Keys
  BY DEF Coherent, Pairs
<1>2. ASSUME Big(S), lvl = KeyBits PROVE FALSE
  <2>1. PICK e \in S, d \in S : e # d
    BY <1>2 DEF Big
  <2>2. Agree(e[1], d[1], KeyBits) /\ e[1] \in Keys /\ d[1] \in Keys
    BY <1>1, <1>2, <2>1 DEF Coherent
  <2>3. e[1] = d[1]
    BY <2>2, SameBits
  <2> QED
    BY <2>1, <2>3 DEF Coherent
<1>3. ASSUME NEW b \in BOOLEAN, lvl < KeyBits PROVE Coherent(Side(S, lvl, b), lvl + 1)
  <2>1. Side(S, lvl, b) \subseteq S
    BY DEF Side
  <2>2. ASSUME NEW e \in Side(S, lvl, b), NEW d \in Side(S, lvl, b) PROVE Agree(e[1], d[1], lvl + 1)
    <3>1. Agree(e[1], d[1], lvl) /\ (split_bits(e[1], lvl) = split_bits(d[1], lvl))
      BY <2>1 DEF Coherent, Side
    <3>2. \A i \in 0..((lvl + 1) - 1) : i \in 0..(lvl - 1) \/ i = lvl
      OBVIOUS
    <3> QED
      BY <3>1, <3>2 DEF Agree
  <2> QED
    BY <2>1, <2>2 DEF Coherent
<1>4. S = Side(S, lvl, FALSE) \union Side(S, lvl, TRUE)
  <2>1. \A e : split_bits(e[1], lvl) \in BOOLEAN
    BY DEF split_bits
  <2> QED
    BY <2>1 DEF Side
<1>5. Big(S) => lvl < KeyBits
  BY <1>2, BitLevels
<1> QED
  BY <1>3, <1>4, <1>5, Zenon

\* The subtree tells the size of its set.
LEMMA Shape ==
  ASSUME NEW lvl \in 0..KeyBits, NEW S, Coherent(S, lvl)
  PROVE  /\ IsInternal(TreeOf(S, lvl)) <=> Big(S)
         /\ IsLeaf(TreeOf(S, lvl)) <=> Single(S)
         /\ TreeOf(S, lvl) = Zero <=> S = {}
         /\ Big(S) => /\ lvl < KeyBits
                      /\ TreeOf(S, lvl) = hash_internal(TreeOf(Side(S, lvl, FALSE), lvl + 1),
                                                        TreeOf(Side(S, lvl, TRUE), lvl + 1))
<1>1. S \subseteq Pairs
  BY DEF Coherent
<1>2. CASE S = {}
  <2>1. TreeOf(S, lvl) = Zero
    BY <1>1, <1>2, TreeUnfold
  <2> QED
    BY <1>2, <2>1, HashFacts, Sizes
<1>3. CASE Single(S)
  <2>1. PICK e : S = {e}
    BY <1>3 DEF Single
  <2>2. TreeOf(S, lvl) = hash_leaf(e[1], e[2])
    BY <1>1, <2>1, TreeUnfold
  <2>3. IsLeaf(TreeOf(S, lvl)) /\ ~ IsInternal(TreeOf(S, lvl)) /\ TreeOf(S, lvl) # Zero
    BY <2>2, HashFacts
  <2> QED
    BY <1>3, <2>3, Sizes
<1>4. CASE Big(S)
  <2>1. lvl < KeyBits
    BY <1>4, Parts
  <2>2. TreeOf(S, lvl) = hash_internal(TreeOf(Side(S, lvl, FALSE), lvl + 1),
                                       TreeOf(Side(S, lvl, TRUE), lvl + 1))
    BY <1>1, <1>4, <2>1, TreeUnfold
  <2> QED
    BY <1>4, <2>1, <2>2, HashFacts, Sizes
<1> QED
  BY <1>2, <1>3, <1>4, Sizes

-----------------------------------------------------------------------------
(* The path of a key through a tree.                                       *)

OneValue(P) == P \subseteq Pairs /\ \A e, d \in P : e[1] = d[1] => e = d

\* The pairs below the node of the key's path at a level, and those beside the path
\* below it.
Under(P, key, lvl) == {e \in P : Agree(e[1], key, lvl)}
Beside(P, key, lvl) == {e \in Under(P, key, lvl) : split_bits(e[1], lvl) # split_bits(key, lvl)}

\* A way down shared to a level is shared to every level above.
LEMMA AgreeAbove ==
  ASSUME NEW m \in Nat, NEW lvl \in 0..m, NEW a, NEW b, Agree(a, b, m)
  PROVE  Agree(a, b, lvl)
<1>1. \A i \in 0..(lvl - 1) : i \in 0..(m - 1)
  OBVIOUS
<1> QED
  BY <1>1 DEF Agree

\* Sharing the way down is an equivalence.
LEMMA AgreeTransfers ==
  ASSUME NEW lvl, NEW a, NEW b, NEW c, Agree(a, b, lvl)
  PROVE  /\ Agree(b, a, lvl)
         /\ Agree(b, c, lvl) <=> Agree(a, c, lvl)
         /\ Agree(c, b, lvl) <=> Agree(c, a, lvl)
BY DEF Agree

\* What is below and beside a path, level by level.
LEMMA UnderFacts ==
  ASSUME NEW P, OneValue(P), NEW key \in Keys, NEW lvl \in 0..KeyBits
  PROVE  /\ Coherent(Under(P, key, lvl), lvl)
         /\ Under(P, key, 0) = P
         /\ lvl < KeyBits =>
              /\ Coherent(Beside(P, key, lvl), lvl + 1)
              /\ Side(Under(P, key, lvl), lvl, split_bits(key, lvl)) = Under(P, key, lvl + 1)
              /\ Side(Under(P, key, lvl), lvl, ~ split_bits(key, lvl)) = Beside(P, key, lvl)
              /\ Under(P, key, lvl) = Under(P, key, lvl + 1) \union Beside(P, key, lvl)
<1>1. Coherent(Under(P, key, lvl), lvl)
  <2>1. ASSUME NEW e \in Under(P, key, lvl), NEW d \in Under(P, key, lvl) PROVE Agree(e[1], d[1], lvl)
    <3>1. Agree(e[1], key, lvl) /\ Agree(d[1], key, lvl)
      BY DEF Under
    <3> QED
      BY <3>1 DEF Agree
  <2> QED
    BY <2>1 DEF Coherent, OneValue, Under
<1>2. Under(P, key, 0) = P
  BY DEF Under, Agree
<1>3. ASSUME lvl < KeyBits
      PROVE  /\ Side(Under(P, key, lvl), lvl, split_bits(key, lvl)) = Under(P, key, lvl + 1)
             /\ Side(Under(P, key, lvl), lvl, ~ split_bits(key, lvl)) = Beside(P, key, lvl)
  <2>1. \A i \in 0..((lvl + 1) - 1) : i \in 0..(lvl - 1) \/ i = lvl
    OBVIOUS
  <2>2. lvl \in 0..((lvl + 1) - 1) /\ \A i \in 0..(lvl - 1) : i \in 0..((lvl + 1) - 1)
    OBVIOUS
  <2>3. \A e : Agree(e[1], key, lvl + 1) <=>
                 Agree(e[1], key, lvl) /\ (split_bits(e[1], lvl) = split_bits(key, lvl))
    BY <2>1, <2>2 DEF Agree
  <2>4. \A a : split_bits(a, lvl) \in BOOLEAN
    BY DEF split_bits
  <2> QED
    BY <2>3, <2>4 DEF Side, Under, Beside
<1>4. ASSUME lvl < KeyBits
      PROVE  /\ Coherent(Beside(P, key, lvl), lvl + 1)
             /\ Under(P, key, lvl) = Under(P, key, lvl + 1) \union Beside(P, key, lvl)
  <2>1. split_bits(key, lvl) \in BOOLEAN /\ (~ split_bits(key, lvl)) \in BOOLEAN
    BY DEF split_bits
  <2>2. \A b \in BOOLEAN : Coherent(Side(Under(P, key, lvl), lvl, b), lvl + 1)
    BY <1>1, <1>4, Parts
  <2>3. Under(P, key, lvl) = Side(Under(P, key, lvl), lvl, FALSE) \union Side(Under(P, key, lvl), lvl, TRUE)
    BY <1>1, Parts
  <2>4. CASE split_bits(key, lvl)
    <3>1. (split_bits(key, lvl) = TRUE) /\ ((~ split_bits(key, lvl)) = FALSE)
      BY <2>4
    <3> QED
      BY <1>3, <1>4, <2>2, <2>3, <3>1
  <2>5. CASE ~ split_bits(key, lvl)
    <3>1. (split_bits(key, lvl) = FALSE) /\ ((~ split_bits(key, lvl)) = TRUE)
      BY <2>1, <2>5
    <3> QED
      BY <1>3, <1>4, <2>2, <2>3, <3>1
  <2> QED
    BY <2>4, <2>5
<1> QED
  BY <1>1, <1>2, <1>3, <1>4

\* A node below which there are two pairs joins what is below and what is beside
\* the path.
LEMMA PathStep ==
  ASSUME NEW P, OneValue(P), NEW key \in Keys, NEW lvl \in 0..KeyBits, Big(Under(P, key, lvl))
  PROVE  /\ lvl < KeyBits
         /\ TreeOf(Under(P, key, lvl), lvl) =
              Join(key, lvl, TreeOf(Under(P, key, lvl + 1), lvl + 1),
                             TreeOf(Beside(P, key, lvl), lvl + 1))
<1> DEFINE S == Under(P, key, lvl)
           L == TreeOf(Side(S, lvl, FALSE), lvl + 1)
           R == TreeOf(Side(S, lvl, TRUE), lvl + 1)
<1>1. lvl < KeyBits /\ TreeOf(S, lvl) = hash_internal(L, R)
  BY UnderFacts, Shape
<1>2. CASE split_bits(key, lvl)
  <2>1. (split_bits(key, lvl) = TRUE) /\ ((~ split_bits(key, lvl)) = FALSE)
    BY <1>2 DEF split_bits
  <2>2. TreeOf(Under(P, key, lvl + 1), lvl + 1) = R /\ TreeOf(Beside(P, key, lvl), lvl + 1) = L
    <3>1. /\ Side(S, lvl, split_bits(key, lvl)) = Under(P, key, lvl + 1)
          /\ Side(S, lvl, ~ split_bits(key, lvl)) = Beside(P, key, lvl)
      BY <1>1, UnderFacts
    <3>2. Side(S, lvl, TRUE) = Under(P, key, lvl + 1) /\ Side(S, lvl, FALSE) = Beside(P, key, lvl)
      BY <2>1, <3>1, Zenon
    <3> QED
      BY <3>2
  <2> QED
    BY <1>1, <1>2, <2>2 DEF Join
<1>3. CASE ~ split_bits(key, lvl)
  <2>1. (split_bits(key, lvl) = FALSE) /\ ((~ split_bits(key, lvl)) = TRUE)
    BY <1>3 DEF split_bits
  <2>2. TreeOf(Under(P, key, lvl + 1), lvl + 1) = L /\ TreeOf(Beside(P, key, lvl), lvl + 1) = R
    <3>1. /\ Side(S, lvl, split_bits(key, lvl)) = Under(P, key, lvl + 1)
          /\ Side(S, lvl, ~ split_bits(key, lvl)) = Beside(P, key, lvl)
      BY <1>1, UnderFacts
    <3>2. Side(S, lvl, FALSE) = Under(P, key, lvl + 1) /\ Side(S, lvl, TRUE) = Beside(P, key, lvl)
      BY <2>1, <3>1, Zenon
    <3> QED
      BY <3>2
  <2> QED
    BY <1>1, <1>3, <2>2 DEF Join
<1> QED
  BY <1>1, <1>2, <1>3

\* What is beside a path is below the path of each of its keys.
LEMMA BesideIsUnder ==
  ASSUME NEW P, OneValue(P), NEW key \in Keys, NEW lvl \in 0..(KeyBits - 1), NEW e \in Beside(P, key, lvl)
  PROVE  e[1] \in Keys /\ Beside(P, key, lvl) = Under(P, e[1], lvl + 1)
<1>1. e \in P /\ e[1] \in Keys /\ Agree(e[1], key, lvl) /\ (split_bits(e[1], lvl) # split_bits(key, lvl))
  BY DEF Beside, Under, OneValue, Pairs
<1>2. \A i \in 0..((lvl + 1) - 1) : i \in 0..(lvl - 1) \/ i = lvl
  OBVIOUS
<1>3. lvl \in 0..((lvl + 1) - 1) /\ \A i \in 0..(lvl - 1) : i \in 0..((lvl + 1) - 1)
  OBVIOUS
<1>4. \A d : Agree(d[1], e[1], lvl + 1) <=>
               Agree(d[1], e[1], lvl) /\ (split_bits(d[1], lvl) = split_bits(e[1], lvl))
  BY <1>2, <1>3 DEF Agree
<1>5. \A d : Agree(d[1], e[1], lvl) <=> Agree(d[1], key, lvl)
  BY <1>1 DEF Agree
<1>6. \A a : split_bits(a, lvl) \in BOOLEAN
  BY DEF split_bits
<1>7. \A d : (split_bits(d[1], lvl) = split_bits(e[1], lvl)) <=> (split_bits(d[1], lvl) # split_bits(key, lvl))
  BY <1>1, <1>6
<1>8. \A d \in P : d \in Beside(P, key, lvl) <=> d \in Under(P, e[1], lvl + 1)
  BY <1>4, <1>5, <1>7 DEF Beside, Under
<1>9. Beside(P, key, lvl) \subseteq P /\ Under(P, e[1], lvl + 1) \subseteq P
  BY DEF Beside, Under
<1> QED
  BY <1>1, <1>8, <1>9

\* Every path ends where there are no two pairs left below it, and what was beside
\* it on the last step is not empty.
LEMMA PathEnds ==
  ASSUME NEW P, OneValue(P), NEW key \in Keys
  PROVE  \E d \in 0..KeyBits :
           /\ ~ Big(Under(P, key, d))
           /\ \A i \in 0..(d - 1) : Big(Under(P, key, i))
           /\ d # 0 => Beside(P, key, d - 1) # {}
<1> DEFINE D == {d \in 0..KeyBits : ~ Big(Under(P, key, d))}
<1>1. KeyBits \in D
  <2>1. KeyBits \in 0..KeyBits /\ ~ (KeyBits < KeyBits)
    BY BitLevels
  <2>2. ~ Big(Under(P, key, KeyBits))
    BY <2>1, PathStep
  <2> QED
    BY <2>1, <2>2
<1>2. PICK d \in D : \A y \in D : d <= y
  <2>1. D \subseteq Nat /\ D # {}
    BY <1>1
  <2> QED
    BY <2>1, Least
<1>3. \A i \in 0..(d - 1) : Big(Under(P, key, i))
  <2> SUFFICES ASSUME NEW i \in 0..(d - 1), ~ Big(Under(P, key, i)) PROVE FALSE
    OBVIOUS
  <2>1. i \in 0..KeyBits /\ ~ (d <= i)
    BY BitLevels
  <2> QED
    BY <1>2, <2>1
<1>4. ASSUME d # 0, Beside(P, key, d - 1) = {} PROVE FALSE
  <2>1. PICK i \in 0..(KeyBits - 1) : i = d - 1 /\ d = i + 1
    BY <1>4, BitLevels
  <2>2. Under(P, key, i) = Under(P, key, i + 1) \union Beside(P, key, i)
    BY <2>1, UnderFacts, BitLevels
  <2>3. Under(P, key, i) = Under(P, key, d)
    BY <1>4, <2>1, <2>2
  <2>4. i \in 0..(d - 1)
    BY <2>1
  <2> QED
    BY <1>2, <1>3, <2>3, <2>4
<1> QED
  BY <1>2, <1>3, <1>4

-----------------------------------------------------------------------------
(* Which hashes can be the same.                                           *)

\* A subtree tells its set, at whatever level it is.
LEMMA SameTree ==
  ASSUME NEW lvl \in 0..KeyBits, NEW S, Coherent(S, lvl), NEW m \in 0..KeyBits, NEW R, Coherent(R, m),
         TreeOf(S, lvl) = TreeOf(R, m)
  PROVE  S = R
<1> DEFINE D == {k \in 0..KeyBits :
                   \A i \in 0..KeyBits : \A A \in SUBSET Pairs, B \in SUBSET Pairs :
                     Coherent(A, KeyBits - k) /\ Coherent(B, i) /\ TreeOf(A, KeyBits - k) = TreeOf(B, i) => A = B}
<1>1. ASSUME NEW l \in 0..KeyBits, NEW i \in 0..KeyBits, NEW A, NEW B,
             Coherent(A, l), Coherent(B, i), TreeOf(A, l) = TreeOf(B, i), ~ Big(A)
      PROVE  A = B
  <2>1. CASE A = {}
    <3>1. B = {}
      BY <1>1, <2>1, Shape
    <3> QED
      BY <2>1, <3>1
  <2>2. CASE Single(A)
    <3>1. Single(B)
      BY <1>1, <2>2, Shape
    <3>2. PICK a : A = {a}
      BY <2>2 DEF Single
    <3>3. PICK b : B = {b}
      BY <3>1 DEF Single
    <3>4. A \subseteq Pairs /\ B \subseteq Pairs
      BY <1>1 DEF Coherent
    <3>5. TreeOf(A, l) = hash_leaf(a[1], a[2]) /\ TreeOf(B, i) = hash_leaf(b[1], b[2])
      BY <3>2, <3>3, <3>4, TreeUnfold
    <3>6. a[1] = b[1] /\ a[2] = b[2]
      <4>1. hash_leaf(a[1], a[2]) = hash_leaf(b[1], b[2])
        BY <1>1, <3>5
      <4> QED
        BY <4>1, LeafInjective
    <3>7. a \in Pairs /\ b \in Pairs
      BY <3>2, <3>3, <3>4
    <3>8. a = b
      BY <3>6, <3>7 DEF Pairs
    <3> QED
      BY <3>2, <3>3, <3>8
  <2> QED
    BY <1>1, <2>1, <2>2, Sizes
<1>2. 0 \in D
  <2>1. KeyBits - 0 = KeyBits /\ KeyBits \in 0..KeyBits
    BY BitLevels
  <2>2. ASSUME NEW i \in 0..KeyBits, NEW A, NEW B,
               Coherent(A, KeyBits), Coherent(B, i), TreeOf(A, KeyBits) = TreeOf(B, i)
        PROVE  A = B
    <3>1. ~ Big(A)
      <4>1. ~ (KeyBits < KeyBits)
        BY <2>1
      <4> QED
        BY <2>1, <2>2, <4>1, Parts
    <3> QED
      BY <1>1, <2>1, <2>2, <3>1
  <2> QED
    BY <2>1, <2>2
<1>3. ASSUME NEW k \in 0..(KeyBits - 1), k \in D PROVE k + 1 \in D
  <2>1. PICK l \in 0..(KeyBits - 1) : l = KeyBits - (k + 1)
    BY BitLevels
  <2>2. KeyBits - k = l + 1 /\ l \in 0..KeyBits /\ l + 1 \in 0..KeyBits /\ k + 1 \in 0..KeyBits
    BY <2>1, BitLevels
  <2>3. ASSUME NEW i \in 0..KeyBits, NEW A, NEW B,
               Coherent(A, l), Coherent(B, i), TreeOf(A, l) = TreeOf(B, i)
        PROVE  A = B
    <3>1. CASE ~ Big(A)
      BY <1>1, <2>2, <2>3, <3>1
    <3>2. CASE Big(A)
      <4>1. Big(B)
        BY <2>2, <2>3, <3>2, Shape
      <4>2. TreeOf(A, l) = hash_internal(TreeOf(Side(A, l, FALSE), l + 1), TreeOf(Side(A, l, TRUE), l + 1))
        BY <2>2, <2>3, <3>2, Shape
      <4>3. /\ TreeOf(B, i) = hash_internal(TreeOf(Side(B, i, FALSE), i + 1), TreeOf(Side(B, i, TRUE), i + 1))
            /\ i < KeyBits
        BY <2>3, <4>1, Shape
      <4>4. \A c \in BOOLEAN : TreeOf(Side(A, l, c), l + 1) = TreeOf(Side(B, i, c), i + 1)
        <5>1. /\ TreeOf(Side(A, l, FALSE), l + 1) = TreeOf(Side(B, i, FALSE), i + 1)
              /\ TreeOf(Side(A, l, TRUE), l + 1) = TreeOf(Side(B, i, TRUE), i + 1)
          <6> DEFINE w == TreeOf(Side(A, l, FALSE), l + 1)
                     x == TreeOf(Side(A, l, TRUE), l + 1)
                     y == TreeOf(Side(B, i, FALSE), i + 1)
                     z == TreeOf(Side(B, i, TRUE), i + 1)
          <6>1. hash_internal(w, x) = hash_internal(y, z)
            BY <2>3, <4>2, <4>3
          <6> HIDE DEF w, x, y, z
          <6>2. w = y /\ x = z
            BY <6>1, NodeInjective
          <6> QED
            BY <6>2 DEF w, x, y, z
        <5> QED
          BY <5>1
      <4>5. \A c \in BOOLEAN : Coherent(Side(A, l, c), l + 1) /\ Coherent(Side(B, i, c), i + 1)
        <5>1. l < KeyBits
          BY <2>1, BitLevels
        <5> QED
          BY <2>2, <2>3, <4>3, <5>1, Parts
      <4>6. ASSUME NEW c \in BOOLEAN PROVE Side(A, l, c) = Side(B, i, c)
        <5>1. i + 1 \in 0..KeyBits
          BY <4>3, BitLevels
        <5>2. Side(A, l, c) \in SUBSET Pairs /\ Side(B, i, c) \in SUBSET Pairs
          BY <4>5 DEF Coherent
        <5> QED
          BY <1>3, <2>2, <4>4, <4>5, <5>1, <5>2
      <4>7. A = Side(A, l, FALSE) \union Side(A, l, TRUE) /\ B = Side(B, i, FALSE) \union Side(B, i, TRUE)
        BY <2>2, <2>3, Parts
      <4> QED
        BY <4>6, <4>7
    <3> QED
      BY <3>1, <3>2
  <2> QED
    BY <2>1, <2>2, <2>3
<1> HIDE DEF D
<1>4. \A k \in 0..KeyBits : k \in D
  BY <1>2, <1>3, Induct, BitLevels
<1>5. PICK k \in 0..KeyBits : KeyBits - k = lvl
  <2>1. KeyBits - lvl \in 0..KeyBits /\ KeyBits - (KeyBits - lvl) = lvl
    BY BitLevels
  <2> QED
    BY <2>1
<1>6. S \in SUBSET Pairs /\ R \in SUBSET Pairs
  BY DEF Coherent
<1> QED
  BY <1>4, <1>5, <1>6 DEF D

\* Two pairs or more do not have the same subtree at two levels of their path.
LEMMA OtherLevel ==
  ASSUME NEW l \in 0..KeyBits, NEW m \in 0..KeyBits, l < m, NEW S, Coherent(S, l), Coherent(S, m), Big(S)
  PROVE  TreeOf(S, l) # TreeOf(S, m)
<1> SUFFICES ASSUME TreeOf(S, l) = TreeOf(S, m) PROVE FALSE
  OBVIOUS
<1> DEFINE n == KeyBits - m
           D == {k \in 0..n : /\ Coherent(S, l + k) /\ Coherent(S, m + k)
                              /\ TreeOf(S, l + k) = TreeOf(S, m + k)}
<1>1. n \in Nat /\ m + n = KeyBits /\ KeyBits \in Nat
  BY BitLevels
<1>2. 0 \in D
  <2>1. l + 0 = l /\ m + 0 = m /\ 0 \in 0..n
    BY <1>1
  <2> QED
    BY <2>1
<1>3. ASSUME NEW k \in 0..(n - 1), k \in D PROVE k + 1 \in D
  <2>1. PICK i \in 0..KeyBits, j \in 0..KeyBits : i = l + k /\ j = m + k
    BY <1>1
  <2>2. i < j /\ j < KeyBits /\ i + 1 = l + (k + 1) /\ j + 1 = m + (k + 1) /\ k + 1 \in 0..n
    BY <1>1, <2>1
  <2>3. Coherent(S, i) /\ Coherent(S, j) /\ TreeOf(S, i) = TreeOf(S, j)
    BY <1>3, <2>1
  <2>4. PICK e \in S : TRUE
    BY DEF Big
  <2>5. PICK b \in BOOLEAN : b = split_bits(e[1], i)
    BY DEF split_bits
  <2>6. \A d \in S : split_bits(d[1], i) = b
    <3>1. i \in 0..(j - 1)
      BY <2>2
    <3> QED
      BY <2>3, <2>5, <3>1 DEF Coherent, Agree
  <2>7. Side(S, i, b) = S
    BY <2>6 DEF Side
  <2>8. Coherent(S, i + 1) /\ \A c \in BOOLEAN : Coherent(Side(S, j, c), j + 1)
    <3>1. i < KeyBits
      BY <1>1, <2>2
    <3>2. Coherent(Side(S, i, b), i + 1)
      BY <2>3, <3>1, Parts
    <3>3. \A c \in BOOLEAN : Coherent(Side(S, j, c), j + 1)
      BY <2>2, <2>3, Parts
    <3> QED
      BY <2>7, <3>2, <3>3
  <2>9. TreeOf(S, i + 1) = TreeOf(Side(S, j, b), j + 1)
    <3>1. TreeOf(S, i) = hash_internal(TreeOf(Side(S, i, FALSE), i + 1), TreeOf(Side(S, i, TRUE), i + 1))
      BY <2>3, Shape
    <3>2. TreeOf(S, j) = hash_internal(TreeOf(Side(S, j, FALSE), j + 1), TreeOf(Side(S, j, TRUE), j + 1))
      BY <2>3, Shape
    <3>3. /\ TreeOf(Side(S, i, FALSE), i + 1) = TreeOf(Side(S, j, FALSE), j + 1)
          /\ TreeOf(Side(S, i, TRUE), i + 1) = TreeOf(Side(S, j, TRUE), j + 1)
      <4> DEFINE w == TreeOf(Side(S, i, FALSE), i + 1)
                 x == TreeOf(Side(S, i, TRUE), i + 1)
                 y == TreeOf(Side(S, j, FALSE), j + 1)
                 z == TreeOf(Side(S, j, TRUE), j + 1)
      <4>1. hash_internal(w, x) = hash_internal(y, z)
        BY <2>3, <3>1, <3>2
      <4> HIDE DEF w, x, y, z
      <4>2. w = y /\ x = z
        BY <4>1, NodeInjective
      <4> QED
        BY <4>2 DEF w, x, y, z
    <3>4. TreeOf(Side(S, i, b), i + 1) = TreeOf(Side(S, j, b), j + 1)
      BY <3>3
    <3> QED
      BY <2>7, <3>4
  <2>10. S = Side(S, j, b)
    <3>1. i + 1 \in 0..KeyBits /\ j + 1 \in 0..KeyBits
      BY <1>1, <2>2
    <3> QED
      BY <2>8, <2>9, <3>1, SameTree
  <2> QED
    BY <2>2, <2>8, <2>9, <2>10
<1>4. n \in D
  <2>1. n \in 0..n
    BY <1>1
  <2> HIDE DEF D, n
  <2> QED
    BY <1>1, <1>2, <1>3, <2>1, Induct
<1>5. Coherent(S, KeyBits)
  BY <1>1, <1>4
<1>6. KeyBits \in 0..KeyBits /\ ~ (KeyBits < KeyBits)
  BY BitLevels
<1> QED
  BY <1>5, <1>6, Parts

\* No pair has this key.
Without(S, key) == \A e \in S : e[1] # key

\* No subtree without a key has a hash that was made by joining upwards from a leaf
\* of that key, with whatever siblings.
LEMMA NoKeyNoHash ==
  ASSUME NEW key, NEW v, NEW siblings, Len(siblings) \in Nat, NEW joined,
         NEW i \in 1..(Len(siblings) + 1), NEW lvl \in 0..KeyBits,
         NEW S, Coherent(S, lvl), Without(S, key)
  PROVE  TreeOf(S, lvl) # Rehashed(key, siblings, joined, hash_leaf(key, v))[i]
<1> DEFINE n == Len(siblings)
           up == Rehashed(key, siblings, joined, hash_leaf(key, v))
           Free(A) == \A e \in A : e[1] # key
           D == {k \in 0..n : \A m \in 0..KeyBits : \A A \in SUBSET Pairs :
                                Coherent(A, m) /\ Free(A) => TreeOf(A, m) # up[n + 1 - k]}
<1>0. n \in Nat
  OBVIOUS
<1>1. /\ up[n + 1] = hash_leaf(key, v)
      /\ \A j \in 1..n : up[j] = IF j \in joined THEN Join(key, j - 1, up[j + 1], siblings[j]) ELSE up[j + 1]
  BY RehashedUnfold
<1> HIDE DEF n, up
<1>2. 0 \in D
  <2>1. n + 1 - 0 = n + 1
    BY <1>0
  <2>2. ASSUME NEW m \in 0..KeyBits, NEW A \in SUBSET Pairs, Coherent(A, m), Free(A),
               TreeOf(A, m) = hash_leaf(key, v)
        PROVE  FALSE
    <3>1. Single(A)
      <4>1. IsLeaf(TreeOf(A, m))
        BY <2>2, HashFacts
      <4> QED
        BY <2>2, <4>1, Shape
    <3>2. PICK e : A = {e}
      BY <3>1 DEF Single
    <3>3. TreeOf(A, m) = hash_leaf(e[1], e[2])
      BY <3>2, TreeUnfold
    <3>4. e[1] = key
      <4>1. hash_leaf(e[1], e[2]) = hash_leaf(key, v)
        BY <2>2, <3>3
      <4> QED
        BY <4>1, LeafInjective
    <3> QED
      BY <2>2, <3>2, <3>4
  <2> QED
    BY <1>0, <1>1, <2>1, <2>2
<1>3. ASSUME NEW k \in 0..(n - 1), k \in D PROVE k + 1 \in D
  <2>1. PICK j \in 1..n : j = n + 1 - (k + 1)
    BY <1>0
  <2>2. n + 1 - k = j + 1 /\ k + 1 \in 0..n
    BY <1>0, <2>1
  <2>3. ASSUME NEW m \in 0..KeyBits, NEW A \in SUBSET Pairs, Coherent(A, m), Free(A), TreeOf(A, m) = up[j]
        PROVE  FALSE
    <3>1. CASE j \in joined
      <4>1. up[j] = Join(key, j - 1, up[j + 1], siblings[j])
        BY <1>1, <3>1
      <4>2. Big(A)
        <5>1. IsInternal(TreeOf(A, m))
          BY <2>3, <4>1, JoinFacts
        <5> QED
          BY <2>3, <5>1, Shape
      <4>3. /\ m < KeyBits
            /\ TreeOf(A, m) = hash_internal(TreeOf(Side(A, m, FALSE), m + 1), TreeOf(Side(A, m, TRUE), m + 1))
        BY <2>3, <4>2, Shape
      <4>4. PICK b \in BOOLEAN : b = split_bits(key, j - 1)
        BY DEF split_bits
      <4>5. up[j + 1] = Child(TreeOf(A, m), b)
        BY <2>3, <4>1, <4>4, JoinFacts
      <4>6. Child(TreeOf(A, m), b) = TreeOf(Side(A, m, b), m + 1)
        <5> DEFINE x == TreeOf(Side(A, m, FALSE), m + 1)
                   y == TreeOf(Side(A, m, TRUE), m + 1)
        <5>0. /\ Child(TreeOf(A, m), FALSE) = x
              /\ Child(TreeOf(A, m), TRUE) = y
          <6> HIDE DEF x, y
          <6>1. TreeOf(A, m) = hash_internal(x, y)
            BY <4>3 DEF x, y
          <6>2. Child(hash_internal(x, y), FALSE) = x /\ Child(hash_internal(x, y), TRUE) = y
            BY NodeChild, Zenon
          <6> QED
            BY <6>1, <6>2, Zenon
        <5>1. CASE b = TRUE
          BY <5>0, <5>1
        <5>2. CASE b = FALSE
          BY <5>0, <5>2
        <5> QED
          BY <5>1, <5>2
      <4>7. Coherent(Side(A, m, b), m + 1) /\ Free(Side(A, m, b)) /\ Side(A, m, b) \in SUBSET Pairs
        <5>1. Coherent(Side(A, m, b), m + 1)
          BY <2>3, <4>3, Parts
        <5>2. Side(A, m, b) \subseteq A
          BY DEF Side
        <5> QED
          BY <2>3, <5>1, <5>2
      <4>8. m + 1 \in 0..KeyBits
        BY <4>3, BitLevels
      <4> HIDE DEF Free
      <4> QED
        BY <1>3, <2>2, <4>5, <4>6, <4>7, <4>8
    <3>2. CASE j \notin joined
      <4>1. up[j] = up[j + 1]
        BY <1>1, <3>2
      <4> HIDE DEF Free
      <4> QED
        BY <1>3, <2>2, <2>3, <4>1
    <3> QED
      BY <3>1, <3>2
  <2> HIDE DEF Free
  <2> QED
    BY <2>1, <2>2, <2>3
<1>4. \A k \in 0..n : k \in D
  <2> HIDE DEF D
  <2> QED
    BY <1>0, <1>2, <1>3, Induct
<1>5. PICK k \in 0..n : n + 1 - k = i
  <2>1. n + 1 - i \in 0..n /\ n + 1 - (n + 1 - i) = i
    BY <1>0 DEF n
  <2> QED
    BY <2>1
<1>6. S \in SUBSET Pairs
  BY DEF Coherent
<1> QED
  BY <1>4, <1>5, <1>6 DEF up, Without

-----------------------------------------------------------------------------
(* The search.                                                             *)

\* The store has every node of the tree of P.
HasNodes(P, store) ==
  \A key \in Keys, lvl \in 0..KeyBits :
    TreeOf(Under(P, key, lvl), lvl) # Zero => TreeOf(Under(P, key, lvl), lvl) \in store

\* What a search for a key answers when its path ends at level d.
FoundAt(P, key, f, d) ==
  /\ ~ Big(Under(P, key, d))
  /\ \A i \in 0..(d - 1) : Big(Under(P, key, i))
  /\ d # 0 => Beside(P, key, d - 1) # {}
  /\ f.ok
  /\ f.siblings = [i \in 1..d |-> TreeOf(Beside(P, key, i - 1), i)]
  /\ f.is_old0 <=> Under(P, key, d) = {}
  /\ f.found <=> \E e \in Under(P, key, d) : e[1] = key
  /\ \A e \in Under(P, key, d) :
       IF e[1] = key THEN f.found_value = e[2]
       ELSE f.not_found_key = e[1] /\ f.not_found_value = e[2]
  /\ Under(P, key, d) = {} => f.not_found_key = key /\ f.not_found_value = 0

\* A search in a tree that has its nodes follows the key's path to its end.
LEMMA Search ==
  ASSUME NEW P, OneValue(P), NEW key \in Keys, NEW store, HasNodes(P, store), NEW top, top = TreeOf(P, 0)
  PROVE  \E d \in 0..KeyBits : FoundAt(P, key, find_key_internal(top, store, key), d)
<1> DEFINE at == Descent(top, store, key)
           Node(i) == TreeOf(Under(P, key, i), i)
<1>1. PICK d \in 0..KeyBits :
        /\ ~ Big(Under(P, key, d))
        /\ \A i \in 0..(d - 1) : Big(Under(P, key, i))
        /\ d # 0 => Beside(P, key, d - 1) # {}
  BY PathEnds
<1>2. /\ at[0] = top
      /\ \A i \in 0..(KeyBits - 1) :
           at[i + 1] = IF Inner(at[i], store) THEN Child(at[i], split_bits(key, i)) ELSE Zero
  BY DescentUnfold
<1> HIDE DEF at
<1>3. ASSUME NEW i \in 0..(d - 1)
      PROVE  /\ i \in 0..(KeyBits - 1) /\ i \in 0..KeyBits /\ IsInternal(Node(i)) /\ Node(i) \in store
             /\ Child(Node(i), split_bits(key, i)) = Node(i + 1)
             /\ Child(Node(i), ~ split_bits(key, i)) = TreeOf(Beside(P, key, i), i + 1)
  <2>1. i \in 0..(KeyBits - 1) /\ i \in 0..KeyBits /\ Big(Under(P, key, i))
    BY <1>1, BitLevels
  <2>2. Node(i) = Join(key, i, Node(i + 1), TreeOf(Beside(P, key, i), i + 1))
    BY <2>1, PathStep
  <2>3. PICK x, y, z : x = Node(i) /\ y = Node(i + 1) /\ z = TreeOf(Beside(P, key, i), i + 1)
    OBVIOUS
  <2>4. x = Join(key, i, y, z)
    BY <2>2, <2>3
  <2>5. IsInternal(x) /\ x # Zero /\ Child(x, split_bits(key, i)) = y /\ Child(x, ~ split_bits(key, i)) = z
    BY <2>4, JoinFacts
  <2>6. Node(i) \in store
    BY <2>1, <2>3, <2>5 DEF HasNodes
  <2> QED
    BY <2>1, <2>3, <2>5, <2>6
<1>4. \A i \in 0..d : at[i] = Node(i)
  <2> DEFINE D == {i \in 0..d : at[i] = Node(i)}
  <2>1. 0 \in D
    <3>1. Under(P, key, 0) = P
      BY UnderFacts, BitLevels
    <3> QED
      BY <1>2, <3>1
  <2>2. ASSUME NEW i \in 0..(d - 1), i \in D PROVE i + 1 \in D
    <3>1. at[i] = Node(i) /\ i + 1 \in 0..d
      BY <2>2
    <3>2. Inner(at[i], store)
      BY <1>3, <3>1 DEF Inner
    <3>3. at[i + 1] = Child(at[i], split_bits(key, i))
      BY <1>2, <1>3, <3>2
    <3> QED
      BY <1>3, <3>1, <3>3
  <2> HIDE DEF D
  <2>3. \A i \in 0..d : i \in D
    BY <2>1, <2>2, Induct
  <2> QED
    BY <2>3 DEF D
<1>5. Coherent(Under(P, key, d), d)
  BY UnderFacts
<1>6. ~ Inner(at[d], store) /\ \A j \in 0..(d - 1) : Inner(at[j], store)
  <2>1. ~ IsInternal(Node(d))
    BY <1>1, <1>5, Shape
  <2>2. d \in 0..d /\ \A j \in 0..(d - 1) : j \in 0..d
    OBVIOUS
  <2> QED
    BY <1>3, <1>4, <2>1, <2>2 DEF Inner
<1> DEFINE depth == CHOOSE i \in 0..KeyBits :
                      /\ ~ Inner(at[i], store) \/ i = KeyBits
                      /\ \A j \in 0..(i - 1) : Inner(at[j], store)
<1>7. depth = d
  <2>1. ASSUME NEW i \in 0..KeyBits, ~ Inner(at[i], store) \/ i = KeyBits,
               \A j \in 0..(i - 1) : Inner(at[j], store)
        PROVE  i = d
    <3>1. CASE i < d
      <4>1. i \in 0..(d - 1) /\ i # KeyBits
        BY <3>1, BitLevels
      <4> QED
        BY <1>6, <2>1, <4>1
    <3>2. CASE d < i
      <4>1. d \in 0..(i - 1)
        BY <3>2
      <4> QED
        BY <1>6, <2>1, <4>1
    <3> QED
      BY <3>1, <3>2
  <2> QED
    BY <1>6, <2>1
<1> DEFINE end == at[d]
           other == IsLeaf(end) /\ end[2] # key
<1>8. find_key_internal(top, store, key) =
        [ ok              |-> end = Zero \/ (IsLeaf(end) /\ end \in store),
          found           |-> IsLeaf(end) /\ end[2] = key,
          siblings        |-> [i \in 1..d |-> Child(at[i - 1], ~ split_bits(key, i - 1))],
          found_value     |-> IF IsLeaf(end) /\ ~ other THEN end[3] ELSE 0,
          not_found_key   |-> IF end = Zero THEN key ELSE IF other THEN end[2] ELSE 0,
          not_found_value |-> IF other THEN end[3] ELSE 0,
          is_old0         |-> end = Zero ]
  <2>1. find_key_internal(top, store, key) =
        [ ok              |-> at[depth] = Zero \/ (IsLeaf(at[depth]) /\ at[depth] \in store),
          found           |-> IsLeaf(at[depth]) /\ at[depth][2] = key,
          siblings        |-> [i \in 1..depth |-> Child(at[i - 1], ~ split_bits(key, i - 1))],
          found_value     |-> IF IsLeaf(at[depth]) /\ ~ (IsLeaf(at[depth]) /\ at[depth][2] # key)
                              THEN at[depth][3] ELSE 0,
          not_found_key   |-> IF at[depth] = Zero THEN key
                              ELSE IF IsLeaf(at[depth]) /\ at[depth][2] # key THEN at[depth][2] ELSE 0,
          not_found_value |-> IF IsLeaf(at[depth]) /\ at[depth][2] # key THEN at[depth][3] ELSE 0,
          is_old0         |-> at[depth] = Zero ]
    BY Zenon DEF find_key_internal, at
  <2> HIDE DEF depth
  <2> QED
    BY <1>7, <2>1
<1> DEFINE f == find_key_internal(top, store, key)
           S == Under(P, key, d)
<1>14. PICK atEnd : atEnd = end
  OBVIOUS
<1>15. PICK sibs : sibs = [i \in 1..d |-> Child(at[i - 1], ~ split_bits(key, i - 1))]
  OBVIOUS
<1>16. /\ f.ok = (atEnd = Zero \/ (IsLeaf(atEnd) /\ atEnd \in store))
       /\ f.found = (IsLeaf(atEnd) /\ atEnd[2] = key)
       /\ f.siblings = sibs
       /\ f.found_value = IF IsLeaf(atEnd) /\ ~ (IsLeaf(atEnd) /\ atEnd[2] # key) THEN atEnd[3] ELSE 0
       /\ f.not_found_key = IF atEnd = Zero THEN key
                            ELSE IF IsLeaf(atEnd) /\ atEnd[2] # key THEN atEnd[2] ELSE 0
       /\ f.not_found_value = IF IsLeaf(atEnd) /\ atEnd[2] # key THEN atEnd[3] ELSE 0
       /\ f.is_old0 = (atEnd = Zero)
  <2>1. f = [ ok              |-> atEnd = Zero \/ (IsLeaf(atEnd) /\ atEnd \in store),
              found           |-> IsLeaf(atEnd) /\ atEnd[2] = key,
              siblings        |-> sibs,
              found_value     |-> IF IsLeaf(atEnd) /\ ~ (IsLeaf(atEnd) /\ atEnd[2] # key) THEN atEnd[3] ELSE 0,
              not_found_key   |-> IF atEnd = Zero THEN key
                                  ELSE IF IsLeaf(atEnd) /\ atEnd[2] # key THEN atEnd[2] ELSE 0,
              not_found_value |-> IF IsLeaf(atEnd) /\ atEnd[2] # key THEN atEnd[3] ELSE 0,
              is_old0         |-> atEnd = Zero ]
    BY <1>8, <1>14, <1>15, Zenon
  <2> HIDE DEF f
  <2> QED
    BY <2>1, Zenon
<1>9. end = TreeOf(S, d) /\ d \in 0..d
  BY <1>4
<1>10. S \subseteq Pairs
  BY <1>5 DEF Coherent
<1>11. f.siblings = [i \in 1..d |-> TreeOf(Beside(P, key, i - 1), i)]
  <2>1. f.siblings = [i \in 1..d |-> Child(at[i - 1], ~ split_bits(key, i - 1))]
    BY <1>15, <1>16
  <2>2. ASSUME NEW i \in 1..d PROVE Child(at[i - 1], ~ split_bits(key, i - 1)) = TreeOf(Beside(P, key, i - 1), i)
    <3>1. PICK j \in 0..(d - 1) : j = i - 1 /\ j + 1 = i
      OBVIOUS
    <3>2. at[j] = Node(j)
      BY <1>4, <3>1
    <3>3. Child(at[j], ~ split_bits(key, j)) = TreeOf(Beside(P, key, j), j + 1)
      BY <1>3, <3>2
    <3> QED
      BY <3>1, <3>3
  <2> HIDE DEF f
  <2> QED
    BY <2>1, <2>2
<1>12. CASE S = {}
  <2>1. end = Zero
    BY <1>9, <1>10, <1>12, TreeUnfold
  <2> HIDE DEF end, S
  <2>2. /\ f.ok /\ ~ f.found /\ f.is_old0 /\ f.not_found_key = key /\ f.not_found_value = 0
    BY <1>14, <1>16, <2>1, HashFacts
  <2> HIDE DEF f
  <2> QED
    BY <1>1, <1>11, <1>12, <2>2 DEF FoundAt, f, S
<1>13. CASE S # {}
  <2>1. PICK e : S = {e}
    <3>1. Single(S)
      BY <1>1, <1>13, Sizes
    <3> QED
      BY <3>1 DEF Single
  <2>2. end = hash_leaf(e[1], e[2])
    BY <1>9, <1>10, <2>1, TreeUnfold
  <2>3. IsLeaf(end) /\ end # Zero /\ end[2] = e[1] /\ end[3] = e[2]
    BY <2>2, HashFacts
  <2>4. end \in store
    BY <1>9, <2>3 DEF HasNodes
  <2> HIDE DEF end, S
  <2>5. /\ f.ok /\ (f.found <=> e[1] = key) /\ ~ f.is_old0
        /\ IF e[1] = key THEN f.found_value = e[2]
           ELSE f.not_found_key = e[1] /\ f.not_found_value = e[2]
    <3>1. IsLeaf(atEnd) /\ atEnd # Zero /\ atEnd[2] = e[1] /\ atEnd[3] = e[2] /\ atEnd \in store
      BY <1>14, <2>3, <2>4
    <3>2. f.ok /\ (f.found <=> e[1] = key) /\ ~ f.is_old0
      BY <1>16, <3>1
    <3>3. e[1] = key => f.found_value = e[2]
      BY <1>16, <3>1
    <3>4. e[1] # key => f.not_found_key = e[1] /\ f.not_found_value = e[2]
      BY <1>16, <3>1
    <3> QED
      BY <3>2, <3>3, <3>4
  <2>6. e \in S /\ \A x \in S : x = e
    BY <2>1
  <2> HIDE DEF f
  <2> QED
    BY <1>1, <1>11, <1>13, <2>5, <2>6 DEF FoundAt, f, S
<1> QED
  BY <1>12, <1>13

-----------------------------------------------------------------------------
(* Rebuilding a path.                                                      *)

\* Two keys part at the length of their common prefix.
LEMMA CommonPrefixFacts ==
  ASSUME NEW a \in Keys, NEW b \in Keys, a # b
  PROVE  /\ CommonPrefix(a, b) \in 0..(KeyBits - 1)
         /\ Agree(a, b, CommonPrefix(a, b))
         /\ split_bits(a, CommonPrefix(a, b)) # split_bits(b, CommonPrefix(a, b))
         /\ \A m \in 0..KeyBits : Agree(a, b, m) => m <= CommonPrefix(a, b)
<1> DEFINE T == {i \in 0..(KeyBits - 1) : split_bits(a, i) # split_bits(b, i)}
           Parting(n) == /\ \A i \in 0..(n - 1) : split_bits(a, i) = split_bits(b, i)
                         /\ n = KeyBits \/ split_bits(a, n) # split_bits(b, n)
<1>1. T # {} /\ T \subseteq Nat
  <2>1. ~ Agree(a, b, KeyBits)
    BY SameBits
  <2> QED
    BY <2>1, BitLevels DEF Agree
<1>2. PICK c \in T : \A y \in T : c <= y
  BY <1>1, Least
<1>3. c \in 0..KeyBits /\ Parting(c)
  <2>1. ASSUME NEW i \in 0..(c - 1) PROVE split_bits(a, i) = split_bits(b, i)
    <3>1. i \in 0..(KeyBits - 1) /\ ~ (c <= i)
      BY <1>2, BitLevels
    <3> QED
      BY <1>2, <3>1
  <2> QED
    BY <1>2, <2>1, BitLevels
<1>4. ASSUME NEW n \in 0..KeyBits, Parting(n) PROVE n = c
  <2>1. CASE n < c
    <3>1. n \in 0..(c - 1) /\ n # KeyBits
      BY <1>2, <2>1, BitLevels
    <3> QED
      BY <1>3, <1>4, <3>1
  <2>2. CASE c < n
    <3>1. c \in 0..(n - 1)
      BY <1>2, <2>2
    <3> QED
      BY <1>2, <1>4, <3>1
  <2> QED
    BY <1>2, <2>1, <2>2, BitLevels
<1>5. CommonPrefix(a, b) = c
  <2>1. CommonPrefix(a, b) = CHOOSE n \in 0..KeyBits : Parting(n)
    BY DEF CommonPrefix
  <2> HIDE DEF Parting
  <2> QED
    BY <1>3, <1>4, <2>1
<1>6. ASSUME NEW m \in 0..KeyBits, Agree(a, b, m) PROVE m <= c
  <2>1. CASE c < m
    <3>1. c \in 0..(m - 1)
      BY <1>2, <2>1
    <3> QED
      BY <1>2, <1>6, <3>1 DEF Agree
  <2> QED
    BY <1>2, <2>1, BitLevels
<1> QED
  BY <1>2, <1>3, <1>5, <1>6 DEF Agree

\* The level a path is rebuilt from is that of its last sibling that is not empty.
LEMMA RebuiltFromFacts ==
  ASSUME NEW s, NEW n \in Nat, Len(s) = n, DOMAIN s = 1..n
  PROVE  /\ RebuiltFrom(s) \in 0..n
         /\ RebuiltFrom(s) # 0 => s[RebuiltFrom(s)] # Zero
         /\ \A i \in (RebuiltFrom(s) + 1)..n : s[i] = Zero
<1> DEFINE full == {i \in DOMAIN s : s[i] # Zero}
           From(i) == (i = 0 \/ i \in full) /\ \A j \in full : j <= i
           T == {k \in 0..n : n - k \in full \/ k = n}
<1>1. T # {} /\ T \subseteq Nat
  <2>1. n \in T
    OBVIOUS
  <2>2. \A k \in T : k \in Nat
    OBVIOUS
  <2> HIDE DEF T
  <2> QED
    BY <2>1, <2>2, Zenon
<1>2. PICK k \in T : \A y \in T : k <= y
  BY <1>1, Least, Zenon
<1>3. PICK r \in 0..n : r = n - k
  BY <1>2
<1>4. From(r)
  <2>1. r = 0 \/ r \in full
    BY <1>2, <1>3
  <2>2. ASSUME NEW j \in full PROVE j <= r
    <3>1. j \in 1..n /\ n - j \in 0..n /\ n - (n - j) = j
      OBVIOUS
    <3>2. n - j \in T
      BY <3>1
    <3>3. k <= n - j
      BY <1>2, <3>2
    <3> QED
      BY <1>2, <1>3, <3>1, <3>3
  <2> QED
    BY <2>1, <2>2
<1>5. RebuiltFrom(s) = CHOOSE i \in 0..n : From(i)
  BY DEF RebuiltFrom
<1>6. RebuiltFrom(s) \in 0..n /\ From(RebuiltFrom(s))
  <2> HIDE DEF From
  <2> QED
    BY <1>4, <1>5
<1> QED
  BY <1>6

\* A rewritten store has what was stored on the way, or was there before, and was never
\* removed; and has nothing else.
LEMMA RewrittenFacts ==
  ASSUME NEW store, NEW gone, NEW added, Len(added) \in Nat
  PROVE  /\ \A h : /\ h \in store \/ \E i \in 1..Len(added) : h \in added[i]
                   /\ \A i \in 1..Len(added) : h \notin gone[i]
                   => h \in Rewritten(store, gone, added)
         /\ \A h \in Rewritten(store, gone, added) :
              h \in store \/ \E i \in 1..Len(added) : h \in added[i]
<1> DEFINE n == Len(added)
<1>0. n \in Nat
  OBVIOUS
<1>1. PICK up : /\ up[n + 1] = store /\ Rewritten(store, gone, added) = up[1]
                /\ \A i \in 1..n : up[i] = (up[i + 1] \ gone[i]) \union added[i]
  BY RewrittenUnfold
<1> HIDE DEF n
<1>2. ASSUME NEW h, \A i \in 1..n : h \notin gone[i], NEW j \in 1..(n + 1), h \in up[j]
      PROVE  h \in up[1]
  <2> DEFINE D == {k \in 0..(j - 1) : h \in up[j - k]}
  <2>1. 0 \in D
    <3>1. j - 0 = j
      BY <1>0
    <3> QED
      BY <1>0, <1>2, <3>1
  <2>2. ASSUME NEW k \in 0..((j - 1) - 1), k \in D PROVE k + 1 \in D
    <3>1. PICK i \in 1..n : i = j - (k + 1)
      BY <1>0
    <3>2. i + 1 = j - k /\ k + 1 \in 0..(j - 1)
      BY <1>0, <3>1
    <3> QED
      BY <1>1, <1>2, <2>2, <3>1, <3>2
  <2>3. j - 1 \in Nat /\ j - 1 \in 0..(j - 1) /\ j - (j - 1) = 1
    BY <1>0
  <2> HIDE DEF D
  <2>4. \A k \in 0..(j - 1) : k \in D
    BY <2>1, <2>2, <2>3, Induct
  <2> QED
    BY <2>3, <2>4 DEF D
<1>3. ASSUME NEW h, h \in store \/ \E i \in 1..n : h \in added[i], \A i \in 1..n : h \notin gone[i]
      PROVE  h \in up[1]
  <2>1. CASE h \in store
    <3>1. n + 1 \in 1..(n + 1)
      BY <1>0
    <3> QED
      BY <1>1, <1>2, <1>3, <2>1, <3>1
  <2>2. CASE \E i \in 1..n : h \in added[i]
    <3>1. PICK i \in 1..n : h \in added[i]
      BY <2>2
    <3>2. i \in 1..(n + 1) /\ h \in up[i]
      BY <1>0, <1>1, <3>1
    <3> QED
      BY <1>2, <1>3, <3>2
  <2> QED
    BY <1>3, <2>1, <2>2
<1>4. ASSUME NEW h \in up[1] PROVE h \in store \/ \E i \in 1..n : h \in added[i]
  <2> SUFFICES ASSUME h \notin store, \A i \in 1..n : h \notin added[i] PROVE FALSE
    OBVIOUS
  <2> DEFINE D == {k \in 0..n : h \in up[k + 1]}
  <2>1. 0 \in D
    BY <1>0, <1>4
  <2>2. ASSUME NEW k \in 0..(n - 1), k \in D PROVE k + 1 \in D
    <3>1. k + 1 \in 1..n /\ k + 1 \in 0..n
      BY <1>0
    <3>2. up[k + 1] = (up[(k + 1) + 1] \ gone[k + 1]) \union added[k + 1]
      BY <1>1, <3>1
    <3> QED
      BY <2>2, <3>1, <3>2
  <2> HIDE DEF D
  <2>3. n \in D
    <3>1. n \in 0..n
      BY <1>0
    <3> QED
      BY <1>0, <2>1, <2>2, <3>1, Induct
  <2> QED
    BY <1>1, <2>3 DEF D
<1> QED
  BY <1>1, <1>3, <1>4 DEF n

\* The levels of a path that is joined upwards.
LEMMA RehashedSteps ==
  ASSUME NEW key, NEW siblings, NEW joined, NEW end, NEW n \in Nat, Len(siblings) = n
  PROVE  /\ Rehashed(key, siblings, joined, end)[n + 1] = end
         /\ \A i \in 1..n :
              Rehashed(key, siblings, joined, end)[i] =
                IF i \in joined
                THEN Join(key, i - 1, Rehashed(key, siblings, joined, end)[i + 1], siblings[i])
                ELSE Rehashed(key, siblings, joined, end)[i + 1]
<1>1. Len(siblings) \in Nat
  OBVIOUS
<1>2. /\ Rehashed(key, siblings, joined, end)[Len(siblings) + 1] = end
      /\ \A i \in 1..Len(siblings) :
           Rehashed(key, siblings, joined, end)[i] =
             IF i \in joined
             THEN Join(key, i - 1, Rehashed(key, siblings, joined, end)[i + 1], siblings[i])
             ELSE Rehashed(key, siblings, joined, end)[i + 1]
  BY <1>1, RehashedUnfold
<1> QED
  BY <1>2

\* The first m levels of a path of n are joined.
FirstLevels(joined, n, m) == \A i \in 1..n : i \in joined <=> i <= m

\* The siblings s are those beside the first m levels of a key's path, where pairs part.
SidePath(P, key, s, m) ==
  \A i \in 1..m : Big(Under(P, key, i - 1)) /\ s[i] = TreeOf(Beside(P, key, i - 1), i)

\* A path that is joined up from the node of a key with the siblings beside it gives
\* the nodes of the tree.
LEMMA PathIsTree ==
  ASSUME NEW P, OneValue(P), NEW key \in Keys, NEW siblings, NEW n \in Nat, Len(siblings) = n,
         NEW m \in 0..n, m <= KeyBits, NEW joined, FirstLevels(joined, n, m),
         NEW end, end = TreeOf(Under(P, key, m), m),
         SidePath(P, key, siblings, m)
  PROVE  \A i \in 1..(m + 1) : Rehashed(key, siblings, joined, end)[i] = TreeOf(Under(P, key, i - 1), i - 1)
<1> DEFINE up == Rehashed(key, siblings, joined, end)
<1>1. /\ up[n + 1] = end
      /\ \A i \in 1..n : up[i] = IF i \in joined THEN Join(key, i - 1, up[i + 1], siblings[i]) ELSE up[i + 1]
  BY RehashedSteps
<1> HIDE DEF up
<1>2. up[m + 1] = end
  <2> DEFINE D == {k \in 0..(n - m) : up[n + 1 - k] = end}
  <2>1. 0 \in D
    <3>1. n + 1 - 0 = n + 1
      OBVIOUS
    <3> QED
      BY <1>1, <3>1
  <2>2. ASSUME NEW k \in 0..((n - m) - 1), k \in D PROVE k + 1 \in D
    <3>1. PICK i \in 1..n : i = n + 1 - (k + 1)
      OBVIOUS
    <3>2. i + 1 = n + 1 - k /\ ~ (i <= m) /\ k + 1 \in 0..(n - m)
      BY <3>1
    <3>3. up[i] = up[i + 1]
      BY <1>1, <3>2 DEF FirstLevels
    <3> QED
      BY <2>2, <3>1, <3>2, <3>3
  <2>3. n - m \in Nat /\ n - m \in 0..(n - m) /\ n + 1 - (n - m) = m + 1
    OBVIOUS
  <2> HIDE DEF D
  <2>4. n - m \in D
    BY <2>1, <2>2, <2>3, Induct
  <2> QED
    BY <2>3, <2>4 DEF D
<1> DEFINE D == {k \in 0..m : up[m + 1 - k] = TreeOf(Under(P, key, m - k), m - k)}
<1>3. 0 \in D
  <2>1. m + 1 - 0 = m + 1 /\ m - 0 = m
    OBVIOUS
  <2> QED
    BY <1>2, <2>1
<1>4. ASSUME NEW k \in 0..(m - 1), k \in D PROVE k + 1 \in D
  <2>1. PICK l \in 0..(m - 1) : l = m - (k + 1)
    OBVIOUS
  <2>2. PICK i \in 1..m : i = l + 1
    OBVIOUS
  <2>3. /\ m + 1 - (k + 1) = i /\ m + 1 - k = i + 1 /\ m - k = i /\ k + 1 \in 0..m
        /\ i \in 1..n /\ i <= m /\ i - 1 = l /\ l \in 0..KeyBits
    BY <2>1, <2>2, BitLevels
  <2>4. up[i + 1] = TreeOf(Under(P, key, i), i)
    BY <1>4, <2>3
  <2>5. up[i] = Join(key, l, up[i + 1], siblings[i])
    BY <1>1, <2>3 DEF FirstLevels
  <2>6. Big(Under(P, key, l)) /\ siblings[i] = TreeOf(Beside(P, key, l), i)
    BY <2>3 DEF SidePath
  <2>7. TreeOf(Under(P, key, l), l) = Join(key, l, TreeOf(Under(P, key, l + 1), l + 1),
                                                   TreeOf(Beside(P, key, l), l + 1))
    BY <2>3, <2>6, PathStep
  <2>8. up[i] = TreeOf(Under(P, key, l), l)
    BY <2>2, <2>4, <2>5, <2>6, <2>7
  <2> QED
    BY <2>1, <2>3, <2>8
<1> HIDE DEF D
<1>5. \A k \in 0..m : k \in D
  <2>1. m \in Nat
    OBVIOUS
  <2> QED
    BY <1>3, <1>4, <2>1, Induct
<1>6. ASSUME NEW i \in 1..(m + 1) PROVE up[i] = TreeOf(Under(P, key, i - 1), i - 1)
  <2>1. PICK k \in 0..m : m + 1 - k = i /\ m - k = i - 1
    <3>1. m + 1 - i \in 0..m /\ m + 1 - (m + 1 - i) = i /\ m - (m + 1 - i) = i - 1
      OBVIOUS
    <3> QED
      BY <3>1
  <2> QED
    BY <1>5, <2>1 DEF D
<1> QED
  BY <1>6 DEF up

-----------------------------------------------------------------------------
(* The siblings of an insertion.                                           *)

\* A function on the first numbers is a sequence.
LEMMA IsSequence ==
  ASSUME NEW n \in Nat, NEW X, NEW a \in [1..n -> X]
  PROVE  a \in Seq(X) /\ Len(a) = n
<1>1. a \in Seq(X)
  BY SeqDef
<1>2. Len(a) \in Nat /\ DOMAIN a = 1..Len(a) /\ DOMAIN a = 1..n
  BY <1>1, LenProperties
<1>3. \A m \in Nat : 1..m = 1..n => m = n
  <2> SUFFICES ASSUME NEW m \in Nat, 1..m = 1..n PROVE m = n
    OBVIOUS
  <2>1. (m \in 1..m <=> m \in 1..n) /\ (n \in 1..m <=> n \in 1..n)
    OBVIOUS
  <2> QED
    BY <2>1
<1> QED
  BY <1>1, <1>2, <1>3

IsSeq(s) == \E X : s \in Seq(X)

\* The sequence t has the n elements of a, then the m of c, then b.
InTurn(t, n, m, a, c, b) ==
  /\ IsSeq(t) /\ Len(t) = n + m + 1
  /\ \A i \in 1..n : t[i] = a[i]
  /\ \A i \in (n + 1)..(n + m) : t[i] = c[i - n]
  /\ t[n + m + 1] = b

\* Two sequences and an element, one after the other.
LEMMA Extended ==
  ASSUME NEW n \in Nat, NEW m \in Nat, NEW X, NEW a \in [1..n -> X], NEW c \in [1..m -> X], NEW b \in X,
         NEW t, t = a \o c \o <<b>>
  PROVE  InTurn(t, n, m, a, c, b)
<1>1. a \in Seq(X) /\ Len(a) = n /\ c \in Seq(X) /\ Len(c) = m
  BY IsSequence
<1>2. PICK ac, e : ac = a \o c /\ e = <<b>> /\ t = ac \o e
  OBVIOUS
<1>3. e \in Seq(X) /\ Len(e) = 1 /\ e[1] = b
  BY <1>2
<1>4. /\ ac \in Seq(X) /\ Len(ac) = n + m
      /\ \A i \in 1..(n + m) : ac[i] = IF i <= n THEN a[i] ELSE c[i - n]
  BY <1>1, <1>2, ConcatProperties
<1>5. /\ t \in Seq(X) /\ Len(t) = n + m + 1
      /\ \A i \in 1..(n + m + 1) : t[i] = IF i <= n + m THEN ac[i] ELSE e[i - (n + m)]
  <2>1. /\ t \in Seq(X) /\ Len(t) = Len(ac) + Len(e)
        /\ \A i \in 1..(Len(ac) + Len(e)) : t[i] = IF i <= Len(ac) THEN ac[i] ELSE e[i - Len(ac)]
    <3>1. ac \in Seq(X) /\ e \in Seq(X)
      BY <1>3, <1>4
    <3>2. /\ ac \o e \in Seq(X) /\ Len(ac \o e) = Len(ac) + Len(e)
          /\ \A i \in 1..(Len(ac) + Len(e)) : (ac \o e)[i] = IF i <= Len(ac) THEN ac[i] ELSE e[i - Len(ac)]
      BY <3>1, ConcatProperties
    <3> QED
      BY <1>2, <3>2
  <2> QED
    BY <1>3, <1>4, <2>1
<1>6. ASSUME NEW i \in 1..n PROVE t[i] = a[i]
  <2>1. i \in 1..(n + m + 1) /\ i <= n + m /\ i \in 1..(n + m) /\ i <= n
    OBVIOUS
  <2> QED
    BY <1>4, <1>5, <2>1
<1>7. ASSUME NEW i \in (n + 1)..(n + m) PROVE t[i] = c[i - n]
  <2>1. i \in 1..(n + m + 1) /\ i <= n + m /\ i \in 1..(n + m) /\ ~ (i <= n)
    OBVIOUS
  <2> QED
    BY <1>4, <1>5, <2>1
<1>8. t[n + m + 1] = b
  <2>1. n + m + 1 \in 1..(n + m + 1) /\ ~ (n + m + 1 <= n + m) /\ n + m + 1 - (n + m) = 1
    OBVIOUS
  <2> QED
    BY <1>3, <1>5, <2>1
<1> QED
  <2>1. IsSeq(t)
    BY <1>5 DEF IsSeq
  <2> QED
    BY <1>5, <1>6, <1>7, <1>8, <2>1 DEF InTurn

\* The siblings s are those beside the first n levels of a key's path, and pairs are
\* below each of them.
FullPath(P, key, s, n) ==
  \A i \in 1..n : s[i] = TreeOf(Beside(P, key, i - 1), i) /\ Under(P, key, i - 1) # {}

\* The siblings s of a new leaf: those of the search, which ended at level d, then empty
\* ones and the old leaf down to level n, below which there is nothing.
NewSiblings(P, key, f, d, s, n) ==
  /\ IsSeq(s) /\ Len(s) = n
  /\ \A i \in 1..d : s[i] = f.siblings[i]
  /\ FullPath(P, key, s, n)
  /\ Under(P, key, n) = {}
  /\ d # 0 => s[d] # Zero
  /\ IF f.is_old0 THEN n = d ELSE n > d /\ \A i \in (d + 1)..(n - 1) : s[i] = Zero

\* The siblings of a new leaf: those of the search, and further ones down to where its
\* key parts from every other.
LEMMA InsertPath ==
  ASSUME NEW P, OneValue(P), NEW key \in Keys, NEW d \in 0..KeyBits, NEW f, FoundAt(P, key, f, d), ~ f.found
  PROVE  \E n \in d..KeyBits : NewSiblings(P, key, f, d, ExtendedSiblings(key, f), n)
<1> DEFINE s == ExtendedSiblings(key, f)
           Sib(i) == TreeOf(Beside(P, key, i - 1), i)
<1> HIDE DEF s
<1>1. /\ f.siblings = [i \in 1..d |-> Sib(i)]
      /\ f.is_old0 <=> Under(P, key, d) = {}
      /\ \A i \in 1..d : Under(P, key, i - 1) # {}
      /\ d # 0 => Beside(P, key, d - 1) # {}
      /\ ~ Big(Under(P, key, d))
  <2>1. \A i \in 1..d : i - 1 \in 0..(d - 1)
    OBVIOUS
  <2> QED
    BY <2>1, Sizes DEF FoundAt
<1> DEFINE a == [i \in 1..d |-> Sib(i)]
<1>2. \A i \in 1..d : a[i] = Sib(i)
  OBVIOUS
<1>3. d # 0 => Sib(d) # Zero
  <2> SUFFICES ASSUME d # 0 PROVE Sib(d) # Zero
    OBVIOUS
  <2>1. PICK l \in 0..KeyBits : l = d - 1 /\ l + 1 = d /\ l < KeyBits
    BY BitLevels
  <2>2. Coherent(Beside(P, key, l), l + 1) /\ l + 1 \in 0..KeyBits
    BY <2>1, UnderFacts
  <2>3. TreeOf(Beside(P, key, l), l + 1) # Zero
    BY <1>1, <2>1, <2>2, Shape
  <2> QED
    BY <2>1, <2>3
<1>4. CASE f.is_old0
  <2>1. s = a
    BY <1>1, <1>4 DEF s, ExtendedSiblings
  <2>2. IsSeq(s) /\ Len(s) = d
    <3>1. a \in [1..d -> {a[i] : i \in 1..d}]
      OBVIOUS
    <3> HIDE DEF a
    <3>2. a \in Seq({a[i] : i \in 1..d}) /\ Len(a) = d
      BY <3>1, IsSequence
    <3> QED
      BY <2>1, <3>2 DEF IsSeq
  <2>3. Under(P, key, d) = {}
    BY <1>1, <1>4
  <2>4. d \in d..KeyBits
    BY BitLevels
  <2> HIDE DEF a
  <2>5. d # 0 => s[d] # Zero
    <3>1. d # 0 => d \in 1..d
      OBVIOUS
    <3> QED
      BY <1>2, <1>3, <2>1, <3>1
  <2> QED
    BY <1>1, <1>2, <1>4, <2>1, <2>2, <2>3, <2>4, <2>5 DEF s, FullPath, NewSiblings
<1>5. CASE ~ f.is_old0
  <2>1. PICK o : Under(P, key, d) = {o}
    <3>1. Single(Under(P, key, d))
      BY <1>1, <1>5, Sizes
    <3> QED
      BY <3>1 DEF Single
  <2>2. o \in P /\ o[1] \in Keys /\ Agree(o[1], key, d)
    <3>1. o \in P /\ Agree(o[1], key, d)
      BY <2>1 DEF Under
    <3> QED
      BY <3>1 DEF OneValue, Pairs
  <2>3. o[1] # key /\ f.not_found_key = o[1] /\ f.not_found_value = o[2]
    BY <2>1 DEF FoundAt
  <2> DEFINE c == CommonPrefix(key, o[1])
             leaf == hash_leaf(o[1], o[2])
  <2>4. /\ c \in 0..(KeyBits - 1) /\ Agree(key, o[1], c) /\ (split_bits(key, c) # split_bits(o[1], c))
        /\ d <= c
    <3>1. Agree(key, o[1], d)
      BY <2>2, AgreeTransfers
    <3> QED
      BY <2>2, <2>3, <3>1, CommonPrefixFacts
  <2>5. Len(a) = d /\ a \in [1..d -> {a[i] : i \in 1..d} \union {Zero, leaf}]
    <3>1. a \in [1..d -> {a[i] : i \in 1..d}] /\ a \in [1..d -> {a[i] : i \in 1..d} \union {Zero, leaf}]
      OBVIOUS
    <3> HIDE DEF a
    <3> QED
      BY <3>1, IsSequence
  <2>6. s = a \o [i \in 1..(c - d) |-> Zero] \o <<leaf>>
    <3>1. f.siblings = a
      BY <1>1
    <3> HIDE DEF a
    <3> QED
      BY <1>5, <2>3, <2>5, <3>1 DEF s, ExtendedSiblings
  <2> HIDE DEF a, c, leaf
  <2>7. /\ IsSeq(s) /\ Len(s) = c + 1
        /\ \A i \in 1..d : s[i] = Sib(i)
        /\ \A i \in (d + 1)..c : s[i] = Zero
        /\ s[c + 1] = leaf
    <3>1. PICK m \in Nat : m = c - d
      BY <2>4
    <3>2. d + m + 1 = c + 1 /\ d + m = c
      BY <2>4, <3>1
    <3> DEFINE X == {a[i] : i \in 1..d} \union {Zero, leaf}
    <3>3. Zero \in X /\ leaf \in X /\ a \in [1..d -> X]
      BY <2>5
    <3> HIDE DEF X
    <3>4. PICK zeros : zeros = [i \in 1..m |-> Zero]
      OBVIOUS
    <3>5. zeros \in [1..m -> X] /\ s = a \o zeros \o <<leaf>>
      BY <2>6, <3>1, <3>3, <3>4
    <3>6. /\ IsSeq(s) /\ Len(s) = d + m + 1 /\ \A i \in 1..d : s[i] = a[i]
          /\ \A i \in (d + 1)..(d + m) : s[i] = zeros[i - d]
          /\ s[d + m + 1] = leaf
      <4>1. d \in Nat
        BY BitLevels
      <4>2. InTurn(s, d, m, a, zeros, leaf)
        BY <3>3, <3>5, <4>1, Extended
      <4> QED
        BY <4>2 DEF InTurn
    <3>7. ASSUME NEW i \in (d + 1)..(d + m) PROVE s[i] = Zero
      <4>1. i - d \in 1..m
        OBVIOUS
      <4> QED
        BY <3>4, <3>6, <4>1
    <3> QED
      BY <1>2, <3>2, <3>6, <3>7
  <2>8. \A l \in d..c : Under(P, key, l) = {o}
    <3>1. ASSUME NEW l \in d..c PROVE Under(P, key, l) = {o}
      <4>1. Agree(o[1], key, c)
        BY <2>4, AgreeTransfers
      <4>2. Agree(o[1], key, l)
        <5>1. c \in Nat /\ l \in 0..c
          BY <2>4
        <5> QED
          BY <4>1, <5>1, AgreeAbove
      <4>3. Under(P, key, l) \subseteq Under(P, key, d)
        <5>1. l \in Nat /\ d \in 0..l
          BY <2>4
        <5> QED
          BY <5>1, AgreeAbove DEF Under
      <4> QED
        BY <2>1, <2>2, <4>2, <4>3 DEF Under
    <3> QED
      BY <3>1
  <2>9. \A l \in d..(c - 1) : Beside(P, key, l) = {}
    <3>1. ASSUME NEW l \in d..(c - 1) PROVE Beside(P, key, l) = {}
      <4>1. split_bits(o[1], l) = split_bits(key, l)
        <5>1. l \in 0..(c - 1)
          BY <2>4
        <5> QED
          BY <2>4, <5>1 DEF Agree
      <4>2. Under(P, key, l) = {o}
        BY <2>4, <2>8
      <4> QED
        BY <4>1, <4>2 DEF Beside
    <3> QED
      BY <3>1
  <2>10. Beside(P, key, c) = {o} /\ Under(P, key, c + 1) = {}
    <3>1. Under(P, key, c) = {o}
      BY <2>4, <2>8
    <3>2. Beside(P, key, c) = {o}
      BY <2>4, <3>1 DEF Beside
    <3>3. c \in 0..KeyBits /\ c < KeyBits
      BY <2>4, BitLevels
    <3>4. Side(Under(P, key, c), c, split_bits(key, c)) = Under(P, key, c + 1)
      BY <3>3, UnderFacts
    <3>5. Side(Under(P, key, c), c, split_bits(key, c)) = {}
      BY <2>4, <3>1 DEF Side
    <3> QED
      BY <3>2, <3>4, <3>5
  <2>11. ASSUME NEW i \in 1..(c + 1)
         PROVE  s[i] = Sib(i) /\ Under(P, key, i - 1) # {}
    <3>1. CASE i <= d
      <4>1. i \in 1..d
        BY <2>4, <3>1
      <4> QED
        BY <1>1, <2>7, <4>1
    <3>2. CASE i > d /\ i <= c
      <4>1. i \in (d + 1)..c /\ i - 1 \in d..(c - 1) /\ i - 1 \in d..c /\ i \in 0..KeyBits
        BY <2>4, <3>2, BitLevels
      <4>2. Beside(P, key, i - 1) = {}
        BY <2>9, <4>1
      <4>3. Sib(i) = Zero
        <5>1. TreeOf({}, i) = Zero
          BY <4>1, TreeUnfold
        <5> QED
          BY <4>2, <5>1
      <4>4. s[i] = Zero
        BY <2>7, <4>1
      <4>5. Under(P, key, i - 1) = {o}
        BY <2>8, <4>1
      <4> QED
        BY <4>3, <4>4, <4>5
    <3>3. CASE i = c + 1
      <4>1. i - 1 = c /\ c \in d..c /\ i \in 0..KeyBits
        BY <2>4, <3>3, BitLevels
      <4>2. Beside(P, key, i - 1) = {o}
        BY <2>10, <4>1
      <4>3. Sib(i) = leaf
        <5>1. {o} \subseteq Pairs
          BY <2>2 DEF OneValue
        <5>2. TreeOf({o}, i) = leaf
          BY <4>1, <5>1, TreeUnfold DEF leaf
        <5> QED
          BY <4>2, <5>2
      <4>4. Under(P, key, i - 1) = {o}
        BY <2>8, <4>1
      <4> QED
        BY <2>7, <3>3, <4>3, <4>4
    <3> QED
      BY <2>4, <3>1, <3>2, <3>3
  <2>12. /\ c + 1 \in d..KeyBits /\ c + 1 > d /\ (c + 1) - 1 = c
         /\ d # 0 => d \in 1..d
    BY <2>4, BitLevels
  <2>13. d # 0 => s[d] # Zero
    BY <1>3, <2>7, <2>12
  <2>14. \A i \in 1..d : s[i] = f.siblings[i]
    <3>1. \A i \in 1..d : f.siblings[i] = Sib(i)
      BY <1>1
    <3> QED
      BY <2>7, <3>1
  <2>15. \A i \in (d + 1)..((c + 1) - 1) : s[i] = Zero
    BY <2>7, <2>12
  <2>16. \A i \in 1..(c + 1) : s[i] = Sib(i) /\ Under(P, key, i - 1) # {}
    BY <2>11
  <2>17. PICK n \in d..KeyBits : n = c + 1
    BY <2>12
  <2>18. /\ IsSeq(s) /\ Len(s) = n
         /\ \A i \in 1..n : s[i] = Sib(i) /\ Under(P, key, i - 1) # {}
         /\ Under(P, key, n) = {}
         /\ n > d /\ \A i \in (d + 1)..(n - 1) : s[i] = Zero
    BY <2>7, <2>10, <2>12, <2>15, <2>16, <2>17
  <2> QED
    BY <1>5, <2>13, <2>14, <2>18 DEF s, FullPath, NewSiblings
<1> QED
  BY <1>4, <1>5

-----------------------------------------------------------------------------
(* What an insertion changes.                                              *)

\* A new pair is below every node of its key's path and below no other.
Adds(P, Q, key, new) ==
  /\ \A l : Under(Q, key, l) = Under(P, key, l) \union {new}
  /\ \A l : Beside(Q, key, l) = Beside(P, key, l)
  /\ \A l, k : ~ Agree(key, k, l) => Under(Q, k, l) = Under(P, k, l)
  /\ \A l, k : Agree(key, k, l) => Under(Q, k, l) = Under(Q, key, l)

\* That is what adding it does.
LEMMA NewPair ==
  ASSUME NEW P, OneValue(P), NEW key \in Keys, Without(P, key), NEW new \in Pairs, new[1] = key,
         NEW Q, Q = P \union {new}
  PROVE  OneValue(Q) /\ Adds(P, Q, key, new)
<1>2. OneValue(Q)
  BY DEF OneValue, Without
<1>3. ASSUME NEW l PROVE Under(Q, key, l) = Under(P, key, l) \union {new}
  <2>1. Agree(key, key, l)
    BY DEF Agree
  <2> QED
    BY <2>1 DEF Under
<1>4. ASSUME NEW l PROVE Beside(Q, key, l) = Beside(P, key, l)
  BY <1>3 DEF Beside
<1>5. ASSUME NEW l, NEW k, ~ Agree(key, k, l) PROVE Under(Q, k, l) = Under(P, k, l)
  BY <1>5 DEF Under
<1>6. ASSUME NEW l, NEW k, Agree(key, k, l) PROVE Under(Q, k, l) = Under(Q, key, l)
  <2>1. \A e : Agree(e[1], k, l) <=> Agree(e[1], key, l)
    BY <1>6, AgreeTransfers
  <2> QED
    BY <2>1 DEF Under
<1> QED
  BY <1>2, <1>3, <1>4, <1>5, <1>6 DEF Adds

\* A node of one key's path is the hash of no node below which another key parted from
\* it.
LEMMA OtherPath ==
  ASSUME NEW P, OneValue(P), NEW key \in Keys, NEW k \in Keys, NEW l \in 0..KeyBits, NEW m \in 0..KeyBits,
         ~ Agree(key, k, l), Big(Under(P, key, m))
  PROVE  TreeOf(Under(P, k, l), l) # TreeOf(Under(P, key, m), m)
<1> SUFFICES ASSUME TreeOf(Under(P, k, l), l) = TreeOf(Under(P, key, m), m) PROVE FALSE
  OBVIOUS
<1> DEFINE S == Under(P, key, m)
<1>1. Coherent(Under(P, k, l), l) /\ Coherent(S, m)
  BY UnderFacts
<1>2. S = Under(P, k, l)
  BY <1>1, SameTree
<1>3. PICK e : e \in S
  BY Sizes
<1>4. Agree(e[1], key, m) /\ Agree(e[1], k, l)
  BY <1>2, <1>3 DEF Under
<1>5. CASE l <= m
  <2>1. m \in Nat /\ l \in 0..m
    BY <1>5
  <2>2. Agree(e[1], key, l)
    BY <1>4, <2>1, AgreeAbove
  <2>3. Agree(key, k, l)
    BY <1>4, <2>2, AgreeTransfers
  <2> QED
    BY <2>3
<1>6. CASE m < l
  <2>1. Coherent(S, l) /\ Big(S)
    BY <1>1, <1>2
  <2> HIDE DEF S
  <2>2. TreeOf(S, m) # TreeOf(S, l)
    BY <1>1, <1>6, <2>1, OtherLevel
  <2> QED
    BY <1>2, <2>2 DEF S
<1> QED
  BY <1>5, <1>6

\* The sets f hold the hashes of g for the first m of n levels.
Marked(f, g, n, m) == \A i \in 1..n : f[i] = IF i <= m THEN {g[i]} ELSE {}

\* The hashes g are those of the first m nodes of a key's path, where pairs part.
OldPath(P, key, g, m) ==
  \A i \in 1..m : Big(Under(P, key, i - 1)) /\ g[i] = TreeOf(Under(P, key, i - 1), i - 1)

\* Q has one pair more than P: its leaf goes to level n, below the siblings s; rt is the
\* rebuilt path, old the one that ended at level d.
Growth(P, Q, key, v, d, n, s, rt, old, gone, added) ==
  /\ Q = P \union {<<key, v>>} /\ Without(P, key) /\ Under(P, key, n) = {}
  /\ Len(s) = n /\ FullPath(P, key, s, n)
  /\ rt = Rehashed(key, s, 1..n, hash_leaf(key, v))
  /\ OldPath(P, key, old, d) /\ Marked(gone, old, n, d)
  /\ Len(added) = n /\ Marked(added, rt, n, n)

\* The tree of the pairs with a new one: its root is the rebuilt path's, and the store
\* has its nodes once it has lost the old path and got the new one.
LEMMA Grows ==
  ASSUME NEW P, OneValue(P), NEW Q, NEW key \in Keys, NEW v \in Nat,
         NEW store, HasNodes(P, store),
         NEW d \in 0..KeyBits, NEW n \in d..KeyBits, NEW s, NEW rt, NEW old, NEW gone, NEW added,
         Growth(P, Q, key, v, d, n, s, rt, old, gone, added)
  PROVE  /\ rt[1] = TreeOf(Q, 0)
         /\ HasNodes(Q, Rewritten(store \union {hash_leaf(key, v)}, gone, added))
<1> USE DEF Growth
<1> DEFINE leaf == hash_leaf(key, v)
           Node(i) == TreeOf(Under(Q, key, i), i)
<1>1. PICK new : new = <<key, v>> /\ new[1] = key /\ new[2] = v /\ new \in Pairs
  <2>1. <<key, v>>[1] = key /\ <<key, v>>[2] = v /\ <<key, v>> \in Pairs
    BY DEF Pairs
  <2> QED
    BY <2>1
<1>2. /\ OneValue(Q)
      /\ \A l : Under(Q, key, l) = Under(P, key, l) \union {new}
      /\ \A l : Beside(Q, key, l) = Beside(P, key, l)
      /\ \A l, k : ~ Agree(key, k, l) => Under(Q, k, l) = Under(P, k, l)
      /\ \A l, k : Agree(key, k, l) => Under(Q, k, l) = Under(Q, key, l)
  <2>1. Q = P \union {new}
    BY <1>1
  <2>2. new \in Pairs /\ new[1] = key /\ Without(P, key) /\ OneValue(P) /\ key \in Keys
    BY <1>1
  <2>3. OneValue(Q) /\ Adds(P, Q, key, new)
    BY <2>1, <2>2, NewPair, Zenon
  <2> QED
    BY <2>3 DEF Adds
<1>3. n \in Nat /\ n \in 0..n /\ n <= KeyBits /\ n \in 0..KeyBits
  BY BitLevels
<1>4. \A l \in 0..KeyBits : Under(Q, key, l) = {new} => Node(l) = leaf
  <2>1. {new} \subseteq Pairs
    BY <1>1
  <2>2. \A l \in 0..KeyBits : TreeOf({new}, l) = hash_leaf(new[1], new[2])
    BY <2>1, TreeUnfold
  <2> QED
    BY <1>1, <2>2
<1>5. \A i \in 1..(n + 1) : rt[i] = Node(i - 1)
  <2>1. leaf = Node(n)
    BY <1>2, <1>3, <1>4
  <2>2. ASSUME NEW i \in 1..n PROVE Big(Under(Q, key, i - 1)) /\ s[i] = TreeOf(Beside(Q, key, i - 1), i)
    <3>1. PICK e : e \in Under(P, key, i - 1)
      BY DEF FullPath
    <3>2. e # new
      BY <1>1, <3>1 DEF Under, Without
    <3>3. s[i] = TreeOf(Beside(P, key, i - 1), i)
      BY DEF FullPath
    <3> QED
      BY <1>2, <3>1, <3>2, <3>3 DEF Big
  <2>3. \A i \in 1..n : i \in 1..n <=> i <= n
    BY <1>3
  <2> HIDE DEF leaf
  <2>4. \A i \in 1..(n + 1) : Rehashed(key, s, 1..n, leaf)[i] = Node(i - 1)
    <3>1. PICK all : all = 1..n
      OBVIOUS
    <3>2. FirstLevels(all, n, n)
      BY <2>3, <3>1 DEF FirstLevels
    <3>3. SidePath(Q, key, s, n)
      BY <2>2 DEF SidePath
    <3>4. OneValue(Q) /\ leaf = TreeOf(Under(Q, key, n), n) /\ n <= KeyBits /\ n \in Nat /\ n \in 0..n
      BY <1>2, <1>3, <2>1
    <3>5. \A i \in 1..(n + 1) : Rehashed(key, s, all, leaf)[i] = TreeOf(Under(Q, key, i - 1), i - 1)
      BY <3>2, <3>3, <3>4, PathIsTree
    <3> QED
      BY <3>1, <3>5
  <2> QED
    BY <2>4 DEF leaf
<1>6. rt[1] = TreeOf(Q, 0)
  <2>1. 1 \in 1..(n + 1) /\ 1 - 1 = 0
    BY <1>3
  <2>2. Under(Q, key, 0) = Q
    BY <1>2, UnderFacts, BitLevels
  <2> QED
    BY <1>5, <2>1, <2>2
<1> DEFINE after == Rewritten(store \union {leaf}, gone, added)
<1>7. \A h : /\ h \in store \union {leaf} \/ \E i \in 1..n : h = rt[i]
             /\ \A i \in 1..d : h # old[i]
             => h \in after
  <2>1. PICK st : st = store \union {leaf}
    OBVIOUS
  <2>2. Len(added) \in Nat
    BY <1>3
  <2>3. \A h : /\ h \in st \/ \E i \in 1..Len(added) : h \in added[i]
               /\ \A i \in 1..Len(added) : h \notin gone[i]
               => h \in Rewritten(st, gone, added)
    BY <2>2, RewrittenFacts, Zenon
  <2>4. ASSUME NEW h, \A i \in 1..d : h # old[i] PROVE \A i \in 1..n : h \notin gone[i]
    <3>1. \A i \in 1..n : i <= d => i \in 1..d
      BY <1>3
    <3> QED
      BY <2>4, <3>1 DEF Marked
  <2>5. \A i \in 1..n : added[i] = {rt[i]}
    BY <1>3 DEF Marked
  <2> QED
    BY <2>1, <2>3, <2>4, <2>5
<1> HIDE DEF after
<1>8. ASSUME NEW k \in Keys, NEW l \in 0..KeyBits, NEW h, h = TreeOf(Under(Q, k, l), l), h # Zero
      PROVE  h \in after
  <2>1. CASE Agree(key, k, l)
    <3>1. h = Node(l)
      BY <1>2, <1>8, <2>1
    <3>2. h = leaf \/ \E i \in 1..n : h = rt[i]
      <4>1. CASE l < n
        <5>1. l + 1 \in 1..n /\ l + 1 \in 1..(n + 1) /\ (l + 1) - 1 = l
          BY <1>3, <4>1
        <5>2. rt[l + 1] = Node(l)
          BY <1>5, <5>1
        <5> QED
          BY <3>1, <5>1, <5>2
      <4>2. CASE n <= l
        <5>1. Under(P, key, l) = {}
          <6>1. l \in Nat /\ n \in 0..l
            BY <1>3, <4>2
          <6>2. Under(P, key, l) \subseteq Under(P, key, n)
            BY <6>1, AgreeAbove DEF Under
          <6> QED
            BY <6>2
        <5>2. Under(Q, key, l) = {new}
          BY <1>2, <5>1
        <5> QED
          BY <1>4, <3>1, <5>2
      <4> QED
        BY <1>3, <4>1, <4>2
    <3>3. \E i \in 1..(n + 1) : h = rt[i]
      <4>1. rt[n + 1] = leaf
        <5>1. n + 1 \in 1..(n + 1) /\ (n + 1) - 1 = n
          BY <1>3
        <5>2. rt[n + 1] = Node(n)
          BY <1>5, <5>1
        <5>3. Under(Q, key, n) = {new}
          BY <1>2
        <5> QED
          BY <1>3, <1>4, <5>2, <5>3
      <4>2. n + 1 \in 1..(n + 1) /\ \A i \in 1..n : i \in 1..(n + 1)
        BY <1>3
      <4> QED
        BY <3>2, <4>1, <4>2
    <3>4. ASSUME NEW i \in 1..d PROVE h # old[i]
      <4>1. PICK j \in 1..(n + 1) : h = rt[j]
        BY <3>3
      <4>2. PICK m \in 0..KeyBits : m = i - 1
        BY BitLevels
      <4>3. Coherent(Under(P, key, m), m) /\ Without(Under(P, key, m), key)
        <5>1. Coherent(Under(P, key, m), m)
          BY <4>2, UnderFacts
        <5> QED
          BY <5>1 DEF Under, Without
      <4>4. Len(s) \in Nat /\ j \in 1..(Len(s) + 1)
        BY <1>3
      <4>5. TreeOf(Under(P, key, m), m) # rt[j]
        <5>1. PICK all, S : all = 1..n /\ S = Under(P, key, m)
          OBVIOUS
        <5>2. Coherent(S, m) /\ Without(S, key)
          BY <4>3, <5>1
        <5>3. TreeOf(S, m) # Rehashed(key, s, all, hash_leaf(key, v))[j]
          BY <4>4, <5>2, NoKeyNoHash
        <5> QED
          BY <5>1, <5>3
      <4> QED
        BY <4>1, <4>2, <4>5 DEF OldPath
    <3> QED
      BY <1>7, <3>2, <3>4
  <2>2. CASE ~ Agree(key, k, l)
    <3>1. h = TreeOf(Under(P, k, l), l)
      BY <1>2, <1>8, <2>2
    <3>2. h \in store
      BY <1>8, <3>1 DEF HasNodes
    <3>3. ASSUME NEW i \in 1..d PROVE h # old[i]
      <4>1. PICK m \in 0..KeyBits : m = i - 1
        BY BitLevels
      <4>2. Big(Under(P, key, m)) /\ old[i] = TreeOf(Under(P, key, m), m)
        BY <4>1 DEF OldPath
      <4> QED
        BY <2>2, <3>1, <4>2, OtherPath
    <3> QED
      BY <1>7, <3>2, <3>3
  <2> QED
    BY <2>1, <2>2
<1>9. HasNodes(Q, after)
  BY <1>8 DEF HasNodes
<1> QED
  BY <1>6, <1>9 DEF after

-----------------------------------------------------------------------------
(* What a deletion changes.                                                *)

\* The store has the leaf of every pair.
LEMMA LeafStored ==
  ASSUME NEW P, OneValue(P), NEW store, HasNodes(P, store), NEW o \in P
  PROVE  hash_leaf(o[1], o[2]) \in store
<1>1. o \in Pairs /\ o[1] \in Keys /\ KeyBits \in 0..KeyBits
  BY BitLevels DEF OneValue, Pairs
<1>2. Under(P, o[1], KeyBits) = {o}
  <2>1. Agree(o[1], o[1], KeyBits)
    BY DEF Agree
  <2>2. ASSUME NEW e \in P, Agree(e[1], o[1], KeyBits) PROVE e = o
    <3>1. e[1] \in Keys
      BY DEF OneValue, Pairs
    <3>2. e[1] = o[1]
      BY <1>1, <2>2, <3>1, SameBits
    <3> QED
      BY <3>2 DEF OneValue
  <2> QED
    BY <2>1, <2>2 DEF Under
<1>3. TreeOf({o}, KeyBits) = hash_leaf(o[1], o[2])
  <2>1. {o} \subseteq Pairs
    BY <1>1
  <2> QED
    BY <1>1, <2>1, TreeUnfold
<1>4. hash_leaf(o[1], o[2]) # Zero
  BY HashFacts
<1> QED
  BY <1>1, <1>2, <1>3, <1>4 DEF HasNodes

\* The pairs without a key are those below the same nodes, but for that key's path.
Drops(P, Q, key) ==
  /\ \A l : Under(Q, key, l) = {e \in Under(P, key, l) : e[1] # key}
  /\ \A l : Beside(Q, key, l) = Beside(P, key, l)
  /\ \A l, k : ~ Agree(key, k, l) => Under(Q, k, l) = Under(P, k, l)
  /\ \A l, k : Agree(key, k, l) => Under(Q, k, l) = Under(Q, key, l)

\* That is what dropping it does.
LEMMA OldPair ==
  ASSUME NEW P, OneValue(P), NEW key \in Keys, NEW Q, Q = {e \in P : e[1] # key}
  PROVE  OneValue(Q) /\ Drops(P, Q, key) /\ Without(Q, key)
<1>1. OneValue(Q) /\ Without(Q, key)
  BY DEF OneValue, Without
<1>2. ASSUME NEW l PROVE Under(Q, key, l) = {e \in Under(P, key, l) : e[1] # key}
  BY DEF Under
<1>3. ASSUME NEW l PROVE Beside(Q, key, l) = Beside(P, key, l)
  BY <1>2 DEF Beside
<1>4. ASSUME NEW l, NEW k, ~ Agree(key, k, l) PROVE Under(Q, k, l) = Under(P, k, l)
  BY <1>4 DEF Under
<1>5. ASSUME NEW l, NEW k, Agree(key, k, l) PROVE Under(Q, k, l) = Under(Q, key, l)
  <2>1. \A e : Agree(e[1], k, l) <=> Agree(e[1], key, l)
    BY <1>5, AgreeTransfers
  <2> QED
    BY <2>1 DEF Under
<1> QED
  BY <1>1, <1>2, <1>3, <1>4, <1>5 DEF Drops

\* Q is P without a key, whose leaf was at level n, below the siblings s; old is the path
\* up from that leaf, rt the path rebuilt from level r.
Shrinkage(P, Q, key, v, n, r, s, rt, old, gone, added) ==
  /\ Q = {e \in P : e[1] # key}
  /\ Len(s) = n /\ SidePath(Q, key, s, r) /\ ~ Big(Under(Q, key, r))
  /\ rt = Rehashed(key, s, 1..r, TreeOf(Under(Q, key, r), r))
  /\ old = Rehashed(key, s, 1..n, hash_leaf(key, v))
  /\ Marked(gone, old, n, n) /\ Len(added) = n /\ Marked(added, rt, n, r)

\* The tree of the pairs without a key: its root is the rebuilt path's, and the store has
\* its nodes though everything joined up from the key's leaf was removed.
LEMMA Shrinks ==
  ASSUME NEW P, OneValue(P), NEW Q, NEW key \in Keys, NEW v,
         NEW store, HasNodes(P, store),
         NEW n \in Nat, NEW r \in 0..n, r <= KeyBits, NEW s, NEW rt, NEW old, NEW gone, NEW added,
         Shrinkage(P, Q, key, v, n, r, s, rt, old, gone, added)
  PROVE  /\ rt[1] = TreeOf(Q, 0)
         /\ HasNodes(Q, Rewritten(store \ {hash_leaf(key, v)}, gone, added))
<1> USE DEF Shrinkage
<1> DEFINE leaf == hash_leaf(key, v)
           Node(i) == TreeOf(Under(Q, key, i), i)
<1>1. OneValue(Q) /\ Drops(P, Q, key) /\ Without(Q, key)
  BY OldPair, Zenon
<1>2. r \in Nat /\ r \in 0..KeyBits
  BY BitLevels
<1>3. \A i \in 1..(r + 1) : rt[i] = Node(i - 1)
  <2>1. PICK end, joined : end = TreeOf(Under(Q, key, r), r) /\ joined = 1..r
    OBVIOUS
  <2>2. FirstLevels(joined, n, r)
    BY <1>2, <2>1 DEF FirstLevels
  <2>3. \A i \in 1..(r + 1) : Rehashed(key, s, joined, end)[i] = TreeOf(Under(Q, key, i - 1), i - 1)
    BY <1>1, <2>1, <2>2, PathIsTree
  <2> QED
    BY <2>1, <2>3
<1>4. rt[1] = TreeOf(Q, 0)
  <2>1. 1 \in 1..(r + 1) /\ 1 - 1 = 0
    BY <1>2
  <2>2. Under(Q, key, 0) = Q
    BY <1>1, UnderFacts, BitLevels
  <2> QED
    BY <1>3, <2>1, <2>2
<1>5. PICK st, after : st = store \ {leaf} /\ after = Rewritten(st, gone, added)
  OBVIOUS
<1>6. \A h : /\ h \in store \/ \E i \in 1..r : h = rt[i]
             /\ h # leaf /\ \A i \in 1..n : h # old[i]
             => h \in after
  <2>1. Len(added) \in Nat
    OBVIOUS
  <2>2. \A h : /\ h \in st \/ \E i \in 1..Len(added) : h \in added[i]
               /\ \A i \in 1..Len(added) : h \notin gone[i]
               => h \in Rewritten(st, gone, added)
    BY <2>1, RewrittenFacts, Zenon
  <2>3. ASSUME NEW h, \A i \in 1..n : h # old[i] PROVE \A i \in 1..n : h \notin gone[i]
    BY <2>3 DEF Marked
  <2>4. \A h : (\E i \in 1..r : h = rt[i]) => \E i \in 1..n : h \in added[i]
    <3>1. \A i \in 1..r : i \in 1..n /\ i <= r
      OBVIOUS
    <3> QED
      BY <3>1 DEF Marked
  <2>5. \A h : h \in store /\ h # leaf => h \in st
    BY <1>5
  <2> QED
    BY <1>5, <2>2, <2>3, <2>4, <2>5
<1>7. ASSUME NEW k \in Keys, NEW l \in 0..KeyBits, NEW h, h = TreeOf(Under(Q, k, l), l), h # Zero
      PROVE  h \in after
  <2>1. PICK S : S = Under(Q, k, l)
    OBVIOUS
  <2>2. Coherent(S, l) /\ Without(S, key)
    <3>1. Coherent(Under(Q, k, l), l)
      BY <1>1, UnderFacts
    <3>2. Without(Under(Q, k, l), key)
      BY <1>1 DEF Under, Without
    <3> QED
      BY <2>1, <3>1, <3>2
  <2>3. ASSUME NEW i \in 1..(n + 1) PROVE h # old[i]
    <3>1. PICK all : all = 1..n
      OBVIOUS
    <3>2. Len(s) \in Nat /\ i \in 1..(Len(s) + 1)
      OBVIOUS
    <3>3. TreeOf(S, l) # Rehashed(key, s, all, hash_leaf(key, v))[i]
      BY <2>2, <3>2, NoKeyNoHash
    <3> QED
      BY <1>7, <2>1, <3>1, <3>3
  <2>4. h # leaf /\ \A i \in 1..n : h # old[i]
    <3>1. old[n + 1] = leaf
      BY RehashedSteps
    <3>2. n + 1 \in 1..(n + 1) /\ \A i \in 1..n : i \in 1..(n + 1)
      OBVIOUS
    <3> QED
      BY <2>3, <3>1, <3>2
  <2>5. CASE Single(S)
    <3>1. PICK o : S = {o}
      BY <2>5 DEF Single
    <3>2. o \in P /\ {o} \subseteq Pairs
      <4>1. o \in Q
        BY <2>1, <3>1 DEF Under
      <4> QED
        BY <4>1 DEF OneValue
    <3>3. h = hash_leaf(o[1], o[2])
      <4>1. TreeOf({o}, l) = hash_leaf(o[1], o[2])
        BY <3>2, TreeUnfold
      <4> QED
        BY <1>7, <2>1, <3>1, <4>1
    <3>4. h \in store
      BY <3>2, <3>3, LeafStored
    <3> QED
      BY <1>6, <2>4, <3>4
  <2>6. CASE Big(S) /\ Agree(key, k, l)
    <3>1. S = Under(Q, key, l)
      BY <1>1, <2>1, <2>6 DEF Drops
    <3>2. l < r
      <4> SUFFICES ASSUME r <= l PROVE FALSE
        BY <1>2
      <4>1. l \in Nat /\ r \in 0..l
        BY <1>2
      <4>2. S \subseteq Under(Q, key, r)
        BY <3>1, <4>1, AgreeAbove DEF Under
      <4> QED
        BY <2>6, <4>2 DEF Big
    <3>3. l + 1 \in 1..r /\ l + 1 \in 1..(r + 1) /\ (l + 1) - 1 = l
      BY <1>2, <3>2
    <3>4. h = rt[l + 1]
      BY <1>3, <1>7, <2>1, <3>1, <3>3
    <3> QED
      BY <1>6, <2>4, <3>3, <3>4
  <2>7. CASE ~ Agree(key, k, l)
    <3>1. h = TreeOf(Under(P, k, l), l)
      BY <1>1, <1>7, <2>7 DEF Drops
    <3>2. h \in store
      BY <1>7, <3>1 DEF HasNodes
    <3> QED
      BY <1>6, <2>4, <3>2
  <2>8. S # {}
    <3>1. S = {} => TreeOf(S, l) = Zero
      BY <2>2, Shape
    <3> QED
      BY <1>7, <2>1, <3>1
  <2> QED
    BY <2>5, <2>6, <2>7, <2>8, Sizes
<1>8. HasNodes(Q, after)
  BY <1>7 DEF HasNodes
<1> QED
  BY <1>4, <1>5, <1>8

-----------------------------------------------------------------------------
(* The siblings of a deletion.                                             *)

\* The siblings that a search found, as a sequence.
LEMMA FoundSiblings ==
  ASSUME NEW P, OneValue(P), NEW key \in Keys, NEW d \in 0..KeyBits, NEW f, FoundAt(P, key, f, d)
  PROVE  /\ Len(f.siblings) = d /\ DOMAIN f.siblings = 1..d
         /\ \A i \in 1..d : f.siblings[i] = TreeOf(Beside(P, key, i - 1), i)
         /\ f.siblings = <<>> <=> d = 0
         /\ d # 0 => /\ Last(f.siblings) = f.siblings[d]
                     /\ Len(Front(f.siblings)) = d - 1 /\ DOMAIN Front(f.siblings) = 1..(d - 1)
                     /\ \A i \in 1..(d - 1) : Front(f.siblings)[i] = f.siblings[i]
<1>1. PICK s : s = f.siblings
  OBVIOUS
<1>2. s = [i \in 1..d |-> TreeOf(Beside(P, key, i - 1), i)]
  BY <1>1 DEF FoundAt
<1>3. DOMAIN s = 1..d /\ \A i \in 1..d : s[i] = TreeOf(Beside(P, key, i - 1), i)
  BY <1>2
<1>4. PICK X : s \in [1..d -> X]
  <2>1. s \in [1..d -> {s[i] : i \in 1..d}]
    BY <1>2
  <2> QED
    BY <2>1
<1>5. s \in Seq(X) /\ Len(s) = d
  BY <1>4, IsSequence
<1>6. s = <<>> <=> d = 0
  <2>1. d = 0 => s = <<>>
    BY <1>5, EmptySeq
  <2>2. s = <<>> => d = 0
    BY <1>5
  <2> QED
    BY <2>1, <2>2
<1>7. ASSUME d # 0
      PROVE  /\ Last(s) = s[d] /\ Len(Front(s)) = d - 1 /\ DOMAIN Front(s) = 1..(d - 1)
             /\ \A i \in 1..(d - 1) : Front(s)[i] = s[i]
  <2>1. Last(s) = s[d]
    BY <1>5 DEF Last
  <2>2. Front(s) = SubSeq(s, 1, d - 1)
    BY <1>5 DEF Front
  <2>3. /\ SubSeq(s, 1, d - 1) \in Seq(X) /\ Len(SubSeq(s, 1, d - 1)) = IF 1 <= d - 1 THEN (d - 1) - 1 + 1 ELSE 0
        /\ \A i \in 1..((d - 1) - 1 + 1) : SubSeq(s, 1, d - 1)[i] = s[1 + i - 1]
    <3>1. \A i \in 1..(d - 1) : s[i] \in X
      BY <1>4
    <3>2. PICK n \in Int : n = d - 1
      OBVIOUS
    <3>3. /\ SubSeq(s, 1, n) \in Seq(X) /\ Len(SubSeq(s, 1, n)) = IF 1 <= n THEN n - 1 + 1 ELSE 0
          /\ \A i \in 1..(n - 1 + 1) : SubSeq(s, 1, n)[i] = s[1 + i - 1]
      BY <3>1, <3>2, SubSeqProperties
    <3> QED
      BY <3>2, <3>3
  <2>4. Len(Front(s)) = d - 1 /\ Front(s) \in Seq(X)
    BY <1>7, <2>2, <2>3
  <2>5. DOMAIN Front(s) = 1..(d - 1)
    BY <2>4, LenProperties
  <2>6. ASSUME NEW i \in 1..(d - 1) PROVE Front(s)[i] = s[i]
    <3>1. i \in 1..((d - 1) - 1 + 1) /\ 1 + i - 1 = i
      OBVIOUS
    <3> QED
      BY <2>2, <2>3, <3>1
  <2> QED
    BY <2>1, <2>4, <2>5, <2>6
<1> QED
  BY <1>1, <1>3, <1>5, <1>6, <1>7

\* What is below a node is below the next one of the path or beside it.
LEMMA UnderSplits ==
  ASSUME NEW P, OneValue(P), NEW key \in Keys, NEW lvl \in 0..KeyBits, lvl < KeyBits
  PROVE  Under(P, key, lvl) = Under(P, key, lvl + 1) \union Beside(P, key, lvl)
BY UnderFacts

\* The n siblings s that a deletion leaves on the path: the path is rebuilt from level r.
LeftPath(Q, key, f, s, n, r) ==
  /\ Len(s) = n /\ RebuiltFrom(s) = r
  /\ SidePath(Q, key, s, r) /\ ~ Big(Under(Q, key, r))
  /\ TreeOf(Under(Q, key, r), r) = IF Promotes(f) THEN Last(f.siblings) ELSE Zero

\* The path of a deleted key is rebuilt from the last level with a sibling: there what
\* is left below is nothing, or one leaf, which moves up.
LEMMA DeletePath ==
  ASSUME NEW P, OneValue(P), NEW key \in Keys, NEW d \in 0..KeyBits, NEW f, FoundAt(P, key, f, d), f.found,
         NEW Q, Q = {e \in P : e[1] # key},
         NEW s, s = IF Promotes(f) THEN Front(f.siblings) ELSE f.siblings
  PROVE  \E n \in 0..KeyBits : \E r \in 0..n : LeftPath(Q, key, f, s, n, r)
<1>1. OneValue(Q) /\ Drops(P, Q, key)
  BY OldPair, Zenon
<1>2. /\ Len(f.siblings) = d /\ DOMAIN f.siblings = 1..d
      /\ \A i \in 1..d : f.siblings[i] = TreeOf(Beside(P, key, i - 1), i)
      /\ f.siblings = <<>> <=> d = 0
      /\ d # 0 => /\ Last(f.siblings) = f.siblings[d]
                  /\ Len(Front(f.siblings)) = d - 1 /\ DOMAIN Front(f.siblings) = 1..(d - 1)
                  /\ \A i \in 1..(d - 1) : Front(f.siblings)[i] = f.siblings[i]
  BY FoundSiblings
<1>3. PICK e : Under(P, key, d) = {e} /\ e[1] = key
  <2>1. PICK e \in Under(P, key, d) : e[1] = key
    BY DEF FoundAt
  <2>2. Under(P, key, d) = {e}
    BY <2>1, Sizes DEF FoundAt, Single
  <2> QED
    BY <2>1, <2>2
<1>4. Under(Q, key, d) = {}
  BY <1>1, <1>3 DEF Drops
<1>5. ASSUME NEW i \in 1..d
      PROVE  /\ i - 1 \in 0..KeyBits /\ i - 1 < KeyBits /\ i \in 0..KeyBits /\ (i - 1) + 1 = i
             /\ Coherent(Beside(P, key, i - 1), i)
             /\ Under(Q, key, i - 1) = Under(Q, key, i) \union Beside(Q, key, i - 1)
             /\ Beside(Q, key, i - 1) = Beside(P, key, i - 1)
             /\ Under(Q, key, i) \intersect Beside(Q, key, i - 1) = {}
  <2>1. PICK l \in 0..KeyBits : l = i - 1 /\ l < KeyBits /\ i \in 0..KeyBits /\ l + 1 = i
    BY BitLevels
  <2>2. Coherent(Beside(P, key, l), l + 1)
    BY <2>1, UnderFacts
  <2>3. Under(Q, key, l) = Under(Q, key, l + 1) \union Beside(Q, key, l)
    <3>1. OneValue(Q)
      BY <1>1
    <3>2. l \in 0..KeyBits /\ l < KeyBits
      BY <2>1
    <3> QED
      BY <3>1, <3>2, UnderSplits, Zenon
  <2>4. Beside(Q, key, l) = Beside(P, key, l)
    BY <1>1 DEF Drops
  <2>5. Under(Q, key, l + 1) \intersect Beside(Q, key, l) = {}
    <3>1. l \in 0..((l + 1) - 1)
      BY <2>1
    <3> QED
      BY <3>1 DEF Under, Beside, Agree
  <2> QED
    BY <2>1, <2>2, <2>3, <2>4, <2>5
<1>6. \A m \in 0..d : \A i \in 0..m : Under(Q, key, m) \subseteq Under(Q, key, i)
  <2>1. ASSUME NEW m \in 0..d, NEW i \in 0..m PROVE Under(Q, key, m) \subseteq Under(Q, key, i)
    <3>1. m \in Nat
      OBVIOUS
    <3> QED
      BY <3>1, AgreeAbove DEF Under
  <2> QED
    BY <2>1
<1>7. CASE ~ Promotes(f)
  <2>1. s = f.siblings /\ RebuiltFrom(s) = d
    <3>1. s = f.siblings
      BY <1>7
    <3>2. /\ RebuiltFrom(s) \in 0..d
          /\ \A i \in (RebuiltFrom(s) + 1)..d : s[i] = Zero
      BY <1>2, <3>1, RebuiltFromFacts
    <3>3. ASSUME d # 0 PROVE s[d] # Zero
      <4>1. d \in 1..d
        BY <3>3
      <4>2. s[d] = TreeOf(Beside(P, key, d - 1), d) /\ Coherent(Beside(P, key, d - 1), d)
        BY <1>2, <1>5, <3>1, <4>1
      <4>3. Beside(P, key, d - 1) # {}
        BY <3>3 DEF FoundAt
      <4> QED
        BY <4>2, <4>3, Shape
    <3>4. ASSUME RebuiltFrom(s) < d PROVE FALSE
      <4>1. d \in (RebuiltFrom(s) + 1)..d /\ d # 0
        BY <3>2, <3>4
      <4> QED
        BY <3>2, <3>3, <4>1
    <3> QED
      BY <3>1, <3>2, <3>4
  <2>2. ASSUME NEW i \in 1..d PROVE Big(Under(Q, key, i - 1)) /\ s[i] = TreeOf(Beside(Q, key, i - 1), i)
    <3>1. d \in 1..d /\ d # 0 /\ d - 1 \in 0..d /\ i - 1 \in 0..(d - 1)
      OBVIOUS
    <3>2. Big(Beside(P, key, d - 1))
      <4>1. Beside(P, key, d - 1) # {}
        BY <3>1 DEF FoundAt
      <4>2. ~ IsLeaf(TreeOf(Beside(P, key, d - 1), d))
        BY <1>2, <1>7, <3>1 DEF Promotes
      <4>3. Coherent(Beside(P, key, d - 1), d)
        BY <1>5, <3>1
      <4> QED
        BY <4>1, <4>2, <4>3, Shape, Sizes
    <3>3. Beside(P, key, d - 1) \subseteq Under(Q, key, d - 1)
      BY <1>5, <3>1
    <3>4. Under(Q, key, d - 1) \subseteq Under(Q, key, i - 1)
      BY <1>6, <3>1
    <3>5. Big(Under(Q, key, i - 1))
      BY <3>2, <3>3, <3>4 DEF Big
    <3>6. s[i] = TreeOf(Beside(Q, key, i - 1), i)
      BY <1>2, <1>5, <2>1
    <3> QED
      BY <3>5, <3>6
  <2>3. SidePath(Q, key, s, d)
    BY <2>2 DEF SidePath
  <2>4. ~ Big(Under(Q, key, d)) /\ TreeOf(Under(Q, key, d), d) = Zero
    BY <1>4, TreeUnfold, Sizes
  <2>5. d \in 0..d
    OBVIOUS
  <2> QED
    BY <1>2, <1>7, <2>1, <2>3, <2>4, <2>5 DEF LeftPath
<1>8. CASE Promotes(f)
  <2>1. d # 0 /\ d \in 1..d /\ IsLeaf(f.siblings[d]) /\ s = Front(f.siblings)
    BY <1>2, <1>8 DEF Promotes
  <2>2. PICK n \in 0..KeyBits : n = d - 1 /\ n + 1 = d /\ n < d
    BY <2>1, BitLevels
  <2>3. Len(s) = n /\ DOMAIN s = 1..n /\ \A i \in 1..n : s[i] = TreeOf(Beside(P, key, i - 1), i)
    <3>1. \A i \in 1..n : i \in 1..d /\ s[i] = f.siblings[i]
      BY <1>2, <2>1, <2>2
    <3> QED
      BY <1>2, <2>1, <2>2, <3>1
  <2>4. PICK r \in 0..n : /\ RebuiltFrom(s) = r
                          /\ r # 0 => s[r] # Zero
                          /\ \A i \in (r + 1)..n : s[i] = Zero
    <3>1. n \in Nat
      OBVIOUS
    <3> QED
      BY <2>3, <3>1, RebuiltFromFacts
  <2>5. PICK o : Beside(P, key, d - 1) = {o}
    <3>1. IsLeaf(TreeOf(Beside(P, key, d - 1), d)) /\ Coherent(Beside(P, key, d - 1), d)
      BY <1>2, <1>5, <2>1
    <3>2. Single(Beside(P, key, d - 1))
      BY <3>1, Shape
    <3> QED
      BY <3>2 DEF Single
  <2>6. Under(Q, key, n) = {o}
    BY <1>4, <1>5, <2>1, <2>2, <2>5
  <2>7. \A l \in r..n : Under(Q, key, l) = {o}
    <3> DEFINE D == {k \in 0..(n - r) : Under(Q, key, n - k) = {o}}
    <3>1. 0 \in D
      <4>1. n - 0 = n
        OBVIOUS
      <4> QED
        BY <2>6, <4>1
    <3>2. ASSUME NEW k \in 0..((n - r) - 1), k \in D PROVE k + 1 \in D
      <4>1. PICK i \in 1..d : i = n - k
        BY <2>2
      <4>2. i \in (r + 1)..n /\ i \in 1..n /\ n - (k + 1) = i - 1 /\ k + 1 \in 0..(n - r)
        BY <4>1
      <4>3. Beside(Q, key, i - 1) = {}
        <5>1. TreeOf(Beside(P, key, i - 1), i) = Zero
          BY <2>3, <2>4, <4>2
        <5>2. Coherent(Beside(P, key, i - 1), i) /\ Beside(Q, key, i - 1) = Beside(P, key, i - 1) /\ i \in 0..KeyBits
          BY <1>5
        <5> QED
          BY <5>1, <5>2, Shape
      <4>4. Under(Q, key, i - 1) = Under(Q, key, i)
        BY <1>5, <4>3
      <4> QED
        BY <3>2, <4>1, <4>2, <4>4
    <3>3. n - r \in Nat
      OBVIOUS
    <3> HIDE DEF D
    <3>4. \A k \in 0..(n - r) : k \in D
      BY <3>1, <3>2, <3>3, Induct
    <3>5. ASSUME NEW l \in r..n PROVE Under(Q, key, l) = {o}
      <4>1. PICK k \in 0..(n - r) : n - k = l
        <5>1. n - l \in 0..(n - r) /\ n - (n - l) = l
          OBVIOUS
        <5> QED
          BY <5>1
      <4> QED
        BY <3>4, <4>1 DEF D
    <3> QED
      BY <3>5
  <2>8. r \in r..n /\ Under(Q, key, r) = {o}
    BY <2>7
  <2>9. ASSUME NEW i \in 1..r PROVE Big(Under(Q, key, i - 1)) /\ s[i] = TreeOf(Beside(Q, key, i - 1), i)
    <3>1. r \in 1..d /\ r # 0 /\ r \in 1..n /\ i \in 1..n /\ i \in 1..d /\ i - 1 \in 0..(r - 1) /\ r - 1 \in 0..d
      BY <2>2
    <3>2. Beside(Q, key, r - 1) # {}
      <4>1. TreeOf(Beside(P, key, r - 1), r) # Zero
        BY <2>3, <2>4, <3>1
      <4>2. Coherent(Beside(P, key, r - 1), r) /\ Beside(Q, key, r - 1) = Beside(P, key, r - 1) /\ r \in 0..KeyBits
        BY <1>5, <3>1
      <4> QED
        BY <4>1, <4>2, Shape
    <3>3. Big(Under(Q, key, r - 1))
      <4>1. /\ Under(Q, key, r - 1) = Under(Q, key, r) \union Beside(Q, key, r - 1)
            /\ Under(Q, key, r) \intersect Beside(Q, key, r - 1) = {}
        BY <1>5, <3>1
      <4>2. PICK x : x \in Beside(Q, key, r - 1)
        BY <3>2
      <4>3. o \in Under(Q, key, r)
        BY <2>8
      <4>4. x \in Under(Q, key, r - 1) /\ o \in Under(Q, key, r - 1) /\ x # o
        BY <4>1, <4>2, <4>3
      <4> QED
        BY <4>4 DEF Big
    <3>4. Under(Q, key, r - 1) \subseteq Under(Q, key, i - 1)
      BY <1>6, <3>1
    <3>5. s[i] = TreeOf(Beside(Q, key, i - 1), i)
      BY <1>5, <2>3, <3>1
    <3> QED
      BY <3>3, <3>4, <3>5 DEF Big
  <2>10. SidePath(Q, key, s, r)
    BY <2>9 DEF SidePath
  <2>11. TreeOf(Under(Q, key, r), r) = Last(f.siblings) /\ ~ Big(Under(Q, key, r))
    <3>1. {o} \subseteq Pairs /\ r \in 0..KeyBits
      <4>1. o \in P
        BY <2>5 DEF Beside, Under
      <4> QED
        BY <2>2, <4>1, BitLevels DEF OneValue
    <3>2. \A l \in 0..KeyBits : TreeOf({o}, l) = hash_leaf(o[1], o[2])
      BY <3>1, TreeUnfold
    <3>3. Last(f.siblings) = TreeOf({o}, d)
      BY <1>2, <2>1, <2>5
    <3>4. ~ Big({o})
      BY DEF Big
    <3> QED
      BY <2>8, <3>1, <3>2, <3>3, <3>4
  <2> QED
    BY <1>8, <2>3, <2>4, <2>10, <2>11 DEF LeftPath
<1> QED
  BY <1>7, <1>8

-----------------------------------------------------------------------------
(* The contract's sparse tree: its invariant.                              *)

\* The root is the hash of the tree of the blocked pairs, one value to a key, and the
\* store has all of its nodes.
SmtInvariant ==
  /\ admin \in Admin
  /\ blocked \subseteq Keys \X Values
  /\ OneValue(blocked)
  /\ root = TreeOf(blocked, 0)
  /\ HasNodes(blocked, nodes)

\* What a search in the contract's tree answers.
LEMMA FindAt ==
  ASSUME SmtInvariant, NEW key \in Keys
  PROVE  \E d \in 0..KeyBits : FoundAt(blocked, key, find_key(key), d)
<1>1. PICK P, store, top : P = blocked /\ store = nodes /\ top = root
  OBVIOUS
<1>2. OneValue(P) /\ HasNodes(P, store) /\ top = TreeOf(P, 0)
  BY <1>1 DEF SmtInvariant
<1>3. \E d \in 0..KeyBits : FoundAt(P, key, find_key_internal(top, store, key), d)
  BY <1>2, Search
<1> QED
  BY <1>1, <1>3 DEF find_key

\* A search finds a key if it is blocked, with its value.
LEMMA FoundKey ==
  ASSUME NEW P, OneValue(P), NEW key \in Keys, NEW d \in 0..KeyBits, NEW f, FoundAt(P, key, f, d)
  PROVE  /\ f.found <=> ~ Without(P, key)
         /\ f.found => <<key, f.found_value>> \in P
<1>1. \A e \in P : e[1] = key => e \in Under(P, key, d)
  BY DEF Under, Agree
<1>2. \A e \in Under(P, key, d) : e \in P /\ e = <<e[1], e[2]>>
  BY DEF Under, OneValue, Pairs
<1>3. f.found <=> ~ Without(P, key)
  BY <1>1, <1>2 DEF FoundAt, Without
<1>4. ASSUME f.found PROVE <<key, f.found_value>> \in P
  <2>1. PICK e \in Under(P, key, d) : e[1] = key
    BY <1>4 DEF FoundAt
  <2>2. f.found_value = e[2]
    BY <2>1 DEF FoundAt
  <2> QED
    BY <1>2, <2>1, <2>2
<1> QED
  BY <1>3, <1>4

\* The end of the path of a key that is not blocked.
LEMMA NotFoundEnd ==
  ASSUME NEW P, OneValue(P), NEW key \in Keys, NEW d \in 0..KeyBits, NEW f, FoundAt(P, key, f, d), ~ f.found
  PROVE  TreeOf(Under(P, key, d), d) =
           IF f.is_old0 THEN Zero ELSE hash_leaf(f.not_found_key, f.not_found_value)
<1>1. Coherent(Under(P, key, d), d)
  BY UnderFacts
<1>2. CASE f.is_old0
  BY <1>1, <1>2, Shape DEF FoundAt
<1>3. CASE ~ f.is_old0
  <2>1. PICK o : Under(P, key, d) = {o}
    BY <1>3, Sizes DEF FoundAt, Single
  <2>2. o[1] # key /\ f.not_found_key = o[1] /\ f.not_found_value = o[2]
    BY <2>1 DEF FoundAt
  <2>3. {o} \subseteq Pairs
    BY <1>1, <2>1 DEF Coherent
  <2>4. TreeOf({o}, d) = hash_leaf(o[1], o[2])
    BY <2>3, TreeUnfold
  <2> QED
    BY <1>3, <2>1, <2>2, <2>4
<1> QED
  BY <1>2, <1>3

\* The old path that insert_leaf removes: the nodes of the search's path, level by level.
LEMMA InsertOld ==
  ASSUME NEW P, OneValue(P), NEW key \in Keys, NEW d \in 0..KeyBits, NEW f, FoundAt(P, key, f, d), ~ f.found,
         NEW n \in d..KeyBits,
         NEW joined, FirstLevels(joined, n, d), joined \subseteq 1..n,
         NEW s, s = [i \in 1..n |-> IF i <= Len(f.siblings) THEN f.siblings[i] ELSE Zero],
         NEW end, end = IF f.is_old0 THEN Zero ELSE hash_leaf(f.not_found_key, f.not_found_value)
  PROVE  OldPath(P, key, Rehashed(key, s, joined, end), d)
<1>1. n \in Nat /\ d \in 0..n /\ d <= KeyBits
  BY BitLevels
<1>2. Len(f.siblings) = d /\ \A i \in 1..d : f.siblings[i] = TreeOf(Beside(P, key, i - 1), i)
  BY FoundSiblings
<1>3. Len(s) = n
  <2>1. s \in [1..n -> {s[i] : i \in 1..n}]
    OBVIOUS
  <2> QED
    BY <1>1, <2>1, IsSequence
<1>4. \A i \in 1..d : Big(Under(P, key, i - 1)) /\ s[i] = TreeOf(Beside(P, key, i - 1), i)
  <2>1. ASSUME NEW i \in 1..d PROVE Big(Under(P, key, i - 1)) /\ s[i] = TreeOf(Beside(P, key, i - 1), i)
    <3>1. i \in 1..n /\ i <= d /\ i - 1 \in 0..(d - 1)
      BY <1>1
    <3> QED
      BY <1>2, <3>1 DEF FoundAt
  <2> QED
    BY <2>1
<1>5. end = TreeOf(Under(P, key, d), d) /\ SidePath(P, key, s, d)
  BY <1>4, NotFoundEnd DEF SidePath
<1>6. \A i \in 1..(d + 1) : Rehashed(key, s, joined, end)[i] = TreeOf(Under(P, key, i - 1), i - 1)
  BY <1>1, <1>3, <1>5, PathIsTree
<1>7. \A i \in 1..d : i \in 1..(d + 1)
  BY <1>1
<1> QED
  BY <1>4, <1>6, <1>7 DEF OldPath

\* insert_leaf keeps the invariant.
LEMMA InsertKeeps ==
  ASSUME SmtInvariant, NEW caller \in Admin, NEW key \in Keys, NEW value \in Values,
         insert_leaf(caller, key, value)
  PROVE  SmtInvariant'
<1> DEFINE f == find_key(key)
           s == ExtendedSiblings(key, f)
           leaf == hash_leaf(key, value)
           Mixed(i) == \/ f.is_old0 /\ Len(s) > 0
                       \/ \E j \in i..(Len(s) - 1) : s[j] # Zero
           Removes(i) == Mixed(i) /\ ~ (~ f.is_old0 /\ i = Len(s))
           olds == [i \in 1..Len(s) |-> IF i <= Len(f.siblings) THEN f.siblings[i] ELSE Zero]
           end == IF f.is_old0 THEN Zero ELSE hash_leaf(f.not_found_key, f.not_found_value)
           old == Rehashed(key, olds, {i \in 1..Len(s) : Removes(i)}, end)
           rt == Rehashed(key, s, 1..Len(s), leaf)
           gone == [i \in 1..Len(s) |-> IF Removes(i) THEN {old[i]} ELSE {}]
           added == [i \in 1..Len(s) |-> {rt[i]}]
<1>1. /\ ~ f.found
      /\ root' = rt[1]
      /\ nodes' = Rewritten(nodes \union {leaf}, gone, added)
      /\ blocked' = blocked \union {<<key, value>>}
      /\ admin' = admin
  BY Zenon DEF insert_leaf
<1>2. OneValue(blocked) /\ HasNodes(blocked, nodes) /\ blocked \subseteq Keys \X Values /\ admin \in Admin
  BY DEF SmtInvariant
<1>3. PICK d \in 0..KeyBits : FoundAt(blocked, key, f, d)
  BY FindAt
<1> HIDE DEF f
<1>4. PICK n \in d..KeyBits :
        /\ Len(s) = n
        /\ FullPath(blocked, key, s, n)
        /\ Under(blocked, key, n) = {}
        /\ d # 0 => s[d] # Zero
        /\ IF f.is_old0 THEN n = d ELSE n > d /\ \A i \in (d + 1)..(n - 1) : s[i] = Zero
  <2>1. \E n \in d..KeyBits : NewSiblings(blocked, key, f, d, s, n)
    BY <1>1, <1>2, <1>3, InsertPath, Zenon
  <2> QED
    BY <2>1, Zenon DEF NewSiblings
<1> HIDE DEF s, leaf
<1>5. \A i \in 1..n : Removes(i) <=> i <= d
  <2>1. ASSUME NEW i \in 1..n, f.is_old0 PROVE Removes(i) <=> i <= d
    <3>1. Len(s) > 0 /\ i <= d
      BY <1>4, <2>1
    <3> QED
      BY <2>1, <3>1
  <2>2. ASSUME NEW i \in 1..n, ~ f.is_old0 PROVE Removes(i) <=> i <= d
    <3>1. n > d /\ \A j \in (d + 1)..(n - 1) : s[j] = Zero
      BY <1>4, <2>2
    <3>2. CASE i <= d
      <4>1. d \in i..(n - 1) /\ d # 0 /\ i # n
        BY <3>1, <3>2
      <4>2. s[d] # Zero
        BY <1>4, <4>1
      <4> QED
        BY <1>4, <3>2, <4>1, <4>2
    <3>3. CASE ~ (i <= d)
      <4>1. \A j \in i..(n - 1) : j \in (d + 1)..(n - 1)
        BY <3>3
      <4>2. \A j \in i..(n - 1) : s[j] = Zero
        BY <3>1, <4>1
      <4> QED
        BY <1>4, <2>2, <3>3, <4>2
    <3> QED
      BY <3>2, <3>3
  <2> QED
    BY <2>1, <2>2
<1> HIDE DEF Removes
<1>6. OldPath(blocked, key, old, d)
  <2>1. PICK joined, sibs : joined = {i \in 1..n : Removes(i)} /\ sibs = olds
    OBVIOUS
  <2>2. FirstLevels(joined, n, d) /\ joined \subseteq 1..n
    BY <1>5, <2>1 DEF FirstLevels
  <2>3. sibs = [i \in 1..n |-> IF i <= Len(f.siblings) THEN f.siblings[i] ELSE Zero]
    BY <1>4, <2>1
  <2>4. OldPath(blocked, key, Rehashed(key, sibs, joined, end), d)
    BY <1>1, <1>2, <1>3, <2>2, <2>3, InsertOld
  <2> QED
    BY <1>4, <2>1, <2>4
<1> HIDE DEF olds, end, old
<1>7. Marked(gone, old, n, d) /\ Marked(added, rt, n, n) /\ Len(added) = n
  <2>1. Marked(gone, old, n, d)
    BY <1>4, <1>5 DEF Marked
  <2>2. Marked(added, rt, n, n)
    BY <1>4 DEF Marked
  <2>3. Len(added) = n
    <3>1. added \in [1..n -> {added[i] : i \in 1..n}] /\ n \in Nat
      BY <1>4
    <3> HIDE DEF added
    <3> QED
      BY <3>1, IsSequence
  <2> QED
    BY <2>1, <2>2, <2>3
<1>8. value \in Nat /\ <<key, value>> \in Pairs /\ <<key, value>>[1] = key /\ Without(blocked, key)
  <2>1. Without(blocked, key)
    BY <1>1, <1>2, <1>3, FoundKey
  <2>2. value \in Nat
    BY SmtAssumption
  <2> QED
    BY <2>1, <2>2 DEF Pairs
<1> HIDE DEF gone, added, rt
<1>9. PICK Q : Q = blocked \union {<<key, value>>}
  OBVIOUS
<1>10. rt = Rehashed(key, s, 1..n, hash_leaf(key, value))
  BY <1>4 DEF rt, leaf
<1>11. /\ rt[1] = TreeOf(Q, 0)
       /\ HasNodes(Q, Rewritten(nodes \union {hash_leaf(key, value)}, gone, added))
  <2>1. /\ OneValue(blocked) /\ HasNodes(blocked, nodes) /\ value \in Nat /\ Without(blocked, key)
        /\ FullPath(blocked, key, s, n) /\ Under(blocked, key, n) = {} /\ Len(s) = n
        /\ OldPath(blocked, key, old, d) /\ Marked(gone, old, n, d) /\ Len(added) = n /\ Marked(added, rt, n, n)
    BY <1>2, <1>4, <1>6, <1>7, <1>8
  <2>2. Growth(blocked, Q, key, value, d, n, s, rt, old, gone, added)
    BY <2>1, <1>9, <1>10, Zenon DEF Growth
  <2> QED
    BY <2>1, <2>2, Grows, Zenon
<1>12. OneValue(Q)
  <2>1. PICK new \in Pairs : new = <<key, value>> /\ new[1] = key
    BY <1>8
  <2>2. Q = blocked \union {new}
    BY <1>9, <2>1
  <2> QED
    BY <1>2, <1>8, <2>1, <2>2, NewPair, Zenon
<1>13. Q = blocked' /\ root' = TreeOf(Q, 0) /\ HasNodes(Q, nodes')
  BY <1>1, <1>9, <1>11 DEF leaf
<1>14. blocked' \subseteq Keys \X Values /\ admin' \in Admin
  BY <1>1, <1>2
<1>15. OneValue(blocked') /\ root' = TreeOf(blocked', 0) /\ HasNodes(blocked', nodes')
  BY <1>12, <1>13
<1> QED
  BY <1>14, <1>15 DEF SmtInvariant, OneValue, HasNodes

\* delete_leaf keeps the invariant.
LEMMA DeleteKeeps ==
  ASSUME SmtInvariant, NEW caller \in Admin, NEW key \in Keys, delete_leaf(caller, key)
  PROVE  SmtInvariant'
<1> DEFINE f == find_key(key)
           s == IF Promotes(f) THEN Front(f.siblings) ELSE f.siblings
           end == IF Promotes(f) THEN Last(f.siblings) ELSE Zero
           leaf == hash_leaf(key, f.found_value)
           rebuilt == 1..RebuiltFrom(s)
           old == Rehashed(key, s, 1..Len(s), leaf)
           rt == Rehashed(key, s, rebuilt, end)
           gone == [i \in 1..Len(s) |-> {old[i]}]
           added == [i \in 1..Len(s) |-> IF i \in rebuilt THEN {rt[i]} ELSE {}]
<1>1. /\ f.found
      /\ root' = rt[1]
      /\ nodes' = Rewritten(nodes \ {leaf}, gone, added)
      /\ blocked' = {e \in blocked : e[1] # key}
      /\ admin' = admin
  BY Zenon DEF delete_leaf, Deletable, RemovedFirst
<1>2. OneValue(blocked) /\ HasNodes(blocked, nodes) /\ blocked \subseteq Keys \X Values /\ admin \in Admin
  BY DEF SmtInvariant
<1>3. PICK d \in 0..KeyBits : FoundAt(blocked, key, f, d)
  BY FindAt
<1> HIDE DEF f
<1>4. PICK P, Q, sibs, store, v :
        /\ P = blocked /\ Q = {e \in P : e[1] # key} /\ sibs = s /\ store = nodes /\ v = f.found_value
  OBVIOUS
<1>5. PICK n \in 0..KeyBits : \E r \in 0..n : LeftPath(Q, key, f, sibs, n, r)
  <2>1. OneValue(P) /\ FoundAt(P, key, f, d) /\ f.found
    BY <1>1, <1>2, <1>3, <1>4
  <2>2. Q = {e \in P : e[1] # key} /\ sibs = IF Promotes(f) THEN Front(f.siblings) ELSE f.siblings
    BY <1>4
  <2> QED
    BY <2>1, <2>2, DeletePath, Zenon
<1>14. PICK r \in 0..n :
        /\ Len(sibs) = n /\ RebuiltFrom(sibs) = r
        /\ SidePath(Q, key, sibs, r) /\ ~ Big(Under(Q, key, r))
        /\ TreeOf(Under(Q, key, r), r) = end
  BY <1>5, Zenon DEF LeftPath
<1>6. s = sibs /\ Len(s) = n /\ rebuilt = 1..r /\ n \in Nat /\ r <= KeyBits
  BY <1>4, <1>14, BitLevels
<1> HIDE DEF s, end, rebuilt
<1>7. Marked(gone, old, n, n) /\ Marked(added, rt, n, r) /\ Len(added) = n
  <2>1. Marked(gone, old, n, n)
    BY <1>6 DEF Marked
  <2>2. Marked(added, rt, n, r)
    <3>1. \A i \in 1..n : i \in rebuilt <=> i <= r
      BY <1>6
    <3> QED
      BY <1>6, <3>1 DEF Marked
  <2>3. Len(added) = n
    <3>1. added \in [1..n -> {added[i] : i \in 1..n}]
      BY <1>6
    <3> HIDE DEF added
    <3> QED
      BY <1>6, <3>1, IsSequence
  <2> QED
    BY <2>1, <2>2, <2>3
<1>8. old = Rehashed(key, sibs, 1..n, hash_leaf(key, v)) /\ rt = Rehashed(key, sibs, 1..r, TreeOf(Under(Q, key, r), r))
  BY <1>4, <1>14, <1>6
<1> HIDE DEF gone, added, rt, old
<1>9. /\ rt[1] = TreeOf(Q, 0)
      /\ HasNodes(Q, Rewritten(store \ {hash_leaf(key, v)}, gone, added))
  <2>1. /\ OneValue(P) /\ HasNodes(P, store) /\ Len(sibs) = n /\ n \in Nat /\ r <= KeyBits
        /\ SidePath(Q, key, sibs, r) /\ ~ Big(Under(Q, key, r)) /\ Q = {e \in P : e[1] # key}
    BY <1>2, <1>4, <1>14, <1>6
  <2>2. Shrinkage(P, Q, key, v, n, r, sibs, rt, old, gone, added)
    BY <1>7, <1>8, <2>1, Zenon DEF Shrinkage
  <2> QED
    BY <2>1, <2>2, Shrinks
<1>10. OneValue(Q)
  <2>1. OneValue(P) /\ Q = {e \in P : e[1] # key}
    BY <1>2, <1>4
  <2> QED
    BY <2>1, OldPair, Zenon
<1>11. Q = blocked' /\ root' = TreeOf(Q, 0) /\ HasNodes(Q, nodes')
  BY <1>1, <1>4, <1>9
<1>12. blocked' \subseteq Keys \X Values /\ admin' \in Admin
  BY <1>1, <1>2
<1>13. OneValue(blocked') /\ root' = TreeOf(blocked', 0) /\ HasNodes(blocked', nodes')
  BY <1>10, <1>11
<1> QED
  BY <1>12, <1>13 DEF SmtInvariant, OneValue, HasNodes

\* The invariant holds of every state of the contract.
THEOREM BlocklistInvariant == SmtSpec => []SmtInvariant
<1>1. SmtInit => SmtInvariant
  <2> SUFFICES ASSUME SmtInit PROVE SmtInvariant
    OBVIOUS
  <2>1. admin \in Admin /\ root = Zero /\ nodes = {} /\ blocked = {}
    BY DEF SmtInit
  <2>2. {} \subseteq Pairs
    OBVIOUS
  <2>3. \A lvl \in 0..KeyBits : TreeOf({}, lvl) = Zero
    BY <2>2, TreeUnfold
  <2>4. \A k, l : Under({}, k, l) = {}
    BY DEF Under
  <2>5. HasNodes({}, {})
    BY <2>3, <2>4 DEF HasNodes
  <2>6. OneValue({})
    BY DEF OneValue
  <2> QED
    BY <2>1, <2>3, <2>5, <2>6, BitLevels DEF SmtInvariant
<1>2. SmtInvariant /\ [SmtNext]_smtVars => SmtInvariant'
  <2> SUFFICES ASSUME SmtInvariant, [SmtNext]_smtVars PROVE SmtInvariant'
    OBVIOUS
  <2>1. ASSUME NEW caller \in Admin, NEW key \in Keys, NEW value \in Values, insert_leaf(caller, key, value)
        PROVE  SmtInvariant'
    BY <2>1, InsertKeeps
  <2>2. ASSUME NEW caller \in Admin, NEW key \in Keys, delete_leaf(caller, key) PROVE SmtInvariant'
    BY <2>2, DeleteKeeps
  <2>3. ASSUME NEW caller \in Admin, NEW new_admin \in Admin, update_admin(caller, new_admin) PROVE SmtInvariant'
    BY <2>3 DEF update_admin, SmtInvariant, HasNodes
  <2>4. CASE UNCHANGED smtVars
    BY <2>4 DEF smtVars, SmtInvariant, HasNodes
  <2> QED
    BY <2>1, <2>2, <2>3, <2>4, Zenon DEF SmtNext
<1> QED
  BY <1>1, <1>2, PTL DEF SmtSpec

\* The root that insert_leaf and delete_leaf leave depends on what is blocked alone.
THEOREM RootIsCanonical == SmtSpec => []HistoryIndependent
<1>1. SmtInvariant => HistoryIndependent
  <2> SUFFICES ASSUME SmtInvariant PROVE HistoryIndependent
    OBVIOUS
  <2>1. PICK P : P = blocked
    OBVIOUS
  <2>2. P \subseteq Pairs /\ root = TreeOf(P, 0)
    BY <2>1 DEF SmtInvariant, OneValue
  <2>3. CanonicalRoot(P) = TreeOf(P, 0)
    BY <2>2, RootIsTree
  <2> QED
    BY <2>1, <2>2, <2>3 DEF HistoryIndependent
<1> QED
  BY <1>1, BlocklistInvariant, PTL

\* A key is blocked when its pair is.
LEMMA BlockedMeans ==
  ASSUME NEW key
  PROVE  key \in BlockedKeys <=> ~ Without(blocked, key)
BY DEF BlockedKeys, Without

\* find_key answers for every key, finds the blocked ones with their values, and
\* delete_leaf can remove each of them.
THEOREM FindAlwaysExact == SmtSpec => []FindIsExact
<1>1. SmtInvariant => FindIsExact
  <2> SUFFICES ASSUME SmtInvariant, NEW key \in Keys
               PROVE  LET f == find_key(key)
                      IN  /\ f.ok
                          /\ f.found <=> key \in BlockedKeys
                          /\ f.found => <<key, f.found_value>> \in blocked /\ Deletable(f)
    BY Zenon DEF FindIsExact
  <2>1. PICK P, store, f : P = blocked /\ store = nodes /\ f = find_key(key)
    OBVIOUS
  <2>2. OneValue(P) /\ HasNodes(P, store)
    BY <2>1 DEF SmtInvariant
  <2>3. PICK d \in 0..KeyBits : FoundAt(P, key, f, d)
    BY <2>1, FindAt
  <2>4. f.ok
    BY <2>3 DEF FoundAt
  <2>5. /\ f.found <=> ~ Without(P, key)
        /\ f.found => <<key, f.found_value>> \in P
    BY <2>2, <2>3, FoundKey
  <2>6. f.siblings # <<>> => Last(f.siblings) \in store
    <3> SUFFICES ASSUME f.siblings # <<>> PROVE Last(f.siblings) \in store
      OBVIOUS
    <3>1. d # 0 /\ Last(f.siblings) = f.siblings[d] /\ f.siblings[d] = TreeOf(Beside(P, key, d - 1), d)
      <4>1. /\ \A i \in 1..d : f.siblings[i] = TreeOf(Beside(P, key, i - 1), i)
            /\ f.siblings = <<>> <=> d = 0
            /\ d # 0 => Last(f.siblings) = f.siblings[d]
        BY <2>2, <2>3, FoundSiblings
      <4> QED
        BY <4>1
    <3>2. PICK l \in 0..(KeyBits - 1) : l = d - 1 /\ d = l + 1
      BY <3>1, BitLevels
    <3>3. PICK e : e \in Beside(P, key, l)
      BY <2>3, <3>1, <3>2 DEF FoundAt
    <3>4. e[1] \in Keys /\ Beside(P, key, l) = Under(P, e[1], l + 1)
      BY <2>2, <3>3, BesideIsUnder
    <3>5. TreeOf(Beside(P, key, l), l + 1) # Zero
      <4>1. Coherent(Beside(P, key, l), l + 1)
        BY <2>2, <3>2, UnderFacts, BitLevels
      <4>2. Beside(P, key, l) # {}
        BY <3>3
      <4> QED
        BY <3>2, <4>1, <4>2, Shape
    <3> QED
      BY <2>2, <3>1, <3>2, <3>4, <3>5 DEF HasNodes
  <2>7. f.found => Deletable(f)
    BY <2>1, <2>4, <2>6 DEF Deletable
  <2>8. f.found <=> key \in BlockedKeys
    BY <2>1, <2>5, BlockedMeans
  <2> QED
    BY <2>1, <2>4, <2>5, <2>7, <2>8
<1> QED
  BY <1>1, BlocklistInvariant, PTL

\* The tree is that of what is blocked, and find_key says just that.
THEOREM BlocklistAlwaysExact == SmtSpec => []BlocklistIsExact
BY RootIsCanonical, FindAlwaysExact, PTL DEF BlocklistIsExact

-----------------------------------------------------------------------------
(* Proofs of absence.                                                      *)

\* The path of a key that is not blocked, with empty siblings after it, leads from its
\* end to the root.
LEMMA AbsencePath ==
  ASSUME NEW P, OneValue(P), NEW key \in Keys, NEW d \in 0..KeyBits, NEW f, FoundAt(P, key, f, d), ~ f.found,
         NEW s, NEW n \in Nat, d <= n, Len(s) = n, \A i \in 1..d : s[i] = f.siblings[i],
         NEW joined, FirstLevels(joined, n, d),
         NEW end, end = IF f.is_old0 THEN Zero ELSE hash_leaf(f.not_found_key, f.not_found_value)
  PROVE  Rehashed(key, s, joined, end)[1] = TreeOf(P, 0)
<1>1. Len(f.siblings) = d /\ \A i \in 1..d : f.siblings[i] = TreeOf(Beside(P, key, i - 1), i)
  BY FoundSiblings
<1>2. ASSUME NEW i \in 1..d PROVE Big(Under(P, key, i - 1)) /\ s[i] = TreeOf(Beside(P, key, i - 1), i)
  <2>1. i - 1 \in 0..(d - 1)
    OBVIOUS
  <2> QED
    BY <1>1, <2>1 DEF FoundAt
<1>3. end = TreeOf(Under(P, key, d), d) /\ SidePath(P, key, s, d)
  BY <1>2, NotFoundEnd DEF SidePath
<1>4. d \in 0..n /\ d <= KeyBits /\ 1 \in 1..(d + 1) /\ 1 - 1 = 0
  BY BitLevels
<1>5. \A i \in 1..(d + 1) : Rehashed(key, s, joined, end)[i] = TreeOf(Under(P, key, i - 1), i - 1)
  BY <1>3, <1>4, PathIsTree
<1>6. Under(P, key, 0) = P
  BY UnderFacts, BitLevels
<1> QED
  BY <1>4, <1>5, <1>6

\* The last sibling of a search is not empty.
LEMMA LastSibling ==
  ASSUME NEW P, OneValue(P), NEW key \in Keys, NEW d \in 0..KeyBits, NEW f, FoundAt(P, key, f, d), d # 0
  PROVE  f.siblings[d] # Zero
<1>1. PICK l \in 0..KeyBits : l = d - 1 /\ l < KeyBits /\ l + 1 = d
  BY BitLevels
<1>2. f.siblings[d] = TreeOf(Beside(P, key, l), d) /\ Beside(P, key, l) # {}
  BY <1>1, BitLevels, FoundSiblings DEF FoundAt
<1>3. Coherent(Beside(P, key, l), l + 1)
  BY <1>1, UnderFacts
<1> QED
  BY <1>1, <1>2, <1>3, Shape

\* The siblings s are those that a search found on d levels, and empty ones.
Lengthened(s, f, d) ==
  /\ \A i \in 1..d : s[i] = f.siblings[i]
  /\ \A i \in (d + 1)..Len(s) : s[i] = Zero

\* The circuit accepts a proof made of a search that did not find the key, on a branch
\* that it can hold.
LEMMA ProofAccepted ==
  ASSUME NEW P, OneValue(P), NEW key \in Keys, NEW d \in 0..KeyBits, NEW f, FoundAt(P, key, f, d), ~ f.found,
         d < SmtDepth,
         NEW p, Len(p.siblings) = SmtDepth, DOMAIN p.siblings = 1..SmtDepth, Lengthened(p.siblings, f, d),
         p.isOld0 = f.is_old0, p.root = TreeOf(P, 0),
         ~ f.is_old0 => p.oldKey = f.not_found_key /\ p.oldValue = f.not_found_value
  PROVE  SMTVerifier(key, p)
<1>1. SmtDepth \in Nat /\ SmtDepth \in 1..SmtDepth /\ d \in Nat /\ d <= KeyBits /\ d <= SmtDepth
  BY SmtAssumption, BitLevels
<1>2. PICK s : s = p.siblings
  OBVIOUS
<1>3. /\ Len(s) = SmtDepth /\ DOMAIN s = 1..SmtDepth
      /\ \A i \in 1..d : s[i] = f.siblings[i]
      /\ \A i \in (d + 1)..SmtDepth : s[i] = Zero
  BY <1>2 DEF Lengthened
<1>4. LevIns(s) = d
  <2>1. PICK r : r = RebuiltFrom(s)
    OBVIOUS
  <2>2. r \in 0..SmtDepth /\ (r # 0 => s[r] # Zero) /\ \A i \in (r + 1)..SmtDepth : s[i] = Zero
    BY <1>1, <1>3, <2>1, RebuiltFromFacts
  <2>3. r <= d
    <3> SUFFICES ASSUME r > d PROVE FALSE
      BY <1>1, <2>2
    <3>1. r \in (d + 1)..SmtDepth /\ r # 0
      BY <1>1, <2>2
    <3> QED
      BY <1>3, <2>2, <3>1
  <2>4. r >= d
    <3> SUFFICES ASSUME r < d PROVE FALSE
      BY <1>1, <2>2
    <3>1. d \in (r + 1)..SmtDepth /\ d \in 1..d /\ d # 0
      BY <1>1, <2>2
    <3>2. f.siblings[d] = Zero
      BY <1>3, <2>2, <3>1
    <3> QED
      BY <3>1, <3>2, LastSibling
  <2> QED
    BY <1>1, <2>1, <2>2, <2>3, <2>4 DEF LevIns
<1> DEFINE end == IF f.is_old0 THEN Zero ELSE hash_leaf(f.not_found_key, f.not_found_value)
<1>5. ~ f.is_old0 => p.oldKey # key
  <2> SUFFICES ASSUME ~ f.is_old0 PROVE p.oldKey # key
    OBVIOUS
  <2>1. PICK o : o \in Under(P, key, d)
    BY DEF FoundAt
  <2> QED
    BY <2>1 DEF FoundAt
<1>6. Rehashed(key, s, 1..d, end)[1] = TreeOf(P, 0)
  <2>1. PICK joined : joined = 1..d
    OBVIOUS
  <2>2. FirstLevels(joined, SmtDepth, d)
    BY <1>1, <2>1 DEF FirstLevels
  <2>3. Rehashed(key, s, joined, end)[1] = TreeOf(P, 0)
    BY <1>1, <1>3, <2>2, AbsencePath
  <2> QED
    BY <2>1, <2>3
<1>7. (IF p.isOld0 THEN Zero ELSE hash_leaf(p.oldKey, p.oldValue)) = end
  OBVIOUS
<1>8. p.siblings[SmtDepth] = Zero
  <2>1. SmtDepth \in (d + 1)..SmtDepth
    BY <1>1
  <2> QED
    BY <1>2, <1>3, <2>1
<1>9. p.isOld0 \/ p.oldKey # key
  BY <1>5
<1> HIDE DEF end
<1>10. Rehashed(key, p.siblings, 1..LevIns(p.siblings),
                IF p.isOld0 THEN Zero ELSE hash_leaf(p.oldKey, p.oldValue))[1] = p.root
  BY <1>2, <1>4, <1>6, <1>7
<1> QED
  BY <1>8, <1>9, <1>10 DEF SMTVerifier

\* The proof that the client makes for a key that is not blocked is accepted by the
\* circuit, on a branch that it can hold.
LEMMA CircuitAccepts ==
  ASSUME SmtInvariant, NEW key \in Keys, ~ find_key(key).found, Len(find_key(key).siblings) < SmtDepth
  PROVE  SMTVerifier(key, get_nonmembership_proof(key))
<1>1. PICK P, f : P = blocked /\ f = find_key(key)
  OBVIOUS
<1>2. OneValue(P) /\ root = TreeOf(P, 0)
  BY <1>1 DEF SmtInvariant
<1>3. PICK d \in 0..KeyBits : FoundAt(P, key, f, d)
  BY <1>1, FindAt
<1>4. Len(f.siblings) = d /\ d < SmtDepth /\ d \in Nat
  BY <1>1, <1>2, <1>3, FoundSiblings, BitLevels
<1>5. SmtDepth \in Nat
  BY SmtAssumption
<1> DEFINE s == [i \in 1..SmtDepth |-> IF i <= Len(f.siblings) THEN f.siblings[i] ELSE Zero]
           oldKey == IF root = Zero THEN 0 ELSE f.not_found_key
<1>6. PICK p : p = get_nonmembership_proof(key)
  OBVIOUS
<1>7. /\ p.siblings = s /\ p.oldKey = oldKey /\ p.oldValue = f.not_found_value
      /\ p.isOld0 = f.is_old0 /\ p.root = root
  BY <1>1, <1>6 DEF get_nonmembership_proof
<1>8. Len(s) = SmtDepth /\ DOMAIN s = 1..SmtDepth /\ Lengthened(s, f, d)
  <2>1. s \in [1..SmtDepth -> {s[i] : i \in 1..SmtDepth}] /\ DOMAIN s = 1..SmtDepth
    OBVIOUS
  <2>2. \A i \in 1..d : s[i] = f.siblings[i]
    BY <1>4, <1>5
  <2>3. \A i \in (d + 1)..SmtDepth : s[i] = Zero
    BY <1>4, <1>5
  <2> HIDE DEF s
  <2>4. Len(s) = SmtDepth
    BY <1>5, <2>1, IsSequence
  <2> QED
    BY <2>1, <2>2, <2>3, <2>4 DEF Lengthened
<1> HIDE DEF s
<1>9. ~ f.is_old0 => oldKey = f.not_found_key
  <2> SUFFICES ASSUME ~ f.is_old0 PROVE oldKey = f.not_found_key
    OBVIOUS
  <2>1. PICK o : o \in Under(P, key, d)
    BY <1>3 DEF FoundAt
  <2>2. P # {}
    BY <2>1 DEF Under
  <2>3. Coherent(P, 0)
    BY <1>2, UnderFacts, BitLevels
  <2>4. root # Zero
    BY <1>2, <2>2, <2>3, Shape, BitLevels
  <2> QED
    BY <2>4
<1> HIDE DEF oldKey
<1>10. ~ f.found /\ Len(p.siblings) = SmtDepth /\ DOMAIN p.siblings = 1..SmtDepth /\ Lengthened(p.siblings, f, d)
  BY <1>1, <1>7, <1>8
<1>11. SMTVerifier(key, p)
  BY <1>2, <1>3, <1>4, <1>7, <1>9, <1>10, ProofAccepted
<1> QED
  BY <1>6, <1>11

\* verify_non_membership accepts what find_key answers for a key that is not blocked,
\* unless its branch ends in a leaf of value 0.
LEMMA ContractAccepts ==
  ASSUME SmtInvariant, NEW key \in Keys, ~ find_key(key).found,
         find_key(key).is_old0 \/ find_key(key).not_found_value # 0
  PROVE  verify_non_membership(key, find_key(key).siblings, find_key(key).not_found_key,
                               find_key(key).not_found_value) = "Ok(true)"
<1>1. PICK P, f : P = blocked /\ f = find_key(key)
  OBVIOUS
<1>2. OneValue(P) /\ root = TreeOf(P, 0)
  BY <1>1 DEF SmtInvariant
<1>3. PICK d \in 0..KeyBits : FoundAt(P, key, f, d)
  BY <1>1, FindAt
<1>4. Len(f.siblings) = d /\ DOMAIN f.siblings = 1..d /\ d \in Nat
  BY <1>2, <1>3, FoundSiblings
<1> DEFINE end == IF f.is_old0 THEN Zero ELSE hash_leaf(f.not_found_key, f.not_found_value)
           claimed == IF f.not_found_key # key /\ f.not_found_value # 0
                      THEN hash_leaf(f.not_found_key, f.not_found_value) ELSE Zero
<1>5. claimed = end
  <2>1. CASE f.is_old0
    <3>1. f.not_found_key = key
      BY <1>3, <2>1 DEF FoundAt
    <3> QED
      BY <2>1, <3>1
  <2>2. CASE ~ f.is_old0
    <3>1. PICK o : o \in Under(P, key, d)
      BY <1>3, <2>2 DEF FoundAt
    <3>2. f.not_found_key # key
      BY <1>1, <1>3, <3>1 DEF FoundAt
    <3> QED
      BY <1>1, <2>2, <3>2
  <2> QED
    BY <2>1, <2>2
<1>6. Rehashed(key, f.siblings, DOMAIN f.siblings, end)[1] = TreeOf(P, 0)
  <2>1. PICK joined, s : joined = 1..d /\ s = f.siblings
    OBVIOUS
  <2>2. FirstLevels(joined, d, d) /\ Len(s) = d /\ d <= d /\ \A i \in 1..d : s[i] = f.siblings[i]
    BY <1>4, <2>1 DEF FirstLevels
  <2>3. Rehashed(key, s, joined, end)[1] = TreeOf(P, 0)
    BY <1>1, <1>2, <1>3, <1>4, <2>2, AbsencePath
  <2> QED
    BY <1>4, <2>1, <2>3
<1>7. f.ok /\ ~ f.found
  BY <1>1, <1>3 DEF FoundAt
<1> HIDE DEF end, claimed
<1>8. Rehashed(key, f.siblings, DOMAIN f.siblings, claimed)[1] = root
  BY <1>2, <1>5, <1>6
<1>9. verify_non_membership(key, f.siblings, f.not_found_key, f.not_found_value) =
        CASE ~ f.ok  -> "KeyNotFound"
          [] f.found -> "Ok(false)"
          [] ~ f.found /\ f.ok ->
               IF /\ f.siblings = f.siblings
                  /\ f.not_found_key = f.not_found_key
                  /\ f.not_found_value = f.not_found_value
                  /\ Rehashed(key, f.siblings, DOMAIN f.siblings, claimed)[1] = root
               THEN "Ok(true)" ELSE "InvalidProof"
  BY <1>1, Zenon DEF verify_non_membership, claimed
<1> QED
  BY <1>1, <1>7, <1>8, <1>9

\* Whatever the siblings, a path that leads to the root ends where the tree's path of the
\* key is at that level.
LEMMA PathDown ==
  ASSUME NEW P, OneValue(P), NEW key \in Keys, NEW s, NEW n \in Nat, Len(s) = n, NEW r \in 0..n,
         NEW joined, FirstLevels(joined, n, r), NEW end,
         Rehashed(key, s, joined, end)[1] = TreeOf(P, 0)
  PROVE  r <= KeyBits /\ TreeOf(Under(P, key, r), r) = end
<1> DEFINE up == Rehashed(key, s, joined, end)
           D == {i \in 0..r : i <= KeyBits /\ up[i + 1] = TreeOf(Under(P, key, i), i)}
<1>1. /\ up[n + 1] = end
      /\ \A i \in 1..n : up[i] = IF i \in joined THEN Join(key, i - 1, up[i + 1], s[i]) ELSE up[i + 1]
  BY RehashedSteps
<1>2. up[1] = TreeOf(P, 0)
  OBVIOUS
<1> HIDE DEF up
<1>3. up[r + 1] = end
  <2> DEFINE E == {k \in 0..(n - r) : up[n + 1 - k] = end}
  <2>1. 0 \in E
    <3>1. n + 1 - 0 = n + 1
      OBVIOUS
    <3> QED
      BY <1>1, <3>1
  <2>2. ASSUME NEW k \in 0..((n - r) - 1), k \in E PROVE k + 1 \in E
    <3>1. PICK i \in 1..n : i = n + 1 - (k + 1)
      OBVIOUS
    <3>2. i + 1 = n + 1 - k /\ ~ (i <= r) /\ k + 1 \in 0..(n - r)
      BY <3>1
    <3>3. up[i] = up[i + 1]
      BY <1>1, <3>2 DEF FirstLevels
    <3> QED
      BY <2>2, <3>1, <3>2, <3>3
  <2>3. n - r \in Nat /\ n - r \in 0..(n - r) /\ n + 1 - (n - r) = r + 1
    OBVIOUS
  <2> HIDE DEF E
  <2>4. n - r \in E
    BY <2>1, <2>2, <2>3, Induct
  <2> QED
    BY <2>3, <2>4 DEF E
<1>4. 0 \in D
  <2>1. Under(P, key, 0) = P
    BY UnderFacts, BitLevels
  <2>2. 0 + 1 = 1 /\ 0 \in 0..r /\ 0 <= KeyBits
    BY BitLevels
  <2> QED
    BY <1>2, <2>1, <2>2
<1>5. ASSUME NEW i \in 0..(r - 1), i \in D PROVE i + 1 \in D
  <2>1. i \in 0..KeyBits /\ up[i + 1] = TreeOf(Under(P, key, i), i)
    BY <1>5, BitLevels
  <2>2. i + 1 \in 1..n /\ i + 1 <= r /\ (i + 1) - 1 = i /\ i + 1 \in 0..r
    OBVIOUS
  <2>3. up[i + 1] = Join(key, i, up[(i + 1) + 1], s[i + 1])
    BY <1>1, <2>2 DEF FirstLevels
  <2>4. Coherent(Under(P, key, i), i)
    BY <2>1, UnderFacts
  <2>5. Big(Under(P, key, i))
    <3>1. IsInternal(TreeOf(Under(P, key, i), i))
      BY <2>1, <2>3, JoinFacts
    <3> QED
      BY <2>1, <2>4, <3>1, Shape
  <2>6. /\ i < KeyBits
        /\ TreeOf(Under(P, key, i), i) =
             Join(key, i, TreeOf(Under(P, key, i + 1), i + 1), TreeOf(Beside(P, key, i), i + 1))
    BY <2>1, <2>5, PathStep
  <2>7. up[(i + 1) + 1] = TreeOf(Under(P, key, i + 1), i + 1)
    <3>1. PICK c, t, x, y : /\ c = up[(i + 1) + 1] /\ t = s[i + 1]
                            /\ x = TreeOf(Under(P, key, i + 1), i + 1) /\ y = TreeOf(Beside(P, key, i), i + 1)
      OBVIOUS
    <3>2. Join(key, i, c, t) = Join(key, i, x, y)
      BY <2>1, <2>3, <2>6, <3>1
    <3>3. c = x
      BY <3>2, JoinFacts
    <3> QED
      BY <3>1, <3>3
  <2>8. i + 1 <= KeyBits
    BY <2>1, <2>6, BitLevels
  <2> QED
    BY <2>2, <2>7, <2>8
<1> HIDE DEF D
<1>6. r \in D
  <2>1. r \in Nat /\ r \in 0..r
    OBVIOUS
  <2> QED
    BY <1>4, <1>5, <2>1, Induct
<1> QED
  BY <1>3, <1>6 DEF D

\* Whatever the siblings and the old leaf, the circuit accepts no proof of absence of a
\* blocked key against the contract's root.
LEMMA NoProofOfAbsence ==
  ASSUME SmtInvariant, NEW key \in Keys, ~ Without(blocked, key),
         NEW p, Len(p.siblings) = SmtDepth, DOMAIN p.siblings = 1..SmtDepth, p.root = root
  PROVE  ~ SMTVerifier(key, p)
<1> SUFFICES ASSUME SMTVerifier(key, p) PROVE FALSE
  OBVIOUS
<1>1. PICK P, s, end : /\ P = blocked /\ s = p.siblings
                       /\ end = IF p.isOld0 THEN Zero ELSE hash_leaf(p.oldKey, p.oldValue)
  OBVIOUS
<1>2. OneValue(P) /\ root = TreeOf(P, 0)
  BY <1>1 DEF SmtInvariant
<1>3. /\ p.isOld0 \/ p.oldKey # key
      /\ Rehashed(key, s, 1..LevIns(s), end)[1] = TreeOf(P, 0)
  BY <1>1, <1>2 DEF SMTVerifier
<1>4. SmtDepth \in Nat /\ Len(s) = SmtDepth
  BY <1>1, SmtAssumption
<1>5. PICK r \in 0..SmtDepth : r = LevIns(s)
  <2>1. RebuiltFrom(s) \in 0..SmtDepth
    BY <1>1, <1>4, RebuiltFromFacts
  <2> QED
    BY <2>1 DEF LevIns
<1>6. PICK joined : joined = 1..r
  OBVIOUS
<1>7. FirstLevels(joined, SmtDepth, r) /\ Rehashed(key, s, joined, end)[1] = TreeOf(P, 0)
  BY <1>3, <1>4, <1>5, <1>6 DEF FirstLevels
<1>8. r <= KeyBits /\ TreeOf(Under(P, key, r), r) = end
  BY <1>2, <1>4, <1>7, PathDown
<1>9. r \in 0..KeyBits
  BY <1>4, <1>8, BitLevels
<1>10. Coherent(Under(P, key, r), r)
  BY <1>2, <1>9, UnderFacts
<1>11. PICK e \in Under(P, key, r) : e[1] = key
  <2>1. PICK e \in P : e[1] = key
    BY <1>1 DEF Without
  <2>2. e \in Under(P, key, r)
    BY <2>1 DEF Under, Agree
  <2> QED
    BY <2>1, <2>2
<1>12. CASE p.isOld0
  <2>1. end = Zero
    BY <1>1, <1>12
  <2>2. Under(P, key, r) # {}
    BY <1>11
  <2> QED
    BY <1>8, <1>9, <1>10, <2>1, <2>2, Shape
<1>13. CASE ~ p.isOld0
  <2>1. end = hash_leaf(p.oldKey, p.oldValue) /\ p.oldKey # key
    BY <1>1, <1>3, <1>13
  <2>2. IsLeaf(end)
    BY <2>1, HashFacts
  <2>3. Single(Under(P, key, r))
    BY <1>8, <1>9, <1>10, <2>2, Shape
  <2>4. Under(P, key, r) = {e}
    BY <1>11, <2>3 DEF Single
  <2>5. {e} \subseteq Pairs
    BY <1>10, <2>4 DEF Coherent
  <2>6. TreeOf({e}, r) = hash_leaf(e[1], e[2])
    BY <1>9, <2>5, TreeUnfold
  <2>7. hash_leaf(e[1], e[2]) = hash_leaf(p.oldKey, p.oldValue)
    BY <1>8, <2>1, <2>4, <2>6
  <2>8. e[1] = p.oldKey
    BY <2>7, LeafInjective
  <2> QED
    BY <1>11, <2>1, <2>8
<1> QED
  BY <1>12, <1>13

\* On a branch of SmtDepth levels or more the circuit accepts nothing, whatever the
\* siblings and the old leaf: its path ends before the branch does, where the tree has
\* neither an empty end nor a leaf.
LEMMA TooDeep ==
  ASSUME SmtInvariant, NEW key \in Keys, Len(find_key(key).siblings) >= SmtDepth,
         NEW p, Len(p.siblings) = SmtDepth, DOMAIN p.siblings = 1..SmtDepth, p.root = root
  PROVE  ~ SMTVerifier(key, p)
<1> SUFFICES ASSUME SMTVerifier(key, p) PROVE FALSE
  OBVIOUS
<1>1. PICK P, s, end : /\ P = blocked /\ s = p.siblings
                       /\ end = IF p.isOld0 THEN Zero ELSE hash_leaf(p.oldKey, p.oldValue)
  OBVIOUS
<1>2. OneValue(P) /\ root = TreeOf(P, 0)
  BY <1>1 DEF SmtInvariant
<1>3. s[SmtDepth] = Zero /\ Rehashed(key, s, 1..LevIns(s), end)[1] = TreeOf(P, 0)
  BY <1>1, <1>2 DEF SMTVerifier
<1>4. SmtDepth \in Nat /\ SmtDepth # 0 /\ Len(s) = SmtDepth /\ DOMAIN s = 1..SmtDepth
  BY <1>1, SmtAssumption
<1>5. PICK r \in 0..SmtDepth : r = LevIns(s) /\ (r # 0 => s[r] # Zero)
  <2>1. RebuiltFrom(s) \in 0..SmtDepth /\ (RebuiltFrom(s) # 0 => s[RebuiltFrom(s)] # Zero)
    BY <1>4, RebuiltFromFacts
  <2> QED
    BY <2>1 DEF LevIns
<1>6. PICK joined : joined = 1..r
  OBVIOUS
<1>7. FirstLevels(joined, SmtDepth, r) /\ Rehashed(key, s, joined, end)[1] = TreeOf(P, 0)
  BY <1>3, <1>4, <1>5, <1>6 DEF FirstLevels
<1>8. r <= KeyBits /\ TreeOf(Under(P, key, r), r) = end
  BY <1>2, <1>4, <1>7, PathDown
<1>9. r \in 0..KeyBits /\ Coherent(Under(P, key, r), r)
  <2>1. r \in 0..KeyBits
    BY <1>4, <1>8, BitLevels
  <2> QED
    BY <1>2, <2>1, UnderFacts
<1>10. PICK d \in 0..KeyBits : FoundAt(P, key, find_key(key), d)
  BY <1>1, FindAt
<1>11. d \in Nat /\ Len(find_key(key).siblings) = d
  <2>1. d \in Nat
    BY BitLevels
  <2>2. find_key(key).siblings = [i \in 1..d |-> TreeOf(Beside(P, key, i - 1), i)]
    BY <1>10 DEF FoundAt
  <2> QED
    BY <2>1, <2>2
<1>12. Big(Under(P, key, r))
  <2>1. r < SmtDepth
    BY <1>3, <1>4, <1>5
  <2>2. r \in 0..(d - 1)
    BY <1>4, <1>11, <2>1
  <2> QED
    BY <1>10, <2>2 DEF FoundAt
<1>13. IsInternal(end)
  BY <1>8, <1>9, <1>12, Shape
<1> QED
  BY <1>1, <1>13, HashFacts

\* The circuit, and the contract's own check, accept the client's proof that a key is not
\* blocked, whatever was inserted and deleted before.
THEOREM UnblockedAlwaysProves == SmtSpec => []UnblockedCanProve
<1>1. SmtInvariant => UnblockedCanProve
  <2> SUFFICES ASSUME SmtInvariant, NEW key \in Keys \ BlockedKeys
               PROVE  LET f == find_key(key)
                      IN  /\ Len(f.siblings) < SmtDepth => SMTVerifier(key, get_nonmembership_proof(key))
                          /\ f.is_old0 \/ f.not_found_value # 0
                               => verify_non_membership(key, f.siblings, f.not_found_key, f.not_found_value)
                                    = "Ok(true)"
    BY Zenon DEF UnblockedCanProve
  <2>1. key \in Keys /\ Without(blocked, key)
    BY BlockedMeans
  <2>2. ~ find_key(key).found
    <3>1. PICK d \in 0..KeyBits : FoundAt(blocked, key, find_key(key), d)
      BY <2>1, FindAt
    <3>2. OneValue(blocked)
      BY DEF SmtInvariant
    <3> QED
      BY <2>1, <3>1, <3>2, FoundKey
  <2>3. Len(find_key(key).siblings) < SmtDepth => SMTVerifier(key, get_nonmembership_proof(key))
    BY <2>1, <2>2, CircuitAccepts
  <2>4. find_key(key).is_old0 \/ find_key(key).not_found_value # 0
          => verify_non_membership(key, find_key(key).siblings, find_key(key).not_found_key,
                                   find_key(key).not_found_value) = "Ok(true)"
    BY <2>1, <2>2, ContractAccepts
  <2> QED
    BY <2>3, <2>4, Zenon
<1> QED
  BY <1>1, BlocklistInvariant, PTL

\* A branch as deep as the circuit, which other keys of the tree make, leaves the owner of
\* a key that is not blocked without a proof, whatever the depth of the circuit: what the
\* client cuts off cannot be done without.
THEOREM TooDeepNeverProves == SmtSpec => []TooDeepToProve
<1>1. SmtInvariant => TooDeepToProve
  <2> SUFFICES ASSUME SmtInvariant, NEW key \in Keys \ BlockedKeys,
                      Len(find_key(key).siblings) >= SmtDepth
               PROVE  ~ SMTVerifier(key, get_nonmembership_proof(key))
    BY DEF TooDeepToProve
  <2>1. PICK p : p = get_nonmembership_proof(key)
    OBVIOUS
  <2>2. p.root = root /\ DOMAIN p.siblings = 1..SmtDepth /\ Len(p.siblings) = SmtDepth
    <3>1. PICK s : s = [i \in 1..SmtDepth |->
                          IF i <= Len(find_key(key).siblings) THEN find_key(key).siblings[i] ELSE Zero]
      OBVIOUS
    <3>2. p.siblings = s /\ p.root = root
      BY <2>1, <3>1 DEF get_nonmembership_proof
    <3>3. DOMAIN s = 1..SmtDepth /\ SmtDepth \in Nat
      BY <3>1, SmtAssumption
    <3>4. Len(s) = SmtDepth
      <4>1. s \in [1..SmtDepth -> {s[i] : i \in 1..SmtDepth}]
        BY <3>1, <3>3
      <4> QED
        BY <3>3, <4>1, IsSequence
    <3> QED
      BY <3>2, <3>3, <3>4
  <2>3. ~ SMTVerifier(key, p)
    BY <2>2, TooDeep
  <2> QED
    BY <2>1, <2>3
<1> QED
  BY <1>1, BlocklistInvariant, PTL

\* The circuit accepts no proof of absence for a blocked key, whatever stored nodes, stale
\* ones too, are offered as its siblings.
THEOREM BlockedNeverProves == SmtSpec => []BlockedCannotProve
<1>1. SmtInvariant => BlockedCannotProve
  <2> SUFFICES ASSUME SmtInvariant, NEW key \in BlockedKeys,
                      NEW siblings \in [1..(SmtDepth - 1) -> nodes \union {Zero}],
                      NEW old \in Keys \X Values, NEW isOld0 \in BOOLEAN
               PROVE  ~ SMTVerifier(key, [siblings |-> Append(siblings, Zero),
                                          oldKey |-> old[1], oldValue |-> old[2], isOld0 |-> isOld0,
                                          root |-> root])
    BY Zenon DEF BlockedCannotProve
  <2>1. key \in Keys /\ ~ Without(blocked, key)
    <3>1. key \in Keys
      BY DEF SmtInvariant, BlockedKeys
    <3> QED
      BY <3>1, BlockedMeans
  <2>2. PICK s : s = Append(siblings, Zero)
    OBVIOUS
  <2>3. Len(s) = SmtDepth /\ DOMAIN s = 1..SmtDepth
    <3>1. PICK n \in Nat : n = SmtDepth - 1 /\ n + 1 = SmtDepth
      BY SmtAssumption
    <3>2. siblings \in Seq(nodes \union {Zero}) /\ Len(siblings) = n
      BY <3>1, IsSequence
    <3>3. s \in Seq(nodes \union {Zero}) /\ Len(s) = n + 1
      BY <2>2, <3>2
    <3> QED
      BY <3>1, <3>3, LenProperties
  <2>4. PICK p : p = [siblings |-> s, oldKey |-> old[1], oldValue |-> old[2], isOld0 |-> isOld0, root |-> root]
    OBVIOUS
  <2>5. p.siblings = s /\ p.root = root
    BY <2>4
  <2>6. ~ SMTVerifier(key, p)
    BY <2>1, <2>3, <2>5, NoProofOfAbsence
  <2> QED
    BY <2>2, <2>4, <2>6
<1> QED
  BY <1>1, BlocklistInvariant, PTL

-----------------------------------------------------------------------------
(* The client's sparse tree.                                               *)

\* The store has the nodes of the tree of R that are not on the path of a key.
HasOthers(R, key, store) ==
  \A k \in Keys, l \in 0..KeyBits :
    ~ Agree(key, k, l) /\ TreeOf(Under(R, k, l), l) # Zero => TreeOf(Under(R, k, l), l) \in store

\* The path leads up to the root of the tree of Q.
LeadsUp(path, Q) == path[1] = TreeOf(Q, 0)

\* The pair of a key put in its place: the path that is built from its leaf has the new
\* nodes of the tree, and the others are those without the key.
LEMMA Placed ==
  ASSUME NEW R, OneValue(R), NEW key \in Keys, NEW v \in Nat, Without(R, key),
         NEW Q, Q = R \union {<<key, v>>},
         NEW n \in 0..KeyBits, NEW s, Len(s) = n, FullPath(R, key, s, n), Under(R, key, n) = {},
         NEW store, HasOthers(R, key, store),
         NEW path, path = Rehashed(key, s, 1..n, hash_leaf(key, v))
  PROVE  /\ OneValue(Q)
         /\ LeadsUp(path, Q)
         /\ HasNodes(Q, store \union Range(path))
<1> DEFINE new == <<key, v>>
           leaf == hash_leaf(key, v)
           Node(l) == TreeOf(Under(Q, key, l), l)
<1>1. new \in Pairs /\ new[1] = key /\ new[2] = v /\ Q = R \union {new}
  BY DEF Pairs
<1> HIDE DEF new
<1>2. OneValue(Q) /\ Adds(R, Q, key, new)
  <2>1. PICK e \in Pairs : e = new /\ e[1] = key /\ Q = R \union {e}
    BY <1>1
  <2>2. OneValue(Q) /\ Adds(R, Q, key, e)
    BY <2>1, NewPair
  <2> QED
    BY <2>1, <2>2
<1>3. n \in Nat /\ n <= KeyBits /\ n \in 0..n /\ KeyBits \in Nat
  BY BitLevels
<1>4. \A l \in 0..KeyBits : TreeOf({new}, l) = leaf
  <2>1. {new} \subseteq Pairs
    BY <1>1
  <2> QED
    BY <1>1, <2>1, TreeUnfold
<1>5. Under(Q, key, n) = {new}
  BY <1>2 DEF Adds
<1>6. ASSUME NEW i \in 1..n PROVE Big(Under(Q, key, i - 1)) /\ s[i] = TreeOf(Beside(Q, key, i - 1), i)
  <2>1. PICK e : e \in Under(R, key, i - 1)
    BY DEF FullPath
  <2>2. e # new
    BY <1>1, <2>1 DEF Under, Without
  <2>3. e \in Under(Q, key, i - 1) /\ new \in Under(Q, key, i - 1) /\ Beside(Q, key, i - 1) = Beside(R, key, i - 1)
    BY <1>2, <2>1 DEF Adds
  <2>4. s[i] = TreeOf(Beside(R, key, i - 1), i)
    BY DEF FullPath
  <2> QED
    BY <2>2, <2>3, <2>4 DEF Big
<1>7. \A i \in 1..(n + 1) : path[i] = Node(i - 1)
  <2>1. PICK all, end : all = 1..n /\ end = leaf
    OBVIOUS
  <2>2. FirstLevels(all, n, n)
    BY <1>3, <2>1 DEF FirstLevels
  <2>3. SidePath(Q, key, s, n)
    BY <1>6 DEF SidePath
  <2>4. end = TreeOf(Under(Q, key, n), n)
    BY <1>4, <1>5, <2>1
  <2>5. \A i \in 1..(n + 1) : Rehashed(key, s, all, end)[i] = TreeOf(Under(Q, key, i - 1), i - 1)
    BY <1>2, <1>3, <2>2, <2>3, <2>4, PathIsTree
  <2> QED
    BY <2>1, <2>5
<1>8. LeadsUp(path, Q)
  <2>1. 1 \in 1..(n + 1) /\ 1 - 1 = 0
    BY <1>3
  <2>2. Under(Q, key, 0) = Q
    BY <1>2, UnderFacts, BitLevels
  <2> QED
    BY <1>7, <2>1, <2>2 DEF LeadsUp
<1>9. \A i \in 1..(n + 1) : Node(i - 1) \in Range(path)
  <2>1. PICK all, end : all = 1..n /\ end = leaf
    OBVIOUS
  <2>2. Len(s) \in Nat
    BY <1>3
  <2>3. DOMAIN Rehashed(key, s, all, end) = 1..(Len(s) + 1)
    BY <2>2, RehashedUnfold
  <2>4. DOMAIN path = 1..(n + 1)
    BY <2>1, <2>3
  <2> QED
    BY <1>7, <2>4 DEF Range
<1> HIDE DEF leaf
<1>10. ASSUME NEW k \in Keys, NEW l \in 0..KeyBits, NEW h, h = TreeOf(Under(Q, k, l), l), h # Zero
       PROVE  h \in store \union Range(path)
  <2>1. CASE Agree(key, k, l)
    <3>1. h = Node(l)
      BY <1>2, <1>10, <2>1 DEF Adds
    <3>2. CASE l <= n
      <4>1. l + 1 \in 1..(n + 1) /\ (l + 1) - 1 = l
        BY <1>3, <3>2
      <4>2. Node((l + 1) - 1) \in Range(path)
        BY <1>9, <4>1
      <4> QED
        BY <3>1, <4>1, <4>2
    <3>3. CASE n < l
      <4>1. l \in Nat /\ n \in 0..l /\ n + 1 \in 1..(n + 1) /\ (n + 1) - 1 = n
        BY <1>3, <3>3
      <4>2. Under(R, key, l) = {}
        <5>1. Under(R, key, l) \subseteq Under(R, key, n)
          BY <4>1, AgreeAbove DEF Under
        <5> QED
          BY <5>1
      <4>3. Under(Q, key, l) = {new}
        BY <1>2, <4>2 DEF Adds
      <4>4. h = Node(n)
        BY <1>4, <1>5, <3>1, <4>3
      <4>5. Node((n + 1) - 1) \in Range(path)
        BY <1>9, <4>1
      <4> QED
        BY <4>1, <4>4, <4>5
    <3> QED
      BY <1>3, <3>2, <3>3
  <2>2. CASE ~ Agree(key, k, l)
    <3>1. Under(Q, k, l) = Under(R, k, l)
      BY <1>2, <2>2 DEF Adds
    <3> QED
      BY <1>10, <2>2, <3>1 DEF HasOthers
  <2> QED
    BY <2>1, <2>2
<1>11. HasNodes(Q, store \union Range(path))
  BY <1>10 DEF HasNodes
<1> QED
  BY <1>2, <1>8, <1>11

\* The siblings of a search fit the tree without the key that it found.
LEMMA ReplacedPath ==
  ASSUME NEW P, OneValue(P), NEW key \in Keys, NEW d \in 0..KeyBits, NEW f, FoundAt(P, key, f, d), f.found,
         NEW R, R = {e \in P : e[1] # key}
  PROVE  /\ FullPath(R, key, f.siblings, d) /\ Under(R, key, d) = {}
         /\ TreeOf(Under(P, key, d), d) = hash_leaf(key, f.found_value)
         /\ SidePath(P, key, f.siblings, d)
<1>1. Drops(P, R, key)
  BY OldPair
<1>2. PICK o \in Under(P, key, d) : o[1] = key
  BY DEF FoundAt
<1>3. Under(P, key, d) = {o} /\ o[2] = f.found_value
  <2>1. ~ Big(Under(P, key, d)) /\ o[2] = f.found_value
    BY <1>2 DEF FoundAt
  <2>2. \A e \in Under(P, key, d) : e = o
    BY <1>2, <2>1 DEF Big
  <2> QED
    BY <1>2, <2>1, <2>2
<1>4. Under(R, key, d) = {}
  BY <1>1, <1>2, <1>3 DEF Drops
<1>5. TreeOf(Under(P, key, d), d) = hash_leaf(key, f.found_value)
  <2>1. {o} \subseteq Pairs
    BY <1>2 DEF Under, OneValue
  <2>2. TreeOf({o}, d) = hash_leaf(o[1], o[2])
    BY <2>1, TreeUnfold
  <2> QED
    BY <1>2, <1>3, <2>2
<1>6. \A i \in 1..d : f.siblings[i] = TreeOf(Beside(P, key, i - 1), i)
  BY FoundSiblings
<1>7. ASSUME NEW i \in 1..d PROVE Big(Under(P, key, i - 1))
  <2>1. i - 1 \in 0..(d - 1)
    OBVIOUS
  <2> QED
    BY <2>1 DEF FoundAt
<1>8. ASSUME NEW i \in 1..d
      PROVE  f.siblings[i] = TreeOf(Beside(R, key, i - 1), i) /\ Under(R, key, i - 1) # {}
  <2>1. Beside(R, key, i - 1) = Beside(P, key, i - 1)
    BY <1>1 DEF Drops
  <2>2. PICK e, g \in Under(P, key, i - 1) : e # g
    BY <1>7 DEF Big
  <2>3. e \in P /\ g \in P
    BY <2>2 DEF Under
  <2>4. e[1] # key \/ g[1] # key
    BY <2>2, <2>3 DEF OneValue
  <2>5. Under(R, key, i - 1) = {t \in Under(P, key, i - 1) : t[1] # key}
    BY <1>1 DEF Drops
  <2> QED
    BY <1>6, <2>1, <2>2, <2>4, <2>5
<1> QED
  BY <1>4, <1>5, <1>6, <1>7, <1>8 DEF FullPath, SidePath

\* The first elements of a sequence.
LEMMA FirstOnes ==
  ASSUME NEW s, IsSeq(s), NEW n \in Nat, Len(s) = n, NEW m \in 0..n
  PROVE  /\ IsSeq(SubSeq(s, 1, m)) /\ Len(SubSeq(s, 1, m)) = m
         /\ \A i \in 1..m : SubSeq(s, 1, m)[i] = s[i]
<1>1. PICK X : s \in Seq(X)
  BY DEF IsSeq
<1>2. \A i \in 1..m : s[i] \in X
  BY <1>1
<1>3. /\ SubSeq(s, 1, m) \in Seq(X) /\ Len(SubSeq(s, 1, m)) = IF 1 <= m THEN m - 1 + 1 ELSE 0
      /\ \A i \in 1..(m - 1 + 1) : SubSeq(s, 1, m)[i] = s[1 + i - 1]
  BY <1>1, <1>2, SubSeqProperties
<1>4. \A i \in 1..m : i \in 1..(m - 1 + 1) /\ 1 + i - 1 = i
  OBVIOUS
<1> QED
  BY <1>3, <1>4 DEF IsSeq

\* What insert returns of the siblings of a new leaf: those of the search, and empty ones.
LEMMA ReportedFacts ==
  ASSUME NEW P, OneValue(P), NEW key \in Keys, NEW d \in 0..KeyBits, NEW f, FoundAt(P, key, f, d), ~ f.found,
         NEW n \in d..KeyBits, NEW s, NewSiblings(P, key, f, d, s, n),
         NEW r, r = ReportedSiblings(f, s)
  PROVE  IsSeq(r) /\ Len(r) \in d..KeyBits /\ Lengthened(r, f, d)
<1>1. n \in Nat /\ d \in Nat /\ d <= n /\ n <= KeyBits /\ KeyBits \in Nat
  BY BitLevels
<1>2. /\ IsSeq(s) /\ Len(s) = n /\ DOMAIN s = 1..n
      /\ \A i \in 1..d : s[i] = f.siblings[i]
      /\ d # 0 => s[d] # Zero
      /\ IF f.is_old0 THEN n = d ELSE n > d /\ \A i \in (d + 1)..(n - 1) : s[i] = Zero
  BY LenProperties DEF NewSiblings, IsSeq
<1>3. n # 0 => s[n] # Zero
  <2>1. CASE f.is_old0
    BY <1>2, <2>1
  <2>2. CASE ~ f.is_old0
    <3>1. PICK l \in 0..KeyBits : l = n - 1 /\ l < KeyBits /\ l + 1 = n /\ n \in 1..n
      BY <1>1, <1>2, <2>2
    <3>2. s[n] = TreeOf(Beside(P, key, l), n) /\ Under(P, key, l) # {} /\ Under(P, key, n) = {}
      BY <3>1 DEF NewSiblings, FullPath
    <3>3. Under(P, key, l) = Under(P, key, l + 1) \union Beside(P, key, l)
      BY <3>1, UnderSplits
    <3>4. Beside(P, key, l) # {}
      BY <3>1, <3>2, <3>3
    <3>5. Coherent(Beside(P, key, l), n) /\ n \in 0..KeyBits
      BY <3>1, UnderFacts
    <3>6. TreeOf(Beside(P, key, l), n) # Zero
      BY <3>4, <3>5, Shape
    <3> QED
      BY <3>2, <3>6
  <2> QED
    BY <2>1, <2>2
<1>4. RebuiltFrom(s) = n
  <2>1. PICK r0 : r0 = RebuiltFrom(s)
    OBVIOUS
  <2>2. r0 \in 0..n /\ \A i \in (r0 + 1)..n : s[i] = Zero
    BY <1>1, <1>2, <2>1, RebuiltFromFacts
  <2>3. r0 = n
    <3> SUFFICES ASSUME r0 # n PROVE FALSE
      OBVIOUS
    <3>1. n \in (r0 + 1)..n /\ n # 0
      BY <1>1, <2>2
    <3> QED
      BY <1>3, <2>2, <3>1
  <2> QED
    BY <2>1, <2>3
<1>5. PICK t : t = Trimmed(s)
  OBVIOUS
<1>6. IsSeq(t) /\ Len(t) = n /\ \A i \in 1..n : t[i] = s[i]
  <2>1. n \in 0..n /\ t = SubSeq(s, 1, n)
    BY <1>1, <1>4, <1>5 DEF Trimmed
  <2> QED
    BY <1>1, <1>2, <2>1, FirstOnes
<1>7. CASE f.is_old0
  <2>1. r = t /\ n = d
    BY <1>2, <1>5, <1>7 DEF ReportedSiblings
  <2>2. \A i \in 1..d : r[i] = f.siblings[i]
    BY <1>2, <1>6, <2>1
  <2>3. \A i \in (d + 1)..Len(r) : r[i] = Zero
    BY <1>1, <1>6, <2>1
  <2> QED
    BY <1>1, <1>6, <2>1, <2>2, <2>3 DEF Lengthened
<1>8. CASE ~ f.is_old0
  <2>1. PICK m \in Nat : m = n - 1 /\ m + 1 = n /\ d <= m
    BY <1>1, <1>2, <1>8
  <2>2. t # <<>>
    BY <1>6, <2>1
  <2>3. r = SubSeq(t, 1, m)
    <3>1. r = Front(t)
      BY <1>5, <1>8, <2>2 DEF ReportedSiblings
    <3> QED
      BY <1>6, <2>1, <3>1 DEF Front
  <2>4. m \in 0..n
    BY <1>1, <2>1
  <2>5. IsSeq(r) /\ Len(r) = m /\ \A i \in 1..m : r[i] = t[i]
    BY <1>1, <1>6, <2>3, <2>4, FirstOnes
  <2>6. ASSUME NEW i \in 1..d PROVE r[i] = f.siblings[i]
    <3>1. i \in 1..m /\ i \in 1..n
      BY <1>1, <2>1
    <3> QED
      BY <1>2, <1>6, <2>5, <3>1
  <2>7. ASSUME NEW i \in (d + 1)..Len(r) PROVE r[i] = Zero
    <3>1. i \in 1..m /\ i \in 1..n /\ i \in (d + 1)..(n - 1)
      BY <1>1, <2>1, <2>5
    <3> QED
      BY <1>2, <1>6, <1>8, <2>5, <3>1
  <2> QED
    BY <1>1, <2>1, <2>5, <2>6, <2>7 DEF Lengthened
<1> QED
  BY <1>7, <1>8

\* A list of siblings that is padded to the depth of the circuit.
LEMMA PaddedFacts ==
  ASSUME NEW d \in Nat, NEW f, NEW r, IsSeq(r), NEW m \in Nat, Len(r) = m, d <= m, m < SmtDepth,
         Lengthened(r, f, d)
  PROVE  /\ Len(Padded(r)) = SmtDepth /\ DOMAIN Padded(r) = 1..SmtDepth
         /\ Lengthened(Padded(r), f, d)
<1>1. SmtDepth \in Nat
  BY SmtAssumption
<1>2. PICK X : r \in Seq(X)
  BY DEF IsSeq
<1>3. PICK w \in Nat : w = SmtDepth - m /\ m + w = SmtDepth
  BY <1>1
<1>4. PICK zeros : zeros = [i \in 1..w |-> Zero]
  OBVIOUS
<1>5. Padded(r) = r \o zeros
  <2>1. (IF Len(r) < SmtDepth THEN SmtDepth - Len(r) ELSE 0) = w
    BY <1>3
  <2> QED
    BY <1>4, <2>1 DEF Padded
<1>6. r \in Seq(X \union {Zero})
  BY <1>2
<1>7. zeros \in Seq(X \union {Zero}) /\ Len(zeros) = w
  <2>1. zeros \in [1..w -> X \union {Zero}]
    BY <1>4
  <2> QED
    BY <2>1, IsSequence
<1>8. PICK p : p = r \o zeros
  OBVIOUS
<1>9. /\ p \in Seq(X \union {Zero}) /\ Len(p) = m + w
      /\ \A i \in 1..(m + w) : p[i] = IF i <= m THEN r[i] ELSE zeros[i - m]
  BY <1>6, <1>7, <1>8, ConcatProperties
<1>10. Len(p) = SmtDepth /\ DOMAIN p = 1..SmtDepth
  BY <1>3, <1>9, LenProperties
<1>11. ASSUME NEW i \in 1..d PROVE p[i] = f.siblings[i]
  <2>1. i \in 1..(m + w) /\ i <= m
    BY <1>3
  <2> QED
    BY <1>9, <2>1 DEF Lengthened
<1>12. ASSUME NEW i \in (d + 1)..SmtDepth PROVE p[i] = Zero
  <2>1. i \in 1..(m + w)
    BY <1>3
  <2>2. CASE i <= m
    <3>1. i \in (d + 1)..Len(r)
      BY <2>2
    <3> QED
      BY <1>9, <2>1, <2>2, <3>1 DEF Lengthened
  <2>3. CASE ~ (i <= m)
    <3>1. i - m \in 1..w
      BY <1>3, <2>3
    <3> QED
      BY <1>4, <1>9, <2>1, <2>3, <3>1
  <2> QED
    BY <2>2, <2>3
<1> QED
  BY <1>5, <1>8, <1>10, <1>11, <1>12 DEF Lengthened

\* The circuit accepts what the client makes of a search that did not find the key.
LEMMA ClientAccepted ==
  ASSUME NEW P, OneValue(P), NEW key \in Keys, NEW d \in 0..KeyBits, NEW f, FoundAt(P, key, f, d), ~ f.found,
         NEW r, IsSeq(r), Len(r) \in d..KeyBits, Len(r) < SmtDepth, Lengthened(r, f, d),
         NEW top, top = TreeOf(P, 0)
  PROVE  SMTVerifier(key, SMTProof(r, f.not_found_key, f.not_found_value, f.is_old0, top))
<1>1. PICK m \in Nat : m = Len(r) /\ d <= m /\ d \in Nat
  BY BitLevels
<1>2. d < SmtDepth
  BY <1>1, SmtAssumption
<1>3. PICK s : s = Padded(r)
  OBVIOUS
<1>4. Len(s) = SmtDepth /\ DOMAIN s = 1..SmtDepth /\ Lengthened(s, f, d)
  BY <1>1, <1>3, PaddedFacts
<1>5. PICK p : p = SMTProof(r, f.not_found_key, f.not_found_value, f.is_old0, top)
  OBVIOUS
<1>6. /\ p.siblings = s /\ p.oldKey = f.not_found_key /\ p.oldValue = f.not_found_value
      /\ p.isOld0 = f.is_old0 /\ p.root = top
  BY <1>3, <1>5 DEF SMTProof
<1>7. SMTVerifier(key, p)
  BY <1>2, <1>4, <1>6, ProofAccepted
<1> QED
  BY <1>5, <1>7

\* The client's root is that of the tree of its pairs, db has all of its nodes, and the
\* last result is exact.
ClientInvariant ==
  /\ OneValue(entries)
  /\ clientRoot = TreeOf(entries, 0)
  /\ HasNodes(entries, db)
  /\ ResultIsExact

\* What a search in the client's tree answers.
LEMMA ClientFindAt ==
  ASSUME ClientInvariant, NEW key \in Keys
  PROVE  \E d \in 0..KeyBits : FoundAt(entries, key, find(key), d)
<1>1. PICK P, store, top : P = entries /\ store = db /\ top = clientRoot
  OBVIOUS
<1>2. OneValue(P) /\ HasNodes(P, store) /\ top = TreeOf(P, 0)
  BY <1>1 DEF ClientInvariant
<1>3. \E d \in 0..KeyBits : FoundAt(P, key, find_key_internal(top, store, key), d)
  BY <1>2, Search
<1> QED
  BY <1>1, <1>3 DEF find

\* insert keeps the invariant.
LEMMA ClientInsertKeeps ==
  ASSUME ClientInvariant, NEW key \in Keys, NEW value \in ClientValues, insert(key, value)
  PROVE  ClientInvariant'
<1>1. PICK P, store, top : P = entries /\ store = db /\ top = clientRoot
  OBVIOUS
<1>2. OneValue(P) /\ HasNodes(P, store) /\ top = TreeOf(P, 0)
  BY <1>1 DEF ClientInvariant
<1>3. PICK f, s : f = find(key) /\ s = ExtendedSiblings(key, f)
  OBVIOUS
<1>4. PICK path, r : path = BuiltPath(key, hash_leaf(key, value), s) /\ r = ReportedSiblings(f, s)
  OBVIOUS
<1>5. /\ ~ f.found
      /\ db' = store \union Range(path)
      /\ clientRoot' = path[1]
      /\ entries' = P \union {<<key, value>>}
      /\ result' = [ old_root |-> top, new_root |-> path[1], siblings |-> r,
                     old_key |-> f.not_found_key, old_value |-> f.not_found_value,
                     new_key |-> key, new_value |-> value, is_old0 |-> f.is_old0 ]
  BY <1>1, <1>3, <1>4, Zenon DEF insert, put_path
<1>6. PICK d \in 0..KeyBits : FoundAt(P, key, f, d)
  BY <1>1, <1>3, ClientFindAt
<1>7. PICK n \in 0..KeyBits : n \in d..KeyBits /\ NewSiblings(P, key, f, d, s, n)
  <2>1. PICK n \in d..KeyBits : NewSiblings(P, key, f, d, s, n)
    BY <1>2, <1>3, <1>5, <1>6, InsertPath
  <2>2. n \in 0..KeyBits
    BY BitLevels
  <2> QED
    BY <2>1, <2>2
<1>8. n \in Nat
  BY BitLevels
<1>9. IsSeq(s) /\ Len(s) = n /\ DOMAIN s = 1..n /\ FullPath(P, key, s, n) /\ Under(P, key, n) = {}
  BY <1>7, LenProperties DEF NewSiblings, IsSeq
<1>10. Without(P, key) /\ value \in Nat
  BY <1>2, <1>5, <1>6, FoundKey, ClientAssumption
<1>11. path = Rehashed(key, s, 1..n, hash_leaf(key, value))
  BY <1>4, <1>9 DEF BuiltPath
<1>12. PICK Q : Q = P \union {<<key, value>>}
  OBVIOUS
<1>13. HasOthers(P, key, store)
  BY <1>2 DEF HasNodes, HasOthers
<1>14. OneValue(Q) /\ LeadsUp(path, Q) /\ HasNodes(Q, store \union Range(path))
  BY <1>2, <1>8, <1>9, <1>10, <1>11, <1>12, <1>13, Placed
<1>15. OneValue(entries') /\ clientRoot' = TreeOf(entries', 0) /\ HasNodes(entries', db')
  BY <1>5, <1>12, <1>14 DEF LeadsUp
<1>16. ~ f.is_old0 => f.not_found_key # key
  <2> SUFFICES ASSUME ~ f.is_old0 PROVE f.not_found_key # key
    OBVIOUS
  <2>1. PICK o : o \in Under(P, key, d)
    BY <1>6 DEF FoundAt
  <2> QED
    BY <1>5, <1>6, <2>1 DEF FoundAt
<1>17. Len(r) < SmtDepth =>
         SMTVerifier(key, SMTProof(r, f.not_found_key, f.not_found_value, f.is_old0, top))
  <2>1. IsSeq(r) /\ Len(r) \in d..KeyBits /\ Lengthened(r, f, d)
    BY <1>2, <1>4, <1>5, <1>6, <1>7, ReportedFacts
  <2> QED
    BY <1>2, <1>5, <1>6, <2>1, ClientAccepted
<1>18. ResultIsExact'
  <2>1. PICK t : t = result'
    OBVIOUS
  <2>2. /\ t.new_root = clientRoot' /\ t.new_key = key /\ t.old_key = f.not_found_key /\ t.is_old0 = f.is_old0
        /\ t.siblings = r /\ t.old_value = f.not_found_value /\ t.old_root = top
    BY <1>5, <2>1
  <2>3. InsertionProof' = SMTProof(r, f.not_found_key, f.not_found_value, f.is_old0, top)
    BY <2>1, <2>2 DEF InsertionProof
  <2>4. ~ (t.old_key = t.new_key /\ ~ t.is_old0)
    BY <1>16, <2>2
  <2>5. Len(t.siblings) < SmtDepth => SMTVerifier(t.new_key, InsertionProof')
    BY <1>17, <2>2, <2>3
  <2> QED
    BY <2>1, <2>2, <2>4, <2>5 DEF ResultIsExact
<1> QED
  BY <1>15, <1>18 DEF ClientInvariant

\* update keeps the invariant.
LEMMA ClientUpdateKeeps ==
  ASSUME ClientInvariant, NEW key \in Keys, NEW value \in ClientValues, update(key, value)
  PROVE  ClientInvariant'
<1>1. PICK P, store, top : P = entries /\ store = db /\ top = clientRoot
  OBVIOUS
<1>2. OneValue(P) /\ HasNodes(P, store) /\ top = TreeOf(P, 0)
  BY <1>1 DEF ClientInvariant
<1>3. PICK f, s : f = find(key) /\ s = f.siblings
  OBVIOUS
<1>4. PICK path, R : path = BuiltPath(key, hash_leaf(key, value), s) /\ R = {e \in P : e[1] # key}
  OBVIOUS
<1>5. /\ f.found
      /\ db' = store \union Range(path)
      /\ clientRoot' = path[1]
      /\ entries' = R \union {<<key, value>>}
      /\ result' = [ old_root |-> top, new_root |-> path[1], siblings |-> s, old_key |-> key,
                     old_value |-> f.found_value, new_key |-> key, new_value |-> value,
                     is_old0 |-> FALSE ]
  BY <1>1, <1>3, <1>4, Zenon DEF update, put_path
<1>6. PICK d \in 0..KeyBits : FoundAt(P, key, f, d)
  BY <1>1, <1>3, ClientFindAt
<1>7. d \in Nat /\ d \in 0..d /\ d <= KeyBits
  BY BitLevels
<1>8. Len(s) = d /\ DOMAIN s = 1..d
  BY <1>2, <1>3, <1>6, FoundSiblings
<1>9. /\ FullPath(R, key, s, d) /\ Under(R, key, d) = {}
      /\ TreeOf(Under(P, key, d), d) = hash_leaf(key, f.found_value)
      /\ SidePath(P, key, s, d)
  BY <1>2, <1>3, <1>4, <1>5, <1>6, ReplacedPath
<1>10. OneValue(R) /\ Drops(P, R, key) /\ Without(R, key)
  BY <1>2, <1>4, OldPair
<1>11. path = Rehashed(key, s, 1..d, hash_leaf(key, value)) /\ value \in Nat
  BY <1>4, <1>8, ClientAssumption DEF BuiltPath
<1>12. PICK Q : Q = R \union {<<key, value>>}
  OBVIOUS
<1>13. HasOthers(R, key, store)
  <2> SUFFICES ASSUME NEW k \in Keys, NEW l \in 0..KeyBits, ~ Agree(key, k, l), TreeOf(Under(R, k, l), l) # Zero
               PROVE  TreeOf(Under(R, k, l), l) \in store
    BY DEF HasOthers
  <2>1. Under(R, k, l) = Under(P, k, l)
    BY <1>10 DEF Drops
  <2> QED
    BY <1>2, <2>1 DEF HasNodes
<1>14. OneValue(Q) /\ LeadsUp(path, Q) /\ HasNodes(Q, store \union Range(path))
  BY <1>8, <1>9, <1>10, <1>11, <1>12, <1>13, Placed
<1>15. OneValue(entries') /\ clientRoot' = TreeOf(entries', 0) /\ HasNodes(entries', db')
  BY <1>5, <1>12, <1>14 DEF LeadsUp
<1>16. BuiltPath(key, hash_leaf(key, f.found_value), s)[1] = top
  <2>1. PICK all, end : all = 1..d /\ end = hash_leaf(key, f.found_value)
    OBVIOUS
  <2>2. FirstLevels(all, d, d)
    BY <1>7, <2>1 DEF FirstLevels
  <2>3. \A i \in 1..(d + 1) : Rehashed(key, s, all, end)[i] = TreeOf(Under(P, key, i - 1), i - 1)
    BY <1>2, <1>7, <1>8, <1>9, <2>1, <2>2, PathIsTree
  <2>4. 1 \in 1..(d + 1) /\ 1 - 1 = 0
    BY <1>7
  <2>5. Under(P, key, 0) = P
    BY <1>2, UnderFacts, BitLevels
  <2>6. Rehashed(key, s, all, end)[1] = top
    BY <1>2, <2>3, <2>4, <2>5
  <2> QED
    BY <1>8, <2>1, <2>6 DEF BuiltPath
<1>17. ResultIsExact'
  <2>1. PICK t : t = result'
    OBVIOUS
  <2>2. /\ t.new_root = clientRoot' /\ t.new_key = key /\ t.old_key = key /\ t.is_old0 = FALSE
        /\ t.siblings = s /\ t.old_value = f.found_value /\ t.old_root = top
    BY <1>5, <2>1
  <2>3. BuiltPath(t.old_key, hash_leaf(t.old_key, t.old_value), t.siblings)[1] = t.old_root
    BY <1>16, <2>2
  <2>4. ~ (t.old_key # t.new_key \/ t.is_old0)
    BY <2>2
  <2> QED
    BY <2>1, <2>2, <2>3, <2>4 DEF ResultIsExact
<1> QED
  BY <1>15, <1>17 DEF ClientInvariant

\* The invariant holds of every state of the client's tree.
THEOREM ClientTreeInvariant == ClientSpec => []ClientInvariant
<1>1. ClientInit => ClientInvariant
  <2> SUFFICES ASSUME ClientInit PROVE ClientInvariant
    OBVIOUS
  <2>1. db = {} /\ clientRoot = Zero /\ entries = {} /\ result = <<>>
    BY DEF ClientInit
  <2>2. {} \subseteq Pairs
    OBVIOUS
  <2>3. \A lvl \in 0..KeyBits : TreeOf({}, lvl) = Zero
    BY <2>2, TreeUnfold
  <2>4. \A k, l : Under({}, k, l) = {}
    BY DEF Under
  <2>5. HasNodes({}, {})
    BY <2>3, <2>4 DEF HasNodes
  <2>6. OneValue({})
    BY <2>2 DEF OneValue
  <2>7. ResultIsExact
    BY <2>1 DEF ResultIsExact
  <2> QED
    BY <2>1, <2>3, <2>5, <2>6, <2>7, BitLevels DEF ClientInvariant
<1>2. ClientInvariant /\ [ClientNext]_clientVars => ClientInvariant'
  <2> SUFFICES ASSUME ClientInvariant, [ClientNext]_clientVars PROVE ClientInvariant'
    OBVIOUS
  <2>1. ASSUME NEW key \in Keys, NEW value \in ClientValues, insert(key, value) PROVE ClientInvariant'
    BY <2>1, ClientInsertKeeps
  <2>2. ASSUME NEW key \in Keys, NEW value \in ClientValues, update(key, value) PROVE ClientInvariant'
    BY <2>2, ClientUpdateKeeps
  <2>3. CASE UNCHANGED clientVars
    <3>1. /\ entries' = entries /\ clientRoot' = clientRoot /\ db' = db /\ result' = result
      BY <2>3 DEF clientVars
    <3>2. ResultIsExact'
      BY <3>1 DEF ClientInvariant, ResultIsExact, InsertionProof
    <3> QED
      BY <3>1, <3>2 DEF ClientInvariant
  <2> QED
    BY <2>1, <2>2, <2>3 DEF ClientNext
<1> QED
  BY <1>1, <1>2, PTL DEF ClientSpec

\* The client's tree is the contract's for the same pairs, its search is exact, and what
\* its operations return is a proof that the circuit accepts.
THEOREM ClientTreeAlwaysExact == ClientSpec => []ClientTreeIsExact
<1>1. ClientInvariant => ClientRootIsCanonical
  <2> SUFFICES ASSUME ClientInvariant PROVE ClientRootIsCanonical
    OBVIOUS
  <2>1. PICK P : P = entries
    OBVIOUS
  <2>2. P \subseteq Pairs /\ clientRoot = TreeOf(P, 0)
    BY <2>1 DEF ClientInvariant, OneValue
  <2>3. CanonicalRoot(P) = TreeOf(P, 0)
    BY <2>2, RootIsTree
  <2> QED
    BY <2>1, <2>2, <2>3 DEF ClientRootIsCanonical
<1>2. ClientInvariant => ClientFindIsExact
  <2> SUFFICES ASSUME ClientInvariant, NEW key \in Keys
               PROVE  LET f == find(key)
                      IN  /\ f.ok
                          /\ f.found <=> \E e \in entries : e[1] = key
                          /\ f.found => <<key, f.found_value>> \in entries
                          /\ ~ f.found /\ Len(f.siblings) < SmtDepth => SMTVerifier(key, get_proof(key))
    BY Zenon DEF ClientFindIsExact
  <2>1. PICK P, f, top : P = entries /\ f = find(key) /\ top = clientRoot
    OBVIOUS
  <2>2. OneValue(P) /\ top = TreeOf(P, 0)
    BY <2>1 DEF ClientInvariant
  <2>3. PICK d \in 0..KeyBits : FoundAt(P, key, f, d)
    BY <2>1, ClientFindAt
  <2>4. f.ok
    BY <2>3 DEF FoundAt
  <2>5. (f.found <=> ~ Without(P, key)) /\ (f.found => <<key, f.found_value>> \in P)
    BY <2>2, <2>3, FoundKey
  <2>6. f.found <=> \E e \in P : e[1] = key
    BY <2>5 DEF Without
  <2>7. ASSUME ~ f.found, Len(f.siblings) < SmtDepth PROVE SMTVerifier(key, get_proof(key))
    <3>1. Len(f.siblings) = d /\ DOMAIN f.siblings = 1..d /\ d \in d..KeyBits
      BY <2>2, <2>3, FoundSiblings, BitLevels
    <3>2. PICK r : r = f.siblings
      OBVIOUS
    <3>3. IsSeq(r)
      <4>1. r = [i \in 1..d |-> TreeOf(Beside(P, key, i - 1), i)] /\ d \in Nat
        BY <2>3, <3>2, BitLevels DEF FoundAt
      <4>2. PICK X : r \in [1..d -> X]
        <5>1. r \in [1..d -> {r[i] : i \in 1..d}]
          BY <4>1
        <5> QED
          BY <5>1
      <4>3. r \in Seq(X)
        BY <4>1, <4>2, IsSequence
      <4> QED
        BY <4>3 DEF IsSeq
    <3>4. Lengthened(r, f, d)
      BY <3>1, <3>2, BitLevels DEF Lengthened
    <3>5. SMTVerifier(key, SMTProof(r, f.not_found_key, f.not_found_value, f.is_old0, top))
      BY <2>2, <2>3, <2>7, <3>1, <3>2, <3>3, <3>4, ClientAccepted
    <3> QED
      BY <2>1, <3>2, <3>5 DEF get_proof
  <2> QED
    BY <2>1, <2>4, <2>5, <2>6, <2>7
<1>3. ClientInvariant => ClientTreeIsExact
  BY <1>1, <1>2 DEF ClientInvariant, ClientTreeIsExact
<1> QED
  BY <1>3, ClientTreeInvariant, PTL
=============================================================================
