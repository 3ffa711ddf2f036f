----------------------------- MODULE MerkleTree -----------------------------
(***************************************************************************)
(* The three implementations of the fixed-depth Merkle tree that must      *)
(* agree: the incremental trees of the pool contract (two leaves at a      *)
(* time) and of the ASP membership contract (one leaf at a time), which    *)
(* keep one filled subtree per level; the prefix tree the client rebuilds  *)
(* from indexed events to compute roots and paths; and the path check of   *)
(* the circuit.  Poseidon2 compression is a free pairing.                  *)
(***************************************************************************)
EXTENDS Naturals, Sequences

CONSTANTS
  Leaf,      \* leaf values
  ZeroLeaf,  \* the value of a leaf never written
  Levels     \* depth of the tree

ASSUME MerkleAssumption == ZeroLeaf \notin Leaf /\ Levels \in 1..32

VARIABLES
  contract,        \* which contract this tree belongs to
  filledSubtrees,  \* FilledSubtree(lvl)
  nextIndex,       \* NextIndex
  treeRoot,        \* the latest root
  leaves           \* the leaves in the order of the events that announce them

treeVars == <<contract, filledSubtrees, nextIndex, treeRoot, leaves>>

-----------------------------------------------------------------------------
hash_pair(l, r) == <<l, r>>

\* zeroes[i]: the root of an empty subtree of height i.
Zeroes[i \in 0..Levels] ==
  IF i = 0 THEN ZeroLeaf ELSE hash_pair(Zeroes[i - 1], Zeroes[i - 1])

\* 1 << levels.
max_leaves ==
  LET shifted[lvl \in 0..Levels] == IF lvl = 0 THEN 1 ELSE 2 * shifted[lvl - 1]
  IN  shifted[Levels]

\* Where the nodes above a leaf are on their levels: the index loses its lowest
\* bit with every step up.
Above(index) ==
  LET pos[lvl \in 0..Levels] == IF lvl = 0 THEN index ELSE pos[lvl - 1] \div 2
  IN  pos

\* Is the node at this level a right child?
IsRight(index, lvl) == Above(index)[lvl] % 2 = 1

\* The hashes on the path from a node of level `from` to the root: a right
\* child has its sibling on the left, a left child on the right.
HashesUp(from, hash, siblings, index) ==
  LET h[lvl \in 0..Levels] ==
        IF lvl <= from THEN hash
        ELSE IF IsRight(index, lvl - 1) THEN hash_pair(siblings[lvl - 1], h[lvl - 1])
        ELSE hash_pair(h[lvl - 1], siblings[lvl - 1])
  IN  h

\* A right child is paired with the stored left sibling, a left child with zero.
Path(from, hash) ==
  HashesUp(from, hash,
           [lvl \in 0..Levels |-> IF IsRight(nextIndex, lvl) THEN filledSubtrees[lvl] ELSE Zeroes[lvl]],
           nextIndex)

\* Recompute the path and remember every left child on it.
Climb(from, hash) ==
  /\ treeRoot' = Path(from, hash)[Levels]
  /\ filledSubtrees' =
       [lvl \in 0..Levels |-> IF lvl \in from..(Levels - 1) /\ ~ IsRight(nextIndex, lvl)
                              THEN Path(from, hash)[lvl] ELSE filledSubtrees[lvl]]

TreeInit ==
  /\ contract \in {"pool", "asp-membership"}
  /\ filledSubtrees = Zeroes
  /\ nextIndex = 0
  /\ treeRoot = Zeroes[Levels]
  /\ leaves = <<>>

\* MerkleTreeWithHistory::insert_two_leaves: the pair is hashed first, so the
\* climb starts at level 1.
insert_two_leaves(a, b) ==
  /\ contract = "pool"
  /\ nextIndex % 2 = 0
  /\ nextIndex + 2 <= max_leaves
  /\ Climb(1, hash_pair(a, b))
  /\ nextIndex' = nextIndex + 2
  /\ leaves' = leaves \o <<a, b>>
  /\ UNCHANGED contract

\* ASPMembership::insert_member_leaf.
insert_member_leaf(a) ==
  /\ contract = "asp-membership"
  /\ nextIndex < max_leaves
  /\ Climb(0, a)
  /\ nextIndex' = nextIndex + 1
  /\ leaves' = Append(leaves, a)
  /\ UNCHANGED contract

TreeNext ==
  \/ \E a, b \in Leaf : insert_two_leaves(a, b)
  \/ \E a \in Leaf : insert_member_leaf(a)

TreeSpec == TreeInit /\ [][TreeNext]_treeVars

-----------------------------------------------------------------------------
(* MerklePrefixTree: the client's tree over the leaves it has indexed.     *)

\* levels[level] holds the nodes that cover the given leaves, padded with an
\* empty node when there is none.
BuiltLevels(ls) ==
  LET levels[lvl \in 0..Levels] ==
        IF lvl = 0
        THEN IF ls = <<>> THEN <<Zeroes[0]>> ELSE ls
        ELSE LET below   == levels[lvl - 1]
                 Node(i) == IF i < Len(below) THEN below[i + 1] ELSE Zeroes[lvl - 1]
             IN  [i \in 1..((Len(below) + 1) \div 2) |->
                    hash_pair(Node(2 * i - 2), Node(2 * i - 1))]
  IN  levels

built_root(ls) == BuiltLevels(ls)[Levels][1]

\* Mutant: a missing sibling is the zero leaf at every level.
path_elements_Mutant(ls, index) ==
  [lvl \in 0..(Levels - 1) |->
     LET pos == Above(index)[lvl]
         sib == IF pos % 2 = 1 THEN pos - 1 ELSE pos + 1
     IN  IF sib < Len(BuiltLevels(ls)[lvl]) THEN BuiltLevels(ls)[lvl][sib + 1]
                                            ELSE ZeroLeaf]

\* The siblings on the way up from a leaf, one per level.
path_elements(ls, index) ==
  [lvl \in 0..(Levels - 1) |->
     LET pos == Above(index)[lvl]
         sib == IF pos % 2 = 1 THEN pos - 1 ELSE pos + 1
     IN  IF sib < Len(BuiltLevels(ls)[lvl]) THEN BuiltLevels(ls)[lvl][sib + 1]
                                            ELSE Zeroes[lvl]]

\* The circuit's MerkleProof template: bit lvl of pathIndices says on which
\* side the path element goes.
CircuitRoot(leaf, elements, index) == HashesUp(0, leaf, elements, index)[Levels]

-----------------------------------------------------------------------------
(* Reference definition and properties.                                    *)

\* The root of the complete tree: its leaves are those given, and zero after them.
ReferenceRoot(ls) ==
  LET node[lvl \in 0..Levels] ==
        IF lvl = 0
        THEN [i \in Nat |-> IF i < Len(ls) THEN ls[i + 1] ELSE ZeroLeaf]
        ELSE [i \in Nat |-> hash_pair(node[lvl - 1][2 * i], node[lvl - 1][2 * i + 1])]
  IN  node[Levels][0]

\* Every variable stays in its type.
TreeTypeOK ==
  /\ nextIndex \in 0..max_leaves
  /\ leaves \in Seq(Leaf)
  /\ Len(leaves) = nextIndex
  /\ DOMAIN filledSubtrees = 0..Levels

\* The root a contract computes from one filled subtree per level is the root
\* of the whole tree, after every insertion up to the last.
RootIsReference == treeRoot = ReferenceRoot(leaves)

\* A client that has indexed every leaf computes the contract's root, and for
\* every leaf a path that the circuit accepts against that root.
ClientAgrees ==
  /\ built_root(leaves) = treeRoot
  /\ \A i \in DOMAIN leaves :
       CircuitRoot(leaves[i], path_elements(leaves, i - 1), i - 1) = treeRoot

\* The three trees agree: contract, client and circuit.
TreesAgree == RootIsReference /\ ClientAgrees
=============================================================================
