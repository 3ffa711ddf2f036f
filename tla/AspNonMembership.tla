-------------------------- MODULE AspNonMembership --------------------------
(***************************************************************************)
(* The sparse Merkle tree of the ASP non-membership contract: the block    *)
(* list.  Nodes are stored under their hash; a path is followed by the     *)
(* bits of the key, least significant first, and ends at a leaf or at an   *)
(* empty branch.  The module also has the client that turns find_key into  *)
(* a proof of fixed depth and the circuit's SMTVerifier that checks it.    *)
(* Poseidon2 is a free constructor, so a hash determines what is stored    *)
(* under it and the store is a set of hashes.                              *)
(***************************************************************************)
EXTENDS Naturals, Sequences, FiniteSets, SequencesExt

CONSTANTS
  KeyBits,   \* width of a key (256 in the contract)
  Keys,      \* keys the admin inserts or a user asks about
  Values,    \* values the admin stores
  Admin,     \* addresses that may be the administrator
  SmtDepth   \* levels of the circuit's SMTVerifier

\* A key after every division by two.
halved(key) ==
  LET k[i \in 0..KeyBits] == IF i = 0 THEN key ELSE k[i - 1] \div 2
  IN  k

\* Bit i of a key, i = 0 for the least significant.
split_bits(key, i) == halved(key)[i] % 2 = 1

ASSUME SmtAssumption ==
  /\ KeyBits \in Nat \ {0}
  /\ Keys \subseteq Nat /\ \A key \in Keys : halved(key)[KeyBits] = 0
  /\ Values \subseteq Nat
  /\ SmtDepth \in Nat \ {0}

VARIABLES
  admin,    \* DataKey::Admin
  root,     \* DataKey::Root
  nodes,    \* the hashes h for which DataKey::Node(h) is stored
  blocked   \* history: the pairs inserted and not deleted

smtVars == <<admin, root, nodes, blocked>>

-----------------------------------------------------------------------------
Zero == <<>>
hash_leaf(key, value) == <<"leaf", key, value>>
hash_internal(left, right) == <<left, right>>

IsLeaf(h)     == Len(h) = 3
IsInternal(h) == Len(h) = 2

\* The parent of `child` at level i on the path of `key`.
Join(key, i, child, sibling) ==
  IF split_bits(key, i) THEN hash_internal(sibling, child)
                        ELSE hash_internal(child, sibling)

Child(h, bit) == IF bit THEN h[2] ELSE h[1]

\* The hashes on the path of `key`, from the root down, when `end` is joined upwards
\* with the siblings of the levels in `joined`; any other level passes it on.
Rehashed(key, siblings, joined, end) ==
  LET n == Len(siblings)
      up[i \in 1..(n + 1)] ==
        IF i = n + 1 THEN end
        ELSE IF i \in joined THEN Join(key, i - 1, up[i + 1], siblings[i])
        ELSE up[i + 1]
  IN  up

\* The store after every level of a path, going up, has first removed the hashes
\* gone[i] and then stored the hashes new[i].
Rewritten(store, gone, new) ==
  LET n == Len(new)
      up[i \in 1..(n + 1)] ==
        IF i = n + 1 THEN store ELSE (up[i + 1] \ gone[i]) \union new[i]
  IN  up[1]

\* An internal node that the store has.
Inner(h, store) == IsInternal(h) /\ h \in store

\* The hashes on the way down from `top` along the bits of `key`.
Descent(top, store, key) ==
  LET at[i \in 0..KeyBits] ==
        IF i = 0 THEN top
        ELSE IF Inner(at[i - 1], store) THEN Child(at[i - 1], split_bits(key, i - 1)) ELSE Zero
  IN  at

\* Follow the bits of `key` down from `top`, as long as the store has an internal
\* node.  ok is FALSE where the search fails because a node is missing or the path
\* is longer than a key.
find_key_internal(top, store, key) ==
  LET at    == Descent(top, store, key)
      depth == CHOOSE i \in 0..KeyBits :
                 /\ ~ Inner(at[i], store) \/ i = KeyBits
                 /\ \A j \in 0..(i - 1) : Inner(at[j], store)
      end   == at[depth]
      other == IsLeaf(end) /\ end[2] # key
  IN  [ ok              |-> end = Zero \/ (IsLeaf(end) /\ end \in store),
        found           |-> IsLeaf(end) /\ end[2] = key,
        siblings        |-> [i \in 1..depth |->
                               Child(at[i - 1], ~ split_bits(key, i - 1))],
        found_value     |-> IF IsLeaf(end) /\ ~ other THEN end[3] ELSE 0,
        not_found_key   |-> IF end = Zero THEN key ELSE IF other THEN end[2] ELSE 0,
        not_found_value |-> IF other THEN end[3] ELSE 0,
        is_old0         |-> end = Zero ]

\* The search in the contract's tree; where ok is FALSE it answers KeyNotFound.
find_key(key) == find_key_internal(root, nodes, key)

\* The number of low bits two keys share.
CommonPrefix(a, b) ==
  CHOOSE n \in 0..KeyBits :
    /\ \A i \in 0..(n - 1) : split_bits(a, i) = split_bits(b, i)
    /\ n = KeyBits \/ split_bits(a, n) # split_bits(b, n)

\* Mutant: a collision is resolved one level below the old leaf, without the
\* empty levels of the common prefix.
ExtendedSiblings_Mutant(key, f) ==
  IF f.is_old0 THEN f.siblings
  ELSE Append(f.siblings, hash_leaf(f.not_found_key, f.not_found_value))

\* The siblings of the new leaf: on a collision, an empty sibling for every
\* further bit the keys share, then the old leaf.
ExtendedSiblings(key, f) ==
  IF f.is_old0 THEN f.siblings
  ELSE f.siblings
       \o [i \in 1..(CommonPrefix(key, f.not_found_key) - Len(f.siblings)) |-> Zero]
       \o <<hash_leaf(f.not_found_key, f.not_found_value)>>

-----------------------------------------------------------------------------
SmtInit ==
  /\ admin \in Admin
  /\ root = Zero
  /\ nodes = {}
  /\ blocked = {}

\* ASPNonMembership::update_admin, authorised by the present administrator.
update_admin(caller, new_admin) ==
  /\ caller = admin
  /\ admin' = new_admin
  /\ UNCHANGED <<root, nodes, blocked>>

\* ASPNonMembership::insert_leaf.  Going up from the new leaf, every level
\* first removes the node of the old path (once `mixed`, that is once the old
\* path had a node there) and then stores the new one.
insert_leaf(caller, key, value) ==
  LET f        == find_key(key)
      siblings == ExtendedSiblings(key, f)
      len      == Len(siblings)
      leaf     == hash_leaf(key, value)
      added(i) == ~ f.is_old0 /\ i = len
      mixed(i) == \/ f.is_old0 /\ len > 0
                  \/ \E j \in i..(len - 1) : siblings[j] # Zero
      removes(i) == mixed(i) /\ ~ added(i)
      old_siblings == [i \in 1..len |-> IF i <= Len(f.siblings) THEN f.siblings[i] ELSE Zero]
      rt_old == Rehashed(key, old_siblings, {i \in 1..len : removes(i)},
                         IF f.is_old0 THEN Zero ELSE hash_leaf(f.not_found_key, f.not_found_value))
      rt == Rehashed(key, siblings, 1..len, leaf)
  IN  /\ caller = admin
      /\ f.ok
      /\ ~ f.found
      /\ root' = rt[1]
      /\ nodes' = Rewritten(nodes \union {leaf},
                            [i \in 1..len |-> IF removes(i) THEN {rt_old[i]} ELSE {}],
                            [i \in 1..len |-> {rt[i]}])
      /\ blocked' = blocked \union {<<key, value>>}
      /\ UNCHANGED admin

\* delete_leaf refuses when the last sibling is not stored.
Deletable(f) ==
  f.ok /\ f.found /\ (f.siblings # <<>> => Last(f.siblings) \in nodes)

\* The last sibling is a leaf, which takes the place of its parent.
Promotes(f) == f.siblings # <<>> /\ IsLeaf(Last(f.siblings))

\* The deepest level with a sibling: from there up the path is rebuilt.
RebuiltFrom(siblings) ==
  LET full == {i \in DOMAIN siblings : siblings[i] # Zero}
  IN  CHOOSE i \in 0..Len(siblings) :
        (i = 0 \/ i \in full) /\ \A j \in full : j <= i

\* What delete_leaf removes before it looks at the siblings.
RemovedFirst(key, f) == {hash_leaf(key, f.found_value)}

\* ASPNonMembership::delete_leaf.  The hashes removed on the way up start from
\* the deleted leaf, at the level of the first sibling that is kept.
delete_leaf(caller, key) ==
  LET f        == find_key(key)
      leaf     == hash_leaf(key, f.found_value)
      siblings == IF Promotes(f) THEN Front(f.siblings) ELSE f.siblings
      len      == Len(siblings)
      rebuilt == 1..RebuiltFrom(siblings)
      rt_old == Rehashed(key, siblings, 1..len, leaf)
      rt_new == Rehashed(key, siblings, rebuilt, IF Promotes(f) THEN Last(f.siblings) ELSE Zero)
  IN  /\ caller = admin
      /\ Deletable(f)
      /\ root' = rt_new[1]
      /\ nodes' = Rewritten(nodes \ RemovedFirst(key, f),
                            [i \in 1..len |-> {rt_old[i]}],
                            [i \in 1..len |-> IF i \in rebuilt THEN {rt_new[i]} ELSE {}])
      /\ blocked' = {e \in blocked : e[1] # key}
      /\ UNCHANGED admin

SmtNext ==
  \E caller \in Admin :
    \/ \E key \in Keys, value \in Values : insert_leaf(caller, key, value)
    \/ \E key \in Keys : delete_leaf(caller, key)
    \/ \E new_admin \in Admin : update_admin(caller, new_admin)

SmtSpec == SmtInit /\ [][SmtNext]_smtVars

-----------------------------------------------------------------------------
(* Reading the tree: verify_non_membership, the client and the circuit.    *)

\* ASPNonMembership::verify_non_membership: "Ok(true)", "Ok(false)" or an error.
verify_non_membership(key, siblings, oldKey, oldValue) ==
  LET f == find_key(key)
      computed == Rehashed(key, siblings, DOMAIN siblings,
                           IF oldKey # key /\ oldValue # 0 THEN hash_leaf(oldKey, oldValue) ELSE Zero)
  IN  CASE ~ f.ok  -> "KeyNotFound"
        [] f.found -> "Ok(false)"
        [] ~ f.found /\ f.ok ->
             IF /\ f.siblings = siblings
                /\ f.not_found_key = oldKey
                /\ f.not_found_value = oldValue
                /\ computed[1] = root
             THEN "Ok(true)" ELSE "InvalidProof"

\* StateFetcher::get_nonmembership_proof for a key that is not in the tree: the
\* siblings are padded or cut to the depth of the circuit.
get_nonmembership_proof(key) ==
  LET f == find_key(key)
  IN  [ siblings |-> [i \in 1..SmtDepth |->
                        IF i <= Len(f.siblings) THEN f.siblings[i] ELSE Zero],
        oldKey   |-> IF root = Zero THEN 0 ELSE f.not_found_key,
        oldValue |-> f.not_found_value,
        isOld0   |-> f.is_old0,
        root     |-> root ]

\* circomlib's SMTLevIns: the level after the last sibling that is not zero.
LevIns(siblings) == RebuiltFrom(siblings)

\* Mutant: the old leaf may be the key itself.
SMTVerifier_Mutant(key, p) ==
  LET level == Rehashed(key, p.siblings, 1..LevIns(p.siblings),
                        IF p.isOld0 THEN Zero ELSE hash_leaf(p.oldKey, p.oldValue))
  IN  p.siblings[SmtDepth] = Zero /\ level[1] = p.root

\* SMTVerifier with fnc = 1: the path from the claimed end of the key's branch,
\* empty or another key's leaf, leads to the claimed root.  Its last sibling must be
\* zero, so a branch of SmtDepth levels has no proof.
SMTVerifier(key, p) ==
  LET level == Rehashed(key, p.siblings, 1..LevIns(p.siblings),
                        IF p.isOld0 THEN Zero ELSE hash_leaf(p.oldKey, p.oldValue))
  IN  /\ p.siblings[SmtDepth] = Zero
      /\ p.isOld0 \/ p.oldKey # key
      /\ level[1] = p.root

-----------------------------------------------------------------------------
(* Reference definition and properties.                                    *)

BlockedKeys == {e[1] : e \in blocked}

\* The pairs of S whose key has the bit b at level lvl.
Side(S, lvl, b) == {e \in S : split_bits(e[1], lvl) = b}

\* The trees of the subsets of a set of pairs at the lowest level, where keys differ:
\* a set with one pair is its leaf.
Single(S) == \E e \in S : S = {e}
LeafOf(S) == LET e == CHOOSE e \in S : TRUE IN hash_leaf(e[1], e[2])
Tips(pairs) == [S \in SUBSET pairs |-> IF Single(S) THEN LeafOf(S) ELSE Zero]

\* The trees at level lvl over those of the next: a set with no pair is empty, one
\* with a single pair is its leaf, and any other splits on the bit of the level.
Grown(pairs, lvl, below) ==
  [S \in SUBSET pairs |->
     IF S = {} THEN Zero
     ELSE IF Single(S) THEN LeafOf(S)
     ELSE hash_internal(below[Side(S, lvl, FALSE)], below[Side(S, lvl, TRUE)])]

\* The same for every level, by the number of levels below it.
Subtrees(pairs) ==
  LET sub[left \in 0..KeyBits] ==
        IF left = 0 THEN Tips(pairs) ELSE Grown(pairs, KeyBits - left, sub[left - 1])
  IN  sub

CanonicalRoot(pairs) == Subtrees(pairs)[KeyBits][pairs]

\* The nodes of the current tree, level by level, and all of them.
Below ==
  LET down[i \in 0..KeyBits] ==
        IF i = 0 THEN {root}
        ELSE UNION {{h[1], h[2]} : h \in {g \in down[i - 1] : IsInternal(g)}}
  IN  down

Reachable == (UNION {Below[i] : i \in 0..KeyBits}) \ {Zero}

\* Every variable stays in its type: one value per key, and a store of leaves
\* and internal nodes.
SmtTypeOK ==
  /\ admin \in Admin
  /\ blocked \subseteq Keys \X Values
  /\ Cardinality(BlockedKeys) = Cardinality(blocked)
  /\ \A h \in nodes : IsLeaf(h) \/ IsInternal(h)
  /\ Reachable \subseteq nodes

\* The root depends on what is blocked and not on the order in which
\* insert_leaf and delete_leaf built the tree, collisions and promotions
\* included; a client that rebuilds the tree from events gets the same root.
HistoryIndependent == root = CanonicalRoot(blocked)

\* find_key never fails on a missing node, finds exactly the blocked keys with
\* their values, and delete_leaf can remove each of them.
FindIsExact ==
  \A key \in Keys :
    LET f == find_key(key)
    IN  /\ f.ok
        /\ f.found <=> key \in BlockedKeys
        /\ f.found => <<key, f.found_value>> \in blocked /\ Deletable(f)

\* The contract's tree is that of what is blocked, and its search says just that.
BlocklistIsExact == HistoryIndependent /\ FindIsExact

\* The owner of a key that is not blocked gets a proof from find_key that the
\* circuit accepts, on a branch the circuit can hold, and that the contract
\* accepts, unless the branch ends in a leaf of value 0.
UnblockedCanProve ==
  \A key \in Keys \ BlockedKeys :
    LET f == find_key(key)
    IN  /\ Len(f.siblings) < SmtDepth => SMTVerifier(key, get_nonmembership_proof(key))
        /\ f.is_old0 \/ f.not_found_value # 0
             => verify_non_membership(key, f.siblings, f.not_found_key, f.not_found_value)
                  = "Ok(true)"

\* What get_nonmembership_proof cuts off cannot be done without: on a branch of
\* SmtDepth levels or more, which other keys of the tree make, the owner of a key
\* that is not blocked gets a proof that the circuit refuses.
TooDeepToProve ==
  \A key \in Keys \ BlockedKeys :
    Len(find_key(key).siblings) >= SmtDepth => ~ SMTVerifier(key, get_nonmembership_proof(key))

\* No choice of siblings and of old leaf makes the circuit accept a blocked
\* key, not even with nodes of earlier trees.  (The last sibling must be zero.)
BlockedCannotProve ==
  \A key \in BlockedKeys :
    \A siblings \in [1..(SmtDepth - 1) -> nodes \union {Zero}] :
      \A old \in Keys \X Values, isOld0 \in BOOLEAN :
        ~ SMTVerifier(key, [siblings |-> Append(siblings, Zero),
                            oldKey |-> old[1], oldValue |-> old[2], isOld0 |-> isOld0,
                            root |-> root])
=============================================================================
