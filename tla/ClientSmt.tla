------------------------------ MODULE ClientSmt ------------------------------
(***************************************************************************)
(* The client library's own sparse Merkle tree: it is searched like the    *)
(* contract's, but it never forgets a node, it can change the value of a   *)
(* key, and its operations return what the circuit needs to follow them.   *)
(***************************************************************************)
EXTENDS AspNonMembership

CONSTANTS ClientValues, MaxUpdates    \* values to store; bound: updates

ASSUME ClientAssumption == ClientValues \subseteq Nat /\ MaxUpdates \in Nat

VARIABLES
  db,           \* the hashes the tree has a node for
  clientRoot,   \* SparseMerkleTree.root
  entries,      \* history: the pairs stored
  result,       \* what the last operation returned (SMTResult), or <<>>
  updates       \* how many updates were made

clientVars == <<db, clientRoot, entries, result, updates>>

\* SparseMerkleTree::new
ClientInit ==
  /\ db = {} /\ clientRoot = Zero /\ entries = {} /\ result = <<>> /\ updates = 0

\* SparseMerkleTree::find; where ok is FALSE it is "Node not found in database".
find(key) == find_key_internal(clientRoot, db, key)

\* The hashes on the path from a new leaf up to the root, from the root down.
BuiltPath(key, leaf, siblings) == Rehashed(key, siblings, DOMAIN siblings, leaf)

\* The leaf and every node of its path are stored, and the path's top is the root.
put_path(path) ==
  /\ db' = db \union Range(path)
  /\ clientRoot' = path[1]

Trimmed(siblings) == SubSeq(siblings, 1, RebuiltFrom(siblings))

ReportedSiblings_Mutant(f, siblings) == Trimmed(siblings)

\* What insert returns of the siblings: without trailing zeros, and then without
\* the old leaf of a collision.
ReportedSiblings(f, siblings) ==
  LET trimmed == Trimmed(siblings)
  IN  IF ~ f.is_old0 /\ trimmed # <<>> THEN Front(trimmed) ELSE trimmed

\* SparseMerkleTree::insert: "Key already exists" when the key is found.
insert(key, value) ==
  LET f        == find(key)
      siblings == ExtendedSiblings(key, f)
      path     == BuiltPath(key, hash_leaf(key, value), siblings)
  IN  /\ f.ok /\ ~ f.found
      /\ put_path(path)
      /\ entries' = entries \union {<<key, value>>}
      /\ result' = [ old_root |-> clientRoot, new_root |-> path[1],
                     siblings |-> ReportedSiblings(f, siblings),
                     old_key |-> f.not_found_key, old_value |-> f.not_found_value,
                     new_key |-> key, new_value |-> value, is_old0 |-> f.is_old0 ]
      /\ UNCHANGED updates

\* SparseMerkleTree::update: "Key does not exist" when the key is not found.
update(key, new_value) ==
  LET f    == find(key)
      path == BuiltPath(key, hash_leaf(key, new_value), f.siblings)
  IN  /\ updates < MaxUpdates /\ updates' = updates + 1
      /\ f.ok /\ f.found
      /\ put_path(path)
      /\ entries' = {e \in entries : e[1] # key} \union {<<key, new_value>>}
      /\ result' = [ old_root |-> clientRoot, new_root |-> path[1],
                     siblings |-> f.siblings, old_key |-> key,
                     old_value |-> f.found_value, new_key |-> key,
                     new_value |-> new_value, is_old0 |-> FALSE ]

ClientNext ==
  \E key \in Keys, value \in ClientValues : insert(key, value) \/ update(key, value)

ClientSpec == ClientInit /\ [][ClientNext]_clientVars

-----------------------------------------------------------------------------
\* Siblings are padded to the depth of the circuit, and never cut.
Padded(siblings) ==
  siblings \o [i \in 1..(IF Len(siblings) < SmtDepth THEN SmtDepth - Len(siblings) ELSE 0) |-> Zero]

\* A proof as the circuit takes it.
SMTProof(siblings, old_key, old_value, is_old0, root_hash) ==
  [ siblings |-> Padded(siblings), oldKey |-> old_key, oldValue |-> old_value,
    isOld0 |-> is_old0, root |-> root_hash ]

\* get_proof with max_levels = SmtDepth.
get_proof(key) ==
  LET f == find(key)
  IN  SMTProof(f.siblings, f.not_found_key, f.not_found_value, f.is_old0, clientRoot)

\* The result of an insertion as a proof, under the root before it, that the key
\* was not in the tree.
InsertionProof ==
  SMTProof(result.siblings, result.old_key, result.old_value, result.is_old0, result.old_root)

\* The same root as the contract for the same pairs, in whatever order they came and
\* with whatever nodes of earlier trees left in db.
ClientRootIsCanonical == clientRoot = CanonicalRoot(entries)

\* find never fails and is exact, and every other key has a proof the circuit
\* accepts.  (The circuit holds branches of less than SmtDepth levels.)
ClientFindIsExact ==
  \A key \in Keys :
    LET f == find(key)
    IN  /\ f.ok
        /\ f.found <=> \E e \in entries : e[1] = key
        /\ f.found => <<key, f.found_value>> \in entries
        /\ ~ f.found /\ Len(f.siblings) < SmtDepth => SMTVerifier(key, get_proof(key))

\* What an operation returns leads from the old root and to the new one.
ResultIsExact ==
  result # <<>> =>
    /\ result.new_root = clientRoot
    /\ result.old_key = result.new_key /\ ~ result.is_old0 =>
         BuiltPath(result.old_key, hash_leaf(result.old_key, result.old_value),
                   result.siblings)[1] = result.old_root
    /\ (result.old_key # result.new_key \/ result.is_old0) /\ Len(result.siblings) < SmtDepth =>
         SMTVerifier(result.new_key, InsertionProof)

\* The client's tree is the contract's, and so are its proofs.
ClientTreeIsExact == ClientRootIsCanonical /\ ClientFindIsExact /\ ResultIsExact
==============================================================================
