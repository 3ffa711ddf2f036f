----------------------------- MODULE Disclosure -----------------------------
(***************************************************************************)
(* Selective disclosure: an owner shows to an authority, with a receipt,   *)
(* that a note of a pool is hers.  One page issues receipts from the local *)
(* database and the chain's state, another checks them; between the pages  *)
(* a receipt is a file that anyone may edit.                               *)
(*                                                                         *)
(* Note n is the n-th leaf of the pool, and root k the root over the first *)
(* k leaves.  Strings are sequences.  A proof is the statement it proves   *)
(* with the key it was made for; the hash of a context is what is hashed.  *)
(***************************************************************************)
EXTENDS Integers, Sequences, FiniteSets

CONSTANTS
  OwnNotes,       \* the notes of the user
  Contexts,       \* what users enter: records of strings and a nonce
  OwnPool,        \* the pool of the notes, enabled in the configuration
  KnownRoots,     \* roots the pool remembers
  MaxRoots,       \* bound on the pool's transactions
  MaxReceipts,    \* bound on receipts issued
  Nil

Context == [network : Seq(Nat), pool_address : Seq(Nat), authority_label : Seq(Nat),
            payload : Seq(Nat), purpose : Seq(Nat), nonce : Nat]

ASSUME DisclosureAssumption ==
  /\ OwnNotes \subseteq Nat /\ Contexts \subseteq Context
  /\ KnownRoots \in Nat /\ MaxRoots \in Nat /\ MaxReceipts \in Nat

VARIABLES
  ledger,     \* of the pool: number of leaves and spent notes
  local,      \* of the database: number of leaves and notes known to be spent
  gen,        \* the generation under way
  receipts,   \* receipts issued so far
  ver         \* the verifier's page

disclosureVars == <<ledger, local, gen, receipts, ver>>

-----------------------------------------------------------------------------
(* Receipts.                                                               *)

\* DisclosureContext::validate
context_validate(c) ==
  <<>> \notin {c.network, c.pool_address, c.authority_label, c.payload, c.purpose}

\* Mutant: strings are hashed without their lengths.
feed_str_Mutant(s) == s

\* A string goes into the hash behind its length.
feed_str(s) == <<Len(s)>> \o s

derive_ext_context_hash(c) ==
  feed_str(c.network) \o (feed_str(c.pool_address) \o (feed_str(c.authority_label)
    \o (feed_str(c.payload) \o (feed_str(c.purpose) \o <<c.nonce>>))))

Statement(root, commitment, hash) == <<root, commitment, hash>>

\* The circuit: the owner's key opens the commitment, which is under the root.
SelectiveDisclosure(note, root) == note \in OwnNotes /\ note \in 1..root

\* The key compiled into the page, and its hash in a receipt.
CanonicalKey == "canonical"

Receipt(context, root, note, hash) ==
  [shape |-> TRUE, vk_hash |-> CanonicalKey, context |-> context, root |-> root,
   commitment |-> note, hash |-> hash,
   proof |-> [key |-> CanonicalKey, of |-> Statement(root, note, hash)]]

\* Version, circuit metadata and lengths, with the key the verifier expects.
validate_receipt(r, expected) ==
  r.shape /\ context_validate(r.context) /\ r.vk_hash = expected

verify_proof(r) ==
  r.proof = [key |-> CanonicalKey, of |-> Statement(r.root, r.commitment, r.hash)]

verify_receipt_context(r) == derive_ext_context_hash(r.context) = r.hash

\* What an edited file may hold: one part replaced, or context and hash together.
Edited(r) ==
  {r} \union {[r EXCEPT !.shape = FALSE], [r EXCEPT !.vk_hash = "other"]}
      \union {[r EXCEPT !.context = c] : c \in Contexts}
      \union {[r EXCEPT !.context = c, !.hash = derive_ext_context_hash(c)] : c \in Contexts}
      \union {[r EXCEPT !.commitment = n] : n \in OwnNotes}
      \union {[r EXCEPT !.root = k] : k \in 1..MaxRoots}

-----------------------------------------------------------------------------
(* The pool and the database.                                              *)

\* Mutant: one root too few.
is_known_root_Mutant(root) == root > ledger.leaves - KnownRoots + 1 /\ root <= ledger.leaves

is_known_root(root) == root > ledger.leaves - KnownRoots /\ root <= ledger.leaves

pool_transacts ==
  /\ ledger.leaves < MaxRoots
  /\ \E spends \in {{}} \union {{n} : n \in (OwnNotes \intersect 1..ledger.leaves) \ ledger.spent} :
       ledger' = [leaves |-> ledger.leaves + 1, spent |-> ledger.spent \union spends]
  /\ UNCHANGED <<local, gen, receipts, ver>>

\* The processor takes over an event: a commitment or a nullifier.
local_processes ==
  /\ \/ /\ local.leaves < ledger.leaves
        /\ local' = [local EXCEPT !.leaves = @ + 1]
     \/ \E n \in ledger.spent \ local.spent : local' = [local EXCEPT !.spent = @ \union {n}]
  /\ UNCHANGED <<ledger, gen, receipts, ver>>

-----------------------------------------------------------------------------
(* The owner's page.                                                       *)

Idling == [pc |-> "idle", note |-> Nil, context |-> Nil, root |-> Nil]

\* The list of notes was loaded earlier: the note may be spent by now.  The form
\* is checked as derive_ext_context_hash will check it.
click_generate ==
  /\ gen.pc = "idle" /\ Cardinality(receipts) < MaxReceipts
  /\ \E n \in OwnNotes \intersect 1..local.leaves : \E c \in Contexts :
       /\ context_validate(c)
       /\ gen' = [pc |-> "fetch", note |-> n, context |-> c, root |-> Nil]
  /\ UNCHANGED <<ledger, local, receipts, ver>>

fetch_chain_state ==
  /\ gen.pc = "fetch"
  /\ gen' = [gen EXCEPT !.pc = "inputs", !.root = ledger.leaves]
  /\ UNCHANGED <<ledger, local, receipts, ver>>

\* The worker builds the tree when it has exactly the chain's leaves; otherwise
\* the page waits and fetches again.  The note must be unspent as far as known.
disclosure_inputs ==
  /\ gen.pc = "inputs"
  /\ gen' = CASE local.leaves # gen.root                             -> [gen EXCEPT !.pc = "fetch"]
              [] local.leaves = gen.root /\ gen.note \in local.spent -> Idling
              [] OTHER                                               -> [gen EXCEPT !.pc = "prove"]
  /\ UNCHANGED <<ledger, local, receipts, ver>>

\* The prover worker: witness, proof, its own check, receipt.
prove_receipt ==
  /\ gen.pc = "prove" /\ SelectiveDisclosure(gen.note, gen.root)
  /\ receipts' = receipts \union
       {Receipt(gen.context, gen.root, gen.note, derive_ext_context_hash(gen.context))}
  /\ gen' = Idling
  /\ UNCHANGED <<ledger, local, ver>>

\* A read fails or a worker does not answer in time.
generation_fails ==
  /\ gen.pc # "idle" /\ gen' = Idling
  /\ UNCHANGED <<ledger, local, receipts, ver>>

-----------------------------------------------------------------------------
(* The authority's page.                                                   *)

\* A file of the wrong shape leaves the receipt before it loaded, out of sight.
load_receipt(r) ==
  ver' = IF r.shape THEN [ver EXCEPT !.loaded = r, !.summary = TRUE, !.visible = FALSE]
         ELSE [ver EXCEPT !.summary = FALSE, !.visible = FALSE]

load ==
  /\ \E issued \in receipts : \E r \in Edited(issued) : load_receipt(r)
  /\ UNCHANGED <<ledger, local, gen, receipts>>

Pending(stage, r, expected) ==
  [stage |-> stage, receipt |-> r, expected |-> expected, proof |-> FALSE, root |-> FALSE]

NotPending == Pending("none", Nil, Nil)

\* The button is disabled while a verification runs.
click_verify ==
  /\ ver.summary /\ ver.pending.stage = "none"
  /\ \E expected \in {CanonicalKey, "other"} :
       ver' = [ver EXCEPT !.pending = Pending("proof", ver.loaded, expected),
                          !.visible = TRUE, !.result = Nil]
  /\ UNCHANGED <<ledger, local, gen, receipts>>

\* The page ends a verification with a report or with an error.
ends(result) == ver' = [ver EXCEPT !.pending = NotPending, !.result = result]

Error == [kind |-> "error", receipt |-> Nil, proof |-> FALSE, root |-> FALSE, context |-> FALSE]

\* The prover worker: the receipt's metadata, the hash of the page's own key,
\* then the proof.
verify_receipt_proof ==
  LET p == ver.pending
  IN  /\ p.stage = "proof"
      /\ IF validate_receipt(p.receipt, p.expected) /\ p.expected = CanonicalKey
         THEN ver' = [ver EXCEPT !.pending.stage = "root", !.pending.proof = verify_proof(p.receipt)]
         ELSE ends(Error)
      /\ UNCHANGED <<ledger, local, gen, receipts>>

\* The pool that the context names is asked, if it is enabled.
check_known_root ==
  LET p == ver.pending
  IN  /\ p.stage = "root"
      /\ IF p.receipt.context.pool_address = OwnPool
         THEN ver' = [ver EXCEPT !.pending.stage = "context",
                                 !.pending.root = is_known_root(p.receipt.root)]
         ELSE ends(Error)
      /\ UNCHANGED <<ledger, local, gen, receipts>>

report ==
  LET p == ver.pending
  IN  /\ p.stage = "context"
      /\ ends([kind |-> "report", receipt |-> p.receipt, proof |-> p.proof, root |-> p.root,
               context |-> verify_receipt_context(p.receipt)])
      /\ UNCHANGED <<ledger, local, gen, receipts>>

verification_fails ==
  /\ ver.pending.stage # "none" /\ ends(Error)
  /\ UNCHANGED <<ledger, local, gen, receipts>>

-----------------------------------------------------------------------------
DisclosureInit ==
  /\ ledger = [leaves |-> 0, spent |-> {}] /\ local = [leaves |-> 0, spent |-> {}]
  /\ gen = Idling /\ receipts = {}
  /\ ver = [loaded |-> Nil, summary |-> FALSE, visible |-> FALSE,
            pending |-> NotPending, result |-> Nil]

DisclosureNext ==
  \/ pool_transacts \/ local_processes
  \/ click_generate \/ fetch_chain_state \/ disclosure_inputs \/ prove_receipt
  \/ generation_fails
  \/ load \/ click_verify \/ verify_receipt_proof \/ check_known_root \/ report
  \/ verification_fails

DisclosureSpec == DisclosureInit /\ [][DisclosureNext]_disclosureVars

-----------------------------------------------------------------------------
Verdict == ver.result # Nil /\ ver.result.kind = "report"

FullyVerified == Verdict /\ ver.result.proof /\ ver.result.root /\ ver.result.context

\* The badge "fully verified" that the authority sees is about the receipt whose
\* context she reads above it; that receipt says, word for word, what an owner
\* had the page prove, and its root was the pool's with the note under it.
VerdictIsTrue ==
  ver.visible /\ FullyVerified =>
    /\ ver.summary => ver.result.receipt = ver.loaded
    /\ \E r \in receipts : /\ ver.result.receipt.context = r.context
                           /\ ver.result.receipt.commitment = r.commitment
    /\ ver.result.receipt.root \in 1..ledger.leaves
    /\ SelectiveDisclosure(ver.result.receipt.commitment, ver.result.receipt.root)

\* A receipt as it was issued passes, with the canonical key, the checks of proof
\* and context however long it lies; the check of its root fails only when the
\* pool has moved past its history.
HonestReceiptPasses ==
  Verdict /\ ver.result.receipt \in receipts =>
    /\ ver.result.proof /\ ver.result.context
    /\ ver.result.root \/ ledger.leaves - ver.result.receipt.root >= KnownRoots
=============================================================================
