--------------------------- MODULE ShieldedLedger ---------------------------
(***************************************************************************)
(* What the privacy pool promises, without trees, roots, proofs or         *)
(* nullifiers: a ledger of live notes backed by a vault of tokens.  One    *)
(* kind of step settles a transaction: it retires at most two live notes,  *)
(* each once, creates two new ones, and moves between the vault and one    *)
(* account exactly the tokens that make both sides equal.                  *)
(***************************************************************************)
EXTENDS Integers

CONSTANTS
  Accounts,      \* token accounts
  Note,          \* notes, records with an amount
  InitialFunds   \* tokens each account starts with

VARIABLES
  live,     \* pairs <<serial number, note>> that can still be spent
  serial,   \* notes ever created
  vault,    \* tokens that back the live notes
  funds     \* tokens of the accounts

vars == <<live, serial, vault, funds>>

\* The input that spends nothing.
Nothing == <<0, 0>>

Worth(input) == IF input = Nothing THEN 0 ELSE input[2].amount

Init ==
  /\ live = {}
  /\ serial = 0
  /\ vault = 0
  /\ funds = [a \in Accounts |-> InitialFunds]

\* Retire the inputs a and b, create the notes x and y; the account pays, or
\* receives, the difference.
Settle(a, b, x, y, account) ==
  LET paid == x.amount + y.amount - Worth(a) - Worth(b)
  IN  /\ vault' = vault + paid /\ vault' >= 0
      /\ a = b => a = Nothing
      /\ live' = (live \ {a, b}) \union {<<serial + 1, x>>, <<serial + 2, y>>}
      /\ funds[account] >= paid
      /\ funds' = [funds EXCEPT ![account] = @ - paid]

\* Every step creates two notes.
Next ==
  /\ serial' = serial + 2
  /\ \E a, b \in live \union {Nothing}, x, y \in Note, account \in Accounts :
       Settle(a, b, x, y, account)

Spec == Init /\ [][Next]_vars
=============================================================================
