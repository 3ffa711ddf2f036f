----------------------------- MODULE TxPlanner ------------------------------
(***************************************************************************)
(* Spending from a pool with 2-in / 2-out transactions.  find_combination  *)
(* selects notes, plan chains them into steps, and a SpendSession runs the *)
(* steps on a frozen copy of the wallet while transactions fail, time out  *)
(* and land late, and the local view of the notes lags behind the chain.   *)
(***************************************************************************)
EXTENDS Naturals, Integers, Sequences, FiniteSets, SequencesExt, FiniteSetsExt, Functions, TLC

CONSTANTS
  TRANSACTION_LIMIT,  \* notes in one plan
  DfsLimit,           \* iteration_limit of one search
  Amount,             \* amounts of the first notes
  MaxNotes,           \* bound: notes in the first wallet
  MaxGoal,            \* bound: amounts to spend
  MaxSessions,        \* bound: sessions started
  None                \* no session, no commitment, no note, no plan

ASSUME TxPlannerAssumption ==
  /\ {TRANSACTION_LIMIT, DfsLimit} \subseteq Nat \ {0}
  /\ Amount \subseteq Nat \ {0}
  /\ {MaxNotes, MaxGoal, MaxSessions} \subseteq Nat

VARIABLES
  notes,     \* the owner's unspent notes on chain: commitment to amount
  view,      \* the same, as the local database knows it
  fresh,     \* the last commitment made
  spent,     \* the notes spent on chain
  sent,      \* the value that left to recipients
  total,     \* the value at the start
  session,   \* the SpendSession that runs, or None
  late,      \* transactions whose confirmation timed out
  started,   \* sessions so far
  landed,    \* transactions of this owner on chain
  indexed    \* those of them whose leaves the database has

plannerVars == <<notes, view, fresh, spent, sent, total, session, late, started, landed, indexed>>

SumOf(f, S) == FoldFunctionOnSet(+, 0, f, S)

-----------------------------------------------------------------------------
(* Coin selection.  v is a sequence of amounts, a result a sequence of     *)
(* positions of v and their excess over the goal.                          *)

\* Positions in ascending order of amount.
Ascending(v) ==
  SortSeq([i \in DOMAIN v |-> i], LAMBDA i, j : v[i] < v[j] \/ (v[i] = v[j] /\ i < j))

\* Mutant: a pair over the goal moves the left end too.
NextPair_Mutant(d, l, r) == IF d < 0 THEN <<l + 1, r>> ELSE <<l + 1, r - 1>>

NextPair(d, l, r) == IF d < 0 THEN <<l + 1, r>> ELSE <<l, r - 1>>

\* TwoScan: two pointers over the ascending amounts; the pair of least excess.
RECURSIVE TwoPointers(_, _, _, _, _, _)
TwoPointers(v, goal, s, l, r, best) ==
  LET d    == v[s[l]] + v[s[r]] - goal
      next == NextPair(d, l, r)
      mine == [picks |-> <<s[l], s[r]>>, excess |-> d]
  IN  IF l >= r THEN best
      ELSE IF d = 0 THEN mine
      ELSE TwoPointers(v, goal, s, next[1], next[2],
             IF d > 0 /\ (best = None \/ d < best.excess) THEN mine ELSE best)

TwoScan(v, goal) ==
  IF Len(v) < 2 THEN None ELSE TwoPointers(v, goal, Ascending(v), 1, Len(v), None)

\* OneScan: the smallest note that covers the goal.
OneScan(v, goal) ==
  LET big == SelectSeq(Ascending(v), LAMBDA i : v[i] >= goal)
  IN  IF big = <<>> THEN None ELSE [picks |-> <<Head(big)>>, excess |-> v[Head(big)] - goal]

\* Mutant: the smallest notes first.
Candidates_Mutant(v, goal) == SelectSeq(Ascending(v), LAMBDA i : v[i] < goal)

\* The notes below the goal, the largest first.
Candidates(v, goal) == Reverse(SelectSeq(Ascending(v), LAMBDA i : v[i] < goal))

\* dfs: with the candidate at index, then without it.  The record is DfsContext;
\* exact is its Boolean result.
RECURSIVE dfs(_, _, _, _, _, _, _)
dfs(v, c, goal, k, sum, index, ctx) ==
  IF Len(ctx.path) = k
  THEN IF sum = goal THEN [ctx EXCEPT !.exact = TRUE]
       ELSE IF sum > goal /\ (ctx.best = None \/ sum - goal < ctx.best.excess)
       THEN [ctx EXCEPT !.best = [picks |-> ctx.path, excess |-> sum - goal]]
       ELSE ctx
  ELSE IF sum >= goal \/ index > Len(c) \/ ctx.limit <= 0 THEN ctx
  ELSE LET with == dfs(v, c, goal, k, sum + v[c[index]], index + 1,
                       [ctx EXCEPT !.limit = @ - 1, !.path = Append(@, c[index])])
       IN  IF with.exact THEN with
           ELSE dfs(v, c, goal, k, sum, index + 1, [with EXCEPT !.path = Front(@)])

Search(v, goal, k) ==
  dfs(v, Candidates(v, goal), goal, k, 0, 1,
      [exact |-> FALSE, path |-> <<>>, best |-> None, limit |-> DfsLimit])

\* The largest notes until they cover the goal.
greedy_impl(v, goal) ==
  LET s     == Reverse(Ascending(v))
      Sum(n) == SumOf([i \in 1..n |-> v[s[i]]], 1..n)
      enough == {n \in 1..Len(v) : Sum(n) >= goal}
  IN  IF enough = {} THEN None
      ELSE [picks |-> SubSeq(s, 1, Min(enough)), excess |-> Sum(Min(enough)) - goal]

\* KScan: the first k >= 3 whose search finds anything.
KScan(v, goal) ==
  LET n    == Len(Candidates(v, goal))
      hits == {k \in 3..Min({n, TRANSACTION_LIMIT}) :
                 Search(v, goal, k).exact \/ Search(v, goal, k).best # None}
      r    == Search(v, goal, Min(hits))
  IN  IF hits = {} THEN greedy_impl(v, goal)
      ELSE IF r.exact THEN [picks |-> r.path, excess |-> 0]
      ELSE r.best

find_combination(v, goal) ==
  LET two == TwoScan(v, goal)
      one == OneScan(v, goal)
      Exact(r) == r # None /\ r.excess = 0
  IN  CASE Exact(two)                                                -> two
        [] ~ Exact(two) /\ Exact(one)                                -> one
        [] ~ Exact(two) /\ ~ Exact(one) /\ two # None                -> two
        [] ~ Exact(one) /\ two = None /\ one # None                  -> one
        [] OTHER                                                     -> KScan(v, goal)

-----------------------------------------------------------------------------
(* Plans.  A wallet is a sequence of notes [id, amount].                   *)

\* The wallet as list_unspent_user_notes gives it, newest first.
Listed(w) ==
  LET s == SelectSeq([i \in 1..fresh |-> fresh + 1 - i], LAMBDA c : c \in DOMAIN w)
  IN  [i \in 1..Len(s) |-> [id |-> s[i], amount |-> w[s[i]]]]

\* plan: merge the picks one after another; the last step pays.  A merged note
\* has no commitment yet.
plan(goal, w) ==
  LET c      == find_combination([i \in DOMAIN w |-> w[i].amount], goal)
      pick   == [i \in 1..Len(c.picks) |-> w[c.picks[i]]]
      Merged(n) == [id |-> None, amount |-> SumOf([i \in 1..n |-> pick[i].amount], 1..n)]
      Left(n) == IF n = 1 THEN pick[1] ELSE Merged(n)
      n      == Len(c.picks)
  IN  IF w = <<>> \/ c = None \/ Len(c.picks) > TRANSACTION_LIMIT THEN None
      ELSE IF n = 1
      THEN <<[inputs |-> <<pick[1]>>, final |-> TRUE, output |-> goal, change |-> c.excess]>>
      ELSE [i \in 1..(n - 1) |->
              [inputs |-> <<Left(i), pick[i + 1]>>, final |-> i = n - 1,
               output |-> IF i = n - 1 THEN goal ELSE Merged(i + 1).amount,
               change |-> IF i = n - 1 THEN c.excess ELSE 0]]

\* resolve_input_note: by commitment, or the only note of the amount that is
\* not the other input.
Matches(input, other, w) ==
  IF input.id # None THEN {i \in DOMAIN w : w[i] = input}
  ELSE {i \in DOMAIN w : w[i].amount = input.amount /\ w[i].id # other.id}

resolve(step, w) ==
  LET n == Len(step.inputs)
      Other(i) == IF n = 1 THEN [id |-> None, amount |-> 0] ELSE step.inputs[3 - i]
      found == [i \in 1..n |-> Matches(step.inputs[i], Other(i), w)]
  IN  IF \A i \in 1..n : Cardinality(found[i]) = 1
      THEN {w[i].id : i \in UNION Range(found)}
      ELSE None

\* Mutant: the change of the last step is left out.
materialize_step_Mutant(step, ids, target) ==
  [inputs |-> ids,
   own    |-> IF step.final THEN <<0, 0>> ELSE <<step.output, 0>>,
   leaves |-> IF step.final THEN step.output ELSE 0]

\* The transaction of a step: its inputs, the outputs that are the owner's, and
\* the value that leaves, as a note of the recipient or withdrawn.
materialize_step(step, ids, target) ==
  [inputs |-> ids,
   own    |-> CASE ~ step.final                            -> <<step.output, 0>>
                [] step.final /\ target = "transfer"       -> <<0, step.change>>
                [] step.final /\ target = "withdraw"       -> <<step.change, 0>>,
   leaves |-> IF step.final THEN step.output ELSE 0]

-----------------------------------------------------------------------------
PlannerInit ==
  /\ \E n \in 1..MaxNotes : notes \in [1..n -> Amount]
  /\ view = notes
  /\ fresh = Cardinality(DOMAIN notes)
  /\ spent = {} /\ sent = 0
  /\ total = SumOf(notes, DOMAIN notes)
  /\ session = None /\ late = {} /\ started = 0
  /\ landed = 0 /\ indexed = 0

\* SpendSession::setup on the notes the database knows.
setup ==
  /\ session = None /\ started < MaxSessions
  /\ \E goal \in 1..MaxGoal : \E target \in {"transfer", "withdraw"} :
       LET w == Listed(view)
           p == plan(goal, w)
       IN  /\ p # None
           /\ session' = [steps |-> p, wallet |-> w, target |-> target,
                          at |-> 1, phase |-> "wait", made |-> None]
  /\ started' = started + 1
  /\ UNCHANGED <<notes, view, fresh, spent, sent, total, late, landed, indexed>>

Resolved == resolve(session.steps[session.at], session.wallet)

In(phase) == session # None /\ session.phase = phase

\* build_pool_inputs: the local leaves are those of the chain and every input
\* is an unspent note of the database.
Provable == indexed = landed /\ Resolved \subseteq DOMAIN view

\* prove_transact_inner: the loop asks again every second until the inputs can
\* be built, with no other way out than an error.
prove ==
  /\ In("wait") /\ Resolved # None
  /\ Provable
  /\ session' = [session EXCEPT !.phase = "proved"]
  /\ UNCHANGED <<notes, view, fresh, spent, sent, total, late, started, landed, indexed>>

StepTransaction == materialize_step(session.steps[session.at], Resolved, session.target)

\* The pool accepts a transaction whose inputs are unspent.  Its outputs of
\* amount 0 are no notes.
Accepts(tx) == tx.inputs \subseteq DOMAIN notes

Apply(tx, first) ==
  LET ids == {first + k : k \in {j \in 0..1 : tx.own[j + 1] # 0}}
  IN  /\ notes' = [c \in (DOMAIN notes \ tx.inputs) \union ids |->
                     IF c \in ids THEN tx.own[c - first + 1] ELSE notes[c]]
      /\ spent' = spent \union tx.inputs
      /\ sent' = sent + tx.leaves
      /\ landed' = landed + 1

\* A proved step is signed, submitted and confirmed.
submit_tx ==
  /\ In("proved")
  /\ Accepts(StepTransaction)
  /\ Apply(StepTransaction, fresh + 1)
  /\ session' = [session EXCEPT !.phase = "confirmed", !.made = fresh + 1]
  /\ fresh' = fresh + 2
  /\ UNCHANGED <<view, total, late, started, indexed>>

\* An error ends the session: an input is spent, the user declines, a request
\* fails.
submit_fails ==
  /\ In("proved")
  /\ session' = None
  /\ UNCHANGED <<notes, view, fresh, spent, sent, total, late, started, landed, indexed>>

\* No confirmation in time: the session ends, the transaction may still land.
confirm_times_out ==
  /\ In("proved")
  /\ Accepts(StepTransaction)
  /\ late' = late \union {[tx |-> StepTransaction, first |-> fresh + 1]}
  /\ fresh' = fresh + 2
  /\ session' = None
  /\ UNCHANGED <<notes, view, spent, sent, total, started, landed, indexed>>

lands_late ==
  /\ \E x \in late :
       /\ Accepts(x.tx)
       /\ Apply(x.tx, x.first)
       /\ late' = late \ {x}
  /\ UNCHANGED <<view, fresh, total, session, started, indexed>>

\* A request of the loop fails or times out, the account is told to register,
\* or the page is closed.
gives_up ==
  /\ In("wait")
  /\ session' = None
  /\ UNCHANGED <<notes, view, fresh, spent, sent, total, late, started, landed, indexed>>

is_done(s) == s.at > Len(s.steps)

\* Mutant: the commitment of the empty second output.
merge_output_Mutant(s) == [id |-> s.made + 1, amount |-> s.steps[s.at].output]

\* The merged note is the first output.
merge_output(s) == [id |-> s.made, amount |-> s.steps[s.at].output]

\* complete_step: the inputs leave the frozen wallet, a merged note joins it.
complete_step ==
  /\ In("confirmed")
  /\ LET step == session.steps[session.at]
         kept == SelectSeq(session.wallet, LAMBDA n : n.id \notin Resolved)
         next == [session EXCEPT !.at = @ + 1, !.phase = "wait", !.made = None,
                    !.wallet = IF step.final THEN kept
                               ELSE Append(kept, merge_output(session))]
     IN  session' = IF is_done(next) THEN None ELSE next
  /\ UNCHANGED <<notes, view, fresh, spent, sent, total, late, started, landed, indexed>>

\* The storage worker learns the new leaves and the notes among them, and marks
\* spent notes in a later batch.
sync_commitments ==
  /\ indexed < landed
  /\ indexed' = landed
  /\ view' = notes @@ view
  /\ UNCHANGED <<notes, fresh, spent, sent, total, session, late, started, landed>>

sync_nullifiers ==
  /\ indexed = landed /\ view # notes
  /\ view' = notes
  /\ UNCHANGED <<notes, fresh, spent, sent, total, session, late, started, landed, indexed>>

PlannerNext ==
  \/ setup \/ prove \/ submit_tx \/ submit_fails \/ confirm_times_out \/ lands_late
  \/ gives_up \/ complete_step \/ sync_commitments \/ sync_nullifiers

PlannerSpec == PlannerInit /\ [][PlannerNext]_plannerVars

\* The storage worker goes on, the loop asks again, and the user, the network
\* and the client answer a proved step one way or another.
PlannerFairness ==
  /\ WF_plannerVars(sync_commitments) /\ WF_plannerVars(sync_nullifiers)
  /\ WF_plannerVars(prove)
  /\ WF_plannerVars(submit_tx \/ submit_fails \/ confirm_times_out)
  /\ WF_plannerVars(complete_step)

PlannerFairSpec == PlannerSpec /\ PlannerFairness

-----------------------------------------------------------------------------
\* Every variable stays in its type.
PlannerTypeOK ==
  /\ \A c \in DOMAIN notes : c \in 1..fresh /\ notes[c] > 0
  /\ DOMAIN view \subseteq 1..fresh
  /\ session # None => /\ session.at \in 1..Len(session.steps)
                       /\ Len(session.steps) < TRANSACTION_LIMIT \/ Len(session.steps) = 1
  /\ \A x \in late : x.first <= fresh
  /\ indexed \in 0..landed

\* The value of a set of positions of v.
Value(v, S) == SumOf(v, S)

\* Choices of k positions of v that cover the goal.
Covers(v, goal, k) == {S \in kSubset(k, DOMAIN v) : Value(v, S) >= goal}

Exactly(v, goal, k) == {S \in kSubset(k, DOMAIN v) : Value(v, S) = goal}

\* Coin selection against its definition over all subsets.  A plan exists when
\* some TRANSACTION_LIMIT notes cover the goal.  One or two notes that match it
\* exactly are taken, a pair before a single note; three or more are picked only
\* when no fewer would do, and no other choice of as many leaves less change.
SelectionIsBest ==
  started = 0 =>
    LET w == Listed(view)
        v == [i \in DOMAIN w |-> w[i].amount]
    IN  \A goal \in 1..(Value(v, DOMAIN v) + 1) :
          LET r == find_combination(v, goal)
              n == Len(r.picks)
          IN  /\ (plan(goal, w) # None) <=>
                   \E k \in 1..TRANSACTION_LIMIT : Covers(v, goal, k) # {}
              /\ r # None =>
                   /\ Value(v, Range(r.picks)) = goal + r.excess
                   /\ Cardinality(Range(r.picks)) = n
                   /\ \A S \in Covers(v, goal, n) : Value(v, S) >= goal + r.excess
                   /\ Exactly(v, goal, 2) # {} => n = 2
                   /\ n # 2 /\ Exactly(v, goal, 1) # {} => n = 1 /\ r.excess = 0
                   /\ n > 2 => \A k \in 1..(n - 1) : Covers(v, goal, k) = {}

\* What the planner's README says of its last tier: it is the fallback when no
\* three or more notes match the goal exactly.
OvershootIsFallback ==
  started = 0 =>
    LET w == Listed(view)
        v == [i \in DOMAIN w |-> w[i].amount]
    IN  \A goal \in 1..MaxGoal :
          LET r == find_combination(v, goal)
          IN  r # None /\ Len(r.picks) > 2 /\ r.excess > 0 =>
                \A k \in 3..TRANSACTION_LIMIT : Exactly(v, goal, k) = {}

\* A plan that was made can be run to its end: every input of every step is
\* found, and the amount of a merged note never fits two notes of the wallet
\* (AmbiguousNoteForAmount), whatever else the wallet holds.
PlanRuns == session # None => Resolved # None

\* No value is lost between steps: what the owner has and what was sent is what
\* there was, through merges, change, failed and late transactions.
NoValueLost == PlannerTypeOK /\ SumOf(notes, DOMAIN notes) + sent = total

\* A note the session waits for is spent: a transaction of an earlier session,
\* which timed out, landed after all, or the database did not know of it yet.
Overtaken == In("wait") /\ Resolved \cap spent # {}

\* A session ends, through every merge and every wait for the indexer, unless it
\* is overtaken: the notes of a plan become provable once the database has
\* caught up.
SessionEndsUnlessOvertaken == (session # None) ~> (session = None \/ Overtaken)
=============================================================================
