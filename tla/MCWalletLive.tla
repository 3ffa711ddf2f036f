---------------------------- MODULE MCWalletLive ----------------------------
(***************************************************************************)
(* One instance for what a wallet must bring to an end: its database       *)
(* follows the chain, and a spend session, which only waits for such a     *)
(* database, runs its plan.  `side` names the one that moves.              *)
(***************************************************************************)
EXTENDS LocalState, TxPlanner

VARIABLE side

liveVars == <<side, vars, plannerVars>>

LiveInit == side \in {"database", "session"} /\ Init /\ PlannerInit
            /\ (side = "database" => notes = <<CHOOSE a \in Amount : TRUE>>)

AsDatabase(A) == side = "database" /\ A /\ UNCHANGED <<side, plannerVars>>
AsSession(A)  == side = "session" /\ A /\ UNCHANGED <<side, vars>>

\* The fairness of LocalState's FairSpec and of PlannerFairness.
LiveSpec ==
  /\ LiveInit /\ [][AsDatabase(Next) \/ AsSession(PlannerNext)]_liveVars
  /\ WF_liveVars(AsDatabase(Processor)) /\ SF_liveVars(AsDatabase(save_events_batch))
  /\ WF_liveVars(AsSession(sync_commitments)) /\ WF_liveVars(AsSession(sync_nullifiers))
  /\ WF_liveVars(AsSession(prove))
  /\ WF_liveVars(AsSession(submit_tx \/ submit_fails \/ confirm_times_out))
  /\ WF_liveVars(AsSession(complete_step))

\* Converges, for the database: in the end every account sees its true notes.
DatabaseConverges == (side = "database") => Converges

\* SessionEndsUnlessOvertaken, for the sessions.
SessionsEnd == (side = "session") => SessionEndsUnlessOvertaken
=============================================================================
