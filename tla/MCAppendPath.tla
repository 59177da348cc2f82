---------------------------- MODULE MCAppendPath ----------------------------
(***************************************************************************)
(* Small instances of the parts where an append waits for another thread:  *)
(* a guarded proposal and its coordinator, a lane's append and sync        *)
(* workers, a follower's admission of replicated batches, and the durable  *)
(* sink's budget.  They share no state, so a behaviour follows one of      *)
(* them, the subject.                                                      *)
(***************************************************************************)
EXTENDS Lane, Proposal, ReplicaApply, SinkBudget

CONSTANTS p1, p2, p3,  \* proposals; p2 is a retry of p1
          c1, c2, c3   \* callers of the budget

VARIABLE subject

mcVars == <<subject, laneVars, pvars, replicaVars, sbVars>>

ProposalInput == (p1 :> "a") @@ (p2 :> "a") @@ (p3 :> "b")
CallerBytes == (c1 :> 1) @@ (c2 :> 2) @@ (c3 :> 2)
ReplicaBytes == (0 :> 1) @@ (1 :> 1) @@ (2 :> 1) @@ (3 :> 3)

\* A follower of one batch with a producer and three without, with a failure and
\* a restart, and one of a guarded group that is replayed, with a restart.
Followers ==
  {[guarded |-> FALSE, identified |-> {0}, chunks |-> {}, replays |-> FALSE,
    failures |-> 1, restarts |-> 1],
   [guarded |-> TRUE, identified |-> {2}, chunks |-> {0, 1}, replays |-> TRUE,
    failures |-> 0, restarts |-> 1]}

MCInit ==
  /\ subject \in {"lane", "proposal", "replica", "budget"}
  /\ LaneInit /\ ProposalInit /\ ReplicaInit /\ BudgetInit
  /\ subject # "replica" => scenario = CHOOSE f \in ReplicaScenarios : TRUE

LaneRuns(A) == subject = "lane" /\ A /\ UNCHANGED <<subject, pvars, replicaVars, sbVars>>
ProposalRuns(A) == subject = "proposal" /\ A /\ UNCHANGED <<subject, laneVars, replicaVars, sbVars>>
ReplicaRuns(A) == subject = "replica" /\ A /\ UNCHANGED <<subject, laneVars, pvars, sbVars>>
BudgetRuns(A) == subject = "budget" /\ A /\ UNCHANGED <<subject, laneVars, pvars, replicaVars>>

MCNext ==
  \/ LaneRuns(LaneNext /\ faults' + crashes' <= MaxCrashes)
  \/ ProposalRuns(ProposalNext)
  \/ ReplicaRuns(ReplicaNext)
  \/ BudgetRuns(BudgetNext)

\* The threads run (see the fair specifications of the modules).
MCFairSpec ==
  /\ MCInit /\ [][MCNext]_mcVars
  /\ WF_mcVars(LaneRuns(WorkerStep)) /\ WF_mcVars(LaneRuns(SyncSome))
  /\ \A p \in Proposals : /\ WF_mcVars(ProposalRuns(ProposalWorkerStep(p)))
                          /\ WF_mcVars(ProposalRuns(CoordinatorStep(p)))
  /\ WF_mcVars(ReplicaRuns(AdmissionStep)) /\ WF_mcVars(ReplicaRuns(LaneStep))
  /\ \A t \in Callers : WF_mcVars(BudgetRuns(CallerStep(t)))

=============================================================================
