-------------------------- MODULE RuntimeLifecycle --------------------------
(***************************************************************************)
(* The embedded runtime of crates/shard-stream-runtime: one EmbeddedRuntime *)
(* shared by several host threads.  The lifecycle word is an atomic that    *)
(* every call loads and some calls store; recover, ready and drain load it, *)
(* work without a lock and store it afterwards, so the module gives each of *)
(* them one step per load, engine call and store.                           *)
(*                                                                          *)
(* The engine is what the runtime uses of it: an append adds a batch and a  *)
(* replication job, sync makes every appended batch durable, and any engine *)
(* call may fail, with or without is_corruption().                          *)
(***************************************************************************)
EXTENDS Naturals, FiniteSets

CONSTANTS
    Threads,            \* host threads sharing the runtime
    RuntimeOps,         \* the calls they make
    SerialLifecycle,    \* TRUE: the host makes one lifecycle call at a time
    CatchUpRequired,    \* options.require_replication_caught_up
    MinimumIsr,         \* minimum_in_sync_replicas of the assignment
    MaxBatches,         \* bound on the appends
    MaxEngineFailures,  \* bound on the engine calls that fail
    MaxWorldChanges     \* bound on the changes of assignment, fence and probe

LifecycleCalls == {"recover", "ready", "drain", "transfer", "shutdown"}
DataCalls == {"append", "append_replica", "fetch", "sync", "health"}

ASSUME RuntimeAssumption ==
    /\ RuntimeOps \subseteq LifecycleCalls \union DataCalls
    /\ SerialLifecycle \in BOOLEAN /\ CatchUpRequired \in BOOLEAN
    /\ {MinimumIsr, MaxBatches, MaxEngineFailures, MaxWorldChanges} \subseteq Nat

VARIABLES
    lifecycle,      \* EmbeddedRuntime.lifecycle
    corruption,     \* corruption_detected
    caughtUp,       \* recovery_replication_caught_up
    engineOpen,     \* engine.is_some()
    rcalls,         \* the call each thread is in
    batches,        \* batches the engine has appended
    synced,         \* batches of the last engine sync
    replicating,    \* batches with a pending replication job
    handoffs,       \* receipts of prepare_leadership_transfer
    world,          \* assignment provider, write fence and health probe
    engineFailures, worldChanges

runtimeVars == <<lifecycle, corruption, caughtUp, engineOpen, rcalls, batches, synced,
                 replicating, handoffs, world, engineFailures, worldChanges>>
engineVars == <<batches, synced, replicating>>
flagVars == <<corruption, caughtUp, engineOpen>>
boundVars == <<world, engineFailures, worldChanges>>

(* LifecycleState. *)
LifecycleStates ==
    {"recovering", "catching_up", "ready", "draining", "fenced", "failed", "stopped"}

Idle == [op |-> "none", at |-> "none", seen |-> "none", covers |-> 0]

(* What health_snapshot observes outside the runtime: whether the provider  *)
(* still names the local broker, whether the hosted partition still has an  *)
(* assignment, whether it is led here and its fence lets writes pass, and   *)
(* what the probe answers.                                                  *)
Worlds ==
    [sameBroker : BOOLEAN, assigned : BOOLEAN, leader : BOOLEAN, fenceOpen : BOOLEAN,
     probe : {"good", "low_disk", "corrupt", "failed"}]

HealthyWorld == [sameBroker |-> TRUE, assigned |-> TRUE, leader |-> TRUE,
                 fenceOpen |-> TRUE, probe |-> "good"]

(* EmbeddedRuntimeBuilder::open once the engine is open. *)
RuntimeInit ==
    /\ lifecycle = "recovering"
    /\ corruption = FALSE /\ caughtUp = FALSE /\ engineOpen = TRUE
    /\ rcalls = [t \in Threads |-> Idle]
    /\ batches = 0 /\ synced = 0 /\ replicating = {} /\ handoffs = {}
    /\ world = HealthyWorld
    /\ engineFailures = 0 /\ worldChanges = 0

(* A call begins when its thread is free.  shutdown takes the runtime by    *)
(* value, so no other call is under way and none follows.                   *)
MayCall(t, op) ==
    /\ op \in RuntimeOps
    /\ rcalls[t].op = "none"
    /\ \A u \in Threads : rcalls[u].op # "shutdown"
    /\ engineOpen
    /\ op = "shutdown" => \A u \in Threads : rcalls[u].op = "none"
    /\ (SerialLifecycle /\ op \in LifecycleCalls) =>
           \A u \in Threads : rcalls[u].op \notin LifecycleCalls

Call(t, op, at) == rcalls' = [rcalls EXCEPT ![t] = [Idle EXCEPT !.op = op, !.at = at]]
Move(t, at) == rcalls' = [rcalls EXCEPT ![t].at = at]
Done(t) == rcalls' = [rcalls EXCEPT ![t] = Idle]
In(t, op, at) == rcalls[t].op = op /\ rcalls[t].at = at

EngineFails == engineFailures < MaxEngineFailures /\ engineFailures' = engineFailures + 1

(* handle_engine_result of an engine error. *)
HandleEngineError(isCorruption) ==
    /\ corruption' = (corruption \/ isCorruption)
    /\ lifecycle' = IF isCorruption THEN "failed" ELSE lifecycle
    /\ UNCHANGED <<caughtUp, engineOpen>>

-----------------------------------------------------------------------------
(* recover. *)
RecoverStart(t) ==
    /\ MayCall(t, "recover")
    /\ lifecycle = "recovering"
    /\ Call(t, "recover", "resume")
    /\ UNCHANGED <<lifecycle, flagVars, engineVars, handoffs, boundVars>>

(* resume_durable_sink, then resume_recovered_replication.  The flag is     *)
(* stored, not merged: a plain error clears an earlier corruption.          *)
RecoverFails(t, isCorruption) ==
    /\ In(t, "recover", "resume")
    /\ EngineFails
    /\ corruption' = isCorruption
    /\ lifecycle' = "failed"
    /\ Done(t)
    /\ UNCHANGED <<caughtUp, engineOpen, engineVars, handoffs, world, worldChanges>>

RecoverResume(t) ==
    /\ In(t, "recover", "resume")
    /\ replicating' = 1..batches
    /\ Move(t, "store")
    /\ UNCHANGED <<lifecycle, flagVars, batches, synced, handoffs, boundVars>>

RecoverStore(t) ==
    /\ In(t, "recover", "store")
    /\ lifecycle' = "catching_up"
    /\ Done(t)
    /\ UNCHANGED <<flagVars, engineVars, handoffs, boundVars>>

-----------------------------------------------------------------------------
(* PartitionHealth.writable: led here, with a full in-sync set, through the *)
(* fence.  The in-sync set is the local broker alone.                       *)
PartitionWritable ==
    /\ ~world.assigned \/ (world.leader /\ MinimumIsr <= 1)
    /\ world.fenceOpen

(* HealthSnapshot::evaluate, as the kinds of its blockers.  health_snapshot *)
(* leaves quorum_available true; a partition without an assignment counts   *)
(* as hosted and led here, and makes the assignment stale.                  *)
Blockers(state, corrupt, isCaughtUp) ==
    {b \in {"lifecycle", "assignment_stale", "insufficient_isr", "write_fenced",
            "replication_catch_up", "low_disk_space", "corruption_detected",
            "health_probe_failed"} :
        CASE b = "lifecycle" -> state # "ready"
          [] b = "assignment_stale" -> ~world.sameBroker \/ ~world.assigned
          [] b = "insufficient_isr" -> world.assigned /\ MinimumIsr > 1
          [] b = "write_fenced" -> (world.leader \/ ~world.assigned) /\ ~PartitionWritable
          [] b = "replication_catch_up" -> CatchUpRequired /\ ~isCaughtUp
          [] b = "low_disk_space" -> world.probe \in {"low_disk", "failed"}
          [] b = "corruption_detected" -> corrupt \/ world.probe = "corrupt"
          [] b = "health_probe_failed" -> world.probe = "failed"}

(* health_snapshot on its own: reading the watermarks or epochs of a        *)
(* partition may find corruption, which sets the flag and nothing else.     *)
HealthSnapshot(t) ==
    /\ MayCall(t, "health")
    /\ EngineFails
    /\ corruption' = TRUE
    /\ UNCHANGED <<lifecycle, caughtUp, engineOpen, rcalls, engineVars, handoffs, world,
                   worldChanges>>

-----------------------------------------------------------------------------

(* ready. *)
ReadyStart(t) ==
    /\ MayCall(t, "ready")
    /\ lifecycle = "catching_up"
    /\ IF world.sameBroker
       THEN Call(t, "ready", "wait") /\ UNCHANGED lifecycle
       ELSE lifecycle' = "fenced" /\ UNCHANGED rcalls
    /\ UNCHANGED <<flagVars, engineVars, handoffs, boundVars>>

(* wait_for_replication, when asked for; the catch-up timeout returns. *)
ReadyTimesOut(t) ==
    /\ In(t, "ready", "wait")
    /\ CatchUpRequired /\ replicating # {}
    /\ Done(t)
    /\ UNCHANGED <<lifecycle, flagVars, engineVars, handoffs, boundVars>>

(* The snapshot ready decides by: a blocker other than the lifecycle        *)
(* refuses, and corruption fails the runtime.                               *)
ReadyJudge(t) ==
    /\ In(t, "ready", "wait")
    /\ ~CatchUpRequired \/ replicating = {}
    /\ caughtUp' = TRUE
    /\ LET found == Blockers(lifecycle, corruption, TRUE) \ {"lifecycle"}
       IN  /\ IF found = {} THEN Move(t, "store") ELSE Done(t)
           /\ lifecycle' = IF "corruption_detected" \in found THEN "failed" ELSE lifecycle
    /\ UNCHANGED <<corruption, engineOpen, engineVars, handoffs, boundVars>>

ReadyStore(t) ==
    /\ In(t, "ready", "store")
    /\ lifecycle' = "ready"
    /\ Done(t)
    /\ UNCHANGED <<flagVars, engineVars, handoffs, boundVars>>

-----------------------------------------------------------------------------
(* append and create_topic check the state once; the engine call follows,   *)
(* whatever the state has become.                                           *)
AppendStart(t) ==
    /\ MayCall(t, "append")
    /\ lifecycle = "ready"
    /\ Call(t, "append", "engine")
    /\ UNCHANGED <<lifecycle, flagVars, engineVars, handoffs, boundVars>>

AppendReplicaStart(t) ==
    /\ MayCall(t, "append_replica")
    /\ lifecycle \in {"catching_up", "ready", "draining"}
    /\ Call(t, "append_replica", "engine")
    /\ UNCHANGED <<lifecycle, flagVars, engineVars, handoffs, boundVars>>

FetchStart(t) ==
    /\ MayCall(t, "fetch")
    /\ lifecycle \in {"ready", "draining"}
    /\ Call(t, "fetch", "engine")
    /\ UNCHANGED <<lifecycle, flagVars, engineVars, handoffs, boundVars>>

(* The engine's answer.  A leader's append leaves a replication job; the    *)
(* batches counted are this leader's own.                                   *)
EngineAnswers(t) ==
    /\ rcalls[t].at = "engine"
    /\ IF rcalls[t].op = "append"
       THEN /\ batches < MaxBatches
            /\ batches' = batches + 1
            /\ replicating' = replicating \union {batches + 1}
       ELSE UNCHANGED <<batches, replicating>>
    /\ Done(t)
    /\ UNCHANGED <<lifecycle, flagVars, synced, handoffs, boundVars>>

EngineRefuses(t, isCorruption) ==
    /\ rcalls[t].at = "engine"
    /\ EngineFails
    /\ HandleEngineError(isCorruption)
    /\ Done(t)
    /\ UNCHANGED <<engineVars, handoffs, world, worldChanges>>

(* sync, called by a host. *)
SyncCall(t) ==
    /\ MayCall(t, "sync")
    /\ synced' = batches
    /\ UNCHANGED <<lifecycle, flagVars, rcalls, batches, replicating, handoffs, boundVars>>

(* A replication job ends. *)
Replicated(b) ==
    /\ b \in replicating
    /\ replicating' = replicating \ {b}
    /\ UNCHANGED <<lifecycle, flagVars, rcalls, batches, synced, handoffs, boundVars>>

-----------------------------------------------------------------------------
(* drain, inside prepare_leadership_transfer and shutdown_by too.  The load *)
(* and the switch are two steps: the switch from Ready is a compare and     *)
(* exchange, the one from Recovering or CatchingUp a plain store.  covers   *)
(* is the history of what had been acknowledged when the call began.        *)
DrainStart(t, op) ==
    /\ op \in {"drain", "transfer", "shutdown"}
    /\ MayCall(t, op)
    /\ rcalls' = [rcalls EXCEPT ![t] = [op |-> op, at |-> "switch", seen |-> lifecycle,
                                        covers |-> batches]]
    /\ UNCHANGED <<lifecycle, flagVars, engineVars, handoffs, boundVars>>

(* Where a drain ends: the call returns, or shutdown_by goes on to stop. *)
DrainEnds(t) == IF rcalls[t].op = "shutdown" THEN Move(t, "stop") ELSE Done(t)

DrainSwitch(t) ==
    /\ rcalls[t].at = "switch"
    /\ LET seen == rcalls[t].seen
       IN \/ /\ seen = "ready" /\ lifecycle = "ready"
             /\ lifecycle' = "draining" /\ Move(t, "drain")
          \/ /\ seen = "ready" /\ lifecycle # "ready"
             /\ rcalls' = [rcalls EXCEPT ![t].seen = lifecycle]
             /\ UNCHANGED lifecycle
          \/ /\ seen \in {"recovering", "catching_up"}
             /\ lifecycle' = "draining" /\ Move(t, "drain")
          \/ /\ seen = "draining"
             /\ Move(t, "drain") /\ UNCHANGED lifecycle
          \/ /\ seen \in {"fenced", "failed", "stopped"}
             /\ DrainEnds(t) /\ UNCHANGED lifecycle
    /\ UNCHANGED <<flagVars, engineVars, handoffs, boundVars>>

(* The deadline passes, in the wait or after it. *)
DrainTimesOut(t) ==
    /\ rcalls[t].at = "drain"
    /\ DrainEnds(t)
    /\ UNCHANGED <<lifecycle, flagVars, engineVars, handoffs, boundVars>>

(* Mutant: the drain does not wait for accepted replication. *)
DrainWaitSkipped(t) ==
    /\ rcalls[t].at = "drain"
    /\ Move(t, "sync")
    /\ UNCHANGED <<lifecycle, flagVars, engineVars, handoffs, boundVars>>

(* wait_for_replication finds no pending job. *)
DrainWait(t) ==
    /\ rcalls[t].at = "drain"
    /\ replicating = {}
    /\ Move(t, "sync")
    /\ UNCHANGED <<lifecycle, flagVars, engineVars, handoffs, boundVars>>

(* The sync that ends a drain; a transfer returns its receipt.  replicated  *)
(* is the history of the batches covered by the call that had left the      *)
(* replication queue.                                                       *)
DrainSync(t) ==
    /\ rcalls[t].at = "sync"
    /\ synced' = batches
    /\ handoffs' = IF rcalls[t].op = "transfer"
                   THEN handoffs \union
                          {[covers |-> rcalls[t].covers, synced |-> batches,
                            unreplicated |-> replicating \intersect (1..rcalls[t].covers)]}
                   ELSE handoffs
    /\ DrainEnds(t)
    /\ UNCHANGED <<lifecycle, flagVars, batches, replicating, boundVars>>

DrainSyncFails(t, isCorruption) ==
    /\ rcalls[t].at = "sync"
    /\ EngineFails
    /\ HandleEngineError(isCorruption)
    /\ DrainEnds(t)
    /\ UNCHANGED <<engineVars, handoffs, world, worldChanges>>

(* shutdown_by after the drain: Stopped, and the engine goes to the thread  *)
(* that drops it; the call waits for that thread until the deadline.        *)
ShutdownStop(t) ==
    /\ In(t, "shutdown", "stop")
    /\ lifecycle' = "stopped"
    /\ engineOpen' = FALSE
    /\ Done(t)
    /\ UNCHANGED <<corruption, caughtUp, engineVars, handoffs, boundVars>>

(* The provider, the fence or the probe changes. *)
WorldChanges ==
    /\ worldChanges < MaxWorldChanges
    /\ worldChanges' = worldChanges + 1
    /\ world' \in Worlds
    /\ UNCHANGED <<lifecycle, flagVars, rcalls, engineVars, handoffs, engineFailures>>

RuntimeNext ==
    \/ \E t \in Threads :
        \/ RecoverStart(t) \/ RecoverResume(t) \/ RecoverStore(t)
        \/ ReadyStart(t) \/ ReadyTimesOut(t) \/ ReadyJudge(t) \/ ReadyStore(t)
        \/ AppendStart(t) \/ AppendReplicaStart(t) \/ FetchStart(t) \/ EngineAnswers(t)
        \/ SyncCall(t) \/ HealthSnapshot(t)
        \/ DrainSwitch(t) \/ DrainTimesOut(t) \/ DrainWait(t) \/ DrainSync(t)
        \/ ShutdownStop(t)
        \/ \E op \in RuntimeOps : DrainStart(t, op)
        \/ \E c \in BOOLEAN : RecoverFails(t, c) \/ EngineRefuses(t, c) \/ DrainSyncFails(t, c)
    \/ \E b \in replicating : Replicated(b)
    \/ WorldChanges

RuntimeSpec == RuntimeInit /\ [][RuntimeNext]_runtimeVars

-----------------------------------------------------------------------------
(* The state is well formed: the engine has synced and replicates only what *)
(* it has appended.                                                         *)
RuntimeTypeOK ==
    /\ lifecycle \in LifecycleStates
    /\ {corruption, caughtUp, engineOpen} \subseteq BOOLEAN
    /\ batches \in 0..MaxBatches /\ synced \in 0..batches
    /\ replicating \subseteq 1..batches
    /\ world \in Worlds

(* A receipt of prepare_leadership_transfer covers every batch acknowledged *)
(* before the call: it has been synced and has left the replication queue,  *)
(* whatever appends, timeouts and failures ran during the drain.            *)
HandoffCovers ==
    \A h \in handoffs : h.synced >= h.covers /\ h.unreplicated = {}

(* When the host makes one lifecycle call at a time, a runtime that has     *)
(* begun to drain, is fenced or has stopped never admits a producer again.  *)
AdmissionStaysClosed ==
    [][(lifecycle \in {"draining", "fenced", "stopped"}) => (lifecycle' # "ready")]_runtimeVars

(* EMBEDDED_RUNTIME.md says Failed is terminal for the process: a runtime   *)
(* that has failed only stops.                                              *)
FailedIsTerminal ==
    [][lifecycle = "failed" => lifecycle' \in {"failed", "stopped"}]_runtimeVars


=============================================================================
