------------------------------ MODULE OwnedEngine ------------------------------
(***************************************************************************)
(* Opening an engine over owned recovered storage, and letting it go:      *)
(* StreamEngine::open_recovered_storage starts a lane and a sync thread    *)
(* per shard around the sole store of the shard, collects garbage below    *)
(* the recovered log starts, and returns an engine or a refusal that       *)
(* retains whatever was started.  owned_engine.rs, worker_start.rs,        *)
(* worker_gc.rs, and the handle's Drop in worker.rs.                       *)
(*                                                                         *)
(* Every phase asks the original expiry, the shared directory budget and   *)
(* the composing health checks; refusing denies the budget and the health  *)
(* for everything that shares them.                                        *)
(***************************************************************************)
EXTENDS Integers, Sequences, FiniteSets, SequencesExt

CONSTANTS
  Lanes,          \* 1 .. n, the configured shards
  GcPlan,         \* the lanes of the boot collections, in order
  MaxOpenFaults   \* spawn, I/O and native refusals that may happen

VARIABLES
  opening,        \* the thread in open_recovered_storage, see OpenInit
  lanes,          \* per shard: where its store is, its threads and channel
  root            \* who holds the root's DirectoryOwnership

openVars == <<opening, lanes, root>>

OpenInit ==
  /\ opening = [pc |-> "admit", lane |-> 1, gc |-> 1, ticket |-> FALSE, outcomes |-> <<>>,
                startError |-> FALSE, result |-> "none", clock |-> "open",
                budgetDenied |-> FALSE, denials |-> 0, faults |-> 0]
  /\ lanes = [s \in Lanes |->
                [store |-> "storage", lane |-> "none", sync |-> "none", channel |-> FALSE,
                 queue |-> "none", reply |-> "none", syncSenders |-> {}]]
  /\ root = {<<"main", 0>>}

Shard == opening.lane
Goto(pc) == opening' = [opening EXCEPT !.pc = pc]

(* recovery_clock asks the expiry alone, Start::check the budget and the   *)
(* health checks as well.                                                  *)
Late == opening.clock = "expired"
CheckFails == Late \/ opening.budgetDenied \/ opening.clock = "unhealthy"

(* An external step that may refuse: a spawn, an I/O error, a corrupt file. *)
MayFail == opening.faults < MaxOpenFaults
Faulted == [opening EXCEPT !.faults = @ + 1]

LastAccepted == opening.outcomes = <<>> \/ Last(opening.outcomes) = "accepted"

(* open_recovered_storage's error path: a start or a collection that       *)
(* refused has already denied, everything else denies here.                *)
OpenRefused(o) ==
  opening' = [o EXCEPT !.pc = "returned", !.result = "refused", !.budgetDenied = TRUE,
                !.denials = IF LastAccepted THEN @ + 1 ELSE @]

(* spawn_recovered_primary's error path: Start::deny, and the whole Start  *)
(* stays in the error.                                                     *)
StartRefused(o) ==
  opening' = [o EXCEPT !.pc = "returned", !.result = "refused", !.startError = TRUE,
                !.budgetDenied = TRUE, !.denials = @ + 1]

(* One step of construct, outside and inside the worker start. *)
Construct(from, to) ==
  /\ opening.pc = from
  /\ \/ ~Late /\ Goto(to)
     \/ Late /\ OpenRefused(opening)
     \/ ~Late /\ MayFail /\ OpenRefused(Faulted)
  /\ UNCHANGED <<lanes, root>>

StartPhase(from, next) ==
  /\ opening.pc = from
  /\ \/ ~CheckFails /\ next
     \/ CheckFails /\ StartRefused(opening) /\ UNCHANGED <<lanes, root>>
     \/ ~CheckFails /\ MayFail /\ StartRefused(Faulted) /\ UNCHANGED <<lanes, root>>

-----------------------------------------------------------------------------
(* admit_engine, the configuration, the sink and the journal. *)
AdmitOpening == Construct("admit", "sink")
OpenSink == Construct("sink", "journal")
OpenControlJournal == Construct("journal", "take")

(* recovery_take_shard moves the sole store into the Start. *)
TakeShard ==
  /\ opening.pc = "take"
  /\ IF Late THEN OpenRefused(opening) /\ UNCHANGED lanes
     ELSE /\ Goto("catalog")
          /\ lanes' = [lanes EXCEPT ![Shard].store = "start"]
  /\ UNCHANGED root

(* Sealed packs are offloaded, the catalog read and marked durable. *)
StartCatalog == StartPhase("catalog", Goto("spawnSync") /\ UNCHANGED <<lanes, root>>)

(* The sync thread: its handle is kept before the next check. *)
SpawnSync ==
  StartPhase("spawnSync",
    /\ Goto("waitSync")
    /\ lanes' = [lanes EXCEPT ![Shard].sync = "spawned", ![Shard].syncSenders = {"handle"}]
    /\ root' = root \cup {<<"sync", Shard>>})

WaitSync ==
  StartPhase("waitSync",
    /\ lanes[Shard].sync = "running"
    /\ Goto("slot")
    /\ UNCHANGED <<lanes, root>>)

(* The store moves from the Start into the slot the lane thread will empty. *)
FillSlot ==
  StartPhase("slot",
    /\ Goto("spawnLane")
    /\ lanes' = [lanes EXCEPT ![Shard].store = "slot", ![Shard].channel = TRUE,
                   ![Shard].syncSenders = @ \cup {"slot"}]
    /\ UNCHANGED root)

SpawnLane ==
  StartPhase("spawnLane",
    /\ Goto("waitLane")
    /\ lanes' = [lanes EXCEPT ![Shard].lane = "spawned"]
    /\ root' = root \cup {<<"lane", Shard>>})

WaitLane ==
  StartPhase("waitLane",
    /\ lanes[Shard].lane = "running"
    /\ Goto("push")
    /\ UNCHANGED <<lanes, root>>)

(* The handle is kept, then its catalog checked for duplicate batches. *)
PushHandle ==
  /\ opening.pc = "push"
  /\ \/ /\ ~Late
        /\ opening' = IF Shard + 1 \in Lanes
                        THEN [opening EXCEPT !.pc = "take", !.lane = @ + 1]
                        ELSE [opening EXCEPT !.pc = "states"]
     \/ Late /\ OpenRefused(opening)
     \/ ~Late /\ MayFail /\ OpenRefused(Faulted)
  /\ UNCHANGED <<lanes, root>>

RecoverStates == Construct("states", "pools")
SpawnPools == Construct("pools", "progress")
InstallProgress == Construct("progress", "gc")

-----------------------------------------------------------------------------
(* One boot collection: begin_owned_gc queues the command and keeps the    *)
(* ticket, or refuses and denies before anything entered.                  *)
BeginBootGc ==
  /\ opening.pc = "gc"
  /\ opening.gc <= Len(GcPlan)
  /\ \/ ~Late /\ ~opening.budgetDenied
          /\ opening' = [opening EXCEPT !.pc = "settle", !.ticket = TRUE]
          /\ lanes' = [lanes EXCEPT ![GcPlan[opening.gc]].queue = "gc"]
     \/ Late /\ OpenRefused(opening) /\ UNCHANGED lanes
     \/ /\ ~Late /\ MayFail
        /\ opening' = [Faulted EXCEPT !.pc = "returned", !.result = "refused",
                         !.outcomes = Append(@, "refused"), !.budgetDenied = TRUE,
                         !.denials = @ + 1]
        /\ UNCHANGED lanes
  /\ UNCHANGED root

(* Mutant: a refused collection, which has denied already, is denied again. *)
SettleBootGcDenies ==
  /\ opening.pc = "settle"
  /\ LET s == GcPlan[opening.gc]
         got == [opening EXCEPT !.ticket = FALSE, !.outcomes = Append(@, lanes[s].reply)]
     IN /\ lanes[s].reply # "none"
        /\ IF Late \/ lanes[s].reply = "refused"
             THEN opening' = [got EXCEPT !.pc = "returned", !.result = "refused",
                                !.budgetDenied = TRUE, !.denials = @ + 1]
             ELSE opening' = [got EXCEPT !.pc = "gc", !.gc = @ + 1]
        /\ lanes' = [lanes EXCEPT ![s].reply = "none"]
  /\ UNCHANGED root

(* GcTicket::settle waits for the lane; the outcome is kept before the     *)
(* clock is asked and before it is judged.                                 *)
SettleBootGc ==
  /\ opening.pc = "settle"
  /\ LET s == GcPlan[opening.gc]
         got == [opening EXCEPT !.ticket = FALSE, !.outcomes = Append(@, lanes[s].reply)]
     IN /\ lanes[s].reply # "none"
        /\ IF Late \/ lanes[s].reply = "refused"
             THEN opening' = [got EXCEPT !.pc = "returned", !.result = "refused",
                                !.budgetDenied = TRUE,
                                !.denials = IF lanes[s].reply = "accepted" THEN @ + 1 ELSE @]
             ELSE opening' = [got EXCEPT !.pc = "gc", !.gc = @ + 1]
        /\ lanes' = [lanes EXCEPT ![s].reply = "none"]
  /\ UNCHANGED root

(* construct's last clock check, then finish; an expiry that passes during *)
(* finish still refuses, with the completed engine kept inside.            *)
FinishConstruct ==
  /\ opening.pc = "gc"
  /\ opening.gc > Len(GcPlan)
  /\ IF Late THEN OpenRefused(opening) ELSE Goto("finish")
  /\ UNCHANGED <<lanes, root>>

FinishOpening ==
  /\ opening.pc = "finish"
  /\ opening' = [opening EXCEPT !.pc = "returned", !.result = IF Late THEN "late" ELSE "ok"]
  /\ UNCHANGED <<lanes, root>>

-----------------------------------------------------------------------------
(* The threads. *)
SyncStarts(s) ==
  /\ lanes[s].sync = "spawned"
  /\ lanes' = [lanes EXCEPT ![s].sync = "running"]
  /\ UNCHANGED <<opening, root>>

(* The sync worker ends when the last sender of its queue is dropped. *)
SyncEnds(s) ==
  /\ lanes[s].sync = "running"
  /\ lanes[s].syncSenders = {}
  /\ lanes' = [lanes EXCEPT ![s].sync = "ended"]
  /\ root' = root \ {<<"sync", s>>}
  /\ UNCHANGED opening

(* The lane takes the store, and with it a sender of the sync queue. *)
LaneEnters(s) ==
  /\ lanes[s].lane = "spawned"
  /\ lanes' = [lanes EXCEPT ![s].lane = "running", ![s].store = "lane",
                 ![s].syncSenders = (@ \ {"slot"}) \cup {"lane"}]
  /\ UNCHANGED <<opening, root>>

(* gc::execute: the store is moved out for the collection.  A refused Core *)
(* collection keeps it and has denied the health itself; the lane serves   *)
(* "unavailable" from then on.                                             *)
LaneCollects(s) ==
  /\ lanes[s].lane = "running"
  /\ lanes[s].queue = "gc"
  /\ LET refused == Late \/ opening.budgetDenied \/ lanes[s].store # "lane" IN
     \/ /\ refused
        /\ lanes' = [lanes EXCEPT ![s].queue = "none", ![s].reply = "refused"]
        /\ opening' = [opening EXCEPT !.budgetDenied = TRUE, !.denials = @ + 1]
     \/ /\ ~refused /\ opening.clock = "open"
        /\ lanes' = [lanes EXCEPT ![s].queue = "none", ![s].reply = "accepted"]
        /\ UNCHANGED opening
     \/ /\ ~refused /\ (MayFail \/ opening.clock = "unhealthy")
        /\ lanes' = [lanes EXCEPT ![s].queue = "none", ![s].reply = "refused",
                       ![s].store = "outcome"]
        /\ opening' = [Faulted EXCEPT !.budgetDenied = TRUE, !.denials = @ + 1]
  /\ UNCHANGED root

(* run_worker returns once its channel is closed and empty; the store goes *)
(* before the lane's hold of the root.                                     *)
LaneCloses(s) ==
  /\ lanes[s].lane = "running"
  /\ ~lanes[s].channel
  /\ lanes[s].queue = "none"
  /\ lanes' = [lanes EXCEPT ![s].lane = "closing", ![s].syncSenders = @ \ {"lane"},
                 ![s].store = IF @ = "lane" THEN "closed" ELSE @]
  /\ UNCHANGED <<opening, root>>

LaneReleases(s) ==
  /\ lanes[s].lane = "closing"
  /\ lanes' = [lanes EXCEPT ![s].lane = "ended"]
  /\ root' = root \ {<<"lane", s>>}
  /\ UNCHANGED opening

-----------------------------------------------------------------------------
(* The caller drops the engine or the refusal.  ShardHandle::drop, lane by *)
(* lane: close the channel, join the lane, empty a slot nobody took, drop  *)
(* the sync sender, join the sync thread.                                  *)
BeginDrop ==
  /\ opening.pc = "returned"
  /\ opening' = [opening EXCEPT !.pc = "close", !.lane = 1]
  /\ UNCHANGED <<lanes, root>>

DropChannel ==
  /\ opening.pc = "close"
  /\ lanes' = [lanes EXCEPT ![Shard].channel = FALSE,
                 ![Shard].store = IF @ = "start" THEN "closed" ELSE @]
  /\ Goto("joinLane")
  /\ UNCHANGED root

(* Mutant: the slot nobody emptied keeps its sender of the sync queue. *)
JoinLaneKeepsSlot ==
  /\ opening.pc = "joinLane"
  /\ lanes[Shard].lane \in {"none", "ended"}
  /\ lanes' = [lanes EXCEPT ![Shard].syncSenders = @ \ {"handle"}]
  /\ Goto("joinSync")
  /\ UNCHANGED root

JoinLane ==
  /\ opening.pc = "joinLane"
  /\ lanes[Shard].lane \in {"none", "ended"}
  /\ lanes' = [lanes EXCEPT ![Shard].store = IF @ = "slot" THEN "closed" ELSE @,
                 ![Shard].syncSenders = {}]
  /\ Goto("joinSync")
  /\ UNCHANGED root

JoinSync ==
  /\ opening.pc = "joinSync"
  /\ lanes[Shard].sync \in {"none", "ended"}
  /\ opening' = IF Shard + 1 \in Lanes
                  THEN [opening EXCEPT !.pc = "close", !.lane = @ + 1]
                  ELSE [opening EXCEPT !.pc = "storage"]
  /\ UNCHANGED <<lanes, root>>

(* The outcomes and the stores no lane ever took, and the storage last.    *)
DropStorage ==
  /\ opening.pc = "storage"
  /\ lanes' = [s \in Lanes |-> [lanes[s] EXCEPT !.store = "closed"]]
  /\ root' = root \ {<<"main", 0>>}
  /\ Goto("gone")

(* The expiry passes, or the composing health checks begin to refuse. *)
OpenHalts(how) ==
  /\ opening.result = "none"
  /\ opening.clock = "open"
  /\ opening' = [opening EXCEPT !.clock = how]
  /\ UNCHANGED <<lanes, root>>

MainSteps ==
  \/ AdmitOpening \/ OpenSink \/ OpenControlJournal \/ TakeShard \/ StartCatalog
  \/ SpawnSync \/ WaitSync \/ FillSlot \/ SpawnLane \/ WaitLane \/ PushHandle
  \/ RecoverStates \/ SpawnPools \/ InstallProgress \/ BeginBootGc \/ SettleBootGc
  \/ FinishConstruct \/ FinishOpening
  \/ BeginDrop \/ DropChannel \/ JoinLane \/ JoinSync \/ DropStorage

ThreadSteps(s) ==
  \/ SyncStarts(s) \/ SyncEnds(s) \/ LaneEnters(s) \/ LaneCollects(s)
  \/ LaneCloses(s) \/ LaneReleases(s)

OpenNext ==
  \/ MainSteps
  \/ \E s \in Lanes : ThreadSteps(s)
  \/ \E how \in {"expired", "unhealthy"} : OpenHalts(how)

OpenSpec == OpenInit /\ [][OpenNext]_openVars
FairOpenSpec ==
  OpenSpec /\ WF_openVars(MainSteps) /\ \A s \in Lanes : WF_openVars(ThreadSteps(s))

-----------------------------------------------------------------------------
(* The root's ownership outlives every thread and every open store,        *)
(* whatever point a refused opening stopped at ("Last through errors,      *)
(* unwind, failed spawning and every real worker join").                   *)
RootReleasedLast ==
  root = {} =>
    \A s \in Lanes : lanes[s].store = "closed"
                       /\ lanes[s].lane \in {"none", "ended"}
                       /\ lanes[s].sync \in {"none", "ended"}

(* An engine that was handed out has every lane running with its own store *)
(* and no collection outstanding, and denied nobody.                       *)
OpenedServes ==
  opening.pc = "returned" /\ opening.result = "ok" =>
    /\ ~opening.ticket /\ opening.denials = 0
    /\ \A s \in Lanes : lanes[s].store = "lane" /\ lanes[s].lane = "running"
                          /\ lanes[s].sync = "running" /\ lanes[s].reply = "none"

(* A refused opening has denied the shared health exactly once, although   *)
(* the worker start, the lane's collection, Core and the opening itself    *)
(* each deny on their own path.                                            *)
RefusalDeniesOnce ==
  opening.result = "refused" => opening.denials = 1 /\ opening.budgetDenied

(* Opening returns and dropping what it returned ends: no join waits for a *)
(* thread that waits for a sender the joiner still holds.                  *)
CustodyEnded == root = {}
CustodyEnds == []<>CustodyEnded

(* All three, of an opening that succeeds, is late or is refused at any     *)
(* step (owned_engine.rs, worker_start.rs, worker_gc.rs).                  *)
OpeningSafe == RootReleasedLast /\ OpenedServes /\ RefusalDeniesOnce
=============================================================================
