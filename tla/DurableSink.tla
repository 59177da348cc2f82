---------------------------- MODULE DurableSink -----------------------------
(***************************************************************************)
(* The durable sink of one partition: the writers that charge its lag       *)
(* budget and hand it durable appends, the dispatcher's worker thread with *)
(* its command channel, reorder map, flush and retry timers, the shared    *)
(* external sink with its transactional checkpoint, the group decisions of *)
(* committed-only mode, retention pinned by the checkpoint, and the replay *)
(* of retained log that a restart or a host runs.  Sequence numbers stand  *)
(* for the pair of placement sequence and offset: both belong to the same  *)
(* batch and move together.                                                *)
(***************************************************************************)
EXTENDS Naturals, Sequences, FiniteSets

CONSTANTS
    Writers,        \* client threads in StreamEngine::append
    MaxSeq,         \* bound: appends that are placed
    MaxPerTick,     \* MAX_APPENDS_PER_PARTITION_TICK
    Scenarios       \* option sets to run, with the bounds on faults in each

ASSUME DurableSinkAssumption ==
    /\ MaxSeq \in Nat /\ MaxPerTick \in Nat \ {0}
    /\ \A o \in Scenarios :
          /\ {o.availability, o.committedOnly, o.blocking} \subseteq BOOLEAN
          /\ o.maxItems \in Nat \ {0}
          /\ o.modes \subseteq BOOLEAN /\ o.modes # {}
          /\ o.bounds \in [{"faults", "loads", "aborts", "others", "crashes"} -> Nat]

VARIABLES
    options,    \* DurableSinkOptions and how hosts resume (ordinary, bounded)
    wal,        \* the log: what became of each sequence number
    inGroup,    \* the sequence numbers that are chunks of the atomic group
    group,      \* the coordinator's state of the group
    logStart,   \* the partition's log start
    up,         \* the engine serves (its startup replay is over)
    writer,     \* where each writer is, its charge, its sequence number
    decider,    \* the thread in commit_atomic_group or abort_atomic_group
    items,      \* the budget's pending_items
    commands,   \* the worker's channel
    entry,      \* the worker's PartitionDelivery: loaded, checkpoint, retry_at
    held,       \* its `pending` map: the sequence numbers queued there
    decisions,  \* its queued decisions: outcome and whether a retry delays it
    timers,     \* flush_at and processing_wake are set
    phase,      \* what the worker loop is doing, and what is left of a tick
    shared,     \* SharedProgress: checkpoint, finalized, dirty
    sink,       \* the external sink: checkpoint, applied, staged, decision
    replay,     \* the thread in replay_sink
    left        \* what is left of the bounds

logVars == <<options, wal, inGroup, group, logStart>>
workerVars == <<entry, held, decisions, timers, phase>>
sinkVars == <<options, wal, inGroup, group, logStart, up, writer, decider, items, commands,
              entry, held, decisions, timers, phase, shared, sink, replay, left>>

-----------------------------------------------------------------------------
Seqs == 0 .. MaxSeq - 1

None == MaxSeq + 1     \* no checkpoint cached

InLog(s) == wal[s] \in {"durable", "complete"}

NextSeq == Cardinality({s \in Seqs : wal[s] # "free"})

(* contiguous_log_end: the coordinator passes over aborted batches. *)
ContiguousEnd ==
    CHOOSE e \in 0 .. MaxSeq :
        /\ \A s \in 0 .. e - 1 : wal[s] \in {"complete", "aborted", "unknown"}
        /\ e < MaxSeq => wal[e] \notin {"complete", "aborted", "unknown"}

IdleWriter == [pc |-> "idle", charged |-> FALSE, seq |-> MaxSeq]
IdleReplay == [pc |-> "idle", strict |-> FALSE, cp |-> 0, target |-> 0, decided |-> FALSE]

(* PartitionDelivery before ensure_partition has loaded a checkpoint. *)
NoEntry == [loaded |-> FALSE, cp |-> 0, retry |-> FALSE]

Receiving == [at |-> "recv", todo |-> 0]

(* reserve: a charge if there is room; else Availability goes on without   *)
(* one and Backpressure waits.                                             *)
MayReserve(charged) ==
    \/ charged /\ items < options.maxItems
    \/ ~charged /\ options.availability /\ items >= options.maxItems

SinkInit ==
    /\ wal = [s \in Seqs |-> "free"]
    /\ inGroup = {}
    /\ group = "Unresolved"
    /\ logStart = 0
    /\ up = TRUE
    /\ writer = [w \in Writers |-> IdleWriter]
    /\ decider = [pc |-> "idle", charged |-> FALSE]
    /\ items = 0
    /\ commands = <<>>
    /\ entry = NoEntry
    /\ held = {}
    /\ decisions = <<>>
    /\ timers = [flush |-> FALSE, wake |-> FALSE]
    /\ phase = Receiving
    /\ shared = [cp |-> None, finalized |-> FALSE, dirty |-> FALSE]
    /\ sink = [cp |-> 0, applied |-> {}, staged |-> {}, decision |-> "None"]
    /\ replay = IdleReplay
    /\ options \in Scenarios
    /\ left = options.bounds

Send(command) == commands' = Append(commands, command)

AppendCommand(s) == [type |-> "append", seq |-> s]
DecisionCommand(outcome) == [type |-> "decision", outcome |-> outcome]

Spend(bound) == left[bound] > 0 /\ left' = [left EXCEPT ![bound] = @ - 1]

-----------------------------------------------------------------------------
(* Writers: StreamEngine::append.                                          *)

(* The charge is taken before the coordinator is asked for a placement. *)
Charge(w) ==
    /\ up
    /\ writer[w].pc = "idle"
    /\ NextSeq < MaxSeq
    /\ \E charged \in BOOLEAN :
          /\ MayReserve(charged)
          /\ items' = IF charged THEN items + 1 ELSE items
          /\ writer' = [writer EXCEPT ![w] = [@ EXCEPT !.pc = "charged", !.charged = charged]]
    /\ UNCHANGED <<logVars, up, decider, commands, workerVars, shared, sink, replay, left>>

Place(w, chunk) ==
    /\ writer[w].pc = "charged"
    /\ NextSeq < MaxSeq
    /\ chunk => options.committedOnly /\ group = "Unresolved"
    /\ wal' = [wal EXCEPT ![NextSeq] = "reserved"]
    /\ inGroup' = IF chunk THEN inGroup \cup {NextSeq} ELSE inGroup
    /\ writer' = [writer EXCEPT ![w].pc = "placed", ![w].seq = NextSeq]
    /\ UNCHANGED <<options, group, logStart, up, decider, items, commands, workerVars, shared,
                   sink, replay, left>>

(* The coordinator refuses or answers a retry: the charge is dropped. *)
PlaceRefused(w) ==
    /\ writer[w].pc = "charged"
    /\ writer' = [writer EXCEPT ![w] = IdleWriter]
    /\ items' = IF writer[w].charged THEN items - 1 ELSE items
    /\ UNCHANGED <<logVars, up, decider, commands, workerVars, shared, sink, replay, left>>

LaneSyncs(w) ==
    /\ writer[w].pc = "placed"
    /\ wal' = [wal EXCEPT ![writer[w].seq] = "durable"]
    /\ writer' = [writer EXCEPT ![w].pc = "durable"]
    /\ UNCHANGED <<options, inGroup, group, logStart, up, decider, items, commands, workerVars,
                   shared, sink, replay, left>>

(* The lane fails; the coordinator aborts the batch.  Unless the lane can   *)
(* tell, the bytes may still be found by a restart ("unknown").             *)
LaneFails(w) ==
    /\ writer[w].pc = "placed"
    /\ Spend("aborts")
    /\ \E outcome \in {"aborted", "unknown"} :
          wal' = [wal EXCEPT ![writer[w].seq] = outcome]
    /\ writer' = [writer EXCEPT ![w] = IdleWriter]
    /\ items' = IF writer[w].charged THEN items - 1 ELSE items
    /\ UNCHANGED <<options, inGroup, group, logStart, up, decider, commands, workerVars, shared,
                   sink, replay>>

(* enqueue: with a charge the append goes to the worker; without, the       *)
(* notification is dropped and the partition marked dirty.                 *)
Enqueue(w) ==
    /\ writer[w].pc = "durable"
    /\ IF writer[w].charged
       THEN Send(AppendCommand(writer[w].seq)) /\ UNCHANGED shared
       ELSE shared' = [shared EXCEPT !.dirty = TRUE] /\ UNCHANGED commands
    /\ writer' = [writer EXCEPT ![w].pc = "enqueued"]
    /\ UNCHANGED <<logVars, up, decider, items, workerVars, sink, replay, left>>

Complete(w) ==
    /\ writer[w].pc = "enqueued"
    /\ wal' = [wal EXCEPT ![writer[w].seq] = "complete"]
    /\ writer' = [writer EXCEPT ![w] = IdleWriter]
    /\ UNCHANGED <<options, inGroup, group, logStart, up, decider, items, commands, workerVars,
                   shared, sink, replay, left>>

-----------------------------------------------------------------------------
(* commit_atomic_group, abort_atomic_group.                                *)
ReserveDecision ==
    /\ up /\ options.committedOnly
    /\ decider.pc = "idle" /\ group = "Unresolved"
    /\ \E charged \in BOOLEAN :
          /\ MayReserve(charged)
          /\ items' = IF charged THEN items + 1 ELSE items
          /\ decider' = [pc |-> "charged", charged |-> charged]
    /\ UNCHANGED <<logVars, up, writer, commands, workerVars, shared, sink, replay, left>>

(* The coordinator accepts a group whose chunks are all complete. *)
FinalizeGroup(outcome) ==
    /\ decider.pc = "charged"
    /\ group = "Unresolved"
    /\ inGroup # {} /\ \A s \in inGroup : wal[s] = "complete"
    /\ group' = outcome
    /\ decider' = [decider EXCEPT !.pc = "decided"]
    /\ UNCHANGED <<options, wal, inGroup, logStart, up, writer, items, commands, workerVars,
                   shared, sink, replay, left>>

FinalizeRefused ==
    /\ decider.pc = "charged"
    /\ inGroup = {} \/ \E s \in inGroup : wal[s] # "complete"
    /\ decider' = [pc |-> "idle", charged |-> FALSE]
    /\ items' = IF decider.charged THEN items - 1 ELSE items
    /\ UNCHANGED <<logVars, up, writer, commands, workerVars, shared, sink, replay, left>>

EnqueueDecision ==
    /\ decider.pc = "decided"
    /\ IF decider.charged
       THEN Send(DecisionCommand(group)) /\ UNCHANGED shared
       ELSE shared' = [shared EXCEPT !.dirty = TRUE] /\ UNCHANGED commands
    /\ decider' = [pc |-> "idle", charged |-> FALSE]
    /\ UNCHANGED <<logVars, up, writer, items, workerVars, sink, replay, left>>

(* Mutant: retention is not held back by the sink's checkpoint. *)
TruncateUnpinned ==
    /\ up
    /\ shared.cp # None
    /\ \E start \in logStart + 1 .. ContiguousEnd :
          /\ group = "Unresolved" => \A s \in inGroup : start <= s
          /\ logStart' = start
    /\ UNCHANGED <<options, wal, inGroup, group, up, writer, decider, items, commands, workerVars,
                   shared, sink, replay, left>>

(* truncate_partition: the cached checkpoint pins retention, and so do the  *)
(* log end and an unresolved group.  A partition without a cached          *)
(* checkpoint asks the worker first (as Replay does below).                *)
Truncate ==
    /\ up
    /\ shared.cp # None
    /\ \E start \in logStart + 1 .. ContiguousEnd :
          /\ start <= shared.cp
          /\ group = "Unresolved" => \A s \in inGroup : start <= s
          /\ logStart' = start
    /\ UNCHANGED <<options, wal, inGroup, group, up, writer, decider, items, commands, workerVars,
                   shared, sink, replay, left>>

-----------------------------------------------------------------------------
(* The worker thread: run_dispatcher, handle_command.                      *)

(* ensure_partition of an unknown partition loads the sink's checkpoint. *)
Ensured == IF entry.loaded THEN entry ELSE [loaded |-> TRUE, cp |-> sink.cp, retry |-> FALSE]

PublishEnsured ==
    IF entry.loaded THEN shared ELSE [shared EXCEPT !.cp = sink.cp]

Take(type) ==
    /\ phase.at = "recv"
    /\ commands # <<>> /\ Head(commands).type = type
    /\ commands' = Tail(commands)

(* Mutant: a stale or repeated append is dropped but its charge is kept. *)
HandleAppendKeepsCharge ==
    /\ Take("append")
    /\ timers' = [timers EXCEPT !.flush = TRUE]
    /\ entry' = Ensured
    /\ shared' = PublishEnsured
    /\ LET s == Head(commands).seq IN
       held' = IF s < Ensured.cp THEN held ELSE held \cup {s}
    /\ UNCHANGED <<logVars, up, writer, decider, items, decisions, phase, sink, replay, left>>

(* A stale or repeated append is dropped with its charge, any other waits  *)
(* for its turn in `pending`.                                              *)
HandleAppend ==
    /\ Take("append")
    /\ timers' = [timers EXCEPT !.flush = TRUE]
    /\ entry' = Ensured
    /\ shared' = PublishEnsured
    /\ LET s == Head(commands).seq IN
       IF s < Ensured.cp \/ s \in held
       THEN items' = items - 1 /\ UNCHANGED held
       ELSE held' = held \cup {s} /\ UNCHANGED items
    /\ UNCHANGED <<logVars, up, writer, decider, decisions, phase, sink, replay, left>>

(* The checkpoint cannot be loaded: the append is dropped, the partition   *)
(* marked dirty.                                                           *)
HandleAppendUnloaded ==
    /\ Take("append")
    /\ ~entry.loaded
    /\ Spend("loads")
    /\ timers' = [timers EXCEPT !.flush = TRUE]
    /\ shared' = [shared EXCEPT !.dirty = TRUE]
    /\ items' = items - 1
    /\ UNCHANGED <<logVars, up, writer, decider, entry, held, decisions, phase, sink, replay>>

HandleDecision ==
    /\ Take("decision")
    /\ timers' = [timers EXCEPT !.flush = TRUE]
    /\ decisions' = Append(decisions, [outcome |-> Head(commands).outcome, delayed |-> FALSE])
    /\ UNCHANGED <<logVars, up, writer, decider, items, entry, held, phase, shared, sink,
                   replay, left>>

(* LoadCheckpoint and PendingGroups answer the thread that waits, if it     *)
(* still does.                                                             *)
Answer(next) == replay' = IF Head(commands).waits THEN next ELSE replay

HandleLoad ==
    /\ Take("load")
    /\ entry' = Ensured
    /\ shared' = PublishEnsured
    /\ Answer([replay EXCEPT !.pc = "loaded", !.cp = Ensured.cp])
    /\ UNCHANGED <<logVars, up, writer, decider, items, held, decisions, timers, phase,
                   sink, left>>

HandlePending ==
    /\ Take("pending")
    /\ Answer([replay EXCEPT
          !.pc = "settle", !.decided = sink.staged # {} /\ group # "Unresolved"])
    /\ UNCHANGED <<logVars, up, writer, decider, items, workerVars, shared, sink, left>>

AnswerFails ==
    /\ (Take("load") /\ ~entry.loaded) \/ Take("pending")
    /\ Spend("faults")
    /\ Answer(IdleReplay)
    /\ UNCHANGED <<logVars, up, writer, decider, items, workerVars, shared, sink>>

-----------------------------------------------------------------------------
(* A tick: process_decisions, then process_ready.  It starts when a timer   *)
(* is due; if only the wake-up is, a later flush stays scheduled.          *)
StartTick ==
    /\ phase.at = "recv"
    /\ timers.flush \/ timers.wake
    /\ \E due \in BOOLEAN :
          /\ due => timers.flush
          /\ ~due => timers.wake
          /\ timers' = [flush |-> timers.flush /\ ~due, wake |-> FALSE]
    /\ phase' = [at |-> "decide", todo |-> Len(decisions)]
    /\ UNCHANGED <<logVars, up, writer, decider, items, commands, entry, held, decisions,
                   shared, sink, replay, left>>

(* What the sink shows once a group is decided (idempotent). *)
Decided(snk, outcome) ==
    [snk EXCEPT !.decision = outcome,
                !.applied = IF outcome = "Committed" THEN @ \cup snk.staged ELSE @,
                !.staged = {}]

DeciderTakes == phase.at = "decide" /\ phase.todo > 0

DecisionApplied ==
    /\ DeciderTakes
    /\ sink' = Decided(sink, Head(decisions).outcome)
    /\ shared' = [shared EXCEPT !.finalized = TRUE]
    /\ decisions' = Tail(decisions)
    /\ items' = items - 1
    /\ phase' = [phase EXCEPT !.todo = @ - 1]
    /\ UNCHANGED <<logVars, up, writer, decider, commands, entry, held, timers, replay, left>>

(* The retry of an earlier failure is not due yet. *)
DecisionDelayed ==
    /\ DeciderTakes
    /\ Head(decisions).delayed
    /\ decisions' = Append(Tail(decisions), Head(decisions))
    /\ timers' = [timers EXCEPT !.wake = TRUE]
    /\ phase' = [phase EXCEPT !.todo = @ - 1]
    /\ UNCHANGED <<logVars, up, writer, decider, items, commands, entry, held, shared, sink,
                   replay, left>>

DecisionFails ==
    /\ DeciderTakes
    /\ Spend("faults")
    /\ decisions' = Append(Tail(decisions), [Head(decisions) EXCEPT !.delayed = TRUE])
    /\ timers' = [timers EXCEPT !.wake = TRUE]
    /\ phase' = [phase EXCEPT !.todo = @ - 1]
    /\ UNCHANGED <<logVars, up, writer, decider, items, commands, entry, held, shared, sink,
                   replay>>

(* process_ready: a partition whose retry is not due is passed over. *)
RetryNotDue ==
    /\ phase.at = "decide" /\ phase.todo = 0
    /\ entry.retry
    /\ timers' = [timers EXCEPT !.wake = TRUE]
    /\ phase' = Receiving
    /\ UNCHANGED <<logVars, up, writer, decider, items, commands, entry, held, decisions,
                   shared, sink, replay, left>>

StartReady ==
    /\ phase.at = "decide" /\ phase.todo = 0
    /\ entry' = [entry EXCEPT !.retry = FALSE]
    /\ phase' = [at |-> "apply", todo |-> MaxPerTick]
    /\ UNCHANGED <<logVars, up, writer, decider, items, commands, held, decisions, timers,
                   shared, sink, replay, left>>

(* The sink's transaction: the append's effects and the next checkpoint.   *)
(* A chunk is staged until the group's decision; a sink that has the       *)
(* decision already applies it (it retains an idempotent decision record). *)
Applied(snk, s) ==
    LET staged == options.committedOnly /\ s \in inGroup /\ snk.decision = "None"
        hidden == options.committedOnly /\ s \in inGroup /\ snk.decision = "Aborted"
    IN [snk EXCEPT !.cp = s + 1,
                   !.staged = IF staged THEN @ \cup {s} ELSE @,
                   !.applied = IF staged \/ hidden THEN @ ELSE @ \cup {s}]

(* Stale(cp): charges of the appends a new checkpoint makes obsolete. *)
Stale(cp) == {s \in held : s < cp}

ReadyToApply == phase.at = "apply" /\ phase.todo > 0 /\ entry.cp \in held

ApplyNext ==
    /\ ReadyToApply
    /\ sink.cp = entry.cp
    /\ sink' = Applied(sink, entry.cp)
    /\ held' = held \ {entry.cp}
    /\ items' = items - 1
    /\ entry' = [entry EXCEPT !.cp = @ + 1]
    /\ shared' = [shared EXCEPT !.cp = entry.cp + 1]
    /\ phase' = [phase EXCEPT !.todo = @ - 1]
    /\ UNCHANGED <<logVars, up, writer, decider, commands, decisions, timers, replay, left>>

(* checkpoint_conflict_invalid: a conflict must be past the append at hand. *)
ConflictInvalid(expected, actual) == actual < expected + 1

(* Another owner, or a callback that failed after it committed, is ahead. *)
ApplyConflict ==
    /\ ReadyToApply
    /\ sink.cp # entry.cp
    /\ ~ConflictInvalid(entry.cp, sink.cp)
    /\ entry' = [entry EXCEPT !.cp = sink.cp]
    /\ held' = held \ Stale(sink.cp)
    /\ items' = items - Cardinality(Stale(sink.cp))
    /\ shared' = [shared EXCEPT !.cp = sink.cp]
    /\ phase' = [phase EXCEPT !.todo = @ - 1]
    /\ UNCHANGED <<logVars, up, writer, decider, commands, decisions, timers, sink, replay,
                   left>>

(* The callback fails or unwinds, before or after its transaction: the     *)
(* append goes back and the partition is deferred.                         *)
ApplyFails ==
    /\ ReadyToApply
    /\ Spend("faults")
    /\ \/ UNCHANGED sink
       \/ sink.cp = entry.cp /\ sink' = Applied(sink, entry.cp)
    /\ entry' = [entry EXCEPT !.retry = TRUE]
    /\ timers' = [timers EXCEPT !.wake = TRUE]
    /\ phase' = Receiving
    /\ UNCHANGED <<logVars, up, writer, decider, items, commands, held, decisions, shared,
                   replay>>

(* Mutant: a tick that used up its share sets no timer for the rest. *)
EndTickForgets ==
    /\ phase.at = "apply"
    /\ phase.todo = 0 \/ entry.cp \notin held
    /\ phase' = Receiving
    /\ UNCHANGED <<logVars, up, writer, decider, items, commands, entry, held, decisions,
                   timers, shared, sink, replay, left>>

(* Nothing more in order, or the tick's share is used up. *)
EndTick ==
    /\ phase.at = "apply"
    /\ phase.todo = 0 \/ entry.cp \notin held
    /\ timers' = [timers EXCEPT !.wake = @ \/ entry.cp \in held]
    /\ phase' = Receiving
    /\ UNCHANGED <<logVars, up, writer, decider, items, commands, entry, held, decisions,
                   shared, sink, replay, left>>

(* The sink is shared by the cluster: another owner advances it. *)
OtherOwner ==
    /\ sink.cp < MaxSeq /\ InLog(sink.cp)
    /\ Spend("others")
    /\ sink' = Applied(sink, sink.cp)
    /\ UNCHANGED <<logVars, up, writer, decider, items, commands, workerVars, shared, replay>>

-----------------------------------------------------------------------------
(* replay_sink, run by a restart and by the host for a dirty partition.    *)
(* Its ordinary form goes through the queues above; its bounded form sends *)
(* one command at a time on a free slot of the budget, never waits for     *)
(* one, and drains the command it entered.                                 *)
replayFrame == <<logVars, up, writer, decider, workerVars, sink, left>>

Goes(pc) == replay' = [replay EXCEPT !.pc = pc]

Ask(type) == Send([type |-> type, waits |-> TRUE])

EnterBounded(action, then) ==
    IF items < options.maxItems
    THEN /\ items' = items + 1
         /\ Send([type |-> "bounded", action |-> action, then |-> then])
         /\ Goes("entered")
    ELSE /\ replay' = IdleReplay
         /\ UNCHANGED <<items, commands>>

ReplayStart ==
    /\ replay.pc = "idle"
    /\ ~up \/ shared.dirty
    /\ \E strict \in options.modes :
          replay' = [IdleReplay EXCEPT !.pc = "load", !.strict = strict]
    /\ UNCHANGED <<replayFrame, shared, items, commands>>

(* checkpoint: the cached one, else asked of the worker. *)
ReplayCheckpoint ==
    /\ replay.pc = "load"
    /\ IF replay.strict THEN EnterBounded("checkpoint", "loaded")
       ELSE /\ UNCHANGED items
            /\ IF shared.cp = None THEN Ask("load") /\ Goes("asking")
               ELSE /\ replay' = [replay EXCEPT !.pc = "loaded", !.cp = shared.cp]
                    /\ UNCHANGED commands
    /\ UNCHANGED <<replayFrame, shared>>

(* The checkpoint must lie inside the retained log; the target is read now. *)
ReplayTarget ==
    /\ replay.pc = "loaded"
    /\ replay' = IF replay.cp < logStart \/ replay.cp > ContiguousEnd
                 THEN IdleReplay
                 ELSE [replay EXCEPT !.pc = "scan", !.target = ContiguousEnd]
    /\ UNCHANGED <<replayFrame, shared, items, commands>>

(* The batch at the checkpoint is handed over, and its group's decision, if *)
(* there is one, is noted.  enqueue_replay waits for its charge under      *)
(* either policy.                                                          *)
Scanned ==
    [replay EXCEPT !.pc = "scan", !.cp = @ + 1,
                   !.decided = @ \/ (replay.cp \in inGroup /\ group # "Unresolved")]

ReplayAppend ==
    /\ replay.pc = "scan" /\ replay.cp < replay.target
    /\ InLog(replay.cp)
    /\ IF replay.strict THEN EnterBounded("apply", "scanned")
       ELSE /\ items < options.maxItems
            /\ items' = items + 1
            /\ Send(AppendCommand(replay.cp))
            /\ replay' = Scanned
    /\ UNCHANGED <<replayFrame, shared>>

ReplayScanned ==
    /\ replay.pc = "scanned"
    /\ replay' = Scanned
    /\ UNCHANGED <<replayFrame, shared, items, commands>>

(* An aborted batch leaves no extent: the batch found does not follow the   *)
(* checkpoint, or none is found.                                           *)
ReplayGap ==
    /\ replay.pc = "scan" /\ replay.cp < replay.target
    /\ ~InLog(replay.cp)
    /\ replay' = IdleReplay
    /\ UNCHANGED <<replayFrame, shared, items, commands>>

(* enqueue_replay_decision for the group, if a decision is to be sent. *)
ReplayDecision(at, then) ==
    /\ replay.pc = at
    /\ at = "scan" => replay.cp = replay.target
    /\ IF ~(replay.decided /\ options.committedOnly) THEN Goes(then) /\ UNCHANGED <<items, commands>>
       ELSE IF replay.strict THEN EnterBounded("decision", then)
       ELSE /\ items < options.maxItems
            /\ items' = items + 1
            /\ Send(DecisionCommand(group))
            /\ Goes(then)
    /\ UNCHANGED <<replayFrame, shared>>

(* clear_dirty, whatever was dropped since the target was read. *)
ReplayClear ==
    /\ replay.pc = "clear"
    /\ shared' = [shared EXCEPT !.dirty = FALSE]
    /\ Goes(IF options.blocking THEN "wait" ELSE "collect")
    /\ UNCHANGED <<replayFrame, items, commands>>

(* wait_for and wait_for_decision.  The bounded form looks once. *)
CaughtUp ==
    /\ replay.pc = "wait" => shared.cp # None /\ shared.cp >= replay.target
    /\ replay.decided => shared.finalized

ReplayWaited ==
    /\ replay.pc \in {"wait", "settled"}
    /\ CaughtUp \/ (replay.pc = "settled" /\ ~options.blocking)
    /\ replay' = IF replay.pc = "wait" THEN [replay EXCEPT !.pc = "collect"] ELSE IdleReplay
    /\ up' = (up \/ replay.pc = "settled")
    /\ UNCHANGED <<logVars, writer, decider, workerVars, sink, left, shared, items, commands>>

(* recovery_timeout passes first, or the bounded form finds it too early:  *)
(* the replay fails; an answer that comes later is dropped.                *)
ReplayTimeout ==
    /\ \/ replay.pc \in {"wait", "settled"} /\ ~CaughtUp /\ (replay.pc = "settled" => options.blocking)
       \/ replay.pc = "asking"
    /\ replay' = IdleReplay
    /\ IF replay.strict THEN UNCHANGED left ELSE Spend("faults")
    /\ commands' = [i \in DOMAIN commands |->
                       IF commands[i].type \in {"load", "pending"}
                       THEN [commands[i] EXCEPT !.waits = FALSE] ELSE commands[i]]
    /\ UNCHANGED <<logVars, up, writer, decider, workerVars, sink, shared, items>>

(* collect_garbage up to the checkpoint, which the bounded form loads anew; *)
(* then pending_atomic_groups: what the sink has staged and not decided.   *)
ReplayCollect ==
    /\ replay.pc = "collect"
    /\ IF replay.strict THEN EnterBounded("checkpoint", "groups")
       ELSE Goes("groups") /\ UNCHANGED <<items, commands>>
    /\ UNCHANGED <<replayFrame, shared>>

ReplayGroups ==
    /\ replay.pc = "groups"
    /\ IF ~options.committedOnly
       THEN /\ replay' = [replay EXCEPT !.pc = "settle", !.decided = FALSE]
            /\ UNCHANGED <<items, commands>>
       ELSE IF replay.strict THEN EnterBounded("pending", "settle")
       ELSE Ask("pending") /\ Goes("asking") /\ UNCHANGED items
    /\ UNCHANGED <<replayFrame, shared>>

-----------------------------------------------------------------------------
(* The bounded commands on the worker (execute): the callback runs, what it *)
(* returned is published to the worker and then to the shared cache, the   *)
(* charge is dropped, and only then comes the reply.                       *)
PublishCheckpoint(cp, cached) ==
    /\ entry' = [loaded |-> TRUE, cp |-> cp, retry |-> FALSE]
    /\ held' = held \ Stale(cp)
    /\ items' = items - 1 - Cardinality(Stale(cp))
    /\ shared' = IF cached THEN [shared EXCEPT !.cp = cp] ELSE shared

Nothing == UNCHANGED <<entry, held, shared>> /\ items' = items - 1

(* The sink after a bounded callback, as the callback reports it. *)
AfterBounded(action) ==
    CASE action = "apply" /\ sink.cp = replay.cp -> Applied(sink, sink.cp)
      [] action = "decision" -> Decided(sink, group)
      [] OTHER -> sink

ExecuteBounded ==
    /\ Take("bounded")
    /\ LET action == Head(commands).action
           then == Head(commands).then
       IN /\ sink' = AfterBounded(action)
          /\ CASE action \in {"checkpoint", "apply"} -> PublishCheckpoint(sink'.cp, TRUE)
               [] action = "decision" ->
                    /\ shared' = [shared EXCEPT !.finalized = TRUE]
                    /\ items' = items - 1
                    /\ UNCHANGED <<entry, held>>
               [] action = "pending" -> Nothing
          /\ replay' = CASE action = "checkpoint" /\ then = "loaded" ->
                               [replay EXCEPT !.pc = then, !.cp = sink.cp]
                         [] action = "pending" ->
                               [replay EXCEPT !.pc = then,
                                  !.decided = sink.staged # {} /\ group # "Unresolved"]
                         [] OTHER -> [replay EXCEPT !.pc = then]
    /\ UNCHANGED <<logVars, up, writer, decider, decisions, timers, phase, left>>

(* The callback fails, or its effect stands and a later check, a contended  *)
(* cache lock or the expiry stops the publication on the way.              *)
BoundedFails ==
    /\ Take("bounded")
    /\ Spend("faults")
    /\ LET action == Head(commands).action IN
       \/ Nothing /\ UNCHANGED sink
       \/ Nothing /\ sink' = AfterBounded(action)
       \/ /\ action \in {"checkpoint", "apply"}
          /\ sink' = AfterBounded(action)
          /\ PublishCheckpoint(sink'.cp, FALSE)
    /\ replay' = IdleReplay
    /\ UNCHANGED <<logVars, up, writer, decider, decisions, timers, phase>>

-----------------------------------------------------------------------------
(* A restart: threads, queues, budget and caches are gone; the log keeps   *)
(* what was durable and may find a write that was in doubt; a hole below   *)
(* a durable batch stays a hole.  The engine then replays before serving.  *)
Recovered(found) ==
    [s \in Seqs |->
        IF InLog(s) \/ s \in found THEN "complete"
        ELSE IF \E t \in Seqs : t > s /\ (InLog(t) \/ t \in found) THEN "aborted"
        ELSE "free"]

Restart ==
    /\ Spend("crashes")
    /\ \E found \in SUBSET {s \in Seqs : wal[s] \in {"reserved", "unknown"}} :
          wal' = Recovered(found)
    /\ inGroup' = {s \in inGroup : wal'[s] = "complete"}
    /\ up' = FALSE
    /\ writer' = [w \in Writers |-> IdleWriter]
    /\ decider' = [pc |-> "idle", charged |-> FALSE]
    /\ items' = 0
    /\ commands' = <<>>
    /\ entry' = NoEntry
    /\ held' = {}
    /\ decisions' = <<>>
    /\ timers' = [flush |-> FALSE, wake |-> FALSE]
    /\ phase' = Receiving
    /\ shared' = [cp |-> None, finalized |-> FALSE, dirty |-> FALSE]
    /\ replay' = IdleReplay
    /\ UNCHANGED <<options, group, logStart, sink>>

WriterStep(w) ==
    \/ Charge(w) \/ Place(w, TRUE) \/ Place(w, FALSE) \/ PlaceRefused(w)
    \/ LaneSyncs(w) \/ LaneFails(w) \/ Enqueue(w) \/ Complete(w)

DecideStep ==
    \/ ReserveDecision \/ FinalizeGroup("Committed") \/ FinalizeGroup("Aborted")
    \/ FinalizeRefused \/ EnqueueDecision

WorkerStep ==
    \/ HandleAppend \/ HandleAppendUnloaded \/ HandleDecision
    \/ HandleLoad \/ HandlePending \/ AnswerFails
    \/ StartTick \/ DecisionApplied \/ DecisionDelayed \/ DecisionFails
    \/ RetryNotDue \/ StartReady \/ ApplyNext \/ ApplyConflict \/ ApplyFails \/ EndTick
    \/ ExecuteBounded \/ BoundedFails

ReplayStep ==
    \/ ReplayStart \/ ReplayCheckpoint \/ ReplayTarget \/ ReplayAppend \/ ReplayScanned
    \/ ReplayGap \/ ReplayDecision("scan", "clear") \/ ReplayClear \/ ReplayWaited
    \/ ReplayTimeout \/ ReplayCollect \/ ReplayGroups \/ ReplayDecision("settle", "settled")

SinkNext ==
    \/ \E w \in Writers : WriterStep(w)
    \/ DecideStep \/ WorkerStep \/ ReplayStep \/ Truncate \/ OtherOwner \/ Restart

-----------------------------------------------------------------------------
(* What the code promises.                                                 *)

(* The charges of the lag budget are those of the appends and decisions    *)
(* between a writer's reservation and the drop of the queued item: no      *)
(* path of enqueue, handle_command, process_ready, process_decisions or    *)
(* execute leaks one or drops one twice.                                   *)
ChargesExact ==
    items = Cardinality({w \in Writers : writer[w].charged
                                          /\ writer[w].pc \in {"charged", "placed", "durable"}})
            + (IF decider.charged THEN 1 ELSE 0)
            + Cardinality({i \in DOMAIN commands :
                             commands[i].type \in {"append", "decision", "bounded"}})
            + Cardinality(held) + Len(decisions)

(* A committed-only sink shows no chunk of a group before the group is      *)
(* committed and none of an aborted one, whichever of stage and decision   *)
(* reaches it first, whoever applies them, and across restarts.            *)
GroupsHidden ==
    /\ sink.applied \cap inGroup # {} => group = "Committed"
    /\ sink.decision # "None" => sink.decision = group

(* The checkpoint that pins retention, and the one the worker applies from, *)
(* never run ahead of the sink's own.                                      *)
CheckpointsBehindSink ==
    /\ shared.cp # None => shared.cp <= sink.cp
    /\ entry.loaded => entry.cp <= sink.cp

(* All three: no charge of the lag budget leaks, no group shows before its  *)
(* decision, and no cached checkpoint runs ahead of the sink               *)
(* (durable_sink.rs, durable_sink_resume.rs).                              *)
SinkSafe == ChargesExact /\ GroupsHidden /\ CheckpointsBehindSink

(* The sink's view of the log is SinkDelivery's. *)
Delivery == INSTANCE SinkDelivery WITH
    Appends <- Seqs, durable <- {s \in Seqs : InLog(s)}, delivered <- sink.cp,
    trimmed <- logStart

(* Queues, retries, conflicts, replays and restarts only ever deliver the   *)
(* durable appends in order, once by the checkpoint, and retention keeps   *)
(* what is not delivered: DurableSink implements SinkDelivery.             *)
DeliveryImplemented == Delivery!DeliverySpec

(* A notification that was dropped leaves the partition marked dirty until  *)
(* a replay has covered it (EXTENSIONS.md: such a partition "remains       *)
(* recoverable" by resume_durable_sink).                                   *)
Covered(s) ==
    \/ s < sink.cp \/ s \in held
    \/ \E i \in DOMAIN commands : commands[i].type = "append" /\ commands[i].seq = s
    \/ \E w \in Writers : writer[w].seq = s
    \/ replay.pc \in {"load", "asking", "entered", "loaded"}
    \/ replay.pc \in {"scan", "scanned"} /\ replay.cp <= s /\ s < replay.target

DroppedIsDirty ==
    up /\ ~shared.dirty => \A s \in Seqs : InLog(s) => Covered(s)

NoGapBelow(s) == \A t \in 0 .. s : InLog(t)

(* Backpressure, and no checkpoint load fails. *)
NothingDropped == ~options.availability /\ options.bounds.loads = 0

(* Unless notifications are dropped, an append in the log without a gap     *)
(* below it reaches the sink, through retries, conflicts and restarts.     *)
DeliveredEventually ==
    \A s \in Seqs : []<>(NoGapBelow(s) /\ NothingDropped => sink.cp > s)

(* The threads run; a timer that is set fires and a retry falls due; the    *)
(* host resumes dirty partitions, and its replay takes a slot of the       *)
(* budget that is free again and again.                                    *)
SinkFairness ==
    /\ \A w \in Writers :
          WF_sinkVars(PlaceRefused(w) \/ LaneSyncs(w) \/ Enqueue(w) \/ Complete(w))
    /\ WF_sinkVars(EnqueueDecision \/ FinalizeRefused)
    /\ WF_sinkVars(WorkerStep)
    /\ SF_sinkVars(StartTick) /\ SF_sinkVars(StartReady) /\ SF_sinkVars(DecisionApplied)
    /\ WF_sinkVars(ReplayStep) /\ SF_sinkVars(ReplayAppend)

(* A resume that scans the log ends. *)
ResumeEnds == replay.pc = "scan" ~> replay.pc # "scan"

SinkSpec == SinkInit /\ [][SinkNext]_sinkVars
FairSinkSpec == SinkSpec /\ SinkFairness
=============================================================================
